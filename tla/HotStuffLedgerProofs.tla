------------------------ MODULE HotStuffLedgerProofs ------------------------
(***************************************************************************)
(* HotStuff implements Ledger, for every number of replicas, quorum size   *)
(* and bound.  The chain of HotStuffProofs says what each step certifies   *)
(* and outputs; one thing is added, that nobody is ahead of the leader.    *)
(***************************************************************************)
EXTENDS HotStuffLedger, HotStuffProofs

----------------------------------------------------------------------------
(* Nobody has a higher certificate than the leader, who makes them.        *)

Behind == \A r \in Replicas : curBlock[r].height <= curBlock[0].height

\* The certificate in a proposal is one the leader has.
LEMMA ProposedBehind ==
  ASSUME IInv, NEW m \in net, HandleNormalMsg(m)
  PROVE  m.qc.height <= curBlock[0].height
<1>1. /\ m.seq <= Sequence[0] /\ m.qc.height = m.seq - 1
      /\ m.seq \in Seqs
  BY ProposalEffect DEF ProposalOfChain
<1>2. /\ Sequence[0] \in Nat /\ curBlock[0].height \in Nat
      /\ curStatus[0] \in {"READY", "PROCESSING"}
  BY FirstLeader DEF IInv, TypeInv, TypeOK, OneView, Blocks, Heights
<1>3. curBlock[0].height >= Sequence[0] - 1
  BY <1>2 DEF IInv, Leading
<1> QED
  BY <1>1, <1>2, <1>3 DEF Seqs

LEMMA NextBehind ==
  ASSUME IInv, Behind, [Next]_vars
  PROVE  Behind'
<1>1. /\ curBlock \in [Replicas -> Blocks]
      /\ 0 \in Replicas
      /\ \A r \in Replicas : curBlock[r].height \in Nat
  BY FirstLeader DEF IInv, TypeInv, TypeOK, Blocks, Heights
<1>2. ASSUME UNCHANGED curBlock PROVE Behind'
  BY <1>2 DEF Behind
<1>3. CASE UNCHANGED vars
  BY <1>2, <1>3 DEF vars, chainVars
<1>4. CASE \E i \in Replicas, v \in Views : RequestMonitor(i, v)
  BY <1>2, <1>4 DEF RequestMonitor, MonitorStart, MonitorCheckView, MonitorCheckStatus,
                    MonitorClaim, MonitorPropose, chainVars
<1>5. CASE \E i \in Replicas, req \in Requests : HandleRequest(i, req)
  BY <1>2, <1>5 DEF HandleRequest, chainVars
<1>6. CASE \E m \in net : HandleQCByteMsg(m)
  <2> PICK m \in net : HandleQCByteMsg(m)
    BY <1>6
  <2>1. CASE IgnoreMsg(m) \/ RejectProposal(m) \/ DropVote(m)
    BY <1>2, <2>1 DEF IgnoreMsg, RejectProposal, DropVote, chainVars
  <2>2. CASE HandleNormalMsg(m)
    <3>1. \A i \in Replicas : Climbs(i, m.qc)
      BY <2>2, ProposalEffect
    <3>2. \A i \in Replicas : \/ curBlock'[i] = curBlock[i]
                              \/ i # 0 /\ curBlock'[i] = m.qc
      BY <3>1 DEF Climbs
    <3>3. m.qc.height <= curBlock[0].height
      BY <2>2, ProposedBehind
    <3> QED
      BY <1>1, <3>2, <3>3 DEF Behind
  <2>3. CASE HandleNormalRepMsg(m)
    <3>1. \/ UNCHANGED curBlock
          \/ curBlock' = [curBlock EXCEPT ![m.dst] = NewQC(m.dst, m)]
      BY <2>3 DEF HandleNormalRepMsg
    <3>2. m.dst = 0
      BY <2>3, VoteForLast
    <3> QED
      BY <1>1, <3>1, <3>2 DEF Behind, NewQC
  <2> QED
    BY <2>1, <2>2, <2>3 DEF HandleQCByteMsg
<1> QED
  BY <1>3, <1>4, <1>5, <1>6 DEF Next

----------------------------------------------------------------------------
(* What steps show.                                                        *)

\* The leader's certificate is for a chain of the height it says.
LEMMA LedgerLength ==
  ASSUME IInv
  PROVE  /\ curBlock[0] \in Blocks /\ curBlock[0].hash \in Hashes
         /\ Len(curBlock[0].hash) = curBlock[0].height
<1>1. curBlock[0] \in Blocks /\ Sound(curBlock[0])
  BY FirstLeader DEF IInv, TypeInv, TypeOK, Certified
<1> QED
  BY <1>1, SoundExtends DEF Blocks

\* A quorum of votes certifies one block on top of the others.
LEMMA VoteCertifies ==
  ASSUME IInv, NEW m \in net, HandleNormalRepMsg(m)
  PROVE  Promise!Certify \/ UNCHANGED Promise!ledgerVars
<1>1. UNCHANGED committedBlocks
  BY DEF HandleNormalRepMsg
<1>2. UNCHANGED CommittedChains
  BY <1>1 DEF CommittedChains, CommittedHeights, Committed
<1>3. CASE UNCHANGED curBlock
  BY <1>2, <1>3 DEF CertifiedChain, Promise!ledgerVars
<1>4. CASE curBlock' = [curBlock EXCEPT ![m.dst] = NewQC(m.dst, m)]
  <2> DEFINE c == curBlock[0]
             A == awaitingBlocks[0]
  <2>1. curBlock'[0] = NewQC(0, m) /\ m.dst = 0
    BY <1>4, VoteForLast, FirstLeader DEF IInv, TypeInv, TypeOK
  <2>2. /\ c \in Blocks /\ Sound(c) /\ c.hash \in Hashes
        /\ c.height \in Nat
        /\ Len(c.hash) = c.height
    BY LedgerLength, FirstLeader DEF IInv, Certified, Blocks, Heights
  <2>3. /\ m.seq = c.height + 1
        /\ m.seq \in 1..Sequence[0]
        /\ m.hash \in Hashes /\ m.hash = A[m.seq]
    <3>1. m.type = "QCREP"
      BY DEF HandleNormalRepMsg
    <3>2. VoteOfChain(m) /\ m.seq \in Seqs /\ m.hash \in Hashes
      BY <3>1, MessageFields DEF IInv, Messages
    <3> QED
      BY <3>2, VoteForLast, FirstLeader DEF VoteOfChain, Seqs, IInv, TypeInv, TypeOK
  <2>4. curBlock'[0].hash = m.hash
    BY <2>1 DEF NewQC
  <2>5. Len(m.hash) = c.height + 1
    BY <2>3 DEF IInv, Chain
  <2>6. SubSeq(m.hash, 1, Len(c.hash)) = c.hash
    <3>1. CASE c.height = 0
      BY <2>2, <2>3, <3>1 DEF Hashes
    <3>2. CASE c.height \in 1..Sequence[0] /\ c.hash = A[c.height]
      <4>1. Extends(A[m.seq], A[c.height])
        BY <2>3, <3>2 DEF IInv, Chain
      <4> QED
        BY <2>3, <3>2, <4>1 DEF Extends
    <3> QED
      BY <2>2, <3>1, <3>2, BlockTypes DEF Sound, SoundIn
  <2> QED
    BY <1>2, <2>2, <2>3, <2>4, <2>5, <2>6 DEF CertifiedChain, Promise!Certify, Hashes
<1> QED
  BY <1>3, <1>4 DEF HandleNormalRepMsg

\* A block that is committed is the ledger up to its height.
LEMMA CommitIsLedger ==
  ASSUME IInv, NEW b \in Blocks, Sound(b), b.height <= curBlock[0].height
  PROVE  b.hash = SubSeq(curBlock[0].hash, 1, b.height)
<1>1. curBlock[0] \in Blocks /\ Sound(curBlock[0])
  BY FirstLeader DEF IInv, TypeInv, TypeOK, Certified
<1> QED
  BY <1>1, SoundExtends DEF Extends

\* A proposal commits nothing, or one block that has two more on top.
LEMMA ProposalOutputs ==
  ASSUME IInv, NEW m \in net, HandleNormalMsg(m)
  PROVE  \/ UNCHANGED committedBlocks
         \/ /\ lockedBlock[m.dst].height + 2 <= curBlock[0].height
            /\ committedBlocks' = CommitLocked(m.dst)
<1>1. CASE SkipQCInfo(m.dst, m.qc, m.seq)
  BY <1>1 DEF SkipQCInfo, chainVars
<1>2. CASE ProcessQCInfo(m.dst, m.qc, m.seq)
  <2>1. m.qc.height <= curBlock[0].height
    BY ProposedBehind
  <2>2. /\ m.qc.height \in Nat /\ curBlock[0].height \in Nat
        /\ lockedBlock[m.dst].height \in Nat
    BY ProposalEffect, FirstLeader, SMTT(30) DEF IInv, TypeInv, TypeOK, Blocks, Heights
  <2> QED
    BY <1>2, <2>1, <2>2 DEF ProcessQCInfo, LockCurrent, CommitsLocked
<1> QED
  BY <1>1, <1>2 DEF HandleNormalMsg

LEMMA ProposalShows ==
  ASSUME IInv, NEW m \in net, HandleNormalMsg(m)
  PROVE  \/ \E r \in Replicas : \E h \in 1..Len(CertifiedChain) : Promise!Output(r, h)
         \/ UNCHANGED Promise!ledgerVars
<1> DEFINE r == m.dst
           b == lockedBlock[r]
           h == b.height
           L == curBlock[0].hash
<1>1. /\ r \in Replicas /\ b \in Blocks /\ h \in Nat /\ h \in Heights
      /\ committedBlocks \in [Replicas -> [Heights -> Blocks \cup {NoBlock}]]
      /\ curBlock[0].height \in Nat
  BY ProposalEffect, FirstLeader DEF IInv, TypeInv, TypeOK, Blocks, Heights
<1>2. curBlock'[0] = curBlock[0]
  BY ProposalEffect, FirstLeader DEF Climbs
<1>3. CASE UNCHANGED committedBlocks
  BY <1>2, <1>3 DEF CertifiedChain, Promise!ledgerVars, CommittedChains, CommittedHeights,
                     Committed
<1>4. CASE h + 2 <= curBlock[0].height /\ committedBlocks' = CommitLocked(r)
  <2>1. \A s \in Replicas, g \in Heights :
          committedBlocks'[s][g] = IF s = r /\ g = h THEN b ELSE committedBlocks[s][g]
    BY <1>1, <1>4 DEF CommitLocked
  <2>2. Seqs \subseteq Heights
    BY ConstantsAssumption DEF Seqs, Heights
  <2>3. b # NoBlock
    BY <1>1, BlockTypes
  <2>4. CASE h = 0
    <3>1. h \notin Seqs
      BY <2>4 DEF Seqs
    <3>2. \A s \in Replicas, g \in Seqs : committedBlocks'[s][g] = committedBlocks[s][g]
      BY <2>1, <2>2, <3>1
    <3>3. \A s \in Replicas : CommittedHeights(s)' = CommittedHeights(s)
      BY <3>2 DEF CommittedHeights, Committed
    <3>4. CommittedChains' = CommittedChains
      BY <3>2, <3>3 DEF CommittedChains, CommittedHeights
    <3> QED
      BY <1>2, <3>4 DEF CertifiedChain, Promise!ledgerVars
  <2>5. CASE h # 0
    <3>1. h \in Seqs /\ h >= 1
      BY <1>1, <2>5 DEF Seqs, Heights
    <3>2. h \notin CommittedHeights(r)
      BY <1>1, <3>1 DEF CommittedHeights, IInv, Ladder
    <3>3. Len(L) = curBlock[0].height
      BY LedgerLength
    <3>4. b.hash = SubSeq(L, 1, h)
      BY <1>1, <1>4, CommitIsLedger DEF IInv, Certified
    <3>5. CommittedHeights(r)' = CommittedHeights(r) \cup {h}
      BY <1>1, <2>1, <2>2, <2>3, <3>1 DEF CommittedHeights, Committed
    <3>6. \A s \in Replicas \ {r} : CommittedHeights(s)' = CommittedHeights(s)
      BY <2>1, <2>2 DEF CommittedHeights, Committed
    <3>7. \A s \in Replicas : CommittedHeights(s) \subseteq Heights
      BY <2>2 DEF CommittedHeights
    <3> DEFINE out == [CommittedChains EXCEPT ![r] =
                         [g \in DOMAIN CommittedChains[r] \cup {h} |->
                            IF g = h THEN SubSeq(L, 1, h) ELSE CommittedChains[r][g]]]
    <3>8. ASSUME NEW s \in Replicas PROVE CommittedChains'[s] = out[s]
      <4>1. CommittedChains'[s] =
              [g \in CommittedHeights(s)' |-> committedBlocks'[s][g].hash]
        BY DEF CommittedChains
      <4>2. CASE s = r
        <5>1. DOMAIN CommittedChains[r] = CommittedHeights(r)
          BY <1>1 DEF CommittedChains
        <5>2. out[r] = [g \in CommittedHeights(r) \cup {h} |->
                          IF g = h THEN SubSeq(L, 1, h) ELSE CommittedChains[r][g]]
          BY <1>1, <5>1 DEF CommittedChains
        <5>3. \A g \in CommittedHeights(r) :
                CommittedChains[r][g] = committedBlocks[r][g].hash
          BY <1>1 DEF CommittedChains
        <5>4. \A g \in CommittedHeights(r) \cup {h} :
                committedBlocks'[r][g].hash =
                  IF g = h THEN SubSeq(L, 1, h) ELSE CommittedChains[r][g]
          BY <1>1, <2>1, <3>4, <3>7, <5>3
        <5> HIDE DEF out
        <5> QED
          BY <4>1, <4>2, <3>5, <5>2, <5>4
      <4>3. CASE s # r
        <5>1. out[s] = CommittedChains[s]
          BY <4>3 DEF CommittedChains
        <5>2. \A g \in CommittedHeights(s) : committedBlocks'[s][g] = committedBlocks[s][g]
          BY <2>1, <3>7, <4>3
        <5> QED
          BY <4>1, <4>3, <3>6, <5>1, <5>2 DEF CommittedChains
      <4> QED
        BY <4>2, <4>3
    <3>9. CommittedChains' = out
      BY <3>8 DEF CommittedChains
    <3>10. h \notin DOMAIN CommittedChains[r]
      BY <1>1, <3>2 DEF CommittedChains
    <3>11. Promise!Output(r, h)
      BY <1>2, <1>4, <3>1, <3>3, <3>9, <3>10 DEF CertifiedChain, Promise!Output
    <3> QED
      BY <1>1, <1>4, <3>1, <3>3, <3>11 DEF CertifiedChain
  <2> QED
    BY <2>4, <2>5
<1> QED
  BY <1>3, <1>4, ProposalOutputs

----------------------------------------------------------------------------

LEMMA InitShows == Init => Promise!LedgerInit
<1> SUFFICES ASSUME Init PROVE Promise!LedgerInit
  OBVIOUS
<1>1. curBlock[0].hash = << >>
  BY FirstLeader, BlockTypes DEF Init, InitProtocol, NilHash
<1>2. \A r \in Replicas : CommittedHeights(r) = {}
  BY ConstantsAssumption
     DEF Init, InitProtocol, CommittedHeights, Committed, Seqs, Heights
<1>3. CommittedChains = [r \in Replicas |-> [h \in {} |-> << >>]]
  BY <1>2 DEF CommittedChains
<1> QED
  BY <1>1, <1>3 DEF Promise!LedgerInit, CertifiedChain

LEMMA StepShows ==
  ASSUME IInv, [Next]_vars
  PROVE  [Promise!LedgerNext]_(Promise!ledgerVars)
<1>1. ASSUME UNCHANGED <<curBlock, committedBlocks>>
      PROVE  UNCHANGED Promise!ledgerVars
  BY <1>1 DEF CertifiedChain, Promise!ledgerVars, CommittedChains, CommittedHeights,
                     Committed
<1>2. CASE UNCHANGED vars
  BY <1>1, <1>2 DEF vars, chainVars
<1>3. CASE \E i \in Replicas, v \in Views : RequestMonitor(i, v)
  BY <1>1, <1>3 DEF RequestMonitor, MonitorStart, MonitorCheckView, MonitorCheckStatus,
                    MonitorClaim, MonitorPropose, chainVars
<1>4. CASE \E i \in Replicas, req \in Requests : HandleRequest(i, req)
  BY <1>1, <1>4 DEF HandleRequest, chainVars
<1>5. CASE \E m \in net : HandleQCByteMsg(m)
  <2> PICK m \in net : HandleQCByteMsg(m)
    BY <1>5
  <2>1. CASE IgnoreMsg(m) \/ RejectProposal(m) \/ DropVote(m)
    BY <1>1, <2>1 DEF IgnoreMsg, RejectProposal, DropVote, chainVars
  <2>2. CASE HandleNormalMsg(m)
    BY <2>2, ProposalShows DEF Promise!LedgerNext
  <2>3. CASE HandleNormalRepMsg(m)
    BY <2>3, VoteCertifies DEF Promise!LedgerNext
  <2> QED
    BY <2>1, <2>2, <2>3 DEF HandleQCByteMsg
<1> QED
  BY <1>2, <1>3, <1>4, <1>5 DEF Next

\* Every behaviour of the normal case is one of the ledger, seen through what
\* HandleNormalRepMsg certifies and ProcessQCInfo commits.
THEOREM LedgerImplemented == Spec => ImplementsLedger
<1>1. Spec => Promise!LedgerInit
  BY InitShows DEF Spec
<1>2. IInv /\ [Next]_vars => [Promise!LedgerNext]_(Promise!ledgerVars)
  BY StepShows
<1> QED
  BY <1>1, <1>2, Invariance, PTL DEF Spec, ImplementsLedger, Promise!LedgerSpec

----------------------------------------------------------------------------
(* Replicas and their leader.                                              *)

\* No replica has a certificate the leader does not have (only HandleNormalRepMsg
\* makes one).
THEOREM NobodyAhead == Spec => []Behind
<1>1. Init => Behind
  BY FirstLeader, BlockTypes DEF Init, InitProtocol, Behind
<1> QED
  BY <1>1, NextBehind, Invariance, PTL DEF Spec

----------------------------------------------------------------------------
(* What follows for clients, of any ledger and so of this one.             *)

LEMMA NextPrefixes ==
  ASSUME Promise!Prefixes, [Promise!LedgerNext]_(Promise!ledgerVars)
  PROVE  Promise!Prefixes'
<1>1. CASE UNCHANGED Promise!ledgerVars
  BY <1>1 DEF Promise!Prefixes, Promise!ledgerVars
<1>2. CASE Promise!Certify
  <2>1. \A h \in 1..Len(CertifiedChain) :
          SubSeq(CertifiedChain', 1, h) = SubSeq(CertifiedChain, 1, h)
    BY <1>2 DEF Promise!Certify, Promise!Prefixes
  <2> QED
    BY <1>2, <2>1 DEF Promise!Certify, Promise!Prefixes
<1>3. ASSUME NEW r \in Replicas, NEW h \in 1..Len(CertifiedChain), Promise!Output(r, h)
      PROVE  Promise!Prefixes'
  <2> DEFINE output == CommittedChains
             out == [g \in DOMAIN output[r] \cup {h} |->
                       IF g = h THEN SubSeq(CertifiedChain, 1, h) ELSE output[r][g]]
  <2>1. output' = [output EXCEPT ![r] = out] /\ CertifiedChain' = CertifiedChain
    BY <1>3 DEF Promise!Output
  <2>2. output'[r] = out /\ \A s \in Replicas \ {r} : output'[s] = output[s]
    BY <2>1 DEF Promise!Prefixes
  <2>3. \A g \in DOMAIN out :
          g \in 1..Len(CertifiedChain) /\ out[g] = SubSeq(CertifiedChain, 1, g)
    BY <1>3 DEF Promise!Prefixes
  <2>4. output' = [s \in Replicas |-> output'[s]]
    BY <2>1 DEF Promise!Prefixes
  <2> HIDE DEF out
  <2>5. out = [g \in DOMAIN out |-> out[g]]
    BY DEF out
  <2> QED
    BY <2>1, <2>2, <2>3, <2>4, <2>5, ZenonT(60) DEF Promise!Prefixes
<1> QED
  BY <1>1, <1>2, <1>3 DEF Promise!LedgerNext

LEMMA LedgerPrefixes == Promise!LedgerSpec => []Promise!Prefixes
<1>1. Promise!LedgerInit => Promise!Prefixes
  BY DEF Promise!LedgerInit, Promise!Prefixes
<1> QED
  BY <1>1, NextPrefixes, PTL DEF Promise!LedgerSpec

\* What ProcessQCInfo commits at a height is what is certified up to that height,
\* whatever is certified later.
THEOREM OutputsArePrefixes == Spec => []Promise!Prefixes
BY LedgerImplemented, LedgerPrefixes, PTL DEF ImplementsLedger

\* So clients see one output: two replicas commit one chain at one height.
THEOREM OneOutputHolds == Spec => []Promise!OneOutput
<1>1. Promise!Prefixes => Promise!OneOutput
  <2> SUFFICES ASSUME Promise!Prefixes, NEW r \in Replicas, NEW s \in Replicas,
                      NEW h \in DOMAIN CommittedChains[r] \cap DOMAIN CommittedChains[s]
               PROVE  CommittedChains[r][h] = CommittedChains[s][h]
    BY DEF Promise!OneOutput
  <2>1. /\ CommittedChains[r][h] = SubSeq(CertifiedChain, 1, h)
        /\ CommittedChains[s][h] = SubSeq(CertifiedChain, 1, h)
    BY DEF Promise!Prefixes
  <2> QED
    BY <2>1
<1> QED
  BY <1>1, OutputsArePrefixes, PTL
=============================================================================
