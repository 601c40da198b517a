-------------------------- MODULE ViewChangeProofs --------------------------
(***************************************************************************)
(* Proofs about ViewChange, for every number of replicas, quorum size and  *)
(* bound.  Blocks of several leaders may be certified at one height, so    *)
(* there is no chain to argue with (see MCFork).  What is left:            *)
(*  - a certificate names a quorum that accepted its block, because what   *)
(*    is accepted is never forgotten;                                      *)
(*  - views, blocks and locks only grow, because the lock never passes the *)
(*    block it is taken from;                                              *)
(*  - a leader is activated by a quorum that has reached its view;         *)
(*  - without stable storage a quorum has given up the view before that of *)
(*    any replica, because giving up is for good.                          *)
(***************************************************************************)
EXTENDS ViewChange, HotStuffProofs, FiniteSetTheorems

----------------------------------------------------------------------------
(* The inductive invariant.                                                *)

\* Heights are not bounded by MaxSeq any more; without a block there is no height.
Certs ==
  { c \in [view: Views, height: Nat, hash: Hashes, ids: SUBSET Replicas] :
      c.hash = NilHash => c.height = 0 }

\* (The messages of SleepyRec have other types and fields of their own.)
MsgFields(m) ==
  /\ m.src \in Replicas /\ m.dst \in Replicas
  /\ m.type \in {"QC", "QCREP", "VIEWCHANGE", "TIMEOUT", "TQC"} => m.view \in Views
  /\ m.type \in {"QC", "QCREP"} => m.seq \in Seqs /\ m.hash \in Hashes \ {NilHash}
  /\ m.type \in {"QC", "VIEWCHANGE"} => m.qc \in Certs
  /\ m.type \in {"TIMEOUT", "TQC"} => m.view < MaxView
  /\ m.type = "TQC" => m \in TQCMsgs

NormalTypes ==
  /\ view \in [Replicas -> Views]
  /\ curStatus \in [Replicas -> Status]
  /\ Sequence \in [Replicas -> Nat]
  /\ curBlock \in [Replicas -> Certs]
  /\ lockedBlock \in [Replicas -> Certs]
  /\ curHash \in [Replicas -> Hashes]
  /\ committedBlocks \in [Replicas -> [Heights -> Certs \cup {NoBlock}]]
  /\ receivedBlocksSet \in [Replicas -> SUBSET Hashes]
  /\ votes \in [Replicas -> SUBSET [hash: Hashes, id: Replicas]]
  /\ queue \in [Replicas -> Seq(Requests)]
  /\ monitor \in [Replicas -> [Views -> MonitorPoints]]
  /\ timers \in [Replicas -> SUBSET Views]

BufferTypes ==
  /\ vcBuffer \in [Replicas -> [Views -> SUBSET Replicas]]
  /\ vcPrepared \in [Replicas -> SUBSET Views]
  /\ timeoutBuffer \in [Replicas -> [Views -> SUBSET Replicas]]
  /\ tqcPrepared \in [Replicas -> SUBSET Views]

VTypes == NormalTypes /\ BufferTypes /\ \A m \in net : MsgFields(m)

\* A certificate that a quorum of replicas stands behind.
BackedIn(c, accepted) ==
  c.hash # NilHash => /\ Cardinality(c.ids) >= QuorumSize
                      /\ \A i \in c.ids : c.hash \in accepted[i]

Backed(c) == BackedIn(c, receivedBlocksSet)

BackedMsg(m) ==
  /\ m.type \in {"QC", "VIEWCHANGE"} => Backed(m.qc)
  /\ m.type = "QCREP" => m.hash \in receivedBlocksSet[m.src]

AllBacked ==
  /\ \A r \in Replicas : Backed(curBlock[r]) /\ Backed(lockedBlock[r])
  /\ \A r \in Replicas, h \in Heights : Committed(r, h) => Backed(committedBlocks[r][h])
  /\ \A m \in net : BackedMsg(m)
  /\ Collected

\* A quorum of replicas has reached view w.
ReachedIn(w, views) ==
  \E S \in SUBSET Replicas : Cardinality(S) >= QuorumSize /\ \A s \in S : views[s] >= w

Reached(w) == ReachedIn(w, view)

Handover ==
  /\ \A m \in net : m.type = "VIEWCHANGE" =>
       /\ m.view >= 1
       /\ view[m.src] >= m.view
       /\ m.dst = LeaderID(m.view)
  /\ \A r \in Replicas, w \in Views : \A s \in vcBuffer[r][w] : view[s] >= w
  /\ \A r \in Replicas, w \in Views \ {0} :
       ~MonitorAt(r, w, "off") => LeaderID(w) = r /\ Reached(w)

\* What is true of blocks, and what is true of leaders.  (A replica that wakes up
\* is in view 0 again: SleepyRec keeps the first and loses the second.)
BlockInv == VTypes /\ AllBacked /\ LockBelowBlock

VInv == BlockInv /\ Handover

----------------------------------------------------------------------------
(* The initial states.                                                     *)

LEMMA CertTypes ==
  /\ EmptyBlock \in Certs
  /\ NoBlock \notin Certs
  /\ 0 \in Views /\ 0 \in Heights /\ NilHash \in Hashes
<1>1. NilHash \in Hashes /\ 0 \in Views /\ 0 \in Heights /\ -1 \notin Nat
  BY ConstantsAssumption DEF NilHash, Hashes, Views, Heights
<1> QED
  BY <1>1 DEF EmptyBlock, NoBlock, Certs

\* An entry of a table, or of a table of tables, is replaced.
LEMMA EntryReplaced ==
  ASSUME NEW D, NEW d \in D, NEW r, NEW v
  PROVE  /\ \A f \in [Replicas -> D] : [f EXCEPT ![r] = d] \in [Replicas -> D]
         /\ \A f \in [Replicas -> [Views -> D]] :
              [f EXCEPT ![r][v] = d] \in [Replicas -> [Views -> D]]
OBVIOUS

LEMMA InitVInv == VCInit => VInv
<1> SUFFICES ASSUME VCInit PROVE VInv
  OBVIOUS
<1> USE CertTypes DEF VCInit, Init, InitProtocol, InitMonitors, InitClients, InitViewChange
<1>1. NormalTypes
  BY DEF NormalTypes, Status, MonitorPoints, Replicas
<1>2. BufferTypes /\ \A m \in net : MsgFields(m)
  BY DEF BufferTypes
<1>3. AllBacked
  BY DEF AllBacked, Backed, BackedIn, Committed, Collected, EmptyBlock
<1>4. LockBelowBlock
  BY DEF LockBelowBlock, EmptyBlock
<1>5. Handover
  BY DEF Handover, MonitorAt
<1> QED
  BY <1>1, <1>2, <1>3, <1>4, <1>5 DEF VInv, BlockInv, VTypes

----------------------------------------------------------------------------
(* A step never takes a replica back, and what is accepted stays accepted. *)

Grown ==
  /\ \A r \in Replicas :
       /\ view'[r] >= view[r]
       /\ curBlock'[r].height >= curBlock[r].height
       /\ lockedBlock'[r].height >= lockedBlock[r].height
  /\ \A r \in Replicas : receivedBlocksSet[r] \subseteq receivedBlocksSet'[r]

LEMMA BackedMore ==
  ASSUME VTypes, Grown, NEW c \in Certs, BackedIn(c, receivedBlocksSet)
  PROVE  BackedIn(c, receivedBlocksSet')
BY DEF BackedIn, Grown, Certs

LEMMA ReachedMore ==
  ASSUME VTypes, VTypes', Grown, NEW w \in Views, ReachedIn(w, view)
  PROVE  ReachedIn(w, view')
<1>1. PICK S \in SUBSET Replicas :
        Cardinality(S) >= QuorumSize /\ \A s \in S : view[s] >= w
  BY DEF ReachedIn
<1>2. \A s \in S : view'[s] >= w
  BY <1>1 DEF Grown, VTypes, NormalTypes, Views
<1> QED
  BY <1>1, <1>2 DEF ReachedIn

\* What a step that neither counts a vote nor takes a block over has to show.
LEMMA SameBlocks ==
  ASSUME BlockInv, VTypes', Grown,
         UNCHANGED <<curBlock, lockedBlock, committedBlocks, votes, receivedBlocksSet>>,
         \A m \in net' \ net : BackedMsg(m)
  PROVE  AllBacked' /\ LockBelowBlock'
<1>1. AllBacked'
  BY DEF BlockInv, AllBacked, BackedMsg, Backed, Committed, Collected
<1> QED
  BY <1>1 DEF BlockInv, LockBelowBlock

\* Certificates that were there are still backed.
LEMMA BackedStays ==
  ASSUME BlockInv, Grown
  PROVE  /\ \A s \in Replicas : /\ BackedIn(curBlock[s], receivedBlocksSet')
                               /\ BackedIn(lockedBlock[s], receivedBlocksSet')
         /\ \A s \in Replicas, h \in Heights :
              Committed(s, h) => BackedIn(committedBlocks[s][h], receivedBlocksSet')
         /\ \A x \in net : BackedMsg(x)'
<1>1. ASSUME NEW s \in Replicas
      PROVE  /\ BackedIn(curBlock[s], receivedBlocksSet')
             /\ BackedIn(lockedBlock[s], receivedBlocksSet')
  BY BackedMore DEF BlockInv, VTypes, NormalTypes, AllBacked, Backed
<1>2. ASSUME NEW s \in Replicas, NEW h \in Heights, Committed(s, h)
      PROVE  BackedIn(committedBlocks[s][h], receivedBlocksSet')
  <2>1. committedBlocks[s][h] \in Certs
    BY <1>2 DEF BlockInv, VTypes, NormalTypes, Committed
  <2>2. BackedIn(committedBlocks[s][h], receivedBlocksSet)
    BY <1>2 DEF BlockInv, AllBacked, Backed
  <2> QED
    BY <2>1, <2>2, BackedMore DEF BlockInv
<1>3. ASSUME NEW x \in net PROVE BackedMsg(x)'
  <2>1. x.src \in Replicas /\ (x.type \in {"QC", "VIEWCHANGE"} => x.qc \in Certs)
        /\ BackedMsg(x)
    BY DEF BlockInv, VTypes, MsgFields, AllBacked
  <2> QED
    BY <2>1, BackedMore DEF BlockInv, BackedMsg, Backed, Grown
<1> QED
  BY <1>1, <1>2, <1>3

\* What a step that activates no leader has to show.
LEMMA SameLeaders ==
  ASSUME BlockInv, VTypes', Grown, Handover,
         UNCHANGED vcBuffer,
         \A r \in Replicas, w \in Views \ {0} :
           MonitorAt(r, w, "off") => monitor'[r][w] = "off",
         \A m \in net' \ net : m.type = "VIEWCHANGE" =>
           m.view >= 1 /\ view'[m.src] >= m.view /\ m.dst = LeaderID(m.view)
  PROVE  Handover'
<1>1. \A m \in net' : m.type = "VIEWCHANGE" =>
        m.view >= 1 /\ view'[m.src] >= m.view /\ m.dst = LeaderID(m.view)
  <2> SUFFICES ASSUME NEW m \in net', m.type = "VIEWCHANGE", m \in net
               PROVE  m.view >= 1 /\ view'[m.src] >= m.view /\ m.dst = LeaderID(m.view)
    OBVIOUS
  <2>1. m.src \in Replicas /\ m.view \in Nat /\ view[m.src] \in Nat /\ view'[m.src] \in Nat
    BY DEF BlockInv, VTypes, NormalTypes, MsgFields, Views
  <2>2. m.view >= 1 /\ view[m.src] >= m.view /\ m.dst = LeaderID(m.view)
    BY DEF Handover
  <2>3. view'[m.src] >= view[m.src]
    BY <2>1 DEF Grown
  <2> QED
    BY <2>1, <2>2, <2>3
<1>2. \A r \in Replicas, w \in Views : \A s \in vcBuffer'[r][w] : view'[s] >= w
  <2> SUFFICES ASSUME NEW r \in Replicas, NEW w \in Views, NEW s \in vcBuffer[r][w]
               PROVE  view'[s] >= w
    OBVIOUS
  <2>1. s \in Replicas
    BY DEF BlockInv, VTypes, BufferTypes
  <2>2. view[s] \in Nat /\ view'[s] \in Nat /\ w \in Nat
    BY <2>1 DEF BlockInv, VTypes, NormalTypes, Views
  <2>3. view[s] >= w /\ view'[s] >= view[s]
    BY <2>1 DEF Handover, Grown
  <2> QED
    BY <2>2, <2>3
<1>3. \A r \in Replicas, w \in Views \ {0} :
        monitor'[r][w] # "off" => LeaderID(w) = r /\ ReachedIn(w, view')
  BY ReachedMore DEF BlockInv, Handover, MonitorAt, Reached
<1> QED
  BY <1>1, <1>2, <1>3 DEF Handover, MonitorAt, Reached

----------------------------------------------------------------------------
(* The steps of the normal case.                                           *)

LEMMA VCMonitorStep ==
  ASSUME BlockInv, NEW r \in Replicas, NEW v \in Views, RequestMonitor(r, v),
         UNCHANGED vcVars
  PROVE  Grown /\ BlockInv' /\ (Handover => Handover')
<1> USE DEF BlockInv, VTypes, NormalTypes, BufferTypes, MonitorPoints, MonitorGoto, Status,
            vcVars
<1>1. /\ UNCHANGED <<view, curBlock, lockedBlock, committedBlocks, votes,
                     receivedBlocksSet>>
      /\ monitor' \in [Replicas -> [Views -> MonitorPoints]]
      /\ \A s \in Replicas, w \in Views : MonitorAt(s, w, "off") => monitor'[s][w] = "off"
  <2>1. PICK p \in MonitorPoints, q \in MonitorPoints :
          p # "off" /\ MonitorAt(r, v, p) /\ MonitorGoto(r, v, q)
    BY DEF RequestMonitor, MonitorStart, MonitorCheckView, MonitorCheckStatus,
           MonitorClaim, MonitorPropose
  <2>2. UNCHANGED <<view, curBlock, lockedBlock, committedBlocks, votes,
                    receivedBlocksSet>>
    BY DEF RequestMonitor, MonitorStart, MonitorCheckView, MonitorCheckStatus,
           MonitorClaim, MonitorPropose, chainVars, voteVars
  <2> QED
    BY <2>1, <2>2 DEF MonitorAt
<1>2. /\ NormalTypes'
      /\ \A m \in net' \ net : MsgFields(m) /\ BackedMsg(m) /\ m.type = "QC"
  <2>1. CASE MonitorStart(r, v)
    BY <1>1, <2>1 DEF MonitorStart, chainVars, clientVars
  <2>2. CASE MonitorCheckView(r, v)
    BY <1>1, <2>2 DEF MonitorCheckView, chainVars, clientVars
  <2>3. CASE MonitorCheckStatus(r, v)
    BY <1>1, <2>3 DEF MonitorCheckStatus, chainVars, clientVars
  <2>4. CASE MonitorClaim(r, v)
    BY <1>1, <2>4 DEF MonitorClaim, chainVars, clientVars
  <2>5. CASE MonitorPropose(r, v)
    <3> DEFINE seq  == Sequence[r] + 1
               hash == ObtainCurHash(curHash[r], seq, Batch(r))
               qc   == FetchBlockInfo(r, seq)
    <3>1. seq \in Seqs
      BY <2>5, ConstantsAssumption DEF MonitorPropose, Seqs
    <3>2. Batch(r) \in Seq(Requests) /\ Rest(r) \in Seq(Requests)
      BY ConstantsAssumption DEF Batch, Rest, GrabSize, Smaller
    <3>3. hash \in Hashes \ {NilHash}
      <4>1. curHash[r] \in Hashes
        OBVIOUS
      <4>2. hash \in Hashes /\ Len(hash) = Len(curHash[r]) + 1
        BY <4>1, <3>1, <3>2, ChainTypes
      <4>3. Len(curHash[r]) \in Nat /\ Len(NilHash) = 0
        BY <4>1 DEF Hashes, NilHash
      <4> QED
        BY <4>2, <4>3
    <3>4. qc \in Certs /\ Backed(qc)
      BY CertTypes DEF FetchBlockInfo, AllBacked, Backed, BackedIn, EmptyBlock
    <3>5. /\ StartHotStuff(r, seq, hash)
          /\ queue' = [queue EXCEPT ![r] = Rest(r)]
          /\ UNCHANGED <<curStatus, timers>>
      BY <2>5 DEF MonitorPropose
    <3>6. net' = net \cup { Proposal(r, d, view[r], seq, hash, qc) : d \in Replicas }
      BY <3>5 DEF StartHotStuff
    <3> HIDE DEF seq, hash, qc
    <3>7. \A d \in Replicas : LET m == Proposal(r, d, view[r], seq, hash, qc)
                              IN  MsgFields(m) /\ BackedMsg(m) /\ m.type = "QC"
      BY <3>1, <3>3, <3>4 DEF Proposal, MsgFields, BackedMsg
    <3>8. \A m \in net' \ net : MsgFields(m) /\ BackedMsg(m) /\ m.type = "QC"
      BY <3>6, <3>7
    <3>9. NormalTypes'
      BY <1>1, <3>1, <3>2, <3>3, <3>5 DEF StartHotStuff, Seqs
    <3> QED
      BY <3>8, <3>9
  <2> QED
    BY <2>1, <2>2, <2>3, <2>4, <2>5 DEF RequestMonitor
<1>3. VTypes'
  BY <1>2
<1>4. Grown
  BY <1>1 DEF Grown, Certs, Views
<1>5. AllBacked' /\ LockBelowBlock'
  BY <1>1, <1>2, <1>3, <1>4, SameBlocks
<1>6. ASSUME Handover PROVE Handover'
  BY <1>6, <1>1, <1>2, <1>3, <1>4, SameLeaders
<1> QED
  BY <1>3, <1>4, <1>5, <1>6 DEF BlockInv

\* Dropped messages and client requests.
LEMMA VCQuietStep ==
  ASSUME BlockInv, UNCHANGED vcVars, net' \subseteq net,
         UNCHANGED <<view, curStatus, Sequence, chainVars, receivedBlocksSet, votes,
                     monitor, timers>>,
         queue' \in [Replicas -> Seq(Requests)]
  PROVE  Grown /\ BlockInv' /\ (Handover => Handover')
<1>1. VTypes'
  BY DEF BlockInv, VTypes, NormalTypes, BufferTypes, chainVars, vcVars
<1>2. Grown
  BY DEF Grown, BlockInv, VTypes, NormalTypes, Certs, Views, chainVars
<1>3. AllBacked' /\ LockBelowBlock'
  BY <1>1, <1>2, SameBlocks DEF chainVars
<1>4. ASSUME Handover PROVE Handover'
  BY <1>4, <1>1, <1>2, SameLeaders DEF MonitorAt, vcVars
<1>5. BlockInv'
  BY <1>1, <1>3 DEF BlockInv
<1> QED
  BY <1>2, <1>4, <1>5

LEMMA VCProposalStep ==
  ASSUME BlockInv, NEW m \in net, HandleNormalMsg(m), UNCHANGED vcVars
  PROVE  Grown /\ BlockInv' /\ (Handover => Handover')
<1> DEFINE r == m.dst
<1>1. /\ r \in Replicas /\ m.src \in Replicas /\ m.seq \in Seqs
      /\ m.hash \in Hashes \ {NilHash}
      /\ m.qc \in Certs /\ Backed(m.qc)
  BY DEF HandleNormalMsg, BlockInv, VTypes, MsgFields, AllBacked, BackedMsg
<1>2. m.qc.hash \in Hashes /\ m.qc.height \in Nat
      /\ curBlock[r].height \in Nat /\ lockedBlock[r].height \in Nat
  BY <1>1 DEF BlockInv, VTypes, NormalTypes, Certs
<1>3. /\ Sequence' \in {Sequence, [Sequence EXCEPT ![r] = Larger(@, m.seq)]}
      /\ committedBlocks' \in {committedBlocks, CommitLocked(r)}
      /\ lockedBlock' \in {lockedBlock, [lockedBlock EXCEPT ![r] = curBlock[r]]}
      /\ curHash' \in {curHash, [curHash EXCEPT ![r] = m.qc.hash]}
      /\ \/ curBlock' = curBlock
         \/ /\ m.qc.height > curBlock[r].height
            /\ curBlock' = [curBlock EXCEPT ![r] = m.qc]
  BY DEF HandleNormalMsg, SkipQCInfo, ProcessQCInfo, LockCurrent, AdoptsBlock, chainVars
<1>4. /\ receivedBlocksSet' = [receivedBlocksSet EXCEPT ![r] = @ \cup {m.hash}]
      /\ net' = (net \ {m}) \cup
           { Vote(r, d, view[r], m.seq, m.hash) : d \in VoteTargets(r, m.src) }
      /\ UNCHANGED <<view, curStatus, votes, queue, monitor, timers>>
  BY DEF HandleNormalMsg, voteVars, clientVars
<1>5. \A s \in Replicas :
        /\ curBlock[s].height \in Nat /\ lockedBlock[s].height \in Nat
        /\ lockedBlock[s].height <= curBlock[s].height
        /\ lockedBlock'[s] \in {lockedBlock[s], curBlock[s]}
        /\ \/ curBlock'[s] = curBlock[s]
           \/ curBlock'[s] = m.qc /\ m.qc.height > curBlock[s].height
        /\ \A h \in Heights :
             committedBlocks'[s][h] \in {committedBlocks[s][h], lockedBlock[s]}
  <2>1. \A s \in Replicas :
          /\ curBlock[s].height \in Nat /\ lockedBlock[s].height \in Nat
          /\ lockedBlock[s].height <= curBlock[s].height
    BY DEF BlockInv, VTypes, NormalTypes, Certs, LockBelowBlock
  <2>2. \A s \in Replicas : lockedBlock'[s] \in {lockedBlock[s], curBlock[s]}
    BY <1>1, <1>3 DEF BlockInv, VTypes, NormalTypes
  <2>3. \A s \in Replicas : \/ curBlock'[s] = curBlock[s]
                            \/ curBlock'[s] = m.qc /\ m.qc.height > curBlock[s].height
    BY <1>1, <1>3 DEF BlockInv, VTypes, NormalTypes
  <2>4. \A s \in Replicas, h \in Heights :
          committedBlocks'[s][h] \in {committedBlocks[s][h], lockedBlock[s]}
    <3>1. CASE committedBlocks' = committedBlocks
      BY <3>1
    <3>2. CASE committedBlocks' = CommitLocked(r)
      BY <3>2, <1>1 DEF CommitLocked, BlockInv, VTypes, NormalTypes
    <3> QED
      BY <3>1, <3>2, <1>3
  <2> QED
    BY <2>1, <2>2, <2>3, <2>4
<1>6. Grown
  <2>1. \A s \in Replicas : view[s] \in Nat /\ view'[s] = view[s]
    BY <1>4 DEF BlockInv, VTypes, NormalTypes, Views
  <2>2. \A s \in Replicas : /\ curBlock'[s].height >= curBlock[s].height
                            /\ lockedBlock'[s].height >= lockedBlock[s].height
    BY <1>2, <1>5
  <2>3. \A s \in Replicas : receivedBlocksSet[s] \subseteq receivedBlocksSet'[s]
    BY <1>4 DEF BlockInv, VTypes, NormalTypes
  <2> QED
    BY <2>1, <2>2, <2>3 DEF Grown
<1>7. \A x \in net' \ net : /\ x.type = "QCREP" /\ x.src = r /\ x.hash = m.hash
                            /\ MsgFields(x)
  <2>1. VoteTargets(r, m.src) \subseteq Replicas /\ view[r] \in Views
    BY <1>1 DEF VoteTargets, BlockInv, VTypes, NormalTypes
  <2>2. \A d \in VoteTargets(r, m.src) : LET x == Vote(r, d, view[r], m.seq, m.hash)
          IN  x.type = "QCREP" /\ x.src = r /\ x.hash = m.hash /\ MsgFields(x)
    BY <2>1, <1>1 DEF Vote, MsgFields
  <2> QED
    BY <2>2, <1>4
<1>8. VTypes'
  <2>1. Larger(Sequence[r], m.seq) \in Nat
    BY <1>1 DEF Larger, BlockInv, VTypes, NormalTypes, Seqs
  <2>2. Sequence' \in [Replicas -> Nat]
    BY <1>1, <1>3, <2>1, ZenonT(60) DEF BlockInv, VTypes, NormalTypes
  <2>3. curBlock' \in [Replicas -> Certs] /\ lockedBlock' \in [Replicas -> Certs]
    BY <1>1, <1>3, ZenonT(60) DEF BlockInv, VTypes, NormalTypes
  <2>4. curHash' \in [Replicas -> Hashes]
    BY <1>2, <1>3 DEF BlockInv, VTypes, NormalTypes
  <2>5. committedBlocks' \in [Replicas -> [Heights -> Certs \cup {NoBlock}]]
    <3> DEFINE D == Certs \cup {NoBlock}
    <3>1. committedBlocks \in [Replicas -> [Heights -> D]] /\ lockedBlock[r] \in D
      BY <1>1 DEF BlockInv, VTypes, NormalTypes
    <3> HIDE DEF D
    <3>2. [committedBlocks[r] EXCEPT ![lockedBlock[r].height] = lockedBlock[r]]
            \in [Heights -> D]
      BY <3>1, <1>1
    <3>3. CommitLocked(r) \in [Replicas -> [Heights -> D]]
      BY <3>1, <3>2, <1>1 DEF CommitLocked
    <3> QED
      BY <3>1, <3>3, <1>3 DEF D
  <2>6. NormalTypes'
    BY <2>2, <2>3, <2>4, <2>5, <1>1, <1>4 DEF BlockInv, VTypes, NormalTypes
  <2> QED
    BY <2>6, <1>7 DEF BlockInv, VTypes, BufferTypes, vcVars
<1>9. AllBacked'
  <2>1. BackedIn(m.qc, receivedBlocksSet')
    BY <1>1, <1>6, BackedMore DEF BlockInv, Backed
  <2>2. \A s \in Replicas : /\ BackedIn(curBlock'[s], receivedBlocksSet')
                            /\ BackedIn(lockedBlock'[s], receivedBlocksSet')
    BY <2>1, <1>5, <1>6, BackedStays
  <2>3. \A s \in Replicas, h \in Heights :
          committedBlocks'[s][h] # NoBlock => BackedIn(committedBlocks'[s][h], receivedBlocksSet')
    BY <1>5, <1>6, BackedStays DEF Committed
  <2>4. \A x \in net' \ net : BackedMsg(x)'
    BY <1>1, <1>4, <1>7 DEF BackedMsg, BlockInv, VTypes, NormalTypes
  <2>5. \A x \in net' : BackedMsg(x)'
    BY <2>4, <1>6, BackedStays
  <2>6. Collected'
    BY <1>4, <1>6 DEF BlockInv, VTypes, NormalTypes, AllBacked, Collected, Grown
  <2> QED
    BY <2>2, <2>3, <2>5, <2>6 DEF AllBacked, Backed, Committed
<1>10. ASSUME Handover PROVE Handover'
  BY <1>10, <1>4, <1>6, <1>7, <1>8, SameLeaders DEF MonitorAt, vcVars
<1>11. LockBelowBlock'
  BY <1>5, <1>2 DEF LockBelowBlock
<1>12. BlockInv'
  BY <1>8, <1>9, <1>11 DEF BlockInv
<1> QED
  BY <1>6, <1>10, <1>12

LEMMA VCVoteStep ==
  ASSUME BlockInv, NEW m \in net, HandleNormalRepMsg(m), UNCHANGED vcVars
  PROVE  Grown /\ BlockInv' /\ (Handover => Handover')
<1> DEFINE r == m.dst
<1>1. /\ r \in Replicas /\ m.src \in Replicas /\ m.hash \in Hashes \ {NilHash}
      /\ m.hash \in receivedBlocksSet[m.src]
  BY DEF HandleNormalRepMsg, BlockInv, VTypes, MsgFields, AllBacked, BackedMsg
<1>2. Cardinality(Voters(r, m)) >= QuorumSize
         => NewQC(r, m) \in Certs /\ BackedIn(NewQC(r, m), receivedBlocksSet)
  <2>1. Voters(r, m) \subseteq Replicas /\ \A i \in Voters(r, m) : m.hash \in receivedBlocksSet[i]
    BY <1>1 DEF Voters, BlockInv, VTypes, NormalTypes, AllBacked, Collected
  <2>2. curBlock[r].height + 1 \in Nat /\ view[r] \in Views
    BY <1>1 DEF BlockInv, VTypes, NormalTypes, Certs
  <2> QED
    BY <2>1, <2>2, <1>1 DEF NewQC, Certs, BackedIn
<1>3. /\ votes' = [votes EXCEPT ![r] = @ \cup {[hash |-> m.hash, id |-> m.src]}]
      /\ curStatus' \in {curStatus, [curStatus EXCEPT ![r] = "READY"]}
      /\ \/ curBlock' = curBlock
         \/ /\ Cardinality(Voters(r, m)) >= QuorumSize
            /\ curBlock' = [curBlock EXCEPT ![r] = NewQC(r, m)]
      /\ net' = net \ {m}
      /\ UNCHANGED <<view, Sequence, lockedBlock, curHash, committedBlocks,
                     receivedBlocksSet, queue, monitor, timers>>
  BY DEF HandleNormalRepMsg, clientVars
<1>4. \A s \in Replicas :
        /\ curBlock[s].height \in Nat /\ lockedBlock[s].height \in Nat
        /\ lockedBlock[s].height <= curBlock[s].height
        /\ \/ curBlock'[s] = curBlock[s]
           \/ /\ curBlock'[s] = NewQC(r, m) /\ curBlock'[s].height = curBlock[s].height + 1
              /\ Cardinality(Voters(r, m)) >= QuorumSize
  <2>1. \A s \in Replicas :
          /\ curBlock[s].height \in Nat /\ lockedBlock[s].height \in Nat
          /\ lockedBlock[s].height <= curBlock[s].height
    BY DEF BlockInv, VTypes, NormalTypes, Certs, LockBelowBlock
  <2>2. NewQC(r, m).height = curBlock[r].height + 1
    BY DEF NewQC
  <2>3. \A s \in Replicas : \/ curBlock'[s] = curBlock[s]
                            \/ /\ s = r /\ curBlock'[s] = NewQC(r, m)
                               /\ Cardinality(Voters(r, m)) >= QuorumSize
    BY <1>1, <1>3 DEF BlockInv, VTypes, NormalTypes
  <2> QED
    BY <2>1, <2>2, <2>3
<1>5. Grown
  BY <1>3, <1>4 DEF Grown, BlockInv, VTypes, NormalTypes, Views
<1>6. VTypes'
  <2>1. curBlock' \in [Replicas -> Certs]
    BY <1>1, <1>2, <1>3 DEF BlockInv, VTypes, NormalTypes
  <2>2. [hash |-> m.hash, id |-> m.src] \in [hash: Hashes, id: Replicas]
    BY <1>1
  <2>3. votes' \in [Replicas -> SUBSET [hash: Hashes, id: Replicas]]
    BY <1>1, <1>3, <2>2 DEF BlockInv, VTypes, NormalTypes
  <2>4. curStatus' \in [Replicas -> Status]
    BY <1>1, <1>3 DEF BlockInv, VTypes, NormalTypes, Status
  <2>5. NormalTypes'
    BY <2>1, <2>3, <2>4, <1>3 DEF BlockInv, VTypes, NormalTypes
  <2> QED
    BY <2>5, <1>3 DEF BlockInv, VTypes, BufferTypes, vcVars
<1>7. AllBacked'
  <2>1. \A s \in Replicas : BackedIn(curBlock'[s], receivedBlocksSet')
    BY <1>2, <1>3, <1>4, <1>5, BackedStays
  <2>2. /\ \A s \in Replicas : BackedIn(lockedBlock'[s], receivedBlocksSet')
        /\ \A s \in Replicas, h \in Heights :
             committedBlocks'[s][h] # NoBlock => BackedIn(committedBlocks'[s][h], receivedBlocksSet')
        /\ \A x \in net' : BackedMsg(x)'
    BY <1>3, <1>5, BackedStays DEF Committed
  <2>3. Collected'
    BY <1>1, <1>3 DEF BlockInv, VTypes, NormalTypes, AllBacked, Collected
  <2> QED
    BY <2>1, <2>2, <2>3 DEF AllBacked, Backed, Committed
<1>8. LockBelowBlock'
  BY <1>3, <1>4 DEF LockBelowBlock
<1>9. ASSUME Handover PROVE Handover'
  BY <1>9, <1>3, <1>5, <1>6, SameLeaders DEF MonitorAt, vcVars
<1>10. BlockInv'
  BY <1>6, <1>7, <1>8 DEF BlockInv
<1> QED
  BY <1>5, <1>9, <1>10

----------------------------------------------------------------------------
(* The steps of the view change.                                           *)

LEMMA StartVCStep ==
  ASSUME BlockInv, NEW r \in Replicas, NEW v \in Views, v >= view[r], v < MaxView,
         NEW rest, StartViewChange(r, v, rest),
         \A m \in rest \ net : m.type = "TQC" /\ MsgFields(m),
         UNCHANGED <<vcBuffer, vcPrepared>>, BufferTypes'
  PROVE  Grown /\ BlockInv' /\ (Handover => Handover')
<1> DEFINE w == v + 1
           msg == ViewChangeMsg(r, LeaderID(w), w, curBlock[r])
<1>1. /\ view' = [view EXCEPT ![r] = w]
      /\ curStatus' \in {[curStatus EXCEPT ![r] = "VIEWCHANGE"],
                         [curStatus EXCEPT ![r] = "READY"]}
      /\ timers' = [timers EXCEPT ![r] = Rearmed(r, w)]
      /\ net' = rest \cup {msg}
      /\ UNCHANGED <<Sequence, curBlock, lockedBlock, curHash, committedBlocks,
                     receivedBlocksSet, votes, queue, monitor>>
  BY DEF StartViewChange, chainVars, voteVars, clientVars
<1>2. w \in Views /\ w \in Nat /\ w > view[r] /\ view[r] \in Nat /\ w >= 1
  BY ConstantsAssumption DEF BlockInv, VTypes, NormalTypes, Views
<1>3. LeaderID(w) \in Replicas
  BY <1>2, ConstantsAssumption DEF LeaderID, Replicas, Views
<1>4. \A s \in Replicas : view[s] \in Nat /\ view'[s] \in {view[s], IF s = r THEN w ELSE view[s]}
  BY <1>1 DEF BlockInv, VTypes, NormalTypes, Views
<1>5. Grown
  <2>1. \A s \in Replicas : /\ curBlock'[s].height >= curBlock[s].height
                            /\ lockedBlock'[s].height >= lockedBlock[s].height
    BY <1>1 DEF BlockInv, VTypes, NormalTypes, Certs
  <2>2. \A s \in Replicas : view'[s] >= view[s]
    BY <1>2, <1>4
  <2> QED
    BY <2>1, <2>2, <1>1 DEF Grown
<1>6. /\ MsgFields(msg) /\ BackedMsg(msg)
      /\ msg.type = "VIEWCHANGE" /\ msg.view = w /\ msg.src = r /\ msg.dst = LeaderID(w)
  BY <1>2, <1>3 DEF ViewChangeMsg, MsgFields, BackedMsg, BlockInv, VTypes, NormalTypes, AllBacked
<1>7. \A m \in net' \ net : MsgFields(m) /\ (m = msg \/ m.type = "TQC")
  BY <1>1, <1>6
<1> HIDE DEF w, msg
<1>8. VTypes'
  <2>1. NormalTypes'
    <3>1. view' \in [Replicas -> Views]
      BY <1>1, <1>2 DEF BlockInv, VTypes, NormalTypes
    <3>2. curStatus' \in [Replicas -> Status]
      BY <1>1 DEF BlockInv, VTypes, NormalTypes, Status
    <3>3. timers' \in [Replicas -> SUBSET Views]
      <4>1. Rearmed(r, w) \in SUBSET Views
        BY <1>2 DEF Rearmed, BlockInv, VTypes, NormalTypes
      <4> QED
        BY <4>1, <1>1 DEF BlockInv, VTypes, NormalTypes
    <3> QED
      BY <3>1, <3>2, <3>3, <1>1 DEF BlockInv, VTypes, NormalTypes
  <2> QED
    BY <2>1, <1>7 DEF BlockInv, VTypes
<1>9. AllBacked' /\ LockBelowBlock'
  <2>1. \A m \in net' \ net : BackedMsg(m)
    BY <1>6, <1>7 DEF BackedMsg
  <2> QED
    BY <2>1, <1>1, <1>5, <1>8, SameBlocks
<1>10. ASSUME Handover PROVE Handover'
  <2>1. view'[r] = w
    BY <1>1 DEF BlockInv, VTypes, NormalTypes
  <2>2. \A m \in net' \ net : m.type = "VIEWCHANGE" =>
          m.view >= 1 /\ view'[m.src] >= m.view /\ m.dst = LeaderID(m.view)
    BY <2>1, <1>2, <1>6, <1>7
  <2> QED
    BY <2>2, <1>1, <1>5, <1>8, <1>10, SameLeaders DEF MonitorAt
<1>11. BlockInv'
  BY <1>8, <1>9 DEF BlockInv
<1> QED
  BY <1>5, <1>10, <1>11

LEMMA TimeoutPersistentStep ==
  ASSUME BlockInv, NEW r \in Replicas, NEW v \in Views, TimeoutPersistent(r, v)
  PROVE  Grown /\ BlockInv' /\ (Handover => Handover')
<1>1. /\ v >= view[r] /\ v < MaxView
      /\ StartViewChange(r, v, net)
      /\ UNCHANGED <<vcBuffer, vcPrepared>> /\ BufferTypes'
  BY DEF TimeoutPersistent, TimerFires, vcVars, BlockInv, VTypes, BufferTypes
<1> QED
  BY <1>1, StartVCStep

LEMMA TQCStep ==
  ASSUME BlockInv, NEW m \in net, HandleTQCMsg(m)
  PROVE  Grown /\ BlockInv' /\ (Handover => Handover')
<1> DEFINE r == m.dst
           forwarded == IF m.view \in tqcPrepared[r] THEN {}
                        ELSE { [m EXCEPT !.dst = d] : d \in Replicas \ {r} }
           rest == (net \ {m}) \cup forwarded
<1>1. /\ r \in Replicas /\ m.view \in Views /\ m.type = "TQC" /\ MsgFields(m)
      /\ m.view < MaxView /\ m \in TQCMsgs
      /\ m.view >= view[r]
  BY DEF HandleTQCMsg, IgnoresVCMsg, BlockInv, VTypes, NormalTypes, MsgFields, Views
<1>2. StartViewChange(r, m.view, rest) /\ UNCHANGED <<vcBuffer, vcPrepared>>
  BY DEF HandleTQCMsg
<1>3. \A x \in rest \ net : x.type = "TQC" /\ MsgFields(x)
  <2>1. \A d \in Replicas : LET x == [m EXCEPT !.dst = d]
                            IN  x \in TQCMsgs /\ x.type = "TQC" /\ x.view = m.view
    BY <1>1 DEF TQCMsgs
  <2>2. \A x \in TQCMsgs : x.view < MaxView => MsgFields(x)
    BY DEF TQCMsgs, MsgFields
  <2> QED
    BY <2>1, <2>2, <1>1
<1>4. BufferTypes'
  <2>1. m.ids \subseteq Replicas
    BY <1>1 DEF TQCMsgs
  <2>2. /\ timeoutBuffer' \in {timeoutBuffer, [timeoutBuffer EXCEPT ![r][m.view] = m.ids]}
        /\ tqcPrepared' \in {tqcPrepared, [tqcPrepared EXCEPT ![r] = @ \cup {m.view}]}
    BY DEF HandleTQCMsg
  <2>3. timeoutBuffer' \in [Replicas -> [Views -> SUBSET Replicas]]
    <3> DEFINE D == SUBSET Replicas
    <3>1. timeoutBuffer \in [Replicas -> [Views -> D]] /\ m.ids \in D
      BY <2>1 DEF BlockInv, VTypes, BufferTypes
    <3> HIDE DEF D
    <3>2. [timeoutBuffer EXCEPT ![r][m.view] = m.ids] \in [Replicas -> [Views -> D]]
      BY <3>1, EntryReplaced
    <3> QED
      BY <2>2, <3>1, <3>2 DEF D
  <2>4. tqcPrepared' \in [Replicas -> SUBSET Views]
    <3> DEFINE D == SUBSET Views
               new == tqcPrepared[r] \cup {m.view}
    <3>1. tqcPrepared \in [Replicas -> D] /\ new \in D
      BY <1>1 DEF BlockInv, VTypes, BufferTypes
    <3>2. tqcPrepared' \in {tqcPrepared, [tqcPrepared EXCEPT ![r] = new]}
      BY <2>2
    <3> HIDE DEF D, new
    <3>3. [tqcPrepared EXCEPT ![r] = new] \in [Replicas -> D]
      BY <3>1, EntryReplaced
    <3> QED
      BY <3>1, <3>2, <3>3 DEF D
  <2> QED
    BY <2>3, <2>4, <1>2 DEF BlockInv, VTypes, BufferTypes
<1> HIDE DEF rest
<1> QED
  BY <1>1, <1>2, <1>3, <1>4, StartVCStep

LEMMA TimeoutInMemoryStep ==
  ASSUME BlockInv, NEW r \in Replicas, NEW v \in Views, TimeoutInMemory(r, v)
  PROVE  Grown /\ BlockInv' /\ (Handover => Handover')
<1>1. /\ v < MaxView
      /\ curStatus' = [curStatus EXCEPT ![r] = "VIEWCHANGE"]
      /\ timers' = [timers EXCEPT ![r] = @ \ {v}]
      /\ net' = net \cup { TimeoutMsg(r, d, v) : d \in Replicas }
      /\ UNCHANGED <<view, Sequence, curBlock, lockedBlock, curHash, committedBlocks,
                     receivedBlocksSet, votes, queue, monitor, vcVars>>
  BY DEF TimeoutInMemory, TimerFires, chainVars, voteVars, clientVars
<1>2. Grown
  BY <1>1 DEF Grown, BlockInv, VTypes, NormalTypes, Certs, Views
<1>3. \A m \in net' \ net : MsgFields(m) /\ m.type = "TIMEOUT"
  <2>1. \A d \in Replicas : LET m == TimeoutMsg(r, d, v)
                            IN  MsgFields(m) /\ m.type = "TIMEOUT"
    BY <1>1 DEF TimeoutMsg, MsgFields
  <2> QED
    BY <2>1, <1>1
<1>4. VTypes'
  <2>1. NormalTypes'
    BY <1>1 DEF BlockInv, VTypes, NormalTypes, Status
  <2> QED
    BY <2>1, <1>1, <1>3 DEF BlockInv, VTypes, BufferTypes, vcVars
<1>5. AllBacked' /\ LockBelowBlock'
  BY <1>1, <1>2, <1>3, <1>4, SameBlocks DEF BackedMsg
<1>6. ASSUME Handover PROVE Handover'
  BY <1>6, <1>1, <1>2, <1>3, <1>4, SameLeaders DEF MonitorAt, vcVars
<1>7. BlockInv'
  BY <1>4, <1>5 DEF BlockInv
<1> QED
  BY <1>2, <1>6, <1>7

LEMMA TimeoutMsgStep ==
  ASSUME BlockInv, NEW m \in net, HandleTimeoutMsg(m)
  PROVE  Grown /\ BlockInv' /\ (Handover => Handover')
<1> DEFINE r == m.dst
           ids == timeoutBuffer[r][m.view] \cup {m.src}
<1>1. /\ r \in Replicas /\ m.src \in Replicas /\ m.view \in Views /\ m.view < MaxView
      /\ ids \subseteq Replicas
  BY DEF HandleTimeoutMsg, BlockInv, VTypes, BufferTypes, MsgFields
<1>2. /\ timeoutBuffer' = [timeoutBuffer EXCEPT ![r][m.view] = ids]
      /\ tqcPrepared' \in {tqcPrepared, [tqcPrepared EXCEPT ![r] = @ \cup {m.view}]}
      /\ net' \subseteq net \cup { TQCMsg(r, d, m.view, ids) : d \in Replicas }
      /\ UNCHANGED <<view, curStatus, Sequence, curBlock, lockedBlock, curHash,
                     committedBlocks, receivedBlocksSet, votes, queue, monitor,
                     timers, vcBuffer, vcPrepared>>
  BY DEF HandleTimeoutMsg, chainVars, voteVars, clientVars
<1>3. Grown
  BY <1>2 DEF Grown, BlockInv, VTypes, NormalTypes, Certs, Views
<1>4. \A x \in net' \ net : MsgFields(x) /\ x.type = "TQC"
  <2>1. \A d \in Replicas : LET x == TQCMsg(r, d, m.view, ids)
                            IN  MsgFields(x) /\ x.type = "TQC"
    BY <1>1 DEF TQCMsg, TQCMsgs, MsgFields
  <2> QED
    BY <2>1, <1>2
<1>5. BufferTypes'
  <2>1. timeoutBuffer' \in [Replicas -> [Views -> SUBSET Replicas]]
    <3> DEFINE D == SUBSET Replicas
    <3>1. timeoutBuffer \in [Replicas -> [Views -> D]] /\ ids \in D
      BY <1>1 DEF BlockInv, VTypes, BufferTypes
    <3>2. timeoutBuffer' = [timeoutBuffer EXCEPT ![r][m.view] = ids]
      BY <1>2
    <3> HIDE DEF D, ids
    <3>3. [timeoutBuffer EXCEPT ![r][m.view] = ids] \in [Replicas -> [Views -> D]]
      BY <3>1, EntryReplaced
    <3> QED
      BY <3>2, <3>3 DEF D
  <2>2. tqcPrepared' \in [Replicas -> SUBSET Views]
    <3> DEFINE D == SUBSET Views
               new == tqcPrepared[r] \cup {m.view}
    <3>1. tqcPrepared \in [Replicas -> D] /\ new \in D
      BY <1>1 DEF BlockInv, VTypes, BufferTypes
    <3>2. tqcPrepared' \in {tqcPrepared, [tqcPrepared EXCEPT ![r] = new]}
      BY <1>2
    <3> HIDE DEF D, new
    <3>3. [tqcPrepared EXCEPT ![r] = new] \in [Replicas -> D]
      BY <3>1, EntryReplaced
    <3> QED
      BY <3>1, <3>2, <3>3 DEF D
  <2> QED
    BY <2>1, <2>2, <1>2 DEF BlockInv, VTypes, BufferTypes
<1>6. VTypes'
  BY <1>2, <1>4, <1>5 DEF BlockInv, VTypes, NormalTypes
<1>7. AllBacked' /\ LockBelowBlock'
  BY <1>2, <1>3, <1>4, <1>6, SameBlocks DEF BackedMsg
<1>8. ASSUME Handover PROVE Handover'
  BY <1>8, <1>2, <1>3, <1>4, <1>6, SameLeaders DEF MonitorAt
<1>9. BlockInv'
  BY <1>6, <1>7 DEF BlockInv
<1> QED
  BY <1>3, <1>8, <1>9

\* A VIEWCHANGE message: its block may be taken over, and the quorum that makes
\* its receiver the leader consists of replicas that are in the view by now.
LEMMA VCMessageStep ==
  ASSUME BlockInv, NEW m \in net, HandleQCVCMessage(m)
  PROVE  Grown /\ BlockInv' /\ (Handover => Handover')
<1> DEFINE r == m.dst
           w == m.view
           ids == vcBuffer[r][w] \cup {m.src}
<1>1. /\ r \in Replicas /\ m.src \in Replicas /\ w \in Views /\ w \in Nat
      /\ view[r] \in Nat /\ view[m.src] \in Nat /\ w >= view[r]
      /\ m.type = "VIEWCHANGE"
      /\ m.qc \in Certs /\ BackedIn(m.qc, receivedBlocksSet)
      /\ ids \in SUBSET Replicas
  <2>1. m.type = "VIEWCHANGE" /\ ~IgnoresVCMsg(r, m) /\ MsgFields(m) /\ BackedMsg(m)
    BY DEF HandleQCVCMessage, BlockInv, VTypes, AllBacked
  <2>2. /\ r \in Replicas /\ m.src \in Replicas /\ w \in Views /\ m.qc \in Certs
        /\ BackedIn(m.qc, receivedBlocksSet)
    BY <2>1 DEF MsgFields, BackedMsg, Backed
  <2>3. w \in Nat /\ view[r] \in Nat /\ view[m.src] \in Nat
    BY <2>2 DEF BlockInv, VTypes, NormalTypes, Views
  <2>4. w >= view[r]
    BY <2>1, <2>3 DEF IgnoresVCMsg
  <2>5. ids \in SUBSET Replicas
    BY <2>2 DEF BlockInv, VTypes, BufferTypes
  <2> QED
    BY <2>1, <2>2, <2>3, <2>4, <2>5
<1>2. /\ vcBuffer' = [vcBuffer EXCEPT ![r][w] = ids]
      /\ \/ UNCHANGED <<curBlock, Sequence>>
         \/ /\ m.qc.height >= curBlock[r].height
            /\ curBlock' = [curBlock EXCEPT ![r] = m.qc]
            /\ Sequence' = [Sequence EXCEPT ![r] = Larger(@, m.qc.height)]
      /\ \/ UNCHANGED <<view, vcPrepared, curStatus, monitor>>
         \/ /\ Cardinality(ids) >= QuorumSize
            /\ view' = [view EXCEPT ![r] = w]
            /\ vcPrepared' = [vcPrepared EXCEPT ![r] = @ \cup {w}]
            /\ curStatus' = [curStatus EXCEPT ![r] = "READY"]
            /\ MonitorGoto(r, w, "wait")
      /\ net' \subseteq net
      /\ UNCHANGED <<lockedBlock, curHash, committedBlocks, receivedBlocksSet, votes,
                     queue, timers, timeoutBuffer, tqcPrepared>>
  BY DEF HandleQCVCMessage, Takes, Activates, voteVars, clientVars
<1> HIDE DEF ids
<1>3. Grown
  <2>1. \A s \in Replicas : view[s] \in Nat /\ curBlock[s].height \in Nat
    BY DEF BlockInv, VTypes, NormalTypes, Views, Certs
  <2>2. \A s \in Replicas : view'[s] >= view[s]
    <3>1. CASE view' = view
      BY <3>1, <2>1
    <3>2. CASE view' = [view EXCEPT ![r] = w]
      BY <3>2, <2>1, <1>1 DEF BlockInv, VTypes, NormalTypes
    <3> QED
      BY <3>1, <3>2, <1>2
  <2>3. \A s \in Replicas : curBlock'[s].height >= curBlock[s].height
    <3>1. CASE curBlock' = curBlock
      BY <3>1, <2>1
    <3>2. CASE /\ m.qc.height >= curBlock[r].height
               /\ curBlock' = [curBlock EXCEPT ![r] = m.qc]
      BY <3>2, <2>1, <1>1 DEF BlockInv, VTypes, NormalTypes
    <3> QED
      BY <3>1, <3>2, <1>2
  <2>4. \A s \in Replicas : lockedBlock'[s].height >= lockedBlock[s].height
    BY <1>2 DEF BlockInv, VTypes, NormalTypes, Certs
  <2> QED
    BY <2>2, <2>3, <2>4, <1>2 DEF Grown
<1>4. VTypes'
  <2>1. view' \in [Replicas -> Views]
    BY <1>1, <1>2 DEF BlockInv, VTypes, NormalTypes
  <2>2. curStatus' \in [Replicas -> Status]
    BY <1>1, <1>2 DEF BlockInv, VTypes, NormalTypes, Status
  <2>3. curBlock' \in [Replicas -> Certs]
    BY <1>1, <1>2 DEF BlockInv, VTypes, NormalTypes
  <2>4. Sequence' \in [Replicas -> Nat]
    <3>1. Larger(Sequence[r], m.qc.height) \in Nat
      BY <1>1 DEF BlockInv, VTypes, NormalTypes, Certs, Larger
    <3> QED
      BY <3>1, <1>1, <1>2, ZenonT(60) DEF BlockInv, VTypes, NormalTypes
  <2>5. monitor' \in [Replicas -> [Views -> MonitorPoints]]
    <3>1. \/ monitor' = monitor
          \/ monitor' = [monitor EXCEPT ![r][w] = "wait"]
      BY <1>2 DEF MonitorGoto
    <3>2. "wait" \in MonitorPoints /\ monitor \in [Replicas -> [Views -> MonitorPoints]]
      BY DEF BlockInv, VTypes, NormalTypes, MonitorPoints
    <3>3. [monitor EXCEPT ![r][w] = "wait"] \in [Replicas -> [Views -> MonitorPoints]]
      BY <3>2, EntryReplaced
    <3> QED
      BY <3>1, <3>2, <3>3
  <2>6. NormalTypes'
    BY <2>1, <2>2, <2>3, <2>4, <2>5, <1>2 DEF BlockInv, VTypes, NormalTypes
  <2>7. vcBuffer' \in [Replicas -> [Views -> SUBSET Replicas]]
    <3> DEFINE D == SUBSET Replicas
    <3>1. vcBuffer \in [Replicas -> [Views -> D]] /\ ids \in D
      BY <1>1 DEF BlockInv, VTypes, BufferTypes
    <3> HIDE DEF D
    <3>2. [vcBuffer EXCEPT ![r][w] = ids] \in [Replicas -> [Views -> D]]
      BY <3>1, EntryReplaced
    <3> QED
      BY <1>2, <3>2 DEF D
  <2>8. vcPrepared' \in [Replicas -> SUBSET Views]
    <3> DEFINE D == SUBSET Views
               new == vcPrepared[r] \cup {w}
    <3>1. vcPrepared \in [Replicas -> D] /\ new \in D
      BY <1>1 DEF BlockInv, VTypes, BufferTypes
    <3>2. vcPrepared' \in {vcPrepared, [vcPrepared EXCEPT ![r] = new]}
      BY <1>2
    <3> HIDE DEF D, new
    <3>3. [vcPrepared EXCEPT ![r] = new] \in [Replicas -> D]
      BY <3>1, EntryReplaced
    <3> QED
      BY <3>1, <3>2, <3>3 DEF D
  <2> QED
    BY <2>6, <2>7, <2>8, <1>2 DEF BlockInv, VTypes, BufferTypes
<1>5. AllBacked'
  <2>1. \A s \in Replicas : curBlock'[s] \in {curBlock[s], m.qc}
    BY <1>1, <1>2 DEF BlockInv, VTypes, NormalTypes
  <2>2. \A s \in Replicas : BackedIn(curBlock'[s], receivedBlocksSet')
    BY <2>1, <1>1, <1>2, <1>3, BackedStays
  <2>3. /\ \A s \in Replicas : BackedIn(lockedBlock'[s], receivedBlocksSet')
        /\ \A s \in Replicas, h \in Heights :
             committedBlocks'[s][h] # NoBlock => BackedIn(committedBlocks'[s][h], receivedBlocksSet')
        /\ \A x \in net' : BackedMsg(x)'
    BY <1>2, <1>3, BackedStays DEF Committed
  <2>4. Collected'
    BY <1>2 DEF BlockInv, AllBacked, Collected
  <2> QED
    BY <2>2, <2>3, <2>4 DEF AllBacked, Backed, Committed
<1>6. LockBelowBlock'
  <2>1. \A s \in Replicas :
          /\ lockedBlock'[s] = lockedBlock[s]
          /\ lockedBlock[s].height \in Nat /\ curBlock[s].height \in Nat
          /\ curBlock'[s].height \in Nat
          /\ lockedBlock[s].height <= curBlock[s].height
          /\ curBlock[s].height <= curBlock'[s].height
    BY <1>2, <1>3, <1>4 DEF BlockInv, VTypes, NormalTypes, Certs, LockBelowBlock, Grown
  <2> QED
    BY <2>1 DEF LockBelowBlock
<1>7. ASSUME Handover PROVE Handover'
  <2> USE <1>7
  <2>6. w >= 1 /\ view[m.src] >= w /\ r = LeaderID(w)
    BY <1>1 DEF Handover
  <2>1. \A s \in Replicas : view[s] \in Nat /\ view'[s] \in Nat /\ view'[s] >= view[s]
    BY <1>3, <1>4 DEF BlockInv, VTypes, NormalTypes, Views, Grown
  <2>2. \A x \in net' : x.type = "VIEWCHANGE" =>
          x.view >= 1 /\ view'[x.src] >= x.view /\ x.dst = LeaderID(x.view)
    <3> SUFFICES ASSUME NEW x \in net, x.type = "VIEWCHANGE"
                 PROVE  x.view >= 1 /\ view'[x.src] >= x.view /\ x.dst = LeaderID(x.view)
      BY <1>2
    <3>1. x.view >= 1 /\ view[x.src] >= x.view /\ x.dst = LeaderID(x.view)
      BY DEF Handover
    <3>2. x.src \in Replicas /\ x.view \in Nat
      BY DEF BlockInv, VTypes, MsgFields, Views
    <3> QED
      BY <3>1, <3>2, <2>1
  <2>3. \A s \in ids : view'[s] >= w
    <3>1. \A s \in ids : s \in Replicas /\ view[s] >= w
      BY <1>1, <2>6 DEF ids, BlockInv, VTypes, BufferTypes, Handover
    <3> QED
      BY <3>1, <2>1, <1>1, <2>6
  <2>4. \A s \in Replicas, u \in Views : \A x \in vcBuffer'[s][u] : view'[x] >= u
    <3> SUFFICES ASSUME NEW s \in Replicas, NEW u \in Views, NEW x \in vcBuffer'[s][u]
                 PROVE  view'[x] >= u
      OBVIOUS
    <3>1. CASE s = r /\ u = w
      BY <3>1, <1>1, <1>2, <2>3 DEF BlockInv, VTypes, BufferTypes
    <3>2. CASE ~(s = r /\ u = w)
      <4>1. x \in vcBuffer[s][u]
        BY <3>2, <1>1, <1>2 DEF BlockInv, VTypes, BufferTypes
      <4>2. x \in Replicas
        BY <4>1 DEF BlockInv, VTypes, BufferTypes
      <4>3. view[x] >= u
        BY <4>1 DEF Handover
      <4>4. u \in Nat
        BY DEF Views
      <4> QED
        BY <4>2, <4>3, <4>4, <2>1
    <3> QED
      BY <3>1, <3>2
  <2>5. \A s \in Replicas, u \in Views \ {0} :
          monitor'[s][u] # "off" => LeaderID(u) = s /\ ReachedIn(u, view')
    <3> SUFFICES ASSUME NEW s \in Replicas, NEW u \in Views \ {0}, monitor'[s][u] # "off"
                 PROVE  LeaderID(u) = s /\ ReachedIn(u, view')
      OBVIOUS
    <3>1. CASE monitor[s][u] # "off"
      BY <3>1, <1>3, <1>4, ReachedMore DEF BlockInv, Handover, MonitorAt, Reached
    <3>2. CASE monitor[s][u] = "off"
      <4>1. /\ monitor' = [monitor EXCEPT ![r][w] = "wait"]
            /\ Cardinality(ids) >= QuorumSize
        BY <3>2, <1>2 DEF MonitorGoto
      <4>2. s = r /\ u = w
        BY <3>2, <4>1, <1>1 DEF BlockInv, VTypes, NormalTypes
      <4> QED
        BY <4>1, <4>2, <1>1, <2>3, <2>6 DEF ReachedIn
    <3> QED
      BY <3>1, <3>2
  <2> QED
    BY <2>2, <2>4, <2>5 DEF Handover, MonitorAt, Reached
<1>8. BlockInv'
  BY <1>4, <1>5, <1>6 DEF BlockInv
<1> QED
  BY <1>3, <1>7, <1>8

----------------------------------------------------------------------------
(* The theorems.                                                           *)

LEMMA VCStutter ==
  ASSUME BlockInv, UNCHANGED allVars
  PROVE  Grown /\ BlockInv' /\ (Handover => Handover')
<1>1. /\ UNCHANGED vcVars /\ net' \subseteq net
      /\ UNCHANGED <<view, curStatus, Sequence, chainVars, receivedBlocksSet, votes,
                     monitor, timers>>
      /\ queue' \in [Replicas -> Seq(Requests)]
  BY DEF allVars, vars, voteVars, clientVars, BlockInv, VTypes, NormalTypes
<1> QED
  BY <1>1, VCQuietStep

LEMMA VCMsgStep ==
  ASSUME BlockInv, NEW m \in net, HandleVCMsg(m)
  PROVE  Grown /\ BlockInv' /\ (Handover => Handover')
<1>1. CASE IgnoreVCMsg(m)
  <2>1. /\ UNCHANGED vcVars /\ net' \subseteq net
        /\ UNCHANGED <<view, curStatus, Sequence, chainVars, receivedBlocksSet, votes,
                       monitor, timers>>
        /\ queue' \in [Replicas -> Seq(Requests)]
    BY <1>1 DEF IgnoreVCMsg, voteVars, clientVars, BlockInv, VTypes, NormalTypes
  <2> QED
    BY <2>1, VCQuietStep
<1> QED
  BY <1>1, TimeoutMsgStep, TQCStep, VCMessageStep DEF HandleVCMsg

LEMMA NormalStep ==
  ASSUME BlockInv, Next, UNCHANGED vcVars
  PROVE  Grown /\ BlockInv' /\ (Handover => Handover')
<1>1. ASSUME NEW r \in Replicas, NEW req \in Requests, HandleRequest(r, req)
      PROVE  Grown /\ BlockInv' /\ (Handover => Handover')
  <2>1. /\ net' \subseteq net
        /\ UNCHANGED <<view, curStatus, Sequence, chainVars, receivedBlocksSet, votes,
                       monitor, timers>>
        /\ queue' \in [Replicas -> Seq(Requests)]
    BY <1>1 DEF HandleRequest, voteVars, BlockInv, VTypes, NormalTypes
  <2> QED
    BY <2>1, VCQuietStep
<1>2. ASSUME NEW m \in net, IgnoreMsg(m) \/ RejectProposal(m) \/ DropVote(m)
      PROVE  Grown /\ BlockInv' /\ (Handover => Handover')
  <2>1. /\ net' \subseteq net
        /\ UNCHANGED <<view, curStatus, Sequence, chainVars, receivedBlocksSet, votes,
                       monitor, timers>>
        /\ queue' \in [Replicas -> Seq(Requests)]
    BY <1>2 DEF IgnoreMsg, RejectProposal, DropVote, voteVars, clientVars, BlockInv, VTypes,
                NormalTypes
  <2> QED
    BY <2>1, VCQuietStep
<1> QED
  BY <1>1, <1>2, VCMonitorStep, VCProposalStep, VCVoteStep DEF Next, HandleQCByteMsg

LEMMA VCNextStep ==
  ASSUME VInv, [VCNext]_allVars
  PROVE  Grown /\ VInv'
BY VCStutter, VCMsgStep, NormalStep, TimeoutPersistentStep, TimeoutInMemoryStep
   DEF VCNext, TimeoutHandler, VInv

\* The invariant the theorems below rest on.
THEOREM VCInvariance == VCSpec => []VInv
<1>1. VInv /\ [VCNext]_allVars => VInv'
  BY VCNextStep
<1> QED
  BY InitVInv, <1>1, PTL DEF VCSpec

\* Also across leader changes HandleNormalRepMsg only assembles certificates for
\* blocks that every replica named in them accepted.
THEOREM VCCertifiedByVotersHolds == VCSpec => []CertifiedByVoters
<1>1. VInv => CertifiedByVoters
  <2> SUFFICES ASSUME VInv, NEW c \in Certificates PROVE Backed(c)
    BY DEF CertifiedByVoters, Backed, BackedIn
  <2> QED
    BY DEF VInv, BlockInv, AllBacked, Certificates, BackedMsg, Committed
<1> QED
  BY <1>1, VCInvariance, PTL

\* Neither StartViewChange, HandleQCVCMessage nor a late proposal takes a replica
\* back to an earlier view, a lower block or a lower lock.
THEOREM HeightsGrowHolds == VCSpec => HeightsGrow
<1>1. VInv /\ [VCNext]_allVars =>
        [\A r \in Replicas :
           /\ view'[r] >= view[r]
           /\ curBlock'[r].height >= curBlock[r].height
           /\ lockedBlock'[r].height >= lockedBlock[r].height]_allVars
  BY VCNextStep DEF Grown
<1> QED
  BY <1>1, VCInvariance, PTL DEF VCSpec, HeightsGrow

\* Whatever blocks come to a replica by votes, proposals and VIEWCHANGE messages,
\* and in whatever order, its lock is not above its current block.
THEOREM LockBelowBlockHolds == VCSpec => []LockBelowBlock
<1>1. VInv => LockBelowBlock
  BY DEF VInv, BlockInv
<1> QED
  BY <1>1, VCInvariance, PTL

LEMMA ReachedByQuorum ==
  ASSUME NEW w \in Views, Reached(w)
  PROVE  Cardinality({ s \in Replicas : view[s] >= w }) >= QuorumSize
<1> DEFINE R == { s \in Replicas : view[s] >= w }
<1>1. PICK S \in SUBSET Replicas :
        Cardinality(S) >= QuorumSize /\ \A s \in S : view[s] >= w
  BY DEF Reached, ReachedIn
<1>2. IsFiniteSet(Replicas)
  BY ConstantsAssumption, FS_Interval DEF Replicas
<1>3. S \subseteq R /\ R \subseteq Replicas
  BY <1>1
<1>4. IsFiniteSet(R) /\ IsFiniteSet(S)
  BY <1>2, <1>3, FS_Subset
<1>5. Cardinality(S) <= Cardinality(R) /\ Cardinality(S) \in Nat /\ Cardinality(R) \in Nat
  BY <1>3, <1>4, FS_Subset, FS_CardinalityType
<1>6. QuorumSize \in Nat
  BY ConstantsAssumption
<1> HIDE DEF R
<1>7. Cardinality(R) >= QuorumSize
  BY <1>1, <1>5, <1>6
<1> QED
  BY <1>7 DEF R

\* HandleQCVCMessage starts a RequestMonitor only at the leader of its view, and
\* by then a quorum of replicas has reached that view.
THEOREM NewLeaderHasQuorumHolds == VCSpec => []NewLeaderHasQuorum
<1>1. VInv => NewLeaderHasQuorum
  BY ReachedByQuorum DEF VInv, BlockInv, Handover, NewLeaderHasQuorum
<1> QED
  BY <1>1, VCInvariance, PTL

----------------------------------------------------------------------------
(* Views without stable storage.  The timer of view v expires at replica s *)
(* once: it was armed when s entered v, or by the RequestMonitor that s    *)
(* starts as the leader of v, and neither comes back.                      *)

Armed ==
  \A s \in Replicas : \A v \in timers[s] :
    /\ v <= view[s]
    /\ monitor[s][v] # "wait"
    /\ LeaderID(v) = s => v = 0 \/ v \in vcPrepared[s]

Waiting ==
  \A s \in Replicas, v \in Views : monitor[s][v] = "wait" =>
    /\ v <= view[s]
    /\ v = 0 \/ (v \in vcPrepared[s] /\ LeaderID(v) = s)

AllGaveUp(S, v) == \A s \in S : GaveUp(s, v)

QuorumGaveUp(v) ==
  \E S \in SUBSET Replicas : Cardinality(S) >= QuorumSize /\ AllGaveUp(S, v)

\* Whoever is said to have timed out has given up the view.
Truthful(m) ==
  /\ m.type = "TIMEOUT" => GaveUp(m.src, m.view)
  /\ m.type = "TQC" => AllGaveUp(m.ids, m.view)

Reports ==
  /\ \A m \in net : Truthful(m)
  /\ \A r \in Replicas, v \in Views : AllGaveUp(timeoutBuffer[r][v], v)

Together ==
  \A r \in Replicas, v \in Views : view[r] > v => QuorumGaveUp(v)

TInv == Armed /\ Waiting /\ Reports /\ Together

\* Giving up is for good.
Lasting == \A s \in Replicas, v \in Views : GaveUp(s, v) => GaveUp(s, v)'

LEMMA InitTInv == VCInit => TInv
BY CertTypes
   DEF VCInit, Init, InitProtocol, InitMonitors, InitViewChange, TInv, Armed, Waiting,
       Reports, Together, AllGaveUp, Views

\* What a step has to show, besides what it does to timers and monitors.
LEMMA ReportsStay ==
  ASSUME VInv, TInv, Lasting,
         \A m \in net' \ net : Truthful(m)',
         \A r \in Replicas, v \in Views :
           \/ timeoutBuffer'[r][v] = timeoutBuffer[r][v]
           \/ AllGaveUp(timeoutBuffer[r][v], v)'
  PROVE  Reports'
<1>1. ASSUME NEW m \in net PROVE Truthful(m)'
  <2>1. Truthful(m) /\ MsgFields(m)
    BY DEF TInv, Reports, VInv, BlockInv, VTypes
  <2>2. m.type = "TQC" => m.ids \subseteq Replicas
    BY <2>1 DEF MsgFields, TQCMsgs
  <2> QED
    BY <2>1, <2>2 DEF Truthful, AllGaveUp, MsgFields, Lasting
<1>2. ASSUME NEW r \in Replicas, NEW v \in Views,
             timeoutBuffer'[r][v] = timeoutBuffer[r][v]
      PROVE  AllGaveUp(timeoutBuffer[r][v], v)'
  BY <1>2 DEF VInv, BlockInv, VTypes, BufferTypes, TInv, Reports, AllGaveUp, Lasting
<1> QED
  BY <1>1, <1>2 DEF Reports

LEMMA QuorumGaveUpStays ==
  ASSUME Lasting, NEW v \in Views, QuorumGaveUp(v)
  PROVE  QuorumGaveUp(v)'
<1>1. PICK S \in SUBSET Replicas : Cardinality(S) >= QuorumSize /\ AllGaveUp(S, v)
  BY DEF QuorumGaveUp
<1>2. AllGaveUp(S, v)'
  BY <1>1 DEF AllGaveUp, Lasting
<1> QED
  BY <1>1, <1>2 DEF QuorumGaveUp

\* Steps that leave views, timers and monitors alone.
LEMMA QuietTime ==
  ASSUME VInv, TInv, UNCHANGED <<view, timers, monitor, vcPrepared>>
  PROVE  Armed' /\ Waiting' /\ Lasting /\ Together'
<1>1. Lasting
  BY DEF Lasting, GaveUp
<1>2. Armed' /\ Waiting'
  BY DEF TInv, Armed, Waiting
<1>3. Together'
  BY <1>1, QuorumGaveUpStays DEF TInv, Together
<1> QED
  BY <1>1, <1>2, <1>3

LEMMA MonitorTime ==
  ASSUME VInv, TInv, NEW r \in Replicas, NEW v \in Views, RequestMonitor(r, v),
         UNCHANGED vcVars
  PROVE  TInv' /\ Lasting
<1>1. UNCHANGED <<view, vcPrepared, timeoutBuffer>>
  BY DEF RequestMonitor, MonitorStart, MonitorCheckView, MonitorCheckStatus,
         MonitorClaim, MonitorPropose, vcVars
<1>2. PICK q \in MonitorPoints \ {"wait"} : monitor' = [monitor EXCEPT ![r][v] = q]
  BY DEF RequestMonitor, MonitorStart, MonitorCheckView, MonitorCheckStatus,
         MonitorClaim, MonitorPropose, MonitorGoto, MonitorPoints
<1>3. \/ timers' = timers
      \/ monitor[r][v] = "wait" /\ timers' = [timers EXCEPT ![r] = @ \cup {v}]
  BY DEF RequestMonitor, MonitorStart, MonitorCheckView, MonitorCheckStatus,
         MonitorClaim, MonitorPropose, MonitorAt
<1>4. \A s \in Replicas, u \in Views :
        monitor'[s][u] = IF s = r /\ u = v THEN q ELSE monitor[s][u]
  BY <1>2 DEF VInv, BlockInv, VTypes, NormalTypes
<1>5. \A s \in Replicas : \A u \in timers'[s] :
        u \in timers[s] \/ (s = r /\ u = v /\ monitor[r][v] = "wait")
  BY <1>3 DEF VInv, BlockInv, VTypes, NormalTypes
<1>6. Waiting'
  BY <1>1, <1>2, <1>4 DEF TInv, Waiting
<1>7. Armed'
  <2> SUFFICES ASSUME NEW s \in Replicas, NEW u \in timers'[s]
               PROVE  /\ u <= view[s]
                      /\ monitor'[s][u] # "wait"
                      /\ LeaderID(u) = s => u = 0 \/ u \in vcPrepared[s]
    BY <1>1 DEF Armed
  <2>1. CASE u \in timers[s]
    <3>1. u \in Views
      BY <2>1 DEF VInv, BlockInv, VTypes, NormalTypes
    <3> QED
      BY <3>1, <2>1, <1>2, <1>4 DEF TInv, Armed
  <2>2. CASE s = r /\ u = v /\ monitor[r][v] = "wait"
    BY <2>2, <1>2, <1>4 DEF TInv, Waiting
  <2> QED
    BY <2>1, <2>2, <1>5
<1>8. Lasting
  BY <1>1, <1>2, <1>4, <1>5 DEF Lasting, GaveUp
<1>9. Together'
  BY <1>1, <1>8, QuorumGaveUpStays DEF TInv, Together
<1>10. \A m \in net' \ net : m.type = "QC"
  <2>1. \A d \in Replicas : \A x, y, z : Proposal(r, d, view[r], x, y, z).type = "QC"
    BY DEF Proposal
  <2> QED
    BY <2>1 DEF RequestMonitor, MonitorStart, MonitorCheckView, MonitorCheckStatus,
                MonitorClaim, MonitorPropose, StartHotStuff
<1>11. Reports'
  BY <1>1, <1>8, <1>10, ReportsStay DEF Truthful
<1> QED
  BY <1>6, <1>7, <1>8, <1>9, <1>11 DEF TInv

LEMMA TimeoutTime ==
  ASSUME VInv, TInv, NEW r \in Replicas, NEW v \in Views, TimeoutInMemory(r, v)
  PROVE  TInv'
<1>1. /\ v \in timers[r] /\ v >= view[r]
      /\ timers' = [timers EXCEPT ![r] = @ \ {v}]
      /\ net' = net \cup { TimeoutMsg(r, d, v) : d \in Replicas }
      /\ UNCHANGED <<view, monitor, vcPrepared, timeoutBuffer>>
  BY DEF TimeoutInMemory, TimerFires, vcVars
<1>2. \A s \in Replicas : timers'[s] \subseteq timers[s]
  BY <1>1 DEF VInv, BlockInv, VTypes, NormalTypes
<1>3. Armed' /\ Waiting'
  BY <1>1, <1>2 DEF TInv, Armed, Waiting
<1>4. Lasting
  BY <1>1, <1>2 DEF Lasting, GaveUp
<1>5. Together'
  BY <1>1, <1>4, QuorumGaveUpStays DEF TInv, Together
<1>6. GaveUp(r, v)'
  <2>1. view[r] \in Nat /\ v \in Nat /\ v <= view[r]
    BY <1>1 DEF VInv, BlockInv, VTypes, NormalTypes, Views, TInv, Armed
  <2>2. v = view[r] /\ v \notin timers'[r]
    BY <2>1, <1>1 DEF VInv, BlockInv, VTypes, NormalTypes
  <2> QED
    BY <2>2, <1>1 DEF GaveUp, TInv, Armed
<1>7. \A m \in net' \ net : Truthful(m)'
  <2>1. \A d \in Replicas : LET m == TimeoutMsg(r, d, v)
                            IN  m.type = "TIMEOUT" /\ m.src = r /\ m.view = v
    BY DEF TimeoutMsg
  <2>2. \A m \in net' \ net : m.type = "TIMEOUT" /\ m.src = r /\ m.view = v
    BY <2>1, <1>1
  <2> QED
    BY <2>2, <1>6 DEF Truthful
<1>8. Reports'
  BY <1>1, <1>4, <1>7, ReportsStay
<1> QED
  BY <1>3, <1>5, <1>8 DEF TInv

\* Who is past a view is past all earlier ones.
LEMMA EarlierToo ==
  ASSUME VInv, NEW s \in Replicas, NEW v \in Views, NEW u \in Views, u <= v, GaveUp(s, v)
  PROVE  GaveUp(s, u)
<1>1. view[s] \in Nat /\ u \in Nat /\ v \in Nat
  BY DEF VInv, BlockInv, VTypes, NormalTypes, Views
<1> QED
  BY <1>1 DEF GaveUp

LEMMA TQCTime ==
  ASSUME VInv, TInv, NEW m \in net, HandleTQCMsg(m)
  PROVE  TInv'
<1> DEFINE r == m.dst
           w == m.view + 1
<1>1. /\ r \in Replicas /\ m.view \in Views /\ m.type = "TQC" /\ m \in TQCMsgs
      /\ m.view < MaxView /\ m.view >= view[r] /\ m.ids \in SUBSET Replicas
      /\ AllGaveUp(m.ids, m.view) /\ Cardinality(m.ids) >= QuorumSize
  <2>1. MsgFields(m) /\ m.type = "TQC" /\ ~IgnoresVCMsg(r, m) /\ Truthful(m)
        /\ TimeoutQuorum(m.ids)
    BY DEF HandleTQCMsg, VInv, BlockInv, VTypes, TInv, Reports
  <2>2. m \in TQCMsgs /\ r \in Replicas /\ m.view \in Views /\ m.view < MaxView
    BY <2>1 DEF MsgFields
  <2>3. m.view >= view[r]
    BY <2>1, <2>2 DEF IgnoresVCMsg, VInv, BlockInv, VTypes, NormalTypes, Views
  <2>4. m.ids \in SUBSET Replicas
    BY <2>2 DEF TQCMsgs
  <2> QED
    BY <2>1, <2>2, <2>3, <2>4 DEF Truthful, TimeoutQuorum
<1>2. /\ view' = [view EXCEPT ![r] = w]
      /\ timers' = [timers EXCEPT ![r] = Rearmed(r, w)]
      /\ UNCHANGED <<monitor, vcPrepared>>
      /\ \/ UNCHANGED timeoutBuffer
         \/ timeoutBuffer' = [timeoutBuffer EXCEPT ![r][m.view] = m.ids]
  BY DEF HandleTQCMsg, StartViewChange
<1>3. w \in Nat /\ w \in Views /\ m.view \in Nat /\ view[r] \in Nat /\ w > view[r]
  BY <1>1, ConstantsAssumption DEF VInv, BlockInv, VTypes, NormalTypes, Views
<1>4. \A s \in Replicas : /\ view[s] \in Nat
                          /\ view'[s] = IF s = r THEN w ELSE view[s]
                          /\ view'[s] >= view[s]
  BY <1>1, <1>2, <1>3 DEF VInv, BlockInv, VTypes, NormalTypes, Views
<1>5. \A s \in Replicas : s # r => timers'[s] = timers[s]
  BY <1>2 DEF VInv, BlockInv, VTypes, NormalTypes
<1>6. \A u \in timers'[r] : u = w /\ LeaderID(w) # r
  <2>1. timers'[r] = Rearmed(r, w)
    BY <1>1, <1>2 DEF VInv, BlockInv, VTypes, NormalTypes
  <2>2. \A u \in timers[r] : u \in Nat /\ u <= view[r]
    BY <1>1 DEF VInv, BlockInv, VTypes, NormalTypes, TInv, Armed, Views
  <2> QED
    BY <1>3, <2>1, <2>2 DEF Rearmed
<1> HIDE DEF w
<1>7. Waiting'
  <2> SUFFICES ASSUME NEW s \in Replicas, NEW u \in Views, monitor[s][u] = "wait"
               PROVE  u <= view'[s] /\ (u = 0 \/ (u \in vcPrepared[s] /\ LeaderID(u) = s))
    BY <1>2 DEF Waiting
  <2>1. u <= view[s] /\ u \in Nat
    BY DEF TInv, Waiting, Views
  <2> QED
    BY <2>1, <1>3, <1>4 DEF TInv, Waiting
<1>8. Armed'
  <2> SUFFICES ASSUME NEW s \in Replicas, NEW u \in timers'[s]
               PROVE  /\ u <= view'[s]
                      /\ monitor[s][u] # "wait"
                      /\ LeaderID(u) = s => u = 0 \/ u \in vcPrepared[s]
    BY <1>2 DEF Armed
  <2>1. CASE s = r
    <3>1. ~(w <= view[r])
      BY <1>3
    <3>2. monitor[r][w] # "wait"
      BY <3>1, <1>1, <1>3 DEF TInv, Waiting
    <3> QED
      BY <2>1, <3>2, <1>1, <1>3, <1>4, <1>6
  <2>2. CASE s # r
    BY <2>2, <1>4, <1>5 DEF TInv, Armed
  <2> QED
    BY <2>1, <2>2
<1>9. Lasting
  <2> SUFFICES ASSUME NEW s \in Replicas, NEW u \in Views, GaveUp(s, u)
               PROVE  GaveUp(s, u)'
    BY DEF Lasting
  <2>1. CASE s = r
    <3>1. u \in Nat /\ u <= view[r]
      BY <2>1, <1>3 DEF GaveUp, Views
    <3>2. view'[r] > u
      BY <3>1, <1>1, <1>3, <1>4
    <3> QED
      BY <2>1, <3>2 DEF GaveUp
  <2>2. CASE s # r
    BY <2>2, <1>2, <1>4, <1>5 DEF GaveUp
  <2> QED
    BY <2>1, <2>2
<1>10. Together'
  <2> SUFFICES ASSUME NEW s \in Replicas, NEW u \in Views, view'[s] > u
               PROVE  QuorumGaveUp(u)'
    BY DEF Together
  <2>1. QuorumGaveUp(u)
    <3>1. CASE s = r
      <4>1. u <= m.view
        BY <3>1, <1>1, <1>3, <1>4 DEF w, Views
      <4>2. AllGaveUp(m.ids, u)
        BY <4>1, <1>1, EarlierToo DEF AllGaveUp
      <4> QED
        BY <4>2, <1>1 DEF QuorumGaveUp
    <3>2. CASE s # r
      BY <3>2, <1>4 DEF TInv, Together
    <3> QED
      BY <3>1, <3>2
  <2> QED
    BY <2>1, <1>9, QuorumGaveUpStays
<1>11. Reports'
  <2>1. \A x \in net' \ net : x.type \in {"TQC", "VIEWCHANGE"}
                              /\ (x.type = "TQC" => x.ids = m.ids /\ x.view = m.view)
    <3>1. ASSUME NEW x, \E d \in Replicas : x = [m EXCEPT !.dst = d]
          PROVE  x.type = "TQC" /\ x.ids = m.ids /\ x.view = m.view
      BY <1>1, <3>1 DEF TQCMsgs
    <3>2. \A d, x, c : ViewChangeMsg(r, d, x, c).type = "VIEWCHANGE"
      BY DEF ViewChangeMsg
    <3>3. \A x \in net' \ net :
            \/ x = ViewChangeMsg(r, LeaderID(m.view + 1), m.view + 1, curBlock[r])
            \/ \E d \in Replicas : x = [m EXCEPT !.dst = d]
      <4> DEFINE forwarded == IF m.view \in tqcPrepared[r] THEN {}
                              ELSE { [m EXCEPT !.dst = d] : d \in Replicas \ {r} }
                 msg == ViewChangeMsg(r, LeaderID(m.view + 1), m.view + 1, curBlock[r])
      <4>1. net' = ((net \ {m}) \cup forwarded) \cup {msg}
        BY DEF HandleTQCMsg, StartViewChange
      <4>2. \A x \in forwarded : \E d \in Replicas : x = [m EXCEPT !.dst = d]
        OBVIOUS
      <4> HIDE DEF forwarded, msg
      <4>3. \A x \in net' \ net : x = msg \/ \E d \in Replicas : x = [m EXCEPT !.dst = d]
        BY <4>1, <4>2
      <4> QED
        BY <4>3 DEF msg
    <3> QED
      BY <3>1, <3>2, <3>3
  <2>2. AllGaveUp(m.ids, m.view)'
    BY <1>1, <1>9 DEF AllGaveUp, Lasting
  <2>3. \A x \in net' \ net : Truthful(x)'
    BY <2>1, <2>2 DEF Truthful
  <2>4. \A s \in Replicas, u \in Views :
          \/ timeoutBuffer'[s][u] = timeoutBuffer[s][u]
          \/ u = m.view /\ timeoutBuffer'[s][u] = m.ids
    BY <1>1, <1>2, SMTT(30) DEF VInv, BlockInv, VTypes, BufferTypes
  <2>5. \A s \in Replicas, u \in Views :
          \/ timeoutBuffer'[s][u] = timeoutBuffer[s][u]
          \/ AllGaveUp(timeoutBuffer[s][u], u)'
    BY <2>2, <2>4 DEF AllGaveUp
  <2> QED
    BY <1>9, <2>3, <2>5, ReportsStay
<1> QED
  BY <1>7, <1>8, <1>10, <1>11 DEF TInv

LEMMA TimeoutMsgTime ==
  ASSUME VInv, TInv, NEW m \in net, HandleTimeoutMsg(m)
  PROVE  TInv'
<1> DEFINE r == m.dst
<1> PICK ids : ids = timeoutBuffer[r][m.view] \cup {m.src}
  OBVIOUS
<1>1. /\ r \in Replicas /\ m.src \in Replicas /\ m.view \in Views
      /\ ids \in SUBSET Replicas /\ AllGaveUp(ids, m.view)
  <2>1. MsgFields(m) /\ m.type = "TIMEOUT" /\ Truthful(m)
    BY DEF HandleTimeoutMsg, VInv, BlockInv, VTypes, TInv, Reports
  <2>2. r \in Replicas /\ m.src \in Replicas /\ m.view \in Views
    BY <2>1 DEF MsgFields
  <2>3. AllGaveUp(timeoutBuffer[r][m.view], m.view) /\ GaveUp(m.src, m.view)
    BY <2>1, <2>2 DEF TInv, Reports, Truthful
  <2>4. timeoutBuffer[r][m.view] \subseteq Replicas
    BY <2>2 DEF VInv, BlockInv, VTypes, BufferTypes
  <2> QED
    BY <2>2, <2>3, <2>4 DEF AllGaveUp
<1>2. /\ timeoutBuffer' = [timeoutBuffer EXCEPT ![r][m.view] = ids]
      /\ net' \subseteq net \cup { TQCMsg(r, d, m.view, ids) : d \in Replicas }
      /\ UNCHANGED <<view, timers, monitor, vcPrepared>>
  BY DEF HandleTimeoutMsg
<1>3. Armed' /\ Waiting' /\ Lasting /\ Together'
  BY <1>2, QuietTime
<1>4. AllGaveUp(ids, m.view)'
  BY <1>1, <1>3 DEF AllGaveUp, Lasting
<1>5. \A x \in net' \ net : Truthful(x)'
  <2>1. \A d \in Replicas : LET x == TQCMsg(r, d, m.view, ids)
          IN  x.type = "TQC" /\ x.ids = ids /\ x.view = m.view
    BY DEF TQCMsg
  <2>2. \A x \in net' \ net : \E d \in Replicas : x = TQCMsg(r, d, m.view, ids)
    BY <1>2
  <2>3. \A x \in net' \ net : x.type = "TQC" /\ x.ids = ids /\ x.view = m.view
    BY <2>1, <2>2
  <2> QED
    BY <2>3, <1>4 DEF Truthful
<1>6. \A s \in Replicas, u \in Views :
        \/ timeoutBuffer'[s][u] = timeoutBuffer[s][u]
        \/ AllGaveUp(timeoutBuffer[s][u], u)'
  <2>1. \A s \in Replicas, u \in Views :
          \/ timeoutBuffer'[s][u] = timeoutBuffer[s][u]
          \/ u = m.view /\ timeoutBuffer'[s][u] = ids
    BY <1>1, <1>2 DEF VInv, BlockInv, VTypes, BufferTypes
  <2> QED
    BY <2>1, <1>4 DEF AllGaveUp
<1>7. Reports'
  BY <1>3, <1>5, <1>6, ReportsStay
<1> QED
  BY <1>3, <1>7 DEF TInv

LEMMA VCMessageTime ==
  ASSUME VInv, TInv, NEW m \in net, HandleQCVCMessage(m)
  PROVE  TInv'
<1> DEFINE r == m.dst
           w == m.view
<1>1. /\ r \in Replicas /\ m.src \in Replicas /\ w \in Views /\ w \in Nat
      /\ view[r] \in Nat /\ view[m.src] \in Nat /\ w >= view[r]
      /\ w >= 1 /\ view[m.src] >= w /\ r = LeaderID(w)
      /\ w \notin vcPrepared[r]
  <2>1. m.type = "VIEWCHANGE" /\ ~IgnoresVCMsg(r, m) /\ MsgFields(m)
    BY DEF HandleQCVCMessage, VInv, BlockInv, VTypes
  <2>2. r \in Replicas /\ m.src \in Replicas /\ w \in Views
    BY <2>1 DEF MsgFields
  <2>3. w \in Nat /\ view[r] \in Nat /\ view[m.src] \in Nat
    BY <2>2 DEF VInv, BlockInv, VTypes, NormalTypes, Views
  <2>4. w >= view[r] /\ w \notin vcPrepared[r]
    BY <2>1, <2>3 DEF IgnoresVCMsg
  <2> QED
    BY <2>1, <2>2, <2>3, <2>4 DEF VInv, BlockInv, Handover
<1>2. UNCHANGED <<timers, timeoutBuffer>> /\ net' \subseteq net
  BY DEF HandleQCVCMessage
<1>3. CASE UNCHANGED <<view, vcPrepared, monitor>>
  <2>1. Armed' /\ Waiting' /\ Lasting /\ Together'
    BY <1>2, <1>3, QuietTime
  <2>2. Reports'
    BY <2>1, <1>2, ReportsStay
  <2> QED
    BY <2>1, <2>2 DEF TInv
<1>4. CASE /\ view' = [view EXCEPT ![r] = w]
           /\ vcPrepared' = [vcPrepared EXCEPT ![r] = @ \cup {w}]
           /\ monitor' = [monitor EXCEPT ![r][w] = "wait"]
  <2>1. \A s \in Replicas : /\ view[s] \in Nat
                            /\ view'[s] = IF s = r THEN w ELSE view[s]
                            /\ view'[s] >= view[s] /\ view'[s] \in Nat
    BY <1>1, <1>4 DEF VInv, BlockInv, VTypes, NormalTypes, Views
  <2>2. /\ \A s \in Replicas : vcPrepared[s] \subseteq vcPrepared'[s]
        /\ w \in vcPrepared'[r]
    BY <1>1, <1>4 DEF VInv, BlockInv, VTypes, BufferTypes
  <2>3. \A s \in Replicas, u \in Views :
          monitor'[s][u] = IF s = r /\ u = w THEN "wait" ELSE monitor[s][u]
    BY <1>1, <1>4 DEF VInv, BlockInv, VTypes, NormalTypes
  <2>4. w \notin timers[r]
    BY <1>1 DEF TInv, Armed
  <2> HIDE DEF r, w
  <2>5. Armed'
    <3> SUFFICES ASSUME NEW s \in Replicas, NEW u \in timers[s]
                 PROVE  /\ u <= view'[s]
                        /\ monitor'[s][u] # "wait"
                        /\ LeaderID(u) = s => u = 0 \/ u \in vcPrepared'[s]
      BY <1>2 DEF Armed
    <3>1. u \in Views /\ u \in Nat
      BY DEF VInv, BlockInv, VTypes, NormalTypes, Views
    <3>2. ~(s = r /\ u = w)
      BY <2>4
    <3>3. /\ u <= view[s] /\ monitor[s][u] # "wait"
          /\ LeaderID(u) = s => u = 0 \/ u \in vcPrepared[s]
      BY DEF TInv, Armed
    <3>4. u <= view'[s]
      BY <3>1, <3>3, <2>1
    <3> QED
      BY <3>1, <3>2, <3>3, <3>4, <2>2, <2>3
  <2>6. Waiting'
    <3> SUFFICES ASSUME NEW s \in Replicas, NEW u \in Views, monitor'[s][u] = "wait"
                 PROVE  u <= view'[s] /\ (u = 0 \/ (u \in vcPrepared'[s] /\ LeaderID(u) = s))
      BY DEF Waiting
    <3>1. CASE s = r /\ u = w
      BY <3>1, <1>1, <2>1, <2>2
    <3>2. CASE ~(s = r /\ u = w)
      <4>1. u <= view[s] /\ (u = 0 \/ (u \in vcPrepared[s] /\ LeaderID(u) = s))
        BY <3>2, <2>3 DEF TInv, Waiting
      <4>2. u <= view'[s]
        BY <4>1, <2>1 DEF Views
      <4> QED
        BY <4>1, <4>2, <2>2
    <3> QED
      BY <3>1, <3>2
  <2>7. Lasting
    <3> SUFFICES ASSUME NEW s \in Replicas, NEW u \in Views, GaveUp(s, u)
                 PROVE  GaveUp(s, u)'
      BY DEF Lasting
    <3>1. ~(s = r /\ u = w /\ view[s] = u)
      BY <1>1 DEF GaveUp
    <3>2. u \in Nat
      BY DEF Views
    <3>3. CASE view'[s] > u
      BY <3>3 DEF GaveUp
    <3>4. CASE ~(view'[s] > u)
      <4>1. view[s] = u /\ view'[s] = u
        BY <3>2, <3>4, <2>1 DEF GaveUp
      <4>2. /\ u \notin timers[s] /\ monitor[s][u] # "wait"
            /\ LeaderID(u) = s => u = 0 \/ u \in vcPrepared[s]
        BY <4>1, <3>2 DEF GaveUp
      <4>3. monitor'[s][u] = monitor[s][u]
        BY <4>1, <3>1, <2>3
      <4> QED
        BY <4>1, <4>2, <4>3, <1>2, <2>2 DEF GaveUp
    <3> QED
      BY <3>3, <3>4
  <2>8. Together'
    <3> SUFFICES ASSUME NEW s \in Replicas, NEW u \in Views, view'[s] > u
                 PROVE  QuorumGaveUp(u)'
      BY DEF Together
    <3>1. view[s] > u \/ view[m.src] > u
      BY <1>1, <2>1 DEF Views
    <3>2. QuorumGaveUp(u)
      BY <3>1, <1>1 DEF TInv, Together
    <3> QED
      BY <3>2, <2>7, QuorumGaveUpStays
  <2>9. Reports'
    BY <1>2, <2>7, ReportsStay
  <2> QED
    BY <2>5, <2>6, <2>8, <2>9 DEF TInv
<1> QED
  BY <1>3, <1>4 DEF HandleQCVCMessage, MonitorGoto

\* Steps without an effect on timers, monitors and timeouts.
LEMMA OtherTime ==
  ASSUME VInv, TInv, UNCHANGED <<view, timers, monitor, vcPrepared, timeoutBuffer>>,
         \A m \in net' \ net : m.type = "QCREP"
  PROVE  TInv'
<1>1. Armed' /\ Waiting' /\ Lasting /\ Together'
  BY QuietTime
<1>2. Reports'
  BY <1>1, ReportsStay DEF Truthful
<1> QED
  BY <1>1, <1>2 DEF TInv

LEMMA NormalTime ==
  ASSUME VInv, TInv, Next, UNCHANGED vcVars
  PROVE  TInv'
<1> USE DEF vcVars
<1>1. ASSUME NEW r \in Replicas, NEW req \in Requests, HandleRequest(r, req)
      PROVE  TInv'
  BY <1>1, OtherTime DEF HandleRequest
<1>2. ASSUME NEW m \in net, IgnoreMsg(m) \/ RejectProposal(m) \/ DropVote(m)
                            \/ HandleNormalRepMsg(m)
      PROVE  TInv'
  BY <1>2, OtherTime DEF IgnoreMsg, RejectProposal, DropVote, HandleNormalRepMsg
<1>3. ASSUME NEW m \in net, HandleNormalMsg(m)
      PROVE  TInv'
  <2>1. \A d : Vote(m.dst, d, view[m.dst], m.seq, m.hash).type = "QCREP"
    BY DEF Vote
  <2>2. \A x \in net' \ net : x.type = "QCREP"
    BY <1>3, <2>1 DEF HandleNormalMsg
  <2> QED
    BY <1>3, <2>2, OtherTime DEF HandleNormalMsg
<1> QED
  BY <1>1, <1>2, <1>3, MonitorTime DEF Next, HandleQCByteMsg

LEMMA NextTime ==
  ASSUME VInv, TInv, PersistLevel = "NoPersist", [VCNext]_allVars
  PROVE  TInv'
<1>1. CASE UNCHANGED allVars
  BY <1>1, OtherTime DEF allVars, vars, vcVars
<1>2. ASSUME NEW m \in net, HandleVCMsg(m)
      PROVE  TInv'
  <2>1. CASE IgnoreVCMsg(m)
    BY <2>1, OtherTime DEF IgnoreVCMsg, vcVars
  <2> QED
    BY <1>2, <2>1, TimeoutMsgTime, TQCTime, VCMessageTime DEF HandleVCMsg
<1>3. ASSUME NEW r \in Replicas, NEW v \in Views, TimeoutHandler(r, v)
      PROVE  TInv'
  BY <1>3, TimeoutTime DEF TimeoutHandler, TimeoutPersistent
<1> QED
  BY <1>1, <1>2, <1>3, NormalTime DEF VCNext

LEMMA QuorumIsCounted ==
  ASSUME NEW v \in Views, QuorumGaveUp(v)
  PROVE  Cardinality({ s \in Replicas : GaveUp(s, v) }) >= QuorumSize
<1> DEFINE R == { s \in Replicas : GaveUp(s, v) }
<1>1. PICK S \in SUBSET Replicas : Cardinality(S) >= QuorumSize /\ AllGaveUp(S, v)
  BY DEF QuorumGaveUp
<1>2. IsFiniteSet(Replicas)
  BY ConstantsAssumption, FS_Interval DEF Replicas
<1>3. S \subseteq R /\ R \subseteq Replicas
  BY <1>1 DEF AllGaveUp
<1>4. IsFiniteSet(R) /\ IsFiniteSet(S)
  BY <1>2, <1>3, FS_Subset
<1>5. Cardinality(S) <= Cardinality(R) /\ Cardinality(S) \in Nat /\ Cardinality(R) \in Nat
  BY <1>3, <1>4, FS_Subset, FS_CardinalityType
<1>6. QuorumSize \in Nat
  BY ConstantsAssumption
<1> HIDE DEF R
<1>7. Cardinality(R) >= QuorumSize
  BY <1>1, <1>5, <1>6
<1> QED
  BY <1>7 DEF R

\* With the view number in memory only, TimeoutHandler and the TQC keep replicas
\* together: nobody is in a view before a quorum has given up the one before it.
THEOREM TimeoutsBackViewsHolds ==
  VCSpec => [](PersistLevel = "NoPersist" => TimeoutsBackViews)
<1> DEFINE TimeInv == PersistLevel = "NoPersist" => TInv
<1>1. VInv /\ TimeInv /\ [VCNext]_allVars => TimeInv'
  BY NextTime
<1>2. VCInit => TimeInv
  BY InitTInv
<1>3. VInv /\ TimeInv => (PersistLevel = "NoPersist" => TimeoutsBackViews)
  <2> SUFFICES ASSUME VInv, TInv, NEW r \in Replicas, view[r] > 0
               PROVE  Cardinality({ s \in Replicas : GaveUp(s, view[r] - 1) }) >= QuorumSize
    BY DEF TimeoutsBackViews
  <2>1. view[r] - 1 \in Views /\ view[r] > view[r] - 1
    BY ConstantsAssumption DEF VInv, BlockInv, VTypes, NormalTypes, Views
  <2> QED
    BY <2>1, QuorumIsCounted DEF TInv, Together
<1> HIDE DEF TimeInv
<1> QED
  BY <1>1, <1>2, <1>3, VCInvariance, PTL DEF VCSpec

----------------------------------------------------------------------------
(* The types VInv leaves out: what no handler's argument needs.            *)

Shaped(m) ==
  /\ m.type \in {"QC", "QCREP", "VIEWCHANGE", "TIMEOUT", "TQC"}
  /\ m.type = "QC" => m = Proposal(m.src, m.dst, m.view, m.seq, m.hash, m.qc)
  /\ m.type = "QCREP" => m = Vote(m.src, m.dst, m.view, m.seq, m.hash)
  /\ m.type = "VIEWCHANGE" => m = ViewChangeMsg(m.src, m.dst, m.view, m.qc)
  /\ m.type = "TIMEOUT" => m = TimeoutMsg(m.src, m.dst, m.view)

RestTypes ==
  /\ awaitingBlocks \in [Replicas -> [Seqs -> Hashes]]
  /\ awaitingDecisionCopy \in [Replicas -> SUBSET Seqs]
  /\ prepared \in [Replicas -> SUBSET Hashes]
  /\ pending \in [Replicas -> SUBSET Requests]
  /\ \A m \in net : Shaped(m)

LEMMA Shapes ==
  /\ \A s, d, v, q, h, qc : Shaped(Proposal(s, d, v, q, h, qc))
  /\ \A s, d, v, q, h : Shaped(Vote(s, d, v, q, h))
  /\ \A s, d, v, qc : Shaped(ViewChangeMsg(s, d, v, qc))
  /\ \A s, d, v : Shaped(TimeoutMsg(s, d, v))
  /\ \A s, d, v, ids : Shaped(TQCMsg(s, d, v, ids))
BY DEF Shaped, Proposal, Vote, ViewChangeMsg, TimeoutMsg, TQCMsg

LEMMA RestStays ==
  ASSUME RestTypes,
         UNCHANGED <<awaitingBlocks, awaitingDecisionCopy, prepared, pending>>,
         \A m \in net' \ net : Shaped(m)
  PROVE  RestTypes'
BY DEF RestTypes

LEMMA MonitorRest ==
  ASSUME VInv, VInv', RestTypes, NEW r \in Replicas, NEW v \in Views,
         RequestMonitor(r, v)
  PROVE  RestTypes'
<1>1. CASE ~MonitorPropose(r, v)
  BY <1>1, RestStays
  DEF RequestMonitor, MonitorStart, MonitorCheckView, MonitorCheckStatus,
      MonitorClaim, voteVars, clientVars
<1>2. CASE MonitorPropose(r, v)
  <2> PICK seq : seq = Sequence[r] + 1
    OBVIOUS
  <2> PICK hash : hash = ObtainCurHash(curHash[r], seq, Batch(r))
    OBVIOUS
  <2>1. /\ awaitingBlocks' = [awaitingBlocks EXCEPT ![r][seq] = hash]
        /\ awaitingDecisionCopy' = [awaitingDecisionCopy EXCEPT ![r] = @ \cup {seq}]
        /\ curHash' = [curHash EXCEPT ![r] = hash]
        /\ Sequence[r] < MaxSeq
        /\ UNCHANGED <<prepared, pending>>
    BY <1>2 DEF MonitorPropose, StartHotStuff, voteVars
  <2>2. \A m \in net' \ net : Shaped(m)
    BY <1>2, Shapes DEF MonitorPropose, StartHotStuff
  <2>3. seq \in Seqs
    BY <2>1, ConstantsAssumption DEF VInv, BlockInv, VTypes, NormalTypes, Seqs
  <2>4. hash \in Hashes
    BY <2>1 DEF VInv, BlockInv, VTypes, NormalTypes
  <2> QED
    BY <2>1, <2>2, <2>3, <2>4 DEF RestTypes
<1> QED
  BY <1>1, <1>2

LEMMA ProposalRest ==
  ASSUME VInv, RestTypes, NEW m \in net, RejectProposal(m) \/ HandleNormalMsg(m)
  PROVE  RestTypes'
<1> DEFINE r == m.dst
<1>1. m.seq \in Seqs /\ r \in Replicas
  BY DEF RejectProposal, HandleNormalMsg, VInv, BlockInv, VTypes, MsgFields
<1>2. Remembered(r, m.seq) \in SUBSET Seqs
  BY <1>1 DEF Remembered, RestTypes
<1>3. UNCHANGED <<awaitingBlocks, prepared, pending>>
  BY DEF RejectProposal, HandleNormalMsg, voteVars, clientVars
<1>4. \A x \in net' \ net : Shaped(x)
  BY Shapes DEF RejectProposal, HandleNormalMsg
<1>5. awaitingDecisionCopy' \in [Replicas -> SUBSET Seqs]
  <2>1. \/ awaitingDecisionCopy' =
             [awaitingDecisionCopy EXCEPT ![r] = Remembered(r, m.seq)]
        \/ awaitingDecisionCopy' =
             [awaitingDecisionCopy EXCEPT ![r] = Remembered(r, m.seq) \ {m.seq - 3}]
    BY DEF RejectProposal, HandleNormalMsg, SkipQCInfo, ProcessQCInfo, LockCurrent
  <2> QED
    BY <2>1, <1>2 DEF RestTypes
<1> QED
  BY <1>3, <1>4, <1>5 DEF RestTypes

LEMMA NormalRest ==
  ASSUME VInv, VInv', RestTypes, Next
  PROVE  RestTypes'
<1>1. ASSUME NEW r \in Replicas, NEW req \in Requests, HandleRequest(r, req)
      PROVE  RestTypes'
  BY <1>1 DEF HandleRequest, RestTypes, voteVars
<1>2. ASSUME NEW m \in net, IgnoreMsg(m) \/ DropVote(m)
      PROVE  RestTypes'
  BY <1>2, RestStays DEF IgnoreMsg, DropVote, voteVars, clientVars
<1>3. ASSUME NEW m \in net, HandleNormalRepMsg(m)
      PROVE  RestTypes'
  <2>1. m.hash \in Hashes
    BY <1>3 DEF HandleNormalRepMsg, VInv, BlockInv, VTypes, MsgFields
  <2> QED
    BY <1>3, <2>1 DEF HandleNormalRepMsg, RestTypes, clientVars
<1> QED
  BY <1>1, <1>2, <1>3, MonitorRest, ProposalRest DEF Next, HandleQCByteMsg

LEMMA StartVCRest ==
  ASSUME RestTypes, NEW r \in Replicas, NEW v, NEW rest,
         StartViewChange(r, v, rest), \A m \in rest \ net : Shaped(m)
  PROVE  RestTypes'
<1>1. /\ awaitingBlocks' = [awaitingBlocks EXCEPT ![r] = [s \in Seqs |-> NilHash]]
      /\ UNCHANGED <<awaitingDecisionCopy, prepared, pending>>
  BY DEF StartViewChange, voteVars, clientVars
<1>2. [s \in Seqs |-> NilHash] \in [Seqs -> Hashes]
  BY CertTypes
<1>3. \A m \in net' \ net : Shaped(m)
  BY Shapes DEF StartViewChange
<1> QED
  BY <1>1, <1>2, <1>3 DEF RestTypes

LEMMA ViewChangeRest ==
  ASSUME VInv, RestTypes, NEW m \in net, HandleVCMsg(m)
  PROVE  RestTypes'
<1>1. CASE IgnoreVCMsg(m)
  BY <1>1, RestStays DEF IgnoreVCMsg, voteVars, clientVars
<1>2. CASE HandleTimeoutMsg(m)
  <2>1. \A x \in net' \ net : Shaped(x)
    BY <1>2, Shapes DEF HandleTimeoutMsg
  <2> QED
    BY <1>2, <2>1, RestStays DEF HandleTimeoutMsg, voteVars, clientVars
<1>3. CASE HandleQCVCMessage(m)
  BY <1>3, RestStays DEF HandleQCVCMessage, voteVars, clientVars
<1>4. CASE HandleTQCMsg(m)
  <2>1. m.dst \in Replicas /\ m.type = "TQC" /\ m \in TQCMsgs
    BY <1>4 DEF HandleTQCMsg, VInv, BlockInv, VTypes, MsgFields
  <2>2. \A d : [m EXCEPT !.dst = d].type = "TQC"
    BY <2>1 DEF TQCMsgs
  <2>3. \A d : Shaped([m EXCEPT !.dst = d])
    BY <2>2 DEF Shaped
  <2>4. PICK rest : /\ StartViewChange(m.dst, m.view, rest)
                    /\ \A x \in rest \ net : \E d : x = [m EXCEPT !.dst = d]
    BY <1>4 DEF HandleTQCMsg
  <2> QED
    BY <2>1, <2>3, <2>4, StartVCRest
<1> QED
  BY <1>1, <1>2, <1>3, <1>4 DEF HandleVCMsg

LEMMA TimeoutRest ==
  ASSUME RestTypes, NEW r \in Replicas, NEW v, TimeoutHandler(r, v)
  PROVE  RestTypes'
<1>1. CASE TimeoutPersistent(r, v)
  BY <1>1, StartVCRest DEF TimeoutPersistent
<1>2. CASE TimeoutInMemory(r, v)
  BY <1>2, Shapes, RestStays DEF TimeoutInMemory, voteVars, clientVars
<1> QED
  BY <1>1, <1>2 DEF TimeoutHandler

LEMMA NextRest ==
  ASSUME VInv, VInv', RestTypes, [VCNext]_allVars
  PROVE  RestTypes'
<1>1. CASE UNCHANGED allVars
  BY <1>1, RestStays DEF allVars, vars, voteVars, clientVars
<1> QED
  BY <1>1, NormalRest, ViewChangeRest, TimeoutRest DEF VCNext

LEMMA InitRest == VCInit => RestTypes
BY CertTypes
DEF VCInit, Init, InitProtocol, InitClients, RestTypes

\* The handlers of the normal case and of the view change (hotstuff.go,
\* viewchange.go) keep every variable in its domain, whatever is delivered when.
THEOREM VCTypeOKHolds == VCSpec => []VCTypeOK
<1>1. VInv /\ RestTypes => VCTypeOK
  <2> SUFFICES ASSUME VInv, RestTypes PROVE VCTypeOK
    OBVIOUS
  <2> DEFINE blocks == [view: Views, height: Nat, hash: Hashes, ids: SUBSET Replicas]
             proposals == [type: {"QC"}, src: Replicas, dst: Replicas, view: Views,
                           seq: Seqs, hash: Hashes, qc: blocks]
             viewChanges == [type: {"VIEWCHANGE"}, src: Replicas, dst: Replicas,
                             view: Views, qc: blocks]
  <2>1. Certs \subseteq blocks
    BY DEF Certs
  <2>2. ASSUME NEW m \in net
        PROVE  m \in proposals \cup Votes \cup viewChanges \cup TimeoutMsgs \cup TQCMsgs
    <3>1. MsgFields(m) /\ Shaped(m)
      BY DEF VInv, BlockInv, VTypes, RestTypes
    <3>2. CASE m.type = "QC"
      <4>1. m \in proposals
        BY <2>1, <3>1, <3>2 DEF MsgFields, Shaped, Proposal
      <4> QED
        BY <4>1
    <3>3. CASE m.type = "QCREP"
      BY <3>1, <3>3 DEF MsgFields, Shaped, Vote, Votes
    <3>4. CASE m.type = "VIEWCHANGE"
      <4>1. m \in viewChanges
        BY <2>1, <3>1, <3>4 DEF MsgFields, Shaped, ViewChangeMsg
      <4> QED
        BY <4>1
    <3>5. CASE m.type = "TIMEOUT"
      BY <3>1, <3>5 DEF MsgFields, Shaped, TimeoutMsg, TimeoutMsgs
    <3>6. CASE m.type = "TQC"
      BY <3>1, <3>6 DEF MsgFields
    <3> QED
      BY <3>1, <3>2, <3>3, <3>4, <3>5, <3>6 DEF Shaped
  <2>3. /\ curBlock \in [Replicas -> blocks]
        /\ lockedBlock \in [Replicas -> blocks]
        /\ committedBlocks \in [Replicas -> [Heights -> blocks \cup {NoBlock}]]
    BY <2>1 DEF VInv, BlockInv, VTypes, NormalTypes
  <2> HIDE DEF blocks
  <2>4. net \subseteq proposals \cup Votes \cup viewChanges \cup TimeoutMsgs \cup TQCMsgs
    BY <2>2
  <2> HIDE DEF proposals, viewChanges
  <2> QED
    BY <2>3, <2>4
    DEF VCTypeOK, VInv, BlockInv, VTypes, NormalTypes, BufferTypes, RestTypes, blocks,
        proposals, viewChanges
<1>2. VInv /\ VInv' /\ RestTypes /\ [VCNext]_allVars => RestTypes'
  BY NextRest
<1> QED
  BY <1>1, <1>2, InitRest, VCInvariance, PTL DEF VCSpec

----------------------------------------------------------------------------
(* Until a timer fires, and always if view changes are switched off, this  *)
(* is HotStuff: what MCFork shows takes a replica that timed out.          *)

\* Replica r has left view 0 or is about to: its timer has fired.
TimedOut(r) == ViewChangeMode /\ GaveUp(r, 0)

Undisturbed == \A r \in Replicas : ~TimedOut(r)

\* The only timer there may be is that of view 0.
FirstTimers ==
  \A r \in Replicas : \A v \in timers[r] : ViewChangeMode /\ v = 0 /\ monitor[r][0] # "wait"

FInv == Undisturbed => IInv /\ FirstTimers

LEMMA InitFInv == VCInit => FInv
<1>1. VCInit => FirstTimers
  BY DEF VCInit, Init, InitProtocol, FirstTimers
<1> QED
  BY <1>1, InitIInv DEF VCInit, FInv

\* A monitor of view 0 starts its timer as it starts, and no other step does.
LEMMA MonitorFirst ==
  ASSUME VInv, NEW r \in Replicas, NEW v \in Views, RequestMonitor(r, v)
  PROVE  /\ UNCHANGED view
         /\ \A s \in Replicas : monitor'[s][0] = "wait" => monitor[s][0] = "wait"
         /\ \A s \in Replicas : \A u \in timers'[s] :
              \/ u \in timers[s]
              \/ ViewChangeMode /\ s = r /\ u = v /\ monitor[r][v] = "wait"
         /\ monitor[r][v] = "wait" => monitor'[r][v] # "wait"
<1>1. UNCHANGED view
  BY DEF RequestMonitor, MonitorStart, MonitorCheckView, MonitorCheckStatus,
         MonitorClaim, MonitorPropose
<1>2. PICK q \in MonitorPoints \ {"wait"} : monitor' = [monitor EXCEPT ![r][v] = q]
  BY DEF RequestMonitor, MonitorStart, MonitorCheckView, MonitorCheckStatus,
         MonitorClaim, MonitorPropose, MonitorGoto, MonitorPoints
<1>3. \/ timers' = timers
      \/ /\ ViewChangeMode /\ monitor[r][v] = "wait"
         /\ timers' = [timers EXCEPT ![r] = @ \cup {v}]
  BY DEF RequestMonitor, MonitorStart, MonitorCheckView, MonitorCheckStatus,
         MonitorClaim, MonitorPropose, MonitorAt
<1>4. \A s \in Replicas, u \in Views :
        monitor'[s][u] = IF s = r /\ u = v THEN q ELSE monitor[s][u]
  BY <1>2 DEF VInv, BlockInv, VTypes, NormalTypes
<1>5. \A s \in Replicas : \A u \in timers'[s] :
        u \in timers[s] \/ (ViewChangeMode /\ s = r /\ u = v /\ monitor[r][v] = "wait")
  BY <1>3 DEF VInv, BlockInv, VTypes, NormalTypes
<1> QED
  BY <1>1, <1>2, <1>4, <1>5, FirstLeader

\* Whoever has given up view 0 has done so for good.
GivenUp == \A s \in Replicas : GaveUp(s, 0) => GaveUp(s, 0)'

\* Who leaves for another view has given up this one.
LEMMA MovedOn ==
  ASSUME VInv, NEW r \in Replicas, NEW w \in Nat \ {0}, view' = [view EXCEPT ![r] = w],
         \A s \in Replicas \ {r} : UNCHANGED <<timers[s], monitor[s]>>
  PROVE  GivenUp /\ GaveUp(r, 0)'
<1>1. \A s \in Replicas : view'[s] = IF s = r THEN w ELSE view[s]
  BY DEF VInv, BlockInv, VTypes, NormalTypes
<1> QED
  BY <1>1 DEF GivenUp, GaveUp

LEMMA NextGivesUp ==
  ASSUME VInv, VCNext
  PROVE  GivenUp
<1>1. ASSUME UNCHANGED <<view, timers, monitor>>
      PROVE  GivenUp
  BY <1>1 DEF GivenUp, GaveUp
<1>2. ASSUME NEW r \in Replicas, NEW v \in Views, RequestMonitor(r, v)
      PROVE  GivenUp
  <2>1. ASSUME NEW s \in Replicas, GaveUp(s, 0) PROVE GaveUp(s, 0)'
    BY <1>2, <2>1, MonitorFirst DEF GaveUp
  <2> QED
    BY <2>1 DEF GivenUp
<1>3. ASSUME Next PROVE GivenUp
  <2>1. ASSUME NEW r \in Replicas, NEW req \in Requests, HandleRequest(r, req)
        PROVE  GivenUp
    BY <1>1, <2>1 DEF HandleRequest
  <2>2. ASSUME NEW m \in net, HandleQCByteMsg(m)
        PROVE  GivenUp
    BY <1>1, <2>2 DEF HandleQCByteMsg, IgnoreMsg, RejectProposal, HandleNormalMsg, DropVote,
                      HandleNormalRepMsg
  <2> QED
    BY <1>2, <1>3, <2>1, <2>2 DEF Next
<1>4. ASSUME NEW r \in Replicas, NEW v \in Views, TimeoutPersistent(r, v)
      PROVE  GivenUp
  <2>1. /\ view' = [view EXCEPT ![r] = v + 1]
        /\ \E T : timers' = [timers EXCEPT ![r] = T]
        /\ UNCHANGED monitor
    BY <1>4 DEF TimeoutPersistent, StartViewChange
  <2>2. \A s \in Replicas \ {r} : UNCHANGED <<timers[s], monitor[s]>>
    BY <2>1 DEF VInv, BlockInv, VTypes, NormalTypes
  <2>3. v + 1 \in Nat \ {0}
    BY DEF Views
  <2> QED
    BY <2>1, <2>2, <2>3, MovedOn
<1>5. ASSUME NEW r \in Replicas, NEW v \in Views, TimeoutInMemory(r, v)
      PROVE  GivenUp
  <2>1. /\ timers' = [timers EXCEPT ![r] = @ \ {v}]
        /\ UNCHANGED <<view, monitor>>
    BY <1>5 DEF TimeoutInMemory
  <2>2. \A s \in Replicas : timers'[s] \subseteq timers[s]
    BY <2>1 DEF VInv, BlockInv, VTypes, NormalTypes
  <2> QED
    BY <2>1, <2>2 DEF GivenUp, GaveUp
<1>6. ASSUME NEW m \in net, HandleVCMsg(m)
      PROVE  GivenUp
  <2>0. MsgFields(m)
    BY DEF VInv, BlockInv, VTypes
  <2>1. CASE IgnoreVCMsg(m) \/ HandleTimeoutMsg(m)
    BY <1>1, <2>1 DEF IgnoreVCMsg, HandleTimeoutMsg
  <2>2. CASE HandleTQCMsg(m)
    <3>1. m.dst \in Replicas /\ m.view + 1 \in Nat \ {0}
      BY <2>0, <2>2 DEF HandleTQCMsg, MsgFields, Views
    <3>2. /\ view' = [view EXCEPT ![m.dst] = m.view + 1]
          /\ \E T : timers' = [timers EXCEPT ![m.dst] = T]
          /\ UNCHANGED monitor
      BY <2>2 DEF HandleTQCMsg, StartViewChange
    <3>3. \A s \in Replicas \ {m.dst} : UNCHANGED <<timers[s], monitor[s]>>
      BY <3>2 DEF VInv, BlockInv, VTypes, NormalTypes
    <3> QED
      BY <3>1, <3>2, <3>3, MovedOn
  <2>3. CASE HandleQCVCMessage(m)
    <3>1. m.dst \in Replicas /\ m.view \in Nat \ {0}
      BY <2>0, <2>3 DEF HandleQCVCMessage, MsgFields, Views, VInv, Handover
    <3>2. CASE UNCHANGED <<view, monitor>>
      BY <1>1, <2>3, <3>2 DEF HandleQCVCMessage
    <3>3. CASE /\ view' = [view EXCEPT ![m.dst] = m.view]
               /\ monitor' = [monitor EXCEPT ![m.dst][m.view] = "wait"]
      <4>1. \A s \in Replicas \ {m.dst} : UNCHANGED <<timers[s], monitor[s]>>
        BY <2>3, <3>3 DEF HandleQCVCMessage, VInv, BlockInv, VTypes, NormalTypes
      <4> QED
        BY <3>1, <3>3, <4>1, MovedOn
    <3> QED
      BY <2>3, <3>2, <3>3 DEF HandleQCVCMessage, MonitorGoto
  <2> QED
    BY <1>6, <2>1, <2>2, <2>3 DEF HandleVCMsg
<1> QED
  BY <1>3, <1>4, <1>5, <1>6 DEF VCNext, TimeoutHandler

\* As long as nobody has timed out only the normal case takes steps.
LEMMA OnlyNormalSteps ==
  ASSUME VInv, FInv, VCNext, Undisturbed'
  PROVE  Undisturbed /\ Next /\ UNCHANGED vcVars
<1>1. Undisturbed
  BY NextGivesUp DEF Undisturbed, TimedOut, GivenUp
<1>2. IInv /\ FirstTimers
  BY <1>1 DEF FInv
<1>3. ASSUME NEW r \in Replicas, NEW v \in Views, TimeoutHandler(r, v)
      PROVE  FALSE
  <2>1. v \in timers[r] /\ v = 0 /\ ViewChangeMode /\ monitor[r][0] # "wait"
    BY <1>2, <1>3 DEF TimeoutHandler, TimeoutPersistent, TimeoutInMemory, TimerFires,
                      FirstTimers
  <2>2. view[r] = 0
    BY <1>2 DEF IInv, OneView
  <2>3. CASE TimeoutPersistent(r, v)
    <3>1. view'[r] = 1
      BY <2>1, <2>3 DEF TimeoutPersistent, StartViewChange, VInv, BlockInv, VTypes, NormalTypes
    <3> QED
      BY <2>1, <3>1 DEF Undisturbed, TimedOut, GaveUp
  <2>4. CASE TimeoutInMemory(r, v)
    <3>1. 0 \notin timers'[r] /\ UNCHANGED <<view, monitor>>
      BY <2>1, <2>4 DEF TimeoutInMemory, VInv, BlockInv, VTypes, NormalTypes
    <3> QED
      BY <2>1, <2>2, <3>1 DEF Undisturbed, TimedOut, GaveUp
  <2> QED
    BY <1>3, <2>3, <2>4 DEF TimeoutHandler
<1>4. ASSUME NEW m \in net, HandleVCMsg(m)
      PROVE  FALSE
  <2>1. m.type \in {"QC", "QCREP"}
    BY <1>2 DEF IInv, TypeInv, Proposals, Votes
  <2> QED
    BY <1>4, <2>1 DEF HandleVCMsg, IgnoreVCMsg, HandleTimeoutMsg, HandleTQCMsg, HandleQCVCMessage
<1> QED
  BY <1>1, <1>3, <1>4 DEF VCNext

LEMMA NextFInv ==
  ASSUME VInv, FInv, [VCNext]_allVars
  PROVE  FInv'
<1>1. CASE UNCHANGED allVars
  <2>1. UNCHANGED <<vars, view, timers, monitor, vcPrepared>>
    BY <1>1 DEF allVars, vars, vcVars
  <2> QED
    BY <2>1, StutterIInv DEF FInv, Undisturbed, TimedOut, GaveUp, FirstTimers
<1>2. ASSUME VCNext, Undisturbed'
      PROVE  IInv' /\ FirstTimers'
  <2>1. IInv /\ FirstTimers /\ Next
    BY <1>2, OnlyNormalSteps DEF FInv
  <2>2. IInv'
    BY <2>1, NextIInv
  <2>3. ASSUME UNCHANGED <<timers, monitor>> PROVE FirstTimers'
    BY <2>1, <2>3 DEF FirstTimers
  <2>4. ASSUME NEW r \in Replicas, NEW v \in Views, RequestMonitor(r, v)
        PROVE  FirstTimers'
    <3>1. monitor[r][v] = "wait" => v = 0
      BY <2>1 DEF IInv, OneView, MonitorAt
    <3> QED
      BY <2>1, <2>4, <3>1, MonitorFirst DEF FirstTimers
  <2>5. ASSUME NEW r \in Replicas, NEW req \in Requests, HandleRequest(r, req)
        PROVE  FirstTimers'
    BY <2>3, <2>5 DEF HandleRequest
  <2>6. ASSUME NEW m \in net, HandleQCByteMsg(m)
        PROVE  FirstTimers'
    BY <2>3, <2>6 DEF HandleQCByteMsg, IgnoreMsg, RejectProposal, HandleNormalMsg, DropVote,
                      HandleNormalRepMsg
  <2> QED
    BY <2>1, <2>2, <2>4, <2>5, <2>6 DEF Next
<1> QED
  BY <1>1, <1>2 DEF FInv

LEMMA FirstViewInvariance == VCSpec => []FInv
<1>1. VInv /\ FInv /\ [VCNext]_allVars => FInv'
  BY NextFInv
<1> QED
  BY InitFInv, <1>1, VCInvariance, PTL DEF VCSpec

\* As long as no rotating timer has fired (TimeoutHandler has not been called) no two
\* replicas commit different blocks at a height, whatever else happens.
THEOREM AgreementUntilTimeout == VCSpec => [](Undisturbed => Agreement)
<1>1. FInv => (Undisturbed => Agreement)
  BY AgreementFollows DEF FInv
<1> QED
  BY <1>1, FirstViewInvariance, PTL

\* The same for what agreement rests on: certificates are on one chain, locks on
\* top of what is committed, and one proposal is outstanding at a time.
THEOREM ChainUntilTimeout ==
  VCSpec => [](Undisturbed => OneChain /\ CommitBelowLock /\ OneProposalOutstanding)
<1>1. FInv => (Undisturbed => OneChain /\ CommitBelowLock /\ OneProposalOutstanding)
  BY OneChainFollows, CommitBelowLockFollows, OneProposalFollows DEF FInv
<1> QED
  BY <1>1, FirstViewInvariance, PTL

\* With config.IsViewChangeMode() false the program is that of hotstuff.go and
\* events.go alone: the module of view changes implements the one of the normal case,
\* and all that is proved of the latter holds of it.
THEOREM NormalCaseOnly ==
  ASSUME ViewChangeMode = FALSE
  PROVE  VCSpec => Spec
<1>1. Undisturbed /\ Undisturbed'
  BY DEF Undisturbed, TimedOut
<1>2. VInv /\ FInv /\ [VCNext]_allVars => [Next]_vars
  BY <1>1, OnlyNormalSteps DEF allVars
<1>3. VCInit => Init
  BY DEF VCInit
<1> QED
  BY <1>2, <1>3, VCInvariance, FirstViewInvariance, PTL DEF VCSpec, Spec
----------------------------------------------------------------------------
(* VoteCounting (see VoteBuffer) is what each replica does to its votes:   *)
(* no view change, proposal, monitor or timer gets in between.             *)

Counting(r) == INSTANCE VoteCounting WITH
  Quorum <- QuorumSize, view <- view[r], status <- curStatus[r], block <- curBlock[r],
  votes <- votes[r], prepared <- prepared[r]

LEMMA ReplicaCardinality ==
  ASSUME NEW r
  PROVE  \A S : Counting(r)!Cardinality(S) = Cardinality(S)
<1>1. \A S : Counting(r)!IsFiniteSet(S) = IsFiniteSet(S)
  BY DEF Counting!IsFiniteSet, IsFiniteSet
<1> QED
  BY <1>1 DEF Counting!Cardinality, Cardinality

VotersIn(S, h) == { x.id : x \in { y \in S : y.hash = h } }

LEMMA OneMoreVoter ==
  \A S, v : VotersIn(S \cup {v}, v.hash) = VotersIn(S, v.hash) \cup {v.id}
<1> TAKE S, v
<1>1. { y \in S \cup {v} : y.hash = v.hash } = { y \in S : y.hash = v.hash } \cup {v}
  OBVIOUS
<1>2. \A T : { x.id : x \in T \cup {v} } = { x.id : x \in T } \cup {v.id}
  BY ZenonT(20)
<1> QED
  BY <1>1, <1>2 DEF VotersIn

\* HandleNormalRepMsg alone touches the vote buffer.
LEMMA VotesUntouched ==
  ASSUME VCNext, \A m \in net : ~HandleNormalRepMsg(m)
  PROVE  UNCHANGED voteVars
<1>1. ASSUME NEW r \in Replicas, NEW v \in Views, RequestMonitor(r, v)
      PROVE  UNCHANGED voteVars
  BY <1>1 DEF RequestMonitor, MonitorStart, MonitorCheckView, MonitorCheckStatus,
              MonitorClaim, MonitorPropose
<1>2. ASSUME Next
      PROVE  UNCHANGED voteVars
  BY <1>1, <1>2 DEF Next, HandleRequest, HandleQCByteMsg, IgnoreMsg, RejectProposal,
                    HandleNormalMsg, DropVote
<1>3. ASSUME NEW r \in Replicas, NEW v \in Views, TimeoutHandler(r, v)
      PROVE  UNCHANGED voteVars
  BY <1>3 DEF TimeoutHandler, TimeoutPersistent, TimeoutInMemory, StartViewChange
<1>4. ASSUME NEW m \in net, HandleVCMsg(m)
      PROVE  UNCHANGED voteVars
  BY <1>4 DEF HandleVCMsg, IgnoreVCMsg, HandleTimeoutMsg, HandleTQCMsg,
              HandleQCVCMessage, StartViewChange
<1> QED
  BY <1>2, <1>3, <1>4 DEF VCNext

LEMMA VoteCounted ==
  ASSUME VInv, RestTypes, NEW m \in net, HandleNormalRepMsg(m), m.dst \in Replicas
  PROVE  Counting(m.dst)!CountingNext
<1> DEFINE r == m.dst
           vote == [hash |-> m.hash, id |-> m.src]
<1>1. votes' = [votes EXCEPT ![r] = @ \cup {vote}]
  BY DEF HandleNormalRepMsg
<1>2. votes'[r] = votes[r] \cup {vote}
  BY <1>1 DEF VInv, BlockInv, VTypes, NormalTypes
<1>3. curStatus[r] # "VIEWCHANGE" /\ vote.hash \notin prepared[r]
  BY DEF HandleNormalRepMsg, Ignored, UselessVote
<1>4. Counting(r)!Voters(vote.hash)' = Voters(r, m)
  <2>1. Counting(r)!Voters(vote.hash)' = VotersIn(votes'[r], m.hash)
    BY DEF Counting!Voters, VotersIn
  <2>2. Voters(r, m) = VotersIn(votes[r], m.hash) \cup {m.src}
    BY DEF Voters, VotersIn
  <2>3. PICK v : v = vote
    OBVIOUS
  <2>4. v.hash = m.hash /\ v.id = m.src /\ votes'[r] = votes[r] \cup {v}
    BY <1>2, <2>3
  <2> QED
    BY <2>1, <2>2, <2>4, OneMoreVoter
<1>5. Counting(r)!Cardinality(Counting(r)!Voters(vote.hash)') = Cardinality(Voters(r, m))
  BY <1>4, ReplicaCardinality
<1>6. IF Cardinality(Voters(r, m)) >= QuorumSize
        THEN /\ prepared'[r] = prepared[r] \cup {vote.hash}
             /\ curBlock'[r] = [view |-> view[r], height |-> curBlock[r].height + 1,
                                hash |-> vote.hash, ids |-> Voters(r, m)]
             /\ curStatus'[r] = "READY"
        ELSE UNCHANGED <<prepared[r], curBlock[r], curStatus[r]>>
  BY DEF HandleNormalRepMsg, NewQC, VInv, BlockInv, VTypes, NormalTypes, RestTypes
<1>7. view'[r] = view[r]
  BY DEF HandleNormalRepMsg
<1>8. Counting(r)!CountVote(vote)
  BY <1>2, <1>3, <1>4, <1>5, <1>6, <1>7 DEF Counting!CountVote
<1> QED
  BY <1>2, <1>8 DEF Counting!CountingNext

LEMMA StepCounts ==
  ASSUME VInv, RestTypes, NEW r \in Replicas, [VCNext]_allVars
  PROVE  [Counting(r)!CountingNext]_(Counting(r)!countingVars)
<1>1. CASE UNCHANGED allVars
  BY <1>1 DEF allVars, vars, voteVars, chainVars, Counting!countingVars
<1>2. ASSUME NEW m \in net, HandleNormalRepMsg(m), m.dst = r
      PROVE  Counting(r)!CountingNext
  BY <1>2, VoteCounted
<1>3. ASSUME VCNext, UNCHANGED <<votes[r], prepared[r]>>
      PROVE  Counting(r)!CountingNext
  BY <1>3, VCNextStep DEF Grown, Counting!Elsewhere, Counting!CountingNext
<1>4. ASSUME NEW m \in net, HandleNormalRepMsg(m), m.dst # r
      PROVE  UNCHANGED <<votes[r], prepared[r]>>
  BY <1>4 DEF HandleNormalRepMsg, VInv, BlockInv, VTypes, NormalTypes, RestTypes
<1> QED
  BY <1>1, <1>2, <1>3, <1>4, VotesUntouched DEF voteVars

LEMMA RestInvariance == VCSpec => [](VInv /\ RestTypes)
<1>1. VInv /\ RestTypes /\ [VCNext]_allVars => VInv' /\ RestTypes'
  BY VCNextStep, NextRest
<1> QED
  BY InitVInv, InitRest, <1>1, PTL DEF VCSpec

\* Every replica counts its votes, and certifies the quorums among them, as
\* VoteCounting says, also across leader changes (HandleNormalRepMsg).
THEOREM VotesCountAtOnce ==
  ASSUME NEW r \in Replicas
  PROVE  VCSpec => Counting(r)!CountingSpec
<1>1. VCInit => Counting(r)!CountingInit
  BY DEF VCInit, Init, InitProtocol, EmptyBlock, Counting!CountingInit
<1>2. VInv /\ RestTypes /\ [VCNext]_allVars
        => [Counting(r)!CountingNext]_(Counting(r)!countingVars)
  BY StepCounts
<1> QED
  BY <1>1, <1>2, RestInvariance, PTL DEF VCSpec, Counting!CountingSpec
LEMMA StepCertifies ==
  ASSUME NEW r, Counting(r)!QuorumsCertified,
         [Counting(r)!CountingNext]_(Counting(r)!countingVars)
  PROVE  Counting(r)!QuorumsCertified'
<1>1. CASE UNCHANGED <<votes[r], prepared[r]>>
  BY <1>1 DEF Counting!QuorumsCertified, Counting!Voters
<1>2. ASSUME NEW vote \in votes'[r], Counting(r)!CountVote(vote)
      PROVE  Counting(r)!QuorumsCertified'
  <2> SUFFICES ASSUME NEW x \in votes'[r]
               PROVE  x.hash \in prepared'[r]
                        <=> Counting(r)!Cardinality(Counting(r)!Voters(x.hash)')
                              >= QuorumSize
    BY DEF Counting!QuorumsCertified
  <2>1. votes'[r] = votes[r] \cup {vote} /\ vote.hash \notin prepared[r]
    BY <1>2 DEF Counting!CountVote
  <2>2. CASE x.hash = vote.hash
    BY <1>2, <2>1, <2>2 DEF Counting!CountVote
  <2>3. CASE x.hash # vote.hash
    <3>1. x \in votes[r]
      BY <2>1, <2>3
    <3>2. Counting(r)!Voters(x.hash)' = Counting(r)!Voters(x.hash)
      <4>1. { y \in votes'[r] : y.hash = x.hash } = { y \in votes[r] : y.hash = x.hash }
        BY <2>1, <2>3
      <4> QED
        BY <4>1 DEF Counting!Voters
    <3>3. x.hash \in prepared'[r] <=> x.hash \in prepared[r]
      BY <1>2, <2>3 DEF Counting!CountVote
    <3> QED
      BY <3>1, <3>2, <3>3 DEF Counting!QuorumsCertified
  <2> QED
    BY <2>2, <2>3
<1> QED
  BY <1>1, <1>2 DEF Counting!CountingNext, Counting!Elsewhere, Counting!countingVars

\* At a replica a block that has votes has a certificate as soon as, and not
\* before, a quorum has voted for it.
THEOREM QuorumsCertifiedHolds ==
  ASSUME NEW r \in Replicas
  PROVE  VCSpec => []Counting(r)!QuorumsCertified
<1>1. Counting(r)!CountingInit => Counting(r)!QuorumsCertified
  BY DEF Counting!CountingInit, Counting!QuorumsCertified
<1>2. Counting(r)!QuorumsCertified
        /\ [Counting(r)!CountingNext]_(Counting(r)!countingVars)
        => Counting(r)!QuorumsCertified'
  BY StepCertifies
<1> QED
  BY <1>1, <1>2, VotesCountAtOnce, PTL DEF Counting!CountingSpec
=============================================================================
