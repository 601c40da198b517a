--------------------------- MODULE HotStuffProofs ---------------------------
(***************************************************************************)
(* Proofs about HotStuff, the protocol of one view, for every number of    *)
(* replicas, quorum size and bound: its invariants and NothingUndone.      *)
(*                                                                         *)
(* The argument.  Only replica 0 proposes, and it proposes again only when *)
(* its last proposal has a certificate.  So awaitingBlocks[0] is one chain *)
(* that only grows, a vote that HandleNormalRepMsg counts is for its last  *)
(* block, and the height it counts up is the place of that block in the    *)
(* chain.  Every certificate there is says "block h of the chain has       *)
(* height h", and two replicas that commit at one height commit one block. *)
(***************************************************************************)
EXTENDS HotStuff, TLAPS

----------------------------------------------------------------------------
(* The inductive invariant.                                                *)

\* A certificate is the empty one or for the block of its height in the chain of
\* replica 0, which has n blocks, and it names a quorum of replicas that accepted
\* that block.
SoundIn(c, n, chain, accepted) ==
  /\ \/ c = EmptyBlock
     \/ c.height \in 1..n /\ c.hash = chain[c.height]
  /\ c.hash # NilHash => /\ Cardinality(c.ids) >= QuorumSize
                         /\ \A i \in c.ids : c.hash \in accepted[i]

Sound(c) == SoundIn(c, Sequence[0], awaitingBlocks[0], receivedBlocksSet)

TypeInv == TypeOK /\ net \subseteq Proposals \cup Votes

OneView ==
  \A r \in Replicas :
    /\ view[r] = 0
    /\ curStatus[r] \in {"READY", "PROCESSING"}
    /\ \A v \in Views : v # 0 => MonitorAt(r, v, "off")
    /\ r # 0 => monitor[r][0] \in {"wait", "off"}

\* The blocks replica 0 proposed form a chain.
Chain ==
  /\ \A s \in 1..Sequence[0] : Len(awaitingBlocks[0][s]) = s
  /\ \A s, t \in 1..Sequence[0] :
       s <= t => Extends(awaitingBlocks[0][t], awaitingBlocks[0][s])
  /\ curHash[0] = IF Sequence[0] = 0 THEN NilHash ELSE awaitingBlocks[0][Sequence[0]]

ProposalOfChain(m) ==
  /\ m.src = 0 /\ m.view = 0 /\ m.seq <= Sequence[0]
  /\ m.hash = awaitingBlocks[0][m.seq]
  /\ m.qc.height = m.seq - 1
  /\ Sound(m.qc)

VoteOfChain(m) ==
  /\ m.dst = 0 /\ m.view = 0 /\ m.seq <= Sequence[0]
  /\ m.hash = awaitingBlocks[0][m.seq]
  /\ m.hash \in receivedBlocksSet[m.src]

Messages ==
  \A m \in net : /\ m.type = "QC" => ProposalOfChain(m)
                 /\ m.type = "QCREP" => VoteOfChain(m)

Collected == \A r \in Replicas : \A x \in votes[r] : x.hash \in receivedBlocksSet[x.id]

\* Replica 0 has the certificates of all its proposals, or of all but the last.
Leading ==
  /\ prepared[0] = { awaitingBlocks[0][k] : k \in 1..curBlock[0].height }
  /\ curStatus[0] = "READY" => curBlock[0].height = Sequence[0]
  /\ curStatus[0] = "PROCESSING" =>
       curBlock[0].height =
         IF MonitorAt(0, 0, "propose") THEN Sequence[0] ELSE Sequence[0] - 1
  /\ MonitorAt(0, 0, "claim") => curStatus[0] = "READY"
  /\ MonitorAt(0, 0, "propose") => curStatus[0] = "PROCESSING"

Certified ==
  \A r \in Replicas :
    /\ Sound(curBlock[r])
    /\ Sound(lockedBlock[r])
    /\ \A h \in Heights : Committed(r, h) =>
         /\ Sound(committedBlocks[r][h])
         /\ committedBlocks[r][h].height = h

\* What is committed is below the lock, the lock is below the current block.
Ladder ==
  \A r \in Replicas :
    /\ lockedBlock[r].height = 0 \/ lockedBlock[r].height < curBlock[r].height
    /\ \A h \in Seqs : Committed(r, h) => h < lockedBlock[r].height

IInv ==
  /\ TypeInv
  /\ OneView
  /\ Chain
  /\ Messages
  /\ Collected
  /\ Leading
  /\ Certified
  /\ Ladder

----------------------------------------------------------------------------
(* Facts about the definitions.                                            *)

LEMMA FirstLeader ==
  /\ 0 \in Replicas
  /\ 0 \in Views
  /\ \A r \in Replicas : view[r] = 0 => (Leader(r) <=> r = 0)
BY ConstantsAssumption DEF Replicas, Views, Leader, LeaderID

LEMMA BlockTypes ==
  /\ EmptyBlock \in Blocks
  /\ NoBlock \notin Blocks
  /\ EmptyBlock # NoBlock
  /\ EmptyBlock.height = 0
  /\ EmptyBlock.hash = NilHash
<1>1. NilHash \in Hashes /\ 0 \in Views /\ 0 \in Heights /\ -1 \notin Heights
  BY ConstantsAssumption DEF NilHash, Hashes, Views, Heights
<1> QED
  BY <1>1 DEF EmptyBlock, NoBlock, Blocks

\* The prefix relation on chains.
LEMMA ExtendsRefl == ASSUME NEW h \in Hashes PROVE Extends(h, h) /\ Extends(h, NilHash)
  BY DEF Extends, Hashes, NilHash

LEMMA ExtendsAppend ==
  ASSUME NEW h \in Hashes, NEW g \in Hashes, Extends(h, g),
         NEW e \in [seq: Seqs, ops: Seq(Requests)]
  PROVE  Extends(Append(h, e), g)
  BY DEF Extends, Hashes

THEOREM InitIInv == Init => IInv
<1> SUFFICES ASSUME Init PROVE IInv
  OBVIOUS
<1> USE FirstLeader, BlockTypes DEF Init, InitProtocol, InitMonitors, InitClients
<1>1. TypeInv
  BY ConstantsAssumption
     DEF TypeInv, TypeOK, Status, Heights, Seqs, Hashes, NilHash, MonitorPoints,
         Replicas, Views
<1>2. OneView
  BY DEF OneView, MonitorAt
<1>3. Chain
  BY DEF Chain
<1>4. Messages /\ Collected
  BY DEF Messages, Collected
<1>5. Leading
  BY DEF Leading, MonitorAt
<1>6. Certified /\ Ladder
  BY DEF Certified, Ladder, Committed, Sound, SoundIn, Seqs, Heights
<1> QED
  BY <1>1, <1>2, <1>3, <1>4, <1>5, <1>6 DEF IInv

----------------------------------------------------------------------------
(* Type correctness of a step.  Only two steps could leave the types: a    *)
(* new certificate could be higher than MaxSeq, and a block could be       *)
(* committed at a height that is none.                                     *)

LEMMA ChainTypes ==
  ASSUME NEW h \in Hashes, NEW s \in Seqs, NEW ops \in Seq(Requests)
  PROVE  /\ ObtainCurHash(h, s, ops) \in Hashes
         /\ Len(ObtainCurHash(h, s, ops)) = Len(h) + 1
         /\ \A g \in Hashes : Extends(h, g) => Extends(ObtainCurHash(h, s, ops), g)
<1> DEFINE E == [seq: Seqs, ops: Seq(Requests)]
           e == [seq |-> s, ops |-> ops]
<1>1. e \in E
  OBVIOUS
<1>2. \A g \in Hashes : Extends(h, g) => Extends(Append(h, e), g)
  BY <1>1, ExtendsAppend
<1>3. Hashes = Seq(E)
  BY DEF Hashes
<1> HIDE DEF E, e
<1>4. Append(h, e) \in Hashes /\ Len(Append(h, e)) = Len(h) + 1
  BY <1>1, <1>3
<1> QED
  BY <1>2, <1>4 DEF ObtainCurHash, e

LEMMA MonitorTypes ==
  ASSUME IInv, NEW r \in Replicas, NEW v \in Views, RequestMonitor(r, v)
  PROVE  TypeInv'
<1> USE DEF TypeInv, TypeOK, MonitorPoints, MonitorGoto, Status
<1> TypeInv
  BY DEF IInv
<1>1. CASE MonitorStart(r, v)
  BY <1>1 DEF MonitorStart, chainVars, voteVars, clientVars
<1>2. CASE MonitorCheckView(r, v)
  BY <1>2 DEF MonitorCheckView, chainVars, voteVars, clientVars
<1>3. CASE MonitorCheckStatus(r, v)
  BY <1>3 DEF MonitorCheckStatus, chainVars, voteVars, clientVars
<1>4. CASE MonitorClaim(r, v)
  BY <1>4 DEF MonitorClaim, chainVars, voteVars, clientVars
<1>5. CASE MonitorPropose(r, v)
  <2> DEFINE seq  == Sequence[r] + 1
             hash == ObtainCurHash(curHash[r], seq, Batch(r))
  <2>1. seq \in Seqs
    BY <1>5, ConstantsAssumption DEF MonitorPropose, Seqs
  <2>2. Batch(r) \in Seq(Requests) /\ Rest(r) \in Seq(Requests)
    BY ConstantsAssumption DEF Batch, Rest, GrabSize, Smaller
  <2>3. hash \in Hashes
    BY <2>1, <2>2, ChainTypes
  <2>4. \A d \in Replicas :
          Proposal(r, d, view[r], seq, hash, FetchBlockInfo(r, seq)) \in Proposals
    BY <2>1, <2>3, BlockTypes DEF Proposal, Proposals, FetchBlockInfo
  <2>5. /\ StartHotStuff(r, seq, hash)
        /\ queue' = [queue EXCEPT ![r] = Rest(r)]
        /\ MonitorGoto(r, v, "top")
        /\ UNCHANGED <<view, curStatus, curBlock, lockedBlock, committedBlocks,
                       receivedBlocksSet, votes, prepared, pending, timers>>
    BY <1>5 DEF MonitorPropose, voteVars
  <2> HIDE DEF seq, hash
  <2>6. net' \subseteq Proposals \cup Votes
    BY <2>4, <2>5 DEF StartHotStuff
  <2>7. /\ Sequence' \in [Replicas -> 0..MaxSeq]
        /\ awaitingDecisionCopy' \in [Replicas -> SUBSET Seqs]
        /\ curHash' \in [Replicas -> Hashes]
        /\ awaitingBlocks' \in [Replicas -> [Seqs -> Hashes]]
    BY <2>1, <2>3, <2>5 DEF StartHotStuff, Seqs
  <2> QED
    BY <2>2, <2>5, <2>6, <2>7
<1> QED
  BY <1>1, <1>2, <1>3, <1>4, <1>5 DEF RequestMonitor

LEMMA HandleRequestTypes ==
  ASSUME IInv, NEW r \in Replicas, NEW req \in Requests, HandleRequest(r, req)
  PROVE  TypeInv'
BY DEF IInv, TypeInv, TypeOK, HandleRequest, chainVars, voteVars

\* The fields of a message.
LEMMA MessageFields ==
  ASSUME TypeInv, NEW m \in net
  PROVE  /\ m.type \in {"QC", "QCREP"}
         /\ m.src \in Replicas /\ m.dst \in Replicas
         /\ m.view \in Views /\ m.seq \in Seqs /\ m.hash \in Hashes
         /\ m.type = "QC" => m.qc \in Blocks
BY DEF TypeInv, Proposals, Votes

LEMMA ProposalTypes ==
  ASSUME IInv, NEW m \in net, HandleNormalMsg(m)
  PROVE  TypeInv'
<1> DEFINE r == m.dst
<1>1. TypeInv /\ m.type = "QC"
  BY DEF IInv, HandleNormalMsg
<1>2. r \in Replicas /\ m.src \in Replicas /\ m.seq \in Seqs /\ m.hash \in Hashes
      /\ m.qc \in Blocks
  BY <1>1, MessageFields
<1>3. lockedBlock[r].height \in Heights
  BY <1>1, <1>2 DEF TypeInv, TypeOK, Blocks
<1>4. Remembered(r, m.seq) \subseteq Seqs
  BY <1>1, <1>2 DEF Remembered, TypeInv, TypeOK
<1>5. /\ Sequence' \in [Replicas -> 0..MaxSeq]
      /\ curBlock' \in [Replicas -> Blocks]
      /\ lockedBlock' \in [Replicas -> Blocks]
      /\ curHash' \in [Replicas -> Hashes]
      /\ committedBlocks' \in [Replicas -> [Heights -> Blocks \cup {NoBlock}]]
      /\ awaitingDecisionCopy' \in [Replicas -> SUBSET Seqs]
  <2>1. CASE SkipQCInfo(r, m.qc, m.seq)
    BY <2>1, <1>1, <1>4 DEF SkipQCInfo, TypeInv, TypeOK, chainVars
  <2>2. CASE ProcessQCInfo(r, m.qc, m.seq)
    <3> USE DEF ProcessQCInfo, LockCurrent, CommitLocked, TypeInv, TypeOK
    <3>1. Larger(Sequence[r], m.seq) \in 0..MaxSeq
      BY <1>1, <1>2 DEF Larger, Seqs
    <3>2. m.qc.hash \in Hashes
      BY <1>2 DEF Blocks
    <3>3. Sequence' \in [Replicas -> 0..MaxSeq]
      BY <2>2, <3>1, <1>1
    <3>4. curBlock' \in [Replicas -> Blocks] /\ lockedBlock' \in [Replicas -> Blocks]
      BY <2>2, <1>1, <1>2
    <3>5. curHash' \in [Replicas -> Hashes]
      BY <2>2, <1>1, <3>2
    <3>6. committedBlocks' \in [Replicas -> [Heights -> Blocks \cup {NoBlock}]]
      BY <2>2, <1>1, <1>2, <1>3
    <3>7. awaitingDecisionCopy' \in [Replicas -> SUBSET Seqs]
      BY <2>2, <1>1, <1>4
    <3> QED
      BY <3>3, <3>4, <3>5, <3>6, <3>7
  <2> QED
    BY <2>1, <2>2 DEF HandleNormalMsg
<1>6. receivedBlocksSet' \in [Replicas -> SUBSET Hashes]
  BY <1>1, <1>2 DEF HandleNormalMsg, TypeInv, TypeOK
<1>7. net' \subseteq Proposals \cup Votes
  <2>1. \A d \in VoteTargets(r, m.src) :
          Vote(r, d, view[r], m.seq, m.hash) \in Votes
    BY <1>1, <1>2 DEF VoteTargets, Vote, Votes, TypeInv, TypeOK
  <2> QED
    BY <2>1, <1>1 DEF HandleNormalMsg, TypeInv
<1> QED
  BY <1>1, <1>5, <1>6, <1>7
     DEF HandleNormalMsg, TypeInv, TypeOK, voteVars, clientVars

\* A vote that counts is for the last proposal of replica 0, the one block it has
\* no certificate for.
LEMMA VoteForLast ==
  ASSUME IInv, NEW m \in net, HandleNormalRepMsg(m)
  PROVE  /\ m.dst = 0
         /\ m.seq = Sequence[0]
         /\ m.seq = curBlock[0].height + 1
         /\ curStatus[0] = "PROCESSING"
         /\ ~MonitorAt(0, 0, "propose")
<1>1. m.type = "QCREP" /\ ~UselessVote(m.dst, m)
  BY DEF HandleNormalRepMsg
<1>2. VoteOfChain(m) /\ m.seq \in Seqs
  BY <1>1, MessageFields DEF IInv, Messages
<1>3. m.dst = 0 /\ m.hash = awaitingBlocks[0][m.seq] /\ m.hash \notin prepared[0]
  BY <1>1, <1>2 DEF VoteOfChain, UselessVote
<1>4. curBlock[0].height \in Nat /\ Sequence[0] \in Nat
      /\ m.seq \in Nat \ {0} /\ m.seq <= Sequence[0]
  BY <1>2, FirstLeader
     DEF IInv, TypeInv, TypeOK, Blocks, Heights, Seqs, VoteOfChain
<1>5. ~(m.seq \in 1..curBlock[0].height)
  BY <1>3 DEF IInv, Leading
<1>6. curStatus[0] \in {"READY", "PROCESSING"}
  BY FirstLeader DEF IInv, TypeInv, TypeOK, Status, OneView
<1> QED
  BY <1>3, <1>4, <1>5, <1>6 DEF IInv, Leading

LEMMA VoteTypes ==
  ASSUME IInv, NEW m \in net, HandleNormalRepMsg(m)
  PROVE  TypeInv'
<1> DEFINE r == m.dst
<1>1. TypeInv /\ r = 0 /\ r \in Replicas
  BY VoteForLast, FirstLeader DEF IInv
<1>2. m.src \in Replicas /\ m.seq \in Seqs /\ m.hash \in Hashes
  BY <1>1, MessageFields
<1>3. NewQC(r, m) \in Blocks
  <2>1. curBlock[r].height + 1 \in Heights
    BY <1>1, <1>2, VoteForLast DEF Heights, Seqs
  <2>2. Voters(r, m) \subseteq Replicas
    BY <1>1, <1>2 DEF Voters, TypeInv, TypeOK
  <2> QED
    BY <2>1, <2>2, <1>1, <1>2 DEF NewQC, Blocks, TypeInv, TypeOK
<1>4. /\ votes' \in [Replicas -> SUBSET [hash: Hashes, id: Replicas]]
      /\ prepared' \in [Replicas -> SUBSET Hashes]
      /\ curBlock' \in [Replicas -> Blocks]
      /\ curStatus' \in [Replicas -> Status]
  <2>1. [hash |-> m.hash, id |-> m.src] \in [hash: Hashes, id: Replicas]
    BY <1>2
  <2>2. votes' \in [Replicas -> SUBSET [hash: Hashes, id: Replicas]]
    BY <2>1, <1>1 DEF HandleNormalRepMsg, TypeInv, TypeOK
  <2>3. CASE Cardinality(Voters(r, m)) >= QuorumSize
    <3>1. /\ prepared' = [prepared EXCEPT ![r] = @ \cup {m.hash}]
          /\ curBlock' = [curBlock EXCEPT ![r] = NewQC(r, m)]
          /\ curStatus' = [curStatus EXCEPT ![r] = "READY"]
      BY <2>3 DEF HandleNormalRepMsg
    <3>2. prepared' \in [Replicas -> SUBSET Hashes]
      BY <3>1, <1>1, <1>2 DEF TypeInv, TypeOK
    <3>3. curBlock' \in [Replicas -> Blocks]
      BY <3>1, <1>1, <1>3 DEF TypeInv, TypeOK
    <3>4. curStatus' \in [Replicas -> Status]
      BY <3>1, <1>1 DEF TypeInv, TypeOK, Status
    <3> QED
      BY <2>2, <3>2, <3>3, <3>4
  <2>4. CASE ~(Cardinality(Voters(r, m)) >= QuorumSize)
    BY <2>2, <2>4, <1>1 DEF HandleNormalRepMsg, TypeInv, TypeOK
  <2> QED
    BY <2>3, <2>4
<1> QED
  BY <1>1, <1>4 DEF HandleNormalRepMsg, TypeInv, TypeOK, clientVars

----------------------------------------------------------------------------
(* Steps that leave the chain and the certificates alone.                  *)

\* What a step may do to the chain: make it longer; to what replicas accepted:
\* accept more.
Grows ==
  /\ Sequence[0] <= Sequence'[0]
  /\ \A k \in 1..Sequence[0] : awaitingBlocks'[0][k] = awaitingBlocks[0][k]
  /\ \A i \in Replicas : receivedBlocksSet[i] \subseteq receivedBlocksSet'[i]

SoundNext(c) == SoundIn(c, Sequence'[0], awaitingBlocks'[0], receivedBlocksSet')

LEMMA SoundStays ==
  ASSUME TypeInv, TypeInv', Grows, NEW c \in Blocks, Sound(c)
  PROVE  SoundNext(c)
<1>1. c.ids \subseteq Replicas
  BY DEF Blocks
<1>2. Sequence[0] \in Nat /\ Sequence'[0] \in Nat
  BY FirstLeader DEF TypeInv, TypeOK
<1>3. c.hash # NilHash => /\ Cardinality(c.ids) >= QuorumSize
                          /\ \A i \in c.ids : c.hash \in receivedBlocksSet'[i]
  BY <1>1 DEF Sound, SoundIn, Grows
<1>4. \/ c = EmptyBlock
      \/ c.height \in 1..Sequence'[0] /\ c.hash = awaitingBlocks'[0][c.height]
  BY <1>2 DEF Sound, SoundIn, Grows
<1> QED
  BY <1>3, <1>4 DEF SoundNext, SoundIn

LEMMA CertifiedStays ==
  ASSUME IInv, TypeInv', Grows, UNCHANGED <<curBlock, lockedBlock, committedBlocks>>
  PROVE  Certified'
<1> SUFFICES ASSUME NEW r \in Replicas
             PROVE  /\ SoundNext(curBlock[r])
                    /\ SoundNext(lockedBlock[r])
                    /\ \A h \in Heights : Committed(r, h) =>
                         /\ SoundNext(committedBlocks[r][h])
                         /\ committedBlocks[r][h].height = h
  BY DEF Certified, Committed, Sound, SoundNext
<1>1. curBlock[r] \in Blocks /\ lockedBlock[r] \in Blocks
  BY DEF IInv, TypeInv, TypeOK
<1>2. \A h \in Heights : Committed(r, h) => committedBlocks[r][h] \in Blocks
  BY DEF IInv, TypeInv, TypeOK, Committed
<1> QED
  BY <1>1, <1>2, SoundStays DEF IInv, Certified

LEMMA MessagesStay ==
  ASSUME IInv, TypeInv', Grows, NEW m \in net
  PROVE  /\ m.type = "QC" => ProposalOfChain(m)'
         /\ m.type = "QCREP" => VoteOfChain(m)'
<1> USE MessageFields DEF IInv, Messages
<1>1. Sequence[0] \in Nat /\ Sequence'[0] \in Nat
  BY FirstLeader DEF TypeInv, TypeOK
<1>2. m.seq <= Sequence[0] => /\ m.seq <= Sequence'[0]
                              /\ awaitingBlocks'[0][m.seq] = awaitingBlocks[0][m.seq]
  BY <1>1 DEF Grows, Seqs
<1>3. CASE m.type = "QC"
  <2>1. ProposalOfChain(m)
    BY <1>3
  <2>2. SoundNext(m.qc)
    BY <1>3, <2>1, SoundStays DEF ProposalOfChain
  <2> QED
    BY <1>2, <1>3, <2>1, <2>2 DEF ProposalOfChain, Sound, SoundNext
<1>4. CASE m.type = "QCREP"
  BY <1>2, <1>4 DEF VoteOfChain, Grows
<1> QED
  BY <1>3, <1>4

\* A step that at most loses a message, queues a request or moves on to another
\* point of a monitor.
LEMMA QuietStep ==
  ASSUME IInv, TypeInv', net' \subseteq net, OneView', Leading',
         UNCHANGED <<Sequence, chainVars, awaitingBlocks, votes, receivedBlocksSet>>
  PROVE  IInv'
<1>1. Grows
  BY FirstLeader DEF Grows, IInv, TypeInv, TypeOK
<1>2. Chain' /\ Collected' /\ Ladder'
  BY DEF IInv, Chain, Collected, Ladder, Committed, chainVars
<1>3. Messages'
  BY <1>1, MessagesStay DEF Messages
<1>4. Certified'
  BY <1>1, CertifiedStays DEF chainVars
<1> QED
  BY <1>2, <1>3, <1>4 DEF IInv

LEMMA IdleStep ==
  ASSUME IInv, TypeInv', net' \subseteq net,
         UNCHANGED <<view, curStatus, monitor, Sequence, chainVars, awaitingBlocks,
                     voteVars, receivedBlocksSet>>
  PROVE  IInv'
<1>1. OneView' /\ Leading'
  BY DEF IInv, OneView, Leading, MonitorAt, chainVars, voteVars
<1> QED
  BY <1>1, QuietStep DEF voteVars

----------------------------------------------------------------------------
(* The steps of a monitor.                                                 *)

\* Only the monitor of view 0 at replica 0 goes beyond its start.
LEMMA MonitorOfLeader ==
  ASSUME IInv, NEW r \in Replicas, NEW v \in Views, ~MonitorAt(r, v, "off")
  PROVE  /\ v = 0
         /\ ~MonitorAt(r, v, "wait") => r = 0
BY DEF IInv, OneView, MonitorAt

LEMMA MonitorMoves ==
  ASSUME IInv, NEW r \in Replicas, NEW v \in Views,
         \/ MonitorStart(r, v)
         \/ MonitorCheckView(r, v)
         \/ MonitorCheckStatus(r, v)
         \/ MonitorClaim(r, v)
  PROVE  IInv'
<1> USE FirstLeader, ConstantsAssumption
<1>1. TypeInv /\ TypeInv'
  BY MonitorTypes DEF IInv, RequestMonitor
<1>2. ~MonitorAt(r, v, "off") /\ v = 0
  BY MonitorOfLeader
     DEF MonitorStart, MonitorCheckView, MonitorCheckStatus, MonitorClaim, MonitorAt
<1>3. MonitorAt(r, v, "wait") \/ r = 0
  BY <1>2, MonitorOfLeader
<1>4. /\ net' = net
      /\ UNCHANGED <<Sequence, chainVars, awaitingBlocks, voteVars, receivedBlocksSet>>
  BY DEF MonitorStart, MonitorCheckView, MonitorCheckStatus, MonitorClaim
<1>5. OneView' /\ Leading'
  <2> USE DEF IInv, OneView, Leading, TypeInv, TypeOK, MonitorAt, MonitorGoto
  <2>1. CASE MonitorStart(r, v)
    <3>1. /\ UNCHANGED <<view, curStatus, curBlock, Sequence, prepared, awaitingBlocks>>
          /\ monitor' = [monitor EXCEPT ![r][v] = IF r = 0 THEN "top" ELSE "off"]
          /\ monitor[r][v] = "wait"
      <4>1. LeaderID(v) = r <=> r = 0
        BY <1>2 DEF LeaderID
      <4> QED
        BY <2>1, <4>1 DEF MonitorStart, chainVars, voteVars
    <3> QED
      BY <3>1, <1>1, <1>2
  <2>2. CASE MonitorCheckView(r, v)
    <3>1. /\ UNCHANGED <<view, curStatus, curBlock, Sequence, prepared, awaitingBlocks>>
          /\ monitor' = [monitor EXCEPT ![r][v] = "gate"]
          /\ monitor[r][v] = "top"
      BY <1>2, <2>2 DEF MonitorCheckView, chainVars, voteVars
    <3>2. r = 0 /\ v = 0
      BY <3>1, <1>2, <1>3
    <3>3. monitor' = [monitor EXCEPT ![0] = [monitor[0] EXCEPT ![0] = "gate"]]
      BY <3>1, <3>2
    <3> QED
      BY <3>1, <3>2, <3>3, <1>1
  <2>3. CASE MonitorCheckStatus(r, v)
    <3>1. /\ UNCHANGED <<view, curStatus, curBlock, Sequence, prepared, awaitingBlocks>>
          /\ \/ curStatus[r] = "READY" /\ monitor' = [monitor EXCEPT ![r][v] = "claim"]
             \/ monitor' = [monitor EXCEPT ![r][v] = "top"]
          /\ monitor[r][v] = "gate"
      BY <2>3 DEF MonitorCheckStatus, MayPropose, chainVars, voteVars
    <3>2. r = 0 /\ v = 0
      BY <3>1, <1>2, <1>3
    <3>3. CASE curStatus[0] = "READY" /\ monitor' = [monitor EXCEPT ![0][0] = "claim"]
      BY <3>1, <3>2, <3>3, <1>1
    <3>4. CASE monitor' = [monitor EXCEPT ![0][0] = "top"]
      BY <3>1, <3>2, <3>4, <1>1
    <3> QED
      BY <3>1, <3>2, <3>3, <3>4
  <2>4. CASE MonitorClaim(r, v)
    <3>1. /\ UNCHANGED <<view, curBlock, Sequence, prepared, awaitingBlocks>>
          /\ curStatus' = [curStatus EXCEPT ![r] = "PROCESSING"]
          /\ monitor' = [monitor EXCEPT ![r][v] = "propose"]
          /\ monitor[r][v] = "claim"
      BY <2>4 DEF MonitorClaim, chainVars, voteVars
    <3>2. r = 0 /\ v = 0
      BY <3>1, <1>2, <1>3
    <3>3. curStatus[0] = "READY" /\ curBlock[0].height = Sequence[0]
      BY <3>1, <3>2
    <3>4. /\ curStatus'[0] = "PROCESSING" /\ monitor'[0][0] = "propose"
          /\ \A i \in Replicas \ {0} : curStatus'[i] = curStatus[i] /\ monitor'[i] = monitor[i]
          /\ \A w \in Views \ {0} : monitor'[0][w] = monitor[0][w]
      BY <3>1, <3>2, <1>1
    <3>5. OneView'
      BY <3>1, <3>4
    <3>6. Leading'
      BY <3>1, <3>3, <3>4
    <3> QED
      BY <3>5, <3>6
  <2> QED
    BY <2>1, <2>2, <2>3, <2>4
<1> QED
  BY <1>1, <1>4, <1>5, QuietStep DEF voteVars

----------------------------------------------------------------------------
(* A proposal makes the chain one block longer.                            *)

LEMMA ProposeStep ==
  ASSUME IInv, NEW r \in Replicas, NEW v \in Views, MonitorPropose(r, v)
  PROVE  IInv'
<1> DEFINE n    == Sequence[0]
           hash == ObtainCurHash(curHash[0], n + 1, Batch(0))
           qc   == FetchBlockInfo(0, n + 1)
<1>1. TypeInv /\ TypeInv' /\ n \in Nat
  <2>1. TypeInv /\ TypeInv'
    BY MonitorTypes DEF IInv, RequestMonitor
  <2>2. Sequence \in [Replicas -> 0..MaxSeq]
    BY DEF IInv, TypeInv, TypeOK
  <2> QED
    BY <2>1, <2>2, FirstLeader
<1>2. r = 0 /\ v = 0
  BY MonitorOfLeader DEF MonitorPropose, MonitorAt
<1>3. /\ curStatus[0] = "PROCESSING" /\ MonitorAt(0, 0, "propose")
      /\ curBlock[0].height = n
      /\ n + 1 \in Seqs
  BY <1>1, <1>2, ConstantsAssumption DEF IInv, Leading, MonitorPropose, Seqs
<1>4. /\ Sequence' = [Sequence EXCEPT ![0] = n + 1]
      /\ curHash' = [curHash EXCEPT ![0] = hash]
      /\ awaitingBlocks' = [awaitingBlocks EXCEPT ![0][n + 1] = hash]
      /\ net' = net \cup { Proposal(0, d, view[0], n + 1, hash, qc) : d \in Replicas }
      /\ monitor' = [monitor EXCEPT ![0][0] = "top"]
      /\ UNCHANGED <<view, curStatus, curBlock, lockedBlock, committedBlocks,
                     receivedBlocksSet, votes, prepared>>
  BY <1>2 DEF MonitorPropose, StartHotStuff, MonitorGoto, voteVars
<1>5. /\ Sequence'[0] = n + 1
      /\ curHash'[0] = hash
      /\ awaitingBlocks'[0][n + 1] = hash
      /\ \A k \in 1..n : awaitingBlocks'[0][k] = awaitingBlocks[0][k]
      /\ monitor'[0][0] = "top"
      /\ \A w \in Views \ {0} : monitor'[0][w] = monitor[0][w]
      /\ \A i \in Replicas \ {0} : monitor'[i] = monitor[i]
  <2> HIDE DEF hash
  <2>1. awaitingBlocks[0] \in [Seqs -> Hashes] /\ 0 \in DOMAIN awaitingBlocks
    BY <1>1, FirstLeader DEF TypeInv, TypeOK
  <2>2. awaitingBlocks'[0] = [awaitingBlocks[0] EXCEPT ![n + 1] = hash]
    BY <1>4, <2>1
  <2>3. 1..n \subseteq Seqs /\ n + 1 \notin 1..n
    BY <1>1, <1>3, ConstantsAssumption DEF Seqs
  <2>4. /\ awaitingBlocks'[0][n + 1] = hash
        /\ \A k \in 1..n : awaitingBlocks'[0][k] = awaitingBlocks[0][k]
    BY <1>3, <2>1, <2>2, <2>3
  <2>5. Sequence'[0] = n + 1 /\ curHash'[0] = hash
    BY <1>1, <1>4, FirstLeader DEF TypeInv, TypeOK
  <2>6. /\ monitor'[0][0] = "top"
        /\ \A w \in Views \ {0} : monitor'[0][w] = monitor[0][w]
        /\ \A i \in Replicas \ {0} : monitor'[i] = monitor[i]
    BY <1>1, <1>4, FirstLeader DEF TypeInv, TypeOK
  <2> QED
    BY <2>4, <2>5, <2>6
<1>6. Grows
  BY <1>1, <1>4, <1>5 DEF Grows
<1>7. /\ hash \in Hashes
      /\ Len(hash) = n + 1
      /\ \A s \in 1..n : Extends(hash, awaitingBlocks[0][s])
  <2>1. Batch(0) \in Seq(Requests) /\ curHash[0] \in Hashes
    BY <1>1, ConstantsAssumption, FirstLeader
       DEF Batch, GrabSize, Smaller, TypeInv, TypeOK
  <2>2. Len(curHash[0]) = n
    BY <1>1 DEF IInv, Chain, NilHash
  <2>3. \A s \in 1..n : awaitingBlocks[0][s] \in Hashes /\ Extends(curHash[0], awaitingBlocks[0][s])
    <3> SUFFICES ASSUME NEW s \in 1..n
                 PROVE  /\ awaitingBlocks[0][s] \in Hashes
                        /\ Extends(curHash[0], awaitingBlocks[0][s])
      OBVIOUS
    <3>1. s \in Seqs /\ n \in 1..n /\ s <= n
      BY <1>1, <1>3, ConstantsAssumption DEF Seqs
    <3>2. awaitingBlocks[0][s] \in Hashes
      BY <1>1, <3>1, FirstLeader DEF TypeInv, TypeOK
    <3>3. curHash[0] = awaitingBlocks[0][n]
      BY <1>1, <3>1 DEF IInv, Chain
    <3> QED
      BY <3>1, <3>2, <3>3 DEF IInv, Chain
  <2> QED
    BY <1>3, <2>1, <2>2, <2>3, ChainTypes
<1> HIDE DEF n, hash, qc
<1>8. Chain'
  <2>1. \A s \in 1..(n + 1) : Len(awaitingBlocks'[0][s]) = s
    BY <1>1, <1>5, <1>7 DEF IInv, Chain, n
  <2>2. \A s, t \in 1..(n + 1) :
          s <= t => Extends(awaitingBlocks'[0][t], awaitingBlocks'[0][s])
    <3> SUFFICES ASSUME NEW s \in 1..(n + 1), NEW t \in 1..(n + 1), s <= t
                 PROVE  Extends(awaitingBlocks'[0][t], awaitingBlocks'[0][s])
      OBVIOUS
    <3>1. CASE t \in 1..n
      BY <1>1, <1>5, <3>1 DEF IInv, Chain, n
    <3>2. CASE t = n + 1 /\ s \in 1..n
      BY <1>5, <1>7, <3>2
    <3>3. CASE t = n + 1 /\ s = n + 1
      BY <1>5, <1>7, <3>3, ExtendsRefl
    <3> QED
      BY <1>1, <3>1, <3>2, <3>3
  <2> QED
    BY <1>1, <1>5, <2>1, <2>2 DEF Chain
<1>9. qc.height = n /\ SoundNext(qc)
  <2>1. SoundNext(EmptyBlock)
    BY BlockTypes DEF SoundNext, SoundIn
  <2>2. SoundNext(curBlock[0]) /\ curBlock[0] \in Blocks
    BY <1>1, <1>6, FirstLeader, SoundStays DEF IInv, Certified, TypeInv, TypeOK
  <2> QED
    BY <1>1, <1>3, <2>1, <2>2, BlockTypes DEF qc, FetchBlockInfo, n
<1>10. Messages'
  <2> SUFFICES ASSUME NEW m \in net'
               PROVE  /\ m.type = "QC" => ProposalOfChain(m)'
                      /\ m.type = "QCREP" => VoteOfChain(m)'
    BY DEF Messages
  <2>1. CASE m \in net
    BY <1>1, <1>6, <2>1, MessagesStay
  <2>2. CASE \E d \in Replicas : m = Proposal(0, d, view[0], n + 1, hash, qc)
    <3>1. /\ m.type = "QC" /\ m.src = 0 /\ m.view = 0 /\ m.seq = n + 1
          /\ m.hash = hash /\ m.qc = qc
      BY <2>2, FirstLeader DEF Proposal, IInv, OneView
    <3> QED
      BY <3>1, <1>1, <1>5, <1>9 DEF ProposalOfChain, Sound, SoundNext
  <2> QED
    BY <1>4, <2>1, <2>2
<1>11. OneView'
  BY <1>4, <1>5 DEF IInv, OneView, MonitorAt
<1>12. Collected' /\ Ladder'
  BY <1>4 DEF IInv, Collected, Ladder, Committed
<1>13. Leading'
  BY <1>1, <1>3, <1>4, <1>5 DEF IInv, Leading, MonitorAt
<1>14. Certified'
  BY <1>1, <1>4, <1>6, CertifiedStays
<1> QED
  BY <1>1, <1>8, <1>10, <1>11, <1>12, <1>13, <1>14 DEF IInv

----------------------------------------------------------------------------
(* A proposal takes a follower up the chain.                               *)

\* What a certificate bi may do to replica i: nothing, or make it adopt bi; and
\* then it may lock the block it had and commit the one it had locked.
Climbs(i, bi) ==
  \/ UNCHANGED <<curBlock[i], lockedBlock[i], committedBlocks[i]>>
  \/ /\ i # 0
     /\ curBlock'[i] = bi
     /\ bi.height > curBlock[i].height
     /\ \/ UNCHANGED <<lockedBlock[i], committedBlocks[i]>>
        \/ /\ lockedBlock'[i] = curBlock[i]
           /\ \/ UNCHANGED committedBlocks[i]
              \/ committedBlocks'[i] =
                   [committedBlocks[i] EXCEPT ![lockedBlock[i].height] = lockedBlock[i]]

LEMMA ProposalEffect ==
  ASSUME IInv, NEW m \in net, HandleNormalMsg(m)
  PROVE  /\ ProposalOfChain(m) /\ m.qc \in Blocks /\ m.seq \in Seqs
         /\ m.dst \in Replicas
         /\ UNCHANGED <<Sequence[0], curHash[0]>>
         /\ \A i \in Replicas : Climbs(i, m.qc)
<1> DEFINE r == m.dst
<1>1. TypeInv /\ m.type = "QC" /\ ProposalOfChain(m)
  BY DEF IInv, Messages, HandleNormalMsg
<1>2. r \in Replicas /\ m.qc \in Blocks /\ m.seq \in Seqs
  BY <1>1, MessageFields
<1>3. /\ Sequence \in [Replicas -> 0..MaxSeq]
      /\ curBlock \in [Replicas -> Blocks]
      /\ lockedBlock \in [Replicas -> Blocks]
      /\ curHash \in [Replicas -> Hashes]
      /\ committedBlocks \in [Replicas -> [Heights -> Blocks \cup {NoBlock}]]
      /\ 0 \in Replicas
      /\ m.qc.height \in Nat /\ m.seq \in Nat
      /\ \A i \in Replicas : curBlock[i].height \in Nat
  BY <1>1, <1>2, FirstLeader DEF TypeInv, TypeOK, Blocks, Seqs, Heights
<1>4. Leader(r) <=> r = 0
  BY <1>2, FirstLeader DEF IInv, OneView
<1>5. r = 0 => m.qc.height <= curBlock[0].height
  <2>1. curBlock[0].height >= Sequence[0] - 1
    <3>1. curStatus[0] \in {"READY", "PROCESSING"}
      BY <1>1, <1>3 DEF TypeInv, TypeOK, Status, IInv, OneView
    <3> QED
      BY <3>1, <1>3 DEF IInv, Leading
  <2> QED
    BY <2>1, <1>1, <1>3 DEF ProposalOfChain
<1>6. CASE SkipQCInfo(r, m.qc, m.seq)
  BY <1>1, <1>2, <1>6 DEF SkipQCInfo, chainVars, Climbs
<1>7. CASE ProcessQCInfo(r, m.qc, m.seq)
  <2>1. ~OldNews(r, m.qc)
    BY <1>7 DEF ProcessQCInfo, LockCurrent, CommitLocked
  <2>2. r = 0 => ~(m.qc.height >= 2)
    BY <1>3, <1>5, <2>1 DEF OldNews
  <2>3. Sequence'[0] = Sequence[0]
    <3>1. Sequence' = [Sequence EXCEPT ![r] = Larger(@, m.seq)]
      BY <1>7 DEF ProcessQCInfo, LockCurrent, CommitLocked
    <3>2. r = 0 => Larger(Sequence[0], m.seq) = Sequence[0]
      BY <1>1, <1>3 DEF ProposalOfChain, Larger
    <3> QED
      BY <3>1, <3>2, <1>2, <1>3
  <2>4. curHash'[0] = curHash[0]
    BY <1>2, <1>3, <1>4, <1>7 DEF ProcessQCInfo, LockCurrent, CommitLocked, AdoptsBlock
  <2>5. ASSUME NEW i \in Replicas, i # r PROVE Climbs(i, m.qc)
    <3>1. UNCHANGED <<curBlock[i], lockedBlock[i], committedBlocks[i]>>
      BY <2>5, <1>2, <1>3, <1>7 DEF ProcessQCInfo, LockCurrent, CommitLocked
    <3> QED
      BY <3>1 DEF Climbs
  <2>6. CASE r = 0
    <3>1. ~CommitsLocked(r, m.qc) /\ ~AdoptsBlock(r, m.qc)
      BY <1>3, <1>4, <2>2, <2>6 DEF CommitsLocked, AdoptsBlock
    <3>2. UNCHANGED <<curBlock[r], lockedBlock[r], committedBlocks[r]>>
      BY <3>1, <2>2, <2>6, <1>7 DEF ProcessQCInfo, LockCurrent, CommitLocked
    <3> QED
      BY <1>1, <1>2, <2>3, <2>4, <2>5, <3>2 DEF Climbs
  <2>7. CASE r # 0
    <3>1. CASE m.qc.height >= 2
      <4>1. AdoptsBlock(r, m.qc)
        BY <1>2, <1>3, <1>4, <2>1, <2>7, <3>1 DEF OldNews, AdoptsBlock
      <4>2. m.qc.height > curBlock[r].height
        BY <4>1 DEF AdoptsBlock
      <4>3. curBlock'[r] = m.qc /\ lockedBlock'[r] = curBlock[r]
        BY <4>1, <3>1, <1>2, <1>3, <1>7 DEF ProcessQCInfo, LockCurrent, CommitLocked
      <4>4. \/ UNCHANGED committedBlocks[r]
            \/ committedBlocks'[r] =
                 [committedBlocks[r] EXCEPT ![lockedBlock[r].height] = lockedBlock[r]]
        BY <1>2, <1>3, <1>7 DEF ProcessQCInfo, LockCurrent, CommitLocked
      <4>5. Climbs(r, m.qc)
        BY <2>7, <4>2, <4>3, <4>4 DEF Climbs
      <4> QED
        BY <1>1, <1>2, <2>3, <2>4, <2>5, <4>5
    <3>2. CASE ~(m.qc.height >= 2)
      <4>1. ~CommitsLocked(r, m.qc)
        BY <1>3, <3>2 DEF CommitsLocked
      <4>2. UNCHANGED <<lockedBlock[r], committedBlocks[r]>>
        BY <4>1, <3>2, <1>7 DEF ProcessQCInfo, LockCurrent, CommitLocked
      <4>3. \/ UNCHANGED curBlock[r]
            \/ curBlock'[r] = m.qc /\ m.qc.height > curBlock[r].height
        BY <1>2, <1>3, <1>7 DEF ProcessQCInfo, LockCurrent, CommitLocked, AdoptsBlock
      <4>4. Climbs(r, m.qc)
        BY <2>7, <4>2, <4>3 DEF Climbs
      <4> QED
        BY <1>1, <1>2, <2>3, <2>4, <2>5, <4>4
    <3> QED
      BY <3>1, <3>2
  <2> QED
    BY <2>6, <2>7
<1> QED
  BY <1>6, <1>7 DEF HandleNormalMsg

LEMMA ProposalStep ==
  ASSUME IInv, NEW m \in net, HandleNormalMsg(m)
  PROVE  IInv'
<1> DEFINE r == m.dst
<1>1. TypeInv /\ TypeInv'
  BY ProposalTypes DEF IInv
<1>2. /\ ProposalOfChain(m) /\ m.qc \in Blocks /\ m.seq \in Seqs /\ r \in Replicas
      /\ UNCHANGED <<Sequence[0], curHash[0]>>
      /\ \A i \in Replicas : Climbs(i, m.qc)
  BY ProposalEffect
<1>3. /\ receivedBlocksSet' = [receivedBlocksSet EXCEPT ![r] = @ \cup {m.hash}]
      /\ net' = (net \ {m}) \cup
                  { Vote(r, d, view[r], m.seq, m.hash) : d \in VoteTargets(r, m.src) }
      /\ UNCHANGED <<view, curStatus, awaitingBlocks, votes, prepared, monitor>>
  BY DEF HandleNormalMsg, voteVars
<1>4. Grows
  BY <1>1, <1>2, <1>3, FirstLeader DEF Grows, TypeInv, TypeOK
<1>5. \A i \in Replicas : /\ curBlock[i] \in Blocks /\ lockedBlock[i] \in Blocks
                          /\ curBlock[i].height \in Nat /\ lockedBlock[i].height \in Heights
                          /\ lockedBlock[i].height \in Nat
                          /\ committedBlocks[i] \in [Heights -> Blocks \cup {NoBlock}]
  <2>1. /\ curBlock \in [Replicas -> Blocks] /\ lockedBlock \in [Replicas -> Blocks]
        /\ committedBlocks \in [Replicas -> [Heights -> Blocks \cup {NoBlock}]]
    BY DEF IInv, TypeInv, TypeOK
  <2>2. \A b \in Blocks : b.height \in Heights /\ b.height \in Nat
    BY DEF Blocks, Heights
  <2> QED
    BY <2>1, <2>2
<1>6. OneView'
  BY <1>3 DEF IInv, OneView, MonitorAt
<1>7. Chain'
  BY <1>2, <1>3 DEF IInv, Chain
<1>8. Messages'
  <2> SUFFICES ASSUME NEW x \in net'
               PROVE  /\ x.type = "QC" => ProposalOfChain(x)'
                      /\ x.type = "QCREP" => VoteOfChain(x)'
    BY DEF Messages
  <2>1. CASE x \in net
    BY <1>1, <1>4, <2>1, MessagesStay DEF IInv
  <2>2. CASE \E d \in VoteTargets(r, m.src) : x = Vote(r, d, view[r], m.seq, m.hash)
    <3>1. VoteTargets(r, m.src) \subseteq {0}
      BY <1>2, FirstLeader DEF VoteTargets, ProposalOfChain, IInv, OneView
    <3>2. /\ x.type = "QCREP" /\ x.src = r /\ x.dst = 0 /\ x.view = 0
          /\ x.seq = m.seq /\ x.hash = m.hash
      BY <1>2, <2>2, <3>1 DEF Vote, IInv, OneView
    <3>3. m.hash \in receivedBlocksSet'[r]
      BY <1>1, <1>2, <1>3 DEF TypeInv, TypeOK
    <3> QED
      BY <1>2, <1>3, <3>2, <3>3 DEF VoteOfChain, ProposalOfChain
  <2> QED
    BY <1>3, <2>1, <2>2
<1>9. Collected'
  <2>1. \A i \in Replicas : \A x \in votes[i] : x.id \in Replicas
    BY <1>1 DEF TypeInv, TypeOK
  <2> QED
    BY <1>3, <1>4, <2>1 DEF IInv, Collected, Grows
<1>10. Leading'
  <2>1. curBlock'[0] = curBlock[0]
    BY <1>2, FirstLeader DEF Climbs
  <2> QED
    BY <1>2, <1>3, <2>1 DEF IInv, Leading, MonitorAt
<1>11. Certified'
  <2> SUFFICES ASSUME NEW i \in Replicas
               PROVE  /\ SoundNext(curBlock'[i])
                      /\ SoundNext(lockedBlock'[i])
                      /\ \A h \in Heights : committedBlocks'[i][h] # NoBlock =>
                           /\ SoundNext(committedBlocks'[i][h])
                           /\ committedBlocks'[i][h].height = h
    BY DEF Certified, Committed, Sound, SoundNext
  <2>1. SoundNext(curBlock[i]) /\ SoundNext(lockedBlock[i]) /\ SoundNext(m.qc)
    BY <1>1, <1>2, <1>4, <1>5, SoundStays DEF IInv, Certified, ProposalOfChain
  <2>2. \A h \in Heights : committedBlocks[i][h] # NoBlock =>
          SoundNext(committedBlocks[i][h]) /\ committedBlocks[i][h].height = h
    <3> SUFFICES ASSUME NEW h \in Heights, committedBlocks[i][h] # NoBlock
                 PROVE  SoundNext(committedBlocks[i][h]) /\ committedBlocks[i][h].height = h
      OBVIOUS
    <3>1. committedBlocks[i][h] \in Blocks
      BY <1>5
    <3>2. Sound(committedBlocks[i][h]) /\ committedBlocks[i][h].height = h
      BY DEF IInv, Certified, Committed
    <3> QED
      BY <1>1, <1>4, <3>1, <3>2, SoundStays
  <2>3. Climbs(i, m.qc)
    BY <1>2
  <2>4. SoundNext(curBlock'[i]) /\ SoundNext(lockedBlock'[i])
    BY <2>1, <2>3 DEF Climbs
  <2>5. \A h \in Heights : \/ committedBlocks'[i][h] = committedBlocks[i][h]
                           \/ /\ committedBlocks'[i][h] = lockedBlock[i]
                              /\ lockedBlock[i].height = h
    BY <1>5, <2>3 DEF Climbs
  <2> QED
    BY <2>1, <2>2, <2>4, <2>5
<1>12. Ladder'
  <2> SUFFICES ASSUME NEW i \in Replicas
               PROVE  /\ \/ lockedBlock'[i].height = 0
                         \/ lockedBlock'[i].height < curBlock'[i].height
                      /\ \A h \in Seqs : committedBlocks'[i][h] # NoBlock =>
                           h < lockedBlock'[i].height
    BY DEF Ladder, Committed
  <2>1. /\ lockedBlock[i].height = 0 \/ lockedBlock[i].height < curBlock[i].height
        /\ \A h \in Seqs : committedBlocks[i][h] # NoBlock => h < lockedBlock[i].height
    BY DEF IInv, Ladder, Committed
  <2>2. m.qc.height \in Nat /\ Seqs \subseteq Nat \ {0} /\ Seqs \subseteq Heights
    BY <1>2 DEF Blocks, Heights, Seqs
  <2>3. Climbs(i, m.qc)
    BY <1>2
  <2>4. \A h \in Seqs : \/ committedBlocks'[i][h] = committedBlocks[i][h]
                        \/ h = lockedBlock[i].height /\ lockedBlock'[i] = curBlock[i]
    BY <1>5, <2>2, <2>3 DEF Climbs
  <2>5. lockedBlock'[i].height >= lockedBlock[i].height
    BY <1>5, <2>1, <2>3 DEF Climbs
  <2>6. lockedBlock'[i].height = 0 \/ lockedBlock'[i].height < curBlock'[i].height
    BY <1>5, <2>1, <2>2, <2>3 DEF Climbs
  <2>7. lockedBlock'[i].height \in Nat
    BY <1>5, <2>3 DEF Climbs
  <2> QED
    BY <1>5, <2>1, <2>2, <2>4, <2>5, <2>6, <2>7
<1> QED
  BY <1>1, <1>6, <1>7, <1>8, <1>9, <1>10, <1>11, <1>12 DEF IInv

----------------------------------------------------------------------------
(* A vote is collected, and the last one makes the certificate.            *)

LEMMA VoteStep ==
  ASSUME IInv, NEW m \in net, HandleNormalRepMsg(m)
  PROVE  IInv'
<1> DEFINE n == Sequence[0]
<1>1. TypeInv /\ TypeInv'
  BY VoteTypes DEF IInv
<1>2. /\ m.dst = 0 /\ m.seq = n /\ n = curBlock[0].height + 1
      /\ curStatus[0] = "PROCESSING" /\ ~MonitorAt(0, 0, "propose")
  BY VoteForLast
<1>3. /\ m.type = "QCREP" /\ m.seq \in Seqs /\ m.hash \in Hashes /\ m.src \in Replicas
      /\ VoteOfChain(m)
  BY <1>1, MessageFields DEF IInv, Messages, HandleNormalRepMsg
<1>4. /\ curBlock[0].height \in Nat /\ n \in Nat \ {0}
      /\ curBlock \in [Replicas -> Blocks] /\ curStatus \in [Replicas -> Status]
      /\ prepared \in [Replicas -> SUBSET Hashes]
      /\ votes \in [Replicas -> SUBSET [hash: Hashes, id: Replicas]]
  <2>1. TypeOK
    BY DEF IInv, TypeInv
  <2>2. /\ curBlock \in [Replicas -> Blocks] /\ curStatus \in [Replicas -> Status]
        /\ prepared \in [Replicas -> SUBSET Hashes]
        /\ votes \in [Replicas -> SUBSET [hash: Hashes, id: Replicas]]
    BY <2>1 DEF TypeOK
  <2>3. curBlock[0].height \in Nat
    BY <2>2, FirstLeader DEF Blocks, Heights
  <2>4. n \in Nat \ {0}
    BY <1>2, <1>3 DEF Seqs
  <2> QED
    BY <2>2, <2>3, <2>4
<1>5. /\ votes' = [votes EXCEPT ![0] = @ \cup {[hash |-> m.hash, id |-> m.src]}]
      /\ net' = net \ {m}
      /\ UNCHANGED <<view, Sequence, lockedBlock, curHash, committedBlocks,
                     awaitingBlocks, receivedBlocksSet, monitor>>
  BY <1>2 DEF HandleNormalRepMsg
<1>6. Grows
  BY <1>4, <1>5 DEF Grows
<1>7. Chain'
  BY <1>5 DEF IInv, Chain
<1>8. Messages'
  BY <1>1, <1>5, <1>6, MessagesStay DEF Messages
<1>9. Collected'
  BY <1>3, <1>4, <1>5 DEF IInv, Collected, VoteOfChain
<1>10. CASE ~(Cardinality(Voters(0, m)) >= QuorumSize)
  <2>1. UNCHANGED <<prepared, curBlock, curStatus>>
    BY <1>2, <1>10 DEF HandleNormalRepMsg
  <2>2. OneView' /\ Leading' /\ Ladder'
    BY <1>5, <2>1 DEF IInv, OneView, Leading, Ladder, Committed, MonitorAt
  <2>3. Certified'
    BY <1>1, <1>5, <1>6, <2>1, CertifiedStays
  <2> QED
    BY <1>1, <1>7, <1>8, <1>9, <2>2, <2>3 DEF IInv
<1>11. CASE Cardinality(Voters(0, m)) >= QuorumSize
  <2> DEFINE c == NewQC(0, m)
  <2>1. /\ prepared' = [prepared EXCEPT ![0] = @ \cup {m.hash}]
        /\ curBlock' = [curBlock EXCEPT ![0] = c]
        /\ curStatus' = [curStatus EXCEPT ![0] = "READY"]
    BY <1>2, <1>11 DEF HandleNormalRepMsg
  <2>2. c.height = n /\ c.hash = awaitingBlocks[0][n] /\ c.ids = Voters(0, m)
    BY <1>2, <1>3 DEF NewQC, VoteOfChain
  <2>3. \A i \in Voters(0, m) : m.hash \in receivedBlocksSet[i]
    BY <1>3, FirstLeader DEF Voters, VoteOfChain, IInv, Collected
  <2>4. Sound(c)
    BY <1>2, <1>3, <1>4, <1>11, <2>2, <2>3 DEF Sound, SoundIn, VoteOfChain
  <2>5. c \in Blocks
    BY <1>1, <2>1, FirstLeader, <1>4 DEF TypeInv, TypeOK
  <2> HIDE DEF c
  <2>6. /\ curBlock'[0] = c /\ curStatus'[0] = "READY"
        /\ \A i \in Replicas \ {0} : curBlock'[i] = curBlock[i] /\ curStatus'[i] = curStatus[i]
    BY <1>4, <2>1, FirstLeader
  <2>7. OneView'
    BY <1>5, <2>6 DEF IInv, OneView, MonitorAt
  <2>8. Leading'
    <3>1. prepared'[0] = { awaitingBlocks[0][k] : k \in 1..curBlock[0].height } \cup {m.hash}
      BY <1>4, <2>1, FirstLeader DEF IInv, Leading
    <3>2. 1..n = (1..curBlock[0].height) \cup {n}
      BY <1>2, <1>4
    <3>3. prepared'[0] = { awaitingBlocks[0][k] : k \in 1..n }
      BY <1>2, <1>3, <3>1, <3>2 DEF VoteOfChain
    <3>4. ~MonitorAt(0, 0, "propose")' /\ ~(curStatus'[0] = "PROCESSING")
      BY <1>2, <1>5, <2>6 DEF MonitorAt
    <3> QED
      BY <1>5, <2>2, <2>6, <3>3, <3>4 DEF Leading, MonitorAt
  <2>9. Certified'
    <3> SUFFICES ASSUME NEW i \in Replicas
                 PROVE  /\ SoundNext(curBlock'[i])
                        /\ SoundNext(lockedBlock[i])
                        /\ \A h \in Heights : committedBlocks[i][h] # NoBlock =>
                             /\ SoundNext(committedBlocks[i][h])
                             /\ committedBlocks[i][h].height = h
      BY <1>5 DEF Certified, Committed, Sound, SoundNext
    <3>1. SoundNext(lockedBlock[i]) /\ SoundNext(curBlock[i]) /\ SoundNext(c)
      BY <1>1, <1>6, <2>4, <2>5, SoundStays DEF IInv, Certified, TypeInv, TypeOK
    <3>2. \A h \in Heights : committedBlocks[i][h] # NoBlock => committedBlocks[i][h] \in Blocks
      BY <1>1 DEF TypeInv, TypeOK
    <3> QED
      BY <1>1, <1>6, <2>6, <3>1, <3>2, SoundStays DEF IInv, Certified, Committed
  <2>10. Ladder'
    <3> SUFFICES ASSUME NEW i \in Replicas
                 PROVE  \/ lockedBlock[i].height = 0
                        \/ lockedBlock[i].height < curBlock'[i].height
      BY <1>5 DEF IInv, Ladder, Committed
    <3>1. lockedBlock[i].height = 0 \/ lockedBlock[i].height < curBlock[i].height
      BY DEF IInv, Ladder
    <3>2. lockedBlock[i].height \in Nat
      BY <1>1 DEF TypeInv, TypeOK, Blocks, Heights
    <3>3. i = 0 => curBlock'[i].height = curBlock[i].height + 1
      BY <1>2, <2>2, <2>6
    <3> QED
      BY <1>4, <2>6, <3>1, <3>2, <3>3
  <2> QED
    BY <1>1, <1>7, <1>8, <1>9, <2>7, <2>8, <2>9, <2>10 DEF IInv
<1> QED
  BY <1>10, <1>11

----------------------------------------------------------------------------
(* The invariant, and what follows from it.                                *)

LEMMA NextIInv == IInv /\ Next => IInv'
<1> SUFFICES ASSUME IInv, Next PROVE IInv'
  OBVIOUS
<1>1. CASE \E r \in Replicas, v \in Views : RequestMonitor(r, v)
  BY <1>1, MonitorMoves, ProposeStep DEF RequestMonitor
<1>2. CASE \E r \in Replicas, req \in Requests : HandleRequest(r, req)
  <2> PICK r \in Replicas, req \in Requests : HandleRequest(r, req)
    BY <1>2
  <2> QED
    BY HandleRequestTypes, IdleStep DEF HandleRequest, chainVars, voteVars
<1>3. CASE \E m \in net : HandleQCByteMsg(m)
  <2> PICK m \in net : HandleQCByteMsg(m)
    BY <1>3
  <2>1. CASE IgnoreMsg(m) \/ DropVote(m)
    <3>1. TypeInv'
      BY <2>1 DEF IgnoreMsg, DropVote, IInv, TypeInv, TypeOK, chainVars, voteVars,
                  clientVars
    <3> QED
      BY <2>1, <3>1, IdleStep DEF IgnoreMsg, DropVote
  <2>2. CASE RejectProposal(m)
    <3>1. Remembered(m.dst, m.seq) \subseteq Seqs
      BY MessageFields DEF Remembered, IInv, TypeInv, TypeOK
    <3>2. TypeInv'
      BY <2>2, <3>1, MessageFields
         DEF RejectProposal, IInv, TypeInv, TypeOK, chainVars, voteVars, clientVars
    <3> QED
      BY <2>2, <3>2, IdleStep DEF RejectProposal
  <2>3. CASE HandleNormalMsg(m)
    BY <2>3, ProposalStep
  <2>4. CASE HandleNormalRepMsg(m)
    BY <2>4, VoteStep
  <2> QED
    BY <2>1, <2>2, <2>3, <2>4 DEF HandleQCByteMsg
<1> QED
  BY <1>1, <1>2, <1>3 DEF Next

LEMMA StutterIInv == IInv /\ UNCHANGED vars => IInv'
<1> SUFFICES ASSUME IInv, UNCHANGED vars PROVE IInv'
  OBVIOUS
<1>1. TypeInv'
  BY DEF IInv, TypeInv, TypeOK, vars, chainVars, voteVars, clientVars
<1> QED
  BY <1>1, IdleStep DEF vars

\* The inductive invariant holds in every reachable state.
THEOREM Invariance == Spec => []IInv
  BY InitIInv, NextIInv, StutterIInv, PTL DEF Spec

\* Every variable stays in its domain.  (That heights stay within MaxSeq takes the
\* whole invariant.)
THEOREM TypeCorrect == Spec => []TypeOK
  BY Invariance, PTL DEF IInv, TypeInv

\* Committed blocks are sound, and a sound block is given by its height.
LEMMA AgreementFollows == IInv => Agreement
<1> SUFFICES ASSUME IInv, NEW r \in Replicas, NEW s \in Replicas, NEW h \in Heights,
                    Committed(r, h), Committed(s, h)
             PROVE  committedBlocks[r][h].hash = committedBlocks[s][h].hash
  BY DEF Agreement
<1>1. /\ Sound(committedBlocks[r][h]) /\ committedBlocks[r][h].height = h
      /\ Sound(committedBlocks[s][h]) /\ committedBlocks[s][h].height = h
  BY DEF IInv, Certified
<1> QED
  BY <1>1, BlockTypes DEF Sound, SoundIn

\* Two replicas that commit at a height commit the same block.
THEOREM AgreementHolds == Spec => []Agreement
BY AgreementFollows, Invariance, PTL

\* Every certificate is backed by replicas that accepted the block.
LEMMA CertificatesSound ==
  ASSUME IInv, NEW c \in Certificates
  PROVE  c \in Blocks /\ Sound(c)
<1>1. TypeInv
  BY DEF IInv
<1>2. CASE \E r \in Replicas : c = curBlock[r] \/ c = lockedBlock[r]
  BY <1>1, <1>2 DEF IInv, Certified, TypeInv, TypeOK
<1>3. CASE \E r \in Replicas, h \in Heights : c = committedBlocks[r][h] /\ c # NoBlock
  BY <1>1, <1>3 DEF IInv, Certified, Committed, TypeInv, TypeOK
<1>4. CASE \E m \in net : m.type = "QC" /\ c = m.qc
  BY <1>1, <1>4, MessageFields DEF IInv, Messages, ProposalOfChain
<1> QED
  BY <1>2, <1>3, <1>4 DEF Certificates

\* A certificate names a quorum, and each of them accepted its block.
THEOREM CertifiedByVotersHolds == Spec => []CertifiedByVoters
<1>1. IInv => CertifiedByVoters
  BY CertificatesSound DEF CertifiedByVoters, Sound, SoundIn
<1> QED
  BY <1>1, Invariance, PTL

\* Soundness of two certificates, in terms of the chain.
LEMMA SoundExtends ==
  ASSUME IInv, NEW c \in Blocks, NEW d \in Blocks, Sound(c), Sound(d)
  PROVE  /\ Len(c.hash) = c.height
         /\ c.height <= d.height => Extends(d.hash, c.hash)
<1>1. c.height \in Nat /\ d.height \in Nat /\ c.hash \in Hashes /\ d.hash \in Hashes
  BY DEF Blocks, Heights
<1>2. Len(c.hash) = c.height
  <2>1. CASE c = EmptyBlock
    BY <2>1, BlockTypes DEF NilHash
  <2>2. CASE c.height \in 1..Sequence[0] /\ c.hash = awaitingBlocks[0][c.height]
    BY <2>2 DEF IInv, Chain
  <2> QED
    BY <2>1, <2>2 DEF Sound, SoundIn
<1>3. ASSUME c.height <= d.height PROVE Extends(d.hash, c.hash)
  <2>1. CASE c = EmptyBlock
    BY <1>1, <2>1, BlockTypes, ExtendsRefl
  <2>2. CASE c.height \in 1..Sequence[0] /\ c.hash = awaitingBlocks[0][c.height]
    <3>1. d.height \in 1..Sequence[0] /\ d.hash = awaitingBlocks[0][d.height]
      BY <1>1, <1>3, <2>2, BlockTypes DEF Sound, SoundIn
    <3> QED
      BY <1>3, <2>2, <3>1 DEF IInv, Chain
  <2> QED
    BY <2>1, <2>2 DEF Sound, SoundIn
<1> QED
  BY <1>2, <1>3

\* The same for all certificates.
LEMMA OneChainFollows == IInv => OneChain
BY CertificatesSound, SoundExtends DEF OneChain

\* Heights are places in one chain.
THEOREM OneChainHolds == Spec => []OneChain
BY OneChainFollows, Invariance, PTL

\* The ladder, with the chain behind it.
LEMMA CommitBelowLockFollows == IInv => CommitBelowLock
<1> SUFFICES ASSUME IInv, NEW r \in Replicas, NEW h \in Seqs, Committed(r, h)
             PROVE  /\ h < lockedBlock[r].height
                    /\ lockedBlock[r].height < curBlock[r].height
                    /\ Extends(lockedBlock[r].hash, committedBlocks[r][h].hash)
                    /\ Extends(curBlock[r].hash, lockedBlock[r].hash)
  BY DEF CommitBelowLock
<1>1. h \in Heights /\ h \in Nat \ {0}
  BY ConstantsAssumption DEF Seqs, Heights
<1>2. /\ curBlock[r] \in Blocks /\ lockedBlock[r] \in Blocks
      /\ committedBlocks[r][h] \in Blocks
  BY <1>1 DEF IInv, TypeInv, TypeOK, Committed
<1>3. /\ Sound(curBlock[r]) /\ Sound(lockedBlock[r]) /\ Sound(committedBlocks[r][h])
      /\ committedBlocks[r][h].height = h
  BY <1>1 DEF IInv, Certified
<1>4. curBlock[r].height \in Nat /\ lockedBlock[r].height \in Nat
  BY <1>2 DEF Blocks, Heights
<1>5. h < lockedBlock[r].height
  BY DEF IInv, Ladder
<1>6. lockedBlock[r].height < curBlock[r].height
  BY <1>1, <1>4, <1>5 DEF IInv, Ladder
<1> QED
  BY <1>1, <1>2, <1>3, <1>4, <1>5, <1>6, SoundExtends

\* Commit, lock and current block of a replica lie on it in this order.
THEOREM CommitBelowLockHolds == Spec => []CommitBelowLock
BY CommitBelowLockFollows, Invariance, PTL

\* What Leading says of replica 0, the only leader of one view.
LEMMA OneProposalFollows == IInv => OneProposalOutstanding
BY FirstLeader
   DEF IInv, TypeInv, TypeOK, Status, OneView, Leading, OneProposalOutstanding

\* The leader waits for one certificate at a time.
THEOREM OneProposalOutstandingHolds == Spec => []OneProposalOutstanding
BY OneProposalFollows, Invariance, PTL

----------------------------------------------------------------------------
(* No step undoes anything.                                                *)

Undone(r) ==
  \/ ~(curBlock'[r].height >= curBlock[r].height)
  \/ ~(lockedBlock'[r].height >= lockedBlock[r].height)
  \/ \E h \in Heights :
       Committed(r, h) /\ committedBlocks'[r][h] # committedBlocks[r][h]

LEMMA ClimbingUndoesNothing ==
  ASSUME IInv, NEW r \in Replicas, NEW bi \in Blocks, Climbs(r, bi)
  PROVE  ~Undone(r)
<1>1. /\ curBlock[r] \in Blocks /\ lockedBlock[r] \in Blocks
      /\ curBlock[r].height \in Nat /\ lockedBlock[r].height \in Nat
      /\ bi.height \in Nat /\ lockedBlock[r].height \in Heights
      /\ committedBlocks[r] \in [Heights -> Blocks \cup {NoBlock}]
  BY DEF IInv, TypeInv, TypeOK, Blocks, Heights
<1>2. curBlock'[r].height >= curBlock[r].height
  BY <1>1 DEF Climbs
<1>3. lockedBlock[r].height = 0 \/ lockedBlock[r].height < curBlock[r].height
  BY DEF IInv, Ladder
<1>4. lockedBlock'[r].height >= lockedBlock[r].height
  BY <1>1, <1>3 DEF Climbs
<1>5. ASSUME NEW h \in Heights, Committed(r, h)
      PROVE  committedBlocks'[r][h] = committedBlocks[r][h]
  <2>1. CASE h = lockedBlock[r].height
    <3>1. h = 0
      BY <1>1, <1>5, <2>1, ConstantsAssumption DEF IInv, Ladder, Heights, Seqs
    <3>2. committedBlocks[r][h] = EmptyBlock /\ lockedBlock[r] = EmptyBlock
      <4>1. Sound(committedBlocks[r][h]) /\ committedBlocks[r][h].height = 0
        BY <1>5, <3>1 DEF IInv, Certified
      <4>2. Sound(lockedBlock[r]) /\ lockedBlock[r].height = 0
        BY <2>1, <3>1 DEF IInv, Certified
      <4> QED
        BY <4>1, <4>2 DEF Sound, SoundIn
    <3> QED
      BY <1>1, <1>5, <2>1, <3>2 DEF Climbs
  <2>2. CASE h # lockedBlock[r].height
    BY <1>1, <1>5, <2>2 DEF Climbs
  <2> QED
    BY <2>1, <2>2
<1> QED
  BY <1>2, <1>4, <1>5 DEF Undone

LEMMA NextUndoesNothing ==
  ASSUME IInv, [Next]_vars, NEW r \in Replicas
  PROVE  ~Undone(r)
<1>1. EmptyBlock \in Blocks
  BY BlockTypes
<1>2. ASSUME UNCHANGED <<curBlock[r], lockedBlock[r], committedBlocks[r]>>
      PROVE  ~Undone(r)
  BY <1>1, <1>2, ClimbingUndoesNothing DEF Climbs
<1>3. CASE UNCHANGED vars
  BY <1>2, <1>3 DEF vars, chainVars
<1>4. CASE \E i \in Replicas, v \in Views : RequestMonitor(i, v)
  BY <1>2, <1>4 DEF RequestMonitor, MonitorStart, MonitorCheckView, MonitorCheckStatus,
                    MonitorClaim, MonitorPropose, chainVars
<1>5. CASE \E i \in Replicas, req \in Requests : HandleRequest(i, req)
  BY <1>2, <1>5 DEF HandleRequest, chainVars
<1>6. CASE \E m \in net : HandleQCByteMsg(m)
  <2> PICK m \in net : HandleQCByteMsg(m)
    BY <1>6
  <2>1. CASE IgnoreMsg(m) \/ RejectProposal(m) \/ DropVote(m)
    BY <1>2, <2>1 DEF IgnoreMsg, RejectProposal, DropVote, chainVars
  <2>2. CASE HandleNormalMsg(m)
    BY <2>2, ProposalEffect, ClimbingUndoesNothing
  <2>3. CASE HandleNormalRepMsg(m)
    <3>1. UNCHANGED <<lockedBlock, committedBlocks>>
      BY <2>3 DEF HandleNormalRepMsg
    <3>2. \/ UNCHANGED curBlock
          \/ curBlock' = [curBlock EXCEPT ![m.dst] = NewQC(m.dst, m)]
      BY <2>3 DEF HandleNormalRepMsg
    <3>3. /\ curBlock \in [Replicas -> Blocks]
          /\ lockedBlock[r].height \in Nat /\ curBlock[r].height \in Nat
      BY DEF IInv, TypeInv, TypeOK, Blocks, Heights
    <3>4. curBlock'[r].height >= curBlock[r].height
      BY <3>2, <3>3 DEF NewQC
    <3> QED
      BY <3>1, <3>3, <3>4 DEF Undone
  <2> QED
    BY <2>1, <2>2, <2>3 DEF HandleQCByteMsg
<1> QED
  BY <1>3, <1>4, <1>5, <1>6 DEF Next

\* Blocks and locks only rise, and what is committed stays.
THEOREM NothingUndoneHolds == Spec => NothingUndone
<1> DEFINE Rising ==
      \A r \in Replicas :
        /\ curBlock'[r].height >= curBlock[r].height
        /\ lockedBlock'[r].height >= lockedBlock[r].height
        /\ \A h \in Heights :
             Committed(r, h) => committedBlocks'[r][h] = committedBlocks[r][h]
<1>1. IInv /\ [Next]_vars => [Rising]_vars
  BY NextUndoesNothing DEF Undone
<1>2. NothingUndone <=> [][Rising]_vars
  BY DEF NothingUndone
<1> QED
  BY <1>1, <1>2, Invariance, PTL DEF Spec
=============================================================================
