------------------------------ MODULE HotStuff ------------------------------
(***************************************************************************)
(* The normal case of the chained HotStuff of src/src/consensus:           *)
(* RequestMonitor (events.go) proposes, HandleNormalMsg (hotstuff.go)      *)
(* checks the certificate in a proposal, locks, commits and votes, and     *)
(* HandleNormalRepMsg turns a quorum of votes into the next certificate.   *)
(*                                                                         *)
(* Every package-level variable of the program is a function from replicas *)
(* here and keeps its name.  This module is the whole protocol when the    *)
(* configuration switches view changes off; ViewChange.tla adds timers     *)
(* and leader changes to the same state.                                   *)
(*                                                                         *)
(* Abstractions.                                                           *)
(*  - A hash is what it covers: ObtainCurHash hashes the chain so far, the *)
(*    sequence number and the batch, so a hash is the sequence of the      *)
(*    [seq, ops] pairs of the chain.  Equal hashes are equal contents.     *)
(*  - A signature of replica i over h is i's name next to h: replicas of   *)
(*    this model sign what the code makes them sign and nothing else.      *)
(*  - A lost message is one that is never delivered: the safety of a step  *)
(*    never depends on a message being delivered.  The transport does not  *)
(*    retry, so a message is delivered at most once, in any order.         *)
(***************************************************************************)
EXTENDS Integers, Sequences, FiniteSets

CONSTANTS
  N,              \* config.FetchNumReplicas()
  QuorumSize,     \* quorum.QuorumSize()
  Requests,       \* what clients may ask for; each is sent to every replica
  MaxBatch,       \* config.MaxBatchSize()
  MaxSeq,         \* bound: no proposal has a larger sequence number
  MaxView,        \* bound: no replica goes past this view
  ViewChangeMode  \* config.IsViewChangeMode()

ASSUME ConstantsAssumption ==
  /\ N \in Nat \ {0}
  /\ QuorumSize \in 1..N
  /\ MaxBatch \in Nat \ {0}
  /\ MaxSeq \in Nat
  /\ MaxView \in Nat
  /\ ViewChangeMode \in BOOLEAN

Replicas == 0..(N - 1)
Views    == 0..MaxView
Seqs     == 1..MaxSeq
Heights  == 0..MaxSeq

\* ObtainCurHash is never called with the same chain and another meaning, so
\* the chain itself is its hash; the nil hash is the empty chain.
Hashes  == Seq([seq: Seqs, ops: Seq(Requests)])
NilHash == << >>

\* message.QCBlock: the certificate of the block with this hash.  The zero value
\* is what InitHotStuff assigns; NoBlock stands for an absent map entry.
Blocks     == [view: Views, height: Heights, hash: Hashes, ids: SUBSET Replicas]
EmptyBlock == [view |-> 0, height |-> 0, hash |-> NilHash, ids |-> {}]
NoBlock    == [view |-> 0, height |-> -1, hash |-> NilHash, ids |-> {}]

\* A replica is SLEEPING or RECOVERING in SleepyRec only.
Status == {"READY", "PROCESSING", "VIEWCHANGE", "SLEEPING", "RECOVERING"}

LeaderID(v) == v % N

VARIABLES
  view,                  \* LocalView()
  curStatus,             \* curStatus
  Sequence,              \* Sequence
  curBlock,              \* the highest certificate this replica adopted
  lockedBlock,           \* the certificate it is locked on
  curHash,               \* the chain its next proposal extends
  awaitingBlocks,        \* seq -> hash of its own proposals of this view
  awaitingDecisionCopy,  \* seqs of proposals seen and not yet forgotten
  committedBlocks,       \* height -> committed certificate
  receivedBlocksSet,     \* hashes of the proposals it accepted and voted for
  votes,                 \* quorum.buffer: who voted for which hash
  prepared,              \* hashes whose "BLOCK" entry of buffer is PREPARED
  queue,                 \* client requests not yet grabbed for a proposal
  monitor,               \* where the RequestMonitor goroutine of a view is
  timers,                \* views whose rotating timer is armed
  pending,               \* client requests on their way to a replica
  net                    \* replica messages sent and not yet handled

chainVars  == <<curBlock, lockedBlock, curHash, committedBlocks>>
voteVars   == <<votes, prepared>>
clientVars == <<queue, pending>>
vars == <<view, curStatus, Sequence, chainVars, awaitingBlocks,
          awaitingDecisionCopy, receivedBlocksSet, voteVars, clientVars,
          monitor, timers, net>>

Leader(r) == LeaderID(view[r]) = r

----------------------------------------------------------------------------
(* Messages: pb.MessageType_QC is a proposal, QCREP a vote for it.         *)

Proposals == [type: {"QC"}, src: Replicas, dst: Replicas, view: Views,
              seq: Seqs, hash: Hashes, qc: Blocks]
Votes     == [type: {"QCREP"}, src: Replicas, dst: Replicas, view: Views,
              seq: Seqs, hash: Hashes]

Proposal(src, dst, v, s, h, qc) ==
  [type |-> "QC", src |-> src, dst |-> dst, view |-> v, seq |-> s, hash |-> h,
   qc |-> qc]
Vote(src, dst, v, s, h) ==
  [type |-> "QCREP", src |-> src, dst |-> dst, view |-> v, seq |-> s, hash |-> h]

----------------------------------------------------------------------------
(* Where RequestMonitor(v) stands at a replica: "wait" for a first request *)
(* (view 0 only), "top" of the loop, "gate" after the view was compared,   *)
(* "claim" after the status was found READY, "propose" after it was set    *)
(* to PROCESSING.  The goroutine holds no lock the view change takes, so   *)
(* any handler may run between two of these points.                        *)

MonitorPoints == {"off", "wait", "top", "gate", "claim", "propose"}

MonitorAt(r, v, point) == monitor[r][v] = point
MonitorGoto(r, v, point) == monitor' = [monitor EXCEPT ![r][v] = point]

\* A monitor of a view led by somebody else arms the timer and then leaves
\* the loop without an effect: it goes to "off" at once.
MonitorStart(r, v) ==
  /\ MonitorAt(r, v, "wait")
  /\ queue[r] # << >> \/ view[r] # 0
  /\ timers' = IF ViewChangeMode
                 THEN [timers EXCEPT ![r] = @ \cup {v}] ELSE timers
  /\ MonitorGoto(r, v, IF LeaderID(v) = r THEN "top" ELSE "off")
  /\ UNCHANGED <<view, curStatus, Sequence, chainVars, awaitingBlocks,
                 awaitingDecisionCopy, receivedBlocksSet, voteVars, clientVars,
                 net>>

MonitorCheckView(r, v) ==
  /\ MonitorAt(r, v, "top")
  /\ MonitorGoto(r, v, IF v = view[r] THEN "gate" ELSE "off")
  /\ UNCHANGED <<view, curStatus, Sequence, chainVars, awaitingBlocks,
                 awaitingDecisionCopy, receivedBlocksSet, voteVars, clientVars,
                 timers, net>>

\* Variant for a mutant: proposes while it waits for votes.
MayProposeAnytime(r) == awaitingDecisionCopy[r] # {} \/ queue[r] # << >>

MayPropose(r) ==
  /\ curStatus[r] = "READY"
  /\ awaitingDecisionCopy[r] # {} \/ queue[r] # << >>

MonitorCheckStatus(r, v) ==
  /\ MonitorAt(r, v, "gate")
  /\ MonitorGoto(r, v, IF MayPropose(r) THEN "claim" ELSE "top")
  /\ UNCHANGED <<view, curStatus, Sequence, chainVars, awaitingBlocks,
                 awaitingDecisionCopy, receivedBlocksSet, voteVars, clientVars,
                 timers, net>>

MonitorClaim(r, v) ==
  /\ MonitorAt(r, v, "claim")
  /\ Sequence[r] < MaxSeq
  /\ curStatus' = [curStatus EXCEPT ![r] = "PROCESSING"]
  /\ MonitorGoto(r, v, "propose")
  /\ UNCHANGED <<view, Sequence, chainVars, awaitingBlocks,
                 awaitingDecisionCopy, receivedBlocksSet, voteVars, clientVars,
                 timers, net>>

----------------------------------------------------------------------------
(* StartHotStuff: the leader's proposal.                                   *)

Smaller(a, b) == IF a < b THEN a ELSE b
Larger(a, b)  == IF a < b THEN b ELSE a

\* queue.GrabWithMaxLenAndClear
GrabSize(r) == Smaller(Len(queue[r]), MaxBatch)
Batch(r)    == SubSeq(queue[r], 1, GrabSize(r))
Rest(r)     == SubSeq(queue[r], GrabSize(r) + 1, Len(queue[r]))

\* No certificate goes with the first sequence number or before there is one.
FetchBlockInfo(r, seq) ==
  IF seq = 1 \/ curBlock[r].height = 0 THEN EmptyBlock ELSE curBlock[r]

ObtainCurHash(chain, seq, ops) == Append(chain, [seq |-> seq, ops |-> ops])

\* The broadcast reaches the proposer itself through HandleQCByteMsg.
StartHotStuff(r, seq, hash) ==
  /\ Sequence' = [Sequence EXCEPT ![r] = seq]
  /\ curHash' = [curHash EXCEPT ![r] = hash]
  /\ awaitingBlocks' = [awaitingBlocks EXCEPT ![r][seq] = hash]
  /\ awaitingDecisionCopy' = [awaitingDecisionCopy EXCEPT ![r] = @ \cup {seq}]
  /\ net' = net \cup
       { Proposal(r, d, view[r], seq, hash, FetchBlockInfo(r, seq)) :
           d \in Replicas }

MonitorPropose(r, v) ==
  /\ MonitorAt(r, v, "propose")
  /\ Sequence[r] < MaxSeq
  /\ queue' = [queue EXCEPT ![r] = Rest(r)]
  /\ LET seq == Sequence[r] + 1
     IN  StartHotStuff(r, seq, ObtainCurHash(curHash[r], seq, Batch(r)))
  /\ MonitorGoto(r, v, "top")
  /\ UNCHANGED <<view, curStatus, curBlock, lockedBlock, committedBlocks,
                 receivedBlocksSet, voteVars, pending, timers>>

RequestMonitor(r, v) ==
  \/ MonitorStart(r, v)
  \/ MonitorCheckView(r, v)
  \/ MonitorCheckStatus(r, v)
  \/ MonitorClaim(r, v)
  \/ MonitorPropose(r, v)

----------------------------------------------------------------------------
(* HandleRequest: a client sends a request to every replica, each          *)
(* delivery is a goroutine of its own.                                     *)

HandleRequest(r, req) ==
  /\ req \in pending[r]
  /\ pending' = [pending EXCEPT ![r] = @ \ {req}]
  /\ queue' = [queue EXCEPT ![r] = Append(@, req)]
  /\ UNCHANGED <<view, curStatus, Sequence, chainVars, awaitingBlocks,
                 awaitingDecisionCopy, receivedBlocksSet, voteVars, monitor,
                 timers, net>>

----------------------------------------------------------------------------
(* HandleQCByteMsg dispatches a delivered message to one of the handlers   *)
(* below.  Each handler runs under viewMux; it is one action.              *)

\* The first test of HandleNormalMsg and HandleNormalRepMsg.
Ignored(r, m) == m.view < view[r] \/ curStatus[r] = "VIEWCHANGE"

IgnoreMsg(m) ==
  /\ m \in net
  /\ m.type \in {"QC", "QCREP"}
  /\ Ignored(m.dst, m)
  /\ net' = net \ {m}
  /\ UNCHANGED <<view, curStatus, Sequence, chainVars, awaitingBlocks,
                 awaitingDecisionCopy, receivedBlocksSet, voteVars, clientVars,
                 monitor, timers>>

\* Variant for a mutant: the block the certificate is for is remembered.
RememberedParent(r, seq) ==
  IF Leader(r) THEN awaitingDecisionCopy[r] ELSE awaitingDecisionCopy[r] \cup {seq - 1}

\* HandleNormalMsg remembers a proposal before it verifies it.  (The leader did
\* when it proposed.)
Remembered(r, seq) ==
  IF Leader(r) THEN awaitingDecisionCopy[r] ELSE awaitingDecisionCopy[r] \cup {seq}

\* Variant for a mutant: the first proposal needs a certificate as well.
VerifyBlockNoGenesis(r, seq, src, bi) ==
  bi.height >= lockedBlock[r].height /\ Cardinality(bi.ids) >= QuorumSize

\* VerifyQC, called last, finds nothing that the quorum test left.
VerifyBlock(r, seq, src, bi) ==
  \/ seq = 1 /\ (Sequence[r] < seq \/ src = r)
  \/ /\ bi.height >= lockedBlock[r].height
     /\ Cardinality(bi.ids) >= QuorumSize

RejectProposal(m) ==
  LET r == m.dst
  IN  /\ m \in net
      /\ m.type = "QC"
      /\ ~Ignored(r, m)
      /\ ~VerifyBlock(r, m.seq, m.src, m.qc)
      /\ awaitingDecisionCopy' =
           [awaitingDecisionCopy EXCEPT ![r] = Remembered(r, m.seq)]
      /\ net' = net \ {m}
      /\ UNCHANGED <<view, curStatus, Sequence, chainVars, awaitingBlocks,
                     receivedBlocksSet, voteVars, clientVars, monitor, timers>>

\* ProcessQCInfo: what the certificate bi of a proposal with sequence number seq
\* does to replica r.  A certificate of height 2 or more that is not higher than
\* the current one does nothing.
OldNews(r, bi) == bi.height >= 2 /\ bi.height <= curBlock[r].height

CommitsLocked(r, bi) ==
  bi.height >= 3 /\ bi.height >= lockedBlock[r].height + 2

\* Variant for a mutant: takes whatever comes.
AdoptsAnyBlock(r, bi) == ~Leader(r)

AdoptsBlock(r, bi) == ~Leader(r) /\ bi.height > curBlock[r].height

\* Variant for a mutant: the block that is about to be locked is output, one
\* certificate too early.
CommitEarly(r) ==
  [committedBlocks EXCEPT ![r][curBlock[r].height] = curBlock[r]]

\* Variant for a mutant: the current block is output in place of the locked one.
CommitCurrent(r) ==
  [committedBlocks EXCEPT ![r][lockedBlock[r].height] = curBlock[r]]

CommitLocked(r) ==
  [committedBlocks EXCEPT ![r][lockedBlock[r].height] = lockedBlock[r]]

\* Variant for a mutant: the lock goes to the certificate that came.
LockReceived(r, bi) == [lockedBlock EXCEPT ![r] = bi]

\* Whatever block the certificate bi is for, the current one becomes the lock.
LockCurrent(r, bi) == [lockedBlock EXCEPT ![r] = curBlock[r]]

SkipQCInfo(r, bi, seq) ==
  /\ OldNews(r, bi)
  /\ awaitingDecisionCopy' =
       [awaitingDecisionCopy EXCEPT ![r] = Remembered(r, seq)]
  /\ UNCHANGED <<Sequence, chainVars>>

ProcessQCInfo(r, bi, seq) ==
  /\ ~OldNews(r, bi)
  /\ committedBlocks' =
       IF CommitsLocked(r, bi) THEN CommitLocked(r) ELSE committedBlocks
  /\ lockedBlock' = IF bi.height >= 2 THEN LockCurrent(r, bi) ELSE lockedBlock
  /\ curBlock' =
       IF AdoptsBlock(r, bi) THEN [curBlock EXCEPT ![r] = bi] ELSE curBlock
  /\ curHash' =
       IF AdoptsBlock(r, bi) THEN [curHash EXCEPT ![r] = bi.hash] ELSE curHash
  /\ awaitingDecisionCopy' =
       [awaitingDecisionCopy EXCEPT ![r] = Remembered(r, seq) \ {seq - 3}]
  /\ Sequence' = [Sequence EXCEPT ![r] = Larger(@, seq)]

\* A leader hands its vote to itself; SendToNode sends nothing to the sender.
VoteTargets(r, src) == (IF Leader(r) THEN {r} ELSE {}) \cup ({src} \ {r})

HandleNormalMsg(m) ==
  LET r == m.dst
  IN  /\ m \in net
      /\ m.type = "QC"
      /\ ~Ignored(r, m)
      /\ VerifyBlock(r, m.seq, m.src, m.qc)
      /\ \/ SkipQCInfo(r, m.qc, m.seq)
         \/ ProcessQCInfo(r, m.qc, m.seq)
      /\ receivedBlocksSet' = [receivedBlocksSet EXCEPT ![r] = @ \cup {m.hash}]
      /\ net' = (net \ {m}) \cup
           { Vote(r, d, view[r], m.seq, m.hash) : d \in VoteTargets(r, m.src) }
      /\ UNCHANGED <<view, curStatus, awaitingBlocks, voteVars, clientVars,
                     monitor, timers>>

\* Variant for a mutant: a block is certified again.
UselessVoteTwice(r, m) ==
  awaitingBlocks[r][m.seq] \notin {NilHash, m.hash}

\* HandleNormalRepMsg drops a vote for a block that is not the one proposed
\* with this sequence number, and a vote for a block that has its certificate.
UselessVote(r, m) ==
  \/ awaitingBlocks[r][m.seq] \notin {NilHash, m.hash}
  \/ m.hash \in prepared[r]

DropVote(m) ==
  LET r == m.dst
  IN  /\ m \in net
      /\ m.type = "QCREP"
      /\ ~Ignored(r, m)
      /\ UselessVote(r, m)
      /\ net' = net \ {m}
      /\ UNCHANGED <<view, curStatus, Sequence, chainVars, awaitingBlocks,
                     awaitingDecisionCopy, receivedBlocksSet, voteVars,
                     clientVars, monitor, timers>>

\* Variant for a mutant: votes for any block count.
VotersForAny(r, m) == { x.id : x \in votes[r] } \cup {m.src}

\* The signers of hash in the buffer of r once m is added to it.
Voters(r, m) ==
  { x.id : x \in { y \in votes[r] : y.hash = m.hash } } \cup {m.src}

\* The new certificate is one higher than the current one, whatever it is for.
NewQC(r, m) ==
  [view |-> view[r], height |-> curBlock[r].height + 1, hash |-> m.hash,
   ids |-> Voters(r, m)]

HandleNormalRepMsg(m) ==
  LET r == m.dst
  IN  /\ m \in net
      /\ m.type = "QCREP"
      /\ ~Ignored(r, m)
      /\ ~UselessVote(r, m)
      /\ votes' = [votes EXCEPT ![r] = @ \cup {[hash |-> m.hash, id |-> m.src]}]
      /\ IF Cardinality(Voters(r, m)) >= QuorumSize
           THEN /\ prepared' = [prepared EXCEPT ![r] = @ \cup {m.hash}]
                /\ curBlock' = [curBlock EXCEPT ![r] = NewQC(r, m)]
                /\ curStatus' = [curStatus EXCEPT ![r] = "READY"]
           ELSE UNCHANGED <<prepared, curBlock, curStatus>>
      /\ net' = net \ {m}
      /\ UNCHANGED <<view, Sequence, lockedBlock, curHash, committedBlocks,
                     awaitingBlocks, awaitingDecisionCopy, receivedBlocksSet,
                     clientVars, monitor, timers>>

HandleQCByteMsg(m) ==
  \/ IgnoreMsg(m)
  \/ RejectProposal(m)
  \/ HandleNormalMsg(m)
  \/ DropVote(m)
  \/ HandleNormalRepMsg(m)

----------------------------------------------------------------------------
(* StartHandler and InitHotStuff.                                          *)

InitProtocol ==
  /\ view = [r \in Replicas |-> 0]
  /\ curStatus = [r \in Replicas |-> "READY"]
  /\ Sequence = [r \in Replicas |-> 0]
  /\ curBlock = [r \in Replicas |-> EmptyBlock]
  /\ lockedBlock = [r \in Replicas |-> EmptyBlock]
  /\ curHash = [r \in Replicas |-> NilHash]
  /\ awaitingBlocks = [r \in Replicas |-> [s \in Seqs |-> NilHash]]
  /\ awaitingDecisionCopy = [r \in Replicas |-> {}]
  /\ committedBlocks = [r \in Replicas |-> [h \in Heights |-> NoBlock]]
  /\ receivedBlocksSet = [r \in Replicas |-> {}]
  /\ votes = [r \in Replicas |-> {}]
  /\ prepared = [r \in Replicas |-> {}]
  /\ timers = [r \in Replicas |-> {}]
  /\ net = {}

\* StartHandler starts RequestMonitor(0) at every replica.
InitMonitors ==
  monitor = [r \in Replicas |->
               [v \in Views |-> IF v = 0 THEN "wait" ELSE "off"]]

InitClients ==
  /\ queue = [r \in Replicas |-> << >>]
  /\ pending = [r \in Replicas |-> Requests]

Init == InitProtocol /\ InitMonitors /\ InitClients

Next ==
  \/ \E r \in Replicas, v \in Views : RequestMonitor(r, v)
  \/ \E r \in Replicas, req \in Requests : HandleRequest(r, req)
  \/ \E m \in net : HandleQCByteMsg(m)

Spec == Init /\ [][Next]_vars

\* Goroutines are scheduled, and with a transport that loses nothing every
\* message reaches its handler.
Fairness ==
  /\ \A r \in Replicas, v \in Views : WF_vars(RequestMonitor(r, v))
  /\ \A r \in Replicas, req \in Requests : WF_vars(HandleRequest(r, req))
  /\ \A r \in Replicas : WF_vars(\E m \in net : m.dst = r /\ HandleQCByteMsg(m))

FairSpec == Spec /\ Fairness

----------------------------------------------------------------------------
(* Properties of the normal case.                                          *)

\* Every variable stays in the domain the code gives it.
TypeOK ==
  /\ view \in [Replicas -> Views]
  /\ curStatus \in [Replicas -> Status]
  /\ Sequence \in [Replicas -> 0..MaxSeq]
  /\ curBlock \in [Replicas -> Blocks]
  /\ lockedBlock \in [Replicas -> Blocks]
  /\ curHash \in [Replicas -> Hashes]
  /\ awaitingBlocks \in [Replicas -> [Seqs -> Hashes]]
  /\ awaitingDecisionCopy \in [Replicas -> SUBSET Seqs]
  /\ committedBlocks \in [Replicas -> [Heights -> Blocks \cup {NoBlock}]]
  /\ receivedBlocksSet \in [Replicas -> SUBSET Hashes]
  /\ votes \in [Replicas -> SUBSET [hash: Hashes, id: Replicas]]
  /\ prepared \in [Replicas -> SUBSET Hashes]
  /\ queue \in [Replicas -> Seq(Requests)]
  /\ monitor \in [Replicas -> [Views -> MonitorPoints]]
  /\ timers \in [Replicas -> SUBSET Views]
  /\ pending \in [Replicas -> SUBSET Requests]
  /\ \A m \in net : m.type \in {"QC", "QCREP"} => m \in Proposals \cup Votes

Committed(r, h) == committedBlocks[r][h] # NoBlock

\* Every certificate there is: adopted, locked, committed or on its way.
Certificates ==
  { curBlock[r] : r \in Replicas } \cup { lockedBlock[r] : r \in Replicas }
  \cup ({ committedBlocks[r][h] : r \in Replicas, h \in Heights } \ {NoBlock})
  \cup { m.qc : m \in { x \in net : x.type = "QC" } }

Extends(h, g) == Len(g) <= Len(h) /\ SubSeq(h, 1, Len(g)) = g

\* No two replicas commit different blocks at one height (what
\* committedBlocks.Insert in ProcessQCInfo must never do).
Agreement ==
  \A r, s \in Replicas, h \in Heights :
    Committed(r, h) /\ Committed(s, h) =>
      committedBlocks[r][h].hash = committedBlocks[s][h].hash

\* A certificate HandleNormalRepMsg assembles names a quorum of replicas, and
\* each of them accepted that very block in HandleNormalMsg.
CertifiedByVoters ==
  \A c \in Certificates : c.hash # NilHash =>
    /\ Cardinality(c.ids) >= QuorumSize
    /\ \A i \in c.ids : c.hash \in receivedBlocksSet[i]

\* All certificates lie on one chain, and the height HandleNormalRepMsg counts
\* up is the length of that chain, although it never looks at the sequence
\* number the votes carry.
OneChain ==
  \A c, d \in Certificates :
    /\ Len(c.hash) = c.height
    /\ c.height <= d.height => Extends(d.hash, c.hash)

\* The three-chain rule of ProcessQCInfo: what a replica committed is below its
\* lock, its lock is below its current block, and each extends the one below.
\* (At height 0 ProcessQCInfo may commit the empty block, the value lockedBlock
\* starts with, when proposals overtake each other.)
CommitBelowLock ==
  \A r \in Replicas, h \in Seqs : Committed(r, h) =>
    /\ h < lockedBlock[r].height
    /\ lockedBlock[r].height < curBlock[r].height
    /\ Extends(lockedBlock[r].hash, committedBlocks[r][h].hash)
    /\ Extends(curBlock[r].hash, lockedBlock[r].hash)

\* Whatever the delays, one proposal is outstanding at a time: when the status
\* that RequestMonitor tests says READY, the last proposal has its certificate.
OneProposalOutstanding ==
  \A r \in Replicas : Leader(r) =>
    \/ curStatus[r] = "READY" /\ curBlock[r].height = Sequence[r]
    \/ /\ curStatus[r] = "PROCESSING"
       /\ curBlock[r].height =
            IF MonitorAt(r, view[r], "propose") THEN Sequence[r]
                                                ELSE Sequence[r] - 1

\* Reordered proposals never take a replica back: certificates and locks only
\* grow, and a committed block is never replaced.
NothingUndone ==
  [][\A r \in Replicas :
       /\ curBlock'[r].height >= curBlock[r].height
       /\ lockedBlock'[r].height >= lockedBlock[r].height
       /\ \A h \in Heights :
            Committed(r, h) => committedBlocks'[r][h] = committedBlocks[r][h]]_vars

\* A replica outputs height after height, without a gap: what README.md shows
\* as the expected output of every server.
NoHeightSkipped ==
  \A r \in Replicas, h \in Seqs :
    Committed(r, h) => \A g \in 1..h : Committed(r, g)

\* A leader that waits for votes gets its certificate, again and again: whatever the
\* order, the votes HandleNormalRepMsg does not drop are enough to be READY again.
ProposalsGetCertified == []<>(\A r \in Replicas : curStatus[r] # "PROCESSING")

\* A proposal brings every replica up to the certificate in it, however late and
\* in whatever order it comes, so that followers catch up with the leader again and
\* again: VerifyBlock never locks one out.
FollowersCatchUp == []<>(\A r \in Replicas : curBlock[r].height >= Sequence[0] - 1)
=============================================================================
