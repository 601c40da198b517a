----------------------------- MODULE ViewChange -----------------------------
(***************************************************************************)
(* Leader rotation (viewchange.go) on top of the normal case of HotStuff.  *)
(*                                                                         *)
(* A rotating timer ends a view.  With a persistent view number            *)
(* (PersistLevel # "NoPersist") TimeoutHandler starts the view change at   *)
(* once; without, it broadcasts a TIMEOUT and waits for a quorum           *)
(* certificate of timeouts (TQC).  StartViewChange sends the replica's     *)
(* current block to the next leader, and that leader starts proposing      *)
(* when a quorum of VIEWCHANGE messages is in.                             *)
(*                                                                         *)
(* The NEWVIEW messages of the program are never sent (StartQCNewView has  *)
(* no caller), so they are not modelled.                                   *)
(***************************************************************************)
EXTENDS HotStuff

CONSTANT
  PersistLevel   \* config.PersistLevel(), as a db.PersistLevelType

ASSUME PersistLevelAssumption ==
  PersistLevel \in {"PersistAll", "PersistCritical", "NoPersist"}

VARIABLES
  vcBuffer,      \* quorum.intbuffer: who sent VIEWCHANGE for a view
  vcPrepared,    \* views whose "VCQC" entry of buffer is PREPARED
  timeoutBuffer, \* who sent TIMEOUT for a view
  tqcPrepared    \* views whose "TQC" entry of buffer is PREPARED

vcVars  == <<vcBuffer, vcPrepared, timeoutBuffer, tqcPrepared>>
allVars == <<vars, vcVars>>

----------------------------------------------------------------------------
(* Messages.                                                               *)

TimeoutMsgs == [type: {"TIMEOUT"}, src: Replicas, dst: Replicas, view: Views]
TQCMsgs     == [type: {"TQC"}, src: Replicas, dst: Replicas, view: Views,
                ids: SUBSET Replicas]

ViewChangeMsg(src, dst, v, qc) ==
  [type |-> "VIEWCHANGE", src |-> src, dst |-> dst, view |-> v, qc |-> qc]
TimeoutMsg(src, dst, v) ==
  [type |-> "TIMEOUT", src |-> src, dst |-> dst, view |-> v]
TQCMsg(src, dst, v, ids) ==
  [type |-> "TQC", src |-> src, dst |-> dst, view |-> v, ids |-> ids]

----------------------------------------------------------------------------
(* StartViewChange(v) and HotStuffStartVC: replica r leaves view v for     *)
(* v + 1 and tells its leader the current block.  The leader of v + 1      *)
(* stays in VIEWCHANGE, and without a new timer, until it has a quorum.    *)
(* netRest is what else the caller leaves in the network.                  *)

\* Nothing stops a timer that was armed (time.AfterFunc).  That of a view that is
\* over returns when it fires, and is forgotten here; that of a later view, which
\* a replica armed before it fell asleep, stays.
Rearmed(r, w) ==
  { t \in timers[r] : t >= w } \cup (IF LeaderID(w) = r THEN {} ELSE {w})

StartViewChange(r, v, netRest) ==
  LET w == v + 1
      leads == LeaderID(w) = r
  IN  /\ view' = [view EXCEPT ![r] = w]
      /\ awaitingBlocks' = [awaitingBlocks EXCEPT ![r] = [s \in Seqs |-> NilHash]]
      /\ curStatus' = [curStatus EXCEPT ![r] = IF leads THEN "VIEWCHANGE" ELSE "READY"]
      /\ timers' = [timers EXCEPT ![r] = Rearmed(r, w)]
      /\ net' = netRest \cup {ViewChangeMsg(r, LeaderID(w), w, curBlock[r])}
      /\ UNCHANGED <<Sequence, chainVars, awaitingDecisionCopy,
                     receivedBlocksSet, voteVars, clientVars, monitor>>

\* Variant for a mutant: the comparison is strict.
TimerFiresLate(r, v) ==
  /\ v \in timers[r]
  /\ v > view[r]
  /\ v < MaxView

\* TimeoutHandler(v): the rotating timer of view v fires.  The bound MaxView
\* stops the timers of the last view.
TimerFires(r, v) ==
  /\ v \in timers[r]
  /\ v >= view[r]
  /\ v < MaxView

TimeoutPersistent(r, v) ==
  /\ TimerFires(r, v)
  /\ PersistLevel # "NoPersist"
  /\ StartViewChange(r, v, net)
  /\ UNCHANGED vcVars

TimeoutInMemory(r, v) ==
  /\ TimerFires(r, v)
  /\ PersistLevel = "NoPersist"
  /\ curStatus' = [curStatus EXCEPT ![r] = "VIEWCHANGE"]
  /\ timers' = [timers EXCEPT ![r] = @ \ {v}]
  /\ net' = net \cup { TimeoutMsg(r, d, v) : d \in Replicas }
  /\ UNCHANGED <<view, Sequence, chainVars, awaitingBlocks,
                 awaitingDecisionCopy, receivedBlocksSet, voteVars, clientVars,
                 monitor, vcVars>>

TimeoutHandler(r, v) == TimeoutPersistent(r, v) \/ TimeoutInMemory(r, v)

----------------------------------------------------------------------------
(* The handlers of TIMEOUT, TQC and VIEWCHANGE.                            *)

\* Variant for a mutant: nothing is taken from the view to come.
IgnoresNextView(r, m) ==
  \/ m.view < view[r]
  \/ m.type = "TIMEOUT" /\ m.view \in tqcPrepared[r]
  \/ m.type = "VIEWCHANGE" /\ (m.view > view[r] \/ m.view \in vcPrepared[r])

\* The early returns.
IgnoresVCMsg(r, m) ==
  \/ m.view < view[r]
  \/ m.type = "TIMEOUT" /\ m.view \in tqcPrepared[r]
  \/ m.type = "VIEWCHANGE" /\ (m.view > view[r] + 1 \/ m.view \in vcPrepared[r])

IgnoreVCMsg(m) ==
  /\ m.type \in {"TIMEOUT", "TQC", "VIEWCHANGE"}
  /\ IgnoresVCMsg(m.dst, m)
  /\ net' = net \ {m}
  /\ UNCHANGED <<view, curStatus, Sequence, chainVars, awaitingBlocks,
                 awaitingDecisionCopy, receivedBlocksSet, voteVars, clientVars,
                 monitor, timers, vcVars>>

\* Variant for a mutant: one timeout is missing.
AlmostTimeoutQuorum(ids) == Cardinality(ids) >= QuorumSize - 1

TimeoutQuorum(ids) == Cardinality(ids) >= QuorumSize

\* The replica that sees a quorum of timeouts makes the TQC of the view.
HandleTimeoutMsg(m) ==
  LET r == m.dst
      ids == timeoutBuffer[r][m.view] \cup {m.src}
  IN  /\ m.type = "TIMEOUT"
      /\ ~IgnoresVCMsg(r, m)
      /\ timeoutBuffer' = [timeoutBuffer EXCEPT ![r][m.view] = ids]
      /\ IF TimeoutQuorum(ids)
           THEN /\ tqcPrepared' = [tqcPrepared EXCEPT ![r] = @ \cup {m.view}]
                /\ net' = (net \ {m}) \cup
                            { TQCMsg(r, d, m.view, ids) : d \in Replicas }
           ELSE net' = net \ {m} /\ UNCHANGED tqcPrepared
      /\ UNCHANGED <<view, curStatus, Sequence, chainVars, awaitingBlocks,
                     awaitingDecisionCopy, receivedBlocksSet, voteVars,
                     clientVars, monitor, timers, vcBuffer, vcPrepared>>

\* A TQC for this view or a later one ends all views up to it.  Whoever did not
\* know of it passes it on.
HandleTQCMsg(m) ==
  LET r == m.dst
      known == m.view \in tqcPrepared[r]
      forwarded == IF known THEN {}
                   ELSE { [m EXCEPT !.dst = d] : d \in Replicas \ {r} }
  IN  /\ m.type = "TQC"
      /\ ~IgnoresVCMsg(r, m)
      /\ TimeoutQuorum(m.ids)
      /\ StartViewChange(r, m.view, (net \ {m}) \cup forwarded)
      /\ IF known
           THEN UNCHANGED <<timeoutBuffer, tqcPrepared>>
           ELSE /\ timeoutBuffer' = [timeoutBuffer EXCEPT ![r][m.view] = m.ids]
                /\ tqcPrepared' = [tqcPrepared EXCEPT ![r] = @ \cup {m.view}]
      /\ UNCHANGED <<vcBuffer, vcPrepared>>

\* Variant for a mutant: heights are not compared.
TakesAny(r, cb) == cb.hash # NilHash

\* A leader to be takes over the highest block it is told of; heights are all it
\* compares, and curHash stays what it was.
Takes(r, cb) == cb.hash # NilHash /\ cb.height >= curBlock[r].height

\* Variant for a mutant: the leader counts itself twice.
ActivatesEarly(r, m) ==
  /\ curStatus[r] # "READY"
  /\ Cardinality(vcBuffer[r][m.view] \cup {m.src}) + 1 >= QuorumSize

\* A quorum counts once the replica's own timer has fired.
Activates(r, m) ==
  /\ curStatus[r] # "READY"
  /\ Cardinality(vcBuffer[r][m.view] \cup {m.src}) >= QuorumSize

HandleQCVCMessage(m) ==
  LET r == m.dst
  IN  /\ m.type = "VIEWCHANGE"
      /\ ~IgnoresVCMsg(r, m)
      /\ vcBuffer' = [vcBuffer EXCEPT ![r][m.view] = @ \cup {m.src}]
      /\ IF Takes(r, m.qc)
           THEN /\ curBlock' = [curBlock EXCEPT ![r] = m.qc]
                /\ Sequence' = [Sequence EXCEPT ![r] = Larger(@, m.qc.height)]
           ELSE UNCHANGED <<curBlock, Sequence>>
      /\ IF Activates(r, m)
           THEN /\ view' = [view EXCEPT ![r] = m.view]
                /\ vcPrepared' = [vcPrepared EXCEPT ![r] = @ \cup {m.view}]
                /\ curStatus' = [curStatus EXCEPT ![r] = "READY"]
                /\ MonitorGoto(r, m.view, "wait")
           ELSE UNCHANGED <<view, vcPrepared, curStatus, monitor>>
      /\ net' = net \ {m}
      /\ UNCHANGED <<lockedBlock, curHash, committedBlocks, awaitingBlocks,
                     awaitingDecisionCopy, receivedBlocksSet, voteVars,
                     clientVars, timers, timeoutBuffer, tqcPrepared>>

HandleVCMsg(m) ==
  \/ IgnoreVCMsg(m)
  \/ HandleTimeoutMsg(m)
  \/ HandleTQCMsg(m)
  \/ HandleQCVCMessage(m)

----------------------------------------------------------------------------

InitViewChange ==
  /\ vcBuffer = [r \in Replicas |-> [v \in Views |-> {}]]
  /\ vcPrepared = [r \in Replicas |-> {}]
  /\ timeoutBuffer = [r \in Replicas |-> [v \in Views |-> {}]]
  /\ tqcPrepared = [r \in Replicas |-> {}]

VCInit == Init /\ InitViewChange

VCNext ==
  \/ Next /\ UNCHANGED vcVars
  \/ \E r \in Replicas, v \in Views : TimeoutHandler(r, v)
  \/ \E m \in net : HandleVCMsg(m)

VCSpec == VCInit /\ [][VCNext]_allVars

\* Timers fire; goroutines run; a reliable transport delivers to each replica.
VCFairness ==
  /\ \A r \in Replicas, v \in Views :
       /\ WF_allVars(RequestMonitor(r, v) /\ UNCHANGED vcVars)
       /\ WF_allVars(TimeoutHandler(r, v))
  /\ \A r \in Replicas :
       WF_allVars(\E m \in net :
                    /\ m.dst = r
                    /\ \/ HandleQCByteMsg(m) /\ UNCHANGED vcVars
                       \/ HandleVCMsg(m))

----------------------------------------------------------------------------
(* Properties of the view change.  CertifiedByVoters of HotStuff still     *)
(* holds; OneChain, CommitBelowLock and Agreement do not (see MCFork).     *)

\* Every variable stays in the domain the code gives it.  A certificate is one
\* higher than the block its leader is on, whatever the sequence numbers are:
\* MaxSeq bounds what leaders propose and not heights.
VCTypeOK ==
  LET blocks == [view: Views, height: Nat, hash: Hashes, ids: SUBSET Replicas]
      proposals == [type: {"QC"}, src: Replicas, dst: Replicas, view: Views,
                    seq: Seqs, hash: Hashes, qc: blocks]
      viewChanges == [type: {"VIEWCHANGE"}, src: Replicas, dst: Replicas,
                      view: Views, qc: blocks]
  IN  /\ view \in [Replicas -> Views]
      /\ curStatus \in [Replicas -> Status]
      /\ Sequence \in [Replicas -> Nat]
      /\ curBlock \in [Replicas -> blocks]
      /\ lockedBlock \in [Replicas -> blocks]
      /\ curHash \in [Replicas -> Hashes]
      /\ awaitingBlocks \in [Replicas -> [Seqs -> Hashes]]
      /\ awaitingDecisionCopy \in [Replicas -> SUBSET Seqs]
      /\ committedBlocks \in [Replicas -> [Heights -> blocks \cup {NoBlock}]]
      /\ receivedBlocksSet \in [Replicas -> SUBSET Hashes]
      /\ votes \in [Replicas -> SUBSET [hash: Hashes, id: Replicas]]
      /\ prepared \in [Replicas -> SUBSET Hashes]
      /\ queue \in [Replicas -> Seq(Requests)]
      /\ monitor \in [Replicas -> [Views -> MonitorPoints]]
      /\ timers \in [Replicas -> SUBSET Views]
      /\ pending \in [Replicas -> SUBSET Requests]
      /\ vcBuffer \in [Replicas -> [Views -> SUBSET Replicas]]
      /\ vcPrepared \in [Replicas -> SUBSET Views]
      /\ timeoutBuffer \in [Replicas -> [Views -> SUBSET Replicas]]
      /\ tqcPrepared \in [Replicas -> SUBSET Views]
      /\ net \subseteq
           (proposals \cup Votes \cup viewChanges \cup TimeoutMsgs \cup TQCMsgs)

\* ProcessQCInfo locks whatever the current block is, a new leader takes another
\* block over, and proposals come late or from two leaders: even so, the lock is
\* never above the block that the next certificate is counted from.
LockBelowBlock == \A r \in Replicas : lockedBlock[r].height <= curBlock[r].height

\* A RequestMonitor of a view after the first runs only at the leader of that
\* view, and only after a quorum has reached the view.
NewLeaderHasQuorum ==
  \A r \in Replicas, w \in Views \ {0} : ~MonitorAt(r, w, "off") =>
    /\ LeaderID(w) = r
    /\ Cardinality({ s \in Replicas : view[s] >= w }) >= QuorumSize

\* Neither the handover to a new leader nor late messages take a replica back to
\* an earlier view, a lower block or a lower lock.
HeightsGrow ==
  [][\A r \in Replicas :
       /\ view'[r] >= view[r]
       /\ curBlock'[r].height >= curBlock[r].height
       /\ lockedBlock'[r].height >= lockedBlock[r].height]_allVars

\* Without a stored view number, a replica moves on only together: when it is in
\* view w, the timer of view w - 1 has expired at a quorum of replicas.
GaveUp(s, v) ==
  \/ view[s] > v
  \/ /\ view[s] = v
     /\ v \notin timers[s]
     /\ monitor[s][v] # "wait"
     /\ LeaderID(v) = s => (v = 0 \/ v \in vcPrepared[s])

TimeoutsBackViews ==
  \A r \in Replicas : view[r] > 0 =>
    Cardinality({ s \in Replicas : GaveUp(s, view[r] - 1) }) >= QuorumSize

\* A replica that waits in VIEWCHANGE, which answers nothing, gets out of it.  It
\* does not hold: HandleQCVCMessage expects that the others are one view ahead of
\* this replica ("it might not yet start view change") and drops what a view
\* further on brings, nobody sends it again, and the leader has armed no timer.
EveryViewChangeEnds ==
  \A r \in Replicas : curStatus[r] = "VIEWCHANGE" ~> curStatus[r] # "VIEWCHANGE"

\* What the rotating timers, of one length everywhere, are meant to see to: nobody
\* is ever two views behind.
InStep == \A r, s \in Replicas : view[s] <= view[r] + 1

\* While the replicas keep in step, one that waits in VIEWCHANGE gets out of it:
\* whether its VIEWCHANGE messages come before or after its own timer, a quorum of
\* them is counted.
ViewChangesEnd == []InStep => EveryViewChangeEnds

\* While they keep in step, timers take every replica through all views, also the
\* leaders, which arm none of their own until a quorum has made them READY.
ViewsAdvance == []InStep => \A r \in Replicas : <>(view[r] = MaxView)

\* Only the leader of a view proposes in it: what the comment on RequestMonitor
\* says ("if the node is not a leader, it will leave this func").
OnlyLeadersPropose ==
  \A m \in net : m.type = "QC" => m.src = LeaderID(m.view)

\* A proposal extends the block whose certificate it carries: FetchBlockInfo
\* says that block "can be used as the parent block".
ProposalsExtendTheirQC ==
  \A m \in net : m.type = "QC" /\ m.qc.hash # NilHash =>
    SubSeq(m.hash, 1, Len(m.hash) - 1) = m.qc.hash
=============================================================================
