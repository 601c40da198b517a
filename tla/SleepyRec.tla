------------------------------ MODULE SleepyRec ------------------------------
(***************************************************************************)
(* Sleep and recovery (sleepyRec.go, test_sleepy_hotstuff.go) on top of    *)
(* the view change.  A sleepy replica drops all it is sent; it wakes up    *)
(* with what InitHotStuff leaves of its memory, and recovers                *)
(*   RecKoala2    from a quorum of the others: REC1 and ECHO1 find out how *)
(*                far the views are, REC2 and ECHO2 fetch blocks once the  *)
(*                views have moved past anything it may have voted in;     *)
(*   RecFromDisk  from what PersistValue wrote at level PersistCritical,   *)
(*                if it wrote all that is read, or else the program ends;  *)
(*   NoRec        not at all.                                              *)
(*                                                                         *)
(* A replica sleeps once (TestSleepAndRecover runs once), so that a request*)
(* of recovery is told from another one, which the code does by its hash,  *)
(* by its type.                                                            *)
(***************************************************************************)
EXTENDS ViewChange

CONSTANTS
  Sleepers,   \* the replicas ParamOfSleepyReplica chooses
  SleepSeq,   \* SleepyReplica.SleepSeq, the same for all of them
  RecMode,    \* "RecFromDisk", "RecKoala2" or, with "NoPersist" only, "NoRec"
  RecQuorum   \* quorum.RecQuorumSize()

VARIABLES
  sleepProc,   \* where the goroutine TestSleepAndRecover is
  reqHash,     \* the recovery request whose answers count
  hView,       \* hView: the highest view that an ECHO1 proved over
  recBuffer,   \* how many answers a recovery request got
  recPrepared, \* requests whose "ECHO1" or "ECHO2" entry of buffer is PREPARED
  spinning,    \* HandleEcho1Msg waits for the views to advance
  store,       \* what the database holds
  before       \* history: view and lock of a replica when it fell asleep

recVars    == <<reqHash, hView, recBuffer, recPrepared, spinning>>
sleepVars  == <<sleepProc, recVars, store, before>>
sleepyVars == <<allVars, sleepVars>>

Requested == {"REC1", "REC2"}
Down(r)   == curStatus[r] \in {"SLEEPING", "RECOVERING"}
Ended(r)  == sleepProc[r] = "ended"

----------------------------------------------------------------------------
(* Messages.                                                               *)

Rec1Msg(src, dst) == [type |-> "REC1", src |-> src, dst |-> dst]
Rec2Msg(src, dst, v) == [type |-> "REC2", src |-> src, dst |-> dst, view |-> v]
Echo1Msg(src, dst, v, ids) ==
  [type |-> "ECHO1", src |-> src, dst |-> dst, hash |-> "REC1", view |-> v,
   ids |-> ids]
Echo2Msg(src, dst, qc, lqc, com) ==
  [type |-> "ECHO2", src |-> src, dst |-> dst, hash |-> "REC2", qc |-> qc,
   lqc |-> lqc, com |-> com]

\* RBCByteBroadcast sends to everybody else.
Others(r) == Replicas \ {r}

----------------------------------------------------------------------------
(* PersistValue.  The view is written wherever it changes, the lock where  *)
(* ProcessQCInfo sets it, committedBlocks in InitHotStuff and where        *)
(* ProcessQCInfo adds to them: a handler of the normal case or the view    *)
(* change writes through.  lockers are the replicas that lock in the step; *)
(* before the first lock the database has none (NoBlock).                  *)

Persists == PersistLevel # "NoPersist"

WriteThrough(lockers) ==
  LET Written(old, new, stored) == IF new = old THEN stored ELSE new
  IN  store' = IF Persists
                 THEN [r \in Replicas |->
                        [view |-> Written(view[r], view'[r], store[r].view),
                         lockedBlock |-> IF r \in lockers THEN lockedBlock'[r]
                                                          ELSE store[r].lockedBlock,
                         committedBlocks |->
                           Written(committedBlocks[r], committedBlocks'[r],
                                   store[r].committedBlocks)]]
                 ELSE store

\* The handler of m gets to ProcessQCInfo, and that sets the lock, if only to
\* the empty block again.
Locks(m) ==
  /\ m.type = "QC"
  /\ ~Ignored(m.dst, m)
  /\ VerifyBlock(m.dst, m.seq, m.src, m.qc)
  /\ m.qc.height >= 2
  /\ ~OldNews(m.dst, m.qc)

----------------------------------------------------------------------------
(* SleepProcess.                                                           *)

ParamOfSleepyReplica(r) == r \in Sleepers

\* Handlers, timers and a monitor that proposes hold the read side of sleepLock.
FallAsleep(r) ==
  /\ ParamOfSleepyReplica(r)
  /\ sleepProc[r] = "awake"
  /\ Sequence[r] >= SleepSeq
  /\ \A v \in Views : ~MonitorAt(r, v, "claim") /\ ~MonitorAt(r, v, "propose")
  /\ curStatus' = [curStatus EXCEPT ![r] = "SLEEPING"]
  /\ sleepProc' = [sleepProc EXCEPT ![r] = "asleep"]
  /\ before' = [before EXCEPT ![r] = [view |-> view[r], lock |-> lockedBlock[r]]]
  /\ UNCHANGED <<view, Sequence, chainVars, awaitingBlocks,
                 awaitingDecisionCopy, receivedBlocksSet, voteVars, clientVars,
                 monitor, timers, net, vcVars, recVars, store>>

\* Variant for a mutant: the lock that was just reset is written as well.
StoreForgetsLock(r) ==
  [store EXCEPT ![r].view = 0, ![r].lockedBlock = EmptyBlock]

\* SetView(0) overwrites the stored view; the stored lock stays.
StoreAfterInit(r) == [store EXCEPT ![r].view = 0]

\* InitHotStuff once more.  It keeps the committed blocks, if there are any, and
\* what it does not know of: the queue, the monitors and the timers.
WakeUp(r) ==
  /\ sleepProc[r] = "asleep"
  /\ sleepProc' = [sleepProc EXCEPT ![r] = "woken"]
  /\ view' = [view EXCEPT ![r] = 0]
  /\ Sequence' = [Sequence EXCEPT ![r] = 0]
  /\ curBlock' = [curBlock EXCEPT ![r] = EmptyBlock]
  /\ lockedBlock' = [lockedBlock EXCEPT ![r] = EmptyBlock]
  /\ curHash' = [curHash EXCEPT ![r] = NilHash]
  /\ awaitingBlocks' = [awaitingBlocks EXCEPT ![r] = [s \in Seqs |-> NilHash]]
  /\ awaitingDecisionCopy' = [awaitingDecisionCopy EXCEPT ![r] = {}]
  /\ votes' = [votes EXCEPT ![r] = {}]
  /\ prepared' = [prepared EXCEPT ![r] = {}]
  /\ vcBuffer' = [vcBuffer EXCEPT ![r] = [v \in Views |-> {}]]
  /\ vcPrepared' = [vcPrepared EXCEPT ![r] = {}]
  /\ timeoutBuffer' = [timeoutBuffer EXCEPT ![r] = [v \in Views |-> {}]]
  /\ tqcPrepared' = [tqcPrepared EXCEPT ![r] = {}]
  /\ recBuffer' = [recBuffer EXCEPT ![r] = [q \in Requested |-> 0]]
  /\ recPrepared' = [recPrepared EXCEPT ![r] = {}]
  /\ store' = IF Persists THEN StoreAfterInit(r) ELSE store
  /\ UNCHANGED <<curStatus, committedBlocks, receivedBlocksSet, clientVars,
                 monitor, timers, net, reqHash, hView, spinning, before>>

----------------------------------------------------------------------------
(* RecoveryProcess.                                                        *)

StartsRecovery(r, then) ==
  /\ sleepProc[r] = "woken"
  /\ sleepProc' = [sleepProc EXCEPT ![r] = then]
  /\ hView' = [hView EXCEPT ![r] = -2]

RecoverKoala2(r) ==
  /\ RecMode = "RecKoala2"
  /\ StartsRecovery(r, "done")
  /\ curStatus' = [curStatus EXCEPT ![r] = "RECOVERING"]
  /\ reqHash' = [reqHash EXCEPT ![r] = "REC1"]
  /\ net' = net \cup { Rec1Msg(r, d) : d \in Others(r) }
  /\ UNCHANGED <<view, Sequence, chainVars, awaitingBlocks,
                 awaitingDecisionCopy, receivedBlocksSet, voteVars, clientVars,
                 monitor, timers, vcVars, recBuffer, recPrepared, spinning,
                 store, before>>

\* RecoverValue, of the keys that are critical.
RecoverValue(r) == store[r]

\* StartViewChange leaves the view that was read, and makes the replica READY
\* unless it leads the next one.
RestoreFromDisk(r) ==
  LET w == RecoverValue(r).view + 1
      leads == LeaderID(w) = r
      lb == RecoverValue(r).lockedBlock
  IN  /\ StartsRecovery(r, "done")
      /\ lb # NoBlock
      /\ w \in Views
      /\ view' = [view EXCEPT ![r] = w]
      /\ lockedBlock' = [lockedBlock EXCEPT ![r] = lb]
      /\ curBlock' = [curBlock EXCEPT ![r] = lb]
      /\ committedBlocks' =
           [committedBlocks EXCEPT ![r] = RecoverValue(r).committedBlocks]
      /\ curStatus' =
           [curStatus EXCEPT ![r] = IF leads THEN "VIEWCHANGE" ELSE "READY"]
      /\ timers' = [timers EXCEPT ![r] = Rearmed(r, w)]
      /\ net' = net \cup {ViewChangeMsg(r, LeaderID(w), w, lb)}
      /\ store' = [store EXCEPT ![r].view = w]
      /\ reqHash' = [reqHash EXCEPT ![r] = "none"]
      /\ UNCHANGED <<Sequence, curHash, awaitingBlocks, awaitingDecisionCopy,
                     receivedBlocksSet, voteVars, clientVars, monitor, vcVars,
                     recBuffer, recPrepared, spinning, before>>

\* The key "lockedBlock" is not found, and log.Fatal ends the program: monitors
\* and timers are gone, and what the replica is sent is lost.
EndProgram(r) ==
  /\ StartsRecovery(r, "ended")
  /\ RecoverValue(r).lockedBlock = NoBlock
  /\ curStatus' = [curStatus EXCEPT ![r] = "RECOVERING"]
  /\ monitor' = [monitor EXCEPT ![r] = [v \in Views |-> "off"]]
  /\ timers' = [timers EXCEPT ![r] = {}]
  /\ reqHash' = [reqHash EXCEPT ![r] = "none"]
  /\ UNCHANGED <<view, Sequence, chainVars, awaitingBlocks,
                 awaitingDecisionCopy, receivedBlocksSet, voteVars, clientVars,
                 net, vcVars, recBuffer, recPrepared, spinning, store, before>>

RecoverFromDisk(r) ==
  /\ RecMode = "RecFromDisk"
  /\ PersistLevel = "PersistCritical"
  /\ RestoreFromDisk(r) \/ EndProgram(r)

\* The code starts a RequestMonitor of view 0 whether or not one from before the
\* sleep still runs: two of one view are one here.
NoRecovery(r) ==
  /\ RecMode = "NoRec"
  /\ StartsRecovery(r, "done")
  /\ curStatus' = [curStatus EXCEPT ![r] = "READY"]
  /\ MonitorGoto(r, 0, "wait")
  /\ reqHash' = [reqHash EXCEPT ![r] = "none"]
  /\ UNCHANGED <<view, Sequence, chainVars, awaitingBlocks,
                 awaitingDecisionCopy, receivedBlocksSet, voteVars, clientVars,
                 timers, net, vcVars, recBuffer, recPrepared, spinning, store,
                 before>>

RecoveryProcess(r) == RecoverKoala2(r) \/ RecoverFromDisk(r) \/ NoRecovery(r)

----------------------------------------------------------------------------
(* The handlers of REC1, ECHO1, REC2 and ECHO2.                            *)

\* The view is the one before, whose TQC proves that it is over.
HandleRec1Msg(m) ==
  LET r == m.dst
      v == view[r] - 1
      ids == IF v \in Views THEN timeoutBuffer[r][v] ELSE {}
  IN  /\ m.type = "REC1"
      /\ net' = (net \ {m}) \cup {Echo1Msg(r, m.src, v, ids)}
      /\ UNCHANGED <<view, curStatus, Sequence, chainVars, awaitingBlocks,
                     awaitingDecisionCopy, receivedBlocksSet, voteVars,
                     clientVars, monitor, timers, vcVars, sleepVars>>

\* VerifyTQC: nothing is over before view 0.
VerifyTQC(v, ids) == v < 0 \/ TimeoutQuorum(ids)

\* The early returns of HandleEcho1Msg and HandleEcho2Msg.  (ECHO2 has been
\* merged by then.)
Unexpected(r, m) ==
  \/ curStatus[r] # "RECOVERING"
  \/ m.hash # reqHash[r]
  \/ m.hash \in recPrepared[r]
  \/ m.type = "ECHO1" /\ ~VerifyTQC(m.view, m.ids)

\* This answer is the last one needed.
Completes(r, q) == recBuffer[r][q] + 1 >= RecQuorum

IgnoreEcho1(m) ==
  /\ m.type = "ECHO1"
  /\ ~spinning[m.dst]
  /\ Unexpected(m.dst, m)
  /\ net' = net \ {m}
  /\ UNCHANGED <<view, curStatus, Sequence, chainVars, awaitingBlocks,
                 awaitingDecisionCopy, receivedBlocksSet, voteVars, clientVars,
                 monitor, timers, vcVars, sleepVars>>

\* The last ECHO1 makes the handler spin, with recLock held, until SendRec2.
HandleEcho1Msg(m) ==
  LET r == m.dst
  IN  /\ m.type = "ECHO1"
      /\ ~spinning[r]
      /\ ~Unexpected(r, m)
      /\ hView' = [hView EXCEPT ![r] = Larger(@, m.view)]
      /\ recBuffer' = [recBuffer EXCEPT ![r]["REC1"] = @ + 1]
      /\ IF Completes(r, "REC1")
           THEN /\ recPrepared' = [recPrepared EXCEPT ![r] = @ \cup {"REC1"}]
                /\ spinning' = [spinning EXCEPT ![r] = TRUE]
           ELSE UNCHANGED <<recPrepared, spinning>>
      /\ net' = net \ {m}
      /\ UNCHANGED <<view, curStatus, Sequence, chainVars, awaitingBlocks,
                     awaitingDecisionCopy, receivedBlocksSet, voteVars,
                     clientVars, monitor, timers, vcVars, sleepProc, reqHash,
                     store, before>>

\* Variant for a mutant: the loop ends one view too early.
PassedAlmost(r) == view[r] > hView[r] + 1

\* The loop of HandleEcho1Msg ends.
Passed(r) == view[r] > hView[r] + 2

SendRec2(r) ==
  /\ spinning[r]
  /\ Passed(r)
  /\ spinning' = [spinning EXCEPT ![r] = FALSE]
  /\ reqHash' = [reqHash EXCEPT ![r] = "REC2"]
  /\ net' = net \cup { Rec2Msg(r, d, view[r]) : d \in Others(r) }
  /\ UNCHANGED <<view, curStatus, Sequence, chainVars, awaitingBlocks,
                 awaitingDecisionCopy, receivedBlocksSet, voteVars, clientVars,
                 monitor, timers, vcVars, sleepProc, hView, recBuffer,
                 recPrepared, store, before>>

\* The handler spins until the local view has caught up: it is delivered then.
HandleRec2Msg(m) ==
  LET r == m.dst
  IN  /\ m.type = "REC2"
      /\ view[r] >= m.view
      /\ net' = (net \ {m}) \cup
           {Echo2Msg(r, m.src, curBlock[r], lockedBlock[r], committedBlocks[r])}
      /\ UNCHANGED <<view, curStatus, Sequence, chainVars, awaitingBlocks,
                     awaitingDecisionCopy, receivedBlocksSet, voteVars,
                     clientVars, monitor, timers, vcVars, sleepVars>>

\* HandleEcho2Msg adds committed blocks before it looks at anything else.
Merged(r, com) ==
  [h \in Heights |-> IF committedBlocks[r][h] = NoBlock THEN com[h]
                                                       ELSE committedBlocks[r][h]]

\* Variant for a mutant: the later block, whatever its height.
HigherByView(mine, qc) == IF qc.hash # NilHash /\ qc.view > mine.view THEN qc ELSE mine

\* The higher of a block of this replica and the one it is told of.
Higher(mine, qc) == IF qc.hash # NilHash /\ qc.height > mine.height THEN qc ELSE mine

LateEcho2(m) ==
  LET r == m.dst
  IN  /\ m.type = "ECHO2"
      /\ ~spinning[r]
      /\ Unexpected(r, m)
      /\ committedBlocks' = [committedBlocks EXCEPT ![r] = Merged(r, m.com)]
      /\ net' = net \ {m}
      /\ UNCHANGED <<view, curStatus, Sequence, curBlock, lockedBlock, curHash,
                     awaitingBlocks, awaitingDecisionCopy, receivedBlocksSet,
                     voteVars, clientVars, monitor, timers, vcVars, sleepVars>>

HandleEcho2Msg(m) ==
  LET r == m.dst
      qc == Higher(curBlock[r], m.qc)
  IN  /\ m.type = "ECHO2"
      /\ ~spinning[r]
      /\ ~Unexpected(r, m)
      /\ committedBlocks' = [committedBlocks EXCEPT ![r] = Merged(r, m.com)]
      /\ curBlock' = [curBlock EXCEPT ![r] = qc]
      /\ Sequence' = [Sequence EXCEPT ![r] = Larger(@, qc.height)]
      /\ lockedBlock' = [lockedBlock EXCEPT ![r] = Higher(@, m.lqc)]
      /\ recBuffer' = [recBuffer EXCEPT ![r]["REC2"] = @ + 1]
      /\ IF Completes(r, "REC2")
           THEN /\ recPrepared' = [recPrepared EXCEPT ![r] = @ \cup {"REC2"}]
                /\ curStatus' = [curStatus EXCEPT ![r] = "READY"]
           ELSE UNCHANGED <<recPrepared, curStatus>>
      /\ net' = net \ {m}
      /\ UNCHANGED <<view, curHash, awaitingBlocks, awaitingDecisionCopy,
                     receivedBlocksSet, voteVars, clientVars, monitor, timers,
                     vcVars, sleepProc, reqHash, hView, spinning, store, before>>

HandleRecMsg(m) ==
  \/ HandleRec1Msg(m)
  \/ IgnoreEcho1(m)
  \/ HandleEcho1Msg(m)
  \/ HandleRec2Msg(m)
  \/ LateEcho2(m)
  \/ HandleEcho2Msg(m)

\* viewChangeInRecovery: a TQC takes a recovering replica to the next view and
\* nothing else.
RecoveringTQC(m) ==
  LET r == m.dst
      known == m.view \in tqcPrepared[r]
  IN  /\ m.type = "TQC"
      /\ curStatus[r] = "RECOVERING"
      /\ ~IgnoresVCMsg(r, m)
      /\ TimeoutQuorum(m.ids)
      /\ view' = [view EXCEPT ![r] = m.view + 1]
      /\ IF known
           THEN net' = net \ {m} /\ UNCHANGED <<timeoutBuffer, tqcPrepared>>
           ELSE /\ net' = (net \ {m}) \cup { [m EXCEPT !.dst = d] : d \in Others(r) }
                /\ timeoutBuffer' = [timeoutBuffer EXCEPT ![r][m.view] = m.ids]
                /\ tqcPrepared' = [tqcPrepared EXCEPT ![r] = @ \cup {m.view}]
      /\ WriteThrough({})
      /\ UNCHANGED <<curStatus, Sequence, chainVars, awaitingBlocks,
                     awaitingDecisionCopy, receivedBlocksSet, voteVars,
                     clientVars, monitor, timers, vcBuffer, vcPrepared,
                     sleepProc, recVars, before>>

----------------------------------------------------------------------------
(* HandleQCByteMsg, the timers and the monitors look at the status first.  *)

\* Variant for a mutant: a recovering replica takes part in the normal case.
AdmitsNormalCase(m) ==
  LET status == curStatus[m.dst]
  IN  /\ ~Ended(m.dst)
      /\ status # "SLEEPING"
      /\ status = "RECOVERING" => m.type \in {"QC", "ECHO1", "ECHO2", "TQC"}

Admits(m) ==
  LET status == curStatus[m.dst]
  IN  /\ ~Ended(m.dst)
      /\ status # "SLEEPING"
      /\ status = "RECOVERING" => m.type \in {"ECHO1", "ECHO2", "TQC"}

DropMsg(m) ==
  /\ ~Admits(m)
  /\ net' = net \ {m}
  /\ UNCHANGED <<view, curStatus, Sequence, chainVars, awaitingBlocks,
                 awaitingDecisionCopy, receivedBlocksSet, voteVars, clientVars,
                 monitor, timers, vcVars, sleepVars>>

DispatchNormal(m) ==
  /\ Admits(m)
  /\ HandleQCByteMsg(m)
  /\ WriteThrough(IF Locks(m) THEN {m.dst} ELSE {})
  /\ UNCHANGED <<vcVars, sleepProc, recVars, before>>

DispatchVC(m) ==
  /\ Admits(m)
  /\ m.type = "TQC" /\ curStatus[m.dst] = "RECOVERING" => IgnoresVCMsg(m.dst, m)
  /\ HandleVCMsg(m)
  /\ WriteThrough({})
  /\ UNCHANGED <<sleepProc, recVars, before>>

DispatchRec(m) == Admits(m) /\ (HandleRecMsg(m) \/ RecoveringTQC(m))

\* Variant for a mutant: only a sleeping replica ignores its timers.
TimersRunInRecovery(r) == curStatus[r] # "SLEEPING"

TimersRun(r) == ~Down(r)

SleepyTimeout(r, v) ==
  /\ TimersRun(r)
  /\ TimeoutHandler(r, v)
  /\ WriteThrough({})
  /\ UNCHANGED <<sleepProc, recVars, before>>

\* A timer that fires meanwhile is gone.
TimerLost(r, v) ==
  /\ ~TimersRun(r)
  /\ v \in timers[r]
  /\ timers' = [timers EXCEPT ![r] = @ \ {v}]
  /\ UNCHANGED <<view, curStatus, Sequence, chainVars, awaitingBlocks,
                 awaitingDecisionCopy, receivedBlocksSet, voteVars, clientVars,
                 monitor, net, vcVars, sleepVars>>

SleepyMonitor(r, v) ==
  /\ ~(MonitorAt(r, v, "gate") /\ curStatus[r] = "SLEEPING")
  /\ RequestMonitor(r, v)
  /\ UNCHANGED <<vcVars, sleepVars>>

\* RequestMonitor returns when it finds its replica asleep.
MonitorSleeps(r, v) ==
  /\ MonitorAt(r, v, "gate")
  /\ curStatus[r] = "SLEEPING"
  /\ MonitorGoto(r, v, "off")
  /\ UNCHANGED <<view, curStatus, Sequence, chainVars, awaitingBlocks,
                 awaitingDecisionCopy, receivedBlocksSet, voteVars, clientVars,
                 timers, net, vcVars, sleepVars>>

SleepyRequest(r, req) ==
  /\ ~Ended(r)
  /\ HandleRequest(r, req)
  /\ UNCHANGED <<vcVars, sleepVars>>

----------------------------------------------------------------------------

InitSleep ==
  /\ sleepProc = [r \in Replicas |-> "awake"]
  /\ reqHash = [r \in Replicas |-> "none"]
  /\ hView = [r \in Replicas |-> 0]
  /\ recBuffer = [r \in Replicas |-> [q \in Requested |-> 0]]
  /\ recPrepared = [r \in Replicas |-> {}]
  /\ spinning = [r \in Replicas |-> FALSE]
  /\ store = [r \in Replicas |->
                [view |-> 0, lockedBlock |-> NoBlock,
                 committedBlocks |-> [h \in Heights |-> NoBlock]]]
  /\ before = [r \in Replicas |-> [view |-> -1, lock |-> EmptyBlock]]

SleepyInit == VCInit /\ InitSleep

SleepyNext ==
  \/ \E r \in Replicas, v \in Views :
       SleepyMonitor(r, v) \/ MonitorSleeps(r, v) \/ SleepyTimeout(r, v) \/ TimerLost(r, v)
  \/ \E r \in Replicas, req \in Requests : SleepyRequest(r, req)
  \/ \E m \in net : DropMsg(m) \/ DispatchNormal(m) \/ DispatchVC(m) \/ DispatchRec(m)
  \/ \E r \in Replicas :
       FallAsleep(r) \/ WakeUp(r) \/ RecoveryProcess(r) \/ SendRec2(r)

SleepySpec == SleepyInit /\ [][SleepyNext]_sleepyVars

----------------------------------------------------------------------------
(* Properties of sleep and recovery.                                       *)

Recovered(r) == sleepProc[r] = "done" /\ ~Down(r)

\* Every variable of recovery stays in the domain the code gives it, and while
\* HandleEcho1Msg waits nothing else ends or restarts the recovery.
SleepTypeOK ==
  /\ \A r \in Replicas :
       spinning[r] => curStatus[r] = "RECOVERING" /\ reqHash[r] = "REC1"
  /\ sleepProc \in [Replicas -> {"awake", "asleep", "woken", "done", "ended"}]
  /\ reqHash \in [Replicas -> Requested \cup {"none"}]
  /\ hView \in [Replicas -> -2..MaxView]
  /\ recBuffer \in [Replicas -> [Requested -> 0..N]]
  /\ recPrepared \in [Replicas -> SUBSET Requested]
  /\ spinning \in [Replicas -> BOOLEAN]
  /\ LET certs == [view: Views, height: Nat, hash: Hashes, ids: SUBSET Replicas]
     IN  /\ store \in [Replicas ->
                        [view: Views, lockedBlock: certs \cup {NoBlock},
                         committedBlocks: [Heights -> certs \cup {NoBlock}]]]
         /\ before \in [Replicas -> [view: Views \cup {-1}, lock: certs]]

\* A replica that recovered with REC1 and REC2 is in a later view than the one
\* it fell asleep in, so it cannot vote twice in one view: this is what the loop
\* of HandleEcho1Msg, with its hView + 2, waits for.
RecoversInNewView ==
  \A r \in Replicas : Recovered(r) /\ RecMode = "RecKoala2" =>
    view[r] > before[r].view

\* A replica forgets its lock when it sleeps; what it gets back, from a quorum of
\* ECHO2 or from the database, is at least as high as that lock was.  The
\* database fails it only when there was no lock to get back: a replica that falls
\* asleep before it first locks finds none, and its program ends.
RecoversItsLock ==
  \A r \in Replicas :
    /\ Recovered(r) /\ RecMode # "NoRec" =>
         curBlock[r].height >= before[r].lock.height
    /\ Ended(r) => before[r].lock = EmptyBlock

\* When a replica votes again, it knows the parent of every block that its
\* earlier votes helped to certify, although it has forgotten those votes.
RecoversItsVotes ==
  \A r \in Replicas, c \in Certificates :
    Recovered(r) /\ RecMode = "RecKoala2" /\ r \in c.ids /\ c.view <= before[r].view =>
      curBlock[r].height >= c.height - 1

\* Neither a timer set before nor a message or monitor left from then makes a
\* replica take part while it sleeps or recovers.
SilentStep ==
  \A r \in Replicas : Down(r) /\ Down(r)' =>
    \A m \in net' \ net : m.src = r =>
      m.type \notin {"QC", "QCREP", "TIMEOUT", "VIEWCHANGE"}

SilentUntilRecovered == [][SilentStep]_sleepyVars
=============================================================================
