----------------------------- MODULE MCSleepyRec -----------------------------
(***************************************************************************)
(* Small instances of SleepyRec for TLC: the schedules below only choose   *)
(* which enabled step comes next, so that one replica sleeps and recovers  *)
(* at any point of what the others do, without the orders of steps that    *)
(* have nothing to do with it.                                             *)
(***************************************************************************)
EXTENDS SleepyRec, SequencesExt

\* Every replica has the client's requests.
MCSleepyInit ==
  /\ InitProtocol
  /\ InitMonitors
  /\ InitViewChange
  /\ InitSleep
  /\ pending = [r \in Replicas |-> {}]
  /\ queue = [r \in Replicas |-> SetToSeq(Requests)]

----------------------------------------------------------------------------
(* Steps that go first.                                                    *)

\* Messages whose handler returns at once, now and ever after.  A replica that
\* sleeps or recovers does so with most of them, but only until it is READY.
Over(m) ==
  \/ /\ m.type \in {"QC", "QCREP", "VIEWCHANGE", "TIMEOUT", "TQC"}
     /\ m.view < view[m.dst]
     /\ m.dst \in Sleepers /\ sleepProc[m.dst] # "done" => m.type # "TQC"
  \/ m.type = "QCREP" /\ m.hash \in prepared[m.dst]
  \/ m.type = "VIEWCHANGE" /\ m.view \in vcPrepared[m.dst]
  \/ m.type = "TIMEOUT" /\ m.view \in tqcPrepared[m.dst]

\* One TQC of a view is as good as another.
Spare(m) ==
  /\ m.type = "TQC"
  /\ \E x \in net : /\ x.type = "TQC"
                   /\ x.dst = m.dst
                   /\ x.view = m.view
                   /\ x.src < m.src

DeadMsgs == { m \in net : Over(m) /\ (Down(m.dst) => m.type = "TQC") }

\* Monitors whose view is over.
DeadMonitors ==
  { rv \in Replicas \X Views : MonitorAt(rv[1], rv[2], "top") /\ rv[2] # view[rv[1]] }

DeadFirst ==
  LET dead == DeadMsgs
      over == DeadMonitors
  IN  IF dead # {} THEN net' = net \ {CHOOSE m \in dead : TRUE}
      ELSE over # {} => LET rv == CHOOSE x \in over : TRUE
                        IN  monitor'[rv[1]][rv[2]] = "off"

Settled == DeadMsgs = {} /\ DeadMonitors = {}

\* A recovery goes on as soon as it can.
RecoveryRuns ==
  \/ \E r \in Replicas : spinning[r] /\ Passed(r)
  \/ \E m \in net : m.type \in {"ECHO1", "ECHO2"} /\ ~spinning[m.dst]

RecoveryFirst ==
  IF \E r \in Replicas : spinning[r] /\ Passed(r)
    THEN spinning' # spinning
    ELSE \E m \in net \ net' : m.type \in {"ECHO1", "ECHO2"}

\* What a replica sleeps through does not matter here: it wakes up at once.
Napping == \E r \in Replicas : sleepProc[r] \in {"asleep", "woken"}
WakesFirst ==
  \A r \in Replicas : sleepProc[r] \in {"asleep", "woken"} => sleepProc'[r] # sleepProc[r]

\* What a replica drops may as well stay in the network, and so may a spare TQC.
NoDrop == \A m \in net \ net' : Admits(m) /\ ~Spare(m)

\* A monitor that can do something does it, but leaders may be too slow to
\* propose before the view is over.
MonitorRuns(r, v, proposing) ==
  \/ MonitorAt(r, v, "wait")
  \/ proposing /\ \/ MonitorAt(r, v, "top") /\ v = view[r] /\ MayPropose(r)
                  \/ MonitorAt(r, v, "gate") /\ MayPropose(r)
                  \/ MonitorAt(r, v, "claim") /\ Sequence[r] < MaxSeq
                  \/ MonitorAt(r, v, "propose")

MonitorsRun(proposing) == \E r \in Replicas, v \in Views : MonitorRuns(r, v, proposing)

\* A monitor that does not propose waits at the top of its loop.
NoIdle(proposing) ==
  \A r \in Replicas, v \in Views :
    MonitorAt(r, v, "top") /\ ~(proposing /\ MayPropose(r)) => monitor'[r][v] # "gate"

OwnMessagesFirst ==
  (\E m \in net : m.src = m.dst /\ m.type # "TQC") => \A m \in net \ net' : m.src = m.dst

ProposalsInOrder ==
  LET handled == { m \in net \ net' : m.type = "QC" }
  IN  handled # {} =>
        \A m \in handled, x \in net :
          x.type = "QC" /\ m.dst = x.dst => m.seq <= x.seq

\* Messages of the types in prompt are handled before others and one by one.
Scheduled(prompt, proposing) ==
  LET first == { m \in net : m.type \in prompt /\ Admits(m) }
  IN  /\ NoDrop
      /\ NoIdle(proposing)
      /\ IF MonitorsRun(proposing) THEN monitor' # monitor
         ELSE IF first # {} THEN (CHOOSE m \in first : TRUE) \notin net'
         ELSE OwnMessagesFirst /\ ProposalsInOrder

RecoveryScheduled(prompt, proposing) ==
  IF Napping THEN WakesFirst
  ELSE /\ DeadFirst
       /\ Settled => IF RecoveryRuns THEN RecoveryFirst ELSE Scheduled(prompt, proposing)

AllAwake == \A r \in Sleepers : sleepProc[r] = "awake"
\* Replicas that do not sleep are alike: their timers fire in order.
TimersInOrder ==
  \A r, s \in Replicas \ Sleepers :
    r < s => (timers[s] \ timers'[s]) \cap timers[r] = {}

OnlyTimersOf(views) == \A r \in Replicas : timers[r] \ views \subseteq timers'[r]

----------------------------------------------------------------------------
(* The schedules of the instances.                                         *)

\* The sleeper falls asleep in view 0 or 1, while views are changed.
ViewSchedule ==
  /\ AllAwake => OnlyTimersOf({0})
  /\ TimersInOrder
  /\ RecoveryScheduled({"TIMEOUT", "VIEWCHANGE"}, FALSE)

\* The sleeper falls asleep in view 0, while blocks are proposed and certified;
\* then the others change views as they like.
BlockSchedule ==
  /\ AllAwake => OnlyTimersOf({})
  /\ RecoveryScheduled({"TIMEOUT", "TQC", "REC1"}, TRUE)

\* What the sleeper does after its recovery is no longer looked at.
NotRecovered == \A r \in Sleepers : ~Recovered(r) /\ ~Ended(r)
=============================================================================
