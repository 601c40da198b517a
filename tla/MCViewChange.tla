---------------------------- MODULE MCViewChange ----------------------------
(***************************************************************************)
(* Small instances of ViewChange for TLC.                                  *)
(***************************************************************************)
EXTENDS ViewChange, SequencesExt

\* Clients broadcast: start where their requests have reached every replica.
MCInit ==
  /\ InitProtocol
  /\ InitMonitors
  /\ InitViewChange
  /\ pending = [r \in Replicas |-> {}]
  /\ queue = [r \in Replicas |-> SetToSeq(Requests)]

MCSpec == MCInit /\ [][VCNext]_allVars

MCFairSpec == MCSpec /\ VCFairness

\* Messages whose handler returns at once, now and ever after, and monitors whose
\* view is over.  What they have left to do commutes with every other step and
\* no property sees it, so it may as well be done first.
DeadMsgs == { m \in net :
                \/ m.view < view[m.dst]
                \/ m.type = "QCREP" /\ m.hash \in prepared[m.dst]
                \/ m.type = "VIEWCHANGE" /\ m.view \in vcPrepared[m.dst]
                \/ m.type = "TIMEOUT" /\ m.view \in tqcPrepared[m.dst] }

DeadMonitors ==
  { rv \in Replicas \X Views : MonitorAt(rv[1], rv[2], "top") /\ rv[2] # view[rv[1]] }

DeadFirst ==
  LET dead == DeadMsgs
      over == DeadMonitors
  IN  IF dead # {} THEN net' = net \ {CHOOSE m \in dead : TRUE}
      ELSE over # {} => LET rv == CHOOSE x \in over : TRUE
                        IN  monitor'[rv[1]][rv[2]] = "off"

----------------------------------------------------------------------------
(* A coarser schedule for longer runs: what a replica has to do by itself  *)
(* (its monitor, the messages it sends to itself) is done before messages  *)
(* of others are handled or timers fire, and proposals reach a replica in  *)
(* order.  Between those, timers fire at any time.                         *)

MonitorRuns(r, v) ==
  \/ MonitorAt(r, v, "wait")
  \/ MonitorAt(r, v, "top") /\ v = view[r] /\ MayPropose(r)
  \/ MonitorAt(r, v, "gate") /\ MayPropose(r)
  \/ MonitorAt(r, v, "claim") /\ Sequence[r] < MaxSeq
  \/ MonitorAt(r, v, "propose")

MonitorsFirst ==
  (\E r \in Replicas, v \in Views : MonitorRuns(r, v)) => monitor' # monitor

OwnMessagesFirst ==
  (\E m \in net : m.src = m.dst) => \A m \in net \ net' : m.src = m.dst

ProposalsInOrder ==
  LET handled == { m \in net \ net' : m.type = "QC" }
  IN  handled # {} =>
        \A m \in handled, x \in net :
          x.type = "QC" /\ m.dst = x.dst => m.seq <= x.seq

OwnStepsFirst ==
  DeadFirst /\ (DeadMsgs = {} /\ DeadMonitors = {} => MonitorsFirst /\ OwnMessagesFirst)

OwnStepsFirstInOrder ==
  /\ OwnStepsFirst
  /\ DeadMsgs = {} /\ DeadMonitors = {} => ProposalsInOrder
=============================================================================
