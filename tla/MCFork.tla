------------------------------- MODULE MCFork -------------------------------
(***************************************************************************)
(* One schedule of ViewChange, out of the many the network allows, in      *)
(* which two replicas commit different blocks at the same height although  *)
(* nobody crashes, sleeps or lies.  The constraints below only choose      *)
(* which enabled step comes next: every behaviour they leave is one of     *)
(* VCSpec.                                                                 *)
(*                                                                         *)
(*  1. Replica 0 leads view 0 and is the only one to see the certificate   *)
(*     of its second block.                                                *)
(*  2. The others go to view 1; replica 1 leads it and builds another      *)
(*     block of height 2 on the first.                                     *)
(*  3. Replica 0 follows, but the proposals that carry certificates of     *)
(*     height 1 and 2 do not reach it.  The next one makes it lock "the    *)
(*     parent", for which HandleNormalMsg takes its own second block.      *)
(***************************************************************************)
EXTENDS ViewChange, SequencesExt

\* Every replica has the client's requests.
MCInit ==
  /\ InitProtocol
  /\ InitMonitors
  /\ InitViewChange
  /\ pending = [r \in Replicas |-> {}]
  /\ queue = [r \in Replicas |-> SetToSeq(Requests)]

MCSpec == MCInit /\ [][VCNext]_allVars

\* Messages the handler returns from at once, now and ever after: go first.
Dead == { m \in net :
            \/ m.view < view[m.dst]
            \/ m.type = "QCREP" /\ m.hash \in prepared[m.dst]
            \/ m.type = "VIEWCHANGE" /\ m.view \in vcPrepared[m.dst] }

\* Proposals of view 1 the old leader does not get.
Lost == { m \in net : /\ m.type = "QC" /\ m.view = 1 /\ m.dst = 0
                      /\ m.qc.height < 3 }

Live == net \ (Dead \cup Lost)

Rank(m) == IF m.type \in {"QC", "QCREP"} THEN m.seq ELSE 0

NextMsg ==
  IF Dead # {} THEN CHOOSE m \in Dead : TRUE
               ELSE CHOOSE m \in Live : \A x \in Live : Rank(m) <= Rank(x)

InOrder == \A m \in net \ net' : m = NextMsg

\* A monitor that can do something does it before messages are handled.
MonitorRuns(r, v) ==
  \/ MonitorAt(r, v, "wait")
  \/ MonitorAt(r, v, "top") /\ (v = view[r] => MayPropose(r))
  \/ MonitorAt(r, v, "gate") /\ MayPropose(r)
  \/ MonitorAt(r, v, "claim") /\ Sequence[r] < MaxSeq
  \/ MonitorAt(r, v, "propose")

MonitorsFirst ==
  (\E r \in Replicas, v \in Views : MonitorRuns(r, v)) => monitor' # monitor

\* The timers of view 0 fire when replica 0 has its second certificate, and its
\* own fires last, once its successor has made a proposal.
LateTimers ==
  /\ (\E r \in Replicas : view[r] = 1) =>
       /\ curBlock[0].height >= 2
       /\ \A r \in Replicas \ {0} : curBlock[r].height >= 1
  /\ view[0] = 1 => \A r \in Replicas \ {0} : view[r] = 1
  /\ (\E m \in net : m.type = "QC" /\ m.view = 1 /\ m.seq >= 4) => view[0] = 1
=============================================================================
