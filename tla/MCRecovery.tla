------------------------------ MODULE MCRecovery ------------------------------
(***************************************************************************)
(* Small instances, for TLC, of recovery from the answers of others        *)
(* (RecKoala2): one of three replicas sleeps, either while blocks are      *)
(* proposed or, without blocks, in any view.  What it does after its       *)
(* recovery is not followed.                                               *)
(***************************************************************************)
EXTENDS MCSleepyRec

VARIABLE
  part   \* "blocks", or "views" when no leader gets to propose

MCInit == MCSleepyInit /\ part \in {"blocks", "views"}

MCNext == SleepyNext /\ UNCHANGED part

MCSpec == MCInit /\ [][MCNext]_<<sleepyVars, part>>

\* How the steps are ordered.
Scheduling == IF part = "views" THEN ViewSchedule ELSE BlockSchedule
=============================================================================
