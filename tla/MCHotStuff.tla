----------------------------- MODULE MCHotStuff -----------------------------
(***************************************************************************)
(* Small instances of HotStuff for TLC.                                    *)
(***************************************************************************)
EXTENDS HotStuffLedger, SequencesExt

\* The followers of view 0 never propose: start where the requests have
\* reached them and their monitors are gone, so that TLC explores the delays
\* of proposals and votes instead of those.
MCInit ==
  /\ InitProtocol
  /\ monitor = [r \in Replicas |->
                  [v \in Views |-> IF v = 0 /\ r = 0 THEN "wait" ELSE "off"]]
  /\ pending = [r \in Replicas |-> IF r = 0 THEN Requests ELSE {}]
  /\ queue = [r \in Replicas |-> IF r = 0 THEN << >> ELSE SetToSeq(Requests)]

MCSpec == MCInit /\ [][Next]_vars

MCFairSpec == MCSpec /\ Fairness
=============================================================================
