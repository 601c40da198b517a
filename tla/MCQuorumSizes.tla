---------------------------- MODULE MCQuorumSizes ----------------------------
(***************************************************************************)
(* QuorumSizes for TLC, to look for a recovery without a quorum: every     *)
(* small configuration that is to tolerate a fault.                        *)
(***************************************************************************)
EXTENDS QuorumSizes

MCNums     == 1..16
MCFaults   == 1..3
MCSleepers == 0..3
=============================================================================
