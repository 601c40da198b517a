------------------------------ MODULE MCReplica ------------------------------
(***************************************************************************)
(* Small instances, for TLC, of the parts of one replica that have a state *)
(* of their own, of the sizes of quorums, and of the recoveries that do    *)
(* not ask others (MCRecovery has the one that does).  They share no       *)
(* variable that one of them changes, so that a behaviour is one of the    *)
(* part that was chosen at its start, and the others rest.                 *)
(***************************************************************************)
EXTENDS TimeoutBuffer, VoteBuffer, ClientSender, RequestQueue, BlockOutput,
        QuorumSizes

CONSTANT Reqs

VARIABLES
  part,
  \* SleepyRec
  sView, sStatus, sSequence, curBlock, lockedBlock, curHash, sAwaiting,
  awaitingDecisionCopy, sCommitted, receivedBlocksSet, votes, sPrepared,
  sQueue, monitor, timers, pending, net, vcBuffer, vcPrepared, timeoutBuffer,
  sTQCs, sleepProc, reqHash, hView, recBuffer, recPrepared, spinning,
  store, before,
  \* ThreshPRF
  ra, C, keyFiles, shareFiles, prf

\* Replica 2 sleeps and recovers from its database.
Disk == INSTANCE MCSleepyRec WITH
  N <- 3, QuorumSize <- 2, RecQuorum <- 2, Requests <- Reqs, MaxBatch <- 1,
  MaxSeq <- 3, MaxView <- 1, ViewChangeMode <- TRUE, PersistLevel <- "PersistCritical",
  Sleepers <- {2}, SleepSeq <- 0, RecMode <- "RecFromDisk",
  view <- sView, curStatus <- sStatus, Sequence <- sSequence,
  awaitingBlocks <- sAwaiting, prepared <- sPrepared, tqcPrepared <- sTQCs,
  committedBlocks <- sCommitted, queue <- sQueue

\* It does not recover, and its clients still send: no schedule is imposed.
Amnesia == INSTANCE MCSleepyRec WITH
  N <- 3, QuorumSize <- 1, RecQuorum <- 1, Requests <- Reqs, MaxBatch <- 1,
  MaxSeq <- 1, MaxView <- 0, ViewChangeMode <- TRUE, PersistLevel <- "NoPersist",
  Sleepers <- {2}, SleepSeq <- 0, RecMode <- "NoRec",
  view <- sView, curStatus <- sStatus, Sequence <- sSequence,
  awaitingBlocks <- sAwaiting, prepared <- sPrepared, tqcPrepared <- sTQCs,
  committedBlocks <- sCommitted, queue <- sQueue

\* The sending side of a replica, with less failures than that of a client.
Sending == INSTANCE Transport WITH MaxFailures <- 5

\* Three of four participants, with a key and shares below 5.
PRF == INSTANCE ThreshPRF WITH
  Order <- 5, n <- 4, k <- 3, Inputs <- {2}, Nonces <- {1, 3}, Challenges <- {0, 3}

\* For the cfg: blocks of which votes are collected.
TwoBlocks == <<1, 2>>

\* Blocks that are written.  The second repeats a transaction of the first, and its
\* coinbase was made in the millisecond of the other one there.
TwoBodies == << <<1, 2>>, <<2, 3>> >>
Milliseconds == <<1, 2, 1>>

\* Every small configuration.
MCNums == 1..16
MCFaults == 0..3

----------------------------------------------------------------------------

recoveryVars ==
  <<sView, sStatus, sSequence, curBlock, lockedBlock, curHash, sAwaiting,
    awaitingDecisionCopy, sCommitted, receivedBlocksSet, votes, sPrepared,
    sQueue, monitor, timers, pending, net, vcBuffer, vcPrepared, timeoutBuffer,
    sTQCs, sleepProc, reqHash, hView, recBuffer, recPrepared, spinning,
    store, before>>
prfVars == <<ra, C, keyFiles, shareFiles, prf>>
vars == <<part, recoveryVars, bufferVars, voteVars, clientVars, queueVars,
          outputVars, sizesVars, prfVars>>

MCInit ==
  /\ part \in {"disk", "amnesia", "timeouts", "voting", "sending", "client",
              "requesting", "output", "sizes", "prf"}
  /\ IF part = "amnesia" THEN Amnesia!SleepyInit ELSE Disk!MCSleepyInit
  /\ BufferInit
  /\ VoteInit
  /\ ClientInit
  /\ QueueInit
  /\ OutputInit
  /\ PRF!PRFInit
  /\ part # "prf" => ra = [j \in 0..2 |-> 0]
  /\ IF part = "sizes" THEN conf \in Configs ELSE conf = CHOOSE c \in Configs : TRUE
  /\ SizesInit

RecoveryStep ==
  /\ \/ part = "disk" /\ Disk!SleepyNext
     \/ part = "amnesia" /\ Amnesia!SleepyNext
  /\ UNCHANGED <<bufferVars, voteVars, clientVars, queueVars, outputVars,
                 sizesVars, prfVars>>

TimeoutStep ==
  /\ part = "timeouts"
  /\ BufferNext
  /\ UNCHANGED <<recoveryVars, voteVars, clientVars, queueVars, outputVars,
                 sizesVars, prfVars>>

VoteStep ==
  /\ part = "voting"
  /\ VoteNext
  /\ UNCHANGED <<recoveryVars, bufferVars, clientVars, queueVars, outputVars,
                 sizesVars, prfVars>>

SendStep ==
  /\ \/ part = "sending" /\ Sending!TransportNext /\ UNCHANGED nodes
     \/ part = "client" /\ ClientNext
  /\ UNCHANGED <<recoveryVars, bufferVars, voteVars, queueVars, outputVars,
                 sizesVars, prfVars>>

QueueStep ==
  /\ part = "requesting"
  /\ QueueNext
  /\ UNCHANGED <<recoveryVars, bufferVars, voteVars, clientVars, outputVars,
                 sizesVars, prfVars>>

PRFStep ==
  /\ part = "prf"
  /\ PRF!PRFNext
  /\ UNCHANGED <<recoveryVars, bufferVars, voteVars, clientVars, queueVars, outputVars,
                 sizesVars>>

OutputStep ==
  /\ part = "output"
  /\ OutputNext
  /\ UNCHANGED <<recoveryVars, bufferVars, voteVars, clientVars, queueVars, sizesVars,
                 prfVars>>

SizesStep ==
  /\ part = "sizes"
  /\ SizesNext
  /\ UNCHANGED <<recoveryVars, bufferVars, voteVars, clientVars, queueVars, outputVars,
                 prfVars>>

MCNext ==
  /\ UNCHANGED part
  /\ \/ RecoveryStep \/ TimeoutStep \/ VoteStep
     \/ SendStep \/ QueueStep \/ OutputStep \/ SizesStep \/ PRFStep

MCSpec == MCInit /\ [][MCNext]_vars

\* Inside a block a writer touches nothing that others see: it goes on at once.  Which
\* goroutine saves first does not matter either.
Inside(w) == Reading(w) /\ ~Getting(w)
Saving == { s \in Savers : savers[s].pc = "read" /\ Inside(savers[s].w) }

LinesFirst ==
  IF handler = "printing" /\ Inside(printer) THEN printer' # printer
  ELSE Saving # {} => LET s == CHOOSE s \in Saving : TRUE IN savers'[s] # savers[s]

SaversInOrder ==
  \A s, t \in Savers : s < t /\ savers'[s].pc = "none" => savers'[t].pc = "none"

\* The schedule of MCSleepyRec; a recovered replica is no longer followed.
Scheduled ==
  /\ part = "disk" => Disk!BlockSchedule
  /\ part = "output" => LinesFirst /\ SaversInOrder

\* ECHO2 messages bring one block at a time, not the one everybody has.
Followed ==
  /\ part = "disk" => Disk!NotRecovered
  /\ part = "output" => merging \in {{}, {1}, {2}}

----------------------------------------------------------------------------
(* The properties of the parts that are instances, by the names they have  *)
(* there.                                                                  *)

\* RecoversItsLock of SleepyRec: it knows blocks as high as the lock it had.
RecoversItsLock == part = "disk" => Disk!RecoversItsLock

\* OnePRF of ThreshPRF: whoever answers, the value is that of the dealer's key.
OnePRF == part = "prf" => PRF!OnePRF

\* VerifiedSharesAreRight of ThreshPRF: shares of other keys are refused.
VerifiedSharesAreRight == part = "prf" => PRF!VerifiedSharesAreRight

\* ThresholdIsK of ThreshPRF: k keys say everything, fewer nothing.
ThresholdIsK == part = "prf" => PRF!ThresholdIsK
=============================================================================
