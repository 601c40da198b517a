---------------------------- MODULE VoteCounting ----------------------------
(***************************************************************************)
(* What HandleNormalRepMsg promises the rest of a replica: a vote is       *)
(* counted at one moment, and the vote that completes a quorum makes the   *)
(* certificate, of the votes that are counted, at that same moment.        *)
(* Nobody else writes the vote buffer.  What others do with the view, the  *)
(* status and the block is left open, but neither view nor height fall.    *)
(* HotStuff and ViewChange take the handler as one step; VoteBuffer has    *)
(* the steps it is made of, and the locks.                                 *)
(***************************************************************************)
EXTENDS Integers, FiniteSets

CONSTANT Quorum

VARIABLES
  view,
  status,     \* "VIEWCHANGE" is the only value that matters here
  block,      \* the highest certificate the replica knows
  votes,      \* the votes that are counted, with the block they are for
  prepared    \* the blocks it has made a certificate of

countingVars == <<view, status, block, votes, prepared>>

Voters(hash) == { x.id : x \in { y \in votes : y.hash = hash } }

CountingInit ==
  /\ view = 0
  /\ status # "VIEWCHANGE"
  /\ block.height = 0
  /\ votes = {}
  /\ prepared = {}

\* Also if it was counted before.
CountVote(vote) ==
  /\ status # "VIEWCHANGE"
  /\ vote.hash \notin prepared
  /\ votes' = votes \cup {vote}
  /\ IF Cardinality(Voters(vote.hash)') >= Quorum
       THEN /\ prepared' = prepared \cup {vote.hash}
            /\ block' = [view |-> view, height |-> block.height + 1,
                         hash |-> vote.hash, ids |-> Voters(vote.hash)']
            /\ status' = "READY"
       ELSE UNCHANGED <<prepared, block, status>>
  /\ UNCHANGED view

\* Proposals, timers, view changes, monitors.
Elsewhere ==
  /\ view' >= view
  /\ block'.height >= block.height
  /\ UNCHANGED <<votes, prepared>>

CountingNext == Elsewhere \/ \E vote \in votes' : CountVote(vote)

CountingSpec == CountingInit /\ [][CountingNext]_countingVars

----------------------------------------------------------------------------

\* A block has its certificate as soon as a quorum of votes for it is counted.
QuorumsCertified ==
  \A vote \in votes : vote.hash \in prepared <=> Cardinality(Voters(vote.hash)) >= Quorum
=============================================================================
