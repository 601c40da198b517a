------------------------------- MODULE Ledger -------------------------------
(***************************************************************************)
(* What the replicas of one view promise their clients: there is one       *)
(* ledger, which only grows, block by block, and what a replica outputs at *)
(* a height is the ledger up to that height, once two more blocks are on   *)
(* top.  A replica may output late, leave heights out, or never output.    *)
(***************************************************************************)
EXTENDS Integers, Sequences

CONSTANTS
  Replicas,
  Entries     \* what a block may be

VARIABLES
  ledger,     \* the blocks that have a certificate
  output      \* replica -> height -> the chain it output there

ledgerVars == <<ledger, output>>

LedgerInit ==
  /\ ledger = << >>
  /\ output = [r \in Replicas |-> [h \in {} |-> << >>]]

\* One block on top.
Certify ==
  /\ ledger' \in Seq(Entries)
  /\ Len(ledger') = Len(ledger) + 1
  /\ SubSeq(ledger', 1, Len(ledger)) = ledger
  /\ UNCHANGED output

Output(r, h) ==
  /\ h \notin DOMAIN output[r]
  /\ h >= 1 /\ h + 2 <= Len(ledger)
  /\ output' = [output EXCEPT ![r] =
                  [g \in DOMAIN output[r] \cup {h} |->
                     IF g = h THEN SubSeq(ledger, 1, h) ELSE output[r][g]]]
  /\ UNCHANGED ledger

LedgerNext == Certify \/ \E r \in Replicas : \E h \in 1..Len(ledger) : Output(r, h)

LedgerSpec == LedgerInit /\ [][LedgerNext]_ledgerVars

----------------------------------------------------------------------------

\* What was output is the ledger up to that height, however it has grown since.
Prefixes ==
  /\ ledger \in Seq(Entries)
  /\ output = [r \in Replicas |-> output[r]]
  /\ \A r \in Replicas :
       /\ output[r] = [h \in DOMAIN output[r] |-> output[r][h]]
       /\ \A h \in DOMAIN output[r] :
            /\ h \in 1..Len(ledger)
            /\ output[r][h] = SubSeq(ledger, 1, h)

\* What follows for clients: two outputs at one height are the same chain.
OneOutput ==
  \A r, s \in Replicas : \A h \in DOMAIN output[r] \cap DOMAIN output[s] :
    output[r][h] = output[s][h]
=============================================================================
