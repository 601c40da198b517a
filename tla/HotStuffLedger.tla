--------------------------- MODULE HotStuffLedger ---------------------------
(***************************************************************************)
(* HotStuff implements Ledger.  The ledger is the chain below the highest  *)
(* certificate of the leader of view 0, who makes them all; the output of  *)
(* a replica is its committedBlocks, a block being the chain it ends.      *)
(* (The empty block that ProcessQCInfo may commit at height 0 is none.)    *)
(***************************************************************************)
EXTENDS HotStuff

CertifiedChain == curBlock[0].hash

CommittedHeights(r) == { h \in Seqs : Committed(r, h) }

CommittedChains ==
  [r \in Replicas |-> [h \in CommittedHeights(r) |-> committedBlocks[r][h].hash]]

Promise == INSTANCE Ledger WITH
  Entries <- [seq: Seqs, ops: Seq(Requests)],
  ledger <- CertifiedChain,
  output <- CommittedChains

\* However proposals and votes are delayed, overtake each other or are lost, each
\* step certifies one block on top of the others, or outputs the ledger at one
\* height of one replica with two blocks on top of it, or shows nothing.
ImplementsLedger == Promise!LedgerSpec
=============================================================================
