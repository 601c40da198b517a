----------------------------- MODULE BlockOutput -----------------------------
(***************************************************************************)
(* What one replica does with the blocks it commits (hotstuff.go): the     *)
(* handler of a proposal prints the chain, starts a goroutine that writes  *)
(* it to a file, and stores it, while goroutines of earlier commits may    *)
(* still be reading, and while ECHO2 messages add what other replicas have *)
(* committed.                                                              *)
(*                                                                         *)
(* A block is its height.  Clients send a request to every replica and     *)
(* followers keep theirs, so that a later leader proposes it again:        *)
(* whoever writes a chain skips a transaction it has written before.  It   *)
(* knows a transaction by its timestamp: the milliseconds at which a       *)
(* client made it, or a leader the coinbase of a block.                    *)
(***************************************************************************)
EXTENDS Integers, FiniteSets, Sequences

CONSTANTS
  MaxHeight,   \* bound on heights
  Transactions,
  TS,          \* transaction -> its timestamp
  Bodies,      \* height -> the transactions in its block
  Savers,      \* bound: calls of saveCommittedBlocksToFile
  PrintLimit,  \* 10 in outputBlockchain
  Prints,      \* is this one of the double spend tests
  Stores       \* is committedBlocks written to the database

ASSUME OutputAssumption ==
  /\ MaxHeight \in Nat
  /\ \A h \in 1..MaxHeight : Bodies[h] \in Seq(Transactions)

Heights == 0..MaxHeight

VARIABLES
  committedBlocks, \* the heights in the map of that name
  lockedHeight,    \* lockedBlock.Height of the last commit
  merging,         \* the heights at which a HandleEcho2Msg is in Get or Insert
  forcePrint,
  handler,         \* where ProcessQCInfo is
  printer,         \* its call of outputBlockchain
  savers,          \* the goroutines in saveCommittedBlocksToFile
  file             \* what committedBlocks_<id>.json holds

outputVars ==
  <<committedBlocks, lockedHeight, merging, forcePrint, handler, printer, savers, file>>

----------------------------------------------------------------------------
(* The loop both writers have: for i := 1; i <= limit; i++.                *)

\* i and j are the variables of the two loops; j is 0 until Get has found block i.
Writer(limit) ==
  [limit |-> limit, i |-> 1, j |-> 0, tsmap |-> {}, txs |-> << >>,
   out |-> [h \in {} |-> << >>]]

Reading(w) == w.i <= w.limit
Getting(w) == Reading(w) /\ w.j = 0

\* Variant for a mutant: only what this block repeats is skipped.
ForgetfulBlock(w) == [w EXCEPT !.j = 1, !.tsmap = {}]

FoundBlock(w) == [w EXCEPT !.j = 1]
SkipBlock(w) == [w EXCEPT !.i = @ + 1]

GetBlock(w) == IF w.i \in committedBlocks THEN FoundBlock(w) ELSE SkipBlock(w)

\* One round of the inner loop: a transaction is skipped when one of its timestamp was
\* written before.
WriteTransaction(w) ==
  LET tx == Bodies[w.i][w.j]
  IN  IF TS[tx] \in w.tsmap
        THEN [w EXCEPT !.j = @ + 1]
        ELSE [w EXCEPT !.j = @ + 1, !.tsmap = @ \cup {TS[tx]}, !.txs = Append(@, tx)]

\* A block is written with what is left of its transactions, if only an empty list.
WithBlock(out, i, txs) ==
  [h \in DOMAIN out \cup {i} |-> IF h = i THEN txs ELSE out[h]]

WriteBlock(w) ==
  [w EXCEPT !.i = @ + 1, !.j = 0, !.txs = << >>, !.out = WithBlock(@, w.i, w.txs)]

Advance(w) ==
  IF w.j = 0 THEN GetBlock(w)
  ELSE IF w.j <= Len(Bodies[w.i]) THEN WriteTransaction(w)
  ELSE WriteBlock(w)

----------------------------------------------------------------------------
(* IntByteMap is passed to outputBlockchain, and to its own Serialize, by  *)
(* value: the copy has the same map and the mutex as it stands.  A copy    *)
(* made while somebody holds the mutex can never be locked; one that can   *)
(* be locked excludes nobody from the map.                                 *)

InGet(s) ==
  \/ savers[s].pc = "start"
  \/ savers[s].pc = "read" /\ Getting(savers[s].w)

MutexCopied ==
  {FALSE} \cup { TRUE : s \in { s \in Savers : InGet(s) } } \cup { TRUE : h \in merging }

\* ProcessQCInfo: the locked block is committed.  Locks are never lowered, and a
\* lock may be committed twice.
Commit(h) ==
  /\ handler = "idle"
  /\ h >= lockedHeight
  /\ committedBlocks' = committedBlocks \cup {h}
  /\ lockedHeight' = h
  /\ handler' = IF Prints THEN "print" ELSE "save"
  /\ UNCHANGED <<merging, forcePrint, printer, savers, file>>

\* HandleEcho2Msg comes to a block that another replica has committed, under no lock of
\* ProcessQCInfo.
StartMerge(h) ==
  /\ merging' = merging \cup {h}
  /\ UNCHANGED <<committedBlocks, lockedHeight, forcePrint, handler, printer, savers, file>>

\* It leaves that block as it is, or inserts it.
MergeBlock(h) ==
  /\ h \in merging
  /\ committedBlocks' = committedBlocks \cup {h}
  /\ merging' = merging \ {h}
  /\ UNCHANGED <<lockedHeight, forcePrint, handler, printer, savers, file>>

\* It inserts it while ProcessQCInfo reads the map through a copy: Go ends a program
\* that it sees doing so.
MapRace ==
  /\ handler \in {"printing", "store"}
  /\ merging # {}
  /\ handler' = "ended"
  /\ UNCHANGED <<committedBlocks, lockedHeight, merging, forcePrint, printer, savers, file>>

\* outputBlockchain, up to its loop.
StartPrint ==
  /\ handler = "print"
  /\ IF ~forcePrint /\ lockedHeight > PrintLimit
       THEN handler' = "save" /\ UNCHANGED <<forcePrint, printer>>
       ELSE /\ forcePrint' = FALSE
            /\ printer' = Writer(lockedHeight)
            /\ \E locked \in MutexCopied :
                 handler' = IF locked THEN "stuck" ELSE "printing"
  /\ UNCHANGED <<committedBlocks, lockedHeight, merging, savers, file>>

PrintBlock ==
  /\ handler = "printing"
  /\ IF Reading(printer)
       THEN printer' = Advance(printer) /\ UNCHANGED handler
       ELSE handler' = "save" /\ UNCHANGED printer
  /\ UNCHANGED <<committedBlocks, lockedHeight, merging, forcePrint, savers, file>>

\* go saveCommittedBlocksToFile()
StartSaver(s) ==
  /\ handler = "save"
  /\ savers[s].pc = "none"
  /\ savers' = [savers EXCEPT ![s] = [pc |-> "start", known |-> committedBlocks, w |-> @.w]]
  /\ handler' = IF Stores THEN "store" ELSE "idle"
  /\ UNCHANGED <<committedBlocks, lockedHeight, merging, forcePrint, printer, file>>

\* PersistValue("committedBlocks", ...)
Store ==
  /\ handler = "store"
  /\ \E locked \in MutexCopied : handler' = IF locked THEN "stuck" ELSE "idle"
  /\ UNCHANGED <<committedBlocks, lockedHeight, merging, forcePrint, printer, savers, file>>

----------------------------------------------------------------------------
(* saveCommittedBlocksToFile.                                              *)

\* Variant for a mutant: heights start at 0, so the last is one less.
LastIndex == Cardinality(committedBlocks) - 1

\* committedBlocks.GetLen() serves as the highest height.
Length == Cardinality(committedBlocks)

SaverLength(s) ==
  /\ savers[s].pc = "start"
  /\ savers' = [savers EXCEPT ![s] = [pc |-> "read", known |-> @.known, w |-> Writer(Length)]]
  /\ UNCHANGED <<committedBlocks, lockedHeight, merging, forcePrint, handler, printer, file>>

SaverBlock(s) ==
  /\ savers[s].pc = "read"
  /\ savers' = IF Reading(savers[s].w)
                 THEN [savers EXCEPT ![s].w = Advance(@)]
                 ELSE [savers EXCEPT ![s].pc = "write"]
  /\ UNCHANGED <<committedBlocks, lockedHeight, merging, forcePrint, handler, printer, file>>

\* The last to write wins, whenever it started.
SaverWrite(s) ==
  /\ savers[s].pc = "write"
  /\ savers' = [savers EXCEPT ![s].pc = "done"]
  /\ file' = [by |-> s, blocks |-> savers[s].w.out]
  /\ UNCHANGED <<committedBlocks, lockedHeight, merging, forcePrint, handler, printer>>

----------------------------------------------------------------------------

OutputInit ==
  /\ committedBlocks = {}
  /\ lockedHeight = 0
  /\ merging = {}
  /\ forcePrint = TRUE
  /\ handler = "idle"
  /\ printer = Writer(0)
  /\ savers = [s \in Savers |-> [pc |-> "none", known |-> {}, w |-> Writer(0)]]
  /\ file = [by |-> 0, blocks |-> Writer(0).out]

OutputNext ==
  /\ handler # "ended"
  /\ \/ \E h \in Heights : Commit(h) \/ StartMerge(h) \/ MergeBlock(h)
     \/ StartPrint \/ PrintBlock \/ Store \/ MapRace
     \/ \E s \in Savers : StartSaver(s) \/ SaverLength(s) \/ SaverBlock(s) \/ SaverWrite(s)

OutputSpec == OutputInit /\ [][OutputNext]_outputVars

----------------------------------------------------------------------------

Times(txs) == { TS[txs[j]] : j \in DOMAIN txs }
TimesShown(blocks) == UNION { Times(blocks[h]) : h \in DOMAIN blocks }

EachOnce(blocks) ==
  \A g, h \in DOMAIN blocks : \A j \in DOMAIN blocks[g], k \in DOMAIN blocks[h] :
    TS[blocks[g][j]] = TS[blocks[h][k]] => g = h /\ j = k

Whole(blocks) == \A h \in DOMAIN blocks : Times(Bodies[h]) \subseteq TimesShown(blocks)

\* However commits, merges and other writers interleave, a chain that was printed
\* or saved shows one transaction, and one only, of every timestamp there is in its
\* blocks, although several blocks contain it.  (The comment at hotstuff.go:486 has
\* the timestamp serve as the unique identifier of a transaction: of two transactions
\* of one millisecond the second is left out.)
WrittenOnce == \A blocks \in {printer.out, file.blocks} : EachOnce(blocks) /\ Whole(blocks)

\* The file shows every block that its writer was started for, unless a block
\* below it was missing then: the number of blocks serves as the highest height.
SavedUpToGap ==
  file.by # 0 =>
    LET known == savers[file.by].known
    IN  \A h \in known \ {0} : 1..h \subseteq known => h \in DOMAIN file.blocks
=============================================================================
