# Sleepy-HotStuff in TLA+

A verification development of the Go program in `src/`: TLA+ modules translated
from the code, TLC configurations that check them on small instances, and
theorems checked by TLAPS. Source paths below are relative to `src/src/`.

## The system

A fixed set of replicas orders client requests with a chained HotStuff whose
certificates are lists of ECDSA signatures. The variant studied by the
repository lets replicas fall asleep and lose their memory.

| Component | State | Operations | Talks to |
|---|---|---|---|
| Normal case, `consensus/hotstuff.go`, `consensus/events.go` | `Sequence`, `curBlock`, `lockedBlock`, `curHash`, `awaitingBlocks`, `awaitingDecisionCopy`, `committedBlocks`, `receivedBlocksSet`, `curStatus` | `RequestMonitor`, `StartHotStuff`, `HandleNormalMsg`, `VerifyBlock`, `ProcessQCInfo`, `HandleNormalRepMsg` | queue (reads), quorum buffers (votes), transport, storage, block output |
| View change, `consensus/viewchange.go` | `view`, `leader`, `timeoutBuffer`, the "TQC" and "VCQC" entries of `buffer` | `StartRotatingTimer`, `TimeoutHandler`, `HandleTimeoutMsg`, `HandleTQCMsg`, `StartViewChange`, `HotStuffStartVC`, `HandleQCVCMessage` | starts a `RequestMonitor` per view, overwrites `curBlock`, `Sequence`, `curStatus` |
| Sleep and recovery, `consensus/sleepyRec.go`, `test_sleepy_hotstuff.go` | `reqHash`, `hView`, `recBuffer`, `curStatus` = SLEEPING, RECOVERING | `SleepProcess`, `RecoveryProcess`, `HandleRec1Msg`, `HandleEcho1Msg`, `HandleRec2Msg`, `HandleEcho2Msg`, `viewChangeInRecovery`, `recoverFromDisk` | re-runs `InitHotStuff`, reads storage, merges blocks of others |
| Quorum, `quorum/` | sizes, vote buffers, certificates | `StartQuorum`, `StartSleepyHotstuffQuorum`, `Add`, `CheckQuorum`, `AddToIntBuffer`, `CheckIntQuorum` | called by the three above |
| Storage, `db/` | LevelDB, one value per variable | `PersistValue` (by level: all, critical, none), `RecoverValue` | written by every handler, read on recovery |
| Block output, `consensus/hotstuff.go` | `forcePrint`, the files of committed blocks | `outputBlockchain`, `saveCommittedBlocksToFile` | read `committedBlocks` while handlers write it |
| Request queue, `consensus/queue.go` | `queue`, `MsgQueue` | `Append`, `AppendBatch`, `GrabWithMaxLenAndClear`, `AppendAndTrimToMaxSize` | filled by `HandleRequest`, emptied by `RequestMonitor` |
| Transport, `communication/` | connection cache, liveness marks, `broadcastTimer` | `ByteSend`, `RBCByteBroadcast`, `SendToNode`, `HotStuffSendByteMsg` | one goroutine per message sent and per message received |
| Client, `communication/clientsender/` | the same of its own, `clientTimer` | `BroadcastRequest`, `SendRequest`, `BuildConnection` | sends each request to every replica |
| Threshold PRF, `threshprf/` | key and share files | `Gen_key_dealer`, `Compute_share`, `Verify_share`, `Compute_prf` | nothing: the consensus code never calls it |
| Configuration, `config/` | `etc/conf.json` | accessors | everything |
| Cryptography, messages, logging, utilities, gRPC stubs | - | library code | - |

Each message runs in a goroutine of its own (`HotStuffSendByteMsg` in
`communication/receiver/receiver.go`), so the order in which two messages are
handled is arbitrary even if the network keeps it. Proposal and vote handlers hold `viewMux` for reading, view
change handlers hold it for writing, and `RequestMonitor` does not hold it. A send that
fails is logged and dropped. Nothing is sent twice.

### What is hard here, and what correct means

* **Ordering in the normal case.** `ProcessQCInfo` uses heights only, and takes
  whatever `curBlock` is for the parent of the certificate it receives. Correct:
  certificates lie on one chain, the committed block is below the lock and the
  lock below the current block, replicas agree, nothing is taken back; together
  the replicas implement one ledger.
* **Two numbers.** A proposal is numbered by `Sequence`, a certificate by
  `curBlock.Height + 1`; no code compares them.
* **Monitor against view change.** `RequestMonitor` checks, waits, claims and
  proposes in separate steps.
* **Leader change.** The new leader collects VIEWCHANGE messages before or after
  its own timeout, has no timer meanwhile, and takes over a block but not its
  hash chain. Correct: it acts only when a quorum has moved on; the change ends
  (which is so only while no replica lags by two views).
* **View synchronisation without storage.** TIMEOUT messages are counted by
  everybody and certificates of timeouts are forwarded, by goroutines that take
  two locks one after the other. Correct: no replica is ahead of what a quorum
  has given up, and every certificate sent is accepted.
* **Sizes.** Three quorum formulas by fault model. Correct: quorums meet in a
  correct replica and can be formed; a recovery meets each quorum of votes (one
  formula sets no size for it).
* **Sleep and recovery.** Waking up clears locks and votes, while messages,
  timers and monitors of before are still on their way. Correct: until it has
  recovered a replica takes no part; then it is in a view it has not voted in,
  and knows blocks as high as its lock and as the parents of what it voted for.
* **Readers beside writers.** Block output, queue and transport share maps,
  arrays and counters between goroutines that lock each access, not the sequence
  of them. Correct: no request is lost or doubled, what is written of the chain
  shows each timestamp once, and a peer that answers is not cut off.
* **Who answers.** Any `k` shares of the PRF, in any order, must give one value.

`PROJECT.json` lists the hazards, each with its line and the properties that
cover it.

## Modules

| Module | Models | Extends |
|---|---|---|
| `HotStuff` | the normal case of every replica, for any number of views | |
| `ViewChange` | timers, TIMEOUT/TQC, VIEWCHANGE on the state of `HotStuff` | `HotStuff` |
| `SleepyRec` | sleep, wake-up and recovery on the state of `ViewChange`, and the database | `ViewChange` |
| `QuorumSizes` | quorum arithmetic and the configuration check | |
| `Ledger` | abstract: one growing ledger, of which replicas output prefixes | |
| `HotStuffLedger` | the refinement mapping from `HotStuff` to `Ledger` | `HotStuff` |
| `VoteCounting` | abstract: a vote is counted, and the quorum it completes certified, at one moment | |
| `VoteBuffer` | how one replica makes a certificate out of votes, lock by lock, with signatures | refines `VoteCounting` |
| `TimeoutBuffer` | how one replica collects a TQC, lock by lock | |
| `BlockOutput` | how one replica prints, saves and stores its chain | |
| `RequestQueue` | request queue and `MsgQueue`, as slices of arrays | |
| `Transport` | dialling, liveness marks and `broadcastTimer` of one replica | |
| `ClientSender` | the same in a client | `Transport` |
| `ThreshPRF` | dealer, shares and their proofs, interpolation | |
| `MCHotStuff`, `MCViewChange`, `MCFork`, `MCQuorumSizes`, `MCSleepyRec`, `MCRecovery`, `MCReplica` | instances and schedules for TLC | |
| `HotStuffProofs`, `ViewChangeProofs`, `SleepyRecProofs`, `HotStuffLedgerProofs`, `QuorumSizesProofs`, `VoteBufferProofs`, `TimeoutBufferProofs`, `ServiceProofs` | theorems | each the module it is about; `ViewChangeProofs` and `HotStuffLedgerProofs` also `HotStuffProofs`, `SleepyRecProofs` also `ViewChangeProofs` |

### How state and actions correspond to the code

Each package-level variable of the program is a function from replicas with the
same name. `votes` and `prepared` are the quorum buffer and the "BLOCK" entries
of `buffer`; `vcBuffer`, `vcPrepared`, `timeoutBuffer`, `tqcPrepared` the same
for view changes. `monitor[r][v]` is the program counter of the goroutine
`RequestMonitor(v)` at replica `r`; `timers` holds the armed rotating timers;
`pending` holds client requests not yet delivered and `net` the messages sent
and not yet handled.

* `RequestMonitor` is five actions: start, compare the view, test the status,
  set PROCESSING, propose. Between any two of them any handler may run.
* A handler is one action per outcome. The early returns are `IgnoreMsg`,
  `RejectProposal`, `DropVote`, `IgnoreVCMsg`; the rest is `HandleNormalMsg`
  (with `SkipQCInfo` for the early return inside `ProcessQCInfo`),
  `HandleNormalRepMsg`, `HandleTimeoutMsg`, `HandleTQCMsg`, `HandleQCVCMessage`.
* `StartViewChange` includes `HotStuffStartVC` and is used by a timeout with
  storage and by a TQC.
* A hash is what it covers: the chain of `[seq, ops]` pairs, as `ObtainCurHash`
  folds them. A certificate keeps view, height, hash and signers. Its
  transactions and the two parent hashes are left out: no handler decides
  anything by them.
* A signature is the name of the signer. Replicas do what the code does;
  replicas that lie are not modelled.
* A message is handled at most once, in any order. A lost message is one that
  is never handled, so every safety property covers loss. There is no
  duplication: the code never resends and gRPC delivers a call at most once.
  (`TimeoutBuffer` admits it all the same, since its buffer guards against it.)
* What a replica sends to itself it receives through `net` as well, since the
  code starts a goroutine for it (`go HandleQCByteMsg`).
* In `ViewChange`, a timer of a view that is over is dropped rather than fired:
  `TimeoutHandler` and `StartViewChange` return at once for it. One of a later view, armed
  before a sleep, stays (`Rearmed`). Two timers, or two monitors, of one view at one replica
  (`NoRecovery` starts another `RequestMonitor(0)`) are one: the variables say whether there is one.

`SleepyRec` adds, per replica:

* `sleepProc`, the goroutine `TestSleepAndRecover`: `FallAsleep` (once
  `Sequence` has reached `SleepSeq`, and while no handler or proposal holds the
  read side of `sleepLock`), `WakeUp` (`InitHotStuff` again: it resets locks,
  block, sequence and buffers, writes view 0 to the store, and keeps committed
  blocks, queue, timers and monitors) and `RecoveryProcess` in its three modes.
* `reqHash`, `hView`, `recBuffer`, `recPrepared` of a recovery, and `spinning` for
  the loop in which `HandleEcho1Msg` waits, with `recLock` held, for views to pass:
  no other answer is handled until `SendRec2` ends it. `HandleRec2Msg` waits the
  same way, without state, so its message is delivered when it may go on.
  A replica sleeps once, as the code has it, so the hash of a recovery request is
  its type.
* `store`, what the database holds of the view, the lock and the committed blocks;
  `WriteThrough` is `PersistValue` after each handler. The database is empty when a program
  starts. `InitHotStuff` stores the view and the committed blocks, `ProcessQCInfo` the lock
  when it first sets it (`Locks`). `recoverFromDisk` therefore finds all three
  (`RestoreFromDisk`) or no lock, and then `log.Fatal` ends the program (`EndProgram`, `Ended`).
* `Admits` and `DropMsg` are the status tests at the top of `HandleQCByteMsg`, and
  `TimersRun`, `TimerLost` and `MonitorSleeps` those of timers and monitors.
  `RecoveringTQC` is `viewChangeInRecovery`.
* `before` is history: view and lock of the replica when it fell asleep.

The modules about one replica have as steps what the program does under one lock:

* `VoteBuffer`: `CheckVote` (what `HandleNormalRepMsg` tests under the read side of
  `viewMux`, which keeps view changes out and other votes not), `LockBuffer`, `Add` (both
  maps of `BUFFER.InsertValue` and `CERTIFICATE.Insert`), `UpdateBufferContent` and
  `Certify`, the four under `bufferLock`. A signature says who made it and of what.
  `HotStuff` takes the handler as one step and keeps the names of the voters. It may:
  `VoteBuffer` implements `VoteCounting`, which is what `HotStuff` does to its votes (see
  *Votes*).
* `TimeoutBuffer`: `CheckTimeout` (under `viewMux`), `InsertTimeout` (under
  `bufferLock`), `BroadcastTQC` (after both), `StartTQC` and `KeepTQC` (both ends of
  `HandleTQCMsg`, which holds `viewMux` between), `HandleRec1Msg`.
* `BlockOutput`: `ProcessQCInfo` is `Commit`, `StartPrint`, `PrintBlock`, `StartSaver` and
  `Store`; `SaverLength`, `SaverBlock`, `SaverWrite` are `saveCommittedBlocksToFile`. `PrintBlock`
  and `SaverBlock` are one step of two nested loops, over the heights and over the
  transactions of a block (`Advance`). `StartMerge` and `MergeBlock` are what `HandleEcho2Msg` does
  to one block, at any time. `MutexCopied` is the map passed by value: its mutex
  is copied locked or not, locked only while a saver (`InGet`) or a merge holds it. Copied locked,
  it leaves the handler stuck; copied free, it excludes no merge from the map, and Go may end the
  program (`MapRace`). A transaction has a timestamp (`TS`), and others may have the same: writers
  skip by the timestamp. A block is its height: what is said of the output of one replica
  does not need blocks of one height to differ. A file is written at once.
* `RequestQueue`: a slice is a window of an array, with length and capacity, and
  `append` writes in place or moves to a larger array. `AppendNext` is one round of the
  loop of `AppendBatch`, which has the queue's lock for all of them (`appending`).
  `GrabWithMaxLenAndClear` takes the lock; `getTransactions`, for all of `StartHotStuff` that
  reads what was grabbed, does not, so it may come between two rounds.
* `Transport`: `ByteSend`, `Dial`, `Rpc`; `NotLive` and the doubling of
  `broadcastTimer` are three and two steps, as their reads and writes are not one
  access. Durations have `Width` bits and wrap around. In `ClientSender` a broadcast
  waits for its sends, and nothing calls `SetLive`. `failures` and `failed`
  count failed dials: they are history, read only by properties and by the bound on failures.
* `ThreshPRF`: a point is its logarithm to the base point, so that
  `ScalarMult` is multiplication modulo the order. A hash as a scalar may be any value.
  The dealer's polynomial is evaluated at the participant's number, so
  participant 0 holds the key.

Handlers are atomic in `HotStuff`, `ViewChange` and `SleepyRec`. For the view change
this is what the write lock gives; two proposals or a proposal and a vote can
overlap in the code, because they share the read lock.

## Runs

All bounds are in the constants: `MaxSeq` (largest sequence number proposed,
guards of `MonitorClaim` and `MonitorPropose`), `MaxView` (guard of
`TimerFires`), the set `Requests`; in the modules about one replica `MaxHeight`,
`Savers`, `Goroutines`, `Handlers`, `Senders`, `LastView`, `ViewChanges`, `MaxFailures`,
`MaxTogether`, `MaxArrivals`, `MaxMessages`, and for the PRF the order of the group, `Inputs`, `Nonces` and `Challenges`.
`CHECK_DEADLOCK FALSE` everywhere: a system that has used up its bounds, or its
client requests, stops (and `QuorumSizes` has nothing but the repeated
initialisation).

| Run | Result | Shows |
|---|---|---|
| `hotstuff_safety` | pass | N=3, quorum 2, 4 blocks. `TypeOK`, `Agreement`, `OneChain`, `CommitBelowLock`, `OneProposalOutstanding`, `NothingUndone`, and the refinement `ImplementsLedger`, under every order and loss; `ProposalsGetCertified`, `FollowersCatchUp` under fairness |
| `hotstuff_gap` | violated | N=3, 6 blocks. `NoHeightSkipped` |
| `vc_safety` | pass | N=3, 3 blocks, one leader change, critical storage. `VCTypeOK`, `CertifiedByVoters`, `NewLeaderHasQuorum`, `LockBelowBlock`, `HeightsGrow` |
| `timeouts` | pass | N=3, two leader changes, no storage, no blocks. `TimeoutsBackViews` |
| `vc_live` | pass | N=3, two leader changes, no blocks, critical storage. `ViewChangesEnd`, `ViewsAdvance` under fairness, while nobody lags by two views |
| `lag` | violated | the same. `EveryViewChangeEnds`, without that proviso |
| `fork` | violated | N=4, quorum 3, 6 blocks, one leader change. `Agreement` |
| `race` | violated | N=3. `OnlyLeadersPropose` |
| `parent` | violated | N=3. `ProposalsExtendTheirQC` |
| `recquorum` | violated | n up to 16, f from 1 to 3, s up to 3, every test type, mode and level. `RecoveriesAskQuorum` |
| `recovery` | pass | N=3, quorum 2, recovery quorum 2, no storage, RecKoala2, two leader changes; replica 2 sleeps in view 0 while three blocks are proposed, or in view 0 or 1 while leaders are too slow to propose. `SleepTypeOK`, `RecoversInNewView`, `RecoversItsLock`, `RecoversItsVotes`, `SilentUntilRecovered` |
| `replica_parts` | pass | a replica that does not ask others when it wakes up, the parts of one replica, and the sizes of quorums; see the next table |

`replica_parts` chooses one instance at the start of a behaviour (`part`), and follows
that one. The instances have no variable in common that two of them change.
`VoteBuffer`, `TimeoutBuffer`, `ClientSender`, `RequestQueue`, `BlockOutput` and
`QuorumSizes` are extended, so that their properties are checked as they stand in those
modules; the others are instances.

| Instance | Bounds | Properties |
|---|---|---|
| `disk` | N=3, 3 blocks, one leader change, critical storage, RecFromDisk, asleep at any sequence | `RecoversItsLock` |
| `amnesia` | N=3, quorum 1, one block, no leader change, no recovery | none: it shows that such a replica goes on; what it must not do before is proved for every mode (`SilentUntilRecoveredHolds`) |
| `voting` | three voters, quorum 2, two blocks, one view change, two goroutines | `CertificatesVerify`, and the refinement `ImplementsVoteCounting` |
| `timeouts` | three senders, quorum 2, three goroutines, one view | `SentTQCsVerify`, `OneTQCPerView`, `EchoesVerify` |
| `sending` | a peer that answers and one that may not, two goroutines, timer 10 of 9 bits, 5 failures | `MarkedAfterFiveFailures`, `GoodPeersKept` |
| `client` | the same with 7 failures | `MarkedAfterFiveFailures`, `GoodPeersKept` |
| `requesting` | messages and batches of 2 requests, `MsgQueue` of 2, 4 arrivals, 3 messages | `ProposedAsArrived`, `LatestMessages` |
| `output` | two blocks, of which the second repeats a transaction of the first and has one of the millisecond of another, two savers, one merge at a time | `WrittenOnce`, `SavedUpToGap` |
| `sizes` | n up to 16, f and s up to 3, every test type, mode and level | `QuorumsMeet`, `QuorumsExist`, `RecoverySeesVotes` |
| `prf` | 3 of 4 participants, group of order 5, every polynomial | `OnePRF`, `VerifiedSharesAreRight`, `ThresholdIsK` |

Why these bounds are enough to be interesting: a commit takes a certificate of
height 3, so four blocks give commits at heights 0 and above together with one
proposal behind and one ahead; three replicas with quorum 2 leave one follower
that is arbitrarily late (quorums of 2 in 3 are what `StartQuorum` computes; with 4 replicas it computes 3).
One request is enough, because a leader also proposes empty batches while
`awaitingDecisionCopy` is not empty. Two view changes are what a TQC needs to
jump over a view, and what `HandleEcho1Msg` makes a sleeper of view 0 wait for. With a
recovery quorum of 2 in 3 both others must answer. Five failures are
what marks a peer, four doublings of 10 fit in 9 bits and the fifth overflows. Two
savers are what it takes to overwrite a file. Two leader changes are what a replica needs to lag
by two views. Three senders, or voters, are one more than a
quorum, so that one comes after it; two blocks are what two certificates of one height
would take.

Reductions. The instances start where client requests have reached the
followers (`MCInit`, `MCSleepyInit`), a state that `Spec` reaches. `DeadFirst` handles messages whose handler
returns at once, and ends monitors whose view is over, before anything else:
these steps change nothing a property sees and stay enabled, so taking them first hides no
behaviour. `vc_safety`, `timeouts`, `recovery` and `disk` are coarser, and cover
only part of the schedules. In `vc_safety` and `timeouts` a replica's own steps and
the messages it sends to itself come first (`OwnStepsFirst`), and in `vc_safety`
proposals reach a replica in order (`OwnStepsFirstInOrder`); between those, timers fire
at any time. What these two check is also proved, without a schedule. In `recovery`
and `disk` (`BlockSchedule`, `ViewSchedule` in
`MCSleepyRec`) a sleeper wakes up at once (`WakesFirst`) and goes on recovering when it can
(`RecoveryFirst`), what it drops stays in the network (`NoDrop`), monitors that can run
do (`MonitorsRun`; in `ViewSchedule` none proposes), messages of some types go first, replicas that do not
sleep time out in the order of their numbers, and views change only after the sleeper
slept (`OnlyTimersOf`; in `ViewSchedule`, view 0 may end before). Once it has recovered, the
behaviour is not followed further (`NotRecovered`): what it needs to know, it knows then. No schedule is imposed on
`amnesia`, and of the parts of one replica on `output` only: a writer goes on at once while it is
inside a block, where it touches nothing that others see (`LinesFirst`), the savers start in the order of
their numbers, and one ECHO2 message at a time merges a block (`Followed`). The theorems about
block output have no such schedule. `MCFork` follows one schedule in detail. In all of
them the constraints only choose among steps that the specification allows, so a
violation found is a behaviour of the specification.

### Fairness

`Fairness` is weak fairness of every monitor, of every request delivery and, per
replica, of message handling. The code justifies it by goroutines that are
scheduled; that a message sent is delivered is an assumption on the network,
since the code has no retry. It is used by the runs with liveness properties
(`hotstuff_safety`, `vc_live`, `lag`) only; the other properties of `hotstuff_safety` do
not depend on it. `VCFairness` adds timers that fire (`time.AfterFunc`). `vc_live` assumes besides that the
replicas keep in step (`InStep`: nobody two views behind another), which timers of one length
make likely and nothing in the code makes sure: `lag` shows what happens otherwise. Fairness of message handling is per replica
and not per message: in these finite instances every message of `net` is handled
eventually, because handling uses messages up. No liveness is claimed for a
recovery: it may wait for ever, see the hazard at `sleepyRec.go:170`.

### Findings

* `hotstuff_gap`: a follower that gets proposals late never outputs the heights
  in between; `src/README.md` shows gapless output at every server.
* `fork`: `lockedBlock = curBlock` (hotstuff.go:744) is not the parent of the
  certificate received when a replica missed proposals of the new leader. It
  locks and commits its own abandoned block. Two correct replicas commit different blocks at
  height 2, with stable storage and no sleep.
* `race`: a timeout between the checks of `RequestMonitor` and `StartHotStuff`
  makes the former leader propose in the next view.
* `parent`: after a leader change, `curHash` does not belong to `curBlock`, and the
  first proposals carry a certificate of a block they do not extend.
* `lag`: the leader of view 2 is still in view 0 when the others enter view 2. It drops their
  VIEWCHANGE messages (viewchange.go:354), which come once; its own timers take it to view 2, where it
  waits for them without a timer, for ever.
* `recquorum`: at level 3f+1 `StartSleepyHotstuffQuorum` sets no `recQuorum`, and `PartChurn`
  recovers from other replicas all the same: the first ECHO1 and the first ECHO2 complete it.

Two more the modules describe without a run of their own. A replica that falls asleep before its first
lock finds no "lockedBlock" in the database, and `recoverFromDisk` ends the program (sleepyRec.go:312,
`EndProgram`), where src/README.md has a node recover safely from its stable storage; `RecoversItsLock`
says that this happens only to a replica without a lock. And printed and saved chains leave
out a transaction of the millisecond of another, although every coinbase takes a millisecond
(hotstuff.go:484, `WriteTransaction`), where the comment at hotstuff.go:486 has the timestamp identify it;
`WrittenOnce` speaks of timestamps for that reason.

`OneChain`, `CommitBelowLock`, `Agreement` and `ImplementsLedger` are therefore claimed
for one view only; `CertifiedByVoters`, `LockBelowBlock`, `HeightsGrow` and
`NewLeaderHasQuorum` hold across views.

One belief did not survive the attempt to prove it: that `curBlock.Height` stays at or
below `Sequence` across views. It holds for one leader change with three blocks, and fails
with five views. A replica that led view 0 and leads view 3 and has a monitor of each
stalled before its proposal proposes twice in view 4, adopts the certificate of height 3
that comes with a proposal of view 4's leader, then gets the votes for its own two: the
height it counts up is 5, its `Sequence` 4. No code relies on the two being ordered
(`FetchBlockInfo` only looks at height 0), so that this is a remark and not a finding; what
the handlers do rely on is `LockBelowBlock`.

## The ledger

`Ledger` says what clients may rely on: there is one sequence of blocks, it grows
at the end, and a replica outputs at a height the part of it up to that height, once
two more blocks are on top. It may leave heights out (`hotstuff_gap`). `HotStuffLedger`
maps the normal case to it: the ledger is the chain that the certificate of the leader
covers, and the output of a replica the chains that its `committedBlocks` end, from
height 1 on. A certificate of the leader is a `Certify`, a commit in
`ProcessQCInfo` an `Output`, everything else stutters.

## Votes

`VoteCounting` is what `HandleNormalRepMsg` promises the rest of a replica: a vote is
counted at one moment, and the vote that completes a quorum makes the certificate, of the
votes counted, at that same moment. `VoteBuffer` has the five steps of the handler, and the
locks. Between two of them other handlers take theirs, and find a vote in the buffer whose
quorum nobody has certified yet. The refinement mapping therefore counts a vote when it is
added, except the vote of a handler that sees a quorum and has still to certify it
(`Completing`): that one counts with the certificate (`Withheld`). `ImplementsVoteCounting`
is checked in the instance `voting` and proved; the same specification is proved of what
`ViewChange` does to the votes of each replica, so that both levels agree on what a vote does.

## Proofs

`HotStuffProofs` proves, for every `N`, `QuorumSize`, batch size and bound and
from `ConstantsAssumption` alone, that `Spec` of `HotStuff` (one view, which is
the whole protocol when the configuration switches view changes off) satisfies
all safety properties of `hotstuff_safety`, and that certificates are made of
votes: `TypeCorrect`, `AgreementHolds`, `CertifiedByVotersHolds`, `OneChainHolds`, `CommitBelowLockHolds`,
`OneProposalOutstandingHolds`, `NothingUndoneHolds`.

None of these is inductive. `IInv` adds what they silently rest on: only replica
0 proposes (`OneView`), what it has proposed is one growing chain (`Chain`),
messages speak of that chain (`Messages`), whoever is counted accepted the block
(`Collected`), the leader has certified exactly its first `curBlock[0].height`
proposals, all but at most one (`Leading`), every certificate held is sound
(`Certified`), and locks and commits are ordered (`Ladder`). `Leading` is the
crux: the height that `HandleNormalRepMsg` counts up is the sequence number of the
block only because a vote that is not dropped is for the last proposal. `InitIInv`
and `NextIInv` (one lemma per handler: `ProposalStep`, `VoteStep`, `ProposeStep`,
`MonitorMoves`, and `QuietStep` for those that touch none of it) give `Invariance`;
the properties follow from `CertificatesSound` and `SoundExtends`. Agreement does
not use quorum intersection here: with one leader the chain is what is unique.

`HotStuffLedgerProofs` proves that the normal case implements the ledger
(`LedgerImplemented`). On top of `IInv` it needs that no replica knows a higher
certificate than the leader (`Behind`, theorem `NobodyAhead`), which is why two blocks
are on top of what is output. Of any ledger that is specified like this, outputs are parts of the
ledger below them (`LedgerPrefixes`); so what replicas commit is a part of the certified
chain (`OutputsArePrefixes`), and the same at one height (`OneOutputHolds`).

`ViewChangeProofs` is about `VCSpec`, with leader changes, for every `N`, `QuorumSize`, level
of storage and bound. As blocks of different leaders may be certified at one
height, there is no chain to argue with. `VInv` (theorem `VCInvariance`) says instead:

* certificates, wherever they are, name a quorum whose members accepted the block
  (`AllBacked`): what is accepted is never forgotten. This is `VCCertifiedByVotersHolds`;
* a lock is never above the block of its replica (`LockBelowBlock`, `LockBelowBlockHolds`),
  because it is a value that block had; with it no step takes back view, block or lock,
  `HeightsGrowHolds`;
* whoever sent or is counted for VIEWCHANGE has reached that view, and a monitor of a
  later view runs only at its leader and with a quorum there (`Handover`), which is
  `NewLeaderHasQuorumHolds`.

`VCTypeOKHolds` needs no more than that messages, locks, votes and buffers hold what
proposals and certificates are made of (`Shaped`, `RestTypes`).

`TimeoutsBackViewsHolds`, for replicas without storage, needs `TInv` besides. An armed timer
is not of a view ahead of its replica's, and the leader of a view arms its timer only
after a quorum of VIEWCHANGE messages (`Armed`); the same holds of a monitor that is about
to start (`Waiting`). Whoever is named in a TIMEOUT, a TQC or a buffer has given up that view
(`Reports`), and of every view below that of some replica a quorum has (`Together`). Giving up a view
is for good (`Lasting`), which is what keeps reports true while they travel.

`QuorumSizesProofs` proves for every configuration, and repeated initialisation
when a replica wakes up, `TypeCorrect`, `QuorumsMeetAlways`, `QuorumsExistAlways`,
`RecoverySeesVotesAlways`; `QuorumsShareReplicas` says `QuorumsMeet` of sets of
replicas. `RecoverySeesVotes` is about the levels 3f+s+1 and 3f+2s+1: at 3f+1 the recovery quorum
stays 0, which is `NoRecoveryQuorum` (see the finding `recquorum`). The invariant `IInv` there adds that a recovery quorum is set only by a
configuration that passed `SleepyHotstuffConfig`.

`SleepyRecProofs` is about `SleepySpec`: all of the above with replicas that sleep, forget and
recover, each once, in any number at a time, in any of the three modes. Waking up takes a
replica back to view 0 with empty locks, so that nothing monotone is left of `ViewChange`
but what was accepted and sent.

* `SInv` (theorem `SleepyInvariant`): certificates in ECHO2 messages and in the database are
  as good as those replicas hold (`SleepBacked`), which gives `SleepyCertifiedByVoters`; the
  goroutine of a sleeper, its status, its request and its monitors fit together
  (`Phases`). A replica that is down is therefore not between a claim and a proposal,
  and `SilentUntilRecoveredHolds` follows.
* `SleepTypeOKHolds` adds that an answer is counted only while a quorum is missing
  (`Counts`). It assumes `RecQuorum \in 1..N`, which `StartSleepyHotstuffQuorum` computes at the
  levels 3f+s+1 and 3f+2s+1; a recovery from others at 3f+1 is not covered here.
* `DiskKeepsTheLock`, for `RecFromDisk`: `RecoversItsLock` rests on the lock in the database
  being the one in memory whenever the replica may fall asleep, and on there being none in
  memory if there is none in the database (`LockStored`).
* `RecoversInNewViewHolds`, for `RecKoala2` without stable storage, is the argument for the
  `hView + 2` of `HandleEcho1Msg`. A replica has `Attained` a view if it is or was in it,
  before it fell asleep or since: this is never undone. A quorum has attained the view below that
  of any replica (`Backing`), because TIMEOUT, TQC, VIEWCHANGE messages, timers and buffers
  speak of views their senders attained (`AllTold`, `TimersOfThePast`). When a replica
  falls asleep in view `v`, fix a quorum `Q` that has attained `v - 1`. Those who have answered are
  a set `A`, each once (`OneAnswer`); as soon as `A` meets `Q` the highest view heard is at
  least `v - 2` (`Witnesses`; the ECHO1 names the view before), so the loop ends in a
  view above `v` (`Caught`). That `A` meets `Q` is the hypothesis
  `QuorumSize + RecQuorum > N`, which `RecoverySeesVotes` gives for the levels 3f+s+1 and 3f+2s+1
  (and which 3f+1, with `RecQuorum` 0, does not meet). Without storage is a hypothesis because with it views advance
  by single timers: a replica may then be a view ahead of everybody, and `Backing` fails.
* `KoalaKeepsTheVotes` and `KoalaKeepsTheLock`, for `RecKoala2` with or without storage, state
  `RecoversItsVotes` and `RecoversItsLock`. Neither the votes nor the lock of the sleeper is written
  anywhere: what `HandleEcho2Msg` brings back, it has from others. The hypotheses, besides
  `QuorumSize + RecQuorum > N`: one replica is chosen to sleep (`OneSleeper`), and it does so in
  view 0 (votes) or before any rotating timer has fired (lock). What the others do meanwhile and
  later, in any view, is not restricted. The invariant is `RInv(q)`.
  * A certificate that names the sleeper names a quorum; a lock is the parent of a block
    that a quorum voted for. Whoever votes in view 0 for a block knows the parent of it (`VotersKnow`).
    This needs that the leader of view 0 proposes on top of its highest certificate
    and waits for the votes before it goes on (`LeaderWaits`), and that nobody else proposes or
    certifies in that view (`OthersLater`). For the lock it is the chain of `HotStuff`
    (`ParentsInv`), which `FInv` gives until a timer fires (`AwakeInv`).
  * From then on nobody but the sleeper goes back (a block in memory is replaced by higher ones
    only), and new certificates come from proposals that were just voted for (`CertsFrom`).
  * A REC2 is answered once by each (`OneAnswer2`), after the sleeper fell asleep, so that every
    ECHO2 carries a block high enough for what its sender knew (`Covers`). Those counted
    are `RecQuorum` different replicas (`Answered`), and one of them is in the quorum.
  * A leader that is a quorum by itself waits for nobody, so `LeaderWaits` and what rests on it is
    said of `QuorumSize > 1` only. With a quorum of one a recovery would have to hear from all
    replicas, the sleeper included, and never ends (`HasAnswers`).

  In a later view there is no such argument: a monitor left from an old view may propose in a
  new one, and after `fork` the height of a certificate says little about its parent. A replica
  that falls asleep there is left to `recovery`.

The three specifications are also put together. `Spec` of `HotStuff` has one leader, and
`fork` shows that agreement does not outlive a change of leaders. What holds of the whole
program is agreement until somebody gives up the first view.

* Nobody leaves view 0 before some replica has given it up, and giving it up is for good. So
  while no rotating timer of view 0 has fired (`Undisturbed`) there are no timers but those of
  view 0 (`FirstTimers`) and no message that could move a replica on. Every step until
  then is a step of `HotStuff` or a stutter, and `IInv` carries over (`FInv`,
  `FirstViewInvariance`): `AgreementUntilTimeout`, `ChainUntilTimeout`. With view changes switched
  off it holds forever: `NormalCaseOnly` says that `VCSpec` then implements `Spec`.
* With no replica set to sleep `SleepySpec` implements `VCSpec` (`NobodySleeps`), and whoever
  is set to sleep, there is agreement until a timer fires (`AgreementUntilDisturbed`).

`VoteBufferProofs`, `TimeoutBufferProofs` and `ServiceProofs` are about goroutines of one
replica, for any number of them.

* `VoteInv`: `BUFFER` and `CERTIFICATE`, two maps with a lock each, are in step because both are
  written under `bufferLock` (`InStep`, `Excluded`), and a block is marked in the critical
  section that certifies it (`Marked`). Hence `CertificatesVerifyHolds`, `CertifiedOnceHolds`;
  the hypothesis only says that no goroutine is called 0, which stands for nobody.
* `VoteCountingImplemented` needs more of the same section (`CountInv` of `VoteBufferProofs`):
  nobody is at work on a vote during a view change (`Working`); a handler that sees a quorum has
  brought the vote without which there is none (`Tallied`); and a block with a quorum in the
  buffer is certified, or a handler is about to certify it (`Taken`). As one handler at a time is
  in the section, at most one vote is withheld (`OneWithheld`), and none when nobody is past
  `Add` (`NoneWithheld`). So `Certify` shows `CountVote`, `Add` shows it or nothing, and
  `UpdateBufferContent` nothing. What `Taken` says of quorums is worth stating by itself:
  `NoQuorumOverlooked`.
* `VotesCountAtOnce` (in `ViewChangeProofs`) says that the votes of every replica of `VCSpec`
  are counted as `VoteCounting` says: all handlers but `HandleNormalRepMsg` leave them alone
  (`VotesUntouched`), and views and heights do not fall because of `VInv`. `QuorumsCertifiedHolds`
  follows: a block that has votes has a certificate exactly if a quorum voted for it. (TLC does not take
  an instance with a parameter as a property: these two are proved only.)
* `BInv`: until a view is marked the buffer has one message of each sender it counts
  (`Collected`); whoever marks it is alone in that and broadcasts once (`Broadcasts`,
  `Sent`); `HandleTQCMsg` shows a new view only with the view before marked (`Holds`,
  `Shown`). Hence `SentTQCsVerifyHolds`, `OneTQCPerViewHolds`, `EchoesVerifyHolds`.
* `CountInv` of `ServiceProofs`: `NotLive` and `SetLive` lose counts and never invent one. A counter is never
  above the failures of the goroutines that have written it (`PeerCounts`, `SendCounts`),
  which gives `ReplicaMarksAfterFive` and `ClientMarksAfterFive`, for finitely many goroutines.
* `OutputInv`: a writer takes the number of committed blocks for the highest height. The
  number is never below a height that is complete, that is, committed with all below it
  (`LengthCovers`, by counting), so what was complete when the writer was started is within
  its loop (`Saved`), and in the file when the loop has ended (`Filed`): `SavedUpToGapHolds`.
  The map of timestamps of a writer holds exactly those of what it has written (`Known`), so that a
  transaction found again in a later block is left out: `WrittenOnceHolds`. So is another
  one of that timestamp.
* `TimerInv`: the timer is `InitialTimer` doubled, modulo 2^`Width`, at most once for each failed
  dial, not counting goroutines that have yet to write (`Reached`). As long as the product fits
  in `Width` bits, a peer that answers in time has not failed (`Kept`): `ReplicaKeepsGoodPeers`,
  `ClientKeepsGoodPeers`, for any number of peers and goroutines. 2^n is the number of
  subsets of a set of n elements there, which needs no induction (`PowerDoubles`).
* `QueueInv`: `append` stores in the cell behind its slice or in a new array. Queue and
  `MsgQueue` are never in one array, and a batch that was grabbed is in an array the queue has
  left, or in front of what the queue has left of the array (`Separate`). So nothing that
  arrives changes what was grabbed: `ProposedAsArrivedHolds`, `LatestMessagesHold`, for any
  requests, sizes and number of arrivals.

Model-checked only, and why:

* liveness (`ProposalsGetCertified`, `FollowersCatchUp`, `ViewChangesEnd`, `ViewsAdvance`): beyond
  the prover;
* `RecoversItsVotes`, and `RecoversItsLock` with `RecKoala2`, of a replica that falls asleep in view 1
  or later, or of several that sleep: the theorems are about one that sleeps in the first
  view (see above);
* `OnePRF`, `VerifiedSharesAreRight` and `ThresholdIsK` are about folds (the sum over dealers,
  the terms of an interpolation): an induction over data, which the prover cannot be given.

## Not modelled

* Faulty replicas: the models run the program at every replica. Likewise forged
  shares in `ThreshPRF`: `Verify_share` is tried on what the program computes.
* Two proposals, or a proposal and a vote, processed at once by one replica under the
  read lock of `viewMux`. So `Certify` of `VoteBuffer` has no branch for a certificate that is
  not higher than `curBlock` (hotstuff.go:880-887).
* The variable `err` that all sends of a client share (client.go): it is local in `ClientSender`.
* Two replicas asleep at the same time. What that would show beyond one sleeper is the deadlock
  hazard at `sleepyRec.go:201`.
* Crashes of the process: `StartHandler` reads nothing back from the store, so a
  restarted process is a new replica. The one restart with a memory is the wake-up
  of a sleeping replica. A crash inside `PersistValue` is LevelDB's.
* `recoverFromDisk` with all values persisted: a TODO in the code.
* Cryptographic primitives, generated stubs, reading the configuration,
  `saveReceivedBlocksToFile`, evaluation and logging, which format what they are
  given; encodings.
* Code without a caller: `StartQCNewView` and `HandleQCNewView` (NEWVIEW is never sent), `rank`,
  the epoch functions, the commit buffer and most of the utilities, message types of
  other protocols in the transport, `Store_vk_user`.

## What is left

1. `ProcessQCInfo` and `HandleNormalRepMsg` split at their reads and writes of `curBlock` and
   `lockedBlock`, which they share under the read lock.
2. Two sleepers at a time, with `sleepLock` as a variable, and the double-spending
   experiments of `src/README.md` as runs with faulty leaders.
3. Proofs: what a recovery with `RecKoala2` brings back after leaders have changed, as
   long as no two of them certify at one height; a refinement like that of `VoteBuffer` for
   `TimeoutBuffer` and the handlers of `ViewChange`.
