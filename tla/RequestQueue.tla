----------------------------- MODULE RequestQueue -----------------------------
(***************************************************************************)
(* The queue of client requests of one replica (queue.go, events.go,       *)
(* receiver.go) and its queue of protocol messages, MsgQueue.              *)
(*                                                                         *)
(* GrabWithMaxLenAndClear hands out a slice of the array the queue goes on *)
(* using, and StartHotStuff reads it, without the queue's lock, while      *)
(* handlers of requests append.  So arrays are modelled: a slice is a      *)
(* window of an array, and append writes into the array when the slice has *)
(* capacity left.                                                          *)
(***************************************************************************)
EXTENDS Integers, Sequences

CONSTANTS
  Requests,    \* what clients and replicas may send
  MaxBatch,    \* config.MaxBatchSize()
  MaxSize,     \* maxSize
  MaxTogether, \* bound: requests in a message of a client
  MaxArrivals, \* bound: requests that arrive
  MaxMessages  \* bound: messages that arrive

ASSUME QueueAssumption == MaxBatch \in Nat /\ MaxSize \in Nat

VARIABLES
  mem,        \* the arrays, by number
  queue,      \* queue.Q
  MsgQueue,   \* MsgQueue.Q
  appending,  \* what AppendBatch has yet to append; meanwhile it has the queue's lock
  batch,      \* what the RequestMonitor holds between Grab and proposal
  arrived,    \* history: the requests, in the order of their Append
  proposed,   \* history: the batches that went into proposals
  messages    \* history: the messages, in the order of their arrival

queueVars == <<mem, queue, MsgQueue, appending, batch, arrived, proposed, messages>>

Slice(arr, off, len, cap) == [arr |-> arr, off |-> off, len |-> len, cap |-> cap]
Contents(m, s) == SubSeq(m[s.arr], s.off + 1, s.off + s.len)

\* []pb.RawMessage{}: array 1 is the empty one.
EmptySlice == Slice(1, 0, 0, 0)

\* s[from:to] keeps the array and what is left of the capacity.
Window(s, from, to) == Slice(s.arr, s.off + from, to - from, s.cap - from)

\* append(s, x), in memory m, is the slice Appended(m, s) in memory Stored(m, s, x): in
\* place, or in a new array of twice the size.
HasRoom(s) == s.len < s.cap

NewArray(m, s, x) == [i \in 1..2 * (s.len + 1) |-> IF i <= s.len THEN Contents(m, s)[i] ELSE x]

Stored(m, s, x) ==
  IF HasRoom(s) THEN [m EXCEPT ![s.arr][s.off + s.len + 1] = x]
                ELSE Append(m, NewArray(m, s, x))

Appended(m, s) ==
  IF HasRoom(s) THEN Slice(s.arr, s.off, s.len + 1, s.cap)
                ELSE Slice(Len(m) + 1, 0, s.len + 1, 2 * (s.len + 1))

----------------------------------------------------------------------------

Locked == appending # << >>

\* HandleBatchRequest takes the lock of the queue for AppendBatch; a batch of one is
\* what HandleRequest, which runs in a goroutine of its own, does with Append.
HandleBatchRequest(requests) ==
  /\ ~Locked
  /\ Len(arrived) + Len(requests) <= MaxArrivals
  /\ appending' = requests
  /\ UNCHANGED <<mem, queue, MsgQueue, batch, arrived, proposed, messages>>

\* One round of the loop of AppendBatch.
AppendNext ==
  LET x == Head(appending)
  IN  /\ Locked
      /\ mem' = Stored(mem, queue, x)
      /\ queue' = Appended(mem, queue)
      /\ appending' = Tail(appending)
      /\ arrived' = Append(arrived, x)
      /\ UNCHANGED <<MsgQueue, batch, proposed, messages>>

\* Variant for a mutant: the array is used again.
Recycled(s) == Window(s, 0, 0)

Cleared(s) == EmptySlice

\* The monitor of a leader grabs what there is, if only for an empty proposal.
GrabWithMaxLenAndClear ==
  LET long == queue.len > MaxBatch
  IN  /\ ~Locked
      /\ batch.pc = "idle"
      /\ batch' = [pc |-> "propose",
                   s |-> IF long THEN Window(queue, 0, MaxBatch) ELSE queue]
      /\ queue' = IF long THEN Window(queue, MaxBatch, queue.len) ELSE Cleared(queue)
      /\ UNCHANGED <<mem, MsgQueue, appending, arrived, proposed, messages>>

\* StartHotStuff reads the batch to serialise it, whoever has the lock.
getTransactions ==
  /\ batch.pc = "propose"
  /\ proposed' = proposed \o Contents(mem, batch.s)
  /\ batch' = [batch EXCEPT !.pc = "idle"]
  /\ UNCHANGED <<mem, queue, MsgQueue, appending, arrived, messages>>

\* Variant for a mutant: the oldest messages stay.
TrimNewest(s) == IF s.len > MaxSize THEN Window(s, 0, MaxSize) ELSE s

Trim(s) == IF s.len > MaxSize THEN Window(s, s.len - MaxSize, s.len) ELSE s

\* AppendAndTrimToMaxSize, for every message HotStuffSendByteMsg gets.
HotStuffSendByteMsg(x) ==
  /\ Len(messages) < MaxMessages
  /\ mem' = Stored(mem, MsgQueue, x)
  /\ MsgQueue' = Trim(Appended(mem, MsgQueue))
  /\ messages' = Append(messages, x)
  /\ UNCHANGED <<queue, appending, batch, arrived, proposed>>

----------------------------------------------------------------------------

QueueInit ==
  /\ mem = << << >> >>
  /\ queue = EmptySlice
  /\ MsgQueue = EmptySlice
  /\ appending = << >>
  /\ batch = [pc |-> "idle", s |-> EmptySlice]
  /\ arrived = << >>
  /\ proposed = << >>
  /\ messages = << >>

QueueNext ==
  \/ \E n \in 1..MaxTogether : \E requests \in [1..n -> Requests] : HandleBatchRequest(requests)
  \/ AppendNext
  \/ GrabWithMaxLenAndClear
  \/ getTransactions
  \/ \E x \in Requests : HotStuffSendByteMsg(x)

QueueSpec == QueueInit /\ [][QueueNext]_queueVars

----------------------------------------------------------------------------

\* What is proposed, then held, then queued is what arrived, in its order: no
\* request is lost, proposed twice, or overwritten in a batch that was grabbed by
\* one that arrives before the batch is serialised.
ProposedAsArrived ==
  arrived = proposed
            \o (IF batch.pc = "propose" THEN Contents(mem, batch.s) ELSE << >>)
            \o Contents(mem, queue)

Latest(msgs) ==
  LET n == Len(msgs) IN IF n <= MaxSize THEN msgs ELSE SubSeq(msgs, n - MaxSize + 1, n)

\* MsgQueue holds the latest messages, as many as fit, although both queues slide
\* through arrays they have outgrown.
LatestMessages == Contents(mem, MsgQueue) = Latest(messages)
=============================================================================
