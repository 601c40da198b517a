---------------------------- MODULE ServiceProofs ----------------------------
(***************************************************************************)
(* Proofs about the services beside consensus whose goroutines share state:*)
(* Transport and ClientSender (MarkedAfterFiveFailures, GoodPeersKept),    *)
(* BlockOutput (SavedUpToGap, WrittenOnce) and RequestQueue                *)
(* (ProposedAsArrived, LatestMessages), for all constants and numbers of   *)
(* goroutines.                                                             *)
(*                                                                         *)
(* Connections.  NotLive reads a counter and writes it in two steps, so    *)
(* that increments get lost, and SetLive may reset the counter in between. *)
(* Both only make it smaller than the dials that failed.  What could make  *)
(* it too large is a failure that is counted twice, and that cannot be: a  *)
(* counter is never above the failures of those that have written it, that *)
(* is, of all but the goroutines that have failed and have yet to write.   *)
(* The timer is doubled in two steps as well.  It has been doubled at most *)
(* once for each failed dial, not counting those whose goroutine has yet to*)
(* do so (Reached); so while that many doublings fit, it is not below its  *)
(* first value and a peer that answers within that has not failed (Kept).  *)
(*                                                                         *)
(* Files.  The writer takes the number of committed blocks for the highest *)
(* height, and that number grows while it reads.  It is never below a      *)
(* height that was committed with all below it when the writer was started *)
(* (LengthCovers), so such a height is reached, found and written.         *)
(* What a writer has put into its map of timestamps is what it has written *)
(* (Known), so that it skips a transaction that is shown already, and no   *)
(* other.                                                                  *)
(*                                                                         *)
(* Queues.  What append writes is the cell behind its slice, or a new      *)
(* array.  A batch that was grabbed, and is read without the lock, is in   *)
(* another array than the queue, or in front of what the queue has left of *)
(* the array (Separate); so the cell is never one of the batch.            *)
(***************************************************************************)
EXTENDS ClientSender, BlockOutput, RequestQueue, FiniteSetTheorems, SequenceTheorems, TLAPS

----------------------------------------------------------------------------
(* The inductive invariant.                                                *)

Points == {"idle", "dial", "rpc", "read", "insert", "mark", "double", "write"}

SendTypes ==
  /\ DOMAIN sends = Senders
  /\ \A g \in Senders :
       /\ DOMAIN sends[g] = {"pc", "peer", "timeout", "v"}
       /\ sends[g].pc \in Points
       /\ sends[g].pc # "idle" => sends[g].peer \in Peers
       /\ sends[g].v \in Int

MapTypes == connectionMap \in [Peers -> Int] /\ failures \in [Peers -> Nat]

\* The dial of g to p failed, and g has yet to write the counter.
Counting(g, p) == sends[g].pc \in {"read", "insert"} /\ sends[g].peer = p

Pending(p) == Cardinality({ g \in Senders : Counting(g, p) })

PeerCounts(p) ==
  /\ Pending(p) <= failures[p]
  /\ connectionMap[p] <= failures[p] - Pending(p)
  /\ IsNotLive(p) => failures[p] >= 5

SendCounts(g) ==
  LET p == sends[g].peer
  IN  /\ sends[g].pc = "insert" => sends[g].v <= failures[p] - Pending(p)
      /\ sends[g].pc = "mark" => sends[g].v + 1 <= failures[p]

CountInv ==
  /\ SendTypes
  /\ MapTypes
  /\ \A p \in Peers : PeerCounts(p)
  /\ \A g \in Senders : SendCounts(g)

----------------------------------------------------------------------------
(* Senders that have yet to count.                                      *)

LEMMA PendingType ==
  ASSUME IsFiniteSet(Senders), NEW p
  PROVE  /\ Pending(p) \in Nat /\ IsFiniteSet({ g \in Senders : Counting(g, p) })
BY FS_Subset, FS_CardinalityType DEF Pending

LEMMA PendingSame ==
  ASSUME NEW p, \A h \in Senders : Counting(h, p)' <=> Counting(h, p)
  PROVE  Pending(p)' = Pending(p)
BY DEF Pending

LEMMA PendingMore ==
  ASSUME IsFiniteSet(Senders), NEW p, NEW g \in Senders,
         ~Counting(g, p), Counting(g, p)',
         \A h \in Senders \ {g} : Counting(h, p)' <=> Counting(h, p)
  PROVE  Pending(p)' = Pending(p) + 1
<1> DEFINE S == { h \in Senders : Counting(h, p) }
           T == { h \in Senders : Counting(h, p)' }
<1>1. T = S \cup {g} /\ g \notin S
  OBVIOUS
<1>2. IsFiniteSet(S)
  BY PendingType
<1>3. Cardinality(T) = Cardinality(S) + 1
  <2> HIDE DEF S, T
  <2> QED
    BY <1>1, <1>2, FS_AddElement
<1> QED
  BY <1>3 DEF Pending

LEMMA PendingLess ==
  ASSUME IsFiniteSet(Senders), NEW p, NEW g \in Senders,
         Counting(g, p), ~Counting(g, p)',
         \A h \in Senders \ {g} : Counting(h, p)' <=> Counting(h, p)
  PROVE  Pending(p)' = Pending(p) - 1
<1> DEFINE S == { h \in Senders : Counting(h, p) }
           T == { h \in Senders : Counting(h, p)' }
<1>1. T = S \ {g} /\ g \in S
  OBVIOUS
<1>2. IsFiniteSet(S)
  BY PendingType
<1>3. Cardinality(T) = Cardinality(S) - 1
  <2> HIDE DEF S, T
  <2> QED
    BY <1>1, <1>2, FS_RemoveElement
<1> QED
  BY <1>3 DEF Pending

----------------------------------------------------------------------------
(* The steps.                                                              *)

\* A goroutine that neither fails nor counts.
LEMMA IdleMove ==
  ASSUME CountInv, IsFiniteSet(Senders), NEW g \in Senders,
         UNCHANGED <<connectionMap, failures, notLive>>, SendTypes',
         sends[g].pc \notin {"read", "insert"},
         sends'[g].pc \notin {"read", "insert", "mark"},
         \A h \in Senders \ {g} : sends'[h] = sends[h]
  PROVE  CountInv'
<1>1. \A p \in Peers : \A h \in Senders : Counting(h, p)' <=> Counting(h, p)
  BY DEF Counting
<1>2. \A p \in Peers : Pending(p)' = Pending(p)
  BY <1>1, PendingSame
<1>3. MapTypes' /\ \A p \in Peers : PeerCounts(p)'
  BY <1>2 DEF CountInv, MapTypes, PeerCounts, IsNotLive
<1>4. \A h \in Senders : SendCounts(h)'
  BY <1>2 DEF CountInv, SendCounts, SendTypes
<1> QED
  BY <1>3, <1>4 DEF CountInv

LEMMA ByteSendStep ==
  ASSUME CountInv, IsFiniteSet(Senders), NEW g \in Senders, NEW p \in Peers,
         ByteSend(g, p)
  PROVE  CountInv'
<1>1. /\ sends[g].pc = "idle" /\ UNCHANGED <<connectionMap, failures, notLive>>
      /\ sends' = [sends EXCEPT ![g] = [pc |-> "dial", peer |-> p,
                                        timeout |-> broadcastTimer, v |-> 0]]
  BY DEF ByteSend, Quiet
<1>2. sends'[g].pc = "dial" /\ \A h \in Senders \ {g} : sends'[h] = sends[h]
  BY <1>1 DEF CountInv, SendTypes
<1>3. SendTypes'
  BY <1>1 DEF CountInv, SendTypes, Points
<1> QED
  BY <1>1, <1>2, <1>3, IdleMove

LEMMA QuietMoves ==
  ASSUME CountInv, IsFiniteSet(Senders), NEW g \in Senders,
         sends[g].pc \notin {"read", "insert"},
         UNCHANGED <<connectionMap, failures, notLive>>,
         \/ sends' = [sends EXCEPT ![g] = Quiet]
         \/ sends' = Next(g, "rpc") /\ sends[g].pc # "idle"
         \/ /\ sends' = [sends EXCEPT ![g].pc = "write", ![g].timeout = broadcastTimer]
            /\ sends[g].pc # "idle"
  PROVE  CountInv'
<1>1. /\ sends'[g].pc \in {"idle", "rpc", "write"}
      /\ \A h \in Senders \ {g} : sends'[h] = sends[h]
  BY DEF CountInv, SendTypes, Next, Quiet
<1>2. SendTypes'
  BY DEF CountInv, SendTypes, Points, Next, Quiet
<1> QED
  BY <1>1, <1>2, IdleMove

LEMMA DialStep ==
  ASSUME CountInv, IsFiniteSet(Senders), NEW g \in Senders, Dial(g)
  PROVE  CountInv'
<1>1. CASE BuildConnection(g)
  BY <1>1, QuietMoves DEF Dial, BuildConnection
<1>2. CASE DialFails(g)
  <2>0. PICK p \in Peers : p = sends[g].peer
    BY <1>2 DEF Dial, CountInv, SendTypes
  <2>1. /\ sends[g].pc = "dial"
        /\ sends' = [sends EXCEPT ![g].pc = "read", ![g].timeout = 0]
        /\ failures' = [failures EXCEPT ![p] = failures[p] + 1]
        /\ UNCHANGED <<connectionMap, notLive>>
    BY <1>2, <2>0 DEF Dial, DialFails
  <2>2. /\ sends'[g].pc = "read" /\ sends'[g].peer = p
        /\ \A h \in Senders \ {g} : sends'[h] = sends[h]
    BY <2>0, <2>1 DEF CountInv, SendTypes
  <2>3. SendTypes'
    BY <2>0, <2>1 DEF CountInv, SendTypes, Points
  <2>4. /\ failures'[p] = failures[p] + 1
        /\ \A q \in Peers \ {p} : failures'[q] = failures[q]
        /\ MapTypes'
    BY <2>1 DEF CountInv, MapTypes
  <2>5. Pending(p)' = Pending(p) + 1
    <3>1. ~Counting(g, p) /\ Counting(g, p)'
      BY <2>1, <2>2 DEF Counting
    <3>2. \A h \in Senders \ {g} : Counting(h, p)' <=> Counting(h, p)
      BY <2>2 DEF Counting
    <3> QED
      BY <3>1, <3>2, PendingMore
  <2>6. ASSUME NEW q \in Peers \ {p} PROVE Pending(q)' = Pending(q)
    <3>1. \A h \in Senders : Counting(h, q)' <=> Counting(h, q)
      BY <2>1, <2>2 DEF Counting
    <3> QED
      BY <3>1, PendingSame
  <2>7. \A q \in Peers : Pending(q) \in Nat
    BY PendingType
  <2>8. \A q \in Peers : PeerCounts(q)'
    BY <2>1, <2>4, <2>5, <2>6, <2>7 DEF CountInv, MapTypes, PeerCounts, IsNotLive
  <2>9. \A h \in Senders : SendCounts(h)'
    BY <2>0, <2>1, <2>2, <2>4, <2>5, <2>6, <2>7
       DEF CountInv, MapTypes, SendCounts, SendTypes
  <2> QED
    BY <2>3, <2>4, <2>8, <2>9 DEF CountInv
<1> QED
  BY <1>1, <1>2 DEF Dial

LEMMA NotLiveGetStep ==
  ASSUME CountInv, IsFiniteSet(Senders), NEW g \in Senders, NotLiveGet(g)
  PROVE  CountInv'
<1> DEFINE p == sends[g].peer
<1>1. /\ sends[g].pc = "read" /\ p \in Peers /\ connectionMap[p] \in Int
      /\ sends' = [sends EXCEPT ![g].pc = "insert", ![g].v = connectionMap[p]]
      /\ UNCHANGED <<connectionMap, failures, notLive>>
  BY DEF NotLiveGet, GetCount, CountInv, SendTypes, MapTypes
<1>2. /\ sends'[g].pc = "insert" /\ sends'[g].peer = p /\ sends'[g].v = connectionMap[p]
      /\ \A h \in Senders \ {g} : sends'[h] = sends[h]
  BY <1>1 DEF CountInv, SendTypes
<1>3. SendTypes'
  BY <1>1 DEF CountInv, SendTypes, Points
<1> HIDE DEF p
<1>4. \A q \in Peers : Pending(q)' = Pending(q)
  <2>1. \A q \in Peers : \A h \in Senders : Counting(h, q)' <=> Counting(h, q)
    BY <1>1, <1>2 DEF Counting, p
  <2> QED
    BY <2>1, PendingSame
<1>5. MapTypes' /\ \A q \in Peers : PeerCounts(q)'
  BY <1>1, <1>4 DEF CountInv, MapTypes, PeerCounts, IsNotLive
<1>6. \A h \in Senders : SendCounts(h)'
  BY <1>1, <1>2, <1>4 DEF CountInv, PeerCounts, SendCounts, SendTypes
<1> QED
  BY <1>3, <1>5, <1>6 DEF CountInv

LEMMA NotLiveInsertStep ==
  ASSUME CountInv, IsFiniteSet(Senders), NEW g \in Senders, NotLiveInsert(g)
  PROVE  CountInv'
<1>0. PICK p \in Peers, v \in Int : p = sends[g].peer /\ v = sends[g].v
  BY DEF NotLiveInsert, CountInv, SendTypes
<1>1. /\ sends[g].pc = "insert"
      /\ connectionMap' = [connectionMap EXCEPT ![p] = v + 1]
      /\ sends' = [sends EXCEPT ![g].pc = "mark"]
      /\ UNCHANGED <<failures, notLive>>
  BY <1>0 DEF NotLiveInsert, InsertCount, Next
<1>2. /\ sends'[g].pc = "mark" /\ sends'[g].peer = p /\ sends'[g].v = v
      /\ \A h \in Senders \ {g} : sends'[h] = sends[h]
  BY <1>0, <1>1 DEF CountInv, SendTypes
<1>3. SendTypes'
  BY <1>1 DEF CountInv, SendTypes, Points
<1>4. v <= failures[p] - Pending(p)
  BY <1>0, <1>1 DEF CountInv, SendCounts
<1>5. /\ MapTypes' /\ connectionMap'[p] = v + 1
      /\ \A q \in Peers \ {p} : connectionMap'[q] = connectionMap[q]
  BY <1>1 DEF CountInv, MapTypes
<1>6. Pending(p)' = Pending(p) - 1
  <2>1. Counting(g, p) /\ ~Counting(g, p)'
    BY <1>0, <1>1, <1>2 DEF Counting
  <2>2. \A h \in Senders \ {g} : Counting(h, p)' <=> Counting(h, p)
    BY <1>2 DEF Counting
  <2> QED
    BY <2>1, <2>2, PendingLess
<1>7. ASSUME NEW q \in Peers \ {p} PROVE Pending(q)' = Pending(q)
  <2>1. \A h \in Senders : Counting(h, q)' <=> Counting(h, q)
    BY <1>0, <1>1, <1>2 DEF Counting
  <2> QED
    BY <2>1, PendingSame
<1>8. \A q \in Peers : Pending(q) \in Nat /\ Pending(q)' \in Nat
  <2>1. \A q \in Peers : Pending(q) \in Nat
    BY PendingType
  <2>2. Pending(p)' \in Nat
    <3>1. { h \in Senders : Counting(h, p)' } \in SUBSET Senders
      OBVIOUS
    <3> QED
      BY <3>1, FS_Subset, FS_CardinalityType DEF Pending
  <2> QED
    BY <1>7, <2>1, <2>2
<1>9. \A q \in Peers : PeerCounts(q)'
  BY <1>1, <1>4, <1>5, <1>6, <1>7, <1>8 DEF CountInv, MapTypes, PeerCounts, IsNotLive
<1>10. \A h \in Senders : SendCounts(h)'
  BY <1>0, <1>1, <1>2, <1>4, <1>6, <1>7, <1>8
     DEF CountInv, MapTypes, SendCounts, SendTypes
<1> QED
  BY <1>3, <1>5, <1>9, <1>10 DEF CountInv

LEMMA NotLiveMarkStep ==
  ASSUME CountInv, IsFiniteSet(Senders), NEW g \in Senders, NotLiveMark(g)
  PROVE  CountInv'
<1> DEFINE p == sends[g].peer
<1>1. /\ sends[g].pc = "mark" /\ p \in Peers
      /\ sends' = [sends EXCEPT ![g].pc = "double", ![g].v = 0]
      /\ UNCHANGED <<connectionMap, failures>>
      /\ UNCHANGED notLive \/ (sends[g].v > 3 /\ notLive' = notLive \cup {p})
  BY DEF NotLiveMark, TooOften, maxLimit, InsertLiveness, CountInv, SendTypes
<1>2. sends'[g].pc = "double" /\ \A h \in Senders \ {g} : sends'[h] = sends[h]
  BY <1>1 DEF CountInv, SendTypes
<1>3. SendTypes'
  BY <1>1 DEF CountInv, SendTypes, Points
<1>4. \A q \in Peers : Pending(q)' = Pending(q)
  <2>1. \A q \in Peers : \A h \in Senders : Counting(h, q)' <=> Counting(h, q)
    BY <1>1, <1>2 DEF Counting
  <2> QED
    BY <2>1, PendingSame
<1>5. sends[g].v > 3 => failures[p] >= 5
  BY <1>1 DEF CountInv, SendCounts, SendTypes, MapTypes
<1>6. MapTypes' /\ \A q \in Peers : PeerCounts(q)'
  BY <1>1, <1>4, <1>5 DEF CountInv, MapTypes, PeerCounts, IsNotLive
<1>7. \A h \in Senders : SendCounts(h)'
  BY <1>1, <1>2, <1>4 DEF CountInv, SendCounts, SendTypes
<1> QED
  BY <1>3, <1>6, <1>7 DEF CountInv

\* A message of a peer resets its counter, which was not reset by less.
LEMMA SetLiveStep ==
  ASSUME CountInv, IsFiniteSet(Senders),
         SetLive \/ \E p \in Peers : SetLiveCount(p)
  PROVE  CountInv'
<1>1. /\ UNCHANGED <<sends, failures>> /\ notLive' \subseteq notLive
      /\ \/ UNCHANGED connectionMap
         \/ \E p \in Peers : connectionMap' = [connectionMap EXCEPT ![p] = 0]
  BY DEF SetLive, SetLiveCount, InsertLiveness, InsertCount
<1>2. /\ MapTypes'
      /\ \A q \in Peers : connectionMap'[q] \in {connectionMap[q], 0}
  BY <1>1 DEF CountInv, MapTypes
<1>3. SendTypes'
  BY <1>1 DEF CountInv, SendTypes
<1>4. \A q : Pending(q)' = Pending(q) /\ Pending(q) \in Nat
  BY <1>1, PendingType DEF Pending, Counting
<1>5. \A q \in Peers : PeerCounts(q)'
  BY <1>1, <1>2, <1>4 DEF CountInv, MapTypes, PeerCounts, IsNotLive
<1>6. \A h \in Senders : SendCounts(h)'
  BY <1>1, <1>4 DEF CountInv, SendCounts
<1> QED
  BY <1>2, <1>3, <1>5, <1>6 DEF CountInv

LEMMA SendStutter ==
  ASSUME CountInv, UNCHANGED <<sends, connectionMap, failures, notLive>>
  PROVE  CountInv'
BY DEF CountInv, SendTypes, MapTypes, PeerCounts, SendCounts, Pending, Counting, IsNotLive

LEMMA InitCountInv == TransportInit => CountInv
<1> SUFFICES ASSUME TransportInit PROVE CountInv
  OBVIOUS
<1> USE DEF TransportInit
<1>1. SendTypes /\ MapTypes
  BY DEF SendTypes, MapTypes, Quiet, Points
<1>2. \A p : { g \in Senders : Counting(g, p) } = {}
  BY DEF Counting, Quiet
<1>3. \A p : Pending(p) = 0
  BY <1>2, FS_EmptySet DEF Pending
<1>4. \A p \in Peers : PeerCounts(p)
  BY <1>3 DEF PeerCounts, IsNotLive
<1>5. \A g \in Senders : SendCounts(g)
  BY DEF SendCounts, Quiet
<1> QED
  BY <1>1, <1>4, <1>5 DEF CountInv

\* Steps that a replica and a client have in common.
LEMMA SharedStep ==
  ASSUME CountInv, IsFiniteSet(Senders), NEW g \in Senders,
         \/ \E p \in Peers : ByteSend(g, p)
         \/ Dial(g) \/ NotLiveGet(g) \/ NotLiveInsert(g) \/ NotLiveMark(g)
         \/ ReadTimer(g) \/ WriteTimer(g)
  PROVE  CountInv'
<1>1. CASE ReadTimer(g) \/ WriteTimer(g)
  BY <1>1, QuietMoves DEF ReadTimer, WriteTimer
<1> QED
  BY <1>1, ByteSendStep, DialStep, NotLiveGetStep, NotLiveInsertStep, NotLiveMarkStep

LEMMA TransportStep ==
  ASSUME CountInv, IsFiniteSet(Senders), [TransportNext]_sendVars
  PROVE  CountInv'
<1>1. CASE \E g \in Senders, p \in Peers : RBCByteBroadcast(g, p) \/ SendToNode(g, p)
  BY <1>1, SharedStep DEF RBCByteBroadcast, SendToNode
<1>2. CASE \E g \in Senders : Rpc(g)
  BY <1>2, QuietMoves DEF Rpc
<1>3. CASE UNCHANGED sendVars
  BY <1>3, SendStutter DEF sendVars
<1> QED
  BY <1>1, <1>2, <1>3, SharedStep, SetLiveStep DEF TransportNext

LEMMA ClientStep ==
  ASSUME CountInv, IsFiniteSet(Senders), [ClientNext]_clientVars
  PROVE  CountInv'
<1>1. CASE BroadcastRequest \/ UNCHANGED clientVars
  BY <1>1, SendStutter DEF BroadcastRequest, clientVars, sendVars
<1>2. CASE \E g \in Senders, p \in Peers : SendRequest(g, p)
  BY <1>2, SharedStep, SendStutter DEF SendRequest, sendVars
<1>3. CASE \E g \in Senders : RequestRpc(g)
  BY <1>3, QuietMoves DEF RequestRpc
<1> QED
  BY <1>1, <1>2, <1>3, SharedStep DEF ClientNext

----------------------------------------------------------------------------
(* The theorems.                                                           *)

LEMMA CountedFailures == CountInv => MarkedAfterFiveFailures
BY DEF CountInv, PeerCounts, MarkedAfterFiveFailures

\* A replica leaves a peer out of its broadcasts only after five failed dials.
THEOREM ReplicaMarksAfterFive ==
  ASSUME IsFiniteSet(Senders)
  PROVE  TransportSpec => []MarkedAfterFiveFailures
<1>1. CountInv /\ [TransportNext]_sendVars => CountInv'
  BY TransportStep
<1> QED
  BY <1>1, InitCountInv, CountedFailures, PTL DEF TransportSpec

\* So does a client.
THEOREM ClientMarksAfterFive ==
  ASSUME IsFiniteSet(Senders)
  PROVE  ClientSpec => []MarkedAfterFiveFailures
<1>1. CountInv /\ [ClientNext]_clientVars => CountInv'
  BY ClientStep
<1>2. ClientInit => CountInv
  BY InitCountInv DEF ClientInit
<1> QED
  BY <1>1, <1>2, CountedFailures, PTL DEF ClientSpec

----------------------------------------------------------------------------
(* Powers of two, which have no theory of their own: they count the subsets*)
(* of an interval.                                                         *)

LEMMA PowerCounts ==
  ASSUME NEW n \in Nat
  PROVE  IsFiniteSet(SUBSET (1..n)) /\ Cardinality(SUBSET (1..n)) = 2^n /\ 2^n \in Nat
<1>1. IsFiniteSet(1..n) /\ Cardinality(1..n) = n
  BY FS_Interval
<1>2. IsFiniteSet(SUBSET (1..n)) /\ Cardinality(SUBSET (1..n)) = 2^Cardinality(1..n)
  BY <1>1, FS_SUBSET
<1> QED
  BY <1>1, <1>2, FS_CardinalityType

LEMMA PowerDoubles ==
  ASSUME NEW n \in Nat
  PROVE  2^(n + 1) = 2 * 2^n
<1> DEFINE S == SUBSET (1..n)
           T == { s \cup {n + 1} : s \in S }
           f == [s \in S |-> s \cup {n + 1}]
<1>1. n + 1 \notin 1..n /\ 1..(n + 1) = (1..n) \cup {n + 1}
  OBVIOUS
<1>2. SUBSET (1..(n + 1)) = S \cup T
  <2>1. ASSUME NEW s \in SUBSET (1..(n + 1)) PROVE s \in S \cup T
    <3>1. s \ {n + 1} \in S
      BY <1>1
    <3>2. CASE n + 1 \in s
      <4>1. s = (s \ {n + 1}) \cup {n + 1}
        BY <3>2
      <4> QED
        BY <3>1, <4>1
    <3>3. CASE n + 1 \notin s
      BY <3>1, <3>3
    <3> QED
      BY <3>2, <3>3
  <2>2. ASSUME NEW s \in S \cup T PROVE s \in SUBSET (1..(n + 1))
    BY <1>1
  <2> QED
    BY <2>1, <2>2
<1>3. S \cap T = {}
  BY <1>1
<1>4. f \in Bijection(S, T)
  <2>1. \A s, t \in S : s \cup {n + 1} = t \cup {n + 1} => s = t
    BY <1>1
  <2>2. f \in [S -> T] /\ \A t \in T : \E s \in S : f[s] = t
    OBVIOUS
  <2>3. \A s, t \in S : f[s] = f[t] => s = t
    BY <2>1
  <2> HIDE DEF S, T, f
  <2>4. f \in Injection(S, T)
    BY <2>2, <2>3 DEF Injection, IsInjective
  <2>5. f \in Surjection(S, T)
    BY <2>2 DEF Surjection
  <2> QED
    BY <2>4, <2>5 DEF Bijection
<1>5. IsFiniteSet(S) /\ Cardinality(S) = 2^n /\ 2^n \in Nat
  BY PowerCounts
<1> HIDE DEF S, T, f
<1>6. IsFiniteSet(T) /\ Cardinality(T) = 2^n
  BY <1>4, <1>5, FS_Bijection DEF ExistsBijection
<1>7. Cardinality(S \cup T) = 2^n + 2^n
  <2>1. Cardinality(S \cup T) = Cardinality(S) + Cardinality(T) - Cardinality(S \cap T)
    BY <1>5, <1>6, FS_Union
  <2> QED
    BY <1>3, <1>5, <1>6, <2>1, FS_EmptySet
<1>8. Cardinality(SUBSET (1..(n + 1))) = 2^(n + 1)
  BY PowerCounts
<1> QED
  BY <1>2, <1>5, <1>7, <1>8

LEMMA PowerGrows ==
  ASSUME NEW m \in Nat, NEW n \in Nat, m <= n
  PROVE  2^m <= 2^n
<1> DEFINE S == SUBSET (1..m)
           T == SUBSET (1..n)
<1>1. S \subseteq T
  OBVIOUS
<1>2. IsFiniteSet(T) /\ Cardinality(S) = 2^m /\ Cardinality(T) = 2^n
  BY PowerCounts
<1> HIDE DEF S, T
<1>3. Cardinality(S) <= Cardinality(T)
  BY <1>1, <1>2, FS_Subset
<1> QED
  BY <1>2, <1>3

LEMMA PowerStart == 2^0 = 1
<1>1. SUBSET (1..0) = {{}}
  OBVIOUS
<1>2. Cardinality({{}}) = 1
  BY FS_Singleton
<1> QED
  BY <1>1, <1>2, PowerCounts

----------------------------------------------------------------------------
(* The timer.                                                              *)

\* What n doublings in turn make of the timer.
Grown(n) == InitialTimer * 2^n

LEMMA GrownFacts ==
  /\ \A n \in Nat : Grown(n) \in Nat /\ Grown(n + 1) = 2 * Grown(n)
  /\ \A m, n \in Nat : m <= n => Grown(m) <= Grown(n)
  /\ Grown(0) = InitialTimer
<1>1. ASSUME NEW n \in Nat PROVE Grown(n) \in Nat /\ Grown(n + 1) = 2 * Grown(n)
  <2>1. 2^n \in Nat /\ 2^(n + 1) = 2 * 2^n
    BY PowerCounts, PowerDoubles
  <2> DEFINE a == 2^n
             b == 2^(n + 1)
  <2> HIDE DEF a, b
  <2>2. InitialTimer * a \in Nat /\ InitialTimer * b = 2 * (InitialTimer * a)
    BY <2>1, TransportAssumption DEF a, b
  <2> QED
    BY <2>2 DEF Grown, a, b
<1>2. ASSUME NEW m \in Nat, NEW n \in Nat, m <= n PROVE Grown(m) <= Grown(n)
  <2>1. 2^m \in Nat /\ 2^n \in Nat /\ 2^m <= 2^n
    BY <1>2, PowerCounts, PowerGrows
  <2> DEFINE a == 2^m
             b == 2^n
  <2>2. a \in Nat /\ b \in Nat /\ a <= b
    BY <2>1
  <2> HIDE DEF a, b
  <2>3. InitialTimer * a <= InitialTimer * b
    BY <2>2, TransportAssumption
  <2> QED
    BY <2>3 DEF Grown, a, b
<1>3. Grown(0) = InitialTimer
  BY PowerStart, TransportAssumption DEF Grown
<1> QED
  BY <1>1, <1>2, <1>3

LEMMA MostType == Width - 1 \in Nat /\ 2^(Width - 1) \in Nat
<1>1. Width - 1 \in Nat
  BY TransportAssumption
<1> QED
  BY <1>1, PowerCounts

\* A duration that fits is kept as it is.
LEMMA WrappedFits ==
  ASSUME NEW d \in Nat, d < 2^(Width - 1)
  PROVE  Wrapped(d) = d
<1>1. Width - 1 \in Nat /\ (Width - 1) + 1 = Width
  BY TransportAssumption
<1>2. 2^(Width - 1) \in Nat /\ 2^Width = 2 * 2^(Width - 1)
  BY <1>1, PowerCounts, PowerDoubles
<1> DEFINE h == 2^(Width - 1)
           w == 2^Width
<1>3. h \in Nat /\ w = 2 * h /\ d < h
  BY <1>2
<1>4. Wrapped(d) = LET r == d % w IN IF r >= h THEN r - w ELSE r
  BY DEF Wrapped
<1> HIDE DEF h, w
<1>5. d % w = d
  BY <1>3
<1> QED
  BY <1>3, <1>4, <1>5

\* The dial of g failed, and the timer is not yet doubled for it.
Doubling(g) == sends[g].pc \in {"read", "insert", "mark", "double", "write"}

Undone == Cardinality({ g \in Senders : Doubling(g) })

Fits == Grown(failed) < 2^(Width - 1)

Reached == InitialTimer..Grown(failed - Undone)

SendTimes(g) ==
  /\ sends[g].pc = "write" => sends[g].timeout \in Reached
  /\ sends[g].pc \in {"dial", "rpc"} =>
       sends[g].timeout \in Nat /\ sends[g].timeout >= InitialTimer

TimerBounds ==
  /\ broadcastTimer \in Reached
  /\ \A g \in Senders : SendTimes(g)

Kept == \A p \in Good : failures[p] = 0 /\ p \notin lost

TimerInv ==
  /\ failed \in Nat
  /\ Undone <= failed
  /\ Fits => TimerBounds /\ Kept

LEMMA UndoneType ==
  ASSUME IsFiniteSet(Senders)
  PROVE  Undone \in Nat /\ IsFiniteSet({ g \in Senders : Doubling(g) })
BY FS_Subset, FS_CardinalityType DEF Undone

LEMMA UndoneMore ==
  ASSUME IsFiniteSet(Senders), NEW g \in Senders, ~Doubling(g), Doubling(g)',
         \A h \in Senders \ {g} : Doubling(h)' <=> Doubling(h)
  PROVE  Undone' = Undone + 1
<1> DEFINE S == { h \in Senders : Doubling(h) }
           T == { h \in Senders : Doubling(h)' }
<1>1. T = S \cup {g} /\ g \notin S
  OBVIOUS
<1>2. IsFiniteSet(S)
  BY UndoneType
<1>3. Cardinality(T) = Cardinality(S) + 1
  <2> HIDE DEF S, T
  <2> QED
    BY <1>1, <1>2, FS_AddElement
<1> QED
  BY <1>3 DEF Undone

LEMMA UndoneLess ==
  ASSUME IsFiniteSet(Senders), NEW g \in Senders, Doubling(g), ~Doubling(g)',
         \A h \in Senders \ {g} : Doubling(h)' <=> Doubling(h)
  PROVE  Undone' = Undone - 1 /\ Undone' \in Nat
<1> DEFINE S == { h \in Senders : Doubling(h) }
           T == { h \in Senders : Doubling(h)' }
<1>1. T = S \ {g} /\ g \in S
  OBVIOUS
<1>2. IsFiniteSet(S)
  BY UndoneType
<1>3. Cardinality(T) = Cardinality(S) - 1 /\ Cardinality(T) \in Nat
  <2> HIDE DEF S, T
  <2> QED
    BY <1>1, <1>2, FS_RemoveElement, FS_CardinalityType
<1> QED
  BY <1>3 DEF Undone

\* A step of g that neither fails nor doubles the timer.
LEMMA TimerKept ==
  ASSUME TimerInv, NEW g \in Senders,
         UNCHANGED <<broadcastTimer, failures, failed>>,
         \A h \in Senders \ {g} : sends'[h] = sends[h],
         Doubling(g)' <=> Doubling(g),
         Fits /\ TimerBounds =>
           /\ sends'[g].pc = "write" => sends'[g].timeout \in Reached
           /\ sends'[g].pc \in {"dial", "rpc"} =>
                sends'[g].timeout \in Nat /\ sends'[g].timeout >= InitialTimer
           /\ Good \cap lost' \subseteq lost
  PROVE  TimerInv'
<1>1. \A h \in Senders : Doubling(h)' <=> Doubling(h)
  BY DEF Doubling
<1>2. Undone' = Undone
  BY <1>1 DEF Undone
<1>3. Reached' = Reached /\ (Fits' <=> Fits)
  BY <1>2 DEF Reached, Grown, Fits
<1>4. ASSUME Fits' PROVE TimerBounds' /\ Kept'
  <2>1. Fits /\ TimerBounds /\ Kept
    BY <1>3, <1>4 DEF TimerInv
  <2>2. ASSUME NEW h \in Senders PROVE SendTimes(h)'
    BY <1>3, <2>1 DEF TimerBounds, SendTimes
  <2> QED
    BY <1>3, <2>1, <2>2 DEF TimerBounds, Kept
<1> QED
  BY <1>2, <1>4 DEF TimerInv

\* While the timer fits, nothing that is sent to a good peer fails.
LEMMA GoodAnswer ==
  ASSUME Fits, TimerInv, NEW g \in Senders, sends[g].pc \in {"dial", "rpc"},
         sends[g].peer \in Good
  PROVE  FALSE \notin Answers(g)
BY DEF TimerInv, TimerBounds, SendTimes, Answers

LEMMA TimerByteSend ==
  ASSUME TimerInv, SendTypes, NEW g \in Senders, NEW p \in Peers, ByteSend(g, p)
  PROVE  TimerInv'
<1>1. /\ sends[g].pc = "idle" /\ UNCHANGED <<broadcastTimer, failures, failed, lost>>
      /\ sends' = [sends EXCEPT ![g] = [pc |-> "dial", peer |-> p,
                                        timeout |-> broadcastTimer, v |-> 0]]
  BY DEF ByteSend, Quiet
<1>2. /\ sends'[g].pc = "dial" /\ sends'[g].timeout = broadcastTimer
      /\ \A h \in Senders \ {g} : sends'[h] = sends[h]
  BY <1>1 DEF SendTypes
<1>3. TimerBounds => broadcastTimer \in Nat /\ broadcastTimer >= InitialTimer
  BY TransportAssumption DEF TimerBounds, Reached
<1> QED
  BY <1>1, <1>2, <1>3, TimerKept DEF Doubling

LEMMA TimerDial ==
  ASSUME TimerInv, SendTypes, MapTypes, IsFiniteSet(Senders), NEW g \in Senders, Dial(g)
  PROVE  TimerInv'
<1>1. CASE BuildConnection(g)
  <2>1. /\ sends[g].pc = "dial" /\ UNCHANGED <<broadcastTimer, failures, failed, lost>>
        /\ sends' = [sends EXCEPT ![g].pc = "rpc"]
    BY <1>1 DEF Dial, BuildConnection, Next
  <2>2. /\ sends'[g].pc = "rpc" /\ sends'[g].timeout = sends[g].timeout
        /\ \A h \in Senders \ {g} : sends'[h] = sends[h]
    BY <2>1 DEF SendTypes
  <2>3. TimerBounds => sends[g].timeout \in Nat /\ sends[g].timeout >= InitialTimer
    BY <2>1 DEF TimerBounds, SendTimes
  <2> QED
    BY <2>1, <2>2, <2>3, TimerKept DEF Doubling
<1>2. CASE ~HasConnection(sends[g].peer) /\ FALSE \in Answers(g) /\ DialFails(g)
  <2> DEFINE p == sends[g].peer
  <2>1. /\ sends[g].pc = "dial" /\ FALSE \in Answers(g)
        /\ sends' = [sends EXCEPT ![g].pc = "read", ![g].timeout = 0]
        /\ failures' = [failures EXCEPT ![p] = failures[p] + 1]
        /\ failed' = failed + 1 /\ lost' = lost \cup {p}
        /\ UNCHANGED broadcastTimer
    BY <1>2 DEF Dial, DialFails
  <2>2. sends'[g].pc = "read" /\ \A h \in Senders \ {g} : sends'[h] = sends[h]
    BY <2>1 DEF SendTypes
  <2>3. Undone' = Undone + 1 /\ Undone \in Nat
    <3>1. ~Doubling(g) /\ Doubling(g)'
      BY <2>1, <2>2 DEF Doubling
    <3>2. \A h \in Senders \ {g} : Doubling(h)' <=> Doubling(h)
      BY <2>2 DEF Doubling
    <3> QED
      BY <3>1, <3>2, UndoneMore, UndoneType
  <2>4. failed \in Nat /\ failed' \in Nat /\ Undone' <= failed' /\ Undone <= failed
    BY <2>1, <2>3 DEF TimerInv
  <2>5. failed' - Undone' = failed - Undone
    BY <2>1, <2>3, <2>4
  <2>6. Reached' = Reached
    BY <2>5 DEF Reached, Grown
  <2>7. ASSUME Fits' PROVE TimerBounds' /\ Kept'
    <3>1. Fits
      <4>1. Grown(failed') < 2^(Width - 1)
        BY <2>7 DEF Fits, Grown
      <4>2. Grown(failed) <= Grown(failed')
        BY <2>1, <2>4, GrownFacts
      <4>3. Grown(failed) \in Nat /\ Grown(failed') \in Nat /\ 2^(Width - 1) \in Nat
        BY <2>4, GrownFacts, MostType
      <4> QED
        BY <4>1, <4>2, <4>3 DEF Fits
    <3>2. TimerBounds /\ Kept /\ p \notin Good
      BY <2>1, <3>1, GoodAnswer DEF TimerInv
    <3>3. \A h \in Senders : SendTimes(h)'
      BY <2>2, <2>6, <3>2 DEF TimerBounds, SendTimes
    <3>4. Kept'
      <4>1. \A q \in Good : failures'[q] = failures[q]
        BY <2>1, <3>2, TransportAssumption DEF MapTypes
      <4> QED
        BY <2>1, <3>2, <4>1 DEF Kept
    <3> QED
      BY <2>1, <2>6, <3>2, <3>3, <3>4 DEF TimerBounds
  <2> QED
    BY <2>4, <2>7 DEF TimerInv
<1> QED
  BY <1>1, <1>2 DEF Dial

\* An answer that comes too late is not that of a good peer.
LEMMA TimerRpc ==
  ASSUME TimerInv, SendTypes, NEW g \in Senders, sends[g].pc = "rpc",
         sends' = [sends EXCEPT ![g] = Quiet],
         lost' = lost \/ (FALSE \in Answers(g) /\ lost' = lost \cup {sends[g].peer}),
         UNCHANGED <<broadcastTimer, failures, failed>>
  PROVE  TimerInv'
<1>1. sends'[g].pc = "idle" /\ \A h \in Senders \ {g} : sends'[h] = sends[h]
  BY DEF SendTypes, Quiet
<1>2. Fits => Good \cap lost' \subseteq lost
  BY GoodAnswer
<1> QED
  BY <1>1, <1>2, TimerKept DEF Doubling

\* NotLive leaves the timer alone.
LEMMA TimerNotLive ==
  ASSUME TimerInv, SendTypes, NEW g \in Senders,
         NotLiveGet(g) \/ NotLiveInsert(g) \/ NotLiveMark(g)
  PROVE  TimerInv'
<1>1. /\ sends[g].pc \in {"read", "insert", "mark"}
      /\ sends'[g].pc \in {"insert", "mark", "double"}
      /\ \A h \in Senders \ {g} : sends'[h] = sends[h]
      /\ UNCHANGED <<broadcastTimer, failures, failed, lost>>
  BY DEF NotLiveGet, NotLiveInsert, NotLiveMark, Next, SendTypes
<1> QED
  BY <1>1, TimerKept DEF Doubling

LEMMA TimerRead ==
  ASSUME TimerInv, SendTypes, NEW g \in Senders, ReadTimer(g)
  PROVE  TimerInv'
<1>1. /\ sends[g].pc = "double" /\ UNCHANGED <<broadcastTimer, failures, failed, lost>>
      /\ sends' = [sends EXCEPT ![g].pc = "write", ![g].timeout = broadcastTimer]
  BY DEF ReadTimer
<1>2. /\ sends'[g].pc = "write" /\ sends'[g].timeout = broadcastTimer
      /\ \A h \in Senders \ {g} : sends'[h] = sends[h]
  BY <1>1 DEF SendTypes
<1>3. TimerBounds => broadcastTimer \in Reached
  BY DEF TimerBounds
<1> QED
  BY <1>1, <1>2, <1>3, TimerKept DEF Doubling

\* A doubling is written for each failure at most, and some get lost.
LEMMA TimerWrite ==
  ASSUME TimerInv, SendTypes, IsFiniteSet(Senders), NEW g \in Senders, WriteTimer(g)
  PROVE  TimerInv'
<1> DEFINE t == sends[g].timeout
           k == failed - Undone
<1>1. /\ sends[g].pc = "write" /\ UNCHANGED <<failures, failed, lost>>
      /\ broadcastTimer' = Wrapped(t * 2)
      /\ sends' = [sends EXCEPT ![g] = Quiet]
  BY DEF WriteTimer, Doubled
<1>2. sends'[g].pc = "idle" /\ \A h \in Senders \ {g} : sends'[h] = sends[h]
  BY <1>1 DEF SendTypes, Quiet
<1>3. Undone' = Undone - 1 /\ Undone \in Nat /\ Undone' \in Nat
  BY <1>1, <1>2, UndoneLess, UndoneType DEF Doubling
<1>4. failed' = failed /\ failed \in Nat /\ Undone <= failed /\ Undone' <= failed'
  BY <1>1, <1>3 DEF TimerInv
<1>5. k \in Nat /\ k + 1 <= failed /\ failed' - Undone' = k + 1
  BY <1>3, <1>4
<1>6. ASSUME Fits' PROVE TimerBounds' /\ Kept'
  <2>1. Fits /\ TimerBounds /\ Kept
    BY <1>1, <1>6 DEF Fits, Grown, TimerInv
  <2>2. t \in InitialTimer..Grown(k)
    BY <1>1, <2>1 DEF TimerBounds, SendTimes, Reached
  <2> HIDE DEF t, k
  <2>3. /\ Grown(k) \in Nat /\ Grown(k + 1) = 2 * Grown(k) /\ Grown(k) <= Grown(k + 1)
        /\ Grown(k + 1) <= Grown(failed) /\ Grown(failed) \in Nat
    <3>1. k \in Nat /\ k + 1 \in Nat /\ k <= k + 1 /\ k + 1 <= failed /\ failed \in Nat
      BY <1>4, <1>5
    <3> QED
      BY <3>1, GrownFacts
  <2>4. t * 2 \in InitialTimer..Grown(k + 1) /\ t * 2 \in Nat
    BY <2>2, <2>3, TransportAssumption
  <2>5. Grown(failed) < 2^(Width - 1) /\ 2^(Width - 1) \in Nat
    BY <2>1, MostType DEF Fits
  <2>6. broadcastTimer' = t * 2
    BY <1>1, <2>3, <2>4, <2>5, WrappedFits
  <2>7. /\ Reached' = InitialTimer..Grown(k + 1)
        /\ Reached \subseteq Reached'
    <3>1. Reached' = InitialTimer..Grown(k + 1)
      BY <1>5 DEF Reached, Grown
    <3>2. Reached = InitialTimer..Grown(k)
      BY DEF Reached, k
    <3> QED
      BY <2>3, <3>1, <3>2, TransportAssumption
  <2>8. \A h \in Senders : SendTimes(h)'
    <3>1. SUFFICES ASSUME NEW h \in Senders \ {g} PROVE SendTimes(h)'
      BY <1>2 DEF SendTimes
    <3> QED
      BY <1>2, <2>1, <2>7 DEF TimerBounds, SendTimes
  <2> QED
    BY <1>1, <2>1, <2>4, <2>6, <2>7, <2>8 DEF TimerBounds, Kept
<1> QED
  BY <1>4, <1>6 DEF TimerInv

LEMMA TimerStutter ==
  ASSUME TimerInv, UNCHANGED <<sends, broadcastTimer, failures, failed, lost>>
  PROVE  TimerInv'
BY DEF TimerInv, Undone, Doubling, Fits, TimerBounds, SendTimes, Reached, Kept

LEMMA InitTimerInv == TransportInit => TimerInv
<1> SUFFICES ASSUME TransportInit PROVE TimerInv
  OBVIOUS
<1> USE DEF TransportInit
<1>1. { g \in Senders : Doubling(g) } = {}
  BY DEF Doubling, Quiet
<1>2. Undone = 0
  BY <1>1, FS_EmptySet DEF Undone
<1>3. Reached = InitialTimer..InitialTimer
  BY <1>2, GrownFacts DEF Reached
<1>4. TimerBounds
  BY <1>3, TransportAssumption DEF TimerBounds, SendTimes, Quiet
<1>5. Kept
  BY TransportAssumption DEF Kept
<1> QED
  BY <1>2, <1>4, <1>5 DEF TimerInv

\* Steps that a replica and a client have in common.
LEMMA SharedTimerStep ==
  ASSUME TimerInv, CountInv, IsFiniteSet(Senders), NEW g \in Senders,
         \/ \E p \in Peers : ByteSend(g, p)
         \/ Dial(g) \/ NotLiveGet(g) \/ NotLiveInsert(g) \/ NotLiveMark(g)
         \/ ReadTimer(g) \/ WriteTimer(g)
  PROVE  TimerInv'
<1>1. SendTypes /\ MapTypes
  BY DEF CountInv
<1> QED
  BY <1>1, TimerByteSend, TimerDial, TimerNotLive, TimerRead, TimerWrite

LEMMA TransportTimerStep ==
  ASSUME TimerInv, CountInv, IsFiniteSet(Senders), [TransportNext]_sendVars
  PROVE  TimerInv'
<1>1. CASE \E g \in Senders, p \in Peers : RBCByteBroadcast(g, p) \/ SendToNode(g, p)
  BY <1>1, SharedTimerStep DEF RBCByteBroadcast, SendToNode
<1>2. CASE \E g \in Senders : Rpc(g)
  <2>1. PICK g \in Senders : Rpc(g)
    BY <1>2
  <2>2. lost' = lost \/ (FALSE \in Answers(g) /\ lost' = lost \cup {sends[g].peer})
    <3>1. PICK answer \in Answers(g) :
            lost' = IF answer THEN lost ELSE lost \cup {sends[g].peer}
      BY <2>1 DEF Rpc
    <3>2. answer = TRUE \/ answer = FALSE
      BY <3>1 DEF Answers
    <3> QED
      BY <3>1, <3>2
  <2> QED
    BY <2>1, <2>2, TimerRpc DEF Rpc, CountInv
<1>3. CASE SetLive \/ (\E p \in Peers : SetLiveCount(p)) \/ UNCHANGED sendVars
  BY <1>3, TimerStutter DEF SetLive, SetLiveCount, sendVars
<1> QED
  BY <1>1, <1>2, <1>3, SharedTimerStep DEF TransportNext

LEMMA ClientTimerStep ==
  ASSUME TimerInv, CountInv, IsFiniteSet(Senders), [ClientNext]_clientVars
  PROVE  TimerInv'
<1>1. CASE BroadcastRequest \/ UNCHANGED clientVars
  BY <1>1, TimerStutter DEF BroadcastRequest, clientVars, sendVars
<1>2. CASE \E g \in Senders, p \in Peers : SendRequest(g, p)
  BY <1>2, SharedTimerStep, TimerStutter DEF SendRequest, sendVars
<1>3. CASE \E g \in Senders : RequestRpc(g)
  <2>1. PICK g \in Senders : RequestRpc(g)
    BY <1>3
  <2> QED
    BY <2>1, TimerRpc DEF RequestRpc, CountInv
<1> QED
  BY <1>1, <1>2, <1>3, SharedTimerStep DEF ClientNext

LEMMA KeptWhileItFits == CountInv /\ TimerInv => GoodPeersKept
<1> SUFFICES ASSUME CountInv, TimerInv, InitialTimer * 2^failed < 2^(Width - 1),
                    NEW p \in Good
             PROVE  p \notin notLive /\ p \notin lost
  BY DEF GoodPeersKept
<1>1. Fits
  BY DEF Fits, Grown
<1>2. p \in Peers /\ failures[p] = 0 /\ p \notin lost
  BY <1>1, TransportAssumption DEF TimerInv, Kept
<1> QED
  BY <1>2 DEF CountInv, PeerCounts, IsNotLive

\* Whoever answers a replica in time gets its messages, while the timer fits.
THEOREM ReplicaKeepsGoodPeers ==
  ASSUME IsFiniteSet(Senders)
  PROVE  TransportSpec => []GoodPeersKept
<1> DEFINE I == CountInv /\ TimerInv
<1>1. I /\ [TransportNext]_sendVars => I'
  BY TransportStep, TransportTimerStep
<1>2. TransportInit => I
  BY InitCountInv, InitTimerInv
<1>3. I => GoodPeersKept
  BY KeptWhileItFits
<1> HIDE DEF I
<1> QED
  BY <1>1, <1>2, <1>3, PTL DEF TransportSpec

\* So does whoever answers a client in time.
THEOREM ClientKeepsGoodPeers ==
  ASSUME IsFiniteSet(Senders)
  PROVE  ClientSpec => []GoodPeersKept
<1> DEFINE I == CountInv /\ TimerInv
<1>1. I /\ [ClientNext]_clientVars => I'
  BY ClientStep, ClientTimerStep
<1>2. ClientInit => I
  BY InitCountInv, InitTimerInv DEF ClientInit
<1>3. I => GoodPeersKept
  BY KeptWhileItFits
<1> HIDE DEF I
<1> QED
  BY <1>1, <1>2, <1>3, PTL DEF ClientSpec

----------------------------------------------------------------------------
(* BlockOutput.                                                            *)

\* Blocks a saver was started for with all below them.
Complete(known) == { h \in known \ {0} : 1..h \subseteq known }

IsChain(out) ==
  /\ out = [h \in DOMAIN out |-> out[h]]
  /\ \A h \in DOMAIN out : h \in 1..MaxHeight /\ out[h] \in Seq(Transactions)

WriterTypes(w) ==
  /\ w = [limit |-> w.limit, i |-> w.i, j |-> w.j, tsmap |-> w.tsmap, txs |-> w.txs,
          out |-> w.out]
  /\ w.limit \in Nat /\ w.i \in Nat \ {0} /\ w.j \in Nat /\ w.txs \in Seq(Transactions)
  /\ IsChain(w.out)
  /\ \A h \in DOMAIN w.out : h < w.i
  /\ w.j # 0 => w.i \in 1..MaxHeight

Distinct(q) == \A k, l \in DOMAIN q : TS[q[k]] = TS[q[l]] => k = l

\* The map holds the timestamps of what was written, so that one not in it is new.
Known(w) ==
  /\ EachOnce(w.out) /\ Whole(w.out)
  /\ w.j = 0 => w.txs = << >>
  /\ Distinct(w.txs)
  /\ Times(w.txs) \cap TimesShown(w.out) = {}
  /\ w.tsmap = TimesShown(w.out) \cup Times(w.txs)
  /\ \A k \in 1..w.j - 1 : TS[Bodies[w.i][k]] \in w.tsmap

IsWriter(w) == WriterTypes(w) /\ Known(w)

IsSaver(r) ==
  /\ r = [pc |-> r.pc, known |-> r.known, w |-> r.w]
  /\ r.known \in SUBSET Heights
  /\ IsWriter(r.w)

SaverTypes ==
  /\ savers = [s \in Savers |-> savers[s]]
  /\ \A s \in Savers : IsSaver(savers[s])
  /\ committedBlocks \in SUBSET Heights

\* What saver s has written so far, and how far it will get.
Saved(s) ==
  LET known == savers[s].known
      w == savers[s].w
  IN  /\ savers[s].pc # "none" => known \subseteq committedBlocks
      /\ savers[s].pc \in {"read", "write", "done"} =>
           \A h \in Complete(known) : h <= w.limit /\ (h < w.i => h \in DOMAIN w.out)
      /\ savers[s].pc \in {"write", "done"} => ~Reading(w)

Filed ==
  /\ EachOnce(file.blocks) /\ Whole(file.blocks)
  /\ file.by # 0 => /\ file.by \in Savers
                    /\ savers[file.by].pc = "done"
                    /\ file.blocks = savers[file.by].w.out

\* The handler that prints.
Printing == IsWriter(printer) /\ lockedHeight \in Nat

OutputInv ==
  /\ SaverTypes
  /\ Printing
  /\ \A s \in Savers : Saved(s)
  /\ Filed

----------------------------------------------------------------------------
(* What is written.                                                        *)

LEMMA NewWriter ==
  ASSUME NEW limit \in Nat
  PROVE  /\ IsWriter(Writer(limit)) /\ Writer(limit).limit = limit /\ Writer(limit).i = 1
         /\ DOMAIN Writer(limit).out = {}
<1> DEFINE w == Writer(limit)
           none == [h \in {} |-> << >>]
<1>1. w = [limit |-> limit, i |-> 1, j |-> 0, tsmap |-> {}, txs |-> << >>, out |-> none]
  BY DEF Writer
<1>2. DOMAIN none = {} /\ TimesShown(none) = {} /\ EachOnce(none) /\ Whole(none) /\ IsChain(none)
  BY DEF TimesShown, EachOnce, Whole, IsChain
<1> HIDE DEF none, w
<1>3. w.limit = limit /\ w.i = 1 /\ w.j = 0 /\ w.tsmap = {} /\ w.txs = << >> /\ w.out = none
      /\ w = [limit |-> w.limit, i |-> w.i, j |-> w.j, tsmap |-> w.tsmap, txs |-> w.txs,
              out |-> w.out]
  BY <1>1
<1>4. << >> \in Seq(Transactions) /\ Times(<< >>) = {} /\ Distinct(<< >>)
  BY DEF Times, Distinct
<1>5. WriterTypes(w)
  BY <1>2, <1>3, <1>4 DEF WriterTypes
<1>6. Known(w)
  BY <1>2, <1>3, <1>4 DEF Known
<1> QED
  BY <1>2, <1>3, <1>5, <1>6 DEF IsWriter, w

LEMMA AppendTimes ==
  ASSUME NEW q \in Seq(Transactions), NEW x \in Transactions
  PROVE  /\ Append(q, x) \in Seq(Transactions)
         /\ Times(Append(q, x)) = Times(q) \cup {TS[x]}
         /\ Distinct(q) /\ TS[x] \notin Times(q) => Distinct(Append(q, x))
<1> DEFINE p == Append(q, x)
<1>1. /\ p \in Seq(Transactions) /\ Len(q) \in Nat /\ DOMAIN q = 1..Len(q) /\ DOMAIN p = 1..Len(q) + 1
      /\ p[Len(q) + 1] = x /\ \A k \in 1..Len(q) : p[k] = q[k]
  BY AppendProperties
<1> HIDE DEF p
<1>2. \A k \in DOMAIN p : k \in DOMAIN q \/ k = Len(q) + 1
  BY <1>1
<1>3. DOMAIN q \subseteq DOMAIN p /\ Len(q) + 1 \in DOMAIN p /\ Len(q) + 1 \notin DOMAIN q
  BY <1>1
<1>4. Times(p) = Times(q) \cup {TS[x]}
  BY <1>1, <1>2, <1>3 DEF Times
<1>5. ASSUME Distinct(q), TS[x] \notin Times(q), NEW k \in DOMAIN p, NEW l \in DOMAIN p,
             TS[p[k]] = TS[p[l]]
      PROVE  k = l
  BY <1>1, <1>2, <1>5 DEF Distinct, Times
<1> QED
  BY <1>1, <1>4, <1>5 DEF Distinct, p

LEMMA GetBlockKnown ==
  ASSUME NEW w, IsWriter(w), w.j = 0, committedBlocks \in SUBSET Heights
  PROVE  LET n == GetBlock(w)
         IN  /\ IsWriter(n) /\ n.limit = w.limit /\ n.out = w.out
             /\ w.i \in committedBlocks => n.i = w.i
             /\ w.i \notin committedBlocks => n.i = w.i + 1
<1> DEFINE n == GetBlock(w)
<1>0. /\ w = [limit |-> w.limit, i |-> w.i, j |-> w.j, tsmap |-> w.tsmap, txs |-> w.txs,
              out |-> w.out]
      /\ w.limit \in Nat /\ w.i \in Nat \ {0} /\ w.j \in Nat /\ w.txs \in Seq(Transactions)
      /\ IsChain(w.out) /\ \A h \in DOMAIN w.out : h < w.i
  BY DEF IsWriter, WriterTypes
<1>1. CASE w.i \in committedBlocks
  <2>1. n = [w EXCEPT !.j = 1]
    BY <1>1 DEF GetBlock, FoundBlock
  <2> HIDE DEF n
  <2>2. n = [limit |-> w.limit, i |-> w.i, j |-> 1, tsmap |-> w.tsmap, txs |-> w.txs,
             out |-> w.out]
    BY <1>0, <2>1
  <2>3. w.i \in 1..MaxHeight
    BY <1>0, <1>1, OutputAssumption DEF Heights, OutputAssumption
  <2>4. WriterTypes(n)
    BY <1>0, <2>2, <2>3 DEF WriterTypes
  <2>5. Known(n)
    BY <2>2 DEF IsWriter, Known
  <2> QED
    BY <1>1, <2>2, <2>4, <2>5 DEF IsWriter, n
<1>2. CASE w.i \notin committedBlocks
  <2>1. n = [w EXCEPT !.i = w.i + 1]
    BY <1>2 DEF GetBlock, SkipBlock
  <2> HIDE DEF n
  <2>2. n = [limit |-> w.limit, i |-> w.i + 1, j |-> 0, tsmap |-> w.tsmap, txs |-> w.txs,
             out |-> w.out]
    BY <1>0, <2>1
  <2>3. w.i + 1 \in Nat \ {0} /\ \A h \in DOMAIN w.out : h < w.i + 1
    BY <1>0 DEF IsChain
  <2>4. WriterTypes(n)
    BY <1>0, <2>2, <2>3 DEF WriterTypes
  <2>5. Known(n)
    BY <2>2 DEF IsWriter, Known
  <2> QED
    BY <1>2, <2>2, <2>4, <2>5 DEF IsWriter, n
<1> QED
  BY <1>1, <1>2

LEMMA WriteTransactionKnown ==
  ASSUME NEW w, IsWriter(w), w.j # 0, w.j <= Len(Bodies[w.i])
  PROVE  LET n == WriteTransaction(w)
         IN  IsWriter(n) /\ n.limit = w.limit /\ n.i = w.i /\ n.out = w.out
<1> DEFINE n == WriteTransaction(w)
           tx == Bodies[w.i][w.j]
<1>0. /\ w = [limit |-> w.limit, i |-> w.i, j |-> w.j, tsmap |-> w.tsmap, txs |-> w.txs,
              out |-> w.out]
      /\ w.limit \in Nat /\ w.i \in Nat \ {0} /\ w.j \in Nat /\ w.txs \in Seq(Transactions)
      /\ IsChain(w.out) /\ \A h \in DOMAIN w.out : h < w.i
      /\ w.i \in 1..MaxHeight
  BY DEF IsWriter, WriterTypes
<1>1. tx \in Transactions
  <2>1. Bodies[w.i] \in Seq(Transactions)
    BY <1>0, OutputAssumption DEF OutputAssumption
  <2>2. w.j \in 1..Len(Bodies[w.i])
    BY <1>0, <2>1, LenProperties
  <2> QED
    BY <2>1, <2>2, ElementOfSeq
<1>2. /\ EachOnce(w.out) /\ Whole(w.out) /\ Distinct(w.txs) /\ Times(w.txs) \cap TimesShown(w.out) = {}
      /\ w.tsmap = TimesShown(w.out) \cup Times(w.txs)
      /\ \A k \in 1..w.j - 1 : TS[Bodies[w.i][k]] \in w.tsmap
  BY DEF IsWriter, Known
<1>3. \A k \in 1..(w.j + 1) - 1 : k \in 1..w.j - 1 \/ k = w.j
  BY <1>0
<1>4. CASE TS[tx] \in w.tsmap
  <2>1. n = [w EXCEPT !.j = w.j + 1]
    BY <1>4 DEF WriteTransaction
  <2> HIDE DEF n
  <2>2. n = [limit |-> w.limit, i |-> w.i, j |-> w.j + 1, tsmap |-> w.tsmap, txs |-> w.txs,
             out |-> w.out]
    BY <1>0, <2>1
  <2>3. WriterTypes(n)
    BY <1>0, <2>2 DEF WriterTypes
  <2>4. n.j # 0
    BY <1>0, <2>2
  <2>5. Known(n)
    BY <1>2, <1>3, <1>4, <2>2, <2>4 DEF Known
  <2> QED
    BY <2>2, <2>3, <2>5 DEF IsWriter, n
<1>5. CASE TS[tx] \notin w.tsmap
  <2> DEFINE txs == Append(w.txs, tx)
             map == w.tsmap \cup {TS[tx]}
  <2>1. n = [w EXCEPT !.j = w.j + 1, !.tsmap = map, !.txs = txs]
    BY <1>5 DEF WriteTransaction
  <2>2. TS[tx] \notin Times(w.txs) /\ TS[tx] \notin TimesShown(w.out)
    BY <1>2, <1>5
  <2>3. txs \in Seq(Transactions) /\ Times(txs) = Times(w.txs) \cup {TS[tx]} /\ Distinct(txs)
    BY <1>0, <1>1, <1>2, <2>2, AppendTimes
  <2> HIDE DEF n, txs
  <2>4. n = [limit |-> w.limit, i |-> w.i, j |-> w.j + 1, tsmap |-> map, txs |-> txs,
             out |-> w.out]
    BY <1>0, <2>1
  <2>5. WriterTypes(n)
    BY <1>0, <2>3, <2>4 DEF WriterTypes
  <2>6. n.j # 0
    BY <1>0, <2>4
  <2>7. \A k \in 1..n.j - 1 : TS[Bodies[n.i][k]] \in n.tsmap
    BY <1>2, <1>3, <2>4
  <2> HIDE DEF tx
  <2>8. Known(n)
    BY <1>2, <2>2, <2>3, <2>4, <2>6, <2>7 DEF Known
  <2> QED
    BY <2>4, <2>5, <2>8 DEF IsWriter, n
<1> QED
  BY <1>4, <1>5

LEMMA WriteBlockKnown ==
  ASSUME NEW w, IsWriter(w), w.j # 0, ~(w.j <= Len(Bodies[w.i]))
  PROVE  LET n == WriteBlock(w)
         IN  /\ IsWriter(n) /\ n.limit = w.limit /\ n.i = w.i + 1
             /\ DOMAIN n.out = DOMAIN w.out \cup {w.i}
<1> DEFINE n == WriteBlock(w)
           out == WithBlock(w.out, w.i, w.txs)
<1>0. /\ w = [limit |-> w.limit, i |-> w.i, j |-> w.j, tsmap |-> w.tsmap, txs |-> w.txs,
              out |-> w.out]
      /\ w.limit \in Nat /\ w.i \in Nat \ {0} /\ w.j \in Nat /\ w.txs \in Seq(Transactions)
      /\ IsChain(w.out) /\ \A h \in DOMAIN w.out : h < w.i
      /\ w.i \in 1..MaxHeight
  BY DEF IsWriter, WriterTypes
<1>1. /\ EachOnce(w.out) /\ Whole(w.out) /\ Distinct(w.txs) /\ Times(w.txs) \cap TimesShown(w.out) = {}
      /\ w.tsmap = TimesShown(w.out) \cup Times(w.txs)
      /\ \A k \in 1..w.j - 1 : TS[Bodies[w.i][k]] \in w.tsmap
  BY DEF IsWriter, Known
<1>2. n = [limit |-> w.limit, i |-> w.i + 1, j |-> 0, tsmap |-> w.tsmap, txs |-> << >>,
           out |-> out]
  <2>1. n = [w EXCEPT !.i = w.i + 1, !.j = 0, !.txs = << >>, !.out = out]
    BY DEF WriteBlock
  <2> HIDE DEF n, out
  <2> QED
    BY <1>0, <2>1
<1>3. /\ DOMAIN out = DOMAIN w.out \cup {w.i} /\ out[w.i] = w.txs
      /\ \A h \in DOMAIN w.out : out[h] = w.out[h] /\ h # w.i
      /\ out = [h \in DOMAIN out |-> out[h]]
  BY <1>0 DEF WithBlock
<1> HIDE DEF n, out
<1>4. TimesShown(out) = w.tsmap
  <2>1. TimesShown(out) = TimesShown(w.out) \cup Times(w.txs)
    BY <1>3 DEF TimesShown
  <2> QED
    BY <1>1, <2>1
<1>5. WriterTypes(n)
  <2>1. IsChain(out)
    BY <1>0, <1>3 DEF IsChain
  <2>2. \A h \in DOMAIN out : h < w.i + 1
    BY <1>0, <1>3 DEF IsChain
  <2> QED
    BY <1>0, <1>2, <2>1, <2>2 DEF WriterTypes
<1>6. EachOnce(out)
  <2> SUFFICES ASSUME NEW g \in DOMAIN out, NEW h \in DOMAIN out, NEW j \in DOMAIN out[g],
                      NEW k \in DOMAIN out[h], TS[out[g][j]] = TS[out[h][k]]
               PROVE  g = h /\ j = k
    BY DEF EachOnce
  <2>1. CASE g # w.i /\ h # w.i
    BY <1>1, <1>3, <2>1 DEF EachOnce
  <2>2. CASE g = w.i /\ h = w.i
    BY <1>1, <1>3, <2>2 DEF Distinct
  <2>3. ASSUME NEW a \in DOMAIN w.out, NEW l \in DOMAIN w.out[a], NEW b \in DOMAIN w.txs,
               TS[w.out[a][l]] = TS[w.txs[b]]
        PROVE  FALSE
    <3>1. TS[w.out[a][l]] \in TimesShown(w.out)
      BY DEF TimesShown, Times
    <3>2. TS[w.txs[b]] \in Times(w.txs)
      BY DEF Times
    <3> QED
      BY <1>1, <2>3, <3>1, <3>2
  <2>4. CASE g = w.i /\ h # w.i
    BY <1>3, <2>3, <2>4
  <2>5. CASE g # w.i /\ h = w.i
    BY <1>3, <2>3, <2>5
  <2> QED
    BY <2>1, <2>2, <2>4, <2>5
<1>7. Whole(out)
  <2>1. Times(Bodies[w.i]) \subseteq w.tsmap
    <3>1. Bodies[w.i] \in Seq(Transactions)
      BY <1>0, OutputAssumption DEF OutputAssumption
    <3>2. DOMAIN Bodies[w.i] = 1..Len(Bodies[w.i]) /\ Len(Bodies[w.i]) \in Nat
      BY <3>1, LenProperties
    <3>3. \A k \in DOMAIN Bodies[w.i] : k \in 1..w.j - 1
      BY <1>0, <3>2
    <3> QED
      BY <1>1, <3>3 DEF Times
  <2>2. ASSUME NEW h \in DOMAIN w.out PROVE Times(Bodies[h]) \subseteq w.tsmap
    BY <1>1 DEF Whole
  <2> QED
    BY <1>3, <1>4, <2>1, <2>2 DEF Whole
<1>8. Known(n)
  <2>1. Times(<< >>) = {} /\ Distinct(<< >>)
    BY DEF Times, Distinct
  <2>2. n.i = w.i + 1 /\ n.j = 0 /\ n.tsmap = w.tsmap /\ n.txs = << >> /\ n.out = out
    BY <1>2
  <2> QED
    BY <1>4, <1>6, <1>7, <2>1, <2>2 DEF Known
<1> QED
  BY <1>2, <1>3, <1>5, <1>8 DEF IsWriter, n

\* One round: what was written stays, and a committed block is not left without being
\* written.
LEMMA AdvanceWrites ==
  ASSUME NEW w, IsWriter(w), committedBlocks \in SUBSET Heights
  PROVE  LET n == Advance(w)
         IN  /\ IsWriter(n) /\ n.limit = w.limit
             /\ DOMAIN w.out \subseteq DOMAIN n.out
             /\ n.i \in {w.i, w.i + 1}
             /\ n.i # w.i /\ w.i \in committedBlocks => w.i \in DOMAIN n.out
<1>1. CASE w.j = 0
  <2> DEFINE n == GetBlock(w)
  <2>1. /\ IsWriter(n) /\ n.limit = w.limit /\ n.out = w.out
        /\ w.i \in committedBlocks => n.i = w.i
        /\ w.i \notin committedBlocks => n.i = w.i + 1
    BY <1>1, GetBlockKnown
  <2>2. Advance(w) = n
    BY <1>1 DEF Advance
  <2> HIDE DEF n
  <2> QED
    BY <2>1, <2>2
<1>2. CASE w.j # 0 /\ w.j <= Len(Bodies[w.i])
  <2> DEFINE n == WriteTransaction(w)
  <2>1. IsWriter(n) /\ n.limit = w.limit /\ n.i = w.i /\ n.out = w.out
    BY <1>2, WriteTransactionKnown
  <2>2. Advance(w) = n
    BY <1>2 DEF Advance
  <2> HIDE DEF n
  <2> QED
    BY <2>1, <2>2
<1>3. CASE w.j # 0 /\ ~(w.j <= Len(Bodies[w.i]))
  <2>1. Advance(w) = WriteBlock(w)
    BY <1>3 DEF Advance
  <2> QED
    BY <1>3, <2>1, WriteBlockKnown
<1> QED
  BY <1>1, <1>2, <1>3

LEMMA LengthType ==
  ASSUME SaverTypes
  PROVE  IsFiniteSet(committedBlocks) /\ Length \in Nat
<1>1. MaxHeight \in Nat
  BY OutputAssumption DEF OutputAssumption
<1>2. IsFiniteSet(0..MaxHeight)
  BY <1>1, FS_Interval
<1>3. committedBlocks \in SUBSET (0..MaxHeight)
  BY DEF SaverTypes, Heights
<1>4. IsFiniteSet(committedBlocks)
  BY <1>2, <1>3, FS_Subset
<1> QED
  BY <1>4, FS_CardinalityType DEF Length

\* There are as many committed blocks as the highest that is complete, or more.
LEMMA LengthCovers ==
  ASSUME SaverTypes, NEW known, known \subseteq committedBlocks,
         NEW h \in Complete(known)
  PROVE  h \in Nat /\ h <= Length
<1>1. h \in Nat /\ 1..h \subseteq committedBlocks
  BY DEF Complete, SaverTypes, Heights
<1>2. IsFiniteSet(committedBlocks)
  BY LengthType
<1>3. Cardinality(1..h) = h
  BY <1>1, FS_Interval
<1>4. Cardinality(1..h) <= Cardinality(committedBlocks)
  BY <1>1, <1>2, FS_Subset
<1> QED
  BY <1>1, <1>3, <1>4 DEF Length

----------------------------------------------------------------------------
(* Steps.                                                                  *)

LEMMA InitOutputInv == OutputInit => OutputInv
<1> SUFFICES ASSUME OutputInit PROVE OutputInv
  OBVIOUS
<1>1. \A s \in Savers : savers[s] = [pc |-> "none", known |-> {}, w |-> Writer(0)]
  BY DEF OutputInit
<1>2. SaverTypes
  <2>1. savers = [s \in Savers |-> savers[s]]
    BY DEF OutputInit
  <2> QED
    BY <1>1, <2>1, NewWriter DEF SaverTypes, IsSaver, OutputInit
<1>3. \A s \in Savers : Saved(s)
  BY <1>1 DEF Saved
<1>4. Printing
  BY NewWriter DEF Printing, OutputInit
<1>5. Filed
  <2>1. EachOnce(Writer(0).out) /\ Whole(Writer(0).out)
    BY NewWriter DEF IsWriter, Known
  <2> QED
    BY <2>1 DEF Filed, OutputInit
<1> QED
  BY <1>2, <1>3, <1>4, <1>5 DEF OutputInv

\* The handlers of a proposal and of an ECHO2 message add committed blocks, and print.
LEMMA HandlerStep ==
  ASSUME OutputInv, UNCHANGED <<savers, file>>, Printing',
         committedBlocks \subseteq committedBlocks', committedBlocks' \in SUBSET Heights
  PROVE  OutputInv'
<1>1. SaverTypes'
  BY DEF OutputInv, SaverTypes
<1>2. ASSUME NEW s \in Savers PROVE Saved(s)'
  BY DEF OutputInv, Saved, Complete, Reading
<1> QED
  BY <1>1, <1>2 DEF OutputInv, Filed

\* A saver that goes on does not concern the others.
LEMMA SaverMoves ==
  ASSUME OutputInv, UNCHANGED <<committedBlocks, lockedHeight, printer>>, NEW s \in Savers,
         NEW r, IsSaver(r), savers' = [savers EXCEPT ![s] = r]
  PROVE  /\ SaverTypes' /\ Printing'
         /\ savers'[s] = r
         /\ \A t \in Savers : t # s => savers'[t] = savers[t] /\ Saved(t)'
         /\ savers[s].pc # "done" /\ UNCHANGED file => Filed'
<1>1. /\ savers = [t \in Savers |-> savers[t]]
      /\ savers'[s] = r
      /\ \A t \in Savers : t # s => savers'[t] = savers[t]
      /\ savers' = [t \in Savers |-> savers'[t]]
  BY DEF OutputInv, SaverTypes
<1>2. SaverTypes'
  <2>1. IsSaver(savers'[s])
    BY <1>1
  <2>2. ASSUME NEW t \in Savers, t # s PROVE IsSaver(savers'[t])
    BY <1>1, <2>2 DEF OutputInv, SaverTypes
  <2>3. committedBlocks' \in SUBSET Heights
    BY DEF OutputInv, SaverTypes
  <2> QED
    BY <1>1, <2>1, <2>2, <2>3 DEF SaverTypes
<1>3. ASSUME NEW t \in Savers, t # s PROVE Saved(t)'
  <2>1. Saved(t) /\ savers'[t] = savers[t]
    BY <1>1, <1>3 DEF OutputInv
  <2> QED
    BY <2>1 DEF Saved, Complete, Reading
<1>4. savers[s].pc # "done" /\ UNCHANGED file => Filed'
  BY <1>1 DEF OutputInv, Filed
<1>5. Printing'
  BY DEF OutputInv, Printing
<1> QED
  BY <1>1, <1>2, <1>3, <1>4, <1>5

LEMMA StartSaverStep ==
  ASSUME OutputInv, NEW s \in Savers, StartSaver(s) PROVE OutputInv'
<1> DEFINE r == [pc |-> "start", known |-> committedBlocks, w |-> savers[s].w]
<1>1. IsSaver(savers[s]) /\ savers[s].pc = "none" /\ committedBlocks \in SUBSET Heights
      /\ UNCHANGED <<committedBlocks, lockedHeight, printer, file>>
  BY DEF OutputInv, SaverTypes, StartSaver
<1>2. savers' = [savers EXCEPT ![s] = r]
  BY DEF StartSaver
<1>3. IsSaver(r) /\ r.pc = "start" /\ r.known = committedBlocks
  BY <1>1 DEF IsSaver
<1> HIDE DEF r
<1>4. SaverTypes' /\ Printing' /\ Filed' /\ savers'[s] = r /\ \A t \in Savers : t # s => Saved(t)'
  BY <1>1, <1>2, <1>3, SaverMoves
<1>5. Saved(s)'
  BY <1>1, <1>3, <1>4 DEF Saved
<1> QED
  BY <1>4, <1>5 DEF OutputInv

LEMMA SaverLengthStep ==
  ASSUME OutputInv, NEW s \in Savers, SaverLength(s) PROVE OutputInv'
<1> DEFINE known == savers[s].known
           r == [pc |-> "read", known |-> known, w |-> Writer(Length)]
<1>1. /\ IsSaver(savers[s]) /\ savers[s].pc = "start"
      /\ known \subseteq committedBlocks /\ UNCHANGED <<committedBlocks, lockedHeight, printer, file>>
  BY DEF OutputInv, SaverTypes, Saved, SaverLength
<1>2. savers' = [savers EXCEPT ![s] = r]
  BY DEF SaverLength
<1>3. IsWriter(Writer(Length)) /\ Writer(Length).limit = Length /\ Writer(Length).i = 1
  BY LengthType, NewWriter DEF OutputInv
<1>4. IsSaver(r) /\ r.pc = "read" /\ r.known = known /\ r.w = Writer(Length)
  BY <1>1, <1>3 DEF IsSaver
<1> HIDE DEF r, known
<1>5. SaverTypes' /\ Printing' /\ Filed' /\ savers'[s] = r /\ \A t \in Savers : t # s => Saved(t)'
  BY <1>1, <1>2, <1>4, SaverMoves
<1>6. ASSUME NEW h \in Complete(known) PROVE h <= Length /\ ~(h < 1)
  <2>1. h \in Nat /\ h <= Length
    BY <1>1, LengthCovers DEF OutputInv
  <2>2. h # 0
    BY DEF Complete
  <2> QED
    BY <2>1, <2>2
<1>7. Saved(s)'
  BY <1>1, <1>3, <1>4, <1>5, <1>6 DEF Saved, Complete
<1> QED
  BY <1>5, <1>7 DEF OutputInv

LEMMA SaverBlockStep ==
  ASSUME OutputInv, NEW s \in Savers, SaverBlock(s) PROVE OutputInv'
<1> DEFINE known == savers[s].known
           w == savers[s].w
<1>1. /\ IsSaver(savers[s]) /\ savers[s].pc = "read" /\ IsWriter(w)
      /\ known \subseteq committedBlocks /\ UNCHANGED <<committedBlocks, lockedHeight, printer, file>>
  BY DEF OutputInv, SaverTypes, IsSaver, Saved, SaverBlock
<1>2. \A h \in Complete(known) : h <= w.limit /\ (h < w.i => h \in DOMAIN w.out)
  BY <1>1 DEF OutputInv, Saved
<1>3. CASE Reading(w)
  <2> DEFINE n == Advance(w)
             r == [pc |-> "read", known |-> known, w |-> n]
  <2>1. savers' = [savers EXCEPT ![s] = r]
    <3>1. [savers[s] EXCEPT !.w = n] = r
      BY <1>1 DEF IsSaver
    <3> HIDE DEF r
    <3> QED
      BY <1>3, <3>1 DEF SaverBlock
  <2>2. /\ IsWriter(n) /\ n.limit = w.limit /\ n.i \in {w.i, w.i + 1}
        /\ DOMAIN w.out \subseteq DOMAIN n.out
        /\ n.i # w.i /\ w.i \in committedBlocks => w.i \in DOMAIN n.out
    <3>1. committedBlocks \in SUBSET Heights
      BY DEF OutputInv, SaverTypes
    <3> QED
      BY <1>1, <3>1, AdvanceWrites
  <2>3. IsSaver(r) /\ r.pc = "read" /\ r.known = known /\ r.w = n
    BY <1>1, <2>2 DEF IsSaver
  <2> HIDE DEF n, w, known, r
  <2>4. SaverTypes' /\ Printing' /\ Filed' /\ savers'[s] = r /\ \A t \in Savers : t # s => Saved(t)'
    BY <1>1, <2>1, <2>3, SaverMoves
  <2>5. \A h \in Complete(known) : h <= n.limit /\ (h < n.i => h \in DOMAIN n.out)
    <3>1. \A h \in Complete(known) : h \in Nat /\ h \in committedBlocks
      BY <1>1, LengthCovers DEF OutputInv, Complete
    <3>2. w.i \in Nat
      BY <1>1 DEF IsWriter, WriterTypes
    <3> QED
      BY <1>2, <2>2, <3>1, <3>2
  <2>6. Saved(s)'
    BY <1>1, <2>3, <2>4, <2>5 DEF Saved, Complete
  <2> QED
    BY <2>4, <2>6 DEF OutputInv
<1>4. CASE ~Reading(w)
  <2> DEFINE r == [pc |-> "write", known |-> known, w |-> w]
  <2>1. savers' = [savers EXCEPT ![s] = r]
    <3>1. [savers[s] EXCEPT !.pc = "write"] = r
      BY <1>1 DEF IsSaver
    <3> HIDE DEF r
    <3> QED
      BY <1>4, <3>1 DEF SaverBlock
  <2>2. IsSaver(r) /\ r.pc = "write" /\ r.known = known /\ r.w = w
    BY <1>1 DEF IsSaver
  <2> HIDE DEF w, known, r
  <2>3. SaverTypes' /\ Printing' /\ Filed' /\ savers'[s] = r /\ \A t \in Savers : t # s => Saved(t)'
    BY <1>1, <2>1, <2>2, SaverMoves
  <2>4. Saved(s)'
    BY <1>1, <1>2, <1>4, <2>2, <2>3 DEF Saved, Complete, Reading
  <2> QED
    BY <2>3, <2>4 DEF OutputInv
<1> QED
  BY <1>3, <1>4

LEMMA SaverWriteStep ==
  ASSUME OutputInv, NEW s \in Savers, SaverWrite(s) PROVE OutputInv'
<1> DEFINE known == savers[s].known
           w == savers[s].w
           r == [pc |-> "done", known |-> known, w |-> w]
<1>1. /\ IsSaver(savers[s]) /\ savers[s].pc = "write" /\ Saved(s)
      /\ UNCHANGED <<committedBlocks, lockedHeight, printer>> /\ file' = [by |-> s, blocks |-> w.out]
  BY DEF OutputInv, SaverTypes, SaverWrite
<1>2. savers' = [savers EXCEPT ![s] = r]
  <2>1. [savers[s] EXCEPT !.pc = "done"] = r
    BY <1>1 DEF IsSaver
  <2> HIDE DEF r
  <2> QED
    BY <2>1 DEF SaverWrite
<1>3. IsSaver(r) /\ r.pc = "done" /\ r.known = known /\ r.w = w
  BY <1>1 DEF IsSaver
<1>4. SaverTypes' /\ Printing' /\ savers'[s] = r /\ \A t \in Savers : t # s => Saved(t)'
  <2> HIDE DEF known, w, r
  <2> QED
    BY <1>1, <1>2, <1>3, SaverMoves
<1>5. Saved(s)'
  <2> HIDE DEF r
  <2> QED
    BY <1>1, <1>3, <1>4 DEF Saved, Complete, Reading
<1>6. Filed'
  <2>1. IsWriter(w)
    BY <1>1 DEF IsSaver
  <2>2. EachOnce(w.out) /\ Whole(w.out)
    BY <2>1 DEF IsWriter, Known
  <2> HIDE DEF w, r
  <2>3. file'.by = s /\ file'.blocks = w.out
    BY <1>1
  <2> QED
    BY <1>3, <1>4, <2>2, <2>3 DEF Filed
<1> QED
  BY <1>4, <1>5, <1>6 DEF OutputInv

\* The inductive invariant of block output.
THEOREM OutputInvariant == OutputSpec => []OutputInv
<1>1. OutputInv /\ [OutputNext]_outputVars => OutputInv'
  <2> SUFFICES ASSUME OutputInv, [OutputNext]_outputVars PROVE OutputInv'
    OBVIOUS
  <2>0. committedBlocks \in SUBSET Heights
    BY DEF OutputInv, SaverTypes
  <2>1. ASSUME NEW h \in Heights, Commit(h) \/ MergeBlock(h) PROVE OutputInv'
    <3>1. committedBlocks' = committedBlocks \cup {h} /\ UNCHANGED <<savers, file, printer>>
      BY <2>1 DEF Commit, MergeBlock
    <3>2. h \in Nat
      BY OutputAssumption DEF Heights, OutputAssumption
    <3>3. Printing'
      BY <2>1, <3>1, <3>2 DEF OutputInv, Printing, Commit, MergeBlock
    <3> QED
      BY <2>0, <3>1, <3>3, HandlerStep
  <2>2. CASE StartPrint \/ PrintBlock \/ Store
    <3>1. UNCHANGED <<committedBlocks, lockedHeight, savers, file>>
      BY <2>2 DEF StartPrint, PrintBlock, Store
    <3>2. printer' \in {printer, Writer(lockedHeight), Advance(printer)}
      BY <2>2 DEF StartPrint, PrintBlock, Store
    <3>3. IsWriter(printer) /\ lockedHeight \in Nat
      BY DEF OutputInv, Printing
    <3>4. IsWriter(Writer(lockedHeight)) /\ IsWriter(Advance(printer))
      BY <2>0, <3>3, NewWriter, AdvanceWrites
    <3>5. Printing'
      BY <3>1, <3>2, <3>3, <3>4 DEF Printing
    <3> QED
      BY <2>0, <3>1, <3>5, HandlerStep
  <2>3. ASSUME NEW s \in Savers,
               StartSaver(s) \/ SaverLength(s) \/ SaverBlock(s) \/ SaverWrite(s)
        PROVE  OutputInv'
    BY <2>3, StartSaverStep, SaverLengthStep, SaverBlockStep, SaverWriteStep
  <2>4. CASE (\E h \in Heights : StartMerge(h)) \/ MapRace \/ UNCHANGED outputVars
    <3>1. UNCHANGED <<committedBlocks, lockedHeight, printer, savers, file>>
      BY <2>4 DEF outputVars, StartMerge, MapRace
    <3>2. Printing'
      BY <3>1 DEF OutputInv, Printing
    <3> QED
      BY <2>0, <3>1, <3>2, HandlerStep
  <2> QED
    BY <2>1, <2>2, <2>3, <2>4 DEF OutputNext
<1> QED
  BY <1>1, InitOutputInv, PTL DEF OutputSpec

\* Whatever was committed, with all below it, when a file's writer was started is in
\* that file, although the writer counts blocks to find the highest, reads them while
\* others are added, and races with other writers: SavedUpToGap, for any number of
\* writers and blocks.
THEOREM SavedUpToGapHolds == OutputSpec => []SavedUpToGap
<1>1. OutputInv => SavedUpToGap
  <2> SUFFICES ASSUME OutputInv, file.by # 0,
                      NEW h \in savers[file.by].known \ {0}, 1..h \subseteq savers[file.by].known
               PROVE  h \in DOMAIN file.blocks
    BY DEF SavedUpToGap
  <2> DEFINE s == file.by
             w == savers[s].w
  <2>1. s \in Savers /\ savers[s].pc = "done" /\ file.blocks = w.out
    BY DEF OutputInv, Filed
  <2>2. h \in Complete(savers[s].known) /\ savers[s].known \subseteq committedBlocks
    BY <2>1 DEF OutputInv, Saved, Complete
  <2>3. h <= w.limit /\ (h < w.i => h \in DOMAIN w.out) /\ ~(w.i <= w.limit)
    BY <2>1, <2>2 DEF OutputInv, Saved, Reading
  <2>4. h \in Nat /\ w.i \in Nat /\ w.limit \in Nat
    BY <2>1, <2>2, LengthCovers DEF OutputInv, SaverTypes, IsSaver, IsWriter, WriterTypes
  <2> QED
    BY <2>1, <2>3, <2>4
<1> QED
  BY <1>1, OutputInvariant, PTL

\* Of every timestamp there is in its blocks, whatever is printed or saved shows one
\* transaction and no other, although blocks repeat transactions and may be committed,
\* merged and read at any time: WrittenOnce, for any blocks and any number of writers.
\* (It says nothing of two transactions of one millisecond: one of them is left out.)
THEOREM WrittenOnceHolds == OutputSpec => []WrittenOnce
<1>1. OutputInv => WrittenOnce
  <2> SUFFICES ASSUME OutputInv PROVE WrittenOnce
    OBVIOUS
  <2>1. EachOnce(printer.out) /\ Whole(printer.out)
    BY DEF OutputInv, Printing, IsWriter, Known
  <2>2. EachOnce(file.blocks) /\ Whole(file.blocks)
    BY DEF OutputInv, Filed
  <2> QED
    BY <2>1, <2>2 DEF WrittenOnce
<1> QED
  BY <1>1, OutputInvariant, PTL

----------------------------------------------------------------------------
(* RequestQueue.                                                           *)

Memory(m) == m \in Seq(Seq(Requests))

\* s lies in an array of m.
IsSlice(m, s) ==
  /\ s = Slice(s.arr, s.off, s.len, s.cap)
  /\ s.arr \in 1..Len(m) /\ s.off \in Nat /\ s.len \in Nat /\ s.cap \in Nat
  /\ s.len <= s.cap
  /\ s.off + s.cap <= Len(m[s.arr])

\* t does not have the cell in which append(s, x) would store, if it has room.
Apart(s, t) == s.arr = t.arr => s.arr = 1 \/ t.off + t.len <= s.off

QueueTypes ==
  /\ Memory(mem) /\ Len(mem) >= 1 /\ mem[1] = << >>
  /\ IsSlice(mem, queue) /\ IsSlice(mem, MsgQueue)
  /\ appending \in Seq(Requests)
  /\ batch = [pc |-> batch.pc, s |-> batch.s]
  /\ arrived \in Seq(Requests) /\ proposed \in Seq(Requests) /\ messages \in Seq(Requests)

\* The two queues are in different arrays, and a batch that was grabbed is in none, or
\* in front of what the queue has left of the array.
Separate ==
  /\ queue.arr = MsgQueue.arr => queue.arr = 1
  /\ batch.pc = "propose" => /\ IsSlice(mem, batch.s)
                             /\ Apart(queue, batch.s)
                             /\ batch.s.arr = MsgQueue.arr => batch.s.arr = 1

QueueInv ==
  /\ QueueTypes
  /\ Separate
  /\ ProposedAsArrived
  /\ LatestMessages

----------------------------------------------------------------------------
(* Slices.                                                                 *)

LEMMA SliceFields ==
  ASSUME NEW a, NEW o, NEW l, NEW c
  PROVE  /\ Slice(a, o, l, c).arr = a /\ Slice(a, o, l, c).off = o
         /\ Slice(a, o, l, c).len = l /\ Slice(a, o, l, c).cap = c
         /\ Slice(a, o, l, c) = Slice(Slice(a, o, l, c).arr, Slice(a, o, l, c).off,
                                      Slice(a, o, l, c).len, Slice(a, o, l, c).cap)
  BY DEF Slice

\* The arithmetic of windows.
LEMMA InsideArray ==
  ASSUME NEW o \in Nat, NEW l \in Nat, NEW c \in Nat, NEW L \in Nat, l <= c, o + c <= L
  PROVE  \A i \in 1..l : o + i \in 1..L
  OBVIOUS

LEMMA SubSeqSplits ==
  ASSUME NEW a \in Seq(Requests), NEW o \in Nat, NEW l \in Nat, NEW k \in Nat,
         k <= l, o + l <= Len(a)
  PROVE  SubSeq(a, o + 1, o + k) \o SubSeq(a, o + k + 1, o + l) = SubSeq(a, o + 1, o + l)
<1>1. Len(a) \in Nat
  BY LenProperties
<1>2. /\ o + 1 \in 1..Len(a) + 1 /\ o + k \in (o + 1) - 1..Len(a)
      /\ o + l \in o + k..Len(a)
  BY <1>1
<1> QED
  BY <1>2, ConcatAdjacentSubSeq

LEMMA SliceTypes ==
  ASSUME NEW m, Memory(m), NEW s, IsSlice(m, s)
  PROVE  /\ m[s.arr] \in Seq(Requests) /\ Len(m[s.arr]) \in Nat
         /\ Len(m) \in Nat /\ s.arr \in 1..Len(m)
         /\ s.off \in Nat /\ s.len \in Nat /\ s.cap \in Nat
         /\ s.len <= s.cap /\ s.off + s.cap <= Len(m[s.arr])
<1>1. s.arr \in 1..Len(m) /\ m \in Seq(Seq(Requests))
  BY DEF Memory, IsSlice
<1>2. m[s.arr] \in Seq(Requests) /\ Len(m) \in Nat
  BY <1>1, ElementOfSeq, LenProperties
<1> QED
  BY <1>1, <1>2, LenProperties DEF IsSlice

LEMMA ContentsType ==
  ASSUME NEW m, Memory(m), NEW s, IsSlice(m, s)
  PROVE  /\ Contents(m, s) \in Seq(Requests) /\ Len(Contents(m, s)) = s.len
         /\ \A i \in 1..s.len : Contents(m, s)[i] = m[s.arr][s.off + i]
<1> DEFINE a == m[s.arr]
           lo == s.off + 1
           hi == s.off + s.len
<1>1. a \in Seq(Requests) /\ Len(a) \in Nat /\ s.off \in Nat /\ s.len \in Nat /\ hi <= Len(a)
  BY SliceTypes
<1>2. lo \in Int /\ hi \in Int /\ hi - lo + 1 = s.len /\ \A i \in 1..s.len : lo + i - 1 = s.off + i
  BY <1>1
<1>3. \A i \in lo..hi : i \in 1..Len(a)
  BY <1>1
<1>4. \A i \in lo..hi : a[i] \in Requests
  BY <1>1, <1>3, ElementOfSeq
<1>5. Contents(m, s) = SubSeq(a, lo, hi)
  BY DEF Contents
<1> HIDE DEF a, lo, hi
<1>6. /\ SubSeq(a, lo, hi) \in Seq(Requests)
      /\ Len(SubSeq(a, lo, hi)) = IF lo <= hi THEN hi - lo + 1 ELSE 0
      /\ \A i \in 1..hi - lo + 1 : SubSeq(a, lo, hi)[i] = a[lo + i - 1]
  BY <1>2, <1>4, SubSeqProperties
<1>7. (IF lo <= hi THEN hi - lo + 1 ELSE 0) = s.len
  BY <1>1, <1>2
<1>8. \A i \in 1..s.len : SubSeq(a, lo, hi)[i] = a[s.off + i]
  BY <1>2, <1>6
<1> QED
  BY <1>5, <1>6, <1>7, <1>8 DEF a

\* What was grabbed and what is left are what there was.
LEMMA WindowSplits ==
  ASSUME NEW m, Memory(m), NEW s, IsSlice(m, s), NEW k \in Nat, k <= s.len
  PROVE  /\ IsSlice(m, Window(s, 0, k)) /\ IsSlice(m, Window(s, k, s.len))
         /\ Contents(m, s) = Contents(m, Window(s, 0, k)) \o Contents(m, Window(s, k, s.len))
<1> DEFINE f == Window(s, 0, k)
           g == Window(s, k, s.len)
           a == m[s.arr]
<1>1. /\ f.arr = s.arr /\ f.off = s.off + 0 /\ f.len = k - 0 /\ f.cap = s.cap - 0
      /\ g.arr = s.arr /\ g.off = s.off + k /\ g.len = s.len - k /\ g.cap = s.cap - k
      /\ f = Slice(f.arr, f.off, f.len, f.cap) /\ g = Slice(g.arr, g.off, g.len, g.cap)
  BY SliceFields DEF Window
<1> HIDE DEF f, g
<1>2. /\ a \in Seq(Requests) /\ Len(a) \in Nat /\ Len(m) \in Nat /\ s.arr \in 1..Len(m)
      /\ s.off \in Nat /\ s.len \in Nat /\ s.cap \in Nat
      /\ s.len <= s.cap /\ s.off + s.cap <= Len(a)
  BY SliceTypes
<1>3. f.off = s.off /\ f.len = k /\ f.cap = s.cap
  BY <1>1, <1>2
<1>4. IsSlice(m, f) /\ IsSlice(m, g)
  <2>1. /\ s.off + k \in Nat /\ s.len - k \in Nat /\ s.cap - k \in Nat
        /\ k <= s.cap /\ s.len - k <= s.cap - k /\ s.off + k + (s.cap - k) <= Len(a)
    <3> DEFINE o == s.off
               l == s.len
               c == s.cap
               L == Len(a)
    <3>1. o \in Nat /\ l \in Nat /\ c \in Nat /\ L \in Nat /\ k <= l /\ l <= c /\ o + c <= L
      BY <1>2
    <3> HIDE DEF o, l, c, L
    <3>2. /\ o + k \in Nat /\ l - k \in Nat /\ c - k \in Nat
          /\ k <= c /\ l - k <= c - k /\ o + k + (c - k) <= L
      BY <3>1
    <3> QED
      BY <3>2 DEF o, l, c, L
  <2>2. IsSlice(m, f)
    BY <1>1, <1>2, <1>3, <2>1 DEF IsSlice
  <2>3. IsSlice(m, g)
    BY <1>1, <1>2, <2>1 DEF IsSlice
  <2> QED
    BY <2>2, <2>3
<1>5. /\ Contents(m, f) = SubSeq(a, s.off + 1, s.off + k)
      /\ Contents(m, g) = SubSeq(a, s.off + k + 1, s.off + s.len)
      /\ Contents(m, s) = SubSeq(a, s.off + 1, s.off + s.len)
  <2>1. s.off + k + (s.len - k) = s.off + s.len
    BY <1>2
  <2> QED
    BY <1>1, <1>3, <2>1 DEF Contents
<1>6. s.off + s.len <= Len(a)
  BY <1>2
<1>7. SubSeq(a, s.off + 1, s.off + k) \o SubSeq(a, s.off + k + 1, s.off + s.len)
        = SubSeq(a, s.off + 1, s.off + s.len)
  <2> DEFINE o == s.off
             l == s.len
  <2>1. a \in Seq(Requests) /\ o \in Nat /\ l \in Nat /\ k <= l /\ o + l <= Len(a)
    BY <1>2, <1>6
  <2> HIDE DEF a, o, l
  <2>2. SubSeq(a, o + 1, o + k) \o SubSeq(a, o + k + 1, o + l) = SubSeq(a, o + 1, o + l)
    BY <2>1, SubSeqSplits
  <2> QED
    BY <2>2 DEF o, l
<1> HIDE DEF a
<1> QED
  BY <1>4, <1>5, <1>7 DEF f, g

\* append keeps the other arrays, and the lengths of all.
LEMMA StoredMemory ==
  ASSUME NEW m, Memory(m), NEW s, IsSlice(m, s), NEW x \in Requests
  PROVE  LET n == Stored(m, s, x)
         IN  /\ Memory(n) /\ Len(n) >= Len(m)
             /\ \A a \in 1..Len(m) : /\ Len(n[a]) = Len(m[a])
                                     /\ a # s.arr \/ ~HasRoom(s) => n[a] = m[a]
             /\ HasRoom(s) =>
                  /\ \A i \in 1..Len(m[s.arr]) : i # s.off + s.len + 1 => n[s.arr][i] = m[s.arr][i]
                  /\ n[s.arr][s.off + s.len + 1] = x
             /\ ~HasRoom(s) => /\ Len(n) = Len(m) + 1
                               /\ n[Len(m) + 1] = NewArray(m, s, x)
<1> DEFINE n == Stored(m, s, x)
           c == s.off + s.len + 1
<1>1. m[s.arr] \in Seq(Requests) /\ s.arr \in 1..Len(m)
  BY SliceTypes
<1>2. CASE HasRoom(s)
  <2>1. c \in 1..Len(m[s.arr])
    BY <1>2, SliceTypes DEF HasRoom
  <2>2. n = [m EXCEPT ![s.arr] = [m[s.arr] EXCEPT ![c] = x]]
    BY <1>2 DEF Stored
  <2>3. [m[s.arr] EXCEPT ![c] = x] \in Seq(Requests)
        /\ Len([m[s.arr] EXCEPT ![c] = x]) = Len(m[s.arr])
    BY <1>1, <2>1
  <2>4. /\ [m[s.arr] EXCEPT ![c] = x][c] = x
        /\ \A i \in 1..Len(m[s.arr]) : i # c => [m[s.arr] EXCEPT ![c] = x][i] = m[s.arr][i]
    BY <1>1, <2>1
  <2> DEFINE q == [m[s.arr] EXCEPT ![c] = x]
  <2> HIDE DEF q, n, c
  <2>5. n = [m EXCEPT ![s.arr] = q] /\ q \in Seq(Requests) /\ Len(q) = Len(m[s.arr])
    BY <2>2, <2>3 DEF q
  <2>6. Memory(n) /\ Len(n) = Len(m) /\ n[s.arr] = q
        /\ \A a \in 1..Len(m) : a # s.arr => n[a] = m[a]
    BY <1>1, <2>5 DEF Memory
  <2>7. \A a \in 1..Len(m) : Len(n[a]) = Len(m[a])
    BY <2>5, <2>6
  <2>8. n[s.arr][c] = x /\ \A i \in 1..Len(m[s.arr]) : i # c => n[s.arr][i] = m[s.arr][i]
    BY <2>4, <2>6 DEF q
  <2> QED
    BY <1>2, <2>6, <2>7, <2>8 DEF n, c, Memory
<1>3. CASE ~HasRoom(s)
  <2> DEFINE new == NewArray(m, s, x)
  <2>1. new \in Seq(Requests)
    <3>1. \A i \in 1..2 * (s.len + 1) : (IF i <= s.len THEN Contents(m, s)[i] ELSE x) \in Requests
      <4>1. Contents(m, s) \in Seq(Requests) /\ Len(Contents(m, s)) = s.len /\ s.len \in Nat
        BY ContentsType, SliceTypes
      <4>2. \A i \in 1..s.len : Contents(m, s)[i] \in Requests
        BY <4>1, ElementOfSeq
      <4>3. \A i \in 1..2 * (s.len + 1) : i <= s.len => i \in 1..s.len
        BY <4>1
      <4> QED
        BY <4>2, <4>3
    <3>2. 2 * (s.len + 1) \in Nat
      BY DEF IsSlice
    <3> QED
      BY <3>1, <3>2 DEF NewArray
  <2>2. n = Append(m, new)
    BY <1>3 DEF Stored
  <2> HIDE DEF new, n
  <2>3. Memory(n) /\ Len(n) = Len(m) + 1 /\ n[Len(m) + 1] = new
        /\ \A a \in 1..Len(m) : n[a] = m[a]
    BY <2>1, <2>2 DEF Memory
  <2> QED
    BY <1>3, <2>3 DEF n, new, Memory
<1> QED
  BY <1>2, <1>3

\* The slice that append returns has one element more.
LEMMA AppendedContents ==
  ASSUME NEW m, Memory(m), NEW s, IsSlice(m, s), NEW x \in Requests
  PROVE  /\ IsSlice(Stored(m, s, x), Appended(m, s))
         /\ Contents(Stored(m, s, x), Appended(m, s)) = Append(Contents(m, s), x)
         /\ Appended(m, s).len = s.len + 1
         /\ \/ Appended(m, s).arr = s.arr /\ Appended(m, s).off = s.off /\ HasRoom(s)
            \/ Appended(m, s).arr = Len(m) + 1 /\ ~HasRoom(s)
<1> DEFINE n == Stored(m, s, x)
           t == Appended(m, s)
           C == Contents(m, s)
           D == Contents(n, t)
<1>0. s.arr \in 1..Len(m) /\ s.off \in Nat /\ s.len \in Nat /\ s.cap \in Nat
      /\ s.len <= s.cap /\ s.off + s.cap <= Len(m[s.arr]) /\ Len(m) \in Nat
      /\ Len(m[s.arr]) \in Nat
  BY SliceTypes
<1>1. /\ C \in Seq(Requests) /\ Len(C) = s.len
      /\ \A i \in 1..s.len : C[i] = m[s.arr][s.off + i]
  BY ContentsType
<1>2. t.len = s.len + 1 /\ t = Slice(t.arr, t.off, t.len, t.cap)
  BY SliceFields DEF Appended
<1>3. CASE HasRoom(s)
  <2>1. t.arr = s.arr /\ t.off = s.off /\ t.cap = s.cap
    BY <1>3, SliceFields DEF Appended
  <2>2. /\ Memory(n) /\ Len(n) >= Len(m) /\ Len(n) \in Nat /\ Len(n[s.arr]) = Len(m[s.arr])
        /\ \A i \in 1..s.len : n[s.arr][s.off + i] = m[s.arr][s.off + i]
        /\ n[s.arr][s.off + s.len + 1] = x
    <3>1. Memory(n) /\ Len(n) >= Len(m) /\ Len(n[s.arr]) = Len(m[s.arr])
      BY <1>0, StoredMemory
    <3>2. /\ \A i \in 1..Len(m[s.arr]) : i # s.off + s.len + 1 => n[s.arr][i] = m[s.arr][i]
          /\ n[s.arr][s.off + s.len + 1] = x
      BY <1>3, StoredMemory
    <3>3. \A i \in 1..s.len : s.off + i \in 1..Len(m[s.arr]) /\ s.off + i # s.off + s.len + 1
      BY <1>0, SMTT(30)
    <3> QED
      BY <3>1, <3>2, <3>3, SMTT(30) DEF Memory
  <2> HIDE DEF n, t
  <2>3. IsSlice(n, t)
    BY <1>0, <1>2, <1>3, <2>1, <2>2 DEF IsSlice, HasRoom
  <2>4. /\ D \in Seq(Requests) /\ Len(D) = s.len + 1
        /\ \A i \in 1..s.len + 1 : D[i] = n[s.arr][s.off + i]
    <3>1. /\ D \in Seq(Requests) /\ Len(D) = t.len
          /\ \A i \in 1..t.len : D[i] = n[t.arr][t.off + i]
      BY <2>2, <2>3, ContentsType
    <3> QED
      BY <1>2, <2>1, <3>1
  <2> HIDE DEF C, D
  <2>5. \A i \in 1..s.len + 1 : D[i] = Append(C, x)[i]
    <3>1. \A i \in 1..s.len : D[i] = C[i]
      BY <1>0, <1>1, <2>2, <2>4
    <3>2. D[s.len + 1] = x
      <4>1. s.len + 1 \in 1..s.len + 1 /\ s.off + (s.len + 1) = s.off + s.len + 1
        BY <1>0, SMTT(30)
      <4> QED
        BY <4>1, <2>2, <2>4
    <3>3. Append(C, x)[s.len + 1] = x /\ \A i \in 1..s.len : Append(C, x)[i] = C[i]
      BY <1>1, AppendProperties
    <3>4. \A i \in 1..s.len + 1 : i \in 1..s.len \/ i = s.len + 1
      BY <1>0
    <3> QED
      BY <3>1, <3>2, <3>3, <3>4
  <2>6. D = Append(C, x)
    <3>1. Append(C, x) \in Seq(Requests) /\ Len(Append(C, x)) = s.len + 1
      BY <1>1, AppendProperties
    <3> QED
      BY <3>1, <2>4, <2>5, SeqEqual
  <2> QED
    BY <1>2, <1>3, <2>1, <2>3, <2>6 DEF n, t, C, D
<1>4. CASE ~HasRoom(s)
  <2>1. t.arr = Len(m) + 1 /\ t.off = 0 /\ t.cap = 2 * (s.len + 1)
    BY <1>4, SliceFields DEF Appended
  <2>2. Memory(n) /\ Len(n) = Len(m) + 1 /\ n[Len(m) + 1] = NewArray(m, s, x)
    BY <1>4, StoredMemory
  <2>3. /\ Len(n[Len(m) + 1]) = 2 * (s.len + 1)
        /\ \A i \in 1..2 * (s.len + 1) :
             n[Len(m) + 1][i] = IF i <= s.len THEN C[i] ELSE x
    BY <1>0, <2>2 DEF NewArray
  <2> HIDE DEF n, t
  <2>4. IsSlice(n, t)
    <3>1. /\ t.arr \in 1..Len(n) /\ t.off \in Nat /\ t.len \in Nat /\ t.cap \in Nat
          /\ t.len <= t.cap
      <4>1. /\ Len(m) + 1 \in 1..Len(m) + 1 /\ s.len + 1 \in Nat /\ 2 * (s.len + 1) \in Nat
            /\ s.len + 1 <= 2 * (s.len + 1)
        <5> DEFINE l == s.len
                   k == Len(m)
        <5>1. l \in Nat /\ k \in Nat
          BY <1>0
        <5> HIDE DEF l, k
        <5>2. k + 1 \in 1..k + 1 /\ l + 1 \in Nat /\ 2 * (l + 1) \in Nat /\ l + 1 <= 2 * (l + 1)
          BY <5>1
        <5> QED
          BY <5>2 DEF l, k
      <4> QED
        BY <1>2, <2>1, <2>2, <4>1
    <3>2. t.off + t.cap <= Len(n[t.arr])
      BY <1>0, <2>1, <2>3
    <3> QED
      BY <1>2, <3>1, <3>2 DEF IsSlice
  <2>5. /\ D \in Seq(Requests) /\ Len(D) = s.len + 1
        /\ \A i \in 1..s.len + 1 : D[i] = n[Len(m) + 1][i]
    <3>1. /\ D \in Seq(Requests) /\ Len(D) = t.len
          /\ \A i \in 1..t.len : D[i] = n[t.arr][t.off + i]
      BY <2>2, <2>4, ContentsType
    <3>2. \A i \in 1..s.len + 1 : 0 + i = i
      BY <1>0
    <3> QED
      BY <1>2, <2>1, <3>1, <3>2
  <2> HIDE DEF C, D
  <2>6. \A i \in 1..s.len + 1 : D[i] = Append(C, x)[i]
    <3>1. \A i \in 1..s.len + 1 : /\ i \in 1..2 * (s.len + 1)
                                  /\ i \in 1..s.len \/ i = s.len + 1
                                  /\ i <= s.len <=> i \in 1..s.len
      BY <1>0
    <3>2. \A i \in 1..s.len + 1 : D[i] = IF i <= s.len THEN C[i] ELSE x
      BY <2>3, <2>5, <3>1
    <3>3. Append(C, x)[s.len + 1] = x /\ \A i \in 1..s.len : Append(C, x)[i] = C[i]
      BY <1>1, AppendProperties
    <3> QED
      BY <1>0, <3>1, <3>2, <3>3
  <2>7. D = Append(C, x)
    <3>1. Append(C, x) \in Seq(Requests) /\ Len(Append(C, x)) = s.len + 1
      BY <1>1, AppendProperties
    <3> QED
      BY <3>1, <2>5, <2>6, SeqEqual
  <2> QED
    BY <1>2, <1>4, <2>1, <2>4, <2>7 DEF n, t, C, D
<1> QED
  BY <1>3, <1>4

\* Slices apart from s are what they were.
LEMMA AppendFrame ==
  ASSUME NEW m, Memory(m), m[1] = << >>, NEW s, IsSlice(m, s), NEW x \in Requests,
         NEW t, IsSlice(m, t), Apart(s, t)
  PROVE  IsSlice(Stored(m, s, x), t) /\ Contents(Stored(m, s, x), t) = Contents(m, t)
<1> DEFINE n == Stored(m, s, x)
<1>0. /\ s.arr \in 1..Len(m) /\ s.off \in Nat /\ s.len \in Nat /\ s.cap \in Nat
      /\ s.len <= s.cap /\ s.off + s.cap <= Len(m[s.arr]) /\ Len(m) \in Nat
      /\ t.arr \in 1..Len(m) /\ t.off \in Nat /\ t.len \in Nat /\ t.cap \in Nat
      /\ t.len <= t.cap /\ t.off + t.cap <= Len(m[t.arr]) /\ Len(m[t.arr]) \in Nat
  BY SliceTypes
<1>1. Memory(n) /\ Len(n) >= Len(m) /\ Len(n) \in Nat /\ Len(n[t.arr]) = Len(m[t.arr])
  <2>1. Memory(n) /\ Len(n) >= Len(m) /\ Len(n[t.arr]) = Len(m[t.arr])
    BY <1>0, StoredMemory, SMTT(30)
  <2> QED
    BY <2>1 DEF Memory
<1>2. \A i \in 1..t.len : t.off + i \in 1..Len(m[t.arr])
  BY <1>0, InsideArray
<1>3. \A i \in 1..t.len : n[t.arr][t.off + i] = m[t.arr][t.off + i]
  <2>1. CASE ~HasRoom(s) \/ s.arr # t.arr
    <3>1. n[t.arr] = m[t.arr]
      BY <1>0, <2>1, StoredMemory, SMTT(30)
    <3> QED
      BY <3>1
  <2>2. CASE HasRoom(s) /\ s.arr = t.arr
    <3>1. s.arr # 1
      <4>1. s.len < s.cap
        BY <2>2 DEF HasRoom
      <4>2. Len(<< >>) = 0
        OBVIOUS
      <4> QED
        BY <1>0, <4>1, <4>2, SMTT(30)
    <3>2. t.off + t.len <= s.off
      BY <2>2, <3>1 DEF Apart
    <3>3. ASSUME NEW i \in 1..t.len PROVE t.off + i # s.off + s.len + 1
      BY <1>0, <3>2, SMTT(30)
    <3>4. \A i \in 1..Len(m[s.arr]) : i # s.off + s.len + 1 => n[s.arr][i] = m[s.arr][i]
      BY <2>2, StoredMemory
    <3> QED
      BY <1>2, <2>2, <3>3, <3>4
  <2> QED
    BY <2>1, <2>2
<1> HIDE DEF n
<1>4. IsSlice(n, t)
  BY <1>0, <1>1 DEF IsSlice
<1>5. Contents(n, t) = Contents(m, t)
  <2> DEFINE C == Contents(m, t)
             D == Contents(n, t)
  <2>1. /\ C \in Seq(Requests) /\ Len(C) = t.len
        /\ \A i \in 1..t.len : C[i] = m[t.arr][t.off + i]
    BY ContentsType
  <2>2. /\ D \in Seq(Requests) /\ Len(D) = t.len
        /\ \A i \in 1..t.len : D[i] = n[t.arr][t.off + i]
    BY <1>1, <1>4, ContentsType
  <2> HIDE DEF C, D
  <2>3. C = D
    BY <1>3, <2>1, <2>2, SeqEqual
  <2> QED
    BY <2>3 DEF C, D
<1> QED
  BY <1>4, <1>5 DEF n

\* The empty array stays empty.
LEMMA FirstArray ==
  ASSUME NEW m, Memory(m), m[1] = << >>, 1 \in 1..Len(m), NEW s, IsSlice(m, s),
         NEW x \in Requests
  PROVE  Stored(m, s, x)[1] = << >>
<1>1. CASE s.arr # 1
  BY <1>1, StoredMemory
<1>2. CASE s.arr = 1
  <2>1. s.off \in Nat /\ s.len \in Nat /\ s.cap \in Nat /\ s.off + s.cap <= Len(m[1])
    BY <1>2, SliceTypes
  <2>2. Len(m[1]) = 0
    BY EmptySeq
  <2>3. ~HasRoom(s)
    BY <2>1, <2>2 DEF HasRoom
  <2> QED
    BY <2>3, StoredMemory
<1> QED
  BY <1>1, <1>2

----------------------------------------------------------------------------
(* Steps.                                                                  *)

Held == IF batch.pc = "propose" THEN Contents(mem, batch.s) ELSE << >>

LEMMA InOrder ==
  ProposedAsArrived <=> arrived = (proposed \o Held) \o Contents(mem, queue)
  BY DEF ProposedAsArrived, Held

LEMMA HeldType ==
  ASSUME QueueInv PROVE Held \in Seq(Requests) /\ Contents(mem, queue) \in Seq(Requests)
<1>1. Contents(mem, queue) \in Seq(Requests)
  BY ContentsType DEF QueueInv, QueueTypes
<1>2. batch.pc = "propose" => Contents(mem, batch.s) \in Seq(Requests)
  BY ContentsType DEF QueueInv, QueueTypes, Separate
<1> QED
  BY <1>1, <1>2, EmptySeq DEF Held

LEMMA AppendLast ==
  ASSUME NEW p \in Seq(Requests), NEW q \in Seq(Requests), NEW x \in Requests
  PROVE  Append(p \o q, x) = p \o Append(q, x)
<1>1. <<x>> \in Seq(Requests) /\ p \o q \in Seq(Requests)
  BY ConcatProperties
<1>2. Append(p \o q, x) = (p \o q) \o <<x>> /\ Append(q, x) = q \o <<x>>
  BY <1>1, AppendIsConcat
<1> QED
  BY <1>1, <1>2, ConcatAssociative

LEMMA EmptyContents ==
  ASSUME NEW m, Memory(m), Len(m) >= 1, m[1] = << >>
  PROVE  /\ IsSlice(m, EmptySlice) /\ EmptySlice.arr = 1 /\ EmptySlice.len = 0
         /\ Contents(m, EmptySlice) = << >>
<1>1. /\ EmptySlice.arr = 1 /\ EmptySlice.off = 0 /\ EmptySlice.len = 0 /\ EmptySlice.cap = 0
      /\ EmptySlice = Slice(EmptySlice.arr, EmptySlice.off, EmptySlice.len, EmptySlice.cap)
  BY SliceFields DEF EmptySlice
<1>2. Len(m) \in Nat /\ Len(m[1]) = 0
  BY LenProperties, EmptySeq DEF Memory
<1>3. IsSlice(m, EmptySlice)
  BY <1>1, <1>2 DEF IsSlice
<1>4. Contents(m, EmptySlice) \in Seq(Requests) /\ Len(Contents(m, EmptySlice)) = 0
  BY <1>1, <1>3, ContentsType
<1> QED
  BY <1>1, <1>3, <1>4, EmptySeq

LEMMA HandleBatchRequestStep ==
  ASSUME QueueInv, NEW n \in 1..MaxTogether, NEW requests \in [1..n -> Requests],
         HandleBatchRequest(requests)
  PROVE  QueueInv'
<1>1. /\ appending' = requests
      /\ UNCHANGED <<mem, queue, MsgQueue, batch, arrived, proposed, messages>>
  BY DEF HandleBatchRequest
<1>2. requests \in Seq(Requests)
  OBVIOUS
<1>3. QueueTypes'
  BY <1>1, <1>2 DEF QueueInv, QueueTypes, IsSlice, Memory
<1>4. Separate'
  BY <1>1 DEF QueueInv, Separate, Apart, IsSlice
<1>5. ProposedAsArrived' /\ LatestMessages'
  BY <1>1 DEF QueueInv, ProposedAsArrived, LatestMessages, Contents
<1> QED
  BY <1>3, <1>4, <1>5 DEF QueueInv

LEMMA AppendNextStep ==
  ASSUME QueueInv, AppendNext PROVE QueueInv'
<1> DEFINE x == Head(appending)
           n == Stored(mem, queue, x)
           q == Appended(mem, queue)
<1>1. /\ appending # << >> /\ mem' = n /\ queue' = q
      /\ appending' = Tail(appending) /\ arrived' = Append(arrived, x)
      /\ UNCHANGED <<MsgQueue, batch, proposed, messages>>
  BY DEF AppendNext, Locked
<1>2. x \in Requests /\ Tail(appending) \in Seq(Requests)
  BY <1>1, HeadTailProperties DEF QueueInv, QueueTypes
<1>3. /\ Memory(mem) /\ Len(mem) >= 1 /\ mem[1] = << >> /\ Len(mem) \in Nat /\ 1 \in 1..Len(mem)
      /\ IsSlice(mem, queue) /\ IsSlice(mem, MsgQueue)
  <2>1. Memory(mem) /\ Len(mem) >= 1 /\ mem[1] = << >> /\ IsSlice(mem, queue)
        /\ IsSlice(mem, MsgQueue)
    BY DEF QueueInv, QueueTypes
  <2>2. Len(mem) \in Nat
    BY <2>1, LenProperties DEF Memory
  <2> QED
    BY <2>1, <2>2
<1> HIDE DEF x
<1>4. Memory(n) /\ Len(n) >= Len(mem) /\ n[1] = << >>
  BY <1>2, <1>3, StoredMemory, FirstArray
<1>5. /\ IsSlice(n, q) /\ Contents(n, q) = Append(Contents(mem, queue), x)
      /\ \/ q.arr = queue.arr /\ q.off = queue.off
         \/ q.arr = Len(mem) + 1
  BY <1>2, <1>3, AppendedContents
<1>6. IsSlice(n, MsgQueue) /\ Contents(n, MsgQueue) = Contents(mem, MsgQueue)
  <2>1. Apart(queue, MsgQueue)
    BY DEF QueueInv, Separate, Apart
  <2> QED
    BY <1>2, <1>3, <2>1, AppendFrame
<1>7. batch.pc = "propose" =>
        /\ IsSlice(mem, batch.s) /\ IsSlice(n, batch.s)
        /\ Contents(n, batch.s) = Contents(mem, batch.s)
  BY <1>2, <1>3, AppendFrame DEF QueueInv, Separate
<1> HIDE DEF n, q
<1>8. QueueTypes'
  <2>1. arrived \in Seq(Requests) /\ proposed \in Seq(Requests) /\ messages \in Seq(Requests)
        /\ batch = [pc |-> batch.pc, s |-> batch.s]
    BY DEF QueueInv, QueueTypes
  <2>2. arrived' \in Seq(Requests)
    BY <1>1, <1>2, <2>1, AppendProperties
  <2>3. Len(n) >= 1
    BY <1>3, <1>4, LenProperties DEF Memory
  <2> QED
    BY <1>1, <1>2, <1>3, <1>4, <1>5, <1>6, <2>1, <2>2, <2>3 DEF QueueTypes
<1>9. Separate'
  <2>1. MsgQueue.arr \in 1..Len(mem) /\ (batch.pc = "propose" => batch.s.arr \in 1..Len(mem))
    BY <1>3, <1>7, SliceTypes
  <2>2. CASE q.arr = queue.arr /\ q.off = queue.off
    BY <1>1, <1>7, <2>2 DEF QueueInv, Separate, Apart
  <2>3. CASE q.arr = Len(mem) + 1
    <3>1. q.arr # MsgQueue.arr /\ (batch.pc = "propose" => q.arr # batch.s.arr)
      BY <1>3, <2>1, <2>3
    <3> QED
      BY <1>1, <1>7, <3>1 DEF QueueInv, Separate, Apart
  <2> QED
    BY <1>5, <2>2, <2>3
<1>10. ProposedAsArrived'
  <2>1. Held' = Held
    BY <1>1, <1>7 DEF Held
  <2>2. arrived = (proposed \o Held) \o Contents(mem, queue)
    BY InOrder DEF QueueInv
  <2>3. proposed \o Held \in Seq(Requests) /\ Contents(mem, queue) \in Seq(Requests)
    BY HeldType, ConcatProperties DEF QueueInv, QueueTypes
  <2>4. Append(arrived, x) = (proposed \o Held) \o Append(Contents(mem, queue), x)
    BY <1>2, <2>2, <2>3, AppendLast
  <2>5. Contents(mem, queue)' = Contents(n, q)
    BY <1>1
  <2> QED
    BY <1>1, <1>5, <2>1, <2>4, <2>5 DEF ProposedAsArrived, Held
<1>11. LatestMessages'
  <2>1. Contents(mem, MsgQueue)' = Contents(n, MsgQueue)
    BY <1>1
  <2> QED
    BY <1>1, <1>6, <2>1 DEF QueueInv, LatestMessages
<1> QED
  BY <1>8, <1>9, <1>10, <1>11 DEF QueueInv

LEMMA GrabStep ==
  ASSUME QueueInv, GrabWithMaxLenAndClear PROVE QueueInv'
<1> DEFINE long == queue.len > MaxBatch
           C == Contents(mem, queue)
<1>1. /\ batch.pc = "idle"
      /\ batch' = [pc |-> "propose", s |-> IF long THEN Window(queue, 0, MaxBatch) ELSE queue]
      /\ queue' = IF long THEN Window(queue, MaxBatch, queue.len) ELSE EmptySlice
      /\ UNCHANGED <<mem, MsgQueue, appending, arrived, proposed, messages>>
  BY DEF GrabWithMaxLenAndClear, Cleared
<1>2. /\ batch'.pc = "propose" /\ batch' = [pc |-> batch'.pc, s |-> batch'.s]
      /\ batch'.s = IF long THEN Window(queue, 0, MaxBatch) ELSE queue
  BY <1>1
<1>3. /\ Memory(mem) /\ Len(mem) >= 1 /\ mem[1] = << >> /\ IsSlice(mem, queue)
      /\ queue.arr = MsgQueue.arr => queue.arr = 1
      /\ proposed \in Seq(Requests)
  BY DEF QueueInv, QueueTypes, Separate
<1>4. arrived = proposed \o C /\ C \in Seq(Requests)
  <2>1. arrived = (proposed \o << >>) \o C
    BY <1>1, InOrder DEF QueueInv, Held
  <2> QED
    BY <1>3, <2>1, ConcatEmptySeq, HeldType
<1>5. IsSlice(mem, queue') /\ IsSlice(mem, batch'.s) /\ Apart(queue', batch'.s)
      /\ (queue'.arr = queue.arr \/ queue'.arr = 1) /\ batch'.s.arr = queue.arr
      /\ C = Contents(mem, batch'.s) \o Contents(mem, queue')
  <2>1. CASE long
    <3>1. MaxBatch \in Nat /\ MaxBatch <= queue.len
      BY <1>3, <2>1, SliceTypes, QueueAssumption DEF QueueAssumption
    <3>2. /\ IsSlice(mem, queue') /\ IsSlice(mem, batch'.s)
          /\ C = Contents(mem, batch'.s) \o Contents(mem, queue')
      BY <1>1, <1>2, <1>3, <2>1, <3>1, WindowSplits
    <3>3. /\ queue'.arr = queue.arr /\ queue'.off = queue.off + MaxBatch
          /\ batch'.s.arr = queue.arr /\ batch'.s.off = queue.off + 0
          /\ batch'.s.len = MaxBatch - 0
      BY <1>1, <1>2, <2>1, SliceFields DEF Window
    <3>4. queue.off \in Nat
      BY <1>3, SliceTypes
    <3>5. Apart(queue', batch'.s)
      BY <3>1, <3>3, <3>4 DEF Apart
    <3> QED
      BY <3>2, <3>3, <3>5
  <2>2. CASE ~long
    <3>1. queue' = EmptySlice /\ batch'.s = queue
      BY <1>1, <1>2, <2>2
    <3>2. IsSlice(mem, EmptySlice) /\ EmptySlice.arr = 1 /\ Contents(mem, EmptySlice) = << >>
      BY <1>3, EmptyContents
    <3>3. C = C \o << >>
      BY <1>4, ConcatEmptySeq
    <3> QED
      BY <1>3, <3>1, <3>2, <3>3 DEF Apart
  <2> QED
    BY <2>1, <2>2
<1> HIDE DEF C, long
<1>6. QueueTypes'
  BY <1>1, <1>2, <1>5 DEF QueueInv, QueueTypes
<1>7. Separate'
  BY <1>1, <1>2, <1>3, <1>5 DEF Separate
<1>8. ProposedAsArrived'
  <2> DEFINE B == Contents(mem, batch'.s)
             G == Contents(mem, queue')
  <2>1. B \in Seq(Requests) /\ G \in Seq(Requests)
    BY <1>3, <1>5, ContentsType
  <2>2. arrived = proposed \o (B \o G)
    BY <1>4, <1>5
  <2>3. Contents(mem, batch.s)' = B /\ Contents(mem, queue)' = G
    BY <1>1
  <2> HIDE DEF B, G
  <2>4. arrived = (proposed \o B) \o G
    BY <1>3, <2>1, <2>2, ConcatAssociative, SMTT(30)
  <2> QED
    BY <1>1, <1>2, <2>3, <2>4 DEF ProposedAsArrived
<1>9. LatestMessages'
  BY <1>1 DEF QueueInv, LatestMessages, Contents
<1> QED
  BY <1>6, <1>7, <1>8, <1>9 DEF QueueInv

LEMMA GetTransactionsStep ==
  ASSUME QueueInv, getTransactions PROVE QueueInv'
<1> DEFINE B == Contents(mem, batch.s)
           C == Contents(mem, queue)
<1>1. /\ batch.pc = "propose" /\ proposed' = proposed \o B
      /\ batch' = [batch EXCEPT !.pc = "idle"]
      /\ UNCHANGED <<mem, queue, MsgQueue, appending, arrived, messages>>
  BY DEF getTransactions
<1>2. batch' = [pc |-> "idle", s |-> batch.s] /\ batch'.pc = "idle" /\ batch'.s = batch.s
  BY <1>1 DEF QueueInv, QueueTypes
<1>3. /\ proposed \in Seq(Requests) /\ B \in Seq(Requests) /\ C \in Seq(Requests)
      /\ arrived = (proposed \o B) \o C
  BY <1>1, HeldType, InOrder DEF QueueInv, QueueTypes, Held
<1>4. C' = C
  BY <1>1 DEF Contents
<1> HIDE DEF B, C
<1>5. proposed \o B \in Seq(Requests)
  BY <1>3, ConcatProperties
<1>6. QueueTypes'
  BY <1>1, <1>2, <1>5 DEF QueueInv, QueueTypes, IsSlice, Memory
<1>7. Separate'
  BY <1>1, <1>2 DEF QueueInv, Separate
<1>8. ProposedAsArrived'
  <2>1. (proposed \o B) \o << >> = proposed \o B
    BY <1>5, ConcatEmptySeq
  <2>2. Contents(mem, queue)' = C
    BY <1>4 DEF C
  <2> QED
    BY <1>1, <1>2, <1>3, <2>1, <2>2 DEF ProposedAsArrived
<1>9. LatestMessages'
  BY <1>1 DEF QueueInv, LatestMessages, Contents
<1> QED
  BY <1>6, <1>7, <1>8, <1>9 DEF QueueInv

LEMMA LatestType ==
  ASSUME NEW msgs \in Seq(Requests)
  PROVE  /\ Latest(msgs) \in Seq(Requests)
         /\ Len(Latest(msgs)) = IF Len(msgs) <= MaxSize THEN Len(msgs) ELSE MaxSize
         /\ Len(msgs) <= MaxSize => Latest(msgs) = msgs
         /\ ~(Len(msgs) <= MaxSize) =>
              \A i \in 1..MaxSize : Latest(msgs)[i] = msgs[Len(msgs) - MaxSize + i]
<1> DEFINE n == Len(msgs)
<1>1. n \in Nat /\ MaxSize \in Nat
  BY LenProperties, QueueAssumption DEF QueueAssumption
<1>2. CASE n <= MaxSize
  BY <1>2 DEF Latest
<1>3. CASE ~(n <= MaxSize)
  <2> DEFINE lo == n - MaxSize + 1
  <2>1. lo \in Int /\ n \in Int /\ n - lo + 1 = MaxSize /\ lo \in 1..n + 1
        /\ \A i \in 1..MaxSize : lo + i - 1 = n - MaxSize + i
    BY <1>1, <1>3
  <2>2. \A i \in lo..n : i \in 1..Len(msgs)
    BY <2>1
  <2>3. \A i \in lo..n : msgs[i] \in Requests
    BY <2>2, ElementOfSeq
  <2>4. Latest(msgs) = SubSeq(msgs, lo, n)
    BY <1>3 DEF Latest
  <2> HIDE DEF lo, n
  <2>5. /\ SubSeq(msgs, lo, n) \in Seq(Requests)
        /\ Len(SubSeq(msgs, lo, n)) = IF lo <= n THEN n - lo + 1 ELSE 0
        /\ \A i \in 1..n - lo + 1 : SubSeq(msgs, lo, n)[i] = msgs[lo + i - 1]
    BY <2>1, <2>3, SubSeqProperties
  <2>6. (IF lo <= n THEN n - lo + 1 ELSE 0) = MaxSize
    BY <1>1, <2>1
  <2>7. \A i \in 1..MaxSize : Latest(msgs)[i] = msgs[n - MaxSize + i]
    BY <2>1, <2>4, <2>5
  <2> QED
    BY <1>3, <2>4, <2>5, <2>6, <2>7 DEF n
<1> QED
  BY <1>2, <1>3

\* With one message more, the oldest goes if there is no place.
LEMMA LatestAppend ==
  ASSUME NEW msgs \in Seq(Requests), NEW x \in Requests, NEW d, d = Append(Latest(msgs), x)
  PROVE  /\ Len(d) <= MaxSize => d = Latest(Append(msgs, x))
         /\ \A h, t \in Seq(Requests) :
              d = h \o t /\ Len(d) > MaxSize /\ Len(t) = MaxSize => t = Latest(Append(msgs, x))
<1> DEFINE n == Len(msgs)
           more == Append(msgs, x)
<1>0. n \in Nat /\ MaxSize \in Nat
  BY LenProperties, QueueAssumption DEF QueueAssumption
<1>1. /\ more \in Seq(Requests) /\ Len(more) = n + 1
      /\ \A i \in 1..n : more[i] = msgs[i]
      /\ more[n + 1] = x
  BY AppendProperties
<1>2. /\ Latest(msgs) \in Seq(Requests)
      /\ Len(Latest(msgs)) = IF n <= MaxSize THEN n ELSE MaxSize
      /\ n <= MaxSize => Latest(msgs) = msgs
      /\ ~(n <= MaxSize) => \A i \in 1..MaxSize : Latest(msgs)[i] = msgs[n - MaxSize + i]
  BY LatestType
<1>3. /\ Len(d) = Len(Latest(msgs)) + 1
      /\ \A i \in 1..Len(Latest(msgs)) : d[i] = Latest(msgs)[i]
      /\ d[Len(Latest(msgs)) + 1] = x
  BY <1>2, AppendProperties
<1>4. ASSUME Len(d) <= MaxSize PROVE d = Latest(more)
  <2>1. n <= MaxSize /\ n + 1 <= MaxSize
    BY <1>0, <1>2, <1>3, <1>4
  <2>2. d = more
    BY <1>2, <2>1
  <2> QED
    BY <1>1, <2>1, <2>2, LatestType
<1>5. ASSUME NEW h \in Seq(Requests), NEW t \in Seq(Requests), d = h \o t,
             Len(d) > MaxSize, Len(t) = MaxSize
      PROVE  t = Latest(more)
  <2>1. Len(d) = MaxSize + 1 /\ n >= MaxSize /\ Len(Latest(msgs)) = MaxSize
    BY <1>0, <1>2, <1>3, <1>5
  <2>2. Len(h) = 1 /\ \A i \in 1..MaxSize : t[i] = d[i + 1]
    <3>1. Len(h) \in Nat /\ Len(d) = Len(h) + Len(t) /\ Len(t) = MaxSize
          /\ \A i \in 1..Len(h) + Len(t) : d[i] = IF i <= Len(h) THEN h[i] ELSE t[i - Len(h)]
      <4>1. /\ Len(h \o t) = Len(h) + Len(t)
            /\ \A i \in 1..Len(h) + Len(t) :
                 (h \o t)[i] = IF i <= Len(h) THEN h[i] ELSE t[i - Len(h)]
        BY ConcatProperties, ZenonT(60)
      <4>2. Len(h) \in Nat
        BY LenProperties
      <4> QED
        BY <1>5, <4>1, <4>2, ZenonT(60)
    <3>2. Len(h) = 1
      <4>1. \A a, m \in Nat : m + 1 = a + m => a = 1
        OBVIOUS
      <4>2. Len(h) \in Nat /\ MaxSize \in Nat /\ MaxSize + 1 = Len(h) + MaxSize
        BY <1>0, <2>1, <3>1
      <4> QED
        BY <4>1, <4>2
    <3>3. ASSUME NEW i \in 1..MaxSize PROVE t[i] = d[i + 1]
      <4>1. i + 1 \in 1..1 + MaxSize /\ ~(i + 1 <= 1) /\ (i + 1) - 1 = i
        BY <1>0
      <4> QED
        BY <1>5, <3>1, <3>2, <4>1
    <3> QED
      BY <3>2, <3>3
  <2>3. \A j \in 1..MaxSize : Latest(msgs)[j] = msgs[n - MaxSize + j]
    <3>1. CASE n <= MaxSize
      <4>1. n = MaxSize /\ \A j \in 1..MaxSize : n - MaxSize + j = j
        BY <1>0, <2>1, <3>1, SMTT(30)
      <4> QED
        BY <1>2, <3>1, <4>1
    <3>2. CASE ~(n <= MaxSize)
      BY <1>2, <3>2
    <3> QED
      BY <3>1, <3>2
  <2>4. ASSUME NEW i \in 1..MaxSize PROVE t[i] = more[(n + 1) - MaxSize + i]
    <3>1. CASE i < MaxSize
      <4>1. /\ i + 1 \in 1..MaxSize /\ n - MaxSize + (i + 1) \in 1..n
            /\ (n + 1) - MaxSize + i = n - MaxSize + (i + 1)
        BY <1>0, <2>1, <3>1
      <4>2. t[i] = Latest(msgs)[i + 1]
        BY <1>3, <2>1, <2>2, <4>1
      <4> QED
        BY <1>1, <2>3, <4>1, <4>2
    <3>2. CASE i = MaxSize
      <4>1. (n + 1) - MaxSize + i = n + 1 /\ i + 1 = Len(Latest(msgs)) + 1
        BY <1>0, <2>1, <3>2
      <4>2. t[i] = x
        BY <1>3, <2>2, <4>1
      <4>3. more[(n + 1) - MaxSize + i] = x
        BY <1>1, <4>1
      <4> QED
        BY <4>2, <4>3
    <3>3. i < MaxSize \/ i = MaxSize
      BY <1>0
    <3> QED
      BY <3>1, <3>2, <3>3
  <2>5. /\ Latest(more) \in Seq(Requests) /\ Len(Latest(more)) = MaxSize
        /\ \A i \in 1..MaxSize : Latest(more)[i] = more[(n + 1) - MaxSize + i]
    <3>1. Len(more) = n + 1 /\ ~(n + 1 <= MaxSize) /\ more \in Seq(Requests)
      BY <1>0, <1>1, <2>1
    <3> HIDE DEF more, n
    <3>2. /\ Latest(more) \in Seq(Requests)
          /\ Len(Latest(more)) = IF Len(more) <= MaxSize THEN Len(more) ELSE MaxSize
          /\ ~(Len(more) <= MaxSize) =>
               \A i \in 1..MaxSize : Latest(more)[i] = more[Len(more) - MaxSize + i]
      BY <3>1, LatestType
    <3> QED
      BY <3>1, <3>2
  <2> HIDE DEF more
  <2> QED
    BY <1>5, <2>4, <2>5, SeqEqual
<1> QED
  BY <1>4, <1>5

LEMMA HotStuffSendByteMsgStep ==
  ASSUME QueueInv, NEW x \in Requests, HotStuffSendByteMsg(x) PROVE QueueInv'
<1> DEFINE n == Stored(mem, MsgQueue, x)
           q == Appended(mem, MsgQueue)
           t == Trim(q)
<1>1. /\ mem' = n /\ MsgQueue' = t /\ messages' = Append(messages, x)
      /\ UNCHANGED <<queue, appending, batch, arrived, proposed>>
  BY DEF HotStuffSendByteMsg
<1>2. /\ Memory(mem) /\ Len(mem) >= 1 /\ mem[1] = << >> /\ Len(mem) \in Nat /\ 1 \in 1..Len(mem)
      /\ IsSlice(mem, queue) /\ IsSlice(mem, MsgQueue)
  <2>1. Memory(mem) /\ Len(mem) >= 1 /\ mem[1] = << >> /\ IsSlice(mem, queue)
        /\ IsSlice(mem, MsgQueue)
    BY DEF QueueInv, QueueTypes
  <2>2. Len(mem) \in Nat
    BY <2>1, LenProperties DEF Memory
  <2> QED
    BY <2>1, <2>2
<1>3. Memory(n) /\ Len(n) >= Len(mem) /\ n[1] = << >>
  BY <1>2, StoredMemory, FirstArray
<1>4. /\ IsSlice(n, q) /\ Contents(n, q) = Append(Contents(mem, MsgQueue), x)
      /\ q.arr = MsgQueue.arr \/ q.arr = Len(mem) + 1
  BY <1>2, AppendedContents
<1>5. IsSlice(n, queue) /\ Contents(n, queue) = Contents(mem, queue)
  <2>1. Apart(MsgQueue, queue)
    BY DEF QueueInv, Separate, Apart
  <2> QED
    BY <1>2, <2>1, AppendFrame
<1>6. batch.pc = "propose" =>
        /\ IsSlice(mem, batch.s) /\ IsSlice(n, batch.s)
        /\ Contents(n, batch.s) = Contents(mem, batch.s)
  <2>1. batch.pc = "propose" => IsSlice(mem, batch.s) /\ Apart(MsgQueue, batch.s)
    BY DEF QueueInv, Separate, Apart
  <2> QED
    BY <1>2, <2>1, AppendFrame
<1>7. messages \in Seq(Requests) /\ Contents(mem, MsgQueue) = Latest(messages)
  BY DEF QueueInv, QueueTypes, LatestMessages, Latest
<1>8. /\ IsSlice(n, t) /\ t.arr = q.arr
      /\ Contents(n, t) = Latest(Append(messages, x))
  <2>1. Contents(n, q) = Append(Latest(messages), x) /\ Len(Contents(n, q)) = q.len
        /\ q.len \in Nat /\ MaxSize \in Nat
    BY <1>3, <1>4, <1>7, ContentsType, SliceTypes, QueueAssumption DEF QueueAssumption
  <2>2. CASE q.len > MaxSize
    <3> DEFINE k == q.len - MaxSize
               h == Window(q, 0, k)
    <3>1. t = Window(q, k, q.len) /\ k \in Nat /\ k <= q.len
      BY <2>1, <2>2 DEF Trim
    <3>2. t.arr = q.arr /\ t.len = q.len - k
      BY <3>1, SliceFields DEF Window
    <3> HIDE DEF t, h, n, q
    <3>3. IsSlice(n, h) /\ IsSlice(n, t) /\ Contents(n, q) = Contents(n, h) \o Contents(n, t)
      BY <1>3, <1>4, <3>1, WindowSplits DEF h
    <3>4. q.len - k = MaxSize
      BY <2>1
    <3>5. /\ Contents(n, h) \in Seq(Requests) /\ Contents(n, t) \in Seq(Requests)
          /\ Len(Contents(n, t)) = MaxSize
      BY <1>3, <3>2, <3>3, <3>4, ContentsType
    <3>6. Contents(n, t) = Latest(Append(messages, x))
      BY <1>7, <2>1, <2>2, <3>3, <3>5, LatestAppend
    <3> QED
      BY <3>2, <3>3, <3>6
  <2>3. CASE ~(q.len > MaxSize)
    <3>1. t = q /\ Len(Contents(n, q)) <= MaxSize
      BY <2>1, <2>3 DEF Trim
    <3> HIDE DEF t, n, q
    <3> QED
      BY <1>4, <1>7, <2>1, <3>1, LatestAppend
  <2> QED
    BY <2>2, <2>3
<1> HIDE DEF n, q, t
<1>9. QueueTypes'
  <2>1. messages' \in Seq(Requests)
    BY <1>1, <1>7, AppendProperties
  <2>2. Len(n) >= 1
    BY <1>2, <1>3, LenProperties DEF Memory
  <2> QED
    BY <1>1, <1>3, <1>5, <1>8, <2>1, <2>2 DEF QueueInv, QueueTypes
<1>10. Separate'
  <2>1. queue.arr \in 1..Len(mem) /\ (batch.pc = "propose" => batch.s.arr \in 1..Len(mem))
    BY <1>2, <1>6, SliceTypes
  <2>2. CASE q.arr = MsgQueue.arr
    BY <1>1, <1>6, <1>8, <2>2 DEF QueueInv, Separate, Apart
  <2>3. CASE q.arr = Len(mem) + 1
    <3>1. t.arr # queue.arr /\ (batch.pc = "propose" => t.arr # batch.s.arr)
      BY <1>2, <1>8, <2>1, <2>3
    <3> QED
      BY <1>1, <1>6, <3>1 DEF QueueInv, Separate, Apart
  <2> QED
    BY <1>4, <2>2, <2>3
<1>11. ProposedAsArrived'
  <2>1. Contents(mem, queue)' = Contents(n, queue) /\ Contents(mem, batch.s)' = Contents(n, batch.s)
    BY <1>1
  <2> QED
    BY <1>1, <1>5, <1>6, <2>1 DEF QueueInv, ProposedAsArrived
<1>12. LatestMessages'
  <2>1. Contents(mem, MsgQueue)' = Contents(n, t)
    BY <1>1
  <2> QED
    BY <1>1, <1>8, <2>1 DEF LatestMessages, Latest
<1> QED
  BY <1>9, <1>10, <1>11, <1>12 DEF QueueInv

LEMMA InitQueueInv == QueueInit => QueueInv
<1> SUFFICES ASSUME QueueInit PROVE QueueInv
  OBVIOUS
<1>1. /\ mem = << << >> >> /\ queue = EmptySlice /\ MsgQueue = EmptySlice /\ appending = << >>
      /\ batch = [pc |-> "idle", s |-> EmptySlice]
      /\ arrived = << >> /\ proposed = << >> /\ messages = << >>
  BY DEF QueueInit
<1>2. Memory(mem) /\ Len(mem) >= 1 /\ mem[1] = << >>
  <2>1. << >> \in Seq(Requests)
    BY EmptySeq
  <2>2. << << >> >> \in Seq(Seq(Requests))
    BY <2>1
  <2> QED
    BY <1>1, <2>2 DEF Memory
<1>3. IsSlice(mem, EmptySlice) /\ EmptySlice.arr = 1 /\ Contents(mem, EmptySlice) = << >>
  BY <1>2, EmptyContents
<1>4. << >> \in Seq(Requests) /\ << >> \o << >> = << >> /\ Len(<< >>) = 0
  BY EmptySeq, ConcatEmptySeq
<1>5. QueueTypes
  BY <1>1, <1>2, <1>3, <1>4 DEF QueueTypes
<1>6. Separate
  BY <1>1, <1>3 DEF Separate
<1>7. ProposedAsArrived
  BY <1>1, <1>3, <1>4, InOrder DEF Held
<1>8. LatestMessages
  BY <1>1, <1>3, <1>4, QueueAssumption DEF LatestMessages, Latest, QueueAssumption
<1> QED
  BY <1>5, <1>6, <1>7, <1>8 DEF QueueInv

----------------------------------------------------------------------------

\* The inductive invariant of the queues.
THEOREM QueueInvariant == QueueSpec => []QueueInv
<1>1. QueueInv /\ [QueueNext]_queueVars => QueueInv'
  <2> SUFFICES ASSUME QueueInv, [QueueNext]_queueVars PROVE QueueInv'
    OBVIOUS
  <2>1. ASSUME NEW n \in 1..MaxTogether, NEW requests \in [1..n -> Requests],
               HandleBatchRequest(requests)
        PROVE  QueueInv'
    BY <2>1, HandleBatchRequestStep
  <2>2. CASE AppendNext \/ GrabWithMaxLenAndClear \/ getTransactions
    BY <2>2, AppendNextStep, GrabStep, GetTransactionsStep
  <2>3. ASSUME NEW x \in Requests, HotStuffSendByteMsg(x) PROVE QueueInv'
    BY <2>3, HotStuffSendByteMsgStep
  <2>4. CASE UNCHANGED queueVars
    <3>1. UNCHANGED <<mem, queue, MsgQueue, appending, batch, arrived, proposed, messages>>
      BY <2>4 DEF queueVars
    <3>2. QueueTypes' /\ Separate'
      BY <3>1 DEF QueueInv, QueueTypes, Separate, Apart, IsSlice, Memory
    <3>3. ProposedAsArrived' /\ LatestMessages'
      BY <3>1 DEF QueueInv, ProposedAsArrived, LatestMessages, Contents
    <3> QED
      BY <3>2, <3>3 DEF QueueInv
  <2> QED
    BY <2>1, <2>2, <2>3, <2>4 DEF QueueNext
<1> QED
  BY <1>1, InitQueueInv, PTL DEF QueueSpec

\* Every request is proposed once, in the order of arrival, although a batch that was
\* grabbed is serialised while handlers append to what may be the same array:
\* ProposedAsArrived, for any requests and any sizes of batches.
THEOREM ProposedAsArrivedHolds == QueueSpec => []ProposedAsArrived
<1>1. QueueInv => ProposedAsArrived
  BY DEF QueueInv
<1> QED
  BY <1>1, QueueInvariant, PTL

\* MsgQueue holds the latest messages, as many as fit: LatestMessages, for any maxSize.
THEOREM LatestMessagesHold == QueueSpec => []LatestMessages
<1>1. QueueInv => LatestMessages
  BY DEF QueueInv
<1> QED
  BY <1>1, QueueInvariant, PTL
=============================================================================
