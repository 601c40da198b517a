------------------------------ MODULE Transport ------------------------------
(***************************************************************************)
(* The sending side of one replica (sender.go, connection.go,              *)
(* connMap.go).  Every message is sent by a goroutine of its own, which    *)
(* may have to dial first.  A dial that fails is counted and doubles the   *)
(* timeout of all later sends; a peer whose dials fail too often is left   *)
(* out of broadcasts until a message of it arrives (HandleQCByteMsg calls  *)
(* SetLive).  None of this is done under a lock of its own: only the maps  *)
(* have one.  A peer that is not good answers or not, as it likes.         *)
(***************************************************************************)
EXTENDS Integers, FiniteSets

CONSTANTS
  Peers,          \* the other replicas
  Good,           \* those that always answer within the initial broadcastTimer
  Senders,        \* bound: sends at a time
  InitialTimer,   \* config.FetchBroadcastTimer(), as a duration
  Width,          \* the durations are integers of that many bits
  MaxFailures     \* bound: dials that fail

ASSUME TransportAssumption ==
  /\ Good \subseteq Peers
  /\ InitialTimer \in Nat
  /\ Width \in Nat \ {0}

maxLimit == 3

VARIABLES
  connected,      \* peers with an entry in connections
  connectionMap,  \* peer -> failed dials, -1 if there is no entry
  notLive,        \* peers whose entry in connection is true
  broadcastTimer,
  sends,          \* the goroutines in ByteSend
  heard,          \* the peer whose message is in SetLive, if any
  failures,       \* history: peer -> dials that failed
  failed,         \* history: dials that failed, to whichever peer
  lost            \* history: peers a message was not delivered to

sendVars ==
  <<connected, connectionMap, notLive, broadcastTimer, sends, heard, failures, failed, lost>>

None == "none"
Quiet == [pc |-> "idle", peer |-> None, timeout |-> 0, v |-> 0]

\* Durations wrap around.
Wrapped(d) == LET r == d % 2^Width IN IF r >= 2^(Width - 1) THEN r - 2^Width ELSE r

Next(g, pc) == [sends EXCEPT ![g].pc = pc]

----------------------------------------------------------------------------
(* RBCByteBroadcast, SendToNode and ByteSend.                              *)

\* StringBoolMap and StringIntMap: one step each, under the lock of the map.
IsNotLive(p) == p \in notLive
InsertLiveness(p, dead) == notLive' = IF dead THEN notLive \cup {p} ELSE notLive \ {p}
GetCount(p) == connectionMap[p]
InsertCount(p, v) == connectionMap' = [connectionMap EXCEPT ![p] = v]

ByteSend(g, p) ==
  /\ sends[g] = Quiet
  /\ sends' = [sends EXCEPT ![g] = [pc |-> "dial", peer |-> p,
                                    timeout |-> broadcastTimer, v |-> 0]]
  /\ UNCHANGED <<connected, connectionMap, notLive, broadcastTimer, heard, failures, failed, lost>>

\* One round of the loop of RBCByteBroadcast.
RBCByteBroadcast(g, p) == ~IsNotLive(p) /\ ByteSend(g, p)

\* A vote goes to its leader whatever is known of it.
SendToNode(g, p) == ByteSend(g, p)

\* Whether the peer of g answers before the deadline of g.
Answers(g) ==
  IF sends[g].peer \in Good THEN {sends[g].timeout >= InitialTimer} ELSE BOOLEAN

\* AddrConnMap.
HasConnection(p) == p \in connected
InsertConnection(p) == connected' = connected \cup {p}

\* BuildConnection: dial, and keep the connection.
BuildConnection(g) ==
  /\ sends' = Next(g, "rpc")
  /\ InsertConnection(sends[g].peer)
  /\ UNCHANGED <<failures, failed, lost>>

DialFails(g) ==
  LET p == sends[g].peer
  IN  /\ sends' = [sends EXCEPT ![g].pc = "read", ![g].timeout = 0]
      /\ failures' = [failures EXCEPT ![p] = @ + 1]
      /\ failed' = failed + 1
      /\ lost' = lost \cup {p}
      /\ UNCHANGED connected

\* BuildConnection is called unless there is a connection already.
Dial(g) ==
  /\ sends[g].pc = "dial"
  /\ \/ (HasConnection(sends[g].peer) \/ TRUE \in Answers(g)) /\ BuildConnection(g)
     \/ ~HasConnection(sends[g].peer) /\ FALSE \in Answers(g) /\ DialFails(g)
  /\ UNCHANGED <<connectionMap, notLive, broadcastTimer, heard>>

\* HotStuffSendByteMsg: when it fails, nothing is counted and the connection stays.
Rpc(g) ==
  /\ sends[g].pc = "rpc"
  /\ \E answer \in Answers(g) :
       lost' = IF answer THEN lost ELSE lost \cup {sends[g].peer}
  /\ sends' = [sends EXCEPT ![g] = Quiet]
  /\ UNCHANGED <<connected, connectionMap, notLive, broadcastTimer, heard, failures, failed>>

----------------------------------------------------------------------------
(* NotLive: Get, Insert and the second Insert.                             *)

NotLiveGet(g) ==
  /\ sends[g].pc = "read"
  /\ sends' = [sends EXCEPT ![g].pc = "insert", ![g].v = GetCount(sends[g].peer)]
  /\ UNCHANGED <<connected, connectionMap, notLive, broadcastTimer, heard, failures, failed, lost>>

NotLiveInsert(g) ==
  /\ sends[g].pc = "insert"
  /\ InsertCount(sends[g].peer, sends[g].v + 1)
  /\ sends' = Next(g, "mark")
  /\ UNCHANGED <<connected, notLive, broadcastTimer, heard, failures, failed, lost>>

\* Variant for a mutant: the counter that was just written is compared.
CountsThisOne(v) == v + 1 > maxLimit

TooOften(v) == v > maxLimit

NotLiveMark(g) ==
  /\ sends[g].pc = "mark"
  /\ IF TooOften(sends[g].v) THEN InsertLiveness(sends[g].peer, TRUE) ELSE UNCHANGED notLive
  /\ sends' = [sends EXCEPT ![g].pc = "double", ![g].v = 0]
  /\ UNCHANGED <<connected, connectionMap, broadcastTimer, heard, failures, failed, lost>>

\* Variant for a mutant: the timer grows faster.
Squared(t) == Wrapped(t * t)

Doubled(t) == Wrapped(t * 2)

\* broadcastTimer = broadcastTimer * 2, without a lock.
ReadTimer(g) ==
  /\ sends[g].pc = "double"
  /\ sends' = [sends EXCEPT ![g].pc = "write", ![g].timeout = broadcastTimer]
  /\ UNCHANGED <<connected, connectionMap, notLive, broadcastTimer, heard, failures, failed, lost>>

WriteTimer(g) ==
  /\ sends[g].pc = "write"
  /\ broadcastTimer' = Doubled(sends[g].timeout)
  /\ sends' = [sends EXCEPT ![g] = Quiet]
  /\ UNCHANGED <<connected, connectionMap, notLive, heard, failures, failed, lost>>

----------------------------------------------------------------------------
(* SetLive, called for every message that arrives.                         *)

SetLiveCount(p) ==
  /\ heard = None
  /\ heard' = p
  /\ InsertCount(p, 0)
  /\ UNCHANGED <<connected, notLive, broadcastTimer, sends, failures, failed, lost>>

SetLive ==
  /\ heard # None
  /\ heard' = None
  /\ InsertLiveness(heard, FALSE)
  /\ UNCHANGED <<connected, connectionMap, broadcastTimer, sends, failures, failed, lost>>

----------------------------------------------------------------------------

TransportInit ==
  /\ connected = {}
  /\ connectionMap = [p \in Peers |-> -1]
  /\ notLive = {}
  /\ broadcastTimer = InitialTimer
  /\ sends = [g \in Senders |-> Quiet]
  /\ heard = None
  /\ failures = [p \in Peers |-> 0]
  /\ failed = 0
  /\ lost = {}

\* The bound on failures stops new sends.
TransportNext ==
  \/ \E g \in Senders, p \in Peers :
       failed < MaxFailures /\ (RBCByteBroadcast(g, p) \/ SendToNode(g, p))
  \/ \E g \in Senders :
       \/ Dial(g) \/ Rpc(g)
       \/ NotLiveGet(g) \/ NotLiveInsert(g) \/ NotLiveMark(g)
       \/ ReadTimer(g) \/ WriteTimer(g)
  \/ \E p \in Peers : SetLiveCount(p)
  \/ SetLive

TransportSpec == TransportInit /\ [][TransportNext]_sendVars

----------------------------------------------------------------------------

\* A peer is left out of broadcasts only after five failed dials, the counter
\* being compared as it was before the last one (a sixth is needed where there was
\* no entry), although goroutines count on top of each other and messages reset the
\* counter meanwhile.
MarkedAfterFiveFailures == \A p \in Peers : IsNotLive(p) => failures[p] >= 5

\* A peer that answers in time gets every message and stays in the broadcasts,
\* whatever happens to dials of others: as long as those are fewer than the
\* doublings that fit the width of a duration.
GoodPeersKept ==
  InitialTimer * 2^failed < 2^(Width - 1) => Good \cap (notLive \cup lost) = {}
=============================================================================
