----------------------------- MODULE ClientSender -----------------------------
(***************************************************************************)
(* How a client sends its requests (clientsender/client.go): as a replica  *)
(* sends its messages, with a timeout (clientTimer) and a list of peers    *)
(* that do not answer of its own.  Unlike a replica, a client waits for    *)
(* every send of a broadcast before the next, drops a connection over      *)
(* which a request failed, and never takes a peer for alive again, for     *)
(* nothing is ever sent to it.                                             *)
(***************************************************************************)
EXTENDS Transport

VARIABLE
  nodes       \* those the loop of BroadcastRequest has yet to reach

clientVars == <<sendVars, nodes>>

\* wg.Wait() of the broadcast before returns when no send is left.
BroadcastRequest ==
  /\ nodes = {}
  /\ \A g \in Senders : sends[g] = Quiet
  /\ nodes' = Peers
  /\ UNCHANGED sendVars

\* One round of the loop: go SendRequest, unless the peer is given up.
SendRequest(g, p) ==
  /\ p \in nodes
  /\ nodes' = nodes \ {p}
  /\ IF IsNotLive(p) THEN UNCHANGED sendVars ELSE ByteSend(g, p)

DropConnection(p) == connected' = connected \ {p}

\* c.SendRequest: when it fails, the next send dials again.  (err is a variable that all
\* sends share, so that one may take another's failure for its own and drop a connection
\* that is good; it is local here.)
RequestRpc(g) ==
  /\ sends[g].pc = "rpc"
  /\ \/ TRUE \in Answers(g) /\ UNCHANGED <<connected, lost>>
     \/ /\ FALSE \in Answers(g)
        /\ DropConnection(sends[g].peer)
        /\ lost' = lost \cup {sends[g].peer}
  /\ sends' = [sends EXCEPT ![g] = Quiet]
  /\ UNCHANGED <<connectionMap, notLive, broadcastTimer, heard, failures, failed, nodes>>

ClientInit == TransportInit /\ nodes = {}

\* The bound on failures stops new broadcasts.
ClientNext ==
  \/ failed + Cardinality(Peers) <= MaxFailures /\ BroadcastRequest
  \/ \E g \in Senders, p \in Peers : SendRequest(g, p)
  \/ \E g \in Senders :
       \/ RequestRpc(g)
       \/ /\ Dial(g) \/ NotLiveGet(g) \/ NotLiveInsert(g) \/ NotLiveMark(g)
             \/ ReadTimer(g) \/ WriteTimer(g)
          /\ UNCHANGED nodes

ClientSpec == ClientInit /\ [][ClientNext]_clientVars
=============================================================================
