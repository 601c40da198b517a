---------------------------- MODULE TimeoutBuffer ----------------------------
(***************************************************************************)
(* How one replica collects a timeout certificate (TQC): timeoutBuffer, an *)
(* INTBUFFER (quorum/def.go), and the handlers of TIMEOUT, TQC and REC1    *)
(* (viewchange.go, sleepyRec.go).  ViewChange takes each of those handlers *)
(* as one step.  Here they are goroutines that take viewMux and bufferLock *)
(* one after the other, and messages come as the network likes, some of    *)
(* them twice.                                                             *)
(***************************************************************************)
EXTENDS Integers, FiniteSets, Sequences, SequencesExt

CONSTANTS
  Sources,     \* the replicas
  QuorumSize,  \* quorum.QuorumSize()
  LastView,    \* bound on the views whose end is at stake
  Goroutines   \* bound: messages handled at a time

Views == 0..LastView

VARIABLES
  view,        \* LocalView()
  byTQC,       \* history: was it a TQC that ended the view before
  viewMux,     \* who holds viewMux across steps
  IntBuffer,   \* view -> the senders of its timeouts
  V,           \* view -> the timeouts, by sender
  tqcPrepared, \* views whose "TQC" entry is PREPARED
  goroutines,  \* where each goroutine is
  tqcSent,     \* the TQCs it broadcast, in order
  echoes       \* the ECHO1 messages it answered with

bufferVars == <<view, byTQC, viewMux, IntBuffer, V, tqcPrepared, goroutines, tqcSent, echoes>>

Idle == [pc |-> "idle", view |-> 0, src |-> 0, V |-> << >>]

\* No goroutine is between Lock and Unlock of viewMux.
Free == viewMux = "free"

Goto(g, pc) == goroutines' = [goroutines EXCEPT ![g].pc = pc]

----------------------------------------------------------------------------
(* HandleTimeoutMsg.                                                       *)

\* The view is checked under viewMux, which is released at once.
CheckTimeout(g, s, v) ==
  /\ goroutines[g] = Idle
  /\ Free
  /\ v >= view
  /\ goroutines' = [goroutines EXCEPT ![g] = [pc |-> "insert", view |-> v, src |-> s,
                                              V |-> << >>]]
  /\ UNCHANGED <<view, byTQC, viewMux, IntBuffer, V, tqcPrepared, tqcSent, echoes>>

\* Variant for a mutant: a message is kept although its sender is known.
AppendAlways(v, s) == Append(V[v], s)

\* INTBUFFER.InsertValue: a second message of one sender is not kept.
InsertValue(v, s) == IF s \in IntBuffer[v] THEN V[v] ELSE Append(V[v], s)

Enough(senders) == Cardinality(senders) >= QuorumSize

\* Variant for a mutant: the entry is marked later, with the broadcast.
MarkLate(v) == UNCHANGED tqcPrepared

MarkPrepared(v) == tqcPrepared' = tqcPrepared \cup {v}

\* The part of the handler that holds bufferLock.
InsertTimeout(g) ==
  LET v == goroutines[g].view
      s == goroutines[g].src
      senders == IntBuffer[v] \cup {s}
  IN  /\ goroutines[g].pc = "insert"
      /\ IF v \in tqcPrepared
           THEN /\ goroutines' = [goroutines EXCEPT ![g] = Idle]
                /\ UNCHANGED <<IntBuffer, V, tqcPrepared>>
           ELSE /\ IntBuffer' = [IntBuffer EXCEPT ![v] = senders]
                /\ V' = [V EXCEPT ![v] = InsertValue(v, s)]
                /\ IF Enough(senders)
                     THEN MarkPrepared(v) /\ Goto(g, "broadcast")
                     ELSE /\ goroutines' = [goroutines EXCEPT ![g] = Idle]
                          /\ UNCHANGED tqcPrepared
      /\ UNCHANGED <<view, byTQC, viewMux, tqcSent, echoes>>

GetV(v) == V[v]

\* GetV reads the messages again, without bufferLock.
BroadcastTQC(g) ==
  LET v == goroutines[g].view
  IN  /\ goroutines[g].pc = "broadcast"
      /\ tqcSent' = Append(tqcSent, [view |-> v, V |-> GetV(v)])
      /\ goroutines' = [goroutines EXCEPT ![g] = Idle]
      /\ UNCHANGED <<view, byTQC, viewMux, IntBuffer, V, tqcPrepared, echoes>>

----------------------------------------------------------------------------
(* HandleTQCMsg.                                                           *)

VerifyTQC(tqc) == Len(tqc) >= QuorumSize /\ IsInjective(tqc)

TQCs == { tqc \in [1..QuorumSize -> Sources] : VerifyTQC(tqc) }

\* StartViewChange, under viewMux, which is kept.
StartTQC(g, v, tqc) ==
  /\ goroutines[g] = Idle
  /\ VerifyTQC(tqc)
  /\ Free
  /\ v >= view
  /\ view' = v + 1
  /\ byTQC' = TRUE
  /\ viewMux' = "held"
  /\ goroutines' = [goroutines EXCEPT ![g] = [pc |-> "tqc", view |-> v, src |-> 0,
                                              V |-> tqc]]
  /\ UNCHANGED <<IntBuffer, V, tqcPrepared, tqcSent, echoes>>

\* INTBUFFER.InsertV: the senders counted so far stay as they are.
InsertV(v, tqc) == V' = [V EXCEPT ![v] = tqc]

\* The rest, under bufferLock as well: a TQC that is new is passed on.
KeepTQC(g) ==
  LET v == goroutines[g].view
  IN  /\ goroutines[g].pc = "tqc"
      /\ viewMux' = "free"
      /\ goroutines' = [goroutines EXCEPT ![g] = Idle]
      /\ IF v \in tqcPrepared
           THEN UNCHANGED <<V, tqcPrepared, tqcSent>>
           ELSE /\ InsertV(v, goroutines[g].V)
                /\ tqcPrepared' = tqcPrepared \cup {v}
                /\ tqcSent' = Append(tqcSent, [view |-> v, V |-> goroutines[g].V])
      /\ UNCHANGED <<view, byTQC, IntBuffer, echoes>>

\* HandleQCVCMessage: a quorum of VIEWCHANGE messages takes the leader to a view
\* whose TQC it may not have seen.
EnterView(w) ==
  /\ Free
  /\ w \in {view, view + 1}
  /\ view' = w
  /\ byTQC' = (byTQC /\ w = view)
  /\ UNCHANGED <<viewMux, IntBuffer, V, tqcPrepared, goroutines, tqcSent, echoes>>

\* Variant for a mutant: HandleRec1Msg without viewMux.
Unlocked == TRUE

ReadsView == Free

\* HandleRec1Msg: the TQC of the view before proves that it is over.
HandleRec1Msg ==
  /\ ReadsView
  /\ view > 0
  /\ echoes' = echoes \cup {[view |-> view - 1, V |-> GetV(view - 1), byTQC |-> byTQC]}
  /\ UNCHANGED <<view, byTQC, viewMux, IntBuffer, V, tqcPrepared, goroutines, tqcSent>>

----------------------------------------------------------------------------

BufferInit ==
  /\ view = 0
  /\ byTQC = FALSE
  /\ viewMux = "free"
  /\ IntBuffer = [v \in Views |-> {}]
  /\ V = [v \in Views |-> << >>]
  /\ tqcPrepared = {}
  /\ goroutines = [g \in Goroutines |-> Idle]
  /\ tqcSent = << >>
  /\ echoes = {}

BufferNext ==
  \/ \E g \in Goroutines, v \in Views :
       \/ \E s \in Sources : CheckTimeout(g, s, v)
       \/ \E tqc \in TQCs : StartTQC(g, v, tqc)
  \/ \E g \in Goroutines : InsertTimeout(g) \/ BroadcastTQC(g) \/ KeepTQC(g)
  \/ \E w \in 0..LastView + 1 : EnterView(w)
  \/ HandleRec1Msg

BufferSpec == BufferInit /\ [][BufferNext]_bufferVars

----------------------------------------------------------------------------

\* What a replica broadcasts as a TQC passes the test of whoever receives it,
\* although the messages are read after bufferLock was released and a TQC of
\* another replica may replace them meanwhile.
SentTQCsVerify == \A k \in DOMAIN tqcSent : VerifyTQC(tqcSent[k].V)

\* A replica spreads one TQC of a view, its own or the first it is sent: were it
\* to send another for each TIMEOUT past the quorum, each would be passed on by all.
OneTQCPerView ==
  \A j, k \in DOMAIN tqcSent : tqcSent[j].view = tqcSent[k].view => j = k

\* A replica that a TQC took to its view can prove it to a recovering replica:
\* no ECHO1 shows the new view with the half-filled buffer of the one before.
\* (A leader that came by VIEWCHANGE messages often cannot.)
EchoesVerify == \A e \in echoes : e.byTQC => VerifyTQC(e.V)
=============================================================================
