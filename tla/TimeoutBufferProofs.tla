------------------------- MODULE TimeoutBufferProofs -------------------------
(***************************************************************************)
(* Proofs about TimeoutBuffer, for all replicas, quorum sizes, views and   *)
(* numbers of goroutines: its three invariants.                            *)
(*                                                                         *)
(* The argument.  Until a view is marked PREPARED, InsertValue keeps one   *)
(* message of each sender that is counted, so that the messages verify as  *)
(* soon as the senders are enough.  Whoever marks the view does so under   *)
(* bufferLock, is alone in that, and broadcasts once; nothing writes the   *)
(* messages after that, so that it does not matter when they are read.     *)
(* HandleTQCMsg keeps viewMux from the view change to the mark, so that a  *)
(* view a TQC led to is shown with the view before marked.                 *)
(***************************************************************************)
EXTENDS TimeoutBuffer, FiniteSetTheorems, TLAPS

----------------------------------------------------------------------------
(* The inductive invariant.                                                *)

Elements(q) == { q[i] : i \in DOMAIN q }

GoroutineTypes ==
  goroutines \in [Goroutines -> [pc: {"idle", "insert", "broadcast", "tqc"}, view: Views,
                                 src: Sources \cup {0}, V: Seq(Sources)]]

BufferTypeOK ==
  /\ view \in 0..LastView + 1
  /\ byTQC \in BOOLEAN
  /\ viewMux \in {"free", "held"}
  /\ IntBuffer \in [Views -> SUBSET Sources]
  /\ V \in [Views -> Seq(Sources)]
  /\ tqcPrepared \in SUBSET Views
  /\ tqcSent \in Seq([view: Views, V: Seq(Sources)])
  /\ GoroutineTypes
  /\ \A g \in Goroutines : goroutines[g].pc = "insert" => goroutines[g].src \in Sources

\* The messages q are one of each of the senders.
OneOfEach(q, senders) ==
  /\ IsInjective(q)
  /\ Elements(q) = senders
  /\ IsFiniteSet(senders)
  /\ Len(q) = Cardinality(senders)

Collected ==
  \A v \in Views : IF v \in tqcPrepared THEN VerifyTQC(V[v]) ELSE OneOfEach(V[v], IntBuffer[v])

At(g, pc) == goroutines[g].pc = pc

\* The goroutine that marked a view has yet to broadcast its TQC.
Broadcasts ==
  \A g \in Goroutines : At(g, "broadcast") =>
    /\ goroutines[g].view \in tqcPrepared
    /\ \A k \in DOMAIN tqcSent : tqcSent[k].view # goroutines[g].view
    /\ \A i \in Goroutines : At(i, "broadcast") /\ goroutines[i].view = goroutines[g].view => i = g

Sent ==
  \A k \in DOMAIN tqcSent : tqcSent[k].view \in tqcPrepared

\* HandleTQCMsg between StartViewChange and the buffer.
Holds ==
  \A g \in Goroutines : At(g, "tqc") =>
    /\ viewMux = "held"
    /\ view = goroutines[g].view + 1
    /\ VerifyTQC(goroutines[g].V)
    /\ \A i \in Goroutines : At(i, "tqc") => i = g

Shown == byTQC /\ view > 0 /\ Free => view - 1 \in tqcPrepared

BInv ==
  /\ BufferTypeOK
  /\ Collected
  /\ Broadcasts
  /\ Sent
  /\ Holds
  /\ Shown
  /\ SentTQCsVerify
  /\ OneTQCPerView
  /\ EchoesVerify

----------------------------------------------------------------------------

\* A message of a sender that is not known yet.
LEMMA AppendOne ==
  ASSUME NEW S, NEW q \in Seq(S), NEW s \in S, NEW senders, OneOfEach(q, senders),
         s \notin senders
  PROVE  Append(q, s) \in Seq(S) /\ OneOfEach(Append(q, s), senders \cup {s})
<1> DEFINE p == Append(q, s)
<1>1. /\ p \in Seq(S) /\ Len(p) = Len(q) + 1 /\ Len(q) \in Nat
      /\ DOMAIN q = 1..Len(q) /\ DOMAIN p = 1..Len(q) + 1
      /\ p[Len(q) + 1] = s /\ \A i \in 1..Len(q) : p[i] = q[i]
  OBVIOUS
<1> HIDE DEF p
<1>2. \A i \in DOMAIN q : q[i] # s
  BY DEF OneOfEach, Elements
<1>3. IsInjective(p)
  <2> SUFFICES ASSUME NEW i \in DOMAIN p, NEW j \in DOMAIN p, p[i] = p[j] PROVE i = j
    BY DEF IsInjective
  <2>1. CASE i = Len(q) + 1 \/ j = Len(q) + 1
    BY <1>1, <1>2, <2>1
  <2>2. CASE i \in DOMAIN q /\ j \in DOMAIN q
    BY <1>1, <2>2 DEF OneOfEach, IsInjective
  <2> QED
    BY <1>1, <2>1, <2>2
<1>4. Elements(p) = senders \cup {s}
  <2>1. \A i \in DOMAIN p : p[i] \in senders \cup {s}
    BY <1>1 DEF OneOfEach, Elements
  <2>2. \A e \in senders \cup {s} : \E i \in DOMAIN p : p[i] = e
    BY <1>1 DEF OneOfEach, Elements
  <2> QED
    BY <2>1, <2>2 DEF Elements
<1>5. /\ IsFiniteSet(senders \cup {s})
      /\ Cardinality(senders \cup {s}) = Cardinality(senders) + 1
  BY FS_AddElement DEF OneOfEach
<1> QED
  BY <1>1, <1>3, <1>4, <1>5 DEF OneOfEach, p

LEMMA InitBInv ==
  ASSUME LastView \in Nat
  PROVE  BufferInit => BInv
<1> SUFFICES ASSUME BufferInit PROVE BInv
  OBVIOUS
<1> USE DEF BufferInit
<1>1. BufferTypeOK
  BY DEF BufferTypeOK, GoroutineTypes, Idle, Views
<1>2. OneOfEach(<< >>, {})
  BY FS_EmptySet DEF OneOfEach, IsInjective, Elements
<1>3. Collected
  BY <1>2 DEF Collected
<1> QED
  BY <1>1, <1>3 DEF BInv, Broadcasts, Sent, Holds, Shown, At, Idle, SentTQCsVerify,
                    OneTQCPerView, EchoesVerify

\* One more TQC, of a view that none was sent of.
LEMMA SendOne ==
  ASSUME BInv, NEW e \in [view: Views, V: Seq(Sources)], tqcSent' = Append(tqcSent, e),
         VerifyTQC(e.V), \A k \in DOMAIN tqcSent : tqcSent[k].view # e.view
  PROVE  /\ tqcSent' \in Seq([view: Views, V: Seq(Sources)])
         /\ SentTQCsVerify' /\ OneTQCPerView'
         /\ \A k \in DOMAIN tqcSent' :
              \/ tqcSent'[k].view = e.view
              \/ k \in DOMAIN tqcSent /\ tqcSent'[k] = tqcSent[k]
<1>1. tqcSent \in Seq([view: Views, V: Seq(Sources)])
  BY DEF BInv, BufferTypeOK
<1>2. /\ tqcSent' \in Seq([view: Views, V: Seq(Sources)])
      /\ DOMAIN tqcSent = 1..Len(tqcSent) /\ Len(tqcSent) \in Nat
      /\ DOMAIN tqcSent' = 1..Len(tqcSent) + 1
      /\ tqcSent'[Len(tqcSent) + 1] = e
      /\ \A k \in 1..Len(tqcSent) : tqcSent'[k] = tqcSent[k]
  BY <1>1
<1>3. \A k \in DOMAIN tqcSent' :
        \/ k = Len(tqcSent) + 1 /\ tqcSent'[k] = e
        \/ k \in DOMAIN tqcSent /\ tqcSent'[k] = tqcSent[k]
  BY <1>2
<1>4. SentTQCsVerify'
  <2> SUFFICES ASSUME NEW k \in DOMAIN tqcSent' PROVE VerifyTQC(tqcSent'[k].V)
    BY DEF SentTQCsVerify, VerifyTQC, IsInjective
  <2> QED
    BY <1>3 DEF BInv, SentTQCsVerify
<1>5. OneTQCPerView'
  <2> SUFFICES ASSUME NEW j \in DOMAIN tqcSent', NEW k \in DOMAIN tqcSent',
                      tqcSent'[j].view = tqcSent'[k].view
               PROVE  j = k
    BY DEF OneTQCPerView
  <2> QED
    BY <1>3 DEF BInv, OneTQCPerView
<1> QED
  BY <1>2, <1>3, <1>4, <1>5

\* What only depends on the TQCs sent and the ECHO1 messages.
LEMMA NothingSent ==
  ASSUME BInv, UNCHANGED <<tqcSent, echoes>>
  PROVE  SentTQCsVerify' /\ OneTQCPerView' /\ EchoesVerify'
BY DEF BInv, SentTQCsVerify, OneTQCPerView, EchoesVerify, VerifyTQC, IsInjective

LEMMA EchoesStay ==
  ASSUME BInv, UNCHANGED echoes
  PROVE  EchoesVerify'
BY DEF BInv, EchoesVerify, VerifyTQC, IsInjective

LEMMA CollectedStays ==
  ASSUME BInv, UNCHANGED <<IntBuffer, V, tqcPrepared>>
  PROVE  Collected'
BY DEF BInv, Collected, VerifyTQC, IsInjective, OneOfEach, Elements

LEMMA CheckTimeoutStep ==
  ASSUME BInv, NEW g \in Goroutines, NEW s \in Sources, NEW v \in Views, CheckTimeout(g, s, v)
  PROVE  BInv'
<1> DEFINE G == [pc |-> "insert", view |-> v, src |-> s, V |-> << >>]
<1>1. /\ goroutines' = [goroutines EXCEPT ![g] = G]
      /\ UNCHANGED <<view, byTQC, viewMux, IntBuffer, V, tqcPrepared, tqcSent, echoes>>
  BY DEF CheckTimeout
<1>2. goroutines'[g] = G /\ \A i \in Goroutines \ {g} : goroutines'[i] = goroutines[i]
  BY <1>1 DEF BInv, BufferTypeOK, GoroutineTypes
<1>3. BufferTypeOK'
  <2>1. G \in [pc: {"idle", "insert", "broadcast", "tqc"}, view: Views,
               src: Sources \cup {0}, V: Seq(Sources)]
    OBVIOUS
  <2>2. GoroutineTypes'
    BY <1>1, <2>1 DEF BInv, BufferTypeOK, GoroutineTypes
  <2>3. \A i \in Goroutines : goroutines'[i].pc = "insert" => goroutines'[i].src \in Sources
    <3>1. \A i \in Goroutines : goroutines[i].pc = "insert" => goroutines[i].src \in Sources
      BY DEF BInv, BufferTypeOK
    <3> QED
      BY <1>2, <3>1
  <2> QED
    BY <1>1, <2>2, <2>3 DEF BInv, BufferTypeOK
<1>4. Broadcasts' /\ Holds'
  BY <1>1, <1>2 DEF BInv, Broadcasts, Holds, At, VerifyTQC, IsInjective
<1>5. Sent' /\ Shown'
  BY <1>1 DEF BInv, Sent, Shown, Free
<1> QED
  BY <1>1, <1>3, <1>4, <1>5, NothingSent, CollectedStays DEF BInv

LEMMA InsertTimeoutStep ==
  ASSUME BInv, LastView \in Nat, NEW g \in Goroutines, InsertTimeout(g)
  PROVE  BInv'
<1> DEFINE v == goroutines[g].view
           s == goroutines[g].src
           senders == IntBuffer[v] \cup {s}
<1>1. v \in Views /\ s \in Sources /\ At(g, "insert")
  BY DEF InsertTimeout, BInv, BufferTypeOK, GoroutineTypes, At
<1>2. /\ UNCHANGED <<view, byTQC, viewMux, tqcSent, echoes>>
      /\ \/ UNCHANGED <<IntBuffer, V, tqcPrepared>>
            /\ goroutines' = [goroutines EXCEPT ![g] = Idle]
         \/ /\ v \notin tqcPrepared
            /\ IntBuffer' = [IntBuffer EXCEPT ![v] = senders]
            /\ V' = [V EXCEPT ![v] = InsertValue(v, s)]
            /\ \/ /\ Cardinality(senders) >= QuorumSize
                  /\ tqcPrepared' = tqcPrepared \cup {v}
                  /\ goroutines' = [goroutines EXCEPT ![g].pc = "broadcast"]
               \/ /\ UNCHANGED tqcPrepared
                  /\ goroutines' = [goroutines EXCEPT ![g] = Idle]
  BY DEF InsertTimeout, Enough, MarkPrepared, Goto
<1>3. \A i \in Goroutines \ {g} : goroutines'[i] = goroutines[i]
  BY <1>2 DEF BInv, BufferTypeOK, GoroutineTypes
<1>4. goroutines'[g] \in {Idle, [goroutines[g] EXCEPT !.pc = "broadcast"]}
  BY <1>2 DEF BInv, BufferTypeOK, GoroutineTypes
<1>5. OneOfEach(V[v], IntBuffer[v]) =>
        InsertValue(v, s) \in Seq(Sources) /\ OneOfEach(InsertValue(v, s), senders)
  <2>1. V[v] \in Seq(Sources)
    BY <1>1 DEF BInv, BufferTypeOK
  <2>2. CASE s \in IntBuffer[v]
    <3>1. senders = IntBuffer[v]
      BY <2>2
    <3> QED
      BY <2>1, <2>2, <3>1 DEF InsertValue
  <2>3. CASE s \notin IntBuffer[v]
    <3> HIDE DEF v, s
    <3> QED
      BY <1>1, <2>1, <2>3, AppendOne DEF InsertValue
  <2> QED
    BY <2>2, <2>3
<1>6. BufferTypeOK'
  <2>1. V' \in [Views -> Seq(Sources)] /\ IntBuffer' \in [Views -> SUBSET Sources]
    <3>1. V \in [Views -> Seq(Sources)] /\ IntBuffer \in [Views -> SUBSET Sources]
      BY DEF BInv, BufferTypeOK
    <3>2. v \notin tqcPrepared => InsertValue(v, s) \in Seq(Sources)
      BY <1>1, <1>5 DEF BInv, Collected
    <3>3. senders \in SUBSET Sources
      BY <1>1, <3>1
    <3> HIDE DEF v, s, senders
    <3>4. V' \in [Views -> Seq(Sources)]
      BY <1>2, <3>1, <3>2
    <3>5. IntBuffer' \in [Views -> SUBSET Sources]
      BY <1>2, <3>1, <3>3
    <3> QED
      BY <3>4, <3>5
  <2>2. goroutines'[g] \in [pc: {"idle", "insert", "broadcast", "tqc"}, view: Views,
                            src: Sources \cup {0}, V: Seq(Sources)]
    <3>1. goroutines[g] \in [pc: {"idle", "insert", "broadcast", "tqc"}, view: Views,
                             src: Sources \cup {0}, V: Seq(Sources)]
      BY DEF BInv, BufferTypeOK, GoroutineTypes
    <3>2. Idle \in [pc: {"idle", "insert", "broadcast", "tqc"}, view: Views,
                    src: Sources \cup {0}, V: Seq(Sources)]
      BY DEF Idle, Views
    <3> QED
      BY <1>4, <3>1, <3>2
  <2>3. GoroutineTypes'
    BY <1>2, <1>3, <2>2 DEF BInv, BufferTypeOK, GoroutineTypes
  <2>4. \A i \in Goroutines : goroutines'[i].pc = "insert" => goroutines'[i].src \in Sources
    <3>1. \A i \in Goroutines : goroutines[i].pc = "insert" => goroutines[i].src \in Sources
      BY DEF BInv, BufferTypeOK
    <3>2. goroutines'[g].pc # "insert"
      BY <1>4 DEF Idle, BInv, BufferTypeOK, GoroutineTypes
    <3> QED
      BY <1>3, <3>1, <3>2
  <2> QED
    BY <1>1, <1>2, <2>1, <2>3, <2>4 DEF BInv, BufferTypeOK
<1>7. Collected'
  <2> SUFFICES ASSUME NEW w \in Views
               PROVE  IF w \in tqcPrepared' THEN VerifyTQC(V'[w])
                                            ELSE OneOfEach(V'[w], IntBuffer'[w])
    BY DEF Collected, VerifyTQC, IsInjective, OneOfEach, Elements
  <2>1. CASE UNCHANGED <<IntBuffer[w], V[w]>> /\ (w \in tqcPrepared' <=> w \in tqcPrepared)
    BY <2>1 DEF BInv, Collected
  <2>2. CASE w = v /\ v \notin tqcPrepared /\ IntBuffer' = [IntBuffer EXCEPT ![v] = senders]
             /\ V' = [V EXCEPT ![v] = InsertValue(v, s)]
    <3>1. IntBuffer'[w] = senders /\ V'[w] = InsertValue(v, s)
      BY <2>2 DEF BInv, BufferTypeOK
    <3>2. OneOfEach(V'[w], senders)
      BY <1>1, <1>5, <2>2, <3>1 DEF BInv, Collected
    <3>3. w \in tqcPrepared' => Cardinality(senders) >= QuorumSize
      BY <1>2, <2>2
    <3> QED
      BY <3>1, <3>2, <3>3 DEF OneOfEach, VerifyTQC
  <2> QED
    BY <1>1, <1>2, <2>1, <2>2 DEF BInv, BufferTypeOK
<1>8. Broadcasts'
  <2> SUFFICES ASSUME NEW i \in Goroutines, At(i, "broadcast")'
               PROVE  /\ goroutines'[i].view \in tqcPrepared'
                      /\ \A k \in DOMAIN tqcSent : tqcSent[k].view # goroutines'[i].view
                      /\ \A j \in Goroutines :
                           /\ At(j, "broadcast")' /\ goroutines'[j].view = goroutines'[i].view
                           => j = i
    BY <1>2 DEF Broadcasts
  <2>1. \A j \in Goroutines \ {g} : At(j, "broadcast")' =>
          At(j, "broadcast") /\ goroutines'[j].view = goroutines[j].view
    BY <1>3 DEF At
  <2>2. At(g, "broadcast")' => goroutines'[g].view = v /\ v \notin tqcPrepared /\ v \in tqcPrepared'
    BY <1>1, <1>2 DEF At, Idle, BInv, BufferTypeOK, GoroutineTypes
  <2>3. tqcPrepared \subseteq tqcPrepared'
    BY <1>2
  <2> QED
    BY <2>1, <2>2, <2>3 DEF BInv, Broadcasts, Sent
<1>9. Holds'
  <2>1. ~At(g, "tqc")'
    BY <1>4 DEF At, Idle, BInv, BufferTypeOK, GoroutineTypes
  <2> QED
    BY <1>2, <1>3, <2>1 DEF BInv, Holds, At, VerifyTQC, IsInjective
<1>10. Sent' /\ Shown'
  BY <1>2 DEF BInv, Sent, Shown, Free
<1> QED
  BY <1>2, <1>6, <1>7, <1>8, <1>9, <1>10, NothingSent DEF BInv

LEMMA BroadcastTQCStep ==
  ASSUME BInv, LastView \in Nat, NEW g \in Goroutines, BroadcastTQC(g)
  PROVE  BInv'
<1> DEFINE v == goroutines[g].view
           e == [view |-> v, V |-> V[v]]
<1>1. /\ UNCHANGED <<view, byTQC, viewMux, IntBuffer, V, tqcPrepared, echoes>>
      /\ At(g, "broadcast") /\ tqcSent' = Append(tqcSent, e)
      /\ goroutines' = [goroutines EXCEPT ![g] = Idle]
  BY DEF BroadcastTQC, GetV, At
<1>2. v \in Views /\ v \in tqcPrepared
  BY <1>1 DEF BInv, BufferTypeOK, GoroutineTypes, Broadcasts
<1>3. goroutines'[g] = Idle /\ \A i \in Goroutines \ {g} : goroutines'[i] = goroutines[i]
  BY <1>1 DEF BInv, BufferTypeOK, GoroutineTypes
<1>4. e \in [view: Views, V: Seq(Sources)] /\ e.view = v
  BY <1>2 DEF BInv, BufferTypeOK
<1>5. VerifyTQC(e.V)
  BY <1>2 DEF BInv, Collected
<1>6. \A k \in DOMAIN tqcSent : tqcSent[k].view # e.view
  BY <1>1 DEF BInv, Broadcasts
<1> HIDE DEF e
<1>7. /\ tqcSent' \in Seq([view: Views, V: Seq(Sources)])
      /\ SentTQCsVerify' /\ OneTQCPerView'
      /\ \A k \in DOMAIN tqcSent' : \/ tqcSent'[k].view = e.view
                                    \/ k \in DOMAIN tqcSent /\ tqcSent'[k] = tqcSent[k]
  BY <1>1, <1>4, <1>5, <1>6, SendOne
<1>8. BufferTypeOK'
  <2>1. Idle \in [pc: {"idle", "insert", "broadcast", "tqc"}, view: Views,
                  src: Sources \cup {0}, V: Seq(Sources)]
    BY DEF Idle, Views
  <2>2. GoroutineTypes'
    BY <1>1, <2>1 DEF BInv, BufferTypeOK, GoroutineTypes
  <2>3. \A i \in Goroutines : goroutines'[i].pc = "insert" => goroutines'[i].src \in Sources
    BY <1>3 DEF Idle, BInv, BufferTypeOK
  <2> QED
    BY <1>1, <1>7, <2>2, <2>3 DEF BInv, BufferTypeOK
<1>9. Broadcasts'
  <2>1. \A i \in Goroutines : At(i, "broadcast")' =>
          /\ i # g /\ At(i, "broadcast") /\ goroutines'[i] = goroutines[i]
          /\ goroutines[i].view # v
    BY <1>1, <1>3 DEF At, Idle, BInv, Broadcasts
  <2> QED
    BY <1>1, <1>4, <1>7, <2>1 DEF BInv, Broadcasts
<1>10. Holds'
  <2>1. ~At(g, "tqc")'
    BY <1>3 DEF At, Idle
  <2> QED
    BY <1>1, <1>3, <2>1 DEF BInv, Holds, At, VerifyTQC, IsInjective
<1>11. Sent' /\ Shown'
  BY <1>1, <1>2, <1>4, <1>7 DEF BInv, Sent, Shown, Free
<1> QED
  BY <1>1, <1>7, <1>8, <1>9, <1>10, <1>11, EchoesStay, CollectedStays DEF BInv

LEMMA StartTQCStep ==
  ASSUME BInv, LastView \in Nat, QuorumSize \in Nat,
         NEW g \in Goroutines, NEW v \in Views, NEW tqc \in TQCs, StartTQC(g, v, tqc)
  PROVE  BInv'
<1> DEFINE G == [pc |-> "tqc", view |-> v, src |-> 0, V |-> tqc]
<1>1. /\ UNCHANGED <<IntBuffer, V, tqcPrepared, tqcSent, echoes>>
      /\ view' = v + 1 /\ byTQC' = TRUE /\ viewMux = "free" /\ viewMux' = "held"
      /\ VerifyTQC(tqc)
      /\ goroutines' = [goroutines EXCEPT ![g] = G]
  BY DEF StartTQC, Free
<1>2. goroutines'[g] = G /\ \A i \in Goroutines \ {g} : goroutines'[i] = goroutines[i]
  BY <1>1 DEF BInv, BufferTypeOK, GoroutineTypes
<1>3. BufferTypeOK'
  <2>1. tqc \in Seq(Sources)
    BY DEF TQCs
  <2>2. G \in [pc: {"idle", "insert", "broadcast", "tqc"}, view: Views,
               src: Sources \cup {0}, V: Seq(Sources)]
    BY <2>1
  <2>3. GoroutineTypes'
    BY <1>1, <2>2 DEF BInv, BufferTypeOK, GoroutineTypes
  <2>4. \A i \in Goroutines : goroutines'[i].pc = "insert" => goroutines'[i].src \in Sources
    <3>1. \A i \in Goroutines : goroutines[i].pc = "insert" => goroutines[i].src \in Sources
      BY DEF BInv, BufferTypeOK
    <3> QED
      BY <1>2, <3>1
  <2>5. view' \in 0..LastView + 1
    BY <1>1 DEF Views
  <2> QED
    BY <1>1, <2>3, <2>4, <2>5 DEF BInv, BufferTypeOK
<1>4. Broadcasts'
  BY <1>1, <1>2 DEF BInv, Broadcasts, At
<1>5. Holds'
  <2>1. \A i \in Goroutines : ~At(i, "tqc")
    BY <1>1 DEF BInv, Holds
  <2>2. \A i \in Goroutines : At(i, "tqc")' => i = g
    BY <1>2, <2>1 DEF At
  <2>3. VerifyTQC(goroutines[g].V)'
    BY <1>1, <1>2 DEF VerifyTQC, IsInjective
  <2> QED
    BY <1>1, <1>2, <2>2, <2>3 DEF Holds
<1>6. Sent' /\ Shown'
  BY <1>1 DEF BInv, Sent, Shown, Free
<1> QED
  BY <1>1, <1>3, <1>4, <1>5, <1>6, NothingSent, CollectedStays DEF BInv

LEMMA KeepTQCStep ==
  ASSUME BInv, LastView \in Nat, NEW g \in Goroutines, KeepTQC(g)
  PROVE  BInv'
<1> DEFINE e == [view |-> goroutines[g].view, V |-> goroutines[g].V]
           v == goroutines[g].view
<1>1. /\ At(g, "tqc") /\ viewMux' = "free"
      /\ goroutines' = [goroutines EXCEPT ![g] = Idle]
      /\ UNCHANGED <<view, byTQC, IntBuffer, echoes>>
      /\ \/ v \in tqcPrepared /\ UNCHANGED <<V, tqcPrepared, tqcSent>>
         \/ /\ v \notin tqcPrepared
            /\ V' = [V EXCEPT ![v] = goroutines[g].V]
            /\ tqcPrepared' = tqcPrepared \cup {v}
            /\ tqcSent' = Append(tqcSent, e)
  BY DEF KeepTQC, At, InsertV
<1>2. v \in Views /\ goroutines[g].V \in Seq(Sources)
  BY DEF BInv, BufferTypeOK, GoroutineTypes
<1>3. VerifyTQC(goroutines[g].V) /\ view = v + 1
  BY <1>1 DEF BInv, Holds
<1>4. goroutines'[g] = Idle /\ \A i \in Goroutines \ {g} : goroutines'[i] = goroutines[i]
  BY <1>1 DEF BInv, BufferTypeOK, GoroutineTypes
<1>5. v \notin tqcPrepared => \A k \in DOMAIN tqcSent : tqcSent[k].view # v
  BY DEF BInv, Sent
<1>6. e \in [view: Views, V: Seq(Sources)] /\ e.view = v /\ e.V = goroutines[g].V
  BY <1>2
<1> HIDE DEF e, v
<1>7. /\ tqcSent' \in Seq([view: Views, V: Seq(Sources)])
      /\ SentTQCsVerify' /\ OneTQCPerView'
      /\ \A k \in DOMAIN tqcSent' :
           \/ v \notin tqcPrepared /\ tqcSent'[k].view = v
           \/ k \in DOMAIN tqcSent /\ tqcSent'[k] = tqcSent[k]
  <2>1. CASE v \in tqcPrepared
    BY <1>1, <2>1, NothingSent DEF BInv, BufferTypeOK
  <2>2. CASE v \notin tqcPrepared
    BY <1>1, <1>3, <1>5, <1>6, <2>2, SendOne
  <2> QED
    BY <2>1, <2>2
<1>8. tqcPrepared' = tqcPrepared \cup {v}
  BY <1>1
<1>9. V' \in [Views -> Seq(Sources)] /\ \A w \in Views :
        V'[w] = V[w] \/ (w = v /\ V'[w] = goroutines[g].V /\ v \notin tqcPrepared)
  <2>1. V \in [Views -> Seq(Sources)]
    BY DEF BInv, BufferTypeOK
  <2> QED
    BY <1>1, <1>2, <2>1
<1>10. BufferTypeOK'
  <2>1. Idle \in [pc: {"idle", "insert", "broadcast", "tqc"}, view: Views,
                  src: Sources \cup {0}, V: Seq(Sources)]
    BY DEF Idle, Views
  <2>2. GoroutineTypes'
    BY <1>1, <2>1 DEF BInv, BufferTypeOK, GoroutineTypes
  <2>3. \A i \in Goroutines : goroutines'[i].pc = "insert" => goroutines'[i].src \in Sources
    BY <1>4 DEF Idle, BInv, BufferTypeOK
  <2> QED
    BY <1>1, <1>2, <1>7, <1>8, <1>9, <2>2, <2>3 DEF BInv, BufferTypeOK
<1>11. Collected'
  <2> SUFFICES ASSUME NEW w \in Views
               PROVE  IF w \in tqcPrepared' THEN VerifyTQC(V'[w])
                                            ELSE OneOfEach(V'[w], IntBuffer[w])
    BY <1>1 DEF Collected, VerifyTQC, IsInjective, OneOfEach, Elements
  <2>1. CASE V'[w] = V[w] /\ (w # v \/ v \in tqcPrepared)
    BY <1>8, <2>1 DEF BInv, Collected
  <2>2. CASE w = v /\ v \notin tqcPrepared
    <3>1. V'[w] = goroutines[g].V
      BY <1>1, <1>2, <2>2 DEF BInv, BufferTypeOK
    <3> QED
      BY <1>3, <1>8, <2>2, <3>1
  <2> QED
    BY <1>9, <2>1, <2>2
<1>12. Broadcasts'
  <2>1. \A i \in Goroutines : At(i, "broadcast")' =>
          At(i, "broadcast") /\ goroutines'[i] = goroutines[i]
    BY <1>4 DEF At, Idle
  <2> QED
    BY <1>7, <1>8, <2>1 DEF BInv, Broadcasts
<1>13. Holds'
  <2>1. \A i \in Goroutines : ~At(i, "tqc")'
    BY <1>1, <1>4 DEF At, Idle, BInv, Holds
  <2> QED
    BY <2>1 DEF Holds
<1>14. Sent'
  BY <1>7, <1>8 DEF BInv, Sent
<1>15. Shown'
  BY <1>1, <1>2, <1>3, <1>8 DEF Shown, Views
<1> QED
  BY <1>1, <1>7, <1>10, <1>11, <1>12, <1>13, <1>14, <1>15, EchoesStay DEF BInv

LEMMA EnterViewStep ==
  ASSUME BInv, NEW w \in 0..LastView + 1, EnterView(w)
  PROVE  BInv'
<1>1. /\ UNCHANGED <<viewMux, IntBuffer, V, tqcPrepared, goroutines, tqcSent, echoes>>
      /\ viewMux = "free" /\ view' = w /\ byTQC' = (byTQC /\ w = view)
  BY DEF EnterView, Free
<1>2. BufferTypeOK'
  BY <1>1 DEF BInv, BufferTypeOK, GoroutineTypes
<1>3. Broadcasts' /\ Sent'
  BY <1>1 DEF BInv, Broadcasts, Sent, At
<1>4. Holds' /\ Shown'
  BY <1>1 DEF BInv, Holds, Shown, Free, At
<1> QED
  BY <1>1, <1>2, <1>3, <1>4, NothingSent, CollectedStays DEF BInv

LEMMA HandleRec1Step ==
  ASSUME BInv, LastView \in Nat, HandleRec1Msg
  PROVE  BInv'
<1> DEFINE e == [view |-> view - 1, V |-> V[view - 1], byTQC |-> byTQC]
<1>1. /\ UNCHANGED <<view, byTQC, viewMux, IntBuffer, V, tqcPrepared, goroutines, tqcSent>>
      /\ Free /\ view > 0 /\ echoes' = echoes \cup {e}
  BY DEF HandleRec1Msg, ReadsView, GetV
<1>2. e.byTQC => VerifyTQC(e.V)
  <2>1. view - 1 \in Views
    BY <1>1 DEF BInv, BufferTypeOK, Views
  <2> QED
    BY <1>1, <2>1 DEF BInv, Shown, Collected
<1> HIDE DEF e
<1>3. EchoesVerify'
  BY <1>1, <1>2 DEF BInv, EchoesVerify, VerifyTQC, IsInjective
<1>4. SentTQCsVerify' /\ OneTQCPerView'
  BY <1>1 DEF BInv, SentTQCsVerify, OneTQCPerView, VerifyTQC, IsInjective
<1>5. BufferTypeOK'
  BY <1>1 DEF BInv, BufferTypeOK, GoroutineTypes
<1>6. Broadcasts' /\ Sent'
  BY <1>1 DEF BInv, Broadcasts, Sent, At
<1>7. Holds' /\ Shown'
  BY <1>1 DEF BInv, Holds, Shown, Free, At, VerifyTQC, IsInjective
<1> QED
  BY <1>1, <1>3, <1>4, <1>5, <1>6, <1>7, CollectedStays DEF BInv

LEMMA BufferStutter == BInv /\ UNCHANGED bufferVars => BInv'
<1> SUFFICES ASSUME BInv, UNCHANGED bufferVars PROVE BInv'
  OBVIOUS
<1> USE DEF bufferVars
<1>1. BufferTypeOK'
  BY DEF BInv, BufferTypeOK, GoroutineTypes
<1>2. Broadcasts' /\ Sent'
  BY DEF BInv, Broadcasts, Sent, At
<1>3. Holds' /\ Shown'
  BY DEF BInv, Holds, Shown, Free, At, VerifyTQC, IsInjective
<1> QED
  BY <1>1, <1>2, <1>3, NothingSent, CollectedStays DEF BInv

\* The inductive invariant.
THEOREM BufferInvariant ==
  ASSUME LastView \in Nat, QuorumSize \in Nat
  PROVE  BufferSpec => []BInv
<1>1. BufferInit => BInv
  BY InitBInv
<1>2. BInv /\ [BufferNext]_bufferVars => BInv'
  <2> SUFFICES ASSUME BInv, BufferNext PROVE BInv'
    BY BufferStutter
  <2>1. CASE \E g \in Goroutines, v \in Views :
               \/ \E s \in Sources : CheckTimeout(g, s, v)
               \/ \E tqc \in TQCs : StartTQC(g, v, tqc)
    BY <2>1, CheckTimeoutStep, StartTQCStep
  <2>2. CASE \E g \in Goroutines : InsertTimeout(g) \/ BroadcastTQC(g) \/ KeepTQC(g)
    BY <2>2, InsertTimeoutStep, BroadcastTQCStep, KeepTQCStep
  <2>3. CASE \E w \in 0..LastView + 1 : EnterView(w)
    BY <2>3, EnterViewStep
  <2>4. CASE HandleRec1Msg
    BY <2>4, HandleRec1Step
  <2> QED
    BY <2>1, <2>2, <2>3, <2>4 DEF BufferNext
<1> QED
  BY <1>1, <1>2, PTL DEF BufferSpec

\* What a replica broadcasts as a TQC passes the test of whoever receives it,
\* although it is read after bufferLock was released.
THEOREM SentTQCsVerifyHolds ==
  ASSUME LastView \in Nat, QuorumSize \in Nat
  PROVE  BufferSpec => []SentTQCsVerify
<1>1. BInv => SentTQCsVerify
  BY DEF BInv
<1> QED
  BY <1>1, BufferInvariant, PTL

\* A replica spreads one TQC of a view, its own or the first it is sent.
THEOREM OneTQCPerViewHolds ==
  ASSUME LastView \in Nat, QuorumSize \in Nat
  PROVE  BufferSpec => []OneTQCPerView
<1>1. BInv => OneTQCPerView
  BY DEF BInv
<1> QED
  BY <1>1, BufferInvariant, PTL

\* A replica that a TQC took to its view answers REC1 with a TQC that verifies.
THEOREM EchoesVerifyHolds ==
  ASSUME LastView \in Nat, QuorumSize \in Nat
  PROVE  BufferSpec => []EchoesVerify
<1>1. BInv => EchoesVerify
  BY DEF BInv
<1> QED
  BY <1>1, BufferInvariant, PTL

=============================================================================
