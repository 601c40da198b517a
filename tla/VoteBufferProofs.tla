-------------------------- MODULE VoteBufferProofs --------------------------
(***************************************************************************)
(* Proofs about VoteBuffer, for all replicas, quorum sizes, blocks, views  *)
(* and numbers of handlers: its invariants, and that it implements         *)
(* VoteCounting.                                                           *)
(*                                                                         *)
(* The argument.  What BUFFER counts and what CERTIFICATE keeps are two    *)
(* maps with locks of their own.  They stay in step because both are       *)
(* written under bufferLock, and InsertValue hands on a signature only     *)
(* when the set has grown; so signatures are as many as voters, and one of *)
(* each.  A block is marked PREPARED in the same critical section in which *)
(* its certificate is made, so that whoever comes later finds the mark;    *)
(* and no view change takes a mark away.  For the refinement a vote that   *)
(* completes a quorum counts when its certificate is made, any other when  *)
(* it is added: what is done in between by others is then either before    *)
(* or after.                                                               *)
(***************************************************************************)
EXTENDS VoteBuffer, FiniteSetTheorems, TLAPS

----------------------------------------------------------------------------
(* The inductive invariant.                                                *)

Signatures == Signers \X Hashes

Certificates ==
  [view: Int, height: Nat, hash: Hashes, QC: Seq(Signatures), IDs: Seq(Signers)]

\* The handlers that are past bufferLock.Lock().
Inside == {"add", "check", "certify"}

At(g, pc) == handlers[g].pc = pc

GoroutineTypes ==
  /\ handlers \in [Handlers -> [pc: {"idle", "lock"} \cup Inside,
                                    vote: [hash: Hashes \cup {NilHash}, src: Signers \cup {0},
                                           sig: Signatures \cup {<< >>}]]]
  /\ \A g \in Handlers : ~At(g, "idle") =>
       LET v == handlers[g].vote
       IN  v.hash \in Hashes /\ v.src \in Signers /\ VerifySig(v.src, v.hash, v.sig)

VoteTypes ==
  /\ localView \in Int
  /\ Buffer \in [Hashes -> SUBSET Signers]
  /\ Certificate \in [Hashes -> Seq(Signatures)]
  /\ Identities \in [Hashes -> Seq(Signers)]
  /\ prepared \in SUBSET Hashes
  /\ curHeight \in Nat
  /\ made \in Seq(Certificates)
  /\ GoroutineTypes

\* The names ids are one of each of the voters.
OneOfEach(ids, voters) ==
  /\ IsInjective(ids)
  /\ { ids[i] : i \in DOMAIN ids } = voters
  /\ IsFiniteSet(voters)
  /\ Len(ids) = Cardinality(voters)

\* sigs are signatures of the block, each by the voter at its place in ids.
SignedBy(sigs, ids, hash) ==
  /\ Len(sigs) = Len(ids)
  /\ \A i \in DOMAIN ids : sigs[i] = GenSig(ids[i], hash)

InStep ==
  \A h \in Hashes : /\ OneOfEach(Identities[h], Buffer[h])
                    /\ SignedBy(Certificate[h], Identities[h], h)

Excluded == \A g \in Handlers : handlers[g].pc \in Inside => bufferLock = g

IsCertified(hash) == \E i \in DOMAIN made : made[i].hash = hash

Marked ==
  /\ \A g \in Handlers :
       LET hash == handlers[g].vote.hash
       IN  /\ At(g, "add") \/ At(g, "check") => hash \notin prepared
           /\ At(g, "certify") => /\ hash \in prepared
                                  /\ CheckQuorum(hash)
                                  /\ ~IsCertified(hash)
  /\ \A i \in DOMAIN made : made[i].hash \in prepared /\ made[i].height <= curHeight

\* Votes that go on coming after a quorum, in two goroutines or after a view
\* change, certify no block twice, and no two certificates get one height.
CertifiedOnce ==
  \A i, j \in DOMAIN made : i # j =>
    made[i].hash # made[j].hash /\ made[i].height # made[j].height

VoteInv ==
  /\ VoteTypes
  /\ InStep
  /\ Excluded
  /\ Marked
  /\ CertificatesVerify
  /\ CertifiedOnce

----------------------------------------------------------------------------
(* Names and signatures.                                                   *)

\* A voter that is not known yet.
LEMMA AppendVoter ==
  ASSUME NEW ids \in Seq(Signers), NEW id \in Signers, NEW voters,
         OneOfEach(ids, voters), id \notin voters
  PROVE  OneOfEach(Append(ids, id), voters \cup {id})
<1> DEFINE p == Append(ids, id)
<1>1. /\ p \in Seq(Signers) /\ Len(p) = Len(ids) + 1 /\ Len(ids) \in Nat
      /\ DOMAIN ids = 1..Len(ids) /\ DOMAIN p = 1..Len(ids) + 1
      /\ p[Len(ids) + 1] = id /\ \A i \in 1..Len(ids) : p[i] = ids[i]
  OBVIOUS
<1> HIDE DEF p
<1>2. \A i \in DOMAIN ids : ids[i] # id
  BY DEF OneOfEach
<1>3. IsInjective(p)
  <2> SUFFICES ASSUME NEW i \in DOMAIN p, NEW j \in DOMAIN p, p[i] = p[j] PROVE i = j
    BY DEF IsInjective
  <2>1. CASE i = Len(ids) + 1 \/ j = Len(ids) + 1
    BY <1>1, <1>2, <2>1
  <2>2. CASE i \in DOMAIN ids /\ j \in DOMAIN ids
    BY <1>1, <2>2 DEF OneOfEach, IsInjective
  <2> QED
    BY <1>1, <2>1, <2>2
<1>4. { p[i] : i \in DOMAIN p } = voters \cup {id}
  <2>1. \A i \in DOMAIN p : p[i] \in voters \cup {id}
    BY <1>1 DEF OneOfEach
  <2>2. \A e \in voters \cup {id} : \E i \in DOMAIN p : p[i] = e
    BY <1>1 DEF OneOfEach
  <2> QED
    BY <2>1, <2>2
<1>5. /\ IsFiniteSet(voters \cup {id})
      /\ Cardinality(voters \cup {id}) = Cardinality(voters) + 1
  BY FS_AddElement DEF OneOfEach
<1> QED
  BY <1>1, <1>3, <1>4, <1>5 DEF OneOfEach, p

\* CERTIFICATE.Insert puts name and signature at one place.
LEMMA AppendSignature ==
  ASSUME NEW sigs \in Seq(Signatures), NEW ids \in Seq(Signers), NEW hash \in Hashes,
         NEW id \in Signers, SignedBy(sigs, ids, hash)
  PROVE  SignedBy(Append(sigs, GenSig(id, hash)), Append(ids, id), hash)
<1>1. GenSig(id, hash) \in Signatures
  BY DEF GenSig, Signatures
<1> QED
  BY <1>1 DEF SignedBy

----------------------------------------------------------------------------
(* Steps.                                                                  *)

\* A goroutine that moves is the only one that does.
LEMMA Moves ==
  ASSUME VoteInv, NEW g \in Handlers, NEW pc \in {"idle", "lock"} \cup Inside,
         Continue(g, pc)
  PROVE  /\ handlers'[g] = [pc |-> pc, vote |-> handlers[g].vote]
         /\ \A i \in Handlers \ {g} : handlers'[i] = handlers[i]
BY DEF Continue, VoteInv, VoteTypes, GoroutineTypes

LEMMA Returns ==
  ASSUME VoteInv, NEW g \in Handlers, Return(g)
  PROVE  /\ handlers'[g] = Waiting /\ bufferLock' = Nobody
         /\ \A i \in Handlers \ {g} : handlers'[i] = handlers[i]
BY DEF Return, VoteInv, VoteTypes, GoroutineTypes

LEMMA InitVoteInv == VoteInit => VoteInv
<1> SUFFICES ASSUME VoteInit PROVE VoteInv
  OBVIOUS
<1>1. VoteTypes
  BY DEF VoteInit, VoteTypes, GoroutineTypes, Waiting, NoVote, At
<1>2. InStep
  <2>1. OneOfEach(<< >>, {}) /\ \A h \in Hashes : SignedBy(<< >>, << >>, h)
    BY FS_EmptySet DEF OneOfEach, SignedBy, IsInjective
  <2> QED
    BY <2>1 DEF VoteInit, InStep
<1>3. Excluded /\ Marked /\ CertificatesVerify /\ CertifiedOnce
  BY DEF VoteInit, Excluded, Marked, CertificatesVerify, CertifiedOnce, Waiting, At, Inside,
         IsCertified
<1> QED
  BY <1>1, <1>2, <1>3 DEF VoteInv

LEMMA MadeHeights ==
  ASSUME VoteInv
  PROVE  \A i \in DOMAIN made : made[i].height \in Nat
<1>1. \A i \in DOMAIN made : made[i] \in Certificates
  BY DEF VoteInv, VoteTypes
<1> QED
  BY <1>1 DEF Certificates

\* What neither votes nor makes certificates.
LEMMA Quiet ==
  ASSUME VoteInv, localView' \in Int, curHeight' \in Nat, curHeight' >= curHeight,
         UNCHANGED <<cerVars, prepared, bufferLock, handlers, made>>
  PROVE  VoteInv'
<1>1. VoteTypes'
  BY DEF VoteInv, VoteTypes, GoroutineTypes, At, cerVars
<1>2. InStep' /\ Excluded'
  BY DEF VoteInv, InStep, Excluded, cerVars
<1>3. Marked'
  <2>1. \A i \in DOMAIN made' : made'[i].hash \in prepared' /\ made'[i].height <= curHeight'
    BY MadeHeights DEF VoteInv, VoteTypes, Marked
  <2> QED
    BY <2>1 DEF VoteInv, Marked, At, CheckQuorum, IsCertified, cerVars
<1>4. CertificatesVerify' /\ CertifiedOnce'
  BY DEF VoteInv, CertificatesVerify, CertifiedOnce
<1> QED
  BY <1>1, <1>2, <1>3, <1>4 DEF VoteInv

LEMMA CheckVoteStep ==
  ASSUME VoteInv, NEW g \in Handlers, NEW v \in Votes, CheckVote(g, v)
  PROVE  VoteInv'
<1> DEFINE vote == [hash |-> v.hash, src |-> v.src, sig |-> v.sig]
<1>1. /\ handlers' = [handlers EXCEPT ![g] = [pc |-> "lock", vote |-> vote]]
      /\ UNCHANGED <<localView, cerVars, prepared, bufferLock, curHeight, made>>
      /\ VerifySig(v.src, v.hash, v.sig)
  BY DEF CheckVote
<1>2. v.hash \in Hashes /\ v.src \in Signers
  BY DEF Votes
<1>3. /\ handlers'[g] = [pc |-> "lock", vote |-> vote]
      /\ \A i \in Handlers \ {g} : handlers'[i] = handlers[i]
  BY <1>1 DEF VoteInv, VoteTypes, GoroutineTypes
<1>4. VoteTypes'
  <2>1. vote \in [hash: Hashes \cup {NilHash}, src: Signers \cup {0},
                  sig: Signatures \cup {<< >>}]
    BY <1>1, <1>2 DEF VerifySig, GenSig, Signatures
  <2>2. GoroutineTypes'
    BY <1>1, <1>2, <1>3, <2>1 DEF VoteInv, VoteTypes, GoroutineTypes, At
  <2> QED
    BY <1>1, <2>2 DEF VoteInv, VoteTypes, cerVars
<1>5. InStep' /\ CertificatesVerify' /\ CertifiedOnce'
  BY <1>1 DEF VoteInv, InStep, CertificatesVerify, CertifiedOnce, cerVars
<1>6. Excluded'
  BY <1>1, <1>3 DEF VoteInv, Excluded, Inside
<1>7. Marked'
  BY <1>1, <1>3 DEF VoteInv, Marked, At, CheckQuorum, IsCertified, cerVars
<1> QED
  BY <1>4, <1>5, <1>6, <1>7 DEF VoteInv

\* Nobody else is between Lock and Unlock.
LEMMA Alone ==
  ASSUME VoteInv, Nobody \notin Handlers,
         NEW g \in Handlers, handlers[g].pc \in Inside \/ bufferLock = Nobody
  PROVE  \A i \in Handlers \ {g} : handlers[i].pc \notin Inside
BY DEF VoteInv, Excluded

\* A goroutine that leaves takes nothing with it.
LEMMA Leaves ==
  ASSUME VoteInv, Nobody \notin Handlers,
         NEW g \in Handlers, handlers[g].pc \in Inside \/ bufferLock = Nobody,
         Return(g)
  PROVE  GoroutineTypes' /\ Excluded' /\ \A i \in Handlers : handlers'[i].pc \notin Inside
<1>1. /\ handlers' = [handlers EXCEPT ![g] = Waiting]
      /\ handlers'[g] = Waiting /\ bufferLock' = Nobody
      /\ \A i \in Handlers \ {g} : handlers'[i] = handlers[i]
  BY Returns DEF Return
<1>2. \A i \in Handlers : handlers'[i].pc \notin Inside
  BY <1>1, Alone DEF Waiting, Inside
<1>3. GoroutineTypes'
  BY <1>1 DEF VoteInv, VoteTypes, GoroutineTypes, At, Waiting, NoVote
<1> QED
  BY <1>2, <1>3 DEF Excluded

\* A goroutine that goes on, with bufferLock held.
LEMMA GoesOn ==
  ASSUME VoteInv, Nobody \notin Handlers,
         NEW g \in Handlers, handlers[g].pc \in Inside \/ bufferLock = Nobody,
         handlers[g].pc # "idle",
         NEW pc \in Inside, Continue(g, pc), bufferLock' = g
  PROVE  GoroutineTypes' /\ Excluded'
<1>1. /\ handlers' = [handlers EXCEPT ![g].pc = pc]
      /\ handlers'[g] = [pc |-> pc, vote |-> handlers[g].vote]
      /\ \A i \in Handlers \ {g} : handlers'[i] = handlers[i]
  BY Moves DEF Continue
<1>2. GoroutineTypes'
  BY <1>1 DEF VoteInv, VoteTypes, GoroutineTypes, At
<1> QED
  BY <1>1, <1>2, Alone DEF Excluded

LEMMA LockBufferStep ==
  ASSUME VoteInv, Nobody \notin Handlers, NEW g \in Handlers, LockBuffer(g)
  PROVE  VoteInv'
<1>1. /\ At(g, "lock") /\ bufferLock = Nobody
      /\ UNCHANGED <<localView, cerVars, prepared, curHeight, made>>
  BY DEF LockBuffer, At, BufferFree
<1>2. InStep' /\ CertificatesVerify' /\ CertifiedOnce'
  BY <1>1 DEF VoteInv, InStep, CertificatesVerify, CertifiedOnce, cerVars
<1>3. \A i \in DOMAIN made' : made'[i].hash \in prepared' /\ made'[i].height <= curHeight'
  BY <1>1 DEF VoteInv, Marked
<1>4. CASE Return(g)
  BY <1>1, <1>2, <1>3, <1>4, Leaves
  DEF VoteInv, VoteTypes, Marked, At, Inside, cerVars
<1>5. CASE handlers[g].vote.hash \notin prepared /\ bufferLock' = g /\ Continue(g, "add")
  <2>1. GoroutineTypes' /\ Excluded'
    BY <1>1, <1>5, GoesOn DEF At, Inside
  <2>2. /\ handlers'[g] = [pc |-> "add", vote |-> handlers[g].vote]
        /\ \A i \in Handlers \ {g} : handlers'[i] = handlers[i]
    BY <1>5, Moves DEF Inside
  <2>3. Marked'
    BY <1>1, <1>3, <1>5, <2>2 DEF VoteInv, Marked, At, CheckQuorum, IsCertified, cerVars
  <2> QED
    BY <1>1, <1>2, <2>1, <2>3 DEF VoteInv, VoteTypes, cerVars
<1> QED
  BY <1>4, <1>5 DEF LockBuffer

LEMMA AddStep ==
  ASSUME VoteInv, Nobody \notin Handlers, NEW g \in Handlers, Add(g)
  PROVE  VoteInv'
<1> DEFINE v == handlers[g].vote
           h == v.hash
<1>1. /\ At(g, "add") /\ Continue(g, "check")
      /\ Buffer' = [Buffer EXCEPT ![h] = @ \cup {v.src}]
      /\ UNCHANGED <<localView, prepared, bufferLock, curHeight, made>>
  BY DEF Add, At
<1>2. h \in Hashes /\ v.src \in Signers /\ v.sig = GenSig(v.src, h)
  BY <1>1 DEF VoteInv, VoteTypes, GoroutineTypes, At, VerifySig
<1>3. GenSig(v.src, h) \in Signatures
  BY <1>2 DEF GenSig, Signatures
<1>4. /\ Buffer \in [Hashes -> SUBSET Signers]
      /\ Certificate \in [Hashes -> Seq(Signatures)]
      /\ Identities \in [Hashes -> Seq(Signers)]
  BY DEF VoteInv, VoteTypes
<1>5. /\ Buffer' \in [Hashes -> SUBSET Signers]
      /\ Certificate' \in [Hashes -> Seq(Signatures)]
      /\ Identities' \in [Hashes -> Seq(Signers)]
      /\ \A x \in Hashes \ {h} : /\ Buffer'[x] = Buffer[x]
                                /\ Certificate'[x] = Certificate[x]
                                /\ Identities'[x] = Identities[x]
      /\ Buffer'[h] = Buffer[h] \cup {v.src}
      /\ IF v.src \in Buffer[h]
           THEN Certificate'[h] = Certificate[h] /\ Identities'[h] = Identities[h]
           ELSE /\ Certificate'[h] = Append(Certificate[h], v.sig)
                /\ Identities'[h] = Append(Identities[h], v.src)
  <2>1. CASE v.src \in Buffer[h]
    BY <1>1, <1>2, <1>4, <2>1 DEF Add, IsNew
  <2>2. CASE v.src \notin Buffer[h]
    <3>1. /\ Certificate' = [Certificate EXCEPT ![h] = Append(@, v.sig)]
          /\ Identities' = [Identities EXCEPT ![h] = Append(@, v.src)]
      BY <2>2 DEF Add, IsNew, Insert
    <3>2. /\ Append(Certificate[h], v.sig) \in Seq(Signatures)
          /\ Append(Identities[h], v.src) \in Seq(Signers)
      BY <1>2, <1>3, <1>4
    <3> HIDE DEF v
    <3> QED
      BY <1>1, <1>2, <1>4, <2>2, <3>1, <3>2
  <2> QED
    BY <2>1, <2>2
<1>6. InStep'
  <2>1. OneOfEach(Identities'[h], Buffer'[h]) /\ SignedBy(Certificate'[h], Identities'[h], h)
    <3>1. OneOfEach(Identities[h], Buffer[h]) /\ SignedBy(Certificate[h], Identities[h], h)
      BY <1>2 DEF VoteInv, InStep
    <3>2. CASE v.src \in Buffer[h]
      <4>1. Buffer'[h] = Buffer[h]
        BY <1>5, <3>2
      <4> QED
        BY <1>5, <3>1, <3>2, <4>1
    <3>3. CASE v.src \notin Buffer[h]
      <4>1. Identities[h] \in Seq(Signers) /\ Certificate[h] \in Seq(Signatures)
        BY <1>2, <1>4
      <4>2. OneOfEach(Append(Identities[h], v.src), Buffer[h] \cup {v.src})
        BY <1>2, <3>1, <3>3, <4>1, AppendVoter
      <4>3. SignedBy(Append(Certificate[h], GenSig(v.src, h)), Append(Identities[h], v.src), h)
        BY <1>2, <3>1, <4>1, AppendSignature
      <4> QED
        BY <1>2, <1>5, <3>3, <4>2, <4>3, ZenonT(60)
    <3> QED
      BY <3>2, <3>3
  <2> QED
    BY <1>5, <2>1 DEF VoteInv, InStep
<1>7. GoroutineTypes' /\ Excluded'
  <2>1. bufferLock' = g
    BY <1>1 DEF VoteInv, Excluded, At, Inside
  <2> QED
    BY <1>1, <2>1, GoesOn DEF At, Inside
<1>8. Marked'
  <2>1. /\ handlers'[g] = [pc |-> "check", vote |-> v]
        /\ \A i \in Handlers \ {g} : handlers'[i] = handlers[i]
    BY <1>1, Moves DEF Inside
  <2>2. \A i \in Handlers \ {g} : handlers[i].pc \notin Inside
    BY <1>1, Alone DEF At, Inside
  <2>3. \A i \in Handlers : ~At(i, "certify")'
    BY <2>1, <2>2 DEF At, Inside
  <2> QED
    BY <1>1, <2>1, <2>2, <2>3 DEF VoteInv, Marked, At, Inside
<1>9. CertificatesVerify' /\ CertifiedOnce'
  BY <1>1 DEF VoteInv, CertificatesVerify, CertifiedOnce
<1> QED
  BY <1>1, <1>5, <1>6, <1>7, <1>8, <1>9 DEF VoteInv, VoteTypes

LEMMA UpdateBufferContentStep ==
  ASSUME VoteInv, Nobody \notin Handlers, NEW g \in Handlers, UpdateBufferContent(g)
  PROVE  VoteInv'
<1> DEFINE h == handlers[g].vote.hash
<1>1. /\ At(g, "check")
      /\ UNCHANGED <<localView, cerVars, curHeight, made>>
  BY DEF UpdateBufferContent, At
<1>2. h \in Hashes /\ h \notin prepared
  BY <1>1 DEF VoteInv, VoteTypes, GoroutineTypes, Marked, At
<1>3. InStep' /\ CertificatesVerify' /\ CertifiedOnce'
  BY <1>1 DEF VoteInv, InStep, CertificatesVerify, CertifiedOnce, cerVars
<1>4. CASE CheckQuorum(h)
  <2>1. /\ prepared' = prepared \cup {h} /\ Continue(g, "certify") /\ bufferLock' = bufferLock
    BY <1>4 DEF UpdateBufferContent
  <2>2. bufferLock' = g
    BY <1>1, <2>1 DEF VoteInv, Excluded, At, Inside
  <2>3. GoroutineTypes' /\ Excluded'
    BY <1>1, <2>1, <2>2, GoesOn DEF At, Inside
  <2>4. /\ handlers'[g] = [pc |-> "certify", vote |-> handlers[g].vote]
        /\ \A i \in Handlers \ {g} : handlers'[i] = handlers[i]
    BY <2>1, Moves DEF Inside
  <2>5. \A i \in Handlers \ {g} : handlers[i].pc \notin Inside
    BY <1>1, Alone DEF At, Inside
  <2>6. ~IsCertified(h)
    BY <1>2 DEF VoteInv, Marked, IsCertified
  <2>7. /\ Cardinality(Buffer'[h]) >= Quorum
        /\ \A i \in DOMAIN made' : made'[i].hash # h
    BY <1>1, <1>4, <2>6 DEF CheckQuorum, IsCertified, cerVars
  <2>8. Marked'
    <3>1. ASSUME NEW i \in Handlers
          PROVE  /\ ~At(i, "add")' /\ ~At(i, "check")'
                 /\ At(i, "certify")' => i = g
      BY <2>4, <2>5 DEF At, Inside
    <3>2. handlers'[g].vote.hash = h /\ h \in prepared'
      BY <2>1, <2>4
    <3>3. \A i \in DOMAIN made' :
            made'[i].hash \in prepared' /\ made'[i].height <= curHeight'
      BY <1>1, <2>1 DEF VoteInv, Marked
    <3> HIDE DEF h
    <3> QED
      BY <2>7, <3>1, <3>2, <3>3 DEF Marked, CheckQuorum, IsCertified
  <2> QED
    BY <1>1, <1>2, <1>3, <2>1, <2>3, <2>8 DEF VoteInv, VoteTypes, cerVars
<1>5. CASE ~CheckQuorum(h)
  <2>1. Return(g) /\ prepared' = prepared
    BY <1>5 DEF UpdateBufferContent
  <2>2. GoroutineTypes' /\ Excluded' /\ \A i \in Handlers : handlers'[i].pc \notin Inside
    BY <1>1, <2>1, Leaves DEF At, Inside
  <2>3. Marked'
    BY <1>1, <2>1, <2>2 DEF VoteInv, Marked, At, Inside
  <2> QED
    BY <1>1, <1>3, <2>1, <2>2, <2>3 DEF VoteInv, VoteTypes, cerVars
<1> QED
  BY <1>4, <1>5

LEMMA CertifyStep ==
  ASSUME VoteInv, Nobody \notin Handlers, NEW g \in Handlers, Certify(g)
  PROVE  VoteInv'
<1> DEFINE h == handlers[g].vote.hash
           qc == [view |-> localView, height |-> curHeight + 1, hash |-> h,
                  QC |-> Certificate[h], IDs |-> Identities[h]]
<1>1. /\ At(g, "certify") /\ Return(g)
      /\ made' = Append(made, qc)
      /\ curHeight' = curHeight + 1
      /\ UNCHANGED <<localView, cerVars, prepared>>
  BY DEF Certify, At, FetchCer
<1>2. h \in Hashes /\ h \in prepared /\ CheckQuorum(h) /\ ~IsCertified(h)
  BY <1>1 DEF VoteInv, VoteTypes, GoroutineTypes, Marked, At
<1>3. OneOfEach(Identities[h], Buffer[h]) /\ SignedBy(Certificate[h], Identities[h], h)
  BY <1>2 DEF VoteInv, InStep
<1>4. /\ Certificate[h] \in Seq(Signatures) /\ Identities[h] \in Seq(Signers)
      /\ localView \in Int /\ curHeight \in Nat /\ made \in Seq(Certificates)
  BY <1>2 DEF VoteInv, VoteTypes
<1>5. qc \in Certificates
  BY <1>2, <1>4 DEF Certificates
<1>6. /\ qc.hash = h /\ qc.height = curHeight + 1
      /\ qc.QC = Certificate[h] /\ qc.IDs = Identities[h]
  OBVIOUS
<1> HIDE DEF qc
<1>7. /\ made' \in Seq(Certificates)
      /\ DOMAIN made = 1..Len(made) /\ DOMAIN made' = 1..Len(made) + 1 /\ Len(made) \in Nat
      /\ made'[Len(made) + 1] = qc
      /\ \A i \in DOMAIN made : made'[i] = made[i]
  BY <1>1, <1>4, <1>5
<1>8. GoroutineTypes' /\ Excluded' /\ \A i \in Handlers : handlers'[i].pc \notin Inside
  BY <1>1, Leaves DEF At, Inside
<1>9. \A i \in DOMAIN made : /\ made[i].hash \in prepared /\ made[i].hash # h
                            /\ made[i].height \in Nat /\ made[i].height <= curHeight
  BY <1>2, MadeHeights DEF VoteInv, Marked, IsCertified
<1>10. Marked'
  <2>1. \A i \in DOMAIN made' :
          made'[i].hash \in prepared' /\ made'[i].height <= curHeight'
    BY <1>1, <1>2, <1>4, <1>6, <1>7, <1>9
  <2> QED
    BY <1>8, <2>1 DEF Marked, At, Inside
<1>11. CertificatesVerify'
  <2>1. /\ VerifyQC(qc) /\ IsInjective(qc.IDs)
        /\ \A k \in DOMAIN qc.QC : VerifySig(qc.IDs[k], qc.hash, qc.QC[k])
    <3>1. Len(Certificate[h]) = Len(Identities[h]) /\ Len(Identities[h]) >= Quorum
      BY <1>2, <1>3 DEF SignedBy, OneOfEach, CheckQuorum
    <3>2. DOMAIN Certificate[h] = DOMAIN Identities[h]
      BY <1>4, <3>1
    <3> QED
      BY <1>3, <1>6, <3>1, <3>2 DEF VerifyQC, VerifySig, SignedBy, OneOfEach
  <2>2. ASSUME NEW i \in DOMAIN made
        PROVE  /\ VerifyQC(made[i]) /\ IsInjective(made[i].IDs)
               /\ \A k \in DOMAIN made[i].QC :
                    VerifySig(made[i].IDs[k], made[i].hash, made[i].QC[k])
    BY DEF VoteInv, CertificatesVerify
  <2> QED
    BY <1>7, <2>1, <2>2 DEF CertificatesVerify, VerifyQC
<1>12. CertifiedOnce'
  <2> SUFFICES ASSUME NEW i \in DOMAIN made', NEW j \in DOMAIN made', i # j
               PROVE  made'[i].hash # made'[j].hash /\ made'[i].height # made'[j].height
    BY DEF CertifiedOnce
  <2>1. CASE i \in DOMAIN made /\ j \in DOMAIN made
    BY <1>7, <2>1 DEF VoteInv, CertifiedOnce
  <2>2. CASE i = Len(made) + 1 /\ j \in DOMAIN made
    BY <1>4, <1>6, <1>7, <1>9, <2>2
  <2>3. CASE j = Len(made) + 1 /\ i \in DOMAIN made
    BY <1>4, <1>6, <1>7, <1>9, <2>3
  <2> QED
    BY <1>7, <2>1, <2>2, <2>3
<1>13. InStep'
  BY <1>1 DEF VoteInv, InStep, cerVars
<1> QED
  BY <1>1, <1>4, <1>7, <1>8, <1>10, <1>11, <1>12, <1>13 DEF VoteInv, VoteTypes, cerVars

LEMMA VoteStep ==
  ASSUME VoteInv, Nobody \notin Handlers, [VoteNext]_voteVars
  PROVE  VoteInv'
<1>0. localView \in Int /\ curHeight \in Nat
  BY DEF VoteInv, VoteTypes
<1>1. CASE UNCHANGED voteVars
  BY <1>0, <1>1, Quiet DEF voteVars
<1>2. CASE Claim
  BY <1>0, <1>2, Quiet DEF Claim
<1>3. CASE StartHotStuff
  BY <1>0, <1>3, Quiet DEF StartHotStuff
<1>4. CASE StartViewChange
  BY <1>0, <1>4, Quiet DEF StartViewChange
<1>5. CASE HandleQCVCMessage
  BY <1>0, <1>5, Quiet DEF HandleQCVCMessage
<1>6. ASSUME NEW g \in Handlers, HandleNormalRepMsg(g)
      PROVE  VoteInv'
  BY <1>6, CheckVoteStep, LockBufferStep, AddStep, UpdateBufferContentStep, CertifyStep
  DEF HandleNormalRepMsg
<1> QED
  BY <1>1, <1>2, <1>3, <1>4, <1>5, <1>6 DEF VoteNext

----------------------------------------------------------------------------
(* The theorems.                                                           *)

\* The inductive invariant (0 stands for nobody, so no goroutine is called 0).
THEOREM VoteInvariant ==
  ASSUME Nobody \notin Handlers
  PROVE  VoteSpec => []VoteInv
<1>1. VoteInv /\ [VoteNext]_voteVars => VoteInv'
  BY VoteStep
<1> QED
  BY <1>1, InitVoteInv, PTL DEF VoteSpec

\* HandleNormalRepMsg assembles certificates that would pass a VerifyQC that
\* looked at every signature, however votes are repeated and handlers overlap.
THEOREM CertificatesVerifyHolds ==
  ASSUME Nobody \notin Handlers
  PROVE  VoteSpec => []CertificatesVerify
<1>1. VoteInv => CertificatesVerify
  BY DEF VoteInv
<1> QED
  BY <1>1, VoteInvariant, PTL

\* HandleNormalRepMsg certifies a block once and uses a height once.
THEOREM CertifiedOnceHolds ==
  ASSUME Nobody \notin Handlers
  PROVE  VoteSpec => []CertifiedOnce
<1>1. VoteInv => CertifiedOnce
  BY DEF VoteInv
<1> QED
  BY <1>1, VoteInvariant, PTL

----------------------------------------------------------------------------
(* The five steps of a handler are one step of VoteCounting.               *)

\* No view change goes on while a handler is at work.
Working == \A g \in Handlers : At(g, "idle") \/ curStatus # "VIEWCHANGE"

\* A vote that completes a quorum is the only one that does.
Tallied ==
  \A g \in Handlers :
    LET v == handlers[g].vote
    IN  At(g, "check") \/ At(g, "certify") =>
          /\ v.src \in Buffer[v.hash]
          /\ CheckQuorum(v.hash) => ~(Cardinality(Buffer[v.hash] \ {v.src}) >= Quorum)

\* Some handler with a vote for h is there.
Someone(h, pc) == \E g \in Handlers : At(g, pc) /\ handlers[g].vote.hash = h

\* A quorum is marked, and what is marked is certified, by the handler that saw it.
Taken ==
  /\ \A h \in Hashes : CheckQuorum(h) => h \in prepared \/ Someone(h, "check")
  /\ \A h \in prepared : IsCertified(h) \/ Someone(h, "certify")

CountInv == Working /\ Tallied /\ Taken

\* No quorum of votes is overlooked: it has its certificate, or the handler of the
\* vote that completed it is about to make it.
NoQuorumMissed ==
  \A h \in Hashes : CheckQuorum(h) =>
    IsCertified(h) \/ \E g \in Handlers : Completing(g) /\ handlers[g].vote.hash = h

LEMMA InitCountInv ==
  ASSUME Quorum \in Nat \ {0}, VoteInit
  PROVE  CountInv
<1>1. \A h \in Hashes : ~CheckQuorum(h)
  BY FS_EmptySet DEF VoteInit, CheckQuorum
<1> QED
  BY <1>1 DEF VoteInit, CountInv, Working, Tallied, Taken, Waiting, At

\* Steps outside HandleNormalRepMsg.
LEMMA CountQuiet ==
  ASSUME CountInv, UNCHANGED <<cerVars, prepared, handlers, made>>,
         \A g \in Handlers : At(g, "idle") \/ curStatus' # "VIEWCHANGE"
  PROVE  CountInv'
<1>1. Working'
  BY DEF Working, At
<1>2. Tallied'
  BY DEF CountInv, Tallied, At, CheckQuorum, cerVars
<1>3. Taken'
  BY DEF CountInv, Taken, Someone, At, CheckQuorum, IsCertified, cerVars
<1> QED
  BY <1>1, <1>2, <1>3 DEF CountInv

\* A handler that has added no vote yet.
LEMMA CountAside ==
  ASSUME CountInv, UNCHANGED <<curStatus, cerVars, prepared, made>>,
         NEW g \in Handlers, \A i \in Handlers \ {g} : handlers'[i] = handlers[i],
         ~At(g, "check"), ~At(g, "certify"), handlers'[g].pc \notin {"check", "certify"},
         At(g, "idle")' \/ curStatus # "VIEWCHANGE"
  PROVE  CountInv'
<1>1. Working'
  BY DEF CountInv, Working, At
<1>2. Tallied'
  BY DEF CountInv, Tallied, At, CheckQuorum, cerVars
<1>3. Taken'
  <2>1. \A h, pc : pc \in {"check", "certify"} /\ Someone(h, pc) => Someone(h, pc)'
    BY DEF Someone, At
  <2>2. \A h : IsCertified(h)' = IsCertified(h) /\ CheckQuorum(h)' = CheckQuorum(h)
    BY DEF CheckQuorum, IsCertified, cerVars
  <2> QED
    BY <2>1, <2>2 DEF CountInv, Taken
<1> QED
  BY <1>1, <1>2, <1>3 DEF CountInv

LEMMA CheckVoteCount ==
  ASSUME VoteInv, CountInv, NEW g \in Handlers, NEW v \in Votes, CheckVote(g, v)
  PROVE  CountInv'
<1>1. /\ handlers' = [handlers EXCEPT ![g] =
            [pc |-> "lock", vote |-> [hash |-> v.hash, src |-> v.src, sig |-> v.sig]]]
      /\ UNCHANGED <<curStatus, cerVars, prepared, made>>
      /\ curStatus # "VIEWCHANGE" /\ handlers[g] = Waiting
  BY DEF CheckVote
<1>2. /\ handlers'[g].pc = "lock"
      /\ \A i \in Handlers \ {g} : handlers'[i] = handlers[i]
      /\ At(g, "idle")
  BY <1>1 DEF VoteInv, VoteTypes, GoroutineTypes, At, Waiting
<1> QED
  BY <1>1, <1>2, CountAside DEF At

LEMMA LockBufferCount ==
  ASSUME VoteInv, CountInv, NEW g \in Handlers, LockBuffer(g)
  PROVE  CountInv'
<1>1. /\ At(g, "lock")
      /\ UNCHANGED <<curStatus, cerVars, prepared, made>>
  BY DEF LockBuffer, At
<1>2. /\ \/ handlers'[g] = Waiting
         \/ handlers'[g] = [pc |-> "add", vote |-> handlers[g].vote]
      /\ \A i \in Handlers \ {g} : handlers'[i] = handlers[i]
  BY Moves, Returns DEF LockBuffer, Inside
<1>3. curStatus # "VIEWCHANGE"
  BY <1>1 DEF CountInv, Working, At
<1> QED
  BY <1>1, <1>2, <1>3, CountAside DEF At, Waiting

LEMMA AddCount ==
  ASSUME VoteInv, CountInv, Nobody \notin Handlers, Quorum \in Nat \ {0},
         NEW g \in Handlers, Add(g)
  PROVE  CountInv'
<1> DEFINE h == handlers[g].vote.hash
           id == handlers[g].vote.src
<1>1. /\ At(g, "add") /\ Buffer' = [Buffer EXCEPT ![h] = @ \cup {id}]
      /\ UNCHANGED <<curStatus, prepared, made>>
      /\ Continue(g, "check")
  BY DEF Add, At
<1>2. /\ handlers'[g] = [pc |-> "check", vote |-> handlers[g].vote]
      /\ \A i \in Handlers \ {g} : handlers'[i] = handlers[i]
  BY <1>1, Moves DEF Inside
<1>3. h \in Hashes /\ h \notin prepared
  BY <1>1 DEF VoteInv, VoteTypes, GoroutineTypes, Marked, At
<1>4. \A i \in Handlers \ {g} : handlers[i].pc \notin Inside
  BY <1>1, Alone DEF At, Inside
<1>5. /\ Buffer'[h] = Buffer[h] \cup {id}
      /\ \A x \in Hashes \ {h} : Buffer'[x] = Buffer[x]
  BY <1>1, <1>3 DEF VoteInv, VoteTypes
<1>6. \A x : ~Someone(x, "check") /\ ~Someone(x, "certify")
  BY <1>1, <1>4 DEF Someone, At, Inside
<1>7. ~CheckQuorum(h)
  BY <1>3, <1>6 DEF CountInv, Taken
<1>8. Working'
  BY <1>1, <1>2 DEF CountInv, Working, At
<1>9. Tallied'
  <2>1. /\ id \in Buffer'[h]
        /\ ~(Cardinality(Buffer'[h] \ {id}) >= Quorum)
    <3>1. IsFiniteSet(Buffer[h])
      BY <1>3 DEF VoteInv, InStep, OneOfEach
    <3>2. Buffer'[h] \ {id} \subseteq Buffer[h]
      BY <1>5
    <3>3. /\ Cardinality(Buffer'[h] \ {id}) <= Cardinality(Buffer[h])
          /\ Cardinality(Buffer'[h] \ {id}) \in Nat /\ Cardinality(Buffer[h]) \in Nat
      BY <3>1, <3>2, FS_Subset, FS_CardinalityType
    <3> QED
      BY <1>5, <1>7, <3>3 DEF CheckQuorum
  <2>2. \A i \in Handlers \ {g} : ~At(i, "check")' /\ ~At(i, "certify")'
    BY <1>2, <1>4 DEF At, Inside
  <2> QED
    BY <1>2, <2>1, <2>2 DEF Tallied
<1>10. Taken'
  <2>1. \A x : x = h => Someone(x, "check")'
    BY <1>2 DEF Someone, At
  <2>2. \A x \in Hashes \ {h} : CheckQuorum(x)' = CheckQuorum(x)
    BY <1>5 DEF CheckQuorum
  <2>3. \A x \in prepared : IsCertified(x)'
    BY <1>1, <1>6 DEF CountInv, Taken, IsCertified
  <2> QED
    <3>1. ASSUME NEW x \in Hashes, CheckQuorum(x)' PROVE x \in prepared' \/ Someone(x, "check")'
      BY <1>1, <1>6, <2>1, <2>2, <3>1 DEF CountInv, Taken
    <3>2. \A x \in prepared' : IsCertified(x)'
      BY <1>1, <2>3
    <3> QED
      BY <3>1, <3>2 DEF Taken
<1> QED
  BY <1>8, <1>9, <1>10 DEF CountInv

LEMMA UpdateBufferContentCount ==
  ASSUME VoteInv, CountInv, Nobody \notin Handlers, NEW g \in Handlers,
         UpdateBufferContent(g)
  PROVE  CountInv'
<1> DEFINE h == handlers[g].vote.hash
<1>1. /\ At(g, "check")
      /\ UNCHANGED <<curStatus, cerVars, made>>
  BY DEF UpdateBufferContent, At
<1>2. \A i \in Handlers \ {g} : handlers[i].pc \notin Inside
  BY <1>1, Alone DEF At, Inside
<1>3. \A x : ~Someone(x, "certify") /\ (Someone(x, "check") => x = h)
  BY <1>1, <1>2 DEF Someone, At, Inside
<1>4. \A x : CheckQuorum(x)' = CheckQuorum(x) /\ IsCertified(x)' = IsCertified(x)
  BY <1>1 DEF CheckQuorum, IsCertified, cerVars
<1>5. CASE CheckQuorum(h)
  <2>1. prepared' = prepared \cup {h} /\ Continue(g, "certify")
    BY <1>5 DEF UpdateBufferContent
  <2>2. /\ handlers'[g] = [pc |-> "certify", vote |-> handlers[g].vote]
        /\ \A i \in Handlers \ {g} : handlers'[i] = handlers[i]
    BY <2>1, Moves DEF Inside
  <2>3. Working'
    BY <1>1, <2>2 DEF CountInv, Working, At
  <2>6. Tallied'
    BY <1>1, <1>4, <2>2 DEF CountInv, Tallied, At, cerVars
  <2>4. \A x : x = h => Someone(x, "certify")'
    BY <2>2 DEF Someone, At
  <2>5. Taken'
    <3>1. ASSUME NEW x \in Hashes, CheckQuorum(x)' PROVE x \in prepared'
      BY <1>3, <1>4, <2>1, <3>1 DEF CountInv, Taken
    <3>2. ASSUME NEW x \in prepared' PROVE IsCertified(x)' \/ Someone(x, "certify")'
      BY <1>3, <1>4, <2>1, <2>4, <3>2 DEF CountInv, Taken
    <3> QED
      BY <3>1, <3>2 DEF Taken
  <2> QED
    BY <2>3, <2>5, <2>6 DEF CountInv
<1>6. CASE ~CheckQuorum(h)
  <2>1. prepared' = prepared /\ Return(g)
    BY <1>6 DEF UpdateBufferContent
  <2>2. handlers'[g] = Waiting /\ \A i \in Handlers \ {g} : handlers'[i] = handlers[i]
    BY <2>1, Returns
  <2>3. Working'
    BY <1>1, <2>2 DEF CountInv, Working, At, Waiting
  <2>4. Tallied'
    BY <1>1, <1>4, <2>2 DEF CountInv, Tallied, At, Waiting, cerVars
  <2>5. Taken'
    BY <1>3, <1>4, <1>6, <2>1 DEF CountInv, Taken
  <2> QED
    BY <2>3, <2>4, <2>5 DEF CountInv
<1> QED
  BY <1>5, <1>6

LEMMA CertifyCount ==
  ASSUME VoteInv, CountInv, Nobody \notin Handlers, NEW g \in Handlers, Certify(g)
  PROVE  CountInv'
<1> DEFINE h == handlers[g].vote.hash
           qc == [view |-> localView, height |-> curHeight + 1, hash |-> h,
                  QC |-> Certificate[h], IDs |-> Identities[h]]
<1>1. /\ At(g, "certify") /\ Return(g) /\ curStatus' = "READY"
      /\ made' = Append(made, qc)
      /\ UNCHANGED <<cerVars, prepared>>
  BY DEF Certify, At, FetchCer
<1>2. handlers'[g] = Waiting /\ \A i \in Handlers \ {g} : handlers'[i] = handlers[i]
  BY <1>1, Returns
<1>3. \A i \in Handlers \ {g} : handlers[i].pc \notin Inside
  BY <1>1, Alone DEF At, Inside
<1>4. \A x : ~Someone(x, "check") /\ (Someone(x, "certify") => x = h)
  BY <1>1, <1>3 DEF Someone, At, Inside
<1>5. \A x : IsCertified(x)' <=> IsCertified(x) \/ x = h
  <2>1. qc.hash = h /\ made \in Seq(Certificates)
    BY DEF VoteInv, VoteTypes
  <2> HIDE DEF qc
  <2>2. /\ DOMAIN made' = DOMAIN made \cup {Len(made) + 1}
        /\ Len(made) + 1 \notin DOMAIN made
        /\ made'[Len(made) + 1] = qc
        /\ \A i \in DOMAIN made : made'[i] = made[i]
    BY <1>1, <2>1
  <2> QED
    BY <2>1, <2>2 DEF IsCertified
<1>6. Working'
  BY <1>1, <1>2 DEF CountInv, Working, At, Waiting
<1>7. Tallied'
  <2>1. ~At(g, "check")' /\ ~At(g, "certify")'
    BY <1>2 DEF At, Waiting
  <2>2. ASSUME NEW i \in Handlers \ {g} PROVE ~At(i, "check")' /\ ~At(i, "certify")'
    BY <1>2, <1>3 DEF At, Inside
  <2> QED
    BY <2>1, <2>2 DEF Tallied
<1>8. Taken'
  <2>1. \A x : CheckQuorum(x)' = CheckQuorum(x)
    BY <1>1 DEF CheckQuorum, cerVars
  <2> HIDE DEF qc
  <2> QED
    BY <1>1, <1>4, <1>5, <2>1 DEF CountInv, Taken
<1> QED
  BY <1>6, <1>7, <1>8 DEF CountInv

LEMMA CountStep ==
  ASSUME Nobody \notin Handlers, Quorum \in Nat \ {0},
         VoteInv, CountInv, [VoteNext]_voteVars
  PROVE  CountInv'
<1>1. CASE \/ UNCHANGED voteVars \/ Claim \/ StartHotStuff
           \/ StartViewChange \/ HandleQCVCMessage
  <2>1. UNCHANGED <<cerVars, prepared, handlers, made>>
    BY <1>1 DEF voteVars, Claim, StartHotStuff, StartViewChange, HandleQCVCMessage
  <2>2. \A g \in Handlers : At(g, "idle") \/ curStatus' # "VIEWCHANGE"
    BY <1>1 DEF CountInv, Working, voteVars, Claim, StartHotStuff, StartViewChange,
                HandleQCVCMessage, At, Waiting
  <2> QED
    BY <2>1, <2>2, CountQuiet
<1>2. ASSUME NEW g \in Handlers, HandleNormalRepMsg(g)
      PROVE  CountInv'
  BY <1>2, CheckVoteCount, LockBufferCount, AddCount, UpdateBufferContentCount, CertifyCount
  DEF HandleNormalRepMsg
<1> QED
  BY <1>1, <1>2 DEF VoteNext

\* Only the handler that is in the critical section has a vote that does not count yet.
LEMMA OneWithheld ==
  ASSUME VoteInv, Nobody \notin Handlers, NEW g \in Handlers, handlers[g].pc \in Inside
  PROVE  \A h : Withheld(h) = IF Completing(g) /\ handlers[g].vote.hash = h
                                THEN {handlers[g].vote.src} ELSE {}
<1>1. \A i \in Handlers \ {g} : ~Completing(i)
  BY Alone DEF Completing, Inside
<1> QED
  BY <1>1 DEF Withheld

LEMMA NoneWithheld ==
  ASSUME \A g \in Handlers : handlers[g].pc \notin {"check", "certify"}
  PROVE  \A h : Withheld(h) = {}
BY DEF Withheld, Completing

\* What counts if nobody who was about to add a vote, or is, moves.
LEMMA CountedSame ==
  ASSUME NEW g \in Handlers, UNCHANGED cerVars,
         \A i \in Handlers \ {g} : handlers'[i] = handlers[i],
         handlers[g].pc \notin {"check", "certify"},
         handlers'[g].pc \notin {"check", "certify"}
  PROVE  CountedVoters' = CountedVoters
<1>1. \A h : CheckQuorum(h)' = CheckQuorum(h)
  BY DEF CheckQuorum, cerVars
<1>2. ~Completing(g) /\ ~Completing(g)'
  BY DEF Completing
<1>3. \A i \in Handlers \ {g} : Completing(i)' = Completing(i)
  BY <1>1 DEF Completing
<1>4. \A h : Withheld(h)' = Withheld(h)
  BY <1>2, <1>3 DEF Withheld
<1> QED
  BY <1>4 DEF CountedVoters, cerVars

\* VoteCounting counts as VoteBuffer does.
LEMMA CountingCardinality == \A S : Counting!Cardinality(S) = Cardinality(S)
<1>1. \A S : Counting!IsFiniteSet(S) = IsFiniteSet(S)
  BY DEF Counting!IsFiniteSet, IsFiniteSet
<1> QED
  BY <1>1 DEF Counting!Cardinality, Cardinality

\* The ballots for a block are as many as its voters.
LEMMA BallotVoters ==
  ASSUME NEW voters, NEW h \in Hashes
  PROVE  { x.id : x \in { y \in Ballots(voters) : y.hash = h } } = voters[h]
<1>1. \A x : x \in Ballots(voters) <=> \E k \in Hashes : x \in [hash: {k}, id: voters[k]]
  BY DEF Ballots
<1>2. ASSUME NEW x \in Ballots(voters), x.hash = h PROVE x.id \in voters[h]
  BY <1>1, <1>2
<1>3. ASSUME NEW id \in voters[h]
      PROVE  \E x \in Ballots(voters) : x.hash = h /\ x.id = id
  <2>1. [hash |-> h, id |-> id] \in Ballots(voters)
    BY <1>1
  <2> QED
    BY <2>1
<1> QED
  BY <1>2, <1>3

\* One voter more is one ballot more.
LEMMA OneBallot ==
  ASSUME NEW S, NEW voters \in [Hashes -> S], NEW h \in Hashes, NEW id
  PROVE  Ballots([voters EXCEPT ![h] = @ \cup {id}])
           = Ballots(voters) \cup {[hash |-> h, id |-> id]}
<1> DEFINE more == [voters EXCEPT ![h] = @ \cup {id}]
<1>1. more[h] = voters[h] \cup {id} /\ \A k \in Hashes \ {h} : more[k] = voters[k]
  OBVIOUS
<1> HIDE DEF more
<1>2. /\ \A x : x \in Ballots(voters) <=> \E k \in Hashes : x \in [hash: {k}, id: voters[k]]
      /\ \A x : x \in Ballots(more) <=> \E k \in Hashes : x \in [hash: {k}, id: more[k]]
  BY DEF Ballots
<1>3. ASSUME NEW x \in Ballots(more)
      PROVE  x \in Ballots(voters) \cup {[hash |-> h, id |-> id]}
  <2>1. PICK k \in Hashes : x \in [hash: {k}, id: more[k]]
    BY <1>2
  <2>2. CASE k = h /\ x.id = id
    BY <2>1, <2>2
  <2>3. CASE ~(k = h /\ x.id = id)
    <3>1. x \in [hash: {k}, id: voters[k]]
      BY <1>1, <2>1, <2>3
    <3> QED
      BY <1>2, <3>1
  <2> QED
    BY <2>2, <2>3
<1>4. Ballots(voters) \subseteq Ballots(more)
  BY <1>1, <1>2
<1>5. [hash |-> h, id |-> id] \in Ballots(more)
  BY <1>1, <1>2
<1> QED
  BY <1>3, <1>4, <1>5 DEF more

LEMMA InitCounting == VoteInit => Counting!CountingInit
<1> SUFFICES ASSUME VoteInit PROVE Counting!CountingInit
  OBVIOUS
<1>1. \A h : Withheld(h) = {}
  BY NoneWithheld DEF VoteInit, Waiting
<1>2. Counted = {}
  BY <1>1 DEF Counted, Ballots, CountedVoters, VoteInit
<1>3. Certified = {} /\ CurBlock.height = 0
  BY DEF VoteInit, Certified, CurBlock
<1> QED
  BY <1>2, <1>3 DEF VoteInit, Counting!CountingInit

LEMMA QuietCounting ==
  ASSUME VoteInv, \/ UNCHANGED voteVars \/ Claim \/ StartHotStuff
                  \/ StartViewChange \/ HandleQCVCMessage
  PROVE  Counting!Elsewhere
<1>1. UNCHANGED <<cerVars, handlers, made>>
  BY DEF voteVars, Claim, StartHotStuff, StartViewChange, HandleQCVCMessage
<1>2. Counted' = Counted
  BY <1>1 DEF Counted, CountedVoters, Withheld, Completing, CheckQuorum, cerVars
<1>3. Certified' = Certified
  BY <1>1 DEF Certified
<1>4. localView' >= localView /\ curHeight' >= curHeight
  BY DEF VoteInv, VoteTypes, voteVars, Claim, StartHotStuff, StartViewChange, HandleQCVCMessage
<1>5. CurBlock.height = curHeight /\ CurBlock'.height = curHeight'
  BY DEF CurBlock
<1> QED
  BY <1>2, <1>3, <1>4, <1>5 DEF Counting!Elsewhere

\* CheckVote and LockBuffer show nothing.
LEMMA AsideCounting ==
  ASSUME VoteInv, NEW g \in Handlers,
         LockBuffer(g) \/ \E v \in Votes : CheckVote(g, v)
  PROVE  UNCHANGED Counting!countingVars
<1>1. UNCHANGED <<localView, curStatus, cerVars, curHeight, made>>
  BY DEF LockBuffer, CheckVote
<1>2. /\ \A i \in Handlers \ {g} : handlers'[i] = handlers[i]
      /\ handlers[g].pc \in {"idle", "lock"} /\ handlers'[g].pc \in {"idle", "lock", "add"}
  <2>1. CASE LockBuffer(g)
    <3>1. Return(g) \/ Continue(g, "add")
      BY <2>1 DEF LockBuffer
    <3>2. /\ handlers'[g].pc \in {"idle", "add"}
          /\ \A i \in Handlers \ {g} : handlers'[i] = handlers[i]
      <4>1. CASE Return(g)
        BY <4>1, Returns DEF Waiting
      <4>2. CASE Continue(g, "add")
        <5>1. handlers'[g] = [pc |-> "add", vote |-> handlers[g].vote]
          BY <4>2, Moves DEF Inside
        <5>2. \A i \in Handlers \ {g} : handlers'[i] = handlers[i]
          BY <4>2, Moves DEF Inside
        <5> QED
          BY <5>1, <5>2
      <4> QED
        BY <3>1, <4>1, <4>2
    <3> QED
      BY <2>1, <3>2 DEF LockBuffer
  <2>2. CASE \E v \in Votes : CheckVote(g, v)
    BY <2>2 DEF CheckVote, Waiting, VoteInv, VoteTypes, GoroutineTypes
  <2> QED
    BY <2>1, <2>2
<1>3. CountedVoters' = CountedVoters
  BY <1>1, <1>2, CountedSame
<1> QED
  BY <1>1, <1>3 DEF Counting!countingVars, Counted, Certified, CurBlock

\* Add counts the vote, unless it completes a quorum.
LEMMA AddCounting ==
  ASSUME Nobody \notin Handlers, Quorum \in Nat \ {0},
         VoteInv, CountInv, NEW g \in Handlers, Add(g)
  PROVE  [Counting!CountingNext]_Counting!countingVars
<1>1. PICK h, id : h = handlers[g].vote.hash /\ id = handlers[g].vote.src
  OBVIOUS
<1>2. /\ At(g, "add") /\ Buffer' = [Buffer EXCEPT ![h] = @ \cup {id}]
      /\ UNCHANGED <<localView, curStatus, prepared, curHeight, made>>
      /\ Continue(g, "check")
  BY <1>1 DEF Add, At
<1>3. /\ handlers'[g] = [pc |-> "check", vote |-> handlers[g].vote]
      /\ \A i \in Handlers \ {g} : handlers'[i] = handlers[i]
  BY <1>2, Moves DEF Inside
<1>4. h \in Hashes /\ id \in Signers /\ h \notin prepared
  BY <1>1, <1>2 DEF VoteInv, VoteTypes, GoroutineTypes, Marked, At
<1>5. \A i \in Handlers \ {g} : handlers[i].pc \notin Inside
  BY <1>2, Alone DEF At, Inside
<1>6. ~CheckQuorum(h)
  <2>1. ~Someone(h, "check")
    BY <1>2, <1>5 DEF Someone, At, Inside
  <2> QED
    BY <1>4, <2>1 DEF CountInv, Taken
<1>7. \A x : Withheld(x) = {}
  BY <1>2, <1>5, NoneWithheld DEF At, Inside
<1>8. /\ Buffer'[h] = Buffer[h] \cup {id}
      /\ \A x \in Hashes \ {h} : Buffer'[x] = Buffer[x]
  BY <1>2, <1>4 DEF VoteInv, VoteTypes
<1>9. /\ ~Completing(g)' => \A x : Withheld(x)' = {}
      /\ Completing(g)' => \A x : Withheld(x)' = IF x = h THEN {id} ELSE {}
      /\ Completing(g)' <=> CheckQuorum(h)'
  <2>1. \A i \in Handlers \ {g} : ~Completing(i)'
    BY <1>3, <1>5 DEF Completing, Inside
  <2>2. handlers'[g].vote.hash = h /\ handlers'[g].vote.src = id /\ handlers'[g].pc = "check"
    BY <1>1, <1>3
  <2>3. Completing(g)' <=> CheckQuorum(h)'
    BY <2>2 DEF Completing, CheckQuorum
  <2> QED
    BY <2>1, <2>2, <2>3 DEF Withheld
<1>10. UNCHANGED <<localView, curStatus, CurBlock, Certified>>
  BY <1>2 DEF CurBlock, Certified
<1>11. CountedVoters = [x \in Hashes |-> Buffer[x]]
  BY <1>7 DEF CountedVoters
<1>12. CASE CheckQuorum(h)'
  <2>1. id \notin Buffer[h]
    <3>1. ASSUME id \in Buffer[h] PROVE FALSE
      <4>1. Buffer'[h] = Buffer[h]
        BY <1>8, <3>1
      <4> QED
        BY <1>6, <1>12, <4>1 DEF CheckQuorum
    <3> QED
      BY <3>1
  <2>2. \A x \in Hashes : Buffer'[x] \ Withheld(x)' = Buffer[x]
    BY <1>8, <1>9, <1>12, <2>1
  <2>3. CountedVoters' = CountedVoters
    BY <1>11, <2>2 DEF CountedVoters
  <2> QED
    BY <1>10, <2>3 DEF Counting!countingVars, Counted
<1>13. CASE ~CheckQuorum(h)'
  <2>1. CountedVoters' = [x \in Hashes |-> Buffer'[x]]
    BY <1>9, <1>13 DEF CountedVoters
  <2>2. CountedVoters' = [CountedVoters EXCEPT ![h] = @ \cup {id}]
    BY <1>4, <1>8, <1>11, <2>1
  <2>3. ~(Cardinality(CountedVoters'[h]) >= Quorum)
    BY <1>4, <1>13, <2>1 DEF CheckQuorum
  <2>4. Counted' = Counted \cup {[hash |-> h, id |-> id]}
    <3>1. CountedVoters \in [Hashes -> SUBSET Signers]
      BY DEF CountedVoters, VoteInv, VoteTypes
    <3>2. Ballots(CountedVoters') = Ballots(CountedVoters) \cup {[hash |-> h, id |-> id]}
      BY <1>4, <2>2, <3>1, OneBallot
    <3> QED
      BY <3>2 DEF Counted
  <2>5. Counting!Voters(h)' = CountedVoters'[h]
    BY <1>4, BallotVoters DEF Counting!Voters, Counted
  <2>6. ~(Counting!Cardinality(Counting!Voters(h)') >= Quorum)
    BY <2>3, <2>5, CountingCardinality
  <2>7. curStatus # "VIEWCHANGE" /\ h \notin Certified
    BY <1>2, <1>4 DEF VoteInv, Marked, Certified, CountInv, Working, At
  <2>8. Counting!CountVote([hash |-> h, id |-> id])
    BY <1>10, <2>4, <2>6, <2>7, Zenon DEF Counting!CountVote
  <2> QED
    BY <2>4, <2>8 DEF Counting!CountingNext
<1> QED
  BY <1>12, <1>13

\* UpdateBufferContent shows nothing.
LEMMA UpdateCounting ==
  ASSUME Nobody \notin Handlers, VoteInv, NEW g \in Handlers, UpdateBufferContent(g)
  PROVE  UNCHANGED Counting!countingVars
<1>1. PICK h, id : h = handlers[g].vote.hash /\ id = handlers[g].vote.src
  OBVIOUS
<1>2. /\ At(g, "check")
      /\ UNCHANGED <<localView, curStatus, cerVars, curHeight, made>>
  BY DEF UpdateBufferContent, At
<1>3. \A i \in Handlers \ {g} : handlers[i].pc \notin Inside
  BY <1>2, Alone DEF At, Inside
<1>4. \A x : CheckQuorum(x)' = CheckQuorum(x)
  BY <1>2 DEF CheckQuorum, cerVars
<1>5. \A x : Withheld(x) = IF CheckQuorum(h) /\ x = h THEN {id} ELSE {}
  BY <1>1, <1>2, OneWithheld DEF Completing, At, Inside
<1>6. \A x : Withheld(x)' = IF CheckQuorum(h) /\ x = h THEN {id} ELSE {}
  <2>1. CASE CheckQuorum(h)
    <3>1. Continue(g, "certify")
      BY <1>1, <2>1 DEF UpdateBufferContent
    <3>2. /\ handlers'[g] = [pc |-> "certify", vote |-> handlers[g].vote]
          /\ \A i \in Handlers \ {g} : handlers'[i] = handlers[i]
      BY <3>1, Moves DEF Inside
    <3>3. \A i \in Handlers \ {g} : ~Completing(i)'
      BY <1>3, <3>2 DEF Completing, Inside
    <3>4. handlers'[g].vote.hash = h /\ handlers'[g].vote.src = id /\ Completing(g)'
      BY <1>1, <1>4, <2>1, <3>2 DEF Completing, CheckQuorum
    <3> QED
      BY <2>1, <3>3, <3>4 DEF Withheld
  <2>2. CASE ~CheckQuorum(h)
    <3>1. Return(g)
      BY <1>1, <2>2 DEF UpdateBufferContent
    <3>2. handlers'[g] = Waiting /\ \A i \in Handlers \ {g} : handlers'[i] = handlers[i]
      BY <3>1, Returns
    <3>3. \A i \in Handlers : handlers'[i].pc \notin {"check", "certify"}
      BY <1>3, <3>2 DEF Inside, Waiting
    <3>4. \A i \in Handlers : ~Completing(i)'
      BY <3>3 DEF Completing
    <3> QED
      BY <2>2, <3>4 DEF Withheld
  <2> QED
    BY <2>1, <2>2
<1>7. CountedVoters' = CountedVoters
  BY <1>2, <1>5, <1>6 DEF CountedVoters, cerVars
<1> QED
  BY <1>2, <1>7 DEF Counting!countingVars, Counted, Certified, CurBlock

\* Certify counts the vote that completes the quorum, and makes the certificate.
LEMMA CertifyCounting ==
  ASSUME Nobody \notin Handlers, VoteInv, CountInv, NEW g \in Handlers, Certify(g)
  PROVE  Counting!CountingNext
<1>1. PICK h, id : h = handlers[g].vote.hash /\ id = handlers[g].vote.src
  OBVIOUS
<1>2. /\ At(g, "certify") /\ Return(g)
      /\ curStatus' = "READY" /\ curHeight' = curHeight + 1
      /\ UNCHANGED <<localView, cerVars>>
  BY DEF Certify, At
<1>3. h \in Hashes /\ id \in Signers /\ CheckQuorum(h) /\ ~IsCertified(h)
  BY <1>1, <1>2 DEF VoteInv, VoteTypes, GoroutineTypes, Marked, At
<1>4. \A i \in Handlers \ {g} : handlers[i].pc \notin Inside
  BY <1>2, Alone DEF At, Inside
<1>5. \A x : Withheld(x) = IF x = h THEN {id} ELSE {}
  BY <1>1, <1>2, <1>3, OneWithheld DEF Completing, At, Inside
<1>6. \A x : Withheld(x)' = {}
  <2>1. handlers'[g] = Waiting /\ \A i \in Handlers \ {g} : handlers'[i] = handlers[i]
    BY <1>2, Returns
  <2>2. \A i \in Handlers : handlers'[i].pc \notin {"check", "certify"}
    BY <1>4, <2>1 DEF Inside, Waiting
  <2>3. \A i \in Handlers : ~Completing(i)'
    BY <2>2 DEF Completing
  <2> QED
    BY <2>3 DEF Withheld
<1>7. id \in Buffer[h]
  BY <1>1, <1>2 DEF CountInv, Tallied, At
<1>8. CountedVoters' = [x \in Hashes |-> Buffer[x]]
  BY <1>2, <1>6 DEF CountedVoters, cerVars
<1>9. CountedVoters' = [CountedVoters EXCEPT ![h] = @ \cup {id}]
  <2>1. CountedVoters = [x \in Hashes |-> IF x = h THEN Buffer[h] \ {id} ELSE Buffer[x]]
    BY <1>5 DEF CountedVoters
  <2>2. (Buffer[h] \ {id}) \cup {id} = Buffer[h]
    BY <1>7
  <2> QED
    BY <1>3, <1>8, <2>1, <2>2
<1>10. Counted' = Counted \cup {[hash |-> h, id |-> id]}
  <2>1. CountedVoters \in [Hashes -> SUBSET Signers]
    BY DEF CountedVoters, VoteInv, VoteTypes
  <2>2. Ballots(CountedVoters') = Ballots(CountedVoters) \cup {[hash |-> h, id |-> id]}
    BY <1>3, <1>9, <2>1, OneBallot
  <2> QED
    BY <2>2 DEF Counted
<1>11. Counting!Voters(h)' = Buffer[h]
  <2>1. Counting!Voters(h)' = CountedVoters'[h]
    BY <1>3, BallotVoters DEF Counting!Voters, Counted
  <2> QED
    BY <1>3, <1>8, <2>1
<1>12. Counting!Cardinality(Counting!Voters(h)') >= Quorum
  BY <1>3, <1>11, CountingCardinality DEF CheckQuorum
<1>13. curStatus # "VIEWCHANGE" /\ h \notin Certified
  BY <1>2, <1>3 DEF CountInv, Working, At, Certified, IsCertified
<1>14. PICK qc : /\ made' = Append(made, qc)
                 /\ qc.view = localView /\ qc.hash = h /\ qc.IDs = Identities[h]
  BY <1>1 DEF Certify, FetchCer
<1>15. /\ Len(made) \in Nat /\ DOMAIN made = 1..Len(made)
       /\ Len(made') = Len(made) + 1 /\ DOMAIN made' = 1..Len(made) + 1
       /\ made'[Len(made')] = qc /\ made' # << >>
       /\ \A i \in 1..Len(made) : made'[i] = made[i]
  <2>1. made \in Seq(Certificates)
    BY DEF VoteInv, VoteTypes
  <2> QED
    BY <1>14, <2>1
<1>16. Certified' = Certified \cup {h}
  BY <1>14, <1>15 DEF Certified
<1>17. CurBlock' = [view |-> localView, height |-> CurBlock.height + 1, hash |-> h,
                    ids |-> Counting!Voters(h)']
  <2>1. Range(Identities[h]) = Buffer[h]
    BY <1>3 DEF VoteInv, InStep, OneOfEach, Range
  <2>2. CurBlock.height = curHeight
    BY DEF CurBlock
  <2>3. CurBlock' = [view |-> qc.view, height |-> curHeight', hash |-> qc.hash,
                     ids |-> Range(qc.IDs)]
    BY <1>15 DEF CurBlock
  <2> QED
    BY <1>2, <1>11, <1>14, <2>1, <2>2, <2>3
<1>18. Counting!CountVote([hash |-> h, id |-> id])
  BY <1>2, <1>10, <1>12, <1>13, <1>16, <1>17, Zenon DEF Counting!CountVote
<1> QED
  BY <1>10, <1>18 DEF Counting!CountingNext

LEMMA StepCounting ==
  ASSUME Nobody \notin Handlers, Quorum \in Nat \ {0},
         VoteInv, CountInv, [VoteNext]_voteVars
  PROVE  [Counting!CountingNext]_Counting!countingVars
<1>1. ASSUME NEW g \in Handlers, HandleNormalRepMsg(g)
      PROVE  [Counting!CountingNext]_Counting!countingVars
  BY <1>1, AsideCounting, AddCounting, UpdateCounting, CertifyCounting
  DEF HandleNormalRepMsg
<1> QED
  BY <1>1, QuietCounting DEF VoteNext, Counting!CountingNext

LEMMA CountInvariance ==
  ASSUME Nobody \notin Handlers, Quorum \in Nat \ {0}
  PROVE  VoteSpec => []CountInv
<1>1. VoteInv /\ CountInv /\ [VoteNext]_voteVars => CountInv'
  BY CountStep
<1>2. VoteInit => CountInv
  BY InitCountInv
<1> QED
  BY <1>1, <1>2, VoteInvariant, PTL DEF VoteSpec

\* The critical section of HandleNormalRepMsg makes it the one step it is in
\* HotStuff: a vote counts at one moment, and the vote that completes a quorum makes
\* the certificate at that moment, of the votes that count.
THEOREM VoteCountingImplemented ==
  ASSUME Nobody \notin Handlers, Quorum \in Nat \ {0}
  PROVE  VoteSpec => ImplementsVoteCounting
<1>1. VoteInv /\ CountInv /\ [VoteNext]_voteVars
        => [Counting!CountingNext]_Counting!countingVars
  BY StepCounting
<1> QED
  BY <1>1, InitCounting, VoteInvariant, CountInvariance, PTL
  DEF VoteSpec, ImplementsVoteCounting, Counting!CountingSpec

\* HandleNormalRepMsg overlooks no quorum of votes, whatever handlers find the lock
\* taken and whatever votes they drop.
THEOREM NoQuorumOverlooked ==
  ASSUME Nobody \notin Handlers, Quorum \in Nat \ {0}
  PROVE  VoteSpec => []NoQuorumMissed
<1>1. CountInv => NoQuorumMissed
  <2> SUFFICES ASSUME CountInv, NEW h \in Hashes, CheckQuorum(h)
               PROVE  \/ IsCertified(h)
                      \/ \E g \in Handlers : Completing(g) /\ handlers[g].vote.hash = h
    BY DEF NoQuorumMissed
  <2>1. IsCertified(h) \/ Someone(h, "certify") \/ Someone(h, "check")
    BY DEF CountInv, Taken
  <2> QED
    BY <2>1 DEF Someone, At, Completing
<1> QED
  BY <1>1, CountInvariance, PTL
=============================================================================
