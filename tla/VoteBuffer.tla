----------------------------- MODULE VoteBuffer -----------------------------
(***************************************************************************)
(* How one replica makes certificates out of votes: quorum.buffer, a       *)
(* BUFFER, and quorum.cer, a CERTIFICATE (quorum/def.go), as               *)
(* HandleNormalRepMsg uses them.  HotStuff keeps the names of the voters   *)
(* and takes the handler as one step.  Here votes are handled by           *)
(* goroutines that hold the read side of viewMux, which keeps view changes *)
(* out and not each other, and that queue for bufferLock.  Votes come as   *)
(* the network likes, any number of times, and a signature may be that of  *)
(* another replica.                                                        *)
(***************************************************************************)
EXTENDS Integers, FiniteSets, Sequences, SequencesExt

CONSTANTS
  Signers,     \* the replicas
  Quorum,      \* quorum.QuorumSize()
  Proposed,    \* sequence number -> the block this replica proposes with it
  ViewChanges, \* bound on the view changes that come in between
  Handlers     \* bound: votes handled at a time

Seqs    == DOMAIN Proposed
Hashes  == Range(Proposed)
NilHash == 0

VARIABLES
  localView,      \* LocalView()
  curStatus,      \* curStatus
  claimed,        \* RequestMonitor has set PROCESSING and not proposed yet
  Sequence,       \* Sequence
  awaitingBlocks, \* seq -> hash of its own proposal of this view
  Buffer,         \* quorum.buffer: hash -> who voted for it
  Certificate,    \* quorum.cer: hash -> the signatures of the votes
  Identities,     \* quorum.cer: hash -> whose they are
  prepared,       \* hashes whose "BLOCK" entry is PREPARED
  bufferLock,     \* the goroutine that holds bufferLock
  handlers,       \* where each goroutine is, and with which vote
  curHeight,      \* curBlock.Height
  made            \* history: the certificates it made, in order

cerVars  == <<Buffer, Certificate, Identities>>
voteVars == <<localView, curStatus, claimed, Sequence, awaitingBlocks, cerVars, prepared,
              bufferLock, handlers, curHeight, made>>

NoVote  == [hash |-> NilHash, src |-> 0, sig |-> << >>]
Waiting == [pc |-> "idle", vote |-> NoVote]
Nobody  == 0

Continue(g, pc) == handlers' = [handlers EXCEPT ![g].pc = pc]
Return(g) == handlers' = [handlers EXCEPT ![g] = Waiting] /\ bufferLock' = Nobody

----------------------------------------------------------------------------
(* Votes and what is around the vote buffer.                               *)

\* A signature says who made it and of what: nobody can make another's.
GenSig(id, hash) == <<id, hash>>
VerifySig(id, hash, sig) == sig = GenSig(id, hash)

Votes == [src: Signers, view: 0..ViewChanges, seq: Seqs, hash: Hashes,
          sig: { GenSig(id, hash) : id \in Signers, hash \in Hashes }]

Claim ==
  /\ curStatus = "READY"
  /\ ~claimed
  /\ Sequence < Len(Proposed)
  /\ curStatus' = "PROCESSING"
  /\ claimed' = TRUE
  /\ UNCHANGED <<localView, Sequence, awaitingBlocks, cerVars, prepared, bufferLock,
                 handlers, curHeight, made>>

StartHotStuff ==
  /\ claimed
  /\ claimed' = FALSE
  /\ Sequence' = Sequence + 1
  /\ awaitingBlocks' = [awaitingBlocks EXCEPT ![Sequence + 1] = Proposed[Sequence + 1]]
  /\ UNCHANGED <<localView, curStatus, cerVars, prepared, bufferLock, handlers,
                 curHeight, made>>

\* Nobody is between RLock and RUnlock of viewMux.  Votes that were collected
\* stay where they are.
StartViewChange ==
  /\ localView < ViewChanges
  /\ \A g \in Handlers : handlers[g] = Waiting
  /\ localView' = localView + 1
  /\ curStatus' \in {"READY", "VIEWCHANGE"}
  /\ awaitingBlocks' = [s \in Seqs |-> NilHash]
  /\ UNCHANGED <<claimed, Sequence, cerVars, prepared, bufferLock, handlers,
                 curHeight, made>>

\* The VIEWCHANGE message that makes it the leader; a block of another replica
\* may be higher than its own.
HandleQCVCMessage ==
  /\ curStatus = "VIEWCHANGE"
  /\ \A g \in Handlers : handlers[g] = Waiting
  /\ curStatus' = "READY"
  /\ curHeight' \in {curHeight, curHeight + 1}
  /\ UNCHANGED <<localView, claimed, Sequence, awaitingBlocks, cerVars, prepared,
                 bufferLock, handlers, made>>

----------------------------------------------------------------------------
(* HandleNormalRepMsg.                                                     *)

\* Replicas vote for proposals, but late and with any sequence number beside it.
Cast(v) == \E s \in 1..Sequence : v.hash = Proposed[s]

\* Up to bufferLock.Lock().  A vote that fails a test has no effect.
CheckVote(g, v) ==
  /\ handlers[g] = Waiting
  /\ Cast(v)
  /\ v.view >= localView
  /\ curStatus # "VIEWCHANGE"
  /\ awaitingBlocks[v.seq] \in {NilHash, v.hash}
  /\ VerifySig(v.src, v.hash, v.sig)
  /\ handlers' = [handlers EXCEPT
       ![g] = [pc |-> "lock", vote |-> [hash |-> v.hash, src |-> v.src, sig |-> v.sig]]]
  /\ UNCHANGED <<localView, curStatus, claimed, Sequence, awaitingBlocks, cerVars,
                 prepared, bufferLock, curHeight, made>>

\* Variant for a mutant: there is no bufferLock.
Unguarded == TRUE

BufferFree == bufferLock = Nobody

\* GetBufferContent under bufferLock.
LockBuffer(g) ==
  /\ handlers[g].pc = "lock"
  /\ BufferFree
  /\ IF handlers[g].vote.hash \in prepared
       THEN Return(g)
       ELSE bufferLock' = g /\ Continue(g, "add")
  /\ UNCHANGED <<localView, curStatus, claimed, Sequence, awaitingBlocks, cerVars,
                 prepared, curHeight, made>>

\* Variant for a mutant: a signature is kept although its signer is known.
KeepsAll(hash, id) == TRUE

\* BUFFER.InsertValue: only the first vote of a replica goes to cer.
IsNew(hash, id) == id \notin Buffer[hash]

Insert(hash, id, sig) ==
  /\ Certificate' = [Certificate EXCEPT ![hash] = Append(@, sig)]
  /\ Identities' = [Identities EXCEPT ![hash] = Append(@, id)]

Add(g) ==
  LET v == handlers[g].vote
  IN  /\ handlers[g].pc = "add"
      /\ Buffer' = [Buffer EXCEPT ![v.hash] = @ \cup {v.src}]
      /\ IF IsNew(v.hash, v.src)
           THEN Insert(v.hash, v.src, v.sig)
           ELSE UNCHANGED <<Certificate, Identities>>
      /\ Continue(g, "check")
      /\ UNCHANGED <<localView, curStatus, claimed, Sequence, awaitingBlocks, prepared,
                     bufferLock, curHeight, made>>

CheckQuorum(hash) == Cardinality(Buffer[hash]) >= Quorum

UpdateBufferContent(g) ==
  LET hash == handlers[g].vote.hash
  IN  /\ handlers[g].pc = "check"
      /\ IF CheckQuorum(hash)
           THEN /\ prepared' = prepared \cup {hash}
                /\ Continue(g, "certify")
                /\ UNCHANGED bufferLock
           ELSE Return(g) /\ UNCHANGED prepared
      /\ UNCHANGED <<localView, curStatus, claimed, Sequence, awaitingBlocks, cerVars,
                     curHeight, made>>

\* FetchCer and DeserializeSignatures: what cer has for the block.
FetchCer(hash) == [sigs |-> Certificate[hash], ids |-> Identities[hash]]

\* The certificate becomes curBlock if it is higher.  Here it is: what else writes
\* curBlock of a leader is HandleQCVCMessage, which viewMux keeps out, and a proposal
\* of another leader handled at the same time, which is not part of this module.
Certify(g) ==
  LET hash == handlers[g].vote.hash
      cer == FetchCer(hash)
      qc == [view |-> localView, height |-> curHeight + 1, hash |-> hash,
             QC |-> cer.sigs, IDs |-> cer.ids]
  IN  /\ handlers[g].pc = "certify"
      /\ made' = Append(made, qc)
      /\ curHeight' = qc.height
      /\ curStatus' = "READY"
      /\ Return(g)
      /\ UNCHANGED <<localView, claimed, Sequence, awaitingBlocks, cerVars, prepared>>

HandleNormalRepMsg(g) ==
  \/ \E v \in Votes : CheckVote(g, v)
  \/ LockBuffer(g)
  \/ Add(g)
  \/ UpdateBufferContent(g)
  \/ Certify(g)

----------------------------------------------------------------------------

VoteInit ==
  /\ localView = 0
  /\ curStatus = "READY"
  /\ claimed = FALSE
  /\ Sequence = 0
  /\ awaitingBlocks = [s \in Seqs |-> NilHash]
  /\ Buffer = [h \in Hashes |-> {}]
  /\ Certificate = [h \in Hashes |-> << >>]
  /\ Identities = [h \in Hashes |-> << >>]
  /\ prepared = {}
  /\ bufferLock = Nobody
  /\ handlers = [g \in Handlers |-> Waiting]
  /\ curHeight = 0
  /\ made = << >>

VoteNext ==
  \/ Claim
  \/ StartHotStuff
  \/ StartViewChange
  \/ HandleQCVCMessage
  \/ \E g \in Handlers : HandleNormalRepMsg(g)

VoteSpec == VoteInit /\ [][VoteNext]_voteVars

----------------------------------------------------------------------------
(* Properties.                                                             *)

\* What VerifyQC tests in the end: a signature that does not verify makes it
\* return, but with true.
VerifyQC(qc) == Len(qc.QC) = Len(qc.IDs) /\ Len(qc.QC) >= Quorum

\* Every certificate FetchCer yields has the signatures of a quorum of different
\* replicas, each beside the name of its signer, so that it would pass VerifyQC
\* if that did refuse bad signatures, and if it looked for names that come twice.
CertificatesVerify ==
  \A i \in DOMAIN made : LET qc == made[i] IN
    /\ VerifyQC(qc)
    /\ IsInjective(qc.IDs)
    /\ \A k \in DOMAIN qc.QC : VerifySig(qc.IDs[k], qc.hash, qc.QC[k])

----------------------------------------------------------------------------
(* The steps of a handler are one step of VoteCounting.                    *)

\* The vote of g completes a quorum, which has no certificate yet.
Completing(g) ==
  handlers[g].pc \in {"check", "certify"} /\ CheckQuorum(handlers[g].vote.hash)

\* Such a vote counts when its certificate is made, any other when it is added.
Withheld(h) ==
  LET brought == { g \in Handlers : Completing(g) /\ handlers[g].vote.hash = h }
  IN  { handlers[g].vote.src : g \in brought }

CountedVoters == [h \in Hashes |-> Buffer[h] \ Withheld(h)]

Ballots(voters) == UNION { [hash: {h}, id: voters[h]] : h \in Hashes }

Counted == Ballots(CountedVoters)

Certified == { made[i].hash : i \in DOMAIN made }

\* Of curBlock only the height is a variable here; the rest is told by the last
\* certificate the replica made.
CurBlock ==
  IF made = << >>
    THEN [view |-> 0, height |-> curHeight, hash |-> NilHash, ids |-> {}]
    ELSE LET qc == made[Len(made)]
         IN  [view |-> qc.view, height |-> curHeight, hash |-> qc.hash,
              ids |-> Range(qc.IDs)]

Counting == INSTANCE VoteCounting WITH
  view <- localView,
  status <- curStatus,
  block <- CurBlock,
  votes <- Counted,
  prepared <- Certified

\* However handlers overlap, HandleNormalRepMsg is the one step that HotStuff takes
\* it for: a vote is counted once, and the vote that completes a quorum makes the
\* one certificate of the block, of the votes counted, as it is counted.
ImplementsVoteCounting == Counting!CountingSpec
=============================================================================
