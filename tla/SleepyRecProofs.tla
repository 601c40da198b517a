--------------------------- MODULE SleepyRecProofs ---------------------------
(***************************************************************************)
(* Proofs about SleepyRec, for every number of replicas, quorum size and   *)
(* bound.                                                                  *)
(*                                                                         *)
(*  - Blocks.  Waking up forgets a lot, but not what was accepted, and     *)
(*    what a recovery brings back is as good as what the others have: what *)
(*    ViewChangeProofs says of blocks (BlockInv) stays true.               *)
(*  - Phases.  The status, the goroutine TestSleepAndRecover, the request  *)
(*    that is answered and the monitors of a replica fit together.         *)
(*  - Views.  Waking up takes a replica back to view 0, so that nothing    *)
(*    can be said of the view it is in.  But what it has attained, before  *)
(*    it fell asleep or since, it has attained for good: a quorum stands   *)
(*    behind every view a replica was ever in, and one of that quorum is   *)
(*    among those whose ECHO1 is counted.                                  *)
(*  - What RecKoala2 brings back.  One replica sleeps, once.  While nobody *)
(*    else recovers, a certificate or a lock has a quorum that knows it    *)
(*    and goes on knowing it; every ECHO2 that is counted was sent after   *)
(*    the sleeper fell asleep, so that the one they have in common carries *)
(*    a block that is high enough.                                         *)
(***************************************************************************)
EXTENDS SleepyRec, ViewChangeProofs

----------------------------------------------------------------------------
(* The inductive invariant: blocks and phases.                             *)

ProtocolTypes == {"QC", "QCREP", "VIEWCHANGE", "TIMEOUT", "TQC"}

CommittedCerts == [Heights -> Certs \cup {NoBlock}]

RecMsgFields(m) ==
  /\ m.type \in ProtocolTypes \cup {"REC1", "ECHO1", "REC2", "ECHO2"}
  /\ m.type = "ECHO1" => m.hash = "REC1" /\ m.view \in -1..MaxView
  /\ m.type = "ECHO2" => /\ m.hash = "REC2"
                         /\ m.qc \in Certs /\ m.lqc \in Certs /\ m.com \in CommittedCerts
                         /\ m.lqc.height <= m.qc.height

StoredValues ==
  [view: Views, lockedBlock: Certs \cup {NoBlock}, committedBlocks: CommittedCerts]

StoreTypes == store \in [Replicas -> StoredValues]

RecTypes ==
  /\ sleepProc \in [Replicas -> {"awake", "asleep", "woken", "done", "ended"}]
  /\ reqHash \in [Replicas -> Requested \cup {"none"}]
  /\ hView \in [Replicas -> -2..MaxView]
  /\ recBuffer \in [Replicas -> [Requested -> Nat]]
  /\ recPrepared \in [Replicas -> SUBSET Requested]
  /\ spinning \in [Replicas -> BOOLEAN]
  /\ before \in [Replicas -> [view: Views \cup {-1}, lock: Certs]]

SleepTypes == RecTypes /\ StoreTypes /\ \A m \in net : RecMsgFields(m)

BackedAll(com, accepted) ==
  \A h \in Heights : com[h] # NoBlock => BackedIn(com[h], accepted)

BackedEcho(m) ==
  m.type = "ECHO2" => /\ Backed(m.qc) /\ Backed(m.lqc)
                      /\ BackedAll(m.com, receivedBlocksSet)

StoreBacked ==
  \A r \in Replicas : /\ Backed(store[r].lockedBlock)
                      /\ BackedAll(store[r].committedBlocks, receivedBlocksSet)

SleepBacked == StoreBacked /\ \A m \in net : BackedEcho(m)

\* How the goroutine of a replica, its status and its request fit together.
PhaseOf(r) ==
  /\ sleepProc[r] = "awake" => ~Down(r) /\ before[r].view = -1
  /\ sleepProc[r] = "asleep" => before[r].view = view[r]
  /\ sleepProc[r] \in {"asleep", "woken"} =>
       curStatus[r] = "SLEEPING" /\ before[r].view # -1
  /\ sleepProc[r] # "done" => ~spinning[r] /\ recPrepared[r] = {}
  /\ sleepProc[r] = "done" => curStatus[r] # "SLEEPING"
  /\ sleepProc[r] = "ended" => /\ RecMode = "RecFromDisk"
                              /\ curStatus[r] = "RECOVERING" /\ reqHash[r] = "none"
  /\ curStatus[r] = "RECOVERING" /\ sleepProc[r] # "ended" => reqHash[r] # "none"
  /\ spinning[r] => /\ curStatus[r] = "RECOVERING" /\ reqHash[r] = "REC1"
                    /\ "REC1" \in recPrepared[r]

\* Whoever is down is not about to propose.
MonitorsRest(r) ==
  Down(r) => \A v \in Views : ~MonitorAt(r, v, "claim") /\ ~MonitorAt(r, v, "propose")

Phases == \A r \in Replicas : PhaseOf(r) /\ MonitorsRest(r)

SInv == BlockInv /\ SleepTypes /\ SleepBacked /\ Phases

----------------------------------------------------------------------------
(* The inductive invariant: answers that are counted.                      *)

Counts ==
  \A r \in Replicas, q \in Requested :
    /\ recBuffer[r][q] <= RecQuorum
    /\ q \notin recPrepared[r] => recBuffer[r][q] < RecQuorum

----------------------------------------------------------------------------
(* The inductive invariant: views.                                         *)

Attained(s, v) == view[s] >= v \/ before[s].view >= v

AllAttained(S, v) == \A s \in S : Attained(s, v)

QuorumAttained(v) ==
  \E S \in SUBSET Replicas : Cardinality(S) >= QuorumSize /\ AllAttained(S, v)

TimersOfThePast ==
  \A s \in Replicas, v \in Views :
    v \in timers[s] \/ monitor[s][v] = "wait" => Attained(s, v)

Told(m) ==
  /\ m.type \in {"TIMEOUT", "VIEWCHANGE"} => Attained(m.src, m.view)
  /\ m.type = "TQC" => AllAttained(m.ids, m.view)

AllTold ==
  /\ \A m \in net : Told(m)
  /\ \A r \in Replicas, v \in Views : AllAttained(timeoutBuffer[r][v], v)

Backing ==
  \A r \in Replicas, v \in Views : Attained(r, v + 1) => QuorumAttained(v)

Past == TimersOfThePast /\ AllTold /\ Backing

\* Who asked, and who is to answer or has answered.
Asker(m) == IF m.type = "REC1" THEN m.src ELSE m.dst
Answerer(m) == IF m.type = "REC1" THEN m.dst ELSE m.src
FirstRound == { m \in net : m.type \in {"REC1", "ECHO1"} }

OneAnswer ==
  /\ \A m \in FirstRound : sleepProc[Asker(m)] = "done"
  /\ \A m, x \in FirstRound : Asker(m) = Asker(x) /\ Answerer(m) = Answerer(x) => m = x

\* Q stands behind the view before the one r fell asleep in; A has answered and
\* was counted.
Witnessed(r, Q, A) ==
  /\ Cardinality(Q) >= QuorumSize
  /\ AllAttained(Q, before[r].view - 1)
  /\ \A m \in FirstRound : Asker(m) = r =>
       /\ Answerer(m) \notin A
       /\ m.type = "ECHO1" /\ m.src \in Q => m.view >= before[r].view - 2
  /\ Cardinality(A) >= recBuffer[r]["REC1"]
  /\ A \cap Q # {} => hView[r] >= before[r].view - 2

NothingCounted ==
  \A r \in Replicas : sleepProc[r] # "done" => recBuffer[r]["REC1"] = 0

Witnesses ==
  \A r \in Replicas : sleepProc[r] # "awake" =>
    \E Q, A \in SUBSET Replicas : Witnessed(r, Q, A)

\* What follows from a quorum of answers.
Caught ==
  \A r \in Replicas : sleepProc[r] = "done" =>
    /\ "REC1" \in recPrepared[r] => hView[r] >= before[r].view - 2
    /\ ~Down(r) => reqHash[r] = "REC2"
    /\ reqHash[r] = "REC2" => view[r] > before[r].view

Answers == OneAnswer /\ NothingCounted /\ Witnesses /\ Caught

CInv == Past /\ Answers

----------------------------------------------------------------------------
(* The inductive invariant: the lock in the database.                      *)

\* The database has the lock, or none was ever written.
StoredAs(lock, stored) == lock = IF stored = NoBlock THEN EmptyBlock ELSE stored

LockStored ==
  \A r \in Replicas :
    /\ sleepProc[r] \in {"awake", "asleep"} /\ Persists =>
         StoredAs(lockedBlock[r], store[r].lockedBlock)
    /\ sleepProc[r] = "asleep" => before[r].lock = lockedBlock[r]
    /\ sleepProc[r] = "woken" /\ Persists => StoredAs(before[r].lock, store[r].lockedBlock)
    /\ sleepProc[r] = "done" => curBlock[r].height >= before[r].lock.height
    /\ sleepProc[r] = "ended" => before[r].lock = EmptyBlock

----------------------------------------------------------------------------
(* The initial states.                                                     *)

LEMMA InitSInv == SleepyInit => SInv
<1> SUFFICES ASSUME SleepyInit PROVE SInv
  OBVIOUS
<1>1. BlockInv
  BY InitVInv DEF SleepyInit, VInv
<1> USE DEF SleepyInit, InitSleep, VCInit, Init, InitProtocol, InitMonitors, InitViewChange
<1>2. SleepTypes
  <2>1. [h \in Heights |-> NoBlock] \in CommittedCerts
    BY DEF CommittedCerts
  <2>2. StoreTypes
    BY <2>1, CertTypes DEF StoreTypes, StoredValues
  <2>3. RecTypes
    BY CertTypes, ConstantsAssumption DEF RecTypes, Requested
  <2> QED
    BY <2>2, <2>3 DEF SleepTypes
<1>3. SleepBacked
  BY DEF SleepBacked, StoreBacked, BackedAll, Backed, BackedIn, NoBlock
<1>4. Phases
  BY DEF Phases, PhaseOf, MonitorsRest, Down, MonitorAt
<1> QED
  BY <1>1, <1>2, <1>3, <1>4 DEF SInv

----------------------------------------------------------------------------
(* The steps of the normal case and of the view change, as far as the      *)
(* other variables are concerned.                                          *)

\* Who is down does nothing and stays down, and who is not does not fall asleep.
DownRest ==
  \A s \in Replicas :
    /\ Down(s) => UNCHANGED <<curStatus[s], view[s], lockedBlock[s]>> /\ MonitorsRest(s)'
    /\ ~Down(s) => ~Down(s)'

Stored ==
  \/ UNCHANGED <<store, view, lockedBlock, committedBlocks>>
  \/ \E lockers \in SUBSET { s \in Replicas : ~Down(s) } :
       /\ WriteThrough(lockers)
       /\ \A s \in Replicas \ lockers : UNCHANGED lockedBlock[s]

ProtocolEffect ==
  /\ Grown /\ BlockInv'
  /\ DownRest
  /\ \A m \in net' \ net : /\ m.type \in ProtocolTypes
                           /\ m.type # "TQC" => m.src \in Replicas /\ ~Down(m.src)
  /\ \A m \in net \ net' : m.type \in ProtocolTypes
  /\ UNCHANGED <<sleepProc, recVars, before>>
  /\ Stored

\* A replica that is not down acts.
LEMMA OneActs ==
  ASSUME SInv, NEW r \in Replicas, ~Down(r),
         curStatus' \in [Replicas -> Status],
         curStatus'[r] \in {"READY", "PROCESSING", "VIEWCHANGE"},
         \A s \in Replicas \ {r} :
           UNCHANGED <<curStatus[s], view[s], lockedBlock[s], monitor[s]>>
  PROVE  DownRest
BY DEF DownRest, Down, MonitorsRest, SInv, Phases, MonitorAt

LEMMA MonitorEffect ==
  ASSUME SInv, NEW r \in Replicas, NEW v \in Views, SleepyMonitor(r, v)
  PROVE  ProtocolEffect
<1>1. Grown /\ BlockInv'
  BY VCMonitorStep DEF SleepyMonitor, SInv
<1>2. RequestMonitor(r, v) /\ UNCHANGED sleepVars
  BY DEF SleepyMonitor
<1>3. Stored /\ UNCHANGED <<sleepProc, recVars, before>>
  BY <1>2 DEF Stored, sleepVars, RequestMonitor, MonitorStart, MonitorCheckView,
              MonitorCheckStatus, MonitorClaim, MonitorPropose, chainVars
<1>4. PICK q \in MonitorPoints : monitor' = [monitor EXCEPT ![r][v] = q]
  BY <1>2 DEF RequestMonitor, MonitorStart, MonitorCheckView, MonitorCheckStatus,
              MonitorClaim, MonitorPropose, MonitorGoto, MonitorPoints
<1>5. \A s \in Replicas, u \in Views :
        monitor'[s][u] = IF s = r /\ u = v THEN q ELSE monitor[s][u]
  BY <1>4 DEF SInv, BlockInv, VTypes, NormalTypes
<1>6. UNCHANGED <<view, lockedBlock>>
  BY <1>2 DEF RequestMonitor, MonitorStart, MonitorCheckView, MonitorCheckStatus,
              MonitorClaim, MonitorPropose, chainVars
<1>7. CASE MonitorClaim(r, v) \/ MonitorPropose(r, v)
  <2>1. ~Down(r)
    BY <1>7 DEF MonitorClaim, MonitorPropose, SInv, Phases, MonitorsRest
  <2>2. /\ curStatus' \in {curStatus, [curStatus EXCEPT ![r] = "PROCESSING"]}
        /\ net \subseteq net'
        /\ \A m \in net' \ net : m.type = "QC" /\ m.src = r
    BY <1>7 DEF MonitorClaim, MonitorPropose, StartHotStuff, Proposal
  <2>3. \A s \in Replicas : \/ curStatus'[s] = curStatus[s]
                            \/ s = r /\ curStatus'[s] = "PROCESSING"
    BY <2>2 DEF SInv, BlockInv, VTypes, NormalTypes
  <2>4. DownRest
    BY <2>1, <2>3, <1>5, <1>6 DEF DownRest, Down, MonitorsRest, MonitorAt, SInv, Phases
  <2> QED
    BY <2>1, <2>2, <2>4, <1>1, <1>3 DEF ProtocolEffect, ProtocolTypes
<1>8. CASE MonitorStart(r, v) \/ MonitorCheckView(r, v) \/ MonitorCheckStatus(r, v)
  <2>1. UNCHANGED <<curStatus, net>>
    BY <1>8 DEF MonitorStart, MonitorCheckView, MonitorCheckStatus
  <2>2. Down(r) => monitor'[r][v] \notin {"claim", "propose"}
    <3>1. Down(r) => ~MayPropose(r)
      BY DEF Down, MayPropose
    <3>2. \/ monitor' = [monitor EXCEPT ![r][v] = "top"]
          \/ monitor' = [monitor EXCEPT ![r][v] = "off"]
          \/ monitor' = [monitor EXCEPT ![r][v] = "gate"]
          \/ ~Down(r)
      BY <1>8, <3>1 DEF MonitorStart, MonitorCheckView, MonitorCheckStatus, MonitorGoto
    <3> QED
      BY <3>2 DEF SInv, BlockInv, VTypes, NormalTypes
  <2>3. DownRest
    BY <2>1, <2>2, <1>5, <1>6 DEF DownRest, Down, MonitorsRest, MonitorAt, SInv, Phases
  <2> QED
    BY <2>1, <2>3, <1>1, <1>3 DEF ProtocolEffect
<1> QED
  BY <1>2, <1>7, <1>8 DEF RequestMonitor

LEMMA TimeoutEffect ==
  ASSUME SInv, NEW r \in Replicas, NEW v \in Views, SleepyTimeout(r, v)
  PROVE  ProtocolEffect
<1>1. Grown /\ BlockInv'
  BY TimeoutPersistentStep, TimeoutInMemoryStep DEF SleepyTimeout, TimeoutHandler, SInv
<1>2. ~Down(r) /\ UNCHANGED <<sleepProc, recVars, before>> /\ WriteThrough({})
  BY DEF SleepyTimeout, TimersRun
<1>3. /\ curStatus' \in {[curStatus EXCEPT ![r] = "READY"],
                         [curStatus EXCEPT ![r] = "VIEWCHANGE"]}
      /\ view' \in {view, [view EXCEPT ![r] = v + 1]}
      /\ UNCHANGED <<lockedBlock, monitor>>
  BY DEF SleepyTimeout, TimeoutHandler, TimeoutPersistent, TimeoutInMemory,
         StartViewChange, chainVars
<1>4. /\ net \subseteq net'
      /\ \A m \in net' \ net : m.type \in {"VIEWCHANGE", "TIMEOUT"} /\ m.src = r
  BY DEF SleepyTimeout, TimeoutHandler, TimeoutPersistent, TimeoutInMemory,
         StartViewChange, ViewChangeMsg, TimeoutMsg
<1>6. Stored
  BY <1>2, <1>3 DEF Stored
<1>5. DownRest
  <2>1. /\ curStatus' \in [Replicas -> Status]
        /\ curStatus'[r] \in {"READY", "PROCESSING", "VIEWCHANGE"}
    BY <1>1, <1>3 DEF SInv, BlockInv, VTypes, NormalTypes
  <2>2. \A s \in Replicas \ {r} :
          UNCHANGED <<curStatus[s], view[s], lockedBlock[s], monitor[s]>>
    BY <1>3 DEF SInv, BlockInv, VTypes, NormalTypes
  <2> QED
    BY <2>1, <2>2, <1>2, OneActs
<1> QED
  BY <1>1, <1>2, <1>4, <1>5, <1>6 DEF ProtocolEffect, ProtocolTypes

LEMMA RequestEffect ==
  ASSUME SInv, NEW r \in Replicas, NEW req \in Requests, SleepyRequest(r, req)
  PROVE  ProtocolEffect
<1>1. UNCHANGED vcVars /\ HandleRequest(r, req) /\ UNCHANGED sleepVars
  BY DEF SleepyRequest
<1>2. Next
  BY <1>1 DEF Next
<1>3. Grown /\ BlockInv'
  BY <1>1, <1>2, NormalStep DEF SInv
<1>4. DownRest
  BY <1>1 DEF HandleRequest, chainVars, DownRest, Down, MonitorsRest, MonitorAt, SInv, Phases
<1> QED
  BY <1>1, <1>3, <1>4 DEF HandleRequest, ProtocolEffect, Stored, sleepVars, chainVars

\* What is not meant for a replica that is down does not reach it.
LEMMA AdmittedUp ==
  ASSUME NEW m, Admits(m), m.type \notin {"ECHO1", "ECHO2", "TQC"}
  PROVE  ~Down(m.dst)
BY DEF Admits, Down

LEMMA NormalEffect ==
  ASSUME SInv, NEW m \in net, DispatchNormal(m)
  PROVE  ProtocolEffect
<1> DEFINE r == m.dst
<1>1. HandleQCByteMsg(m) /\ UNCHANGED vcVars /\ Next
  BY DEF DispatchNormal, Next
<1>2. Grown /\ BlockInv'
  BY <1>1, NormalStep DEF SInv
<1>3. m.type \in {"QC", "QCREP"} /\ r \in Replicas
  BY <1>1 DEF HandleQCByteMsg, IgnoreMsg, RejectProposal, HandleNormalMsg, DropVote,
              HandleNormalRepMsg, SInv, BlockInv, VTypes, MsgFields
<1>4. ~Down(r)
  BY <1>3, AdmittedUp DEF DispatchNormal
<1>5. /\ curStatus' \in {curStatus, [curStatus EXCEPT ![r] = "READY"]}
      /\ lockedBlock' \in {lockedBlock, [lockedBlock EXCEPT ![r] = curBlock[r]]}
      /\ UNCHANGED <<view, monitor>>
  BY <1>1 DEF HandleQCByteMsg, IgnoreMsg, RejectProposal, HandleNormalMsg, DropVote,
              HandleNormalRepMsg, SkipQCInfo, ProcessQCInfo, LockCurrent, chainVars
<1>6. /\ \A x \in net \ net' : x = m
      /\ \A x \in net' \ net : x.type = "QCREP" /\ x.src = r
  BY <1>1 DEF HandleQCByteMsg, IgnoreMsg, RejectProposal, HandleNormalMsg, DropVote,
              HandleNormalRepMsg, Vote
<1>7. DownRest
  <2>1. curStatus' \in [Replicas -> Status] /\ ~Down(r)'
    BY <1>2, <1>3, <1>4, <1>5 DEF BlockInv, VTypes, NormalTypes, SInv, Down
  <2>2. \A s \in Replicas \ {r} : UNCHANGED <<curStatus[s], view[s], lockedBlock[s], monitor[s]>>
    BY <1>5 DEF SInv, BlockInv, VTypes, NormalTypes
  <2>3. curStatus'[r] \in {"READY", "PROCESSING", "VIEWCHANGE"}
    BY <2>1, <1>3 DEF Status, Down
  <2> QED
    BY <2>1, <2>2, <2>3, <1>3, <1>4, OneActs
<1>8. Stored
  <2>1. ~Locks(m) => UNCHANGED lockedBlock
    BY <1>1 DEF HandleQCByteMsg, IgnoreMsg, RejectProposal, HandleNormalMsg, DropVote,
                HandleNormalRepMsg, SkipQCInfo, ProcessQCInfo, Locks, chainVars
  <2>2. WriteThrough(IF Locks(m) THEN {r} ELSE {})
    BY DEF DispatchNormal
  <2>3. CASE Locks(m)
    <3>1. WriteThrough({r})
      BY <2>2, <2>3
    <3>2. \A s \in Replicas \ {r} : UNCHANGED lockedBlock[s]
      BY <1>5 DEF SInv, BlockInv, VTypes, NormalTypes
    <3> QED
      BY <1>3, <1>4, <3>1, <3>2 DEF Stored
  <2>4. CASE ~Locks(m)
    <3>1. WriteThrough({})
      BY <2>2, <2>4
    <3> QED
      BY <2>1, <2>4, <3>1 DEF Stored
  <2> QED
    BY <2>3, <2>4
<1> QED
  BY <1>2, <1>3, <1>4, <1>6, <1>7, <1>8 DEF ProtocolEffect, ProtocolTypes, DispatchNormal

LEMMA ViewChangeEffect ==
  ASSUME SInv, NEW m \in net, DispatchVC(m)
  PROVE  ProtocolEffect
<1> DEFINE r == m.dst
<1>1. Grown /\ BlockInv'
  BY VCMsgStep DEF DispatchVC, SInv
<1>2. /\ m.type \in {"TIMEOUT", "TQC", "VIEWCHANGE"} /\ r \in Replicas
      /\ UNCHANGED <<sleepProc, recVars, before>> /\ Stored
  <2>1. UNCHANGED lockedBlock /\ WriteThrough({})
    BY DEF DispatchVC, HandleVCMsg, IgnoreVCMsg, HandleTimeoutMsg, HandleTQCMsg,
           HandleQCVCMessage, StartViewChange, chainVars
  <2>2. Stored
    BY <2>1 DEF Stored
  <2> QED
    BY <2>2 DEF DispatchVC, HandleVCMsg, IgnoreVCMsg, HandleTimeoutMsg, HandleTQCMsg,
                HandleQCVCMessage, SInv, BlockInv, VTypes, MsgFields
<1>3. CASE Down(r)
  <2>1. m.type = "TQC" /\ curStatus[r] = "RECOVERING"
    BY <1>2, <1>3, AdmittedUp DEF DispatchVC, Admits, Down
  <2>2. IgnoreVCMsg(m)
    BY <2>1 DEF DispatchVC, HandleVCMsg, HandleTimeoutMsg, HandleTQCMsg, HandleQCVCMessage
  <2>3. DownRest
    BY <2>2 DEF IgnoreVCMsg, chainVars, DownRest, Down, MonitorsRest, MonitorAt, SInv, Phases
  <2> QED
    BY <2>2, <2>3, <1>1, <1>2 DEF ProtocolEffect, IgnoreVCMsg, ProtocolTypes
<1>4. CASE ~Down(r)
  <2>1. /\ curStatus' \in {curStatus, [curStatus EXCEPT ![r] = "READY"],
                           [curStatus EXCEPT ![r] = "VIEWCHANGE"]}
        /\ \E v : view' \in {view, [view EXCEPT ![r] = v]}
        /\ \E v : monitor' \in {monitor, [monitor EXCEPT ![r][v] = "wait"]}
        /\ UNCHANGED lockedBlock
    BY DEF DispatchVC, HandleVCMsg, IgnoreVCMsg, HandleTimeoutMsg, HandleTQCMsg,
           HandleQCVCMessage, StartViewChange, MonitorGoto, chainVars
  <2>2. /\ \A x \in net \ net' : x = m
        /\ \A x \in net' \ net : x.type = "TQC" \/ (x.type = "VIEWCHANGE" /\ x.src = r)
    <3>1. CASE HandleTQCMsg(m)
      <4>1. m \in TQCMsgs
        BY <3>1 DEF HandleTQCMsg, SInv, BlockInv, VTypes, MsgFields
      <4>2. \A d \in Replicas : [m EXCEPT !.dst = d].type = "TQC"
        BY <3>1, <4>1 DEF HandleTQCMsg, TQCMsgs
      <4>3. \A d, v, c : ViewChangeMsg(r, d, v, c).type = "VIEWCHANGE"
                         /\ ViewChangeMsg(r, d, v, c).src = r
        BY DEF ViewChangeMsg
      <4> DEFINE forwarded == IF m.view \in tqcPrepared[r] THEN {}
                              ELSE { [m EXCEPT !.dst = d] : d \in Replicas \ {r} }
                 msg == ViewChangeMsg(r, LeaderID(m.view + 1), m.view + 1, curBlock[r])
      <4>4. net' = ((net \ {m}) \cup forwarded) \cup {msg}
        BY <3>1 DEF HandleTQCMsg, StartViewChange
      <4>5. \A x \in forwarded : x.type = "TQC"
        BY <4>2
      <4>6. msg.type = "VIEWCHANGE" /\ msg.src = r
        BY <4>3
      <4> HIDE DEF forwarded, msg
      <4> QED
        BY <4>4, <4>5, <4>6
    <3>2. CASE HandleTimeoutMsg(m)
      BY <3>2 DEF HandleTimeoutMsg, TQCMsg
    <3>3. CASE IgnoreVCMsg(m) \/ HandleQCVCMessage(m)
      BY <3>3 DEF IgnoreVCMsg, HandleQCVCMessage
    <3> QED
      BY <3>1, <3>2, <3>3 DEF DispatchVC, HandleVCMsg
  <2>3. DownRest
    <3>1. curStatus' \in [Replicas -> Status] /\ ~Down(r)'
      BY <1>1, <1>2, <1>4, <2>1 DEF BlockInv, VTypes, NormalTypes, SInv, Down
    <3>2. \A s \in Replicas \ {r} : UNCHANGED <<curStatus[s], view[s], lockedBlock[s], monitor[s]>>
      BY <2>1 DEF SInv, BlockInv, VTypes, NormalTypes
    <3>3. curStatus'[r] \in {"READY", "PROCESSING", "VIEWCHANGE"}
      BY <3>1, <1>2 DEF Status, Down
    <3> QED
      BY <3>1, <3>2, <3>3, <1>2, <1>4, OneActs
  <2> QED
    BY <1>1, <1>2, <1>4, <2>2, <2>3 DEF ProtocolEffect, ProtocolTypes
<1> QED
  BY <1>3, <1>4

LEMMA StoreKept ==
  ASSUME SInv, Grown, BlockInv', Stored
  PROVE  StoreTypes' /\ StoreBacked'
<1>0. BackedIn(NoBlock, receivedBlocksSet')
  BY DEF NoBlock, BackedIn
<1>1. \A s \in Replicas :
        /\ store[s] \in StoredValues
        /\ BackedIn(store[s].lockedBlock, receivedBlocksSet')
        /\ BackedAll(store[s].committedBlocks, receivedBlocksSet')
  <2> SUFFICES ASSUME NEW s \in Replicas
               PROVE  /\ BackedIn(store[s].lockedBlock, receivedBlocksSet')
                      /\ BackedAll(store[s].committedBlocks, receivedBlocksSet')
    BY DEF SInv, SleepTypes, StoreTypes
  <2>1. /\ store[s].lockedBlock \in Certs \cup {NoBlock}
        /\ store[s].committedBlocks \in CommittedCerts
        /\ BackedIn(store[s].lockedBlock, receivedBlocksSet)
        /\ BackedAll(store[s].committedBlocks, receivedBlocksSet)
    BY DEF SInv, SleepTypes, StoreTypes, StoredValues, SleepBacked, StoreBacked, Backed
  <2>2. BackedIn(store[s].lockedBlock, receivedBlocksSet')
    BY <1>0, <2>1, BackedMore DEF SInv, BlockInv
  <2>3. \A h \in Heights : store[s].committedBlocks[h] # NoBlock =>
          BackedIn(store[s].committedBlocks[h], receivedBlocksSet')
    BY <2>1, BackedMore DEF SInv, BlockInv, BackedAll, CommittedCerts
  <2> QED
    BY <2>2, <2>3 DEF BackedAll
<1>2. \A s \in Replicas :
        /\ view'[s] \in Views /\ lockedBlock'[s] \in Certs
        /\ committedBlocks'[s] \in CommittedCerts
        /\ BackedIn(lockedBlock'[s], receivedBlocksSet')
        /\ BackedAll(committedBlocks'[s], receivedBlocksSet')
  BY DEF BlockInv, VTypes, NormalTypes, AllBacked, Backed, BackedAll, CommittedCerts,
         Committed
<1>3. \A s \in Replicas :
        /\ store'[s] \in StoredValues
        /\ BackedIn(store'[s].lockedBlock, receivedBlocksSet')
        /\ BackedAll(store'[s].committedBlocks, receivedBlocksSet')
  <2>1. CASE store' = store
    BY <2>1, <1>1
  <2>2. CASE store' # store
    <3>1. PICK lockers \in SUBSET Replicas : WriteThrough(lockers)
      BY <2>2 DEF Stored
    <3> SUFFICES ASSUME NEW s \in Replicas
                 PROVE  /\ store'[s] \in StoredValues
                        /\ BackedIn(store'[s].lockedBlock, receivedBlocksSet')
                        /\ BackedAll(store'[s].committedBlocks, receivedBlocksSet')
      OBVIOUS
    <3> DEFINE v == IF view'[s] = view[s] THEN store[s].view ELSE view'[s]
               l == IF s \in lockers THEN lockedBlock'[s] ELSE store[s].lockedBlock
               c == IF committedBlocks'[s] = committedBlocks[s] THEN store[s].committedBlocks
                    ELSE committedBlocks'[s]
    <3>2. store'[s] = [view |-> v, lockedBlock |-> l, committedBlocks |-> c]
      BY <2>2, <3>1 DEF WriteThrough
    <3>3. v \in Views /\ l \in Certs \cup {NoBlock} /\ c \in CommittedCerts
      BY <1>1, <1>2 DEF StoredValues
    <3>4. BackedIn(l, receivedBlocksSet') /\ BackedAll(c, receivedBlocksSet')
      BY <1>1, <1>2
    <3> HIDE DEF v, l, c
    <3> QED
      BY <3>2, <3>3, <3>4 DEF StoredValues
  <2> QED
    BY <2>1, <2>2
<1>4. store' = [s \in Replicas |-> store'[s]]
  BY DEF Stored, WriteThrough, SInv, SleepTypes, StoreTypes
<1> QED
  BY <1>3, <1>4 DEF StoreTypes, StoreBacked, Backed

\* Answers on their way are as good as they were.
LEMMA EchoesKept ==
  ASSUME SInv, Grown, NEW m \in net
  PROVE  BackedEcho(m)'
<1> SUFFICES ASSUME m.type = "ECHO2"
             PROVE  /\ BackedIn(m.qc, receivedBlocksSet')
                    /\ BackedIn(m.lqc, receivedBlocksSet')
                    /\ BackedAll(m.com, receivedBlocksSet')
  BY DEF BackedEcho, Backed
<1>1. /\ m.qc \in Certs /\ m.lqc \in Certs /\ m.com \in CommittedCerts
      /\ BackedIn(m.qc, receivedBlocksSet) /\ BackedIn(m.lqc, receivedBlocksSet)
      /\ BackedAll(m.com, receivedBlocksSet)
  BY DEF SInv, SleepTypes, RecMsgFields, SleepBacked, BackedEcho, Backed
<1>2. \A h \in Heights : m.com[h] # NoBlock => BackedIn(m.com[h], receivedBlocksSet')
  BY <1>1, BackedMore DEF SInv, BlockInv, BackedAll, CommittedCerts
<1> QED
  BY <1>1, <1>2, BackedMore DEF SInv, BlockInv, BackedAll

LEMMA ProtocolKeepsSInv ==
  ASSUME SInv, ProtocolEffect
  PROVE  SInv'
<1>1. /\ Grown /\ BlockInv' /\ DownRest /\ Stored
      /\ UNCHANGED <<sleepProc, reqHash, hView, recBuffer, recPrepared, spinning, before>>
      /\ \A m \in net' \ net : m.type \in ProtocolTypes
  <2>1. UNCHANGED <<sleepProc, recVars, before>>
    BY Zenon DEF ProtocolEffect
  <2>2. UNCHANGED <<sleepProc, reqHash, hView, recBuffer, recPrepared, spinning, before>>
    BY <2>1 DEF recVars
  <2>3. Grown /\ BlockInv' /\ DownRest /\ Stored
    <3>1. Grown /\ BlockInv'
      BY Zenon DEF ProtocolEffect
    <3>2. DownRest
      BY Zenon DEF ProtocolEffect
    <3>3. Stored
      BY Zenon DEF ProtocolEffect
    <3> QED
      BY <3>1, <3>2, <3>3
  <2>4. \A m \in net' \ net : m.type \in ProtocolTypes
    BY DEF ProtocolEffect
  <2> QED
    BY <2>2, <2>3, <2>4
<1>2. SleepTypes'
  <2>1. \A m \in net' : RecMsgFields(m)
    <3>1. \A m \in net' \ net : RecMsgFields(m)
      BY <1>1 DEF RecMsgFields, ProtocolTypes
    <3> QED
      BY <3>1 DEF SInv, SleepTypes
  <2>2. RecTypes'
    BY <1>1 DEF SInv, SleepTypes, RecTypes
  <2> QED
    BY <2>1, <2>2, <1>1, StoreKept DEF SleepTypes
<1>3. SleepBacked'
  <2>1. \A m \in net' \ net : BackedEcho(m)'
    BY <1>1 DEF BackedEcho, ProtocolTypes
  <2> QED
    BY <2>1, <1>1, StoreKept, EchoesKept DEF SleepBacked
<1>4. Phases'
  BY <1>1 DEF SInv, Phases, PhaseOf, MonitorsRest, DownRest, Down
<1> QED
  BY <1>1, <1>2, <1>3, <1>4 DEF SInv

----------------------------------------------------------------------------
(* The steps of sleep and recovery that leave blocks alone.                *)

LEMMA QuietBlocks ==
  ASSUME BlockInv,
         UNCHANGED <<view, Sequence, chainVars, receivedBlocksSet, votes, queue, vcVars>>,
         curStatus' \in [Replicas -> Status],
         monitor' \in [Replicas -> [Views -> MonitorPoints]],
         timers' \in [Replicas -> SUBSET Views],
         \A m \in net' \ net : MsgFields(m) /\ m.type \notin ProtocolTypes
  PROVE  BlockInv'
<1>1. VTypes'
  BY DEF BlockInv, VTypes, NormalTypes, BufferTypes, chainVars, vcVars
<1>2. Grown
  BY DEF Grown, BlockInv, VTypes, NormalTypes, Certs, Views, chainVars
<1>3. \A m \in net' \ net : BackedMsg(m)
  BY DEF BackedMsg, ProtocolTypes
<1>4. AllBacked' /\ LockBelowBlock'
  BY <1>1, <1>2, <1>3, SameBlocks DEF chainVars
<1> QED
  BY <1>1, <1>4 DEF BlockInv

LEMMA QuietSInv ==
  ASSUME SInv,
         UNCHANGED <<view, Sequence, chainVars, receivedBlocksSet, votes, queue, vcVars,
                     store>>,
         curStatus' \in [Replicas -> Status],
         monitor' \in [Replicas -> [Views -> MonitorPoints]],
         timers' \in [Replicas -> SUBSET Views],
         \A m \in net' \ net : /\ MsgFields(m) /\ m.type \notin ProtocolTypes
                               /\ RecMsgFields(m) /\ BackedEcho(m),
         RecTypes', Phases'
  PROVE  SInv'
<1>1. BlockInv'
  BY QuietBlocks DEF SInv
<1>2. SleepTypes'
  BY DEF SInv, SleepTypes, StoreTypes
<1>3. SleepBacked'
  BY DEF SInv, SleepBacked, StoreBacked, BackedEcho, Backed
<1> QED
  BY <1>1, <1>2, <1>3 DEF SInv

\* A replica that does not move, but for monitors that end.
LEMMA PhaseStays ==
  ASSUME SInv, NEW s \in Replicas,
         curStatus'[s] = curStatus[s], sleepProc'[s] = sleepProc[s],
         reqHash'[s] = reqHash[s], view'[s] = view[s],
         UNCHANGED <<recPrepared, spinning, before>>,
         \A v \in Views : monitor'[s][v] \in {monitor[s][v], "off"}
  PROVE  PhaseOf(s)' /\ MonitorsRest(s)'
<1>1. PhaseOf(s)'
  BY DEF SInv, Phases, PhaseOf, Down
<1>2. MonitorsRest(s)'
  BY DEF SInv, Phases, MonitorsRest, MonitorAt, Down
<1> QED
  BY <1>1, <1>2

\* Only the network, or only timers, change.
LEMMA QuietNet ==
  ASSUME SInv,
         UNCHANGED <<view, curStatus, Sequence, chainVars, receivedBlocksSet, votes, queue,
                     monitor, vcVars, sleepVars>>,
         timers' \in [Replicas -> SUBSET Views],
         \A m \in net' \ net : /\ MsgFields(m) /\ m.type \notin ProtocolTypes
                               /\ RecMsgFields(m) /\ BackedEcho(m)
  PROVE  SInv'
<1>1. UNCHANGED <<sleepProc, reqHash, hView, recBuffer, recPrepared, spinning, store, before>>
  BY DEF sleepVars, recVars
<1>2. RecTypes'
  BY <1>1 DEF SInv, SleepTypes, RecTypes
<1>3. Phases'
  BY <1>1 DEF SInv, Phases, PhaseOf, MonitorsRest, MonitorAt, Down
<1> QED
  BY <1>1, <1>2, <1>3, QuietSInv DEF SInv, BlockInv, VTypes, NormalTypes

LEMMA DropKeepsSInv ==
  ASSUME SInv, NEW m \in net,
         DropMsg(m) \/ IgnoreEcho1(m) \/ HandleRec1Msg(m) \/ HandleRec2Msg(m)
  PROVE  SInv'
<1> USE DEF SInv, BlockInv, VTypes, NormalTypes
<1>1. timers' \in [Replicas -> SUBSET Views]
  BY DEF DropMsg, IgnoreEcho1, HandleRec1Msg, HandleRec2Msg
<1>2. m.src \in Replicas /\ m.dst \in Replicas
  BY DEF MsgFields
<1>3. CASE DropMsg(m) \/ IgnoreEcho1(m)
  BY <1>1, <1>3, QuietNet DEF DropMsg, IgnoreEcho1, voteVars, clientVars
<1>4. CASE HandleRec1Msg(m)
  <2> DEFINE v   == view[m.dst] - 1
             ids == IF v \in Views THEN timeoutBuffer[m.dst][v] ELSE {}
             x   == Echo1Msg(m.dst, m.src, v, ids)
  <2>1. net' = (net \ {m}) \cup {x}
    BY <1>4 DEF HandleRec1Msg
  <2>2. v \in -1..MaxView
    BY <1>2, ConstantsAssumption, SMTT(30) DEF Views
  <2>3. /\ x.type = "ECHO1" /\ x.src = m.dst /\ x.dst = m.src /\ x.hash = "REC1"
        /\ x.view = v
    BY DEF Echo1Msg
  <2> HIDE DEF v, ids, x
  <2>4. MsgFields(x) /\ x.type \notin ProtocolTypes /\ RecMsgFields(x) /\ BackedEcho(x)
    BY <1>2, <2>2, <2>3 DEF MsgFields, RecMsgFields, BackedEcho, ProtocolTypes
  <2>5. UNCHANGED <<view, curStatus, Sequence, chainVars, receivedBlocksSet, votes, queue,
                    monitor, vcVars, sleepVars>>
    BY <1>4 DEF HandleRec1Msg, voteVars, clientVars
  <2> QED
    BY <1>1, <2>1, <2>4, <2>5, QuietNet
<1>5. CASE HandleRec2Msg(m)
  <2> DEFINE r == m.dst
             x == Echo2Msg(r, m.src, curBlock[r], lockedBlock[r], committedBlocks[r])
  <2>1. net' = (net \ {m}) \cup {x}
    BY <1>5 DEF HandleRec2Msg
  <2>2. /\ x.type = "ECHO2" /\ x.src = r /\ x.dst = m.src /\ x.hash = "REC2"
        /\ x.qc = curBlock[r] /\ x.lqc = lockedBlock[r] /\ x.com = committedBlocks[r]
    BY DEF Echo2Msg
  <2>3. MsgFields(x) /\ x.type \notin ProtocolTypes
    BY <1>2, <2>2 DEF MsgFields, ProtocolTypes
  <2>4. RecMsgFields(x)
    BY <1>2, <2>2 DEF RecMsgFields, CommittedCerts, LockBelowBlock, ProtocolTypes
  <2>5. BackedEcho(x)
    BY <1>2, <2>2 DEF BackedEcho, AllBacked, BackedAll, Backed, Committed
  <2>6. UNCHANGED <<view, curStatus, Sequence, chainVars, receivedBlocksSet, votes, queue,
                    monitor, vcVars, sleepVars>>
    BY <1>5 DEF HandleRec2Msg, voteVars, clientVars
  <2> HIDE DEF x
  <2> QED
    BY <1>1, <2>1, <2>3, <2>4, <2>5, <2>6, QuietNet
<1> QED
  BY <1>3, <1>4, <1>5

LEMMA TimerLostKeepsSInv ==
  ASSUME SInv, NEW r \in Replicas, NEW v \in Views, TimerLost(r, v)
  PROVE  SInv'
<1>1. timers' \in [Replicas -> SUBSET Views]
  BY DEF TimerLost, SInv, BlockInv, VTypes, NormalTypes
<1> QED
  BY <1>1, QuietNet DEF TimerLost, voteVars, clientVars

LEMMA MonitorSleepsKeepsSInv ==
  ASSUME SInv, NEW r \in Replicas, NEW v \in Views, MonitorSleeps(r, v)
  PROVE  SInv'
<1> USE DEF SInv, BlockInv, VTypes, NormalTypes
<1>1. /\ monitor' \in [Replicas -> [Views -> MonitorPoints]]
      /\ timers' \in [Replicas -> SUBSET Views] /\ curStatus' \in [Replicas -> Status]
      /\ \A s \in Replicas, w \in Views :
           monitor'[s][w] = monitor[s][w] \/ monitor'[s][w] = "off"
  BY DEF MonitorSleeps, MonitorGoto, MonitorPoints
<1>2. UNCHANGED <<sleepProc, reqHash, hView, recBuffer, recPrepared, spinning, store, before>>
  BY DEF MonitorSleeps, sleepVars, recVars
<1>3. RecTypes'
  BY <1>2 DEF SleepTypes, RecTypes
<1>4. UNCHANGED <<view, curStatus>>
  BY DEF MonitorSleeps
<1>5. Phases'
  <2>1. \A s \in Replicas : PhaseOf(s)' /\ MonitorsRest(s)'
    BY <1>1, <1>2, <1>4, PhaseStays
  <2> QED
    BY <2>1 DEF Phases
<1> QED
  BY <1>1, <1>2, <1>3, <1>5, QuietSInv DEF MonitorSleeps, voteVars, clientVars

LEMMA FallAsleepKeepsSInv ==
  ASSUME SInv, NEW r \in Replicas, FallAsleep(r)
  PROVE  SInv'
<1> USE DEF SInv, BlockInv, VTypes, NormalTypes
<1>1. UNCHANGED <<reqHash, hView, recBuffer, recPrepared, spinning, store, view, monitor>>
  BY DEF FallAsleep, recVars
<1>2. /\ curStatus' = [curStatus EXCEPT ![r] = "SLEEPING"]
      /\ sleepProc' = [sleepProc EXCEPT ![r] = "asleep"]
      /\ before' = [before EXCEPT ![r] = [view |-> view[r], lock |-> lockedBlock[r]]]
      /\ sleepProc[r] = "awake"
      /\ \A v \in Views : ~MonitorAt(r, v, "claim") /\ ~MonitorAt(r, v, "propose")
  BY DEF FallAsleep
<1>3. curStatus' \in [Replicas -> Status]
  BY <1>2 DEF Status
<1>4. RecTypes'
  BY <1>1, <1>2 DEF SleepTypes, RecTypes
<1>5. Phases'
  <2>1. \A s \in Replicas \ {r} :
          /\ curStatus'[s] = curStatus[s] /\ sleepProc'[s] = sleepProc[s]
          /\ before'[s] = before[s]
    BY <1>2 DEF SleepTypes, RecTypes
  <2>2. \A s \in Replicas \ {r} : PhaseOf(s)' /\ MonitorsRest(s)'
    BY <1>1, <2>1, ZenonT(60) DEF Phases, PhaseOf, MonitorsRest, MonitorAt, Down
  <2>3. /\ curStatus'[r] = "SLEEPING" /\ sleepProc'[r] = "asleep"
        /\ before'[r].view = view[r] /\ view[r] # -1
    BY <1>2 DEF SleepTypes, RecTypes, Views
  <2>4. PhaseOf(r)' /\ MonitorsRest(r)'
    BY <1>1, <1>2, <2>3 DEF Phases, PhaseOf, MonitorsRest, MonitorAt, Down
  <2> QED
    BY <2>2, <2>4 DEF Phases
<1> QED
  BY <1>1, <1>3, <1>4, <1>5, QuietSInv DEF FallAsleep, voteVars, clientVars

LEMMA RecoverKoala2KeepsSInv ==
  ASSUME SInv, NEW r \in Replicas, RecoverKoala2(r)
  PROVE  SInv'
<1> USE DEF SInv, BlockInv, VTypes, NormalTypes
<1>1. UNCHANGED <<recBuffer, recPrepared, spinning, store, before, view, monitor>>
  BY DEF RecoverKoala2
<1>2. /\ curStatus' = [curStatus EXCEPT ![r] = "RECOVERING"]
      /\ reqHash' = [reqHash EXCEPT ![r] = "REC1"]
      /\ sleepProc' = [sleepProc EXCEPT ![r] = "done"]
      /\ hView' = [hView EXCEPT ![r] = -2]
      /\ sleepProc[r] = "woken"
  BY DEF RecoverKoala2, StartsRecovery
<1>3. curStatus' \in [Replicas -> Status]
  BY <1>2 DEF Status
<1>4. RecTypes'
  BY <1>1, <1>2, ConstantsAssumption DEF SleepTypes, RecTypes, Requested
<1>5. Phases'
  <2>1. \A s \in Replicas \ {r} :
          /\ curStatus'[s] = curStatus[s] /\ sleepProc'[s] = sleepProc[s]
          /\ reqHash'[s] = reqHash[s]
    BY <1>2 DEF SleepTypes, RecTypes
  <2>2. \A s \in Replicas \ {r} : PhaseOf(s)' /\ MonitorsRest(s)'
    BY <1>1, <2>1, ZenonT(60) DEF Phases, PhaseOf, MonitorsRest, MonitorAt, Down
  <2>3. curStatus'[r] = "RECOVERING" /\ sleepProc'[r] = "done" /\ reqHash'[r] = "REC1"
    BY <1>2 DEF SleepTypes, RecTypes
  <2>4. PhaseOf(r)' /\ MonitorsRest(r)'
    BY <1>1, <1>2, <2>3 DEF Phases, PhaseOf, MonitorsRest, MonitorAt, Down
  <2> QED
    BY <2>2, <2>4 DEF Phases
<1>6. ASSUME NEW x \in net' \ net
      PROVE  /\ MsgFields(x) /\ x.type \notin ProtocolTypes
             /\ RecMsgFields(x) /\ BackedEcho(x)
  <2>1. x.type = "REC1" /\ x.src \in Replicas /\ x.dst \in Replicas
    BY <1>6 DEF RecoverKoala2, Rec1Msg, Others
  <2> QED
    BY <2>1 DEF MsgFields, ProtocolTypes, RecMsgFields, BackedEcho
<1> QED
  BY <1>1, <1>3, <1>4, <1>5, <1>6, QuietSInv DEF RecoverKoala2, voteVars, clientVars

LEMMA NoRecoveryKeepsSInv ==
  ASSUME SInv, NEW r \in Replicas, NoRecovery(r)
  PROVE  SInv'
<1> USE DEF SInv, BlockInv, VTypes, NormalTypes
<1>1. UNCHANGED <<recBuffer, recPrepared, spinning, store, before, view, net>>
  BY DEF NoRecovery
<1>2. /\ curStatus' = [curStatus EXCEPT ![r] = "READY"]
      /\ reqHash' = [reqHash EXCEPT ![r] = "none"]
      /\ sleepProc' = [sleepProc EXCEPT ![r] = "done"]
      /\ hView' = [hView EXCEPT ![r] = -2]
      /\ monitor' = [monitor EXCEPT ![r][0] = "wait"]
      /\ sleepProc[r] = "woken"
  BY DEF NoRecovery, StartsRecovery, MonitorGoto
<1>3. /\ curStatus' \in [Replicas -> Status]
      /\ monitor' \in [Replicas -> [Views -> MonitorPoints]]
  BY <1>2 DEF Status, MonitorPoints
<1>4. RecTypes'
  BY <1>1, <1>2, ConstantsAssumption DEF SleepTypes, RecTypes, Requested
<1>5. Phases'
  <2>1. \A s \in Replicas \ {r} :
          /\ curStatus'[s] = curStatus[s] /\ sleepProc'[s] = sleepProc[s]
          /\ reqHash'[s] = reqHash[s] /\ monitor'[s] = monitor[s]
    BY <1>2 DEF SleepTypes, RecTypes
  <2>2. \A s \in Replicas \ {r} : PhaseOf(s)' /\ MonitorsRest(s)'
    BY <1>1, <2>1, PhaseStays
  <2>3. curStatus'[r] = "READY" /\ sleepProc'[r] = "done"
    BY <1>2 DEF SleepTypes, RecTypes
  <2>4. PhaseOf(r)' /\ MonitorsRest(r)'
    BY <1>1, <1>2, <2>3 DEF Phases, PhaseOf, MonitorsRest, MonitorAt, Down
  <2> QED
    BY <2>2, <2>4 DEF Phases
<1> QED
  BY <1>1, <1>3, <1>4, <1>5, QuietSInv DEF NoRecovery, voteVars, clientVars

----------------------------------------------------------------------------
(* The steps of sleep and recovery that touch blocks or views.             *)

LEMMA MovedBlocks ==
  ASSUME BlockInv, UNCHANGED receivedBlocksSet, NormalTypes', BufferTypes',
         \A s \in Replicas : /\ votes'[s] \subseteq votes[s]
                             /\ Backed(curBlock'[s]) /\ Backed(lockedBlock'[s])
                             /\ BackedAll(committedBlocks'[s], receivedBlocksSet)
                             /\ lockedBlock'[s].height <= curBlock'[s].height,
         \A m \in net' \ net : MsgFields(m) /\ BackedMsg(m)
  PROVE  BlockInv'
<1>1. VTypes'
  BY DEF BlockInv, VTypes
<1>2. \A s \in Replicas, h \in Heights :
        committedBlocks'[s][h] # NoBlock => Backed(committedBlocks'[s][h])
  BY DEF BackedAll, Backed
<1>3. \A m \in net' : BackedMsg(m)
  BY DEF BlockInv, AllBacked
<1>4. \A s \in Replicas : \A x \in votes'[s] : x.hash \in receivedBlocksSet[x.id]
  BY DEF BlockInv, AllBacked, Collected
<1>5. AllBacked'
  BY <1>2, <1>3, <1>4 DEF AllBacked, Collected, Committed, Backed, BackedMsg
<1> QED
  BY <1>1, <1>5 DEF BlockInv, LockBelowBlock

\* With the replica's own variables, nothing is asked of what stays in the network.
LEMMA MovedSInv ==
  ASSUME SInv, UNCHANGED receivedBlocksSet, BlockInv', RecTypes', StoreTypes', StoreBacked',
         Phases',
         \A m \in net' \ net : RecMsgFields(m) /\ m.type # "ECHO2"
  PROVE  SInv'
<1>1. SleepTypes'
  BY DEF SInv, SleepTypes
<1>2. SleepBacked'
  BY DEF SInv, SleepBacked, BackedEcho, Backed
<1> QED
  BY <1>1, <1>2 DEF SInv

\* The database is told of a view.
LEMMA StoreRewritten ==
  ASSUME SInv, UNCHANGED receivedBlocksSet, NEW r \in Replicas, NEW v \in Views,
         store' \in {store, [store EXCEPT ![r].view = v]}
  PROVE  StoreTypes' /\ StoreBacked'
<1>1. \A s \in Replicas : store[s] \in StoredValues
  BY DEF SInv, SleepTypes, StoreTypes
<1>2. \A s \in Replicas :
        /\ store'[s] \in StoredValues
        /\ store'[s].lockedBlock = store[s].lockedBlock
        /\ store'[s].committedBlocks = store[s].committedBlocks
  <2>1. CASE store' = store
    BY <1>1, <2>1
  <2>2. CASE store' = [store EXCEPT ![r].view = v]
    <3>1. \A s \in Replicas : store'[s] = IF s = r THEN [store[s] EXCEPT !.view = v]
                                        ELSE store[s]
      BY <2>2 DEF SInv, SleepTypes, StoreTypes
    <3> QED
      BY <1>1, <3>1 DEF StoredValues
  <2> QED
    BY <2>1, <2>2
<1>3. StoreTypes'
  <2>1. store' = [s \in Replicas |-> store'[s]]
    BY DEF SInv, SleepTypes, StoreTypes
  <2> QED
    BY <1>2, <2>1 DEF StoreTypes
<1>4. StoreBacked'
  BY <1>2 DEF SInv, SleepBacked, StoreBacked, Backed
<1> QED
  BY <1>3, <1>4

LEMMA HandleEcho1KeepsSInv ==
  ASSUME SInv, NEW m \in net, HandleEcho1Msg(m)
  PROVE  SInv'
<1> DEFINE r == m.dst
<1> USE DEF SInv, BlockInv, VTypes, NormalTypes
<1>1. UNCHANGED <<sleepProc, reqHash, store, before, view, monitor, curStatus, timers>>
  BY DEF HandleEcho1Msg
<1>2. r \in Replicas /\ m.view \in -1..MaxView /\ m.type = "ECHO1" /\ m.hash = "REC1"
  BY DEF HandleEcho1Msg, MsgFields, SleepTypes, RecMsgFields
<1>3. /\ hView' = [hView EXCEPT ![r] = Larger(hView[r], m.view)]
      /\ recBuffer' = [recBuffer EXCEPT ![r]["REC1"] = recBuffer[r]["REC1"] + 1]
      /\ curStatus[r] = "RECOVERING" /\ reqHash[r] = "REC1"
      /\ \/ UNCHANGED <<recPrepared, spinning>>
         \/ /\ recPrepared' = [recPrepared EXCEPT ![r] = recPrepared[r] \cup {"REC1"}]
            /\ spinning' = [spinning EXCEPT ![r] = TRUE]
  BY <1>2 DEF HandleEcho1Msg, Unexpected
<1>4. hView' \in [Replicas -> -2..MaxView] /\ recBuffer' \in [Replicas -> [Requested -> Nat]]
  <2>1. Larger(hView[r], m.view) \in -2..MaxView
    BY <1>2 DEF SleepTypes, RecTypes, Larger
  <2>2. recBuffer[r]["REC1"] + 1 \in Nat
    BY <1>2 DEF SleepTypes, RecTypes, Requested
  <2>3. hView' \in [Replicas -> -2..MaxView]
    BY <1>3, <2>1 DEF SleepTypes, RecTypes
  <2>4. recBuffer' \in [Replicas -> [Requested -> Nat]]
    BY <1>3, <2>2 DEF SleepTypes, RecTypes
  <2> QED
    BY <2>3, <2>4
<1>5. /\ recPrepared' \in [Replicas -> SUBSET Requested]
      /\ spinning' \in [Replicas -> BOOLEAN]
  <2>1. recPrepared \in [Replicas -> SUBSET Requested] /\ spinning \in [Replicas -> BOOLEAN]
    BY DEF SleepTypes, RecTypes
  <2> HIDE DEF SInv
  <2>2. recPrepared' \in [Replicas -> SUBSET Requested]
    BY <1>3, <2>1 DEF Requested
  <2>3. spinning' \in [Replicas -> BOOLEAN]
    BY <1>3, <2>1
  <2> QED
    BY <2>2, <2>3
<1>6. RecTypes'
  BY <1>1, <1>4, <1>5 DEF SleepTypes, RecTypes
<1>7. Phases'
  <2>1. \A s \in Replicas : MonitorsRest(s)'
    BY <1>1 DEF Phases, MonitorsRest, MonitorAt, Down
  <2>2. \A s \in Replicas \ {r} : recPrepared'[s] = recPrepared[s] /\ spinning'[s] = spinning[s]
    BY <1>3 DEF SleepTypes, RecTypes
  <2>3. \A s \in Replicas \ {r} : PhaseOf(s)'
    BY <1>1, <2>2 DEF Phases, PhaseOf, Down
  <2>4. /\ spinning[r] => spinning'[r]
        /\ "REC1" \in recPrepared[r] => "REC1" \in recPrepared'[r]
        /\ spinning'[r] => "REC1" \in recPrepared'[r]
    BY <1>2, <1>3 DEF SleepTypes, RecTypes, Phases, PhaseOf
  <2>5. PhaseOf(r)
    BY <1>2 DEF Phases
  <2>6. sleepProc[r] = "done"
    BY <1>2, <1>3, <2>5 DEF PhaseOf, SleepTypes, RecTypes, Down
  <2>7. PhaseOf(r)'
    BY <1>1, <1>2, <1>3, <2>4, <2>5, <2>6 DEF PhaseOf, Down
  <2> QED
    BY <2>1, <2>3, <2>7 DEF Phases
<1> QED
  BY <1>1, <1>6, <1>7, QuietSInv DEF HandleEcho1Msg, voteVars, clientVars

LEMMA SendRec2KeepsSInv ==
  ASSUME SInv, NEW r \in Replicas, SendRec2(r)
  PROVE  SInv'
<1> USE DEF SInv, BlockInv, VTypes, NormalTypes
<1>1. UNCHANGED <<sleepProc, hView, recBuffer, recPrepared, store, before, view, monitor,
                  curStatus, timers>>
  BY DEF SendRec2
<1>2. /\ reqHash' = [reqHash EXCEPT ![r] = "REC2"]
      /\ spinning' = [spinning EXCEPT ![r] = FALSE]
      /\ spinning[r]
  BY DEF SendRec2
<1>3. RecTypes'
  BY <1>1, <1>2 DEF SleepTypes, RecTypes, Requested
<1>4. Phases'
  <2>1. \A s \in Replicas : MonitorsRest(s)'
    BY <1>1 DEF Phases, MonitorsRest, MonitorAt, Down
  <2>2. \A s \in Replicas :
          /\ s # r => reqHash'[s] = reqHash[s] /\ spinning'[s] = spinning[s]
          /\ s = r => reqHash'[s] = "REC2" /\ ~spinning'[s]
    BY <1>2 DEF SleepTypes, RecTypes
  <2>3. ASSUME NEW s \in Replicas PROVE PhaseOf(s)'
    <3>1. PhaseOf(s)
      BY DEF Phases
    <3> HIDE DEF SInv
    <3>2. CASE s = r
      <4>1. curStatus[r] = "RECOVERING" /\ sleepProc[r] # "ended"
        BY <1>2, <3>1, <3>2 DEF PhaseOf
      <4> QED
        BY <1>1, <1>2, <2>2, <3>1, <3>2, <4>1 DEF PhaseOf, Down
    <3>3. CASE s # r
      BY <1>1, <2>2, <3>1, <3>3 DEF PhaseOf, Down
    <3> QED
      BY <3>2, <3>3
  <2> QED
    BY <2>1, <2>3 DEF Phases
<1>5. ASSUME NEW x \in net' \ net
      PROVE  /\ MsgFields(x) /\ x.type \notin ProtocolTypes
             /\ RecMsgFields(x) /\ BackedEcho(x)
  <2>1. x.type = "REC2" /\ x.src \in Replicas /\ x.dst \in Replicas
    BY <1>5 DEF SendRec2, Rec2Msg, Others
  <2> QED
    BY <2>1 DEF MsgFields, ProtocolTypes, RecMsgFields, BackedEcho
<1> QED
  BY <1>1, <1>3, <1>4, <1>5, QuietSInv DEF SendRec2, voteVars, clientVars

LEMMA WakeUpKeepsSInv ==
  ASSUME SInv, NEW r \in Replicas, WakeUp(r)
  PROVE  SInv'
<1> USE DEF SInv, BlockInv, VTypes, NormalTypes, BufferTypes
<1>1. UNCHANGED <<curStatus, committedBlocks, receivedBlocksSet, queue, monitor, timers, net,
                  reqHash, hView, spinning, before>>
  BY DEF WakeUp, clientVars
<1>2. NormalTypes'
  BY <1>1, CertTypes DEF WakeUp
<1>3. BufferTypes'
  BY DEF WakeUp
<1>4. BlockInv'
  <2>1. Backed(EmptyBlock)
    BY DEF Backed, BackedIn, EmptyBlock
  <2>2. \A s \in Replicas : /\ votes'[s] \subseteq votes[s]
                            /\ curBlock'[s] = IF s = r THEN EmptyBlock ELSE curBlock[s]
                            /\ lockedBlock'[s] = IF s = r THEN EmptyBlock ELSE lockedBlock[s]
    BY DEF WakeUp
  <2>3. \A s \in Replicas : lockedBlock'[s].height <= curBlock'[s].height
    <3>1. \A s \in Replicas : lockedBlock[s].height <= curBlock[s].height
      BY DEF LockBelowBlock
    <3>2. EmptyBlock.height = 0
      BY DEF EmptyBlock
    <3> HIDE DEF SInv
    <3> QED
      BY <2>2, <3>1, <3>2
  <2>4. \A s \in Replicas : BackedAll(committedBlocks'[s], receivedBlocksSet)
    BY <1>1 DEF AllBacked, BackedAll, Backed, Committed
  <2>5. \A s \in Replicas : Backed(curBlock'[s]) /\ Backed(lockedBlock'[s])
    BY <2>1, <2>2 DEF AllBacked
  <2> QED
    BY <1>1, <1>2, <1>3, <2>2, <2>3, <2>4, <2>5, MovedBlocks
<1>5. /\ sleepProc' = [sleepProc EXCEPT ![r] = "woken"]
      /\ recBuffer' = [recBuffer EXCEPT ![r] = [q \in Requested |-> 0]]
      /\ recPrepared' = [recPrepared EXCEPT ![r] = {}]
      /\ store' \in {store, [store EXCEPT ![r].view = 0]}
      /\ sleepProc[r] = "asleep"
      /\ view' = [view EXCEPT ![r] = 0]
  BY DEF WakeUp, StoreAfterInit
<1>6. RecTypes'
  BY <1>1, <1>5 DEF SleepTypes, RecTypes
<1>7. StoreTypes' /\ StoreBacked'
  BY <1>1, <1>5, CertTypes, StoreRewritten
<1>8. Phases'
  <2>1. \A s \in Replicas : MonitorsRest(s)'
    BY <1>1 DEF Phases, MonitorsRest, MonitorAt, Down
  <2>2. \A s \in Replicas \ {r} : /\ sleepProc'[s] = sleepProc[s] /\ view'[s] = view[s]
                                  /\ recPrepared'[s] = recPrepared[s]
    BY <1>5 DEF SleepTypes, RecTypes
  <2>3. \A s \in Replicas \ {r} : PhaseOf(s)'
    BY <1>1, <2>2 DEF Phases, PhaseOf, Down
  <2>4. sleepProc'[r] = "woken" /\ recPrepared'[r] = {}
    BY <1>5 DEF SleepTypes, RecTypes
  <2>5. PhaseOf(r)'
    BY <1>1, <1>5, <2>4 DEF Phases, PhaseOf, Down
  <2> QED
    BY <2>1, <2>3, <2>5 DEF Phases
<1> QED
  BY <1>1, <1>4, <1>6, <1>7, <1>8, MovedSInv

LEMMA RestoreFromDiskKeepsSInv ==
  ASSUME SInv, NEW r \in Replicas, RestoreFromDisk(r)
  PROVE  SInv'
<1> DEFINE w  == store[r].view + 1
           lb == store[r].lockedBlock
           com == store[r].committedBlocks
           msg == ViewChangeMsg(r, LeaderID(w), w, lb)
<1> USE DEF SInv, BlockInv, VTypes, NormalTypes, BufferTypes
<1>1. UNCHANGED <<receivedBlocksSet, queue, monitor, votes, Sequence, curHash, recBuffer,
                  recPrepared, spinning, before, vcBuffer, vcPrepared, timeoutBuffer,
                  tqcPrepared>>
  BY DEF RestoreFromDisk, clientVars, voteVars, vcVars
<1>2. /\ w \in Views
      /\ view' = [view EXCEPT ![r] = w]
      /\ lockedBlock' = [lockedBlock EXCEPT ![r] = lb]
      /\ curBlock' = [curBlock EXCEPT ![r] = lb]
      /\ committedBlocks' = [committedBlocks EXCEPT ![r] = com]
      /\ curStatus' \in {[curStatus EXCEPT ![r] = "VIEWCHANGE"],
                         [curStatus EXCEPT ![r] = "READY"]}
      /\ timers' = [timers EXCEPT ![r] = Rearmed(r, w)]
      /\ net' = net \cup {msg}
      /\ store' = [store EXCEPT ![r].view = w]
      /\ reqHash' = [reqHash EXCEPT ![r] = "none"]
      /\ sleepProc[r] = "woken"
      /\ sleepProc' = [sleepProc EXCEPT ![r] = "done"]
      /\ hView' = [hView EXCEPT ![r] = -2]
  BY DEF RestoreFromDisk, RecoverValue, StartsRecovery
<1>3. /\ lb \in Certs /\ com \in CommittedCerts
      /\ Backed(lb) /\ BackedAll(com, receivedBlocksSet)
  BY DEF RestoreFromDisk, RecoverValue, SleepTypes, StoreTypes, StoredValues, SleepBacked,
         StoreBacked
<1>4. /\ msg.type = "VIEWCHANGE" /\ msg.src = r /\ msg.dst \in Replicas /\ msg.view = w
      /\ msg.qc = lb
  <2>1. LeaderID(w) \in Replicas
    BY <1>2, ConstantsAssumption, SMTT(30) DEF LeaderID, Replicas, Views
  <2> QED
    BY <2>1 DEF ViewChangeMsg
<1> HIDE DEF w, lb, com, msg
<1>5. NormalTypes'
  <2>1. /\ view' \in [Replicas -> Views] /\ timers' \in [Replicas -> SUBSET Views]
        /\ curStatus' \in [Replicas -> Status]
    <3>1. /\ view \in [Replicas -> Views] /\ timers \in [Replicas -> SUBSET Views]
          /\ curStatus \in [Replicas -> Status]
      OBVIOUS
    <3>2. Rearmed(r, w) \subseteq Views
      BY <1>2, <3>1 DEF Rearmed
    <3> HIDE DEF SInv
    <3> QED
      BY <1>2, <3>1, <3>2 DEF Status
  <2>2. curBlock' \in [Replicas -> Certs] /\ lockedBlock' \in [Replicas -> Certs]
    BY <1>2, <1>3
  <2>3. committedBlocks' \in [Replicas -> [Heights -> Certs \cup {NoBlock}]]
    BY <1>2, <1>3 DEF CommittedCerts
  <2> QED
    BY <1>1, <2>1, <2>2, <2>3
<1>6. BufferTypes'
  BY <1>1
<1>7. BlockInv'
  <2>1. MsgFields(msg) /\ BackedMsg(msg)
    BY <1>2, <1>3, <1>4 DEF MsgFields, BackedMsg
  <2>2. \A s \in Replicas :
          /\ s = r => curBlock'[s] = lb /\ lockedBlock'[s] = lb /\ committedBlocks'[s] = com
          /\ s # r => UNCHANGED <<curBlock[s], lockedBlock[s], committedBlocks[s]>>
    BY <1>2
  <2>3. \A s \in Replicas : BackedAll(committedBlocks[s], receivedBlocksSet)
    BY DEF AllBacked, BackedAll, Backed, Committed
  <2>4. \A s \in Replicas : Backed(curBlock'[s]) /\ Backed(lockedBlock'[s])
    BY <2>2, <1>3 DEF AllBacked
  <2>5. \A s \in Replicas : BackedAll(committedBlocks'[s], receivedBlocksSet)
    BY <2>2, <2>3, <1>3
  <2>6. \A s \in Replicas : lockedBlock'[s].height <= curBlock'[s].height
    <3>1. \A s \in Replicas : lockedBlock[s].height <= curBlock[s].height
      BY DEF LockBelowBlock
    <3>2. lb.height \in Nat
      BY <1>3 DEF Certs
    <3> HIDE DEF SInv
    <3> QED
      BY <2>2, <3>1, <3>2
  <2> QED
    BY <1>1, <1>2, <1>5, <1>6, <2>1, <2>4, <2>5, <2>6, MovedBlocks
<1>8. RecTypes'
  BY <1>1, <1>2, ConstantsAssumption DEF SleepTypes, RecTypes
<1>9. StoreTypes' /\ StoreBacked'
  BY <1>1, <1>2, StoreRewritten
<1>10. Phases'
  <2>1. \A s \in Replicas \ {r} :
          /\ curStatus'[s] = curStatus[s] /\ sleepProc'[s] = sleepProc[s]
          /\ reqHash'[s] = reqHash[s] /\ view'[s] = view[s]
    BY <1>2 DEF SleepTypes, RecTypes
  <2>2. \A s \in Replicas \ {r} : PhaseOf(s)' /\ MonitorsRest(s)'
    BY <1>1, <2>1, PhaseStays
  <2>3. curStatus'[r] \in {"READY", "VIEWCHANGE"} /\ sleepProc'[r] = "done"
    BY <1>2 DEF SleepTypes, RecTypes
  <2>4. PhaseOf(r)' /\ MonitorsRest(r)'
    BY <1>1, <1>2, <2>3 DEF Phases, PhaseOf, MonitorsRest, Down
  <2> QED
    BY <2>2, <2>4 DEF Phases
<1>11. RecMsgFields(msg)
  BY <1>4 DEF RecMsgFields, ProtocolTypes
<1> QED
  BY <1>1, <1>2, <1>4, <1>7, <1>8, <1>9, <1>10, <1>11, MovedSInv

\* A replica that ends is one that goes on recovering, and does nothing more.
LEMMA EndProgramKeepsSInv ==
  ASSUME SInv, RecMode = "RecFromDisk", NEW r \in Replicas, EndProgram(r)
  PROVE  SInv'
<1> USE DEF SInv, BlockInv, VTypes, NormalTypes
<1>1. UNCHANGED <<view, recBuffer, recPrepared, spinning, store, before, net>>
  BY DEF EndProgram
<1>2. /\ curStatus' = [curStatus EXCEPT ![r] = "RECOVERING"]
      /\ reqHash' = [reqHash EXCEPT ![r] = "none"]
      /\ sleepProc[r] = "woken"
      /\ sleepProc' = [sleepProc EXCEPT ![r] = "ended"]
      /\ hView' = [hView EXCEPT ![r] = -2]
      /\ monitor' = [monitor EXCEPT ![r] = [v \in Views |-> "off"]]
      /\ timers' = [timers EXCEPT ![r] = {}]
  BY DEF EndProgram, StartsRecovery
<1>3. RecTypes'
  BY <1>1, <1>2, ConstantsAssumption DEF SleepTypes, RecTypes
<1>4. Phases'
  <2>1. \A s \in Replicas \ {r} : /\ curStatus'[s] = curStatus[s] /\ sleepProc'[s] = sleepProc[s]
                                  /\ reqHash'[s] = reqHash[s] /\ monitor'[s] = monitor[s]
    BY <1>2 DEF SleepTypes, RecTypes
  <2>2. \A s \in Replicas \ {r} : PhaseOf(s)' /\ MonitorsRest(s)'
    BY <1>1, <2>1, PhaseStays
  <2>3. PhaseOf(r) /\ MonitorsRest(r)
    BY DEF Phases
  <2>4. /\ curStatus'[r] = "RECOVERING" /\ sleepProc'[r] = "ended" /\ reqHash'[r] = "none"
        /\ \A v \in Views : monitor'[r][v] = "off"
    BY <1>2 DEF SleepTypes, RecTypes
  <2> HIDE DEF SInv
  <2>5. MonitorsRest(r)'
    BY <2>4 DEF MonitorsRest, MonitorAt
  <2>6. PhaseOf(r)'
    BY <1>1, <1>2, <2>3, <2>4 DEF PhaseOf, Down
  <2> QED
    BY <2>2, <2>5, <2>6 DEF Phases
<1>5. /\ curStatus' \in [Replicas -> Status] /\ timers' \in [Replicas -> SUBSET Views]
      /\ monitor' \in [Replicas -> [Views -> MonitorPoints]]
  BY <1>2 DEF Status, MonitorPoints
<1> QED
  BY <1>1, <1>3, <1>4, <1>5, QuietSInv DEF EndProgram, voteVars, clientVars

LEMMA MergedBacked ==
  ASSUME SInv, NEW r \in Replicas, NEW com \in CommittedCerts,
         BackedAll(com, receivedBlocksSet)
  PROVE  Merged(r, com) \in CommittedCerts /\ BackedAll(Merged(r, com), receivedBlocksSet)
<1>1. \A h \in Heights : /\ committedBlocks[r][h] \in Certs \cup {NoBlock}
                         /\ com[h] \in Certs \cup {NoBlock}
                         /\ committedBlocks[r][h] # NoBlock =>
                              BackedIn(committedBlocks[r][h], receivedBlocksSet)
                         /\ com[h] # NoBlock => BackedIn(com[h], receivedBlocksSet)
  BY DEF SInv, BlockInv, VTypes, NormalTypes, AllBacked, Committed, BackedAll,
         CommittedCerts, Backed
<1> QED
  BY <1>1 DEF Merged, CommittedCerts, BackedAll

\* A replica that adds committed blocks, and takes higher blocks over.
LEMMA EchoedBlocks ==
  ASSUME SInv, NEW m \in net, m.type = "ECHO2",
         UNCHANGED <<view, curHash, receivedBlocksSet, votes, queue, monitor, timers, vcVars>>,
         curStatus' \in [Replicas -> Status], Sequence' \in [Replicas -> Nat],
         committedBlocks' = [committedBlocks EXCEPT ![m.dst] = Merged(m.dst, m.com)],
         \/ UNCHANGED <<curBlock, lockedBlock>>
         \/ /\ curBlock' = [curBlock EXCEPT ![m.dst] = Higher(curBlock[m.dst], m.qc)]
            /\ lockedBlock' = [lockedBlock EXCEPT ![m.dst] = Higher(lockedBlock[m.dst], m.lqc)],
         net' \subseteq net
  PROVE  BlockInv'
<1> DEFINE r == m.dst
<1> USE DEF SInv, BlockInv, VTypes, NormalTypes, BufferTypes
<1>1. /\ r \in Replicas /\ m.qc \in Certs /\ m.lqc \in Certs /\ m.com \in CommittedCerts
      /\ m.lqc.height <= m.qc.height
      /\ Backed(m.qc) /\ Backed(m.lqc) /\ BackedAll(m.com, receivedBlocksSet)
  BY DEF MsgFields, SleepTypes, RecMsgFields, SleepBacked, BackedEcho
<1>2. Merged(r, m.com) \in CommittedCerts /\ BackedAll(Merged(r, m.com), receivedBlocksSet)
  BY <1>1, MergedBacked
<1>3. /\ curBlock[r] \in Certs /\ lockedBlock[r] \in Certs
      /\ Backed(curBlock[r]) /\ Backed(lockedBlock[r])
      /\ lockedBlock[r].height <= curBlock[r].height
  BY <1>1 DEF AllBacked, LockBelowBlock
<1> DEFINE qc  == Higher(curBlock[r], m.qc)
           lqc == Higher(lockedBlock[r], m.lqc)
<1>4. /\ qc \in Certs /\ lqc \in Certs /\ Backed(qc) /\ Backed(lqc)
  BY <1>1, <1>3 DEF Higher
<1>5. lqc.height <= qc.height
  <2>1. \A c \in Certs : c.height \in Nat /\ (c.hash = NilHash => c.height = 0)
    BY DEF Certs
  <2>2. qc.height >= curBlock[r].height /\ qc.height >= m.qc.height
    BY <1>1, <1>3, <2>1 DEF Higher
  <2>3. lqc.height <= lockedBlock[r].height \/ lqc.height <= m.lqc.height
    BY <1>1, <1>3, <2>1 DEF Higher
  <2> QED
    BY <1>1, <1>3, <1>4, <2>1, <2>2, <2>3
<1> HIDE DEF qc, lqc
<1>6. \/ UNCHANGED <<curBlock, lockedBlock>>
      \/ /\ curBlock' = [curBlock EXCEPT ![r] = qc]
         /\ lockedBlock' = [lockedBlock EXCEPT ![r] = lqc]
  BY DEF qc, lqc
<1>7. NormalTypes'
  <2>1. curBlock' \in [Replicas -> Certs] /\ lockedBlock' \in [Replicas -> Certs]
    <3>1. curBlock \in [Replicas -> Certs] /\ lockedBlock \in [Replicas -> Certs]
      OBVIOUS
    <3> HIDE DEF SInv, BlockInv
    <3> QED
      BY <1>4, <1>6, <3>1
  <2>2. committedBlocks' \in [Replicas -> [Heights -> Certs \cup {NoBlock}]]
    BY <1>2 DEF CommittedCerts
  <2> QED
    BY <2>1, <2>2
<1>8. BufferTypes'
  BY DEF vcVars
<1>9. \A s \in Replicas : /\ Backed(curBlock'[s]) /\ Backed(lockedBlock'[s])
                          /\ lockedBlock'[s].height <= curBlock'[s].height
  BY <1>4, <1>5, <1>6 DEF AllBacked, LockBelowBlock
<1>10. \A s \in Replicas : BackedAll(committedBlocks'[s], receivedBlocksSet)
  BY <1>2 DEF AllBacked, BackedAll, Backed, Committed
<1> QED
  BY <1>7, <1>8, <1>9, <1>10, MovedBlocks

LEMMA LateEcho2KeepsSInv ==
  ASSUME SInv, NEW m \in net, LateEcho2(m)
  PROVE  SInv'
<1> USE DEF SInv
<1>1. UNCHANGED <<view, curStatus, Sequence, curBlock, lockedBlock, receivedBlocksSet,
                  curHash, votes, queue, monitor, timers, vcVars, sleepProc, reqHash, hView,
                  recBuffer, recPrepared, spinning, store, before>>
  BY DEF LateEcho2, voteVars, clientVars, sleepVars, recVars
<1>2. BlockInv'
  BY <1>1, EchoedBlocks DEF LateEcho2, BlockInv, VTypes, NormalTypes
<1>3. RecTypes' /\ StoreTypes' /\ StoreBacked'
  BY <1>1 DEF SleepTypes, RecTypes, StoreTypes, SleepBacked, StoreBacked, Backed
<1>4. Phases'
  <2>1. \A s \in Replicas : PhaseOf(s)' /\ MonitorsRest(s)'
    BY <1>1, PhaseStays
  <2> QED
    BY <2>1 DEF Phases
<1>5. net' \subseteq net
  BY DEF LateEcho2
<1> QED
  BY <1>1, <1>2, <1>3, <1>4, <1>5, MovedSInv

LEMMA HandleEcho2KeepsSInv ==
  ASSUME SInv, NEW m \in net, HandleEcho2Msg(m)
  PROVE  SInv'
<1> DEFINE r == m.dst
<1> USE DEF SInv
<1>1. UNCHANGED <<view, receivedBlocksSet, curHash, votes, queue, monitor, timers, vcVars,
                  sleepProc, reqHash, hView, spinning, store, before>>
  BY DEF HandleEcho2Msg, voteVars, clientVars
<1>2. r \in Replicas /\ m.type = "ECHO2" /\ m.hash = "REC2" /\ m.qc \in Certs
  BY DEF HandleEcho2Msg, BlockInv, VTypes, MsgFields, SleepTypes, RecMsgFields
<1>3. /\ recBuffer' = [recBuffer EXCEPT ![r]["REC2"] = recBuffer[r]["REC2"] + 1]
      /\ curStatus[r] = "RECOVERING" /\ reqHash[r] = "REC2" /\ ~spinning[r]
      /\ \/ UNCHANGED <<recPrepared, curStatus>>
         \/ /\ recPrepared' = [recPrepared EXCEPT ![r] = recPrepared[r] \cup {"REC2"}]
            /\ curStatus' = [curStatus EXCEPT ![r] = "READY"]
      /\ Sequence' = [Sequence EXCEPT ![r] = Larger(Sequence[r], Higher(curBlock[r], m.qc).height)]
      /\ net' \subseteq net
  BY <1>2 DEF HandleEcho2Msg, Unexpected
<1>4. curStatus' \in [Replicas -> Status] /\ Sequence' \in [Replicas -> Nat]
  <2>1. Larger(Sequence[r], Higher(curBlock[r], m.qc).height) \in Nat
    BY <1>2 DEF BlockInv, VTypes, NormalTypes, Larger, Higher, Certs
  <2> QED
    BY <1>3, <2>1 DEF BlockInv, VTypes, NormalTypes, Status
<1>5. BlockInv'
  BY <1>1, <1>2, <1>3, <1>4, EchoedBlocks DEF HandleEcho2Msg
<1>6. RecTypes'
  <2>1. recBuffer[r]["REC2"] + 1 \in Nat
    BY <1>2 DEF SleepTypes, RecTypes, Requested
  <2>2. recBuffer' \in [Replicas -> [Requested -> Nat]]
    BY <1>3, <2>1 DEF SleepTypes, RecTypes
  <2>3. recPrepared' \in [Replicas -> SUBSET Requested]
    BY <1>3 DEF SleepTypes, RecTypes, Requested
  <2> QED
    BY <1>1, <2>2, <2>3 DEF SleepTypes, RecTypes
<1>7. StoreTypes' /\ StoreBacked'
  BY <1>1 DEF SleepTypes, StoreTypes, SleepBacked, StoreBacked, Backed
<1>8. Phases'
  <2>1. \A s \in Replicas \ {r} : recPrepared'[s] = recPrepared[s] /\ curStatus'[s] = curStatus[s]
    BY <1>3 DEF SleepTypes, RecTypes, BlockInv, VTypes, NormalTypes
  <2>2. \A s \in Replicas \ {r} : PhaseOf(s)'
    BY <1>1, <2>1 DEF Phases, PhaseOf, Down
  <2>3. curStatus'[r] \in {"RECOVERING", "READY"}
    BY <1>2, <1>3 DEF BlockInv, VTypes, NormalTypes
  <2>4. sleepProc[r] = "done"
    BY <1>2, <1>3 DEF Phases, PhaseOf, SleepTypes, RecTypes, Down
  <2>5. PhaseOf(r)'
    BY <1>1, <1>2, <1>3, <2>3, <2>4 DEF Phases, PhaseOf, Down
  <2>6. \A s \in Replicas : MonitorsRest(s)'
    BY <1>1, <1>3, <2>1, <2>3 DEF Phases, MonitorsRest, MonitorAt, Down
  <2> QED
    BY <2>2, <2>5, <2>6 DEF Phases
<1> QED
  BY <1>1, <1>3, <1>5, <1>6, <1>7, <1>8, MovedSInv

\* The view of a recovering replica goes up; nothing else of it is touched.
LEMMA RecoveringTQCEffect ==
  ASSUME SInv, NEW m \in net, RecoveringTQC(m)
  PROVE  /\ m \in TQCMsgs /\ m.view \in Views /\ m.view < MaxView
         /\ m.dst \in Replicas /\ curStatus[m.dst] = "RECOVERING"
         /\ view[m.dst] <= m.view
         /\ view' = [view EXCEPT ![m.dst] = m.view + 1]
         /\ \A x \in net' \ net : \E d \in Replicas : x = [m EXCEPT !.dst = d]
         /\ Cardinality(m.ids) >= QuorumSize
         /\ \A s \in Replicas, v \in Views :
              timeoutBuffer'[s][v] # timeoutBuffer[s][v] =>
                timeoutBuffer'[s][v] = m.ids /\ v = m.view
<1> USE DEF SInv, BlockInv, VTypes, NormalTypes, BufferTypes
<1>1. m \in TQCMsgs /\ m.view \in Views /\ m.view < MaxView /\ m.dst \in Replicas
  BY DEF RecoveringTQC, MsgFields
<1>2. curStatus[m.dst] = "RECOVERING" /\ view[m.dst] <= m.view
  BY <1>1 DEF RecoveringTQC, IgnoresVCMsg, Views
<1>3. \A x \in net' \ net : \E d \in Replicas : x = [m EXCEPT !.dst = d]
  BY DEF RecoveringTQC, Others
<1>4. \A s \in Replicas, v \in Views :
        timeoutBuffer'[s][v] # timeoutBuffer[s][v] =>
          timeoutBuffer'[s][v] = m.ids /\ v = m.view
  <2>1. \/ UNCHANGED timeoutBuffer
        \/ timeoutBuffer' = [timeoutBuffer EXCEPT ![m.dst][m.view] = m.ids]
    BY DEF RecoveringTQC
  <2>2. timeoutBuffer \in [Replicas -> [Views -> SUBSET Replicas]]
    OBVIOUS
  <2> HIDE DEF SInv
  <2> QED
    BY <1>1, <2>1, <2>2
<1> QED
  BY <1>1, <1>2, <1>3, <1>4 DEF RecoveringTQC, TimeoutQuorum

LEMMA RecoveringTQCKeepsSInv ==
  ASSUME SInv, NEW m \in net, RecoveringTQC(m)
  PROVE  SInv'
<1> DEFINE r == m.dst
<1> USE DEF SInv
<1>1. UNCHANGED <<curStatus, Sequence, curBlock, lockedBlock, curHash, committedBlocks,
                  receivedBlocksSet, votes, queue, monitor, timers, vcBuffer, vcPrepared,
                  sleepProc, reqHash, hView, recBuffer, recPrepared, spinning, before>>
  BY DEF RecoveringTQC, chainVars, voteVars, clientVars, recVars
<1>2. /\ m \in TQCMsgs /\ m.view \in Views /\ m.view < MaxView
      /\ r \in Replicas /\ curStatus[r] = "RECOVERING"
      /\ view[r] <= m.view
      /\ view' = [view EXCEPT ![r] = m.view + 1]
  BY RecoveringTQCEffect
<1>3. \A x \in net' \ net : x \in TQCMsgs /\ x.view = m.view
  BY <1>2, RecoveringTQCEffect DEF TQCMsgs
<1>4. \A s \in Replicas : view'[s] >= view[s]
  BY <1>2 DEF BlockInv, VTypes, NormalTypes, Views
<1>5. Grown
  BY <1>1, <1>4 DEF Grown, BlockInv, VTypes, NormalTypes, Certs
<1>6. VTypes'
  <2>1. NormalTypes'
    <3>1. view' \in [Replicas -> Views]
      <4>1. m.view + 1 \in Views
        BY <1>2, ConstantsAssumption DEF Views
      <4> QED
        BY <1>2, <4>1 DEF BlockInv, VTypes, NormalTypes
    <3> QED
      BY <1>1, <3>1 DEF BlockInv, VTypes, NormalTypes
  <2>2. m.ids \in SUBSET Replicas
    BY <1>2 DEF TQCMsgs
  <2>3. BufferTypes'
    <3>1. timeoutBuffer' \in [Replicas -> [Views -> SUBSET Replicas]]
      <4> DEFINE D   == SUBSET Replicas
                 ids == m.ids
      <4>1. \/ UNCHANGED timeoutBuffer
            \/ timeoutBuffer' = [timeoutBuffer EXCEPT ![r][m.view] = ids]
        BY DEF RecoveringTQC
      <4>2. timeoutBuffer \in [Replicas -> [Views -> D]] /\ ids \in D
        BY <2>2 DEF BlockInv, VTypes, BufferTypes
      <4> HIDE DEF D, ids
      <4>3. [timeoutBuffer EXCEPT ![r][m.view] = ids] \in [Replicas -> [Views -> D]]
        BY <4>2, EntryReplaced
      <4>4. timeoutBuffer' \in [Replicas -> [Views -> D]]
        BY <4>1, <4>2, <4>3
      <4> QED
        BY <4>4 DEF D
    <3>2. tqcPrepared' \in [Replicas -> SUBSET Views]
      BY <1>2 DEF RecoveringTQC, BlockInv, VTypes, BufferTypes
    <3> QED
      BY <1>1, <3>1, <3>2 DEF BlockInv, VTypes, BufferTypes
  <2>4. \A x \in net' \ net : MsgFields(x)
    BY <1>2, <1>3 DEF MsgFields, TQCMsgs
  <2> QED
    BY <2>1, <2>3, <2>4 DEF BlockInv, VTypes
<1>7. \A x \in net' \ net : x.type = "TQC"
  BY <1>3 DEF TQCMsgs
<1>8. BlockInv'
  <2>1. \A x \in net' \ net : BackedMsg(x)
    BY <1>7 DEF BackedMsg
  <2> QED
    BY <1>1, <1>5, <1>6, <2>1, SameBlocks DEF BlockInv
<1>9. StoreTypes' /\ StoreBacked'
  <2>1. UNCHANGED lockedBlock /\ WriteThrough({})
    BY DEF RecoveringTQC, chainVars
  <2> QED
    BY <1>5, <1>8, <2>1, StoreKept DEF Stored
<1>10. RecTypes'
  BY <1>1 DEF SleepTypes, RecTypes
<1>11. Phases'
  <2>1. \A s \in Replicas \ {r} : view'[s] = view[s]
    BY <1>2 DEF BlockInv, VTypes, NormalTypes
  <2>2. \A s \in Replicas \ {r} : PhaseOf(s)' /\ MonitorsRest(s)'
    BY <1>1, <2>1, PhaseStays
  <2>3. PhaseOf(r)'
    BY <1>1, <1>2 DEF Phases, PhaseOf, Down
  <2>4. MonitorsRest(r)'
    BY <1>1, <1>2 DEF Phases, MonitorsRest, MonitorAt, Down
  <2> QED
    BY <2>2, <2>3, <2>4 DEF Phases
<1>12. \A x \in net' \ net : RecMsgFields(x) /\ x.type # "ECHO2"
  BY <1>7 DEF RecMsgFields, ProtocolTypes
<1> QED
  BY <1>1, <1>8, <1>9, <1>10, <1>11, <1>12, MovedSInv

----------------------------------------------------------------------------
(* Every step.                                                             *)

\* What the goroutines of sleep and recovery do, and messages that are dropped.
SleepStep ==
  \/ \E r \in Replicas, v \in Views : MonitorSleeps(r, v) \/ TimerLost(r, v)
  \/ \E m \in net : DropMsg(m) \/ DispatchRec(m)
  \/ \E r \in Replicas : FallAsleep(r) \/ WakeUp(r) \/ RecoveryProcess(r) \/ SendRec2(r)

LEMMA StepKinds ==
  ASSUME SInv, SleepyNext
  PROVE  ProtocolEffect \/ SleepStep
<1>1. CASE \E r \in Replicas, v \in Views : SleepyMonitor(r, v) \/ SleepyTimeout(r, v)
  BY <1>1, MonitorEffect, TimeoutEffect
<1>2. CASE \E r \in Replicas, req \in Requests : SleepyRequest(r, req)
  BY <1>2, RequestEffect
<1>3. CASE \E m \in net : DispatchNormal(m) \/ DispatchVC(m)
  BY <1>3, NormalEffect, ViewChangeEffect
<1>4. CASE SleepStep
  BY <1>4
<1> QED
  BY <1>1, <1>2, <1>3, <1>4 DEF SleepyNext, SleepStep

LEMMA SleepStepKeepsSInv ==
  ASSUME SInv, SleepStep
  PROVE  SInv'
<1>1. ASSUME NEW r \in Replicas, NEW v \in Views, MonitorSleeps(r, v) \/ TimerLost(r, v)
      PROVE  SInv'
  BY <1>1, MonitorSleepsKeepsSInv, TimerLostKeepsSInv
<1>2. ASSUME NEW m \in net, DropMsg(m) \/ DispatchRec(m) PROVE SInv'
  BY <1>2, DropKeepsSInv, HandleEcho1KeepsSInv, LateEcho2KeepsSInv, HandleEcho2KeepsSInv,
     RecoveringTQCKeepsSInv DEF DispatchRec, HandleRecMsg
<1>3. ASSUME NEW r \in Replicas,
             FallAsleep(r) \/ WakeUp(r) \/ RecoveryProcess(r) \/ SendRec2(r)
      PROVE  SInv'
  BY <1>3, FallAsleepKeepsSInv, WakeUpKeepsSInv, RecoverKoala2KeepsSInv,
     RestoreFromDiskKeepsSInv, EndProgramKeepsSInv, NoRecoveryKeepsSInv, SendRec2KeepsSInv
     DEF RecoveryProcess, RecoverFromDisk
<1> QED
  BY <1>1, <1>2, <1>3 DEF SleepStep

LEMMA StutterKeepsSInv ==
  ASSUME SInv, UNCHANGED sleepyVars
  PROVE  SInv'
<1>1. UNCHANGED <<view, curStatus, Sequence, chainVars, receivedBlocksSet, votes, queue,
                  monitor, timers, net, vcVars, sleepVars>>
  BY DEF sleepyVars, allVars, vars, voteVars, clientVars
<1> QED
  BY <1>1, QuietNet DEF SInv, BlockInv, VTypes, NormalTypes

THEOREM SleepyInvariant == SleepySpec => []SInv
<1>1. ASSUME SInv, [SleepyNext]_sleepyVars PROVE SInv'
  BY <1>1, StepKinds, ProtocolKeepsSInv, SleepStepKeepsSInv, StutterKeepsSInv
<1> QED
  BY <1>1, InitSInv, PTL DEF SleepySpec

----------------------------------------------------------------------------
(* What follows.                                                           *)

\* A certificate names a quorum of replicas that accepted its block: also when
\* replicas sleep, forget and recover (HandleNormalMsg keeps receivedBlocksSet over
\* InitHotStuff, and what ECHO2 or the database brings back are certificates).
THEOREM SleepyCertifiedByVoters == SleepySpec => []CertifiedByVoters
<1>1. SInv => CertifiedByVoters
  <2> SUFFICES ASSUME SInv, NEW c \in Certificates, c.hash # NilHash
               PROVE  /\ Cardinality(c.ids) >= QuorumSize
                      /\ \A i \in c.ids : c.hash \in receivedBlocksSet[i]
    BY DEF CertifiedByVoters
  <2>1. Backed(c)
    BY DEF Certificates, SInv, BlockInv, AllBacked, BackedMsg, Committed
  <2> QED
    BY <2>1 DEF Backed, BackedIn
<1> QED
  BY <1>1, SleepyInvariant, PTL

\* A replica that sleeps or recovers says nothing in the name of the protocol.
THEOREM SilentUntilRecoveredHolds == SleepySpec => SilentUntilRecovered
<1>1. ASSUME SInv, SleepyNext PROVE SilentStep
  <2>0. SInv /\ SleepyNext
    BY <1>1
  <2> SUFFICES ASSUME NEW r \in Replicas, Down(r), Down(r)',
                      NEW m \in net' \ net, m.src = r
               PROVE  m.type \notin {"QC", "QCREP", "TIMEOUT", "VIEWCHANGE"}
    BY DEF SilentStep
  <2>1. CASE ProtocolEffect
    <3>1. \A x \in net' \ net : /\ x.type \in ProtocolTypes
                                /\ x.type # "TQC" => x.src \in Replicas /\ ~Down(x.src)
      BY <2>1, Zenon DEF ProtocolEffect
    <3> QED
      BY <3>1
  <2>2. CASE \E s \in Replicas, v \in Views : MonitorSleeps(s, v) \/ TimerLost(s, v)
    BY <2>2 DEF MonitorSleeps, TimerLost
  <2>3. CASE \E x \in net : DropMsg(x) \/ IgnoreEcho1(x) \/ HandleEcho1Msg(x)
                            \/ LateEcho2(x) \/ HandleEcho2Msg(x)
    BY <2>3 DEF DropMsg, IgnoreEcho1, HandleEcho1Msg, LateEcho2, HandleEcho2Msg
  <2>4. CASE \E x \in net : HandleRec1Msg(x) \/ HandleRec2Msg(x)
    BY <2>4 DEF HandleRec1Msg, HandleRec2Msg, Echo1Msg, Echo2Msg
  <2>5. CASE \E x \in net : RecoveringTQC(x)
    <3>1. PICK x \in net : RecoveringTQC(x)
      BY <2>5
    <3>2. x \in TQCMsgs
      BY <2>0, <3>1, RecoveringTQCEffect
    <3>3. PICK d \in Replicas : m = [x EXCEPT !.dst = d]
      BY <3>1 DEF RecoveringTQC, Others
    <3>4. m \in TQCMsgs
      BY <3>2, <3>3 DEF TQCMsgs
    <3> QED
      BY <3>4 DEF TQCMsgs
  <2>6. CASE \E s \in Replicas : FallAsleep(s) \/ WakeUp(s) \/ EndProgram(s) \/ NoRecovery(s)
    BY <2>6 DEF FallAsleep, WakeUp, EndProgram, NoRecovery
  <2>7. CASE \E s \in Replicas : RecoverKoala2(s) \/ SendRec2(s)
    BY <2>7 DEF RecoverKoala2, SendRec2, Rec1Msg, Rec2Msg
  <2>8. CASE \E s \in Replicas : RestoreFromDisk(s)
    <3>1. PICK s \in Replicas : RestoreFromDisk(s)
      BY <2>8
    <3>2. curStatus' \in {[curStatus EXCEPT ![s] = "VIEWCHANGE"],
                          [curStatus EXCEPT ![s] = "READY"]}
      BY <3>1 DEF RestoreFromDisk
    <3>3. PICK d, v, c : net' = net \cup {ViewChangeMsg(s, d, v, c)}
      BY <3>1, Zenon DEF RestoreFromDisk
    <3>4. m.src = s
      BY <3>3 DEF ViewChangeMsg
    <3>5. ~Down(s)'
      BY <2>0, <3>2 DEF SInv, BlockInv, VTypes, NormalTypes, Down
    <3> QED
      BY <3>4, <3>5
  <2> QED
    <3>1. ProtocolEffect \/ SleepStep
      BY <2>0, StepKinds
    <3>2. CASE \E x \in net : DropMsg(x) \/ DispatchRec(x)
      BY <3>2, <2>3, <2>4, <2>5 DEF DispatchRec, HandleRecMsg
    <3>3. CASE \E s \in Replicas : FallAsleep(s) \/ WakeUp(s) \/ RecoveryProcess(s)
                                   \/ SendRec2(s)
      BY <3>3, <2>6, <2>7, <2>8 DEF RecoveryProcess, RecoverFromDisk
    <3> QED
      BY <3>1, <3>2, <3>3, <2>1, <2>2 DEF SleepStep
<1> QED
  BY <1>1, SleepyInvariant, PTL DEF SleepySpec, SilentUntilRecovered

----------------------------------------------------------------------------
(* Answers are counted up to the quorum that recovery asks for.            *)

\* Another replica's counters, or those of a step that counts nothing.
LEMMA CountsKept ==
  ASSUME Counts, UNCHANGED <<recBuffer, recPrepared>>
  PROVE  Counts'
BY DEF Counts

LEMMA AnswerCounted ==
  ASSUME SInv, RecQuorum \in 1..N, Counts, NEW r \in Replicas, NEW q \in Requested,
         q \notin recPrepared[r],
         recBuffer' = [recBuffer EXCEPT ![r][q] = recBuffer[r][q] + 1],
         IF Completes(r, q)
           THEN recPrepared' = [recPrepared EXCEPT ![r] = recPrepared[r] \cup {q}]
           ELSE UNCHANGED recPrepared
  PROVE  Counts'
<1>1. /\ recBuffer \in [Replicas -> [Requested -> Nat]]
      /\ recPrepared \in [Replicas -> SUBSET Requested]
      /\ RecQuorum \in Nat
  BY ConstantsAssumption DEF SInv, SleepTypes, RecTypes
<1>2. recBuffer[r][q] < RecQuorum
  BY DEF Counts
<1> SUFFICES ASSUME NEW s \in Replicas, NEW p \in Requested
             PROVE  /\ recBuffer'[s][p] <= RecQuorum
                    /\ p \notin recPrepared'[s] => recBuffer'[s][p] < RecQuorum
  BY DEF Counts
<1>3. /\ recBuffer[s][p] <= RecQuorum
      /\ p \notin recPrepared[s] => recBuffer[s][p] < RecQuorum
  BY DEF Counts
<1>4. CASE s = r /\ p = q
  <2>1. recBuffer'[s][p] = recBuffer[r][q] + 1
    BY <1>1, <1>4
  <2>2. CASE Completes(r, q)
    <3>1. q \in recPrepared'[r]
      BY <1>1, <2>2
    <3> QED
      BY <1>1, <1>2, <1>4, <2>1, <3>1
  <2>3. CASE ~Completes(r, q)
    BY <1>1, <1>2, <1>4, <2>1, <2>3 DEF Completes
  <2> QED
    BY <2>2, <2>3
<1>5. CASE ~(s = r /\ p = q)
  <2>1. recBuffer'[s][p] = recBuffer[s][p]
    BY <1>1, <1>5
  <2>2. p \in recPrepared[s] => p \in recPrepared'[s]
    BY <1>1, <1>5
  <2> QED
    BY <1>3, <2>1, <2>2
<1> QED
  BY <1>4, <1>5

LEMMA CountsStep ==
  ASSUME SInv, RecQuorum \in 1..N, Counts, [SleepyNext]_sleepyVars
  PROVE  Counts'
<1>1. CASE UNCHANGED sleepyVars
  BY <1>1, CountsKept DEF sleepyVars, sleepVars, recVars
<1>2. CASE ProtocolEffect
  <2>1. UNCHANGED <<sleepProc, recVars, before>>
    BY <1>2, Zenon DEF ProtocolEffect
  <2> QED
    BY <2>1, CountsKept DEF recVars
<1>3. ASSUME NEW r \in Replicas, NEW v \in Views, MonitorSleeps(r, v) \/ TimerLost(r, v)
      PROVE  Counts'
  BY <1>3, CountsKept DEF MonitorSleeps, TimerLost, sleepVars, recVars
<1>4. ASSUME NEW m \in net, DropMsg(m) \/ IgnoreEcho1(m) \/ HandleRec1Msg(m)
                            \/ HandleRec2Msg(m) \/ LateEcho2(m)
      PROVE  Counts'
  BY <1>4, CountsKept DEF DropMsg, IgnoreEcho1, HandleRec1Msg, HandleRec2Msg, LateEcho2,
                          sleepVars, recVars
<1>5. ASSUME NEW m \in net, RecoveringTQC(m) PROVE Counts'
  BY <1>5, CountsKept DEF RecoveringTQC, recVars
<1>6. ASSUME NEW m \in net, HandleEcho1Msg(m) PROVE Counts'
  <2>1. m.dst \in Replicas /\ m.hash = "REC1"
    BY <1>6 DEF HandleEcho1Msg, SInv, BlockInv, VTypes, MsgFields, SleepTypes, RecMsgFields
  <2>2. /\ "REC1" \notin recPrepared[m.dst]
        /\ recBuffer' = [recBuffer EXCEPT ![m.dst]["REC1"] = recBuffer[m.dst]["REC1"] + 1]
        /\ IF Completes(m.dst, "REC1")
             THEN recPrepared' = [recPrepared EXCEPT ![m.dst] = recPrepared[m.dst] \cup {"REC1"}]
             ELSE UNCHANGED recPrepared
    BY <1>6, <2>1 DEF HandleEcho1Msg, Unexpected
  <2> QED
    BY <2>1, <2>2, AnswerCounted DEF Requested
<1>7. ASSUME NEW m \in net, HandleEcho2Msg(m) PROVE Counts'
  <2>1. m.dst \in Replicas /\ m.hash = "REC2"
    BY <1>7 DEF HandleEcho2Msg, SInv, BlockInv, VTypes, MsgFields, SleepTypes, RecMsgFields
  <2>2. /\ "REC2" \notin recPrepared[m.dst]
        /\ recBuffer' = [recBuffer EXCEPT ![m.dst]["REC2"] = recBuffer[m.dst]["REC2"] + 1]
        /\ IF Completes(m.dst, "REC2")
             THEN recPrepared' = [recPrepared EXCEPT ![m.dst] = recPrepared[m.dst] \cup {"REC2"}]
             ELSE UNCHANGED recPrepared
    BY <1>7, <2>1 DEF HandleEcho2Msg, Unexpected
  <2> QED
    BY <2>1, <2>2, AnswerCounted DEF Requested
<1>8. ASSUME NEW r \in Replicas, WakeUp(r) PROVE Counts'
  <2>1. /\ recBuffer' = [recBuffer EXCEPT ![r] = [q \in Requested |-> 0]]
        /\ recPrepared' = [recPrepared EXCEPT ![r] = {}]
    BY <1>8 DEF WakeUp
  <2>2. /\ recBuffer \in [Replicas -> [Requested -> Nat]]
        /\ recPrepared \in [Replicas -> SUBSET Requested]
    BY DEF SInv, SleepTypes, RecTypes
  <2>3. \A s \in Replicas, q \in Requested :
          /\ s = r => recBuffer'[s][q] = 0
          /\ s # r => recBuffer'[s][q] = recBuffer[s][q] /\ recPrepared'[s] = recPrepared[s]
    BY <2>1, <2>2
  <2>4. RecQuorum \in Nat /\ 0 < RecQuorum
    BY ConstantsAssumption
  <2> QED
    BY <2>3, <2>4 DEF Counts
<1>9. ASSUME NEW r \in Replicas, FallAsleep(r) \/ RecoveryProcess(r) \/ SendRec2(r)
      PROVE  Counts'
  BY <1>9, CountsKept DEF FallAsleep, RecoveryProcess, RecoverKoala2, RecoverFromDisk,
                          RestoreFromDisk, EndProgram, NoRecovery, SendRec2, recVars
<1>10. CASE SleepStep
  <2>1. CASE \E m \in net : DropMsg(m) \/ DispatchRec(m)
    BY <2>1, <1>4, <1>5, <1>6, <1>7 DEF DispatchRec, HandleRecMsg
  <2> QED
    BY <1>10, <2>1, <1>3, <1>8, <1>9 DEF SleepStep
<1> QED
  BY <1>1, <1>2, <1>10, StepKinds

LEMMA InitCounts ==
  ASSUME RecQuorum \in 1..N, SleepyInit
  PROVE  Counts
BY ConstantsAssumption DEF SleepyInit, InitSleep, Counts

\* No answer is counted beyond the quorum, whatever is still on its way when it is
\* complete; the state of recovery stays in its domain (sleepyRec.go).
THEOREM SleepTypeOKHolds ==
  ASSUME RecQuorum \in 1..N
  PROVE  SleepySpec => []SleepTypeOK
<1>1. SInv /\ Counts => SleepTypeOK
  <2> SUFFICES ASSUME SInv, Counts PROVE SleepTypeOK
    OBVIOUS
  <2> DEFINE certs == [view: Views, height: Nat, hash: Hashes, ids: SUBSET Replicas]
  <2>1. \A r \in Replicas : spinning[r] => curStatus[r] = "RECOVERING" /\ reqHash[r] = "REC1"
    BY DEF SInv, Phases, PhaseOf
  <2>2. recBuffer \in [Replicas -> [Requested -> 0..N]]
    <3>1. /\ recBuffer \in [Replicas -> [Requested -> Nat]]
          /\ \A r \in Replicas, q \in Requested : recBuffer[r][q] <= RecQuorum
      BY DEF SInv, SleepTypes, RecTypes, Counts
    <3>2. \A r \in Replicas, q \in Requested : recBuffer[r][q] \in 0..N
      BY <3>1, ConstantsAssumption
    <3> QED
      BY <3>1, <3>2
  <2>3. Certs \subseteq certs
    BY DEF Certs
  <2>4. store \in [Replicas -> [view: Views, lockedBlock: certs \cup {NoBlock},
                                committedBlocks: [Heights -> certs \cup {NoBlock}]]]
    BY <2>3 DEF SInv, SleepTypes, StoreTypes, StoredValues, CommittedCerts
  <2>5. before \in [Replicas -> [view: Views \cup {-1}, lock: certs]]
    BY <2>3 DEF SInv, SleepTypes, RecTypes
  <2> QED
    BY <2>1, <2>2, <2>4, <2>5 DEF SleepTypeOK, SInv, SleepTypes, RecTypes
<1>2. Counts /\ SInv /\ [SleepyNext]_sleepyVars => Counts'
  BY CountsStep
<1>3. SleepyInit => Counts
  BY InitCounts
<1> QED
  BY <1>1, <1>2, <1>3, SleepyInvariant, PTL DEF SleepySpec

----------------------------------------------------------------------------
(* The lock that is read back from the database.                           *)

\* Replica s keeps its blocks, or takes higher ones.
LEMMA LockStoredMoves ==
  ASSUME SInv, LockStored, NEW s \in Replicas,
         sleepProc'[s] = sleepProc[s], before'[s] = before[s],
         curBlock'[s].height >= curBlock[s].height, SInv',
         \/ UNCHANGED <<lockedBlock[s], store[s].lockedBlock>>
         \/ /\ sleepProc[s] \in {"awake", "done"}
            /\ sleepProc[s] = "awake" /\ Persists =>
                 StoredAs(lockedBlock'[s], store'[s].lockedBlock)
  PROVE  LockStored!(s)'
<1>1. /\ curBlock[s].height \in Nat /\ curBlock'[s].height \in Nat
      /\ before[s].lock.height \in Nat
  BY DEF SInv, BlockInv, VTypes, NormalTypes, SleepTypes, RecTypes, Certs
<1>2. LockStored!(s)
  BY DEF LockStored
<1> QED
  BY <1>1, <1>2

LEMMA LockStoredStep ==
  ASSUME SInv, SInv', LockStored, RecMode = "RecFromDisk", [SleepyNext]_sleepyVars
  PROVE  LockStored'
<1>0. \A s \in Replicas : /\ curBlock[s].height \in Nat /\ curBlock'[s].height \in Nat
                          /\ curBlock'[s] = curBlock[s] =>
                               curBlock'[s].height >= curBlock[s].height
  BY DEF SInv, BlockInv, VTypes, NormalTypes, Certs
<1>1. ASSUME UNCHANGED <<sleepProc, before, curBlock, lockedBlock, store>>
      PROVE  LockStored'
  BY <1>0, <1>1, LockStoredMoves DEF LockStored
<1>2. CASE ProtocolEffect
  <2>1. UNCHANGED <<sleepProc, recVars, before>> /\ Grown /\ DownRest
    <3>1. UNCHANGED <<sleepProc, recVars, before>>
      BY <1>2, Zenon DEF ProtocolEffect
    <3>2. Grown /\ DownRest
      BY <1>2, Zenon DEF ProtocolEffect
    <3> QED
      BY <3>1, <3>2
  <2>2. Stored
    BY <1>2, Zenon DEF ProtocolEffect
  <2>3. \A s \in Replicas :
          \/ UNCHANGED <<lockedBlock[s], store[s].lockedBlock>>
          \/ /\ sleepProc[s] \in {"awake", "done"}
             /\ Persists => StoredAs(lockedBlock'[s], store'[s].lockedBlock)
    <3>1. CASE UNCHANGED <<store, lockedBlock>>
      BY <3>1
    <3>2. ASSUME NEW lockers \in SUBSET { s \in Replicas : ~Down(s) }, WriteThrough(lockers),
                 \A s \in Replicas \ lockers : UNCHANGED lockedBlock[s]
          PROVE  \A s \in Replicas :
                   \/ UNCHANGED <<lockedBlock[s], store[s].lockedBlock>>
                   \/ /\ sleepProc[s] \in {"awake", "done"}
                      /\ Persists => StoredAs(lockedBlock'[s], store'[s].lockedBlock)
      <4>1. \A s \in lockers : s \in Replicas /\ ~Down(s)
        OBVIOUS
      <4>2. \A s \in lockers : sleepProc[s] \in {"awake", "done"}
        BY <4>1 DEF SInv, Phases, PhaseOf, SleepTypes, RecTypes, Down
      <4>3. \A s \in Replicas : lockedBlock'[s] # NoBlock
        BY CertTypes DEF SInv, BlockInv, VTypes, NormalTypes
      <4>4. \A s \in lockers : Persists => store'[s].lockedBlock = lockedBlock'[s]
        BY <3>2, <4>1 DEF WriteThrough
      <4>5. \A s \in Replicas \ lockers : store'[s].lockedBlock = store[s].lockedBlock
        BY <3>2 DEF WriteThrough
      <4>6. \A s \in lockers : Persists => StoredAs(lockedBlock'[s], store'[s].lockedBlock)
        BY <4>1, <4>3, <4>4 DEF StoredAs
      <4> QED
        BY <3>2, <4>2, <4>5, <4>6
    <3> QED
      BY <2>2, <3>1, <3>2 DEF Stored
  <2>5. ASSUME NEW s \in Replicas PROVE LockStored!(s)'
    <3>1. sleepProc'[s] = sleepProc[s] /\ before'[s] = before[s]
      BY <2>1
    <3>2. curBlock'[s].height >= curBlock[s].height
      BY <2>1 DEF Grown
    <3> QED
      BY <2>3, <3>1, <3>2, LockStoredMoves
  <2> QED
    BY <2>5 DEF LockStored
<1>3. ASSUME NEW r \in Replicas, NEW v \in Views, MonitorSleeps(r, v) \/ TimerLost(r, v)
      PROVE  LockStored'
  BY <1>1, <1>3 DEF MonitorSleeps, TimerLost, sleepVars, chainVars
<1>4. ASSUME NEW m \in net, DropMsg(m) \/ IgnoreEcho1(m) \/ HandleEcho1Msg(m)
                            \/ HandleRec1Msg(m) \/ HandleRec2Msg(m) \/ LateEcho2(m)
      PROVE  LockStored'
  BY <1>1, <1>4 DEF DropMsg, IgnoreEcho1, HandleEcho1Msg, HandleRec1Msg, HandleRec2Msg,
                    LateEcho2, sleepVars, chainVars
<1>5. ASSUME NEW m \in net, RecoveringTQC(m) PROVE LockStored'
  <2>1. /\ UNCHANGED <<sleepProc, before, curBlock, lockedBlock>>
        /\ WriteThrough({})
    BY <1>5 DEF RecoveringTQC, chainVars
  <2>2. \A s \in Replicas : UNCHANGED store[s].lockedBlock
    BY <2>1 DEF WriteThrough
  <2> QED
    BY <1>0, <2>1, <2>2, LockStoredMoves DEF LockStored
<1>6. ASSUME NEW m \in net, HandleEcho2Msg(m) PROVE LockStored'
  <2> DEFINE r == m.dst
  <2>1. r \in Replicas /\ m.type = "ECHO2" /\ m.hash = "REC2" /\ m.qc \in Certs
    BY <1>6 DEF HandleEcho2Msg, SInv, BlockInv, VTypes, MsgFields, SleepTypes, RecMsgFields
  <2>2. /\ UNCHANGED <<sleepProc, before, store>>
        /\ curBlock' = [curBlock EXCEPT ![r] = Higher(curBlock[r], m.qc)]
        /\ lockedBlock' = [lockedBlock EXCEPT ![r] = Higher(lockedBlock[r], m.lqc)]
        /\ curStatus[r] = "RECOVERING" /\ m.hash = reqHash[r]
    BY <1>6 DEF HandleEcho2Msg, Unexpected
  <2>3. sleepProc[r] = "done"
    BY <2>1, <2>2 DEF SInv, Phases, PhaseOf, SleepTypes, RecTypes, Down
  <2>4. \A s \in Replicas \ {r} : UNCHANGED <<curBlock[s], lockedBlock[s]>>
    BY <2>2 DEF SInv, BlockInv, VTypes, NormalTypes
  <2>5. curBlock'[r].height >= curBlock[r].height
    BY <2>1, <2>2 DEF SInv, BlockInv, VTypes, NormalTypes, Certs, Higher
  <2>6. LockStored!(r)'
    BY <2>1, <2>2, <2>3, <2>5, LockStoredMoves
  <2>7. \A s \in Replicas \ {r} : LockStored!(s)'
    BY <1>0, <2>2, <2>4, LockStoredMoves
  <2> QED
    BY <2>6, <2>7 DEF LockStored
<1>7. ASSUME NEW r \in Replicas, SendRec2(r) PROVE LockStored'
  BY <1>1, <1>7 DEF SendRec2, chainVars
<1>8. ASSUME NEW r \in Replicas, FallAsleep(r) PROVE LockStored'
  <2>1. /\ UNCHANGED <<curBlock, lockedBlock, store>>
        /\ sleepProc[r] = "awake"
        /\ sleepProc' = [sleepProc EXCEPT ![r] = "asleep"]
        /\ before' = [before EXCEPT ![r] = [view |-> view[r], lock |-> lockedBlock[r]]]
    BY <1>8 DEF FallAsleep, chainVars
  <2>2. \A s \in Replicas \ {r} : sleepProc'[s] = sleepProc[s] /\ before'[s] = before[s]
    BY <2>1 DEF SInv, SleepTypes, RecTypes
  <2>3. sleepProc'[r] = "asleep" /\ before'[r].lock = lockedBlock[r]
    BY <2>1 DEF SInv, SleepTypes, RecTypes
  <2>4. LockStored!(r)'
    BY <2>1, <2>3 DEF LockStored, Persists
  <2>5. \A s \in Replicas \ {r} : LockStored!(s)'
    BY <1>0, <2>1, <2>2, LockStoredMoves
  <2> QED
    BY <2>4, <2>5 DEF LockStored
<1>9. ASSUME NEW r \in Replicas, WakeUp(r) PROVE LockStored'
  <2>1. /\ UNCHANGED before
        /\ sleepProc[r] = "asleep"
        /\ sleepProc' = [sleepProc EXCEPT ![r] = "woken"]
        /\ curBlock' = [curBlock EXCEPT ![r] = EmptyBlock]
        /\ lockedBlock' = [lockedBlock EXCEPT ![r] = EmptyBlock]
        /\ store' \in {store, [store EXCEPT ![r].view = 0]}
    BY <1>9 DEF WakeUp, StoreAfterInit
  <2>2. \A s \in Replicas \ {r} : /\ sleepProc'[s] = sleepProc[s]
                                  /\ UNCHANGED <<curBlock[s], lockedBlock[s], store[s]>>
    BY <2>1 DEF SInv, SleepTypes, RecTypes, StoreTypes, BlockInv, VTypes, NormalTypes
  <2>3. sleepProc'[r] = "woken" /\ store'[r].lockedBlock = store[r].lockedBlock
    BY <2>1 DEF SInv, SleepTypes, RecTypes, StoreTypes, StoredValues
  <2>4. LockStored!(r)'
    BY <2>1, <2>3 DEF LockStored, Persists
  <2>5. \A s \in Replicas \ {r} : LockStored!(s)'
    BY <1>0, <2>1, <2>2, LockStoredMoves
  <2> QED
    BY <2>4, <2>5 DEF LockStored
<1>10. ASSUME NEW r \in Replicas, RecoveryProcess(r) PROVE LockStored'
  <2>1. Persists /\ (RestoreFromDisk(r) \/ EndProgram(r))
    BY <1>10 DEF RecoveryProcess, RecoverKoala2, RecoverFromDisk, NoRecovery, Persists
  <2>2. UNCHANGED before /\ sleepProc[r] = "woken"
    BY <2>1 DEF RestoreFromDisk, EndProgram, StartsRecovery
  <2>3. StoredAs(before[r].lock, store[r].lockedBlock)
    BY <2>1, <2>2 DEF LockStored
  <2>4. CASE RestoreFromDisk(r)
    <3>1. /\ sleepProc' = [sleepProc EXCEPT ![r] = "done"]
          /\ curBlock' = [curBlock EXCEPT ![r] = store[r].lockedBlock]
          /\ lockedBlock' = [lockedBlock EXCEPT ![r] = store[r].lockedBlock]
          /\ store' = [store EXCEPT ![r].view = store[r].view + 1]
          /\ store[r].lockedBlock # NoBlock
      BY <2>4 DEF RestoreFromDisk, RecoverValue, StartsRecovery
    <3>2. \A s \in Replicas \ {r} : /\ sleepProc'[s] = sleepProc[s]
                                    /\ UNCHANGED <<curBlock[s], lockedBlock[s], store[s]>>
      BY <3>1 DEF SInv, SleepTypes, RecTypes, StoreTypes, BlockInv, VTypes, NormalTypes
    <3>3. sleepProc'[r] = "done" /\ curBlock'[r] = before[r].lock
      BY <2>3, <3>1 DEF SInv, SleepTypes, RecTypes, BlockInv, VTypes, NormalTypes, StoredAs
    <3>4. LockStored!(r)'
      BY <1>0, <2>2, <3>3 DEF LockStored
    <3>5. \A s \in Replicas \ {r} : LockStored!(s)'
      BY <1>0, <2>2, <3>2, LockStoredMoves
    <3> QED
      BY <3>4, <3>5 DEF LockStored
  <2>5. CASE EndProgram(r)
    <3>1. /\ UNCHANGED <<curBlock, lockedBlock, store>>
          /\ sleepProc' = [sleepProc EXCEPT ![r] = "ended"]
          /\ store[r].lockedBlock = NoBlock
      BY <2>5 DEF EndProgram, RecoverValue, StartsRecovery, chainVars
    <3>2. \A s \in Replicas \ {r} : sleepProc'[s] = sleepProc[s]
      BY <3>1 DEF SInv, SleepTypes, RecTypes
    <3>3. sleepProc'[r] = "ended" /\ before[r].lock = EmptyBlock
      BY <2>3, <3>1 DEF SInv, SleepTypes, RecTypes, StoredAs
    <3>4. LockStored!(r)'
      BY <2>2, <3>3 DEF LockStored
    <3>5. \A s \in Replicas \ {r} : LockStored!(s)'
      BY <1>0, <2>2, <3>1, <3>2, LockStoredMoves
    <3> QED
      BY <3>4, <3>5 DEF LockStored
  <2> QED
    BY <2>1, <2>4, <2>5
<1>11. CASE UNCHANGED sleepyVars
  BY <1>1, <1>11 DEF sleepyVars, sleepVars, allVars, vars, chainVars
<1>12. CASE SleepStep
  <2>1. CASE \E m \in net : DropMsg(m) \/ DispatchRec(m)
    BY <2>1, <1>4, <1>5, <1>6 DEF DispatchRec, HandleRecMsg
  <2> QED
    BY <1>12, <2>1, <1>3, <1>7, <1>8, <1>9, <1>10 DEF SleepStep
<1> QED
  BY <1>2, <1>11, <1>12, StepKinds

\* What recoverFromDisk reads is the lock that the replica fell asleep with: it is
\* written wherever it is set, and waking up resets the stored view only.  Where it
\* finds none, and the program ends, the replica had never locked.
THEOREM DiskKeepsTheLock ==
  ASSUME RecMode = "RecFromDisk"
  PROVE  SleepySpec => []RecoversItsLock
<1>1. LockStored => RecoversItsLock
  BY DEF LockStored, RecoversItsLock, Recovered, Ended
<1>2. SleepyInit => LockStored
  BY DEF SleepyInit, InitSleep, VCInit, Init, InitProtocol, LockStored, StoredAs
<1>3. SInv /\ SInv' /\ LockStored /\ [SleepyNext]_sleepyVars => LockStored'
  BY LockStoredStep
<1> QED
  BY <1>1, <1>2, <1>3, SleepyInvariant, PTL DEF SleepySpec

----------------------------------------------------------------------------
(* What a replica has attained, it has attained for good.                  *)

AttainedKept == \A s \in Replicas, v \in Int : Attained(s, v) => Attained(s, v)'

LEMMA ViewTypes ==
  ASSUME SInv
  PROVE  /\ \A s \in Replicas : view[s] \in Views /\ view[s] \in Nat
         /\ \A s \in Replicas : before[s].view \in Int /\ before[s].view >= -1
         /\ Views \subseteq Nat /\ Views \subseteq Int
BY ConstantsAssumption DEF SInv, BlockInv, VTypes, NormalTypes, SleepTypes, RecTypes, Views

LEMMA ViewsUp ==
  ASSUME SInv, SInv', \A s \in Replicas : view'[s] >= view[s], UNCHANGED before
  PROVE  AttainedKept
<1>1. SInv' => \A s \in Replicas : view'[s] \in Nat
  BY DEF SInv, BlockInv, VTypes, NormalTypes, Views
<1> QED
  BY <1>1, ViewTypes DEF AttainedKept, Attained

LEMMA AttainedStep ==
  ASSUME SInv, SInv', RecMode = "RecKoala2", [SleepyNext]_sleepyVars
  PROVE  AttainedKept
<1>1. ASSUME UNCHANGED <<view, before>> PROVE AttainedKept
  BY <1>1 DEF AttainedKept, Attained
<1>2. CASE UNCHANGED sleepyVars
  BY <1>1, <1>2 DEF sleepyVars, sleepVars, allVars, vars
<1>3. CASE ProtocolEffect
  <2>1. Grown /\ UNCHANGED <<sleepProc, recVars, before>>
    <3>1. Grown
      BY <1>3, Zenon DEF ProtocolEffect
    <3>2. UNCHANGED <<sleepProc, recVars, before>>
      BY <1>3, Zenon DEF ProtocolEffect
    <3> QED
      BY <3>1, <3>2
  <2> QED
    BY <2>1, ViewsUp DEF Grown
<1>4. ASSUME NEW r \in Replicas, NEW v \in Views, MonitorSleeps(r, v) \/ TimerLost(r, v)
      PROVE  AttainedKept
  BY <1>1, <1>4 DEF MonitorSleeps, TimerLost, sleepVars
<1>5. ASSUME NEW m \in net, DropMsg(m) \/ HandleRecMsg(m) PROVE AttainedKept
  BY <1>1, <1>5 DEF DropMsg, HandleRecMsg, HandleRec1Msg, IgnoreEcho1, HandleEcho1Msg,
                    HandleRec2Msg, LateEcho2, HandleEcho2Msg, sleepVars
<1>6. ASSUME NEW m \in net, RecoveringTQC(m) PROVE AttainedKept
  <2>1. \A s \in Replicas : view'[s] >= view[s]
    <3>1. /\ m.dst \in Replicas /\ view[m.dst] <= m.view /\ m.view \in Views
          /\ view' = [view EXCEPT ![m.dst] = m.view + 1]
      BY <1>6, RecoveringTQCEffect
    <3> QED
      BY <3>1, ViewTypes, SMTT(30) DEF SInv, BlockInv, VTypes, NormalTypes
  <2>2. UNCHANGED before
    BY <1>6 DEF RecoveringTQC
  <2> QED
    BY <2>1, <2>2, ViewsUp
<1>7. ASSUME NEW r \in Replicas, FallAsleep(r) PROVE AttainedKept
  <2>1. /\ UNCHANGED view
        /\ sleepProc[r] = "awake"
        /\ before' = [before EXCEPT ![r] = [view |-> view[r], lock |-> lockedBlock[r]]]
    BY <1>7 DEF FallAsleep
  <2>2. before[r].view = -1
    BY <2>1 DEF SInv, Phases, PhaseOf
  <2>3. before'[r].view = view[r] /\ \A s \in Replicas \ {r} : before'[s] = before[s]
    BY <2>1 DEF SInv, SleepTypes, RecTypes
  <2> QED
    BY <2>1, <2>2, <2>3, ViewTypes DEF AttainedKept, Attained
<1>8. ASSUME NEW r \in Replicas, WakeUp(r) PROVE AttainedKept
  <2>1. UNCHANGED before /\ sleepProc[r] = "asleep" /\ view' = [view EXCEPT ![r] = 0]
    BY <1>8 DEF WakeUp
  <2>2. before[r].view = view[r]
    BY <2>1 DEF SInv, Phases, PhaseOf
  <2>3. \A s \in Replicas \ {r} : view'[s] = view[s]
    BY <2>1 DEF SInv, BlockInv, VTypes, NormalTypes
  <2> QED
    BY <2>1, <2>2, <2>3, ViewTypes DEF AttainedKept, Attained
<1>9. ASSUME NEW r \in Replicas, RecoveryProcess(r) \/ SendRec2(r) PROVE AttainedKept
  <2>1. RecoverKoala2(r) \/ SendRec2(r)
    BY <1>9 DEF RecoveryProcess, RecoverFromDisk, NoRecovery
  <2> QED
    BY <1>1, <2>1 DEF RecoverKoala2, SendRec2
<1>10. CASE SleepStep
  <2>1. CASE \E m \in net : DropMsg(m) \/ DispatchRec(m)
    BY <2>1, <1>5, <1>6 DEF DispatchRec
  <2> QED
    BY <1>10, <2>1, <1>4, <1>7, <1>8, <1>9 DEF SleepStep
<1> QED
  BY <1>2, <1>3, <1>10, StepKinds

----------------------------------------------------------------------------
(* A quorum stands behind every view that was attained.                    *)

LEMMA QuorumKept ==
  ASSUME AttainedKept, NEW v \in Int, QuorumAttained(v)
  PROVE  QuorumAttained(v)'
BY DEF AttainedKept, QuorumAttained, AllAttained

\* What has to be shown of a step.
ViewsFollow ==
  \A s \in Replicas, v \in Views :
    view'[s] >= v + 1 => view[s] >= v + 1 \/ QuorumAttained(v)

TimersFollow ==
  \A s \in Replicas, v \in Views :
    v \in timers'[s] \/ monitor'[s][v] = "wait" =>
      v \in timers[s] \/ monitor[s][v] = "wait" \/ view'[s] >= v

BuffersFollow ==
  \A r \in Replicas, v \in Views : \A i \in timeoutBuffer'[r][v] : Attained(i, v)'

LEMMA PastMoves ==
  ASSUME SInv, SInv', Past, AttainedKept, ViewsFollow, TimersFollow, BuffersFollow,
         \A s \in Replicas : before'[s].view \in {before[s].view, view[s]},
         \A m \in net' \ net : Told(m)'
  PROVE  Past'
<1>1. TimersOfThePast'
  BY ViewTypes DEF TimersFollow, Past, TimersOfThePast, AttainedKept, Attained
<1>2. AllTold'
  <2>1. ASSUME NEW m \in net PROVE Told(m)'
    <3>1. Told(m)
      BY DEF Past, AllTold
    <3>2. /\ m.type \in {"TIMEOUT", "VIEWCHANGE", "TQC"} => m.src \in Replicas /\ m.view \in Int
          /\ m.type = "TQC" => m.ids \subseteq Replicas
      BY ViewTypes DEF SInv, BlockInv, VTypes, MsgFields, TQCMsgs
    <3> QED
      BY <3>1, <3>2 DEF Told, AllAttained, AttainedKept
  <2> QED
    BY <2>1 DEF AllTold, BuffersFollow, AllAttained
<1>3. Backing'
  <2> SUFFICES ASSUME NEW r \in Replicas, NEW v \in Views, Attained(r, v + 1)'
               PROVE  QuorumAttained(v)'
    BY DEF Backing
  <2>1. v \in Int
    BY ViewTypes
  <2>2. CASE view'[r] >= v + 1
    <3>1. view[r] >= v + 1 \/ QuorumAttained(v)
      BY <2>2 DEF ViewsFollow
    <3>2. QuorumAttained(v)
      BY <3>1 DEF Past, Backing, Attained
    <3> QED
      BY <2>1, <3>2, QuorumKept
  <2>3. CASE before'[r].view >= v + 1
    <3>1. QuorumAttained(v)
      BY <2>3 DEF Past, Backing, Attained
    <3> QED
      BY <2>1, <3>1, QuorumKept
  <2> QED
    BY <2>2, <2>3 DEF Attained
<1> QED
  BY <1>1, <1>2, <1>3 DEF Past

LEMMA BuffersSame ==
  ASSUME SInv, Past, AttainedKept, UNCHANGED timeoutBuffer
  PROVE  BuffersFollow
<1>1. \A r \in Replicas, v \in Views : /\ timeoutBuffer[r][v] \subseteq Replicas
                                       /\ AllAttained(timeoutBuffer[r][v], v)
  BY DEF SInv, BlockInv, VTypes, BufferTypes, Past, AllTold
<1> QED
  BY <1>1, ViewTypes DEF BuffersFollow, AllAttained, AttainedKept

LEMMA ViewsSame ==
  ASSUME SInv, SInv', \A s \in Replicas : view'[s] <= view[s]
  PROVE  ViewsFollow
<1>1. \A s \in Replicas : view'[s] \in Nat
  BY DEF SInv, BlockInv, VTypes, NormalTypes, Views
<1> QED
  BY <1>1, ViewTypes DEF ViewsFollow

\* A step that starts no timer and tells nothing.
LEMMA PastStays ==
  ASSUME SInv, SInv', Past, AttainedKept, UNCHANGED timeoutBuffer,
         \A s \in Replicas : view'[s] <= view[s],
         \A s \in Replicas : before'[s].view \in {before[s].view, view[s]},
         \A s \in Replicas : timers'[s] \subseteq timers[s],
         \A s \in Replicas, v \in Views : monitor'[s][v] = "wait" => monitor[s][v] = "wait",
         \A m \in net' \ net : m.type \notin {"TIMEOUT", "VIEWCHANGE", "TQC"}
  PROVE  Past'
<1>1. TimersFollow
  BY DEF TimersFollow
<1>2. \A m \in net' \ net : Told(m)'
  BY DEF Told
<1> QED
  BY <1>1, <1>2, ViewsSame, BuffersSame, PastMoves

LEMMA SameViews ==
  ASSUME SInv, UNCHANGED <<view, before>>
  PROVE  /\ \A s \in Replicas : view'[s] <= view[s]
         /\ \A s \in Replicas : before'[s].view \in {before[s].view, view[s]}
BY ViewTypes

LEMMA MonitorPast ==
  ASSUME SInv, SInv', Past, AttainedKept, NEW r \in Replicas, NEW v \in Views,
         SleepyMonitor(r, v)
  PROVE  Past'
<1>1. RequestMonitor(r, v) /\ UNCHANGED <<timeoutBuffer, before>>
  BY DEF SleepyMonitor, vcVars, sleepVars
<1>2. /\ UNCHANGED view
      /\ \A m \in net' \ net : m.type = "QC"
  BY <1>1 DEF RequestMonitor, MonitorStart, MonitorCheckView, MonitorCheckStatus,
              MonitorClaim, MonitorPropose, StartHotStuff, Proposal
<1>3. /\ monitor' \in { [monitor EXCEPT ![r][v] = p] : p \in MonitorPoints \ {"wait"} }
      /\ timers' # timers => /\ timers' = [timers EXCEPT ![r] = timers[r] \cup {v}]
                             /\ monitor[r][v] = "wait"
  <2>1. PICK p \in MonitorPoints \ {"wait"} : monitor' = [monitor EXCEPT ![r][v] = p]
    BY <1>1 DEF RequestMonitor, MonitorStart, MonitorCheckView, MonitorCheckStatus,
                MonitorClaim, MonitorPropose, MonitorGoto, MonitorPoints
  <2>2. timers' # timers => /\ timers' = [timers EXCEPT ![r] = timers[r] \cup {v}]
                            /\ monitor[r][v] = "wait"
    BY <1>1 DEF RequestMonitor, MonitorStart, MonitorCheckView, MonitorCheckStatus,
                MonitorClaim, MonitorPropose, MonitorAt
  <2> QED
    BY <2>1, <2>2
<1>4. TimersFollow
  <2>1. /\ monitor \in [Replicas -> [Views -> MonitorPoints]]
        /\ timers \in [Replicas -> SUBSET Views]
    BY DEF SInv, BlockInv, VTypes, NormalTypes
  <2>2. \A s \in Replicas, w \in Views : monitor'[s][w] = "wait" => monitor[s][w] = "wait"
    BY <1>3, <2>1
  <2>3. \A s \in Replicas, w \in Views :
          w \in timers'[s] => w \in timers[s] \/ monitor[s][w] = "wait"
    BY <1>3, <2>1
  <2> QED
    BY <2>2, <2>3 DEF TimersFollow
<1>5. \A m \in net' \ net : Told(m)'
  BY <1>2 DEF Told
<1>6. /\ \A s \in Replicas : view'[s] <= view[s]
      /\ \A s \in Replicas : before'[s].view \in {before[s].view, view[s]}
  BY <1>1, <1>2, SameViews
<1> QED
  BY <1>1, <1>4, <1>5, <1>6, ViewsSame, BuffersSame, PastMoves

LEMMA TimeoutPast ==
  ASSUME SInv, SInv', Past, AttainedKept, PersistLevel = "NoPersist",
         NEW r \in Replicas, NEW v \in Views, SleepyTimeout(r, v)
  PROVE  Past'
<1>1. TimeoutInMemory(r, v) /\ UNCHANGED before
  BY DEF SleepyTimeout, TimeoutHandler, TimeoutPersistent
<1>2. /\ UNCHANGED <<view, monitor, timeoutBuffer>>
      /\ v \in timers[r]
      /\ timers' = [timers EXCEPT ![r] = timers[r] \ {v}]
      /\ net' = net \cup { TimeoutMsg(r, d, v) : d \in Replicas }
  BY <1>1 DEF TimeoutInMemory, TimerFires, vcVars
<1>3. TimersFollow
  BY <1>2 DEF TimersFollow, SInv, BlockInv, VTypes, NormalTypes
<1>4. Attained(r, v)'
  <2>1. Attained(r, v)
    BY <1>2 DEF Past, TimersOfThePast
  <2> QED
    BY <2>1, ViewTypes DEF AttainedKept
<1>5. ASSUME NEW m \in net' \ net PROVE Told(m)'
  <2>1. m.type = "TIMEOUT" /\ m.src = r /\ m.view = v
    BY <1>2 DEF TimeoutMsg
  <2> QED
    BY <1>4, <2>1 DEF Told
<1>6. /\ \A s \in Replicas : view'[s] <= view[s]
      /\ \A s \in Replicas : before'[s].view \in {before[s].view, view[s]}
  BY <1>1, <1>2, SameViews
<1> QED
  BY <1>2, <1>3, <1>5, <1>6, ViewsSame, BuffersSame, PastMoves

LEMMA NormalPast ==
  ASSUME SInv, SInv', Past, AttainedKept, NEW m \in net, DispatchNormal(m)
  PROVE  Past'
<1>1. HandleQCByteMsg(m) /\ UNCHANGED <<timeoutBuffer, before>>
  BY DEF DispatchNormal, vcVars
<1>2. UNCHANGED <<view, monitor, timers>>
  BY <1>1 DEF HandleQCByteMsg, IgnoreMsg, RejectProposal, HandleNormalMsg, DropVote,
              HandleNormalRepMsg
<1>3. \A x \in net' \ net : x.type = "QCREP"
  BY <1>1 DEF HandleQCByteMsg, IgnoreMsg, RejectProposal, HandleNormalMsg, DropVote,
              HandleNormalRepMsg, Vote
<1> QED
  BY <1>1, <1>2, <1>3, SameViews, PastStays

LEMMA RequestPast ==
  ASSUME SInv, SInv', Past, AttainedKept, NEW r \in Replicas, NEW req \in Requests,
         SleepyRequest(r, req)
  PROVE  Past'
<1>1. UNCHANGED <<view, monitor, timers, net, timeoutBuffer, before>>
  BY DEF SleepyRequest, HandleRequest, vcVars, sleepVars
<1> QED
  BY <1>1, SameViews, PastStays

\* The certificate of timeouts that ends a view names who gave it up.
LEMMA TQCKnown ==
  ASSUME SInv, Past, NEW m \in net, m.type = "TQC", Cardinality(m.ids) >= QuorumSize,
         NEW v \in Views, v <= m.view
  PROVE  QuorumAttained(v)
<1>1. m.ids \in SUBSET Replicas /\ m.view \in Int
  BY ViewTypes DEF SInv, BlockInv, VTypes, MsgFields, TQCMsgs
<1>2. AllAttained(m.ids, m.view)
  BY DEF Past, AllTold, Told
<1>3. AllAttained(m.ids, v)
  BY <1>1, <1>2, ViewTypes DEF AllAttained, Attained
<1> QED
  BY <1>1, <1>3 DEF QuorumAttained

LEMMA TimeoutMsgPast ==
  ASSUME SInv, SInv', Past, AttainedKept, NEW m \in net, HandleTimeoutMsg(m),
         UNCHANGED before
  PROVE  Past'
<1> DEFINE r   == m.dst
           ids == timeoutBuffer[r][m.view] \cup {m.src}
<1>1. /\ UNCHANGED <<view, monitor, timers>>
      /\ timeoutBuffer' = [timeoutBuffer EXCEPT ![r][m.view] = ids]
      /\ net' \subseteq net \cup { TQCMsg(r, d, m.view, ids) : d \in Replicas }
  BY DEF HandleTimeoutMsg
<1>2. /\ r \in Replicas /\ m.src \in Replicas /\ m.view \in Views /\ m.type = "TIMEOUT"
      /\ timeoutBuffer[r][m.view] \subseteq Replicas
  BY DEF HandleTimeoutMsg, SInv, BlockInv, VTypes, MsgFields, BufferTypes
<1>3. \A i \in ids : Attained(i, m.view)
  BY <1>2 DEF Past, AllTold, Told, AllAttained
<1>4. \A i \in ids : Attained(i, m.view)'
  BY <1>2, <1>3, ViewTypes DEF AttainedKept
<1> HIDE DEF ids
<1>5. BuffersFollow
  <2> SUFFICES ASSUME NEW s \in Replicas, NEW v \in Views, NEW i \in timeoutBuffer'[s][v]
               PROVE  Attained(i, v)'
    BY DEF BuffersFollow
  <2>1. timeoutBuffer'[s][v] = IF s = r /\ v = m.view THEN ids ELSE timeoutBuffer[s][v]
    BY <1>1, <1>2 DEF SInv, BlockInv, VTypes, BufferTypes
  <2>2. CASE s = r /\ v = m.view
    BY <1>4, <2>1, <2>2
  <2>3. CASE ~(s = r /\ v = m.view)
    <3>1. i \in timeoutBuffer[s][v]
      BY <2>1, <2>3
    <3>2. i \in Replicas /\ Attained(i, v)
      BY <3>1 DEF Past, AllTold, AllAttained, SInv, BlockInv, VTypes, BufferTypes
    <3> QED
      BY <3>2, ViewTypes DEF AttainedKept
  <2> QED
    BY <2>2, <2>3
<1>6. ASSUME NEW x \in net' \ net PROVE Told(x)'
  <2>1. x.type = "TQC" /\ x.view = m.view /\ x.ids = ids
    BY <1>1 DEF TQCMsg
  <2> QED
    BY <1>4, <2>1 DEF Told, AllAttained
<1>7. TimersFollow
  BY <1>1 DEF TimersFollow
<1> QED
  BY <1>1, <1>5, <1>6, <1>7, SameViews, ViewsSame, PastMoves

\* A TQC that is taken over, by a replica that takes part or by one that recovers.
LEMMA TQCPast ==
  ASSUME SInv, SInv', Past, AttainedKept, NEW m \in net, m.type = "TQC",
         Cardinality(m.ids) >= QuorumSize, UNCHANGED <<before, monitor>>,
         view' = [view EXCEPT ![m.dst] = m.view + 1],
         timers' \in {timers, [timers EXCEPT ![m.dst] = Rearmed(m.dst, m.view + 1)]},
         timeoutBuffer' \in {timeoutBuffer,
                             [timeoutBuffer EXCEPT ![m.dst][m.view] = m.ids]},
         \A x \in net' \ net :
           \/ x.type = "TQC" /\ x.view = m.view /\ x.ids = m.ids
           \/ x.type = "VIEWCHANGE" /\ x.src = m.dst /\ x.view = m.view + 1
  PROVE  Past'
<1> DEFINE r == m.dst
<1>1. r \in Replicas /\ m.view \in Views /\ m.view \in Int /\ m.ids \subseteq Replicas
  BY ViewTypes DEF SInv, BlockInv, VTypes, MsgFields, TQCMsgs
<1>2. view'[r] = m.view + 1 /\ \A s \in Replicas \ {r} : view'[s] = view[s]
  BY <1>1 DEF SInv, BlockInv, VTypes, NormalTypes
<1>3. ViewsFollow
  <2> SUFFICES ASSUME NEW s \in Replicas, NEW v \in Views, view'[s] >= v + 1
               PROVE  view[s] >= v + 1 \/ QuorumAttained(v)
    BY DEF ViewsFollow
  <2>1. CASE s = r
    <3>1. v <= m.view
      BY <1>1, <1>2, <2>1, ViewTypes
    <3> QED
      BY <3>1, TQCKnown
  <2>2. CASE s # r
    BY <1>2, <2>2
  <2> QED
    BY <2>1, <2>2
<1>4. TimersFollow
  <2>1. \A s \in Replicas : \A v \in timers'[s] :
          v \in timers[s] \/ (s = r /\ v = m.view + 1)
    <3>1. timers \in [Replicas -> SUBSET Views]
      BY DEF SInv, BlockInv, VTypes, NormalTypes
    <3>2. Rearmed(r, m.view + 1) \subseteq timers[r] \cup {m.view + 1}
      BY DEF Rearmed
    <3> QED
      BY <1>1, <3>1, <3>2
  <2> QED
    BY <1>1, <1>2, <2>1 DEF TimersFollow
<1>5. AllAttained(m.ids, m.view)
  BY DEF Past, AllTold, Told
<1>6. \A i \in m.ids : Attained(i, m.view)'
  BY <1>1, <1>5 DEF AllAttained, AttainedKept
<1>7. BuffersFollow
  <2> SUFFICES ASSUME NEW s \in Replicas, NEW v \in Views, NEW i \in timeoutBuffer'[s][v]
               PROVE  Attained(i, v)'
    BY DEF BuffersFollow
  <2>1. timeoutBuffer'[s][v] = timeoutBuffer[s][v]
        \/ (v = m.view /\ timeoutBuffer'[s][v] = m.ids)
    <3>1. timeoutBuffer \in [Replicas -> [Views -> SUBSET Replicas]]
      BY DEF SInv, BlockInv, VTypes, BufferTypes
    <3> QED
      BY <1>1, <3>1
  <2>2. CASE v = m.view /\ timeoutBuffer'[s][v] = m.ids
    BY <1>6, <2>2
  <2>3. CASE timeoutBuffer'[s][v] = timeoutBuffer[s][v]
    <3>1. i \in Replicas /\ Attained(i, v)
      BY <2>3 DEF Past, AllTold, AllAttained, SInv, BlockInv, VTypes, BufferTypes
    <3> QED
      BY <3>1, ViewTypes DEF AttainedKept
  <2> QED
    BY <2>1, <2>2, <2>3
<1>8. ASSUME NEW x \in net' \ net PROVE Told(x)'
  <2>1. CASE x.type = "TQC" /\ x.view = m.view /\ x.ids = m.ids
    BY <1>6, <2>1 DEF Told, AllAttained
  <2>2. CASE x.type = "VIEWCHANGE" /\ x.src = r /\ x.view = m.view + 1
    BY <1>1, <1>2, <2>2 DEF Told, Attained
  <2> QED
    BY <2>1, <2>2
<1> QED
  BY <1>3, <1>4, <1>7, <1>8, PastMoves

LEMMA ActivationPast ==
  ASSUME SInv, SInv', Past, AttainedKept, NEW m \in net, HandleQCVCMessage(m),
         UNCHANGED before
  PROVE  Past'
<1> DEFINE r == m.dst
<1>1. /\ r \in Replicas /\ m.src \in Replicas /\ m.view \in Views /\ m.type = "VIEWCHANGE"
      /\ Attained(m.src, m.view)
  BY DEF HandleQCVCMessage, SInv, BlockInv, VTypes, MsgFields, Past, AllTold, Told
<1>2. /\ UNCHANGED <<timers, timeoutBuffer>> /\ net' \subseteq net
      /\ \/ UNCHANGED <<view, monitor>>
         \/ /\ view' = [view EXCEPT ![r] = m.view]
            /\ monitor' = [monitor EXCEPT ![r][m.view] = "wait"]
  BY DEF HandleQCVCMessage, MonitorGoto
<1>3. /\ view \in [Replicas -> Views] /\ monitor \in [Replicas -> [Views -> MonitorPoints]]
  BY DEF SInv, BlockInv, VTypes, NormalTypes
<1>4. ViewsFollow
  <2> SUFFICES ASSUME NEW s \in Replicas, NEW v \in Views, view'[s] >= v + 1,
                      ~(view[s] >= v + 1)
               PROVE  QuorumAttained(v)
    BY DEF ViewsFollow
  <2>1. m.view >= v + 1
    BY <1>1, <1>2, <1>3
  <2>2. Attained(m.src, v + 1)
    BY <1>1, <2>1, ViewTypes DEF Attained
  <2> QED
    BY <1>1, <2>2 DEF Past, Backing
<1>5. TimersFollow
  <2> SUFFICES ASSUME NEW s \in Replicas, NEW v \in Views, monitor'[s][v] = "wait",
                      monitor[s][v] # "wait"
               PROVE  view'[s] >= v
    BY <1>2 DEF TimersFollow
  <2>1. s = r /\ v = m.view /\ view'[s] = m.view
    BY <1>1, <1>2, <1>3
  <2> QED
    BY <2>1, <1>1, ViewTypes
<1> QED
  BY <1>2, <1>4, <1>5, BuffersSame, PastMoves

LEMMA ViewChangePast ==
  ASSUME SInv, SInv', Past, AttainedKept, NEW m \in net, DispatchVC(m)
  PROVE  Past'
<1>1. HandleVCMsg(m) /\ UNCHANGED before
  BY DEF DispatchVC
<1>2. CASE IgnoreVCMsg(m)
  BY <1>1, <1>2, SameViews, PastStays DEF IgnoreVCMsg, vcVars
<1>3. CASE HandleTQCMsg(m)
  <2> DEFINE r == m.dst
             forwarded == IF m.view \in tqcPrepared[r] THEN {}
                          ELSE { [m EXCEPT !.dst = d] : d \in Replicas \ {r} }
             msg == ViewChangeMsg(r, LeaderID(m.view + 1), m.view + 1, curBlock[r])
  <2>1. /\ m.type = "TQC" /\ Cardinality(m.ids) >= QuorumSize
        /\ view' = [view EXCEPT ![r] = m.view + 1]
        /\ timers' = [timers EXCEPT ![r] = Rearmed(r, m.view + 1)]
        /\ UNCHANGED monitor
        /\ timeoutBuffer' \in {timeoutBuffer,
                               [timeoutBuffer EXCEPT ![r][m.view] = m.ids]}
    BY <1>3 DEF HandleTQCMsg, StartViewChange, TimeoutQuorum
  <2>2. net' = ((net \ {m}) \cup forwarded) \cup {msg}
    BY <1>3 DEF HandleTQCMsg, StartViewChange
  <2>3. m \in TQCMsgs
    BY <2>1 DEF SInv, BlockInv, VTypes, MsgFields
  <2>4. \A x \in forwarded : x.type = "TQC" /\ x.view = m.view /\ x.ids = m.ids
    BY <2>3 DEF TQCMsgs
  <2>5. msg.type = "VIEWCHANGE" /\ msg.src = r /\ msg.view = m.view + 1
    BY DEF ViewChangeMsg
  <2> HIDE DEF forwarded, msg
  <2>6. \A x \in net' \ net :
          \/ x.type = "TQC" /\ x.view = m.view /\ x.ids = m.ids
          \/ x.type = "VIEWCHANGE" /\ x.src = r /\ x.view = m.view + 1
    BY <2>2, <2>4, <2>5
  <2> QED
    BY <1>1, <2>1, <2>6, TQCPast
<1> QED
  BY <1>1, <1>2, <1>3, TimeoutMsgPast, ActivationPast DEF HandleVCMsg

LEMMA SleepPast ==
  ASSUME SInv, SInv', Past, AttainedKept, RecMode = "RecKoala2", SleepStep
  PROVE  Past'
<1>1. ASSUME NEW r \in Replicas, NEW v \in Views, MonitorSleeps(r, v) \/ TimerLost(r, v)
      PROVE  Past'
  <2>1. /\ UNCHANGED <<view, before, timeoutBuffer, net>>
        /\ \/ UNCHANGED timers /\ monitor' = [monitor EXCEPT ![r][v] = "off"]
           \/ UNCHANGED monitor /\ timers' = [timers EXCEPT ![r] = timers[r] \ {v}]
    BY <1>1 DEF MonitorSleeps, TimerLost, MonitorGoto, vcVars, sleepVars
  <2>2. /\ monitor \in [Replicas -> [Views -> MonitorPoints]]
        /\ timers \in [Replicas -> SUBSET Views]
    BY DEF SInv, BlockInv, VTypes, NormalTypes
  <2>3. \A s \in Replicas : timers'[s] \subseteq timers[s]
    BY <2>1, <2>2
  <2>4. \A s \in Replicas, w \in Views : monitor'[s][w] = "wait" => monitor[s][w] = "wait"
    BY <2>1, <2>2
  <2> QED
    BY <2>1, <2>3, <2>4, SameViews, PastStays
<1>2. ASSUME NEW m \in net, DropMsg(m) \/ HandleRecMsg(m) PROVE Past'
  <2>1. UNCHANGED <<view, before, timeoutBuffer, timers, monitor>>
    BY <1>2 DEF DropMsg, HandleRecMsg, HandleRec1Msg, IgnoreEcho1, HandleEcho1Msg,
                HandleRec2Msg, LateEcho2, HandleEcho2Msg, vcVars, sleepVars
  <2>2. \A x \in net' \ net : x.type \in {"ECHO1", "ECHO2"}
    BY <1>2 DEF DropMsg, HandleRecMsg, HandleRec1Msg, IgnoreEcho1, HandleEcho1Msg,
                HandleRec2Msg, LateEcho2, HandleEcho2Msg, Echo1Msg, Echo2Msg
  <2> QED
    BY <2>1, <2>2, SameViews, PastStays
<1>3. ASSUME NEW m \in net, RecoveringTQC(m) PROVE Past'
  <2>1. /\ m \in TQCMsgs /\ Cardinality(m.ids) >= QuorumSize
        /\ view' = [view EXCEPT ![m.dst] = m.view + 1]
        /\ \A x \in net' \ net : \E d \in Replicas : x = [m EXCEPT !.dst = d]
    BY <1>3, RecoveringTQCEffect
  <2>2. /\ UNCHANGED <<before, monitor, timers>>
        /\ timeoutBuffer' \in {timeoutBuffer,
                               [timeoutBuffer EXCEPT ![m.dst][m.view] = m.ids]}
    BY <1>3 DEF RecoveringTQC
  <2>3. m.type = "TQC"
    BY <2>1 DEF TQCMsgs
  <2>4. \A x \in net' \ net : x.type = "TQC" /\ x.view = m.view /\ x.ids = m.ids
    BY <2>1 DEF TQCMsgs
  <2> QED
    BY <2>1, <2>2, <2>3, <2>4, TQCPast
<1>4. ASSUME NEW r \in Replicas, FallAsleep(r) PROVE Past'
  <2>1. /\ UNCHANGED <<view, timeoutBuffer, timers, monitor, net>>
        /\ before' = [before EXCEPT ![r] = [view |-> view[r], lock |-> lockedBlock[r]]]
    BY <1>4 DEF FallAsleep, vcVars
  <2>2. \A s \in Replicas : before'[s].view \in {before[s].view, view[s]}
    BY <2>1 DEF SInv, SleepTypes, RecTypes
  <2>3. \A s \in Replicas : view'[s] <= view[s]
    BY <2>1, ViewTypes
  <2> QED
    BY <2>1, <2>2, <2>3, PastStays
<1>5. ASSUME NEW r \in Replicas, WakeUp(r) PROVE Past'
  <2>1. /\ UNCHANGED <<before, timers, monitor, net>>
        /\ view' = [view EXCEPT ![r] = 0]
        /\ timeoutBuffer' = [timeoutBuffer EXCEPT ![r] = [v \in Views |-> {}]]
    BY <1>5 DEF WakeUp
  <2>2. \A s \in Replicas : view'[s] <= view[s]
    BY <2>1, ViewTypes DEF SInv, BlockInv, VTypes, NormalTypes
  <2>3. BuffersFollow
    <3>1. \A s \in Replicas, v \in Views : timeoutBuffer'[s][v] \subseteq timeoutBuffer[s][v]
      BY <2>1 DEF SInv, BlockInv, VTypes, BufferTypes
    <3>2. \A s \in Replicas, v \in Views : \A i \in timeoutBuffer[s][v] :
            i \in Replicas /\ Attained(i, v)
      BY DEF Past, AllTold, AllAttained, SInv, BlockInv, VTypes, BufferTypes
    <3> QED
      BY <3>1, <3>2, ViewTypes DEF BuffersFollow, AttainedKept
  <2>4. TimersFollow /\ \A m \in net' \ net : Told(m)'
    BY <2>1 DEF TimersFollow
  <2> QED
    BY <2>1, <2>2, <2>3, <2>4, ViewsSame, PastMoves
<1>6. ASSUME NEW r \in Replicas, RecoveryProcess(r) \/ SendRec2(r) PROVE Past'
  <2>1. RecoverKoala2(r) \/ SendRec2(r)
    BY <1>6 DEF RecoveryProcess, RecoverFromDisk, NoRecovery
  <2>2. /\ UNCHANGED <<view, before, timeoutBuffer, timers, monitor>>
        /\ \A x \in net' \ net : x.type \in {"REC1", "REC2"}
    BY <2>1 DEF RecoverKoala2, SendRec2, Rec1Msg, Rec2Msg, vcVars
  <2> QED
    BY <2>2, SameViews, PastStays
<1>7. CASE \E m \in net : DropMsg(m) \/ DispatchRec(m)
  BY <1>7, <1>2, <1>3 DEF DispatchRec
<1> QED
  BY <1>1, <1>4, <1>5, <1>6, <1>7 DEF SleepStep

LEMMA PastStep ==
  ASSUME SInv, SInv', Past, RecMode = "RecKoala2", PersistLevel = "NoPersist",
         [SleepyNext]_sleepyVars
  PROVE  Past'
<1>1. AttainedKept
  BY AttainedStep
<1>2. CASE UNCHANGED sleepyVars
  <2>1. UNCHANGED <<view, before, timers, monitor, timeoutBuffer, net>>
    BY <1>2 DEF sleepyVars, sleepVars, allVars, vcVars, vars
  <2> QED
    BY <1>1, <2>1, SameViews, PastStays
<1>3. CASE \E r \in Replicas, v \in Views : SleepyMonitor(r, v) \/ SleepyTimeout(r, v)
  BY <1>1, <1>3, MonitorPast, TimeoutPast
<1>4. CASE \E r \in Replicas, req \in Requests : SleepyRequest(r, req)
  BY <1>1, <1>4, RequestPast
<1>5. CASE \E m \in net : DispatchNormal(m) \/ DispatchVC(m)
  BY <1>1, <1>5, NormalPast, ViewChangePast
<1>6. CASE SleepStep
  BY <1>1, <1>6, SleepPast
<1> QED
  BY <1>2, <1>3, <1>4, <1>5, <1>6 DEF SleepyNext, SleepStep

----------------------------------------------------------------------------
(* One of the quorum behind a view is among those who answer.              *)

LEMMA FirstRoundTypes ==
  ASSUME SInv
  PROVE  /\ \A m \in FirstRound : Asker(m) \in Replicas /\ Answerer(m) \in Replicas
         /\ \A m \in FirstRound : m.type = "ECHO1" => m.view \in Int
         /\ \A r \in Replicas : hView[r] \in Int /\ recBuffer[r]["REC1"] \in Nat
BY ConstantsAssumption DEF SInv, BlockInv, VTypes, MsgFields, FirstRound, Asker, Answerer,
   SleepTypes, RecMsgFields, RecTypes, Requested

LEMMA WitnessMoves ==
  ASSUME SInv, SInv', AttainedKept, NEW r \in Replicas, NEW Q \in SUBSET Replicas,
         NEW A \in SUBSET Replicas, Witnessed(r, Q, A),
         before'[r] = before[r], recBuffer'[r]["REC1"] = recBuffer[r]["REC1"],
         hView'[r] >= hView[r],
         \A m \in FirstRound' : Asker(m) = r => m \in FirstRound
  PROVE  Witnessed(r, Q, A)'
<1>1. AllAttained(Q, before[r].view - 1)'
  BY ViewTypes DEF Witnessed, AllAttained, AttainedKept
<1>2. hView'[r] \in Int /\ hView[r] \in Int /\ before[r].view \in Int
  BY ViewTypes, ConstantsAssumption DEF SInv, SleepTypes, RecTypes
<1>3. A \cap Q # {} => hView'[r] >= before[r].view - 2
  BY <1>2 DEF Witnessed
<1> QED
  BY <1>1, <1>3 DEF Witnessed, AllAttained

\* A step that neither asks nor answers, at least for the first round.
LEMMA AnswersStay ==
  ASSUME SInv, SInv', Answers, AttainedKept,
         UNCHANGED <<sleepProc, before, hView, recBuffer>>,
         FirstRound' \subseteq FirstRound,
         \A s \in Replicas : sleepProc[s] = "done" =>
           /\ "REC1" \in recPrepared'[s] => "REC1" \in recPrepared[s]
           /\ view'[s] >= view[s]
           /\ ~Down(s)' => reqHash'[s] = "REC2"
           /\ reqHash'[s] = "REC2" => reqHash[s] = "REC2" \/ view'[s] > before[s].view
  PROVE  Answers'
<1>1. OneAnswer'
  BY DEF Answers, OneAnswer
<1>2. NothingCounted'
  BY DEF Answers, NothingCounted
<1>3. Witnesses'
  <2> SUFFICES ASSUME NEW r \in Replicas, sleepProc[r] # "awake"
               PROVE  \E Q, A \in SUBSET Replicas : Witnessed(r, Q, A)'
    BY DEF Witnesses
  <2>1. PICK Q \in SUBSET Replicas, A \in SUBSET Replicas : Witnessed(r, Q, A)
    BY DEF Answers, Witnesses
  <2>2. hView'[r] >= hView[r]
    BY FirstRoundTypes
  <2>3. Witnessed(r, Q, A)'
    BY <2>1, <2>2, WitnessMoves
  <2> QED
    BY <2>3
<1>4. Caught'
  <2>1. \A s \in Replicas : view[s] \in Int /\ view'[s] \in Int /\ before[s].view \in Int
    BY ViewTypes DEF SInv, BlockInv, VTypes, NormalTypes, Views
  <2> QED
    BY <2>1 DEF Answers, Caught
<1> QED
  BY <1>1, <1>2, <1>3, <1>4 DEF Answers

LEMMA ProtocolAnswers ==
  ASSUME SInv, SInv', Answers, AttainedKept, ProtocolEffect
  PROVE  Answers'
<1>1. UNCHANGED <<sleepProc, reqHash, hView, recBuffer, recPrepared, before>>
  <2>1. UNCHANGED <<sleepProc, recVars, before>>
    BY Zenon DEF ProtocolEffect
  <2> QED
    BY <2>1 DEF recVars
<1>2. Grown /\ DownRest
  <2>1. Grown
    BY Zenon DEF ProtocolEffect
  <2>2. DownRest
    BY Zenon DEF ProtocolEffect
  <2> QED
    BY <2>1, <2>2
<1>3. FirstRound' \subseteq FirstRound
  <2>1. \A m \in net' \ net : m.type \in ProtocolTypes
    BY DEF ProtocolEffect
  <2> QED
    BY <2>1 DEF FirstRound, ProtocolTypes
<1>4. \A s \in Replicas : ~Down(s)' => ~Down(s)
  BY <1>2 DEF DownRest, Down
<1>5. \A s \in Replicas : view'[s] >= view[s]
  BY <1>2 DEF Grown
<1>6. \A s \in Replicas : sleepProc[s] = "done" => (~Down(s)' => reqHash'[s] = "REC2")
  BY <1>1, <1>4 DEF Answers, Caught
<1> QED
  BY <1>1, <1>3, <1>5, <1>6, AnswersStay

\* Steps that leave the recovery of every replica where it is.
LEMMA RestAnswers ==
  ASSUME SInv, SInv', Answers, AttainedKept,
         UNCHANGED <<sleepProc, curStatus, reqHash, hView, recBuffer, recPrepared, before>>,
         \A s \in Replicas : view'[s] >= view[s],
         FirstRound' \subseteq FirstRound
  PROVE  Answers'
<1>1. \A s \in Replicas : sleepProc[s] = "done" => (~Down(s)' => reqHash'[s] = "REC2")
  BY DEF Answers, Caught, Down
<1> QED
  BY <1>1, AnswersStay

LEMMA QuietAnswers ==
  ASSUME SInv, SInv', Answers, AttainedKept,
         \/ \E r \in Replicas, v \in Views : MonitorSleeps(r, v) \/ TimerLost(r, v)
         \/ \E m \in net : DropMsg(m) \/ IgnoreEcho1(m) \/ HandleRec2Msg(m) \/ LateEcho2(m)
                           \/ RecoveringTQC(m)
         \/ UNCHANGED sleepyVars
  PROVE  Answers'
<1>1. UNCHANGED <<sleepProc, curStatus, reqHash, hView, recBuffer, recPrepared, before>>
  BY DEF MonitorSleeps, TimerLost, DropMsg, IgnoreEcho1, HandleRec2Msg, LateEcho2,
         RecoveringTQC, sleepyVars, allVars, vars, sleepVars, recVars
<1>2. \A s \in Replicas : view'[s] >= view[s]
  <2>1. CASE UNCHANGED view
    BY <2>1, ViewTypes
  <2>2. CASE \E m \in net : RecoveringTQC(m)
    <3>1. PICK m \in net : RecoveringTQC(m)
      BY <2>2
    <3>2. /\ m.dst \in Replicas /\ view[m.dst] <= m.view /\ m.view \in Views
          /\ view' = [view EXCEPT ![m.dst] = m.view + 1]
      BY <3>1, RecoveringTQCEffect
    <3>3. view \in [Replicas -> Views]
      BY DEF SInv, BlockInv, VTypes, NormalTypes
    <3>4. view'[m.dst] = m.view + 1 /\ \A s \in Replicas \ {m.dst} : view'[s] = view[s]
      BY <3>2, <3>3
    <3> QED
      BY <3>2, <3>4, ViewTypes
  <2> QED
    BY <2>1, <2>2 DEF MonitorSleeps, TimerLost, DropMsg, IgnoreEcho1, HandleRec2Msg,
                      LateEcho2, sleepyVars, allVars, vars
<1>3. FirstRound' \subseteq FirstRound
  <2>1. \A x \in net' \ net : x.type \in {"TQC", "ECHO2"}
    <3>1. CASE \E m \in net : RecoveringTQC(m)
      <4>1. PICK m \in net : RecoveringTQC(m)
        BY <3>1
      <4>2. m \in TQCMsgs /\ \A x \in net' \ net : \E d \in Replicas : x = [m EXCEPT !.dst = d]
        BY <4>1, RecoveringTQCEffect
      <4>3. ASSUME NEW x \in net' \ net PROVE x.type = "TQC"
        <5>1. PICK d \in Replicas : x = [m EXCEPT !.dst = d]
          BY <4>2
        <5> QED
          BY <4>2, <5>1 DEF TQCMsgs
      <4> QED
        BY <4>3
    <3>2. CASE ~ \E m \in net : RecoveringTQC(m)
      BY <3>2 DEF MonitorSleeps, TimerLost, DropMsg, IgnoreEcho1, HandleRec2Msg, LateEcho2,
                  Echo2Msg, sleepyVars, allVars, vars
    <3> QED
      BY <3>1, <3>2
  <2> QED
    BY <2>1 DEF FirstRound
<1> QED
  BY <1>1, <1>2, <1>3, RestAnswers

LEMMA SecondRoundAnswers ==
  ASSUME SInv, SInv', Answers, AttainedKept, NEW m \in net, HandleEcho2Msg(m)
  PROVE  Answers'
<1> DEFINE r == m.dst
<1>1. r \in Replicas /\ m.type = "ECHO2" /\ m.hash = "REC2"
  BY DEF HandleEcho2Msg, SInv, BlockInv, VTypes, MsgFields, SleepTypes, RecMsgFields
<1>2. /\ UNCHANGED <<sleepProc, before, hView, reqHash, view>>
      /\ recBuffer' = [recBuffer EXCEPT ![r]["REC2"] = recBuffer[r]["REC2"] + 1]
      /\ recPrepared' \in {recPrepared, [recPrepared EXCEPT ![r] = recPrepared[r] \cup {"REC2"}]}
      /\ curStatus' \in {curStatus, [curStatus EXCEPT ![r] = "READY"]}
      /\ net' \subseteq net
      /\ reqHash[r] = "REC2" /\ curStatus[r] = "RECOVERING"
  BY <1>1 DEF HandleEcho2Msg, Unexpected
<1>3. \A s \in Replicas : /\ recBuffer'[s]["REC1"] = recBuffer[s]["REC1"]
                          /\ "REC1" \in recPrepared'[s] => "REC1" \in recPrepared[s]
                          /\ s # r => curStatus'[s] = curStatus[s]
  <2>1. /\ recBuffer \in [Replicas -> [Requested -> Nat]]
        /\ recPrepared \in [Replicas -> SUBSET Requested]
        /\ curStatus \in [Replicas -> Status]
    BY DEF SInv, SleepTypes, RecTypes, BlockInv, VTypes, NormalTypes
  <2> HIDE DEF SInv, r
  <2>2. \A s \in Replicas : recBuffer'[s]["REC1"] = recBuffer[s]["REC1"]
    BY <1>2, <2>1 DEF Requested
  <2>3. \A s \in Replicas : "REC1" \in recPrepared'[s] => "REC1" \in recPrepared[s]
    BY <1>2, <2>1
  <2>4. \A s \in Replicas : s # r => curStatus'[s] = curStatus[s]
    BY <1>2, <2>1
  <2> QED
    BY <2>2, <2>3, <2>4
<1>4. FirstRound' \subseteq FirstRound
  BY <1>2 DEF FirstRound
<1>5. OneAnswer'
  BY <1>2, <1>4 DEF Answers, OneAnswer
<1>6. NothingCounted'
  BY <1>2, <1>3 DEF Answers, NothingCounted
<1>7. Witnesses'
  <2> SUFFICES ASSUME NEW s \in Replicas, sleepProc[s] # "awake"
               PROVE  \E Q, A \in SUBSET Replicas : Witnessed(s, Q, A)'
    BY <1>2 DEF Witnesses
  <2>1. PICK Q \in SUBSET Replicas, A \in SUBSET Replicas : Witnessed(s, Q, A)
    BY DEF Answers, Witnesses
  <2>2. hView'[s] >= hView[s]
    BY <1>2, FirstRoundTypes
  <2>3. Witnessed(s, Q, A)'
    BY <1>2, <1>3, <1>4, <2>1, <2>2, WitnessMoves
  <2> QED
    BY <2>3
<1>8. Caught'
  BY <1>2, <1>3 DEF Answers, Caught, Down
<1> QED
  BY <1>5, <1>6, <1>7, <1>8 DEF Answers

\* The replica that moves is witnessed anew, the others as they were.
LEMMA OthersWitnessed ==
  ASSUME SInv, SInv', Witnesses, AttainedKept, NEW r \in Replicas,
         \A s \in Replicas \ {r} : /\ sleepProc'[s] = sleepProc[s]
                                   /\ before'[s] = before[s]
                                   /\ recBuffer'[s] = recBuffer[s]
                                   /\ hView'[s] = hView[s],
         \A m \in FirstRound' : Asker(m) # r => m \in FirstRound,
         \E Q, A \in SUBSET Replicas : Witnessed(r, Q, A)'
  PROVE  Witnesses'
<1> SUFFICES ASSUME NEW s \in Replicas, s # r, sleepProc[s] # "awake"
             PROVE  \E Q, A \in SUBSET Replicas : Witnessed(s, Q, A)'
  BY DEF Witnesses
<1>1. PICK Q \in SUBSET Replicas, A \in SUBSET Replicas : Witnessed(s, Q, A)
  BY DEF Witnesses
<1>2. hView'[s] >= hView[s]
  BY FirstRoundTypes
<1>3. \A m \in FirstRound' : Asker(m) = s => m \in FirstRound
  OBVIOUS
<1>4. Witnessed(s, Q, A)'
  BY <1>1, <1>2, <1>3, WitnessMoves
<1> QED
  BY <1>4

\* A REC1 becomes an ECHO1 of whoever answers it, who is not behind the views it
\* stood for.
LEMMA AskedAnswers ==
  ASSUME SInv, SInv', Answers, AttainedKept, NEW m \in net, Admits(m), HandleRec1Msg(m)
  PROVE  Answers'
<1> DEFINE s == m.dst
           r == m.src
           e == Echo1Msg(s, r, view[s] - 1,
                         IF view[s] - 1 \in Views THEN timeoutBuffer[s][view[s] - 1] ELSE {})
<1>1. /\ m.type = "REC1" /\ net' = (net \ {m}) \cup {e}
      /\ UNCHANGED <<view, curStatus, sleepProc, reqHash, hView, recBuffer, recPrepared, before>>
  BY DEF HandleRec1Msg, sleepVars, recVars
<1>2. m \in FirstRound /\ Asker(m) = r /\ Answerer(m) = s
  BY <1>1 DEF FirstRound, Asker, Answerer
<1>3. r \in Replicas /\ s \in Replicas
  BY <1>2, FirstRoundTypes
<1>4. e.type = "ECHO1" /\ e.src = s /\ e.view = view[s] - 1 /\ Asker(e) = r /\ Answerer(e) = s
  BY DEF Echo1Msg, Asker, Answerer
<1> HIDE DEF r, s, e
<1>5. FirstRound' = (FirstRound \ {m}) \cup {e}
  BY <1>1, <1>4 DEF FirstRound
<1>6. ~Down(s)
  BY <1>1 DEF Admits, Down, s
<1>7. OneAnswer'
  <2>1. \A x \in FirstRound' : sleepProc'[Asker(x)] = "done"
    BY <1>1, <1>2, <1>4, <1>5 DEF Answers, OneAnswer
  <2>2. \A x \in FirstRound' : Asker(x) = r /\ Answerer(x) = s => x = e
    BY <1>2, <1>5 DEF Answers, OneAnswer
  <2>3. \A x, y \in FirstRound' :
          Asker(x) = Asker(y) /\ Answerer(x) = Answerer(y) => x = y
    BY <1>4, <1>5, <2>2 DEF Answers, OneAnswer
  <2> QED
    BY <2>1, <2>3 DEF OneAnswer
<1>8. NothingCounted' /\ Caught'
  BY <1>1 DEF Answers, NothingCounted, Caught, Down
<1>9. sleepProc[r] = "done"
  BY <1>2 DEF Answers, OneAnswer
<1>10. \E Q, A \in SUBSET Replicas : Witnessed(r, Q, A)'
  <2>1. PICK Q \in SUBSET Replicas, A \in SUBSET Replicas : Witnessed(r, Q, A)
    BY <1>3, <1>9 DEF Answers, Witnesses
  <2>2. before'[r] = before[r] /\ hView'[r] = hView[r] /\ recBuffer'[r] = recBuffer[r]
    BY <1>1
  <2>3. AllAttained(Q, before[r].view - 1)'
    BY <1>1, <2>1 DEF Witnessed, AllAttained, Attained
  <2>4. s \in Q => view[s] - 1 >= before[r].view - 2
    <3> SUFFICES ASSUME s \in Q PROVE view[s] - 1 >= before[r].view - 2
      OBVIOUS
    <3>1. Attained(s, before[r].view - 1)
      BY <2>1 DEF Witnessed, AllAttained
    <3>2. sleepProc[s] \in {"awake", "done"}
      BY <1>3, <1>6 DEF SInv, Phases, PhaseOf, SleepTypes, RecTypes, Down
    <3>3. sleepProc[s] = "awake" => before[s].view = -1
      BY <1>3 DEF SInv, Phases, PhaseOf
    <3>4. sleepProc[s] = "done" => view[s] > before[s].view
      BY <1>3, <1>6 DEF Answers, Caught
    <3>5. view[s] \in Nat /\ before[s].view \in Int /\ before[r].view \in Int
      BY <1>3, ViewTypes
    <3> QED
      BY <3>1, <3>2, <3>3, <3>4, <3>5 DEF Attained
  <2>5. \A x \in FirstRound' : Asker(x) = r =>
          /\ Answerer(x) \notin A
          /\ x.type = "ECHO1" /\ x.src \in Q => x.view >= before[r].view - 2
    BY <1>2, <1>4, <1>5, <2>1, <2>4 DEF Witnessed
  <2>6. Witnessed(r, Q, A)'
    BY <2>1, <2>2, <2>3, <2>5 DEF Witnessed
  <2> QED
    BY <2>6
<1>11. Witnesses'
  BY <1>1, <1>3, <1>4, <1>5, <1>10, OthersWitnessed DEF Answers
<1> QED
  BY <1>7, <1>8, <1>11 DEF Answers

\* An ECHO1 that is counted adds its sender to those who have answered; the last
\* one makes them a quorum, which meets the quorum behind the view.
LEMMA CountedAnswers ==
  ASSUME SInv, SInv', Answers, AttainedKept, NEW m \in net, HandleEcho1Msg(m),
         RecQuorum \in Nat, QuorumSize + RecQuorum > N
  PROVE  Answers'
<1> DEFINE r == m.dst
           s == m.src
<1>1. /\ m.type = "ECHO1" /\ net' = net \ {m}
      /\ UNCHANGED <<view, curStatus, sleepProc, reqHash, before>>
      /\ hView' = [hView EXCEPT ![r] = Larger(hView[r], m.view)]
      /\ recBuffer' = [recBuffer EXCEPT ![r]["REC1"] = recBuffer[r]["REC1"] + 1]
      /\ \/ UNCHANGED recPrepared
         \/ Completes(r, "REC1")
            /\ recPrepared' = [recPrepared EXCEPT ![r] = recPrepared[r] \cup {"REC1"}]
      /\ curStatus[r] = "RECOVERING" /\ m.hash \notin recPrepared[r]
  BY DEF HandleEcho1Msg, Unexpected
<1>2. m \in FirstRound /\ Asker(m) = r /\ Answerer(m) = s
  BY <1>1 DEF FirstRound, Asker, Answerer
<1>3. r \in Replicas /\ s \in Replicas /\ m.view \in Int /\ m.hash = "REC1"
  <2>1. m.hash = "REC1"
    BY <1>1 DEF SInv, SleepTypes, RecMsgFields
  <2> QED
    BY <1>1, <1>2, <2>1, FirstRoundTypes
<1>4. /\ hView \in [Replicas -> -2..MaxView]
      /\ recBuffer \in [Replicas -> [Requested -> Nat]]
      /\ recPrepared \in [Replicas -> SUBSET Requested]
  BY DEF SInv, SleepTypes, RecTypes
<1> HIDE DEF r, s
<1>5. FirstRound' = FirstRound \ {m}
  BY <1>1 DEF FirstRound
<1>6. sleepProc[r] = "done"
  BY <1>2 DEF Answers, OneAnswer
<1>7. \A q \in Replicas \ {r} : /\ hView'[q] = hView[q] /\ recBuffer'[q] = recBuffer[q]
                                /\ recPrepared'[q] = recPrepared[q]
  <2>1. \A q \in Replicas \ {r} : hView'[q] = hView[q]
    BY <1>1, <1>4
  <2>2. \A q \in Replicas \ {r} : recBuffer'[q] = recBuffer[q]
    BY <1>1, <1>4
  <2>3. \A q \in Replicas \ {r} : recPrepared'[q] = recPrepared[q]
    BY <1>1, <1>4
  <2> QED
    BY <2>1, <2>2, <2>3
<1>8. recBuffer'[r]["REC1"] = recBuffer[r]["REC1"] + 1 /\ recBuffer[r]["REC1"] \in Nat
  BY <1>1, <1>3, <1>4 DEF Requested
<1>9. hView'[r] >= m.view /\ hView'[r] >= hView[r] /\ hView'[r] \in Int /\ hView[r] \in Int
  <2>1. hView'[r] = Larger(hView[r], m.view) /\ hView[r] \in Int
    BY <1>1, <1>3, <1>4, ConstantsAssumption
  <2> QED
    BY <1>3, <2>1 DEF Larger
<1>10. before[r].view \in Int
  BY <1>3, ViewTypes
<1>11. OneAnswer' /\ NothingCounted'
  BY <1>1, <1>5, <1>6, <1>7 DEF Answers, OneAnswer, NothingCounted
<1>12. PICK Q \in SUBSET Replicas, A \in SUBSET Replicas : Witnessed(r, Q, A)
  BY <1>3, <1>6 DEF Answers, Witnesses
<1>13. s \notin A
  BY <1>2, <1>12 DEF Witnessed
<1> DEFINE B == A \cup {s}
<1>14. IsFiniteSet(Replicas) /\ Cardinality(Replicas) = N
  BY ConstantsAssumption, FS_Interval DEF Replicas
<1>15. /\ IsFiniteSet(A) /\ IsFiniteSet(Q)
       /\ Cardinality(A) \in Nat /\ Cardinality(Q) \in Nat
       /\ Cardinality(B) = Cardinality(A) + 1
  BY <1>13, <1>14, FS_Subset, FS_CardinalityType, FS_AddElement
<1>16. B \in SUBSET Replicas
  BY <1>3
<1> HIDE DEF B
<1>17. B \cap Q # {} => hView'[r] >= before[r].view - 2
  <2>1. CASE A \cap Q # {}
    BY <1>9, <1>10, <1>12, <2>1 DEF Witnessed
  <2>2. CASE s \in Q
    <3>1. m.view >= before[r].view - 2
      BY <1>1, <1>2, <1>12, <2>2 DEF Witnessed, s
    <3> QED
      BY <1>3, <1>9, <1>10, <3>1
  <2> QED
    BY <2>1, <2>2 DEF B
<1>18. Witnessed(r, Q, B)'
  <2>1. AllAttained(Q, before[r].view - 1)'
    BY <1>1, <1>12 DEF Witnessed, AllAttained, Attained
  <2>2. \A x \in FirstRound' : Asker(x) = r =>
          /\ Answerer(x) \notin B
          /\ x.type = "ECHO1" /\ x.src \in Q => x.view >= before[r].view - 2
    BY <1>2, <1>5, <1>12 DEF Witnessed, Answers, OneAnswer, B
  <2>3. Cardinality(B) >= recBuffer'[r]["REC1"]
    BY <1>8, <1>12, <1>15 DEF Witnessed
  <2>4. Cardinality(Q) >= QuorumSize
    BY <1>12 DEF Witnessed
  <2> QED
    BY <1>1, <1>17, <2>1, <2>2, <2>3, <2>4 DEF Witnessed
<1>19. Witnesses'
  <2>1. \E S, T \in SUBSET Replicas : Witnessed(r, S, T)'
    BY <1>16, <1>18
  <2> QED
    BY <1>1, <1>3, <1>5, <1>7, <2>1, OthersWitnessed DEF Answers
<1>20. "REC1" \in recPrepared'[r] => hView'[r] >= before[r].view - 2
  <2> SUFFICES ASSUME "REC1" \in recPrepared'[r] PROVE B \cap Q # {}
    BY <1>17
  <2>1. Completes(r, "REC1")
    BY <1>1, <1>3
  <2>2. Cardinality(B) + Cardinality(Q) > Cardinality(Replicas)
    BY <1>8, <1>12, <1>14, <1>15, <2>1, ConstantsAssumption DEF Completes, Witnessed
  <2> QED
    BY <1>14, <1>16, <2>2, FS_MajoritiesIntersect
<1>21. Caught'
  <2>1. ASSUME NEW q \in Replicas, sleepProc[q] = "done" PROVE Caught!(q)'
    <3>1. CASE q = r
      BY <1>1, <1>20, <2>1, <3>1 DEF Answers, Caught, Down
    <3>2. CASE q # r
      BY <1>1, <1>7, <2>1, <3>2 DEF Answers, Caught, Down
    <3> QED
      BY <3>1, <3>2
  <2> QED
    BY <1>1, <2>1 DEF Caught
<1> QED
  BY <1>11, <1>19, <1>21 DEF Answers

\* The loop of HandleEcho1Msg ends in a view later than the one it fell asleep in.
LEMMA SendRec2Answers ==
  ASSUME SInv, SInv', Answers, AttainedKept, NEW r \in Replicas, SendRec2(r)
  PROVE  Answers'
<1>1. /\ UNCHANGED <<view, curStatus, sleepProc, hView, recBuffer, recPrepared, before>>
      /\ spinning[r] /\ view[r] > hView[r] + 2
      /\ reqHash' = [reqHash EXCEPT ![r] = "REC2"]
      /\ net' = net \cup { Rec2Msg(r, d, view[r]) : d \in Others(r) }
  BY DEF SendRec2, Passed
<1>2. Down(r) /\ "REC1" \in recPrepared[r] /\ sleepProc[r] = "done"
  BY <1>1 DEF SInv, Phases, PhaseOf, Down
<1>3. view[r] > before[r].view
  <2>1. hView[r] >= before[r].view - 2
    BY <1>2 DEF Answers, Caught
  <2>2. view[r] \in Int /\ hView[r] \in Int /\ before[r].view \in Int
    BY ViewTypes, FirstRoundTypes
  <2> QED
    BY <1>1, <2>1, <2>2
<1>4. FirstRound' \subseteq FirstRound
  BY <1>1 DEF FirstRound, Rec2Msg
<1>5. \A s \in Replicas \ {r} : reqHash'[s] = reqHash[s]
  BY <1>1 DEF SInv, SleepTypes, RecTypes
<1>6. \A s \in Replicas : sleepProc[s] = "done" =>
        /\ view'[s] >= view[s]
        /\ ~Down(s)' => reqHash'[s] = "REC2"
        /\ reqHash'[s] = "REC2" => reqHash[s] = "REC2" \/ view'[s] > before[s].view
  BY <1>1, <1>2, <1>3, <1>5, ViewTypes DEF Answers, Caught, Down
<1> QED
  BY <1>1, <1>4, <1>6, AnswersStay

\* Whoever falls asleep has a quorum behind the view before its own.
LEMMA FallAsleepAnswers ==
  ASSUME SInv, SInv', Past, Answers, AttainedKept, NEW r \in Replicas, FallAsleep(r)
  PROVE  Answers'
<1>1. /\ UNCHANGED <<view, hView, recBuffer, recPrepared, reqHash, net>>
      /\ sleepProc[r] = "awake"
      /\ curStatus' = [curStatus EXCEPT ![r] = "SLEEPING"]
      /\ sleepProc' = [sleepProc EXCEPT ![r] = "asleep"]
      /\ before' = [before EXCEPT ![r] = [view |-> view[r], lock |-> lockedBlock[r]]]
  BY DEF FallAsleep, recVars
<1>2. /\ sleepProc'[r] = "asleep" /\ before'[r].view = view[r]
      /\ \A s \in Replicas \ {r} : /\ sleepProc'[s] = sleepProc[s] /\ before'[s] = before[s]
                                   /\ curStatus'[s] = curStatus[s]
  <2>1. /\ sleepProc \in [Replicas -> {"awake", "asleep", "woken", "done", "ended"}]
        /\ before \in [Replicas -> [view: Views \cup {-1}, lock: Certs]]
        /\ curStatus \in [Replicas -> Status]
    BY DEF SInv, SleepTypes, RecTypes, BlockInv, VTypes, NormalTypes
  <2> QED
    BY <1>1, <2>1
<1>3. FirstRound' = FirstRound
  BY <1>1 DEF FirstRound
<1>4. \A m \in FirstRound : Asker(m) # r /\ Asker(m) \in Replicas
  BY <1>1, FirstRoundTypes DEF Answers, OneAnswer
<1>5. OneAnswer'
  BY <1>2, <1>3, <1>4 DEF Answers, OneAnswer
<1>6. NothingCounted'
  BY <1>1, <1>2 DEF Answers, NothingCounted
<1>7. Caught'
  BY <1>1, <1>2 DEF Answers, Caught, Down
<1>8. PICK Q \in SUBSET Replicas :
        Cardinality(Q) >= QuorumSize /\ AllAttained(Q, view[r] - 1)'
  <2>1. CASE view[r] = 0
    <3>1. Cardinality(Replicas) >= QuorumSize
      BY ConstantsAssumption, FS_Interval DEF Replicas
    <3>2. AllAttained(Replicas, view[r] - 1)'
      BY <1>1, <2>1, ViewTypes DEF AllAttained, Attained
    <3> QED
      BY <1>1, <3>1, <3>2
  <2>2. CASE view[r] # 0
    <3>1. view[r] - 1 \in Views /\ view[r] \in Nat
      BY <2>2, ViewTypes, ConstantsAssumption DEF Views
    <3>2. PICK v \in Views : v \in Int /\ view[r] = v + 1
      BY <3>1
    <3>3. QuorumAttained(v)
      BY <3>2 DEF Past, Backing, Attained
    <3>4. QuorumAttained(v)'
      BY <3>2, <3>3, QuorumKept
    <3>5. view'[r] - 1 = v
      BY <1>1, <3>2
    <3>6. \A S : AllAttained(S, v)' => AllAttained(S, view[r] - 1)'
      BY <3>5 DEF AllAttained, Attained
    <3> QED
      BY <3>4, <3>6 DEF QuorumAttained
  <2> QED
    BY <2>1, <2>2
<1>9. Witnessed(r, Q, {})'
  <2>1. Cardinality({}) = 0 /\ recBuffer'[r]["REC1"] = 0
    BY <1>1, FS_EmptySet DEF Answers, NothingCounted
  <2>2. AllAttained(Q, before[r].view - 1)'
    BY <1>1, <1>2, <1>8 DEF AllAttained
  <2> QED
    BY <1>3, <1>4, <1>8, <2>1, <2>2 DEF Witnessed
<1>10. Witnesses'
  BY <1>1, <1>2, <1>3, <1>9, OthersWitnessed DEF Answers
<1> QED
  BY <1>5, <1>6, <1>7, <1>10 DEF Answers

\* Waking up clears counters that are zero.
LEMMA WakeUpAnswers ==
  ASSUME SInv, SInv', Answers, AttainedKept, NEW r \in Replicas, WakeUp(r)
  PROVE  Answers'
<1>1. /\ UNCHANGED <<curStatus, hView, reqHash, before, net>>
      /\ sleepProc[r] = "asleep"
      /\ sleepProc' = [sleepProc EXCEPT ![r] = "woken"]
      /\ view' = [view EXCEPT ![r] = 0]
      /\ recBuffer' = [recBuffer EXCEPT ![r] = [q \in Requested |-> 0]]
      /\ recPrepared' = [recPrepared EXCEPT ![r] = {}]
  BY DEF WakeUp
<1>2. /\ sleepProc'[r] = "woken" /\ recBuffer'[r]["REC1"] = 0
      /\ \A s \in Replicas \ {r} :
           /\ sleepProc'[s] = sleepProc[s] /\ view'[s] = view[s]
           /\ recBuffer'[s] = recBuffer[s] /\ recPrepared'[s] = recPrepared[s]
  <2>1. /\ sleepProc \in [Replicas -> {"awake", "asleep", "woken", "done", "ended"}]
        /\ recBuffer \in [Replicas -> [Requested -> Nat]]
        /\ recPrepared \in [Replicas -> SUBSET Requested]
        /\ view \in [Replicas -> Views]
    BY DEF SInv, SleepTypes, RecTypes, BlockInv, VTypes, NormalTypes
  <2> QED
    BY <1>1, <2>1 DEF Requested
<1>3. FirstRound' = FirstRound
  BY <1>1 DEF FirstRound
<1>4. \A m \in FirstRound : Asker(m) # r /\ Asker(m) \in Replicas
  BY <1>1, FirstRoundTypes DEF Answers, OneAnswer
<1>5. OneAnswer'
  BY <1>2, <1>3, <1>4 DEF Answers, OneAnswer
<1>6. NothingCounted'
  BY <1>1, <1>2 DEF Answers, NothingCounted
<1>7. Caught'
  BY <1>1, <1>2 DEF Answers, Caught, Down
<1>8. \E Q, A \in SUBSET Replicas : Witnessed(r, Q, A)'
  <2>1. PICK Q \in SUBSET Replicas, A \in SUBSET Replicas : Witnessed(r, Q, A)
    BY <1>1 DEF Answers, Witnesses
  <2>2. recBuffer'[r]["REC1"] = recBuffer[r]["REC1"]
    BY <1>1, <1>2 DEF Answers, NothingCounted
  <2>3. hView'[r] >= hView[r]
    BY <1>1, FirstRoundTypes
  <2>4. Witnessed(r, Q, A)'
    BY <1>1, <1>3, <2>1, <2>2, <2>3, WitnessMoves
  <2> QED
    BY <2>4
<1>9. Witnesses'
  BY <1>1, <1>2, <1>3, <1>8, OthersWitnessed DEF Answers
<1> QED
  BY <1>5, <1>6, <1>7, <1>9 DEF Answers

\* A replica asks once, everybody else once, and has counted nobody yet.
LEMMA RecoverKoala2Answers ==
  ASSUME SInv, SInv', Answers, AttainedKept, NEW r \in Replicas, RecoverKoala2(r)
  PROVE  Answers'
<1>1. /\ UNCHANGED <<view, recBuffer, recPrepared, before>>
      /\ sleepProc[r] = "woken"
      /\ sleepProc' = [sleepProc EXCEPT ![r] = "done"]
      /\ hView' = [hView EXCEPT ![r] = -2]
      /\ curStatus' = [curStatus EXCEPT ![r] = "RECOVERING"]
      /\ reqHash' = [reqHash EXCEPT ![r] = "REC1"]
      /\ net' = net \cup { Rec1Msg(r, d) : d \in Others(r) }
  BY DEF RecoverKoala2, StartsRecovery
<1>2. /\ sleepProc'[r] = "done" /\ curStatus'[r] = "RECOVERING" /\ reqHash'[r] = "REC1"
      /\ \A s \in Replicas \ {r} :
           /\ sleepProc'[s] = sleepProc[s] /\ hView'[s] = hView[s]
           /\ curStatus'[s] = curStatus[s] /\ reqHash'[s] = reqHash[s]
  <2>1. /\ sleepProc \in [Replicas -> {"awake", "asleep", "woken", "done", "ended"}]
        /\ hView \in [Replicas -> -2..MaxView]
        /\ curStatus \in [Replicas -> Status]
        /\ reqHash \in [Replicas -> Requested \cup {"none"}]
    BY DEF SInv, SleepTypes, RecTypes, BlockInv, VTypes, NormalTypes
  <2> QED
    BY <1>1, <2>1
<1>3. \A m \in FirstRound : Asker(m) # r /\ Asker(m) \in Replicas
  BY <1>1, FirstRoundTypes DEF Answers, OneAnswer
<1>4. \A m \in FirstRound' : m \notin FirstRound =>
        m.type = "REC1" /\ Asker(m) = r /\ m = Rec1Msg(r, Answerer(m))
  BY <1>1 DEF FirstRound, Rec1Msg, Asker, Answerer
<1>5. \A m \in FirstRound' : Asker(m) # r => m \in FirstRound
  BY <1>4
<1>6. OneAnswer'
  <2>1. \A m \in FirstRound' : sleepProc'[Asker(m)] = "done"
    BY <1>2, <1>3, <1>4 DEF Answers, OneAnswer
  <2>2. \A m, x \in FirstRound' :
          Asker(m) = Asker(x) /\ Answerer(m) = Answerer(x) => m = x
    BY <1>3, <1>4 DEF Answers, OneAnswer
  <2> QED
    BY <2>1, <2>2 DEF OneAnswer
<1>7. NothingCounted'
  BY <1>1, <1>2 DEF Answers, NothingCounted
<1>8. Caught'
  <2>1. recPrepared[r] = {}
    BY <1>1 DEF SInv, Phases, PhaseOf
  <2>2. Caught!(r)'
    BY <1>1, <1>2, <2>1 DEF Down
  <2>3. \A s \in Replicas \ {r} : sleepProc'[s] = "done" => Caught!(s)'
    BY <1>1, <1>2 DEF Answers, Caught, Down
  <2> QED
    BY <2>2, <2>3 DEF Caught
<1>9. \E Q, A \in SUBSET Replicas : Witnessed(r, Q, A)'
  <2>1. PICK Q \in SUBSET Replicas, A \in SUBSET Replicas : Witnessed(r, Q, A)
    BY <1>1 DEF Answers, Witnesses
  <2>2. AllAttained(Q, before[r].view - 1)'
    BY <1>1, <2>1 DEF Witnessed, AllAttained, Attained
  <2>3. Cardinality({}) = 0 /\ recBuffer'[r]["REC1"] = 0
    BY <1>1, FS_EmptySet DEF Answers, NothingCounted
  <2>4. Witnessed(r, Q, {})'
    BY <1>3, <1>4, <2>1, <2>2, <2>3 DEF Witnessed
  <2> QED
    BY <2>4
<1>10. Witnesses'
  BY <1>1, <1>2, <1>5, <1>9, OthersWitnessed DEF Answers
<1> QED
  BY <1>6, <1>7, <1>8, <1>10 DEF Answers

LEMMA AnswersStep ==
  ASSUME SInv, SInv', Past, Answers, RecMode = "RecKoala2",
         RecQuorum \in Nat, QuorumSize + RecQuorum > N, [SleepyNext]_sleepyVars
  PROVE  Answers'
<1>1. AttainedKept
  BY AttainedStep
<1>2. CASE UNCHANGED sleepyVars
  BY <1>1, <1>2, QuietAnswers
<1>3. CASE ProtocolEffect
  BY <1>1, <1>3, ProtocolAnswers
<1>4. CASE \E r \in Replicas, v \in Views : MonitorSleeps(r, v) \/ TimerLost(r, v)
  BY <1>1, <1>4, QuietAnswers
<1>5. CASE \E m \in net : DropMsg(m) \/ DispatchRec(m)
  <2>1. CASE \E m \in net : DropMsg(m) \/ IgnoreEcho1(m) \/ HandleRec2Msg(m) \/ LateEcho2(m)
                            \/ RecoveringTQC(m)
    BY <1>1, <2>1, QuietAnswers
  <2>2. CASE \E m \in net : Admits(m) /\ HandleRec1Msg(m)
    BY <1>1, <2>2, AskedAnswers
  <2>3. CASE \E m \in net : HandleEcho1Msg(m)
    BY <1>1, <2>3, CountedAnswers
  <2>4. CASE \E m \in net : HandleEcho2Msg(m)
    BY <1>1, <2>4, SecondRoundAnswers
  <2> QED
    BY <1>5, <2>1, <2>2, <2>3, <2>4 DEF DispatchRec, HandleRecMsg
<1>6. CASE \E r \in Replicas : FallAsleep(r) \/ WakeUp(r) \/ SendRec2(r)
  BY <1>1, <1>6, FallAsleepAnswers, WakeUpAnswers, SendRec2Answers
<1>7. CASE \E r \in Replicas : RecoveryProcess(r)
  <2>1. \E r \in Replicas : RecoverKoala2(r)
    BY <1>7 DEF RecoveryProcess, RecoverFromDisk, NoRecovery
  <2> QED
    BY <1>1, <2>1, RecoverKoala2Answers
<1>8. CASE SleepStep
  BY <1>4, <1>5, <1>6, <1>7, <1>8 DEF SleepStep
<1> QED
  BY <1>2, <1>3, <1>8, StepKinds

LEMMA InitCInv == SleepyInit => CInv
<1> SUFFICES ASSUME SleepyInit PROVE CInv
  OBVIOUS
<1> USE DEF SleepyInit, InitSleep, VCInit, Init, InitProtocol, InitMonitors, InitViewChange
<1>1. \A r \in Replicas : /\ view[r] = 0 /\ before[r].view = -1
                          /\ sleepProc[r] = "awake" /\ recBuffer[r]["REC1"] = 0
  BY DEF Requested
<1>2. net = {} /\ \A r \in Replicas, v \in Views : timeoutBuffer[r][v] = {}
  OBVIOUS
<1>3. \A r \in Replicas, v \in Views : v \in timers[r] \/ monitor[r][v] = "wait" => v = 0
  BY ConstantsAssumption DEF Views
<1>4. Views \subseteq Nat
  BY DEF Views
<1> HIDE DEF SleepyInit
<1>5. Past
  BY <1>1, <1>2, <1>3, <1>4
     DEF Past, TimersOfThePast, AllTold, AllAttained, Backing, Attained
<1>6. Answers
  BY <1>1, <1>2 DEF Answers, OneAnswer, NothingCounted, Witnesses, Caught, FirstRound
<1> QED
  BY <1>5, <1>6 DEF CInv

\* A replica that recovered with REC1 and REC2 is in a later view than the one it
\* fell asleep in.  The quorums are only asked to meet, which those of the code do
\* (RecoverySeesVotes): one of those who had given up the view before answers with
\* a view that is at most two behind, and the loop waits for two more.
THEOREM RecoversInNewViewHolds ==
  ASSUME RecMode = "RecKoala2", PersistLevel = "NoPersist",
         RecQuorum \in Nat, QuorumSize + RecQuorum > N
  PROVE  SleepySpec => []RecoversInNewView
<1>1. SInv /\ CInv => RecoversInNewView
  <2> SUFFICES ASSUME SInv, CInv, NEW r \in Replicas, Recovered(r)
               PROVE  view[r] > before[r].view
    BY DEF RecoversInNewView
  <2> QED
    BY DEF CInv, Answers, Caught, Recovered
<1>2. SInv /\ SInv' /\ CInv /\ [SleepyNext]_sleepyVars => CInv'
  BY PastStep, AnswersStep DEF CInv
<1> QED
  BY <1>1, <1>2, InitCInv, SleepyInvariant, PTL DEF SleepySpec

----------------------------------------------------------------------------
(* Until a replica falls asleep, and always if nobody is chosen to sleep,  *)
(* this is ViewChange.                                                     *)

AllAwake == \A r \in Replicas : sleepProc[r] = "awake"

ProtocolNet == \A m \in net : m.type \in ProtocolTypes

AwakeInv == AllAwake => VInv /\ FInv /\ ProtocolNet

LEMMA InitAwake == SleepyInit => AwakeInv
<1>1. SleepyInit => ProtocolNet
  BY DEF SleepyInit, VCInit, Init, InitProtocol, ProtocolNet
<1> QED
  BY <1>1, InitVInv, InitFInv DEF SleepyInit, AwakeInv

\* Nobody gets up who did not fall asleep, and falling asleep is not undone.
LEMMA WasAwake ==
  ASSUME SInv, [SleepyNext]_sleepyVars, AllAwake'
  PROVE  AllAwake
<1>1. CASE UNCHANGED sleepProc
  BY <1>1 DEF AllAwake
<1>2. ASSUME NEW r \in Replicas, NEW p, p # "awake", sleepProc' = [sleepProc EXCEPT ![r] = p]
      PROVE  FALSE
  BY <1>2 DEF AllAwake, SInv, SleepTypes, RecTypes
<1>3. CASE SleepStep
  <2>1. ASSUME NEW r \in Replicas, NEW v \in Views, MonitorSleeps(r, v) \/ TimerLost(r, v)
        PROVE  UNCHANGED sleepProc
    BY <2>1 DEF MonitorSleeps, TimerLost, sleepVars
  <2>2. ASSUME NEW m \in net, DropMsg(m) \/ DispatchRec(m)
        PROVE  UNCHANGED sleepProc
    BY <2>2 DEF DropMsg, DispatchRec, HandleRecMsg, HandleRec1Msg, IgnoreEcho1, HandleEcho1Msg,
                HandleRec2Msg, LateEcho2, HandleEcho2Msg, RecoveringTQC, sleepVars
  <2>3. ASSUME NEW r \in Replicas, SendRec2(r) PROVE UNCHANGED sleepProc
    BY <2>3 DEF SendRec2
  <2>4. ASSUME NEW r \in Replicas, FallAsleep(r) \/ WakeUp(r) \/ RecoveryProcess(r)
        PROVE  FALSE
    BY <1>2, <2>4 DEF FallAsleep, WakeUp, RecoveryProcess, RecoverKoala2, RecoverFromDisk,
                      RestoreFromDisk, EndProgram, NoRecovery, StartsRecovery
  <2> QED
    BY <1>1, <1>3, <2>1, <2>2, <2>3, <2>4 DEF SleepStep
<1> QED
  BY <1>1, <1>3, StepKinds DEF ProtocolEffect, sleepyVars, sleepVars

\* With everybody awake nobody is down, and nobody asks or answers.
LEMMA AwakeStep ==
  ASSUME SInv, AllAwake, ProtocolNet, [SleepyNext]_sleepyVars, AllAwake'
  PROVE  [VCNext]_allVars /\ ProtocolNet'
<1>1. \A r \in Replicas : ~Down(r) /\ ~spinning[r]
  BY DEF AllAwake, SInv, Phases, PhaseOf
<1>2. \A m \in net : m.dst \in Replicas
  BY DEF SInv, BlockInv, VTypes, MsgFields
<1>3. CASE UNCHANGED sleepyVars
  <2>1. UNCHANGED allVars /\ UNCHANGED net
    BY <1>3 DEF sleepyVars, allVars, vars
  <2> QED
    BY <2>1 DEF ProtocolNet
<1>4. CASE SleepyNext
  <2>1. ~SleepStep
    <3>1. ASSUME NEW r \in Replicas, NEW v \in Views PROVE ~MonitorSleeps(r, v) /\ ~TimerLost(r, v)
      BY <1>1 DEF MonitorSleeps, TimerLost, TimersRun, Down
    <3>2. ASSUME NEW m \in net PROVE ~DropMsg(m) /\ ~DispatchRec(m)
      <4>1. /\ ~Down(m.dst) /\ sleepProc[m.dst] = "awake"
            /\ m.type \in ProtocolTypes
        BY <1>1, <1>2 DEF ProtocolNet, AllAwake
      <4> QED
        BY <4>1 DEF DropMsg, DispatchRec, Admits, Down, Ended, HandleRecMsg, HandleRec1Msg, IgnoreEcho1,
                    HandleEcho1Msg, HandleRec2Msg, LateEcho2, HandleEcho2Msg, RecoveringTQC,
                    ProtocolTypes
    <3>3. ASSUME NEW r \in Replicas
          PROVE  ~FallAsleep(r) /\ ~WakeUp(r) /\ ~RecoveryProcess(r) /\ ~SendRec2(r)
      <4>1. /\ sleepProc[r] = "awake" /\ sleepProc'[r] = "awake"
            /\ sleepProc \in [Replicas -> {"awake", "asleep", "woken", "done", "ended"}]
        BY DEF AllAwake, SInv, SleepTypes, RecTypes
      <4>2. ~FallAsleep(r)
        BY <4>1 DEF FallAsleep
      <4> QED
        BY <1>1, <4>1, <4>2 DEF WakeUp, RecoveryProcess, RecoverKoala2, RecoverFromDisk,
                                RestoreFromDisk, EndProgram, NoRecovery, StartsRecovery, SendRec2
    <3> QED
      BY <3>1, <3>2, <3>3 DEF SleepStep
  <2>2. ProtocolNet'
    <3>1. ProtocolEffect
      BY <1>4, <2>1, StepKinds
    <3> QED
      BY <3>1 DEF ProtocolEffect, ProtocolNet
  <2>3. VCNext
    <3>1. ASSUME NEW r \in Replicas, NEW v \in Views, SleepyMonitor(r, v) \/ SleepyTimeout(r, v)
          PROVE  VCNext
      BY <3>1 DEF SleepyMonitor, SleepyTimeout, VCNext, Next
    <3>2. ASSUME NEW r \in Replicas, NEW req \in Requests, SleepyRequest(r, req)
          PROVE  VCNext
      BY <3>2 DEF SleepyRequest, VCNext, Next
    <3>3. ASSUME NEW m \in net, DispatchNormal(m) \/ DispatchVC(m)
          PROVE  VCNext
      BY <3>3 DEF DispatchNormal, DispatchVC, VCNext, Next
    <3> QED
      BY <1>4, <2>1, <3>1, <3>2, <3>3 DEF SleepyNext, SleepStep
  <2> QED
    BY <2>2, <2>3
<1> QED
  BY <1>3, <1>4

LEMMA AwakeInvariance == SleepySpec => []AwakeInv
<1>1. ASSUME SInv, AwakeInv, [SleepyNext]_sleepyVars PROVE AwakeInv'
  <2> SUFFICES ASSUME AllAwake' PROVE (VInv /\ FInv /\ ProtocolNet)'
    BY DEF AwakeInv
  <2>1. AllAwake /\ VInv /\ FInv /\ ProtocolNet
    BY <1>1, WasAwake DEF AwakeInv
  <2>2. [VCNext]_allVars /\ ProtocolNet'
    BY <1>1, <2>1, AwakeStep
  <2> QED
    BY <2>1, <2>2, VCNextStep, NextFInv
<1> QED
  BY <1>1, InitAwake, SleepyInvariant, PTL DEF SleepySpec

\* If ParamOfSleepyReplica chooses nobody, the whole program behaves as without
\* sleepyRec.go: SleepyRec implements ViewChange, and all that is proved of the latter
\* holds (with NormalCaseOnly, of HotStuff as well if view changes are off too).
THEOREM NobodySleeps ==
  ASSUME Sleepers = {}
  PROVE  SleepySpec => VCSpec
<1>1. SleepyInit => AllAwake
  BY DEF SleepyInit, InitSleep, AllAwake
<1>2. ASSUME SInv, AllAwake, [SleepyNext]_sleepyVars PROVE AllAwake'
  <2>1. \A r \in Replicas :
          ~FallAsleep(r) /\ ~WakeUp(r) /\ ~RecoveryProcess(r)
    BY <1>2 DEF AllAwake, FallAsleep, ParamOfSleepyReplica, WakeUp, RecoveryProcess,
                RecoverKoala2, RecoverFromDisk, RestoreFromDisk, EndProgram, NoRecovery,
                StartsRecovery
  <2>2. CASE SleepStep
    <3>1. UNCHANGED sleepProc
      BY <2>1, <2>2
         DEF SleepStep, MonitorSleeps, TimerLost, DropMsg, DispatchRec, HandleRecMsg,
             HandleRec1Msg, IgnoreEcho1, HandleEcho1Msg, HandleRec2Msg, LateEcho2,
             HandleEcho2Msg, RecoveringTQC, SendRec2, sleepVars
    <3> QED
      BY <1>2, <3>1 DEF AllAwake
  <2> QED
    BY <1>2, <2>2, StepKinds DEF ProtocolEffect, sleepyVars, sleepVars, AllAwake
<1>3. ASSUME SInv, AllAwake, AllAwake', AwakeInv, [SleepyNext]_sleepyVars
      PROVE  [VCNext]_allVars
  BY <1>3, AwakeStep DEF AwakeInv
<1>4. SleepyInit => VCInit
  BY DEF SleepyInit
<1> QED
  BY <1>1, <1>2, <1>3, <1>4, SleepyInvariant, AwakeInvariance, PTL DEF SleepySpec, VCSpec

\* Of the whole program, in every mode: as long as no rotating timer has fired and no
\* replica has gone to sleep, no two replicas commit different blocks at a height.
THEOREM AgreementUntilDisturbed == SleepySpec => [](AllAwake /\ Undisturbed => Agreement)
<1>1. AwakeInv => (AllAwake /\ Undisturbed => Agreement)
  BY AgreementFollows DEF AwakeInv, FInv
<1> QED
  BY <1>1, AwakeInvariance, PTL

----------------------------------------------------------------------------
(* The first view.  Its leader does not take over the block of anybody     *)
(* else, and proposes again only when its last proposal has a certificate. *)
(* So whoever votes for what it proposes in view 0 knows all that is       *)
(* certified there before that proposal, whatever views the others are in  *)
(* by then.                                                                *)

NeverSlept(r) == sleepProc[r] = "awake"

\* Replica 0 is where it started.
FirstLeads == NeverSlept(0) /\ view[0] = 0

Uncertified(h) == h \notin prepared[0]

LastCertified == curHash[0] = NilHash \/ ~Uncertified(curHash[0])

\* What replica 0 has proposed and not yet certified is its last proposal, and what
\* goes with that is the highest certificate it has.
LeaderWaits ==
  /\ curStatus[0] = "READY" => LastCertified
  /\ monitor[0][0] \in {"claim", "propose"} => LastCertified
  /\ monitor[0][0] = "propose" => curStatus[0] # "READY"
  /\ Sequence[0] = 0 => curBlock[0].height = 0 /\ curHash[0] = NilHash
  /\ \A m \in net : m.type = "QC" /\ m.src = 0 =>
       /\ m.view = 0
       /\ Uncertified(m.hash) => m.hash = curHash[0] /\ m.qc.height >= curBlock[0].height
  /\ \A m \in net : m.type = "QCREP" /\ m.dst = 0 /\ m.src # 0 /\ Uncertified(m.hash) =>
       m.hash = curHash[0]
  /\ \A x \in votes[0] : /\ x.hash # NilHash
                         /\ x.id # 0 /\ Uncertified(x.hash) => x.hash = curHash[0]

\* The others propose, and are voted for, in later views only.
OthersLater ==
  /\ \A s \in Replicas \ {0} : monitor[s][0] \in {"wait", "off"}
  /\ \A s \in Replicas : NeverSlept(s) /\ view[s] = 0 =>
       \A v \in Views \ {0} : monitor[s][v] = "off"
  /\ \A m \in net : m.type = "QC" /\ m.src # 0 /\ NeverSlept(m.src) => view[m.src] >= 1
  /\ \A m \in net : m.type = "QCREP" /\ m.dst # 0 /\ NeverSlept(m.dst) => view[m.dst] >= 1
  /\ \A m \in net : m.type = "VIEWCHANGE" => m.view >= 1 /\ m.dst = LeaderID(m.view)

\* Whoever has recovered is in a later view, and a quorum has answered it.
RecoveredLater ==
  \A r \in Replicas : sleepProc[r] = "done" =>
    /\ ~Down(r) => view[r] >= 1 /\ recBuffer[r]["REC2"] >= RecQuorum
    /\ reqHash[r] = "REC2" => view[r] >= 1

\* Every certificate there is, in memory or in a message.
CertsOf(r) ==
  {curBlock[r], lockedBlock[r]} \cup { committedBlocks[r][h] : h \in Heights }

CertsIn(m) ==
  CASE m.type \in {"QC", "VIEWCHANGE"} -> {m.qc}
    [] m.type = "ECHO2" -> {m.qc, m.lqc} \cup { m.com[h] : h \in Heights }
    [] OTHER -> {}

AllCerts ==
  (UNION { CertsOf(r) : r \in Replicas }) \cup (UNION { CertsIn(m) : m \in net })

\* No block is higher than the empty one without a hash.
Blank == \A c \in AllCerts : c.hash = NilHash => c.height <= 0

\* Replica i has voted for a proposal of view 0 that has no certificate yet.
VoteUnderWay(i) ==
  \/ \E m \in net : m.type = "QCREP" /\ m.dst = 0 /\ m.src = i /\ Uncertified(m.hash)
  \/ \E x \in votes[0] : x.id = i /\ Uncertified(x.hash)

\* Who knows a block of height x knows the parent of every block that i helped, or
\* may still help, to certify in view 0.
CertsBelow(i, x) == \A c \in AllCerts : c.view = 0 /\ i \in c.ids => c.height <= x + 1

Suffices(i, x) ==
  /\ CertsBelow(i, x)
  /\ FirstLeads /\ VoteUnderWay(i) => curBlock[0].height <= x

VotersKnow == \A i \in Replicas : NeverSlept(i) => Suffices(i, curBlock[i].height)

FirstView ==
  /\ prepared \in [Replicas -> SUBSET Hashes]
  /\ Blank
  /\ RecoveredLater
  /\ QuorumSize > 1 => (FirstLeads => LeaderWaits) /\ OthersLater /\ VotersKnow

----------------------------------------------------------------------------
(* The second round of a recovery: REC2 and ECHO2.                         *)

Asker2(m) == IF m.type = "REC2" THEN m.src ELSE m.dst
Answerer2(m) == IF m.type = "REC2" THEN m.dst ELSE m.src
SecondRound == { m \in net : m.type \in {"REC2", "ECHO2"} }

OneAnswer2 ==
  /\ \A m \in SecondRound : /\ sleepProc[Asker2(m)] = "done" /\ reqHash[Asker2(m)] = "REC2"
                            /\ Answerer2(m) # Asker2(m)
                            /\ m.type = "REC2" => m.view \in Nat \ {0}
  /\ \A m, x \in SecondRound : Asker2(m) = Asker2(x) /\ Answerer2(m) = Answerer2(x) => m = x

\* Q knows blocks as high as the lock r had.  A block of height x is enough for the
\* lock, if i is one of Q, and for what i has voted for.
Covers(r, Q, i, x) ==
  /\ i \in Q => before[r].lock.height <= x
  /\ QuorumSize > 1 => Suffices(i, x)

\* A has answered and was counted; whoever answers has left view 0 and votes for
\* nothing there any more.
Answered(r, Q, A) ==
  /\ r \notin A
  /\ \A i \in Q \ {r} : curBlock[i].height >= before[r].lock.height
  /\ \A m \in SecondRound : Asker2(m) = r =>
       /\ Answerer2(m) \notin A
       /\ m.type = "ECHO2" => view[m.src] >= 1 /\ Covers(r, Q, m.src, m.qc.height)
  /\ Cardinality(A) >= recBuffer[r]["REC2"]
  /\ \A i \in A : view[i] >= 1 /\ Covers(r, Q, i, curBlock[r].height)

\* With q = 0 nothing is said of the lock, with q = QuorumSize a quorum knows it.
AnsweredBy(q) ==
  \A r \in Replicas : ~NeverSlept(r) =>
    \E Q, A \in SUBSET Replicas : Cardinality(Q) >= q /\ Answered(r, Q, A)

NothingCounted2 ==
  \A r \in Replicas : sleepProc[r] # "done" \/ reqHash[r] # "REC2" => recBuffer[r]["REC2"] = 0

\* Only one replica is chosen to sleep.
OneSleeper == \A r, s \in Sleepers : r = s

OnlySleepers == \A r \in Replicas : ~NeverSlept(r) => r \in Sleepers

Second(q) == OneAnswer2 /\ NothingCounted2 /\ AnsweredBy(q)

RInv(q) == OnlySleepers /\ FirstView /\ Second(q)

----------------------------------------------------------------------------
(* Nobody is taken back who does not fall asleep or wake up.               *)

LEMMA BlockTypesOf ==
  ASSUME SInv
  PROVE  /\ \A s \in Replicas : curBlock[s] \in Certs /\ curBlock[s].height \in Nat
         /\ \A s \in Replicas : before[s].lock.height \in Nat
         /\ 0 \in Replicas
<1>1. /\ curBlock \in [Replicas -> Certs]
      /\ before \in [Replicas -> [view: Views \cup {-1}, lock: Certs]]
  BY DEF SInv, BlockInv, VTypes, NormalTypes, SleepTypes, RecTypes
<1>2. \A c \in Certs : c.height \in Nat
  BY DEF Certs
<1> QED
  BY <1>1, <1>2, ConstantsAssumption DEF Replicas

LEMMA OthersStay ==
  ASSUME SInv, SInv', RecMode = "RecKoala2", [SleepyNext]_sleepyVars
  PROVE  \A s \in Replicas :
           /\ NeverSlept(s)' => NeverSlept(s)
           /\ sleepProc[s] = "done" => sleepProc'[s] = "done"
           /\ sleepProc'[s] = sleepProc[s] =>
                view'[s] >= view[s] /\ curBlock'[s].height >= curBlock[s].height
<1> DEFINE Stays ==
             \A s \in Replicas :
               /\ NeverSlept(s)' => NeverSlept(s)
               /\ sleepProc[s] = "done" => sleepProc'[s] = "done"
               /\ sleepProc'[s] = sleepProc[s] =>
                    view'[s] >= view[s] /\ curBlock'[s].height >= curBlock[s].height
<1> SUFFICES Stays
  OBVIOUS
<1>1. ASSUME UNCHANGED sleepProc,
             \A s \in Replicas :
               view'[s] >= view[s] /\ curBlock'[s].height >= curBlock[s].height
      PROVE  Stays
  BY <1>1 DEF NeverSlept
<1>2. ASSUME UNCHANGED <<sleepProc, view, curBlock>> PROVE Stays
  <2>1. \A s \in Replicas :
          view'[s] >= view[s] /\ curBlock'[s].height >= curBlock[s].height
    BY <1>2, ViewTypes, BlockTypesOf
  <2> QED
    BY <1>1, <1>2, <2>1
<1>3. ASSUME NEW r \in Replicas, NEW p, p # "awake", sleepProc[r] # "done",
             sleepProc[r] # p,
             sleepProc' = [sleepProc EXCEPT ![r] = p],
             \A s \in Replicas \ {r} : view'[s] = view[s] /\ curBlock'[s] = curBlock[s]
      PROVE  Stays
  <2>1. sleepProc'[r] = p /\ \A s \in Replicas \ {r} : sleepProc'[s] = sleepProc[s]
    BY <1>3 DEF SInv, SleepTypes, RecTypes
  <2>2. \A s \in Replicas \ {r} :
          view'[s] >= view[s] /\ curBlock'[s].height >= curBlock[s].height
    BY <1>3, ViewTypes, BlockTypesOf
  <2>3. ASSUME NEW s \in Replicas
        PROVE  /\ NeverSlept(s)' => NeverSlept(s)
               /\ sleepProc[s] = "done" => sleepProc'[s] = "done"
               /\ sleepProc'[s] = sleepProc[s] =>
                    view'[s] >= view[s] /\ curBlock'[s].height >= curBlock[s].height
    <3>1. CASE s = r
      BY <1>3, <2>1, <3>1 DEF NeverSlept
    <3>2. CASE s # r
      BY <2>1, <2>2, <3>2 DEF NeverSlept
    <3> QED
      BY <3>1, <3>2
  <2> QED
    BY <2>3
<1>4. CASE UNCHANGED sleepyVars
  BY <1>2, <1>4 DEF sleepyVars, sleepVars, allVars, vars, chainVars
<1>5. CASE ProtocolEffect
  <2>1. Grown
    BY <1>5, Zenon DEF ProtocolEffect
  <2>2. UNCHANGED sleepProc
    BY <1>5, Zenon DEF ProtocolEffect
  <2> QED
    BY <1>1, <2>1, <2>2 DEF Grown
<1>6. ASSUME NEW r \in Replicas, NEW v \in Views, MonitorSleeps(r, v) \/ TimerLost(r, v)
      PROVE  Stays
  BY <1>2, <1>6 DEF MonitorSleeps, TimerLost, sleepVars, chainVars
<1>7. ASSUME NEW m \in net,
             DropMsg(m) \/ HandleRec1Msg(m) \/ IgnoreEcho1(m) \/ HandleEcho1Msg(m)
               \/ HandleRec2Msg(m) \/ LateEcho2(m)
      PROVE  Stays
  BY <1>2, <1>7 DEF DropMsg, HandleRec1Msg, IgnoreEcho1, HandleEcho1Msg,
                    HandleRec2Msg, LateEcho2, sleepVars, chainVars
<1>8. ASSUME NEW m \in net, HandleEcho2Msg(m) PROVE Stays
  <2>1. /\ UNCHANGED <<sleepProc, view>>
        /\ curBlock' = [curBlock EXCEPT ![m.dst] = Higher(curBlock[m.dst], m.qc)]
        /\ m.type = "ECHO2"
    BY <1>8 DEF HandleEcho2Msg
  <2>2. m.dst \in Replicas /\ m.qc \in Certs
    BY <2>1 DEF SInv, BlockInv, VTypes, MsgFields, SleepTypes, RecMsgFields
  <2>3. Higher(curBlock[m.dst], m.qc).height >= curBlock[m.dst].height
    BY <2>2, BlockTypesOf DEF Higher, Certs
  <2>4. curBlock \in [Replicas -> Certs]
    BY DEF SInv, BlockInv, VTypes, NormalTypes
  <2>5. \A s \in Replicas : curBlock'[s].height >= curBlock[s].height
    BY <2>1, <2>2, <2>3, <2>4, BlockTypesOf
  <2>6. \A s \in Replicas : view'[s] >= view[s]
    BY <2>1, ViewTypes
  <2> QED
    BY <1>1, <2>1, <2>5, <2>6
<1>9. ASSUME NEW m \in net, RecoveringTQC(m) PROVE Stays
  <2>1. UNCHANGED <<sleepProc, curBlock>>
    BY <1>9 DEF RecoveringTQC, chainVars
  <2>2. \A s \in Replicas : view'[s] >= view[s]
    <3>1. /\ m.dst \in Replicas /\ view[m.dst] <= m.view /\ m.view \in Views
          /\ view' = [view EXCEPT ![m.dst] = m.view + 1]
      BY <1>9, RecoveringTQCEffect
    <3> QED
      BY <3>1, ViewTypes, SMTT(30) DEF SInv, BlockInv, VTypes, NormalTypes
  <2>3. \A s \in Replicas : curBlock'[s].height >= curBlock[s].height
    BY <2>1, BlockTypesOf
  <2> QED
    BY <1>1, <2>1, <2>2, <2>3
<1>10. ASSUME NEW r \in Replicas, FallAsleep(r) PROVE Stays
  <2>1. sleepProc[r] = "awake" /\ sleepProc' = [sleepProc EXCEPT ![r] = "asleep"]
        /\ UNCHANGED <<view, curBlock>>
    BY <1>10 DEF FallAsleep, chainVars
  <2> QED
    BY <1>3, <2>1
<1>11. ASSUME NEW r \in Replicas, WakeUp(r) PROVE Stays
  <2>1. sleepProc[r] = "asleep" /\ sleepProc' = [sleepProc EXCEPT ![r] = "woken"]
        /\ view' = [view EXCEPT ![r] = 0] /\ curBlock' = [curBlock EXCEPT ![r] = EmptyBlock]
    BY <1>11 DEF WakeUp
  <2>2. \A s \in Replicas \ {r} : view'[s] = view[s] /\ curBlock'[s] = curBlock[s]
    BY <2>1 DEF SInv, BlockInv, VTypes, NormalTypes
  <2> QED
    BY <1>3, <2>1, <2>2
<1>12. ASSUME NEW r \in Replicas, RecoverKoala2(r) PROVE Stays
  <2>1. sleepProc[r] = "woken" /\ sleepProc' = [sleepProc EXCEPT ![r] = "done"]
        /\ UNCHANGED <<view, curBlock>>
    BY <1>12 DEF RecoverKoala2, StartsRecovery, chainVars
  <2> QED
    BY <1>3, <2>1
<1>13. ASSUME NEW r \in Replicas, SendRec2(r) PROVE Stays
  BY <1>2, <1>13 DEF SendRec2, chainVars
<1>14. CASE SleepStep
  <2>1. CASE \E m \in net : DropMsg(m) \/ DispatchRec(m)
    BY <2>1, <1>7, <1>8, <1>9 DEF DispatchRec, HandleRecMsg
  <2>2. CASE \E r \in Replicas :
               FallAsleep(r) \/ WakeUp(r) \/ RecoveryProcess(r) \/ SendRec2(r)
    BY <2>2, <1>10, <1>11, <1>12, <1>13 DEF RecoveryProcess, RecoverFromDisk, NoRecovery
  <2> QED
    BY <1>6, <1>14, <2>1, <2>2 DEF SleepStep
<1> QED
  BY <1>4, <1>5, <1>14, StepKinds

----------------------------------------------------------------------------
(* Where certificates come from.                                           *)

\* What HandleNormalRepMsg makes of a quorum of votes.
Assembled(c) ==
  \E m \in net : /\ m.type = "QCREP" /\ Admits(m)
                 /\ ~Ignored(m.dst, m) /\ ~UselessVote(m.dst, m)
                 /\ Cardinality(Voters(m.dst, m)) >= QuorumSize
                 /\ c = NewQC(m.dst, m)

Accounted(c) == c \in AllCerts \/ c = EmptyBlock \/ Assembled(c)

LEMMA CertsInMessages ==
  ASSUME NEW m
  PROVE  /\ m.type \in {"QC", "VIEWCHANGE"} => CertsIn(m) = {m.qc}
         /\ m.type = "ECHO2" => CertsIn(m) = {m.qc, m.lqc} \cup { m.com[h] : h \in Heights }
         /\ m.type \notin {"QC", "VIEWCHANGE", "ECHO2"} => CertsIn(m) = {}
BY DEF CertsIn

LEMMA CertsThere ==
  /\ \A s \in Replicas : Accounted(curBlock[s]) /\ Accounted(lockedBlock[s])
  /\ \A s \in Replicas, h \in Heights : Accounted(committedBlocks[s][h])
  /\ \A m \in net : \A c \in CertsIn(m) : Accounted(c)
  /\ Accounted(EmptyBlock)
<1>1. \A s \in Replicas : \A c \in CertsOf(s) : Accounted(c)
  BY DEF Accounted, AllCerts
<1>2. \A s \in Replicas :
        /\ curBlock[s] \in CertsOf(s) /\ lockedBlock[s] \in CertsOf(s)
        /\ \A h \in Heights : committedBlocks[s][h] \in CertsOf(s)
  BY DEF CertsOf
<1>3. \A m \in net : \A c \in CertsIn(m) : Accounted(c)
  BY DEF Accounted, AllCerts
<1>4. Accounted(EmptyBlock)
  BY DEF Accounted, EmptyBlock
<1> QED
  BY <1>1, <1>2, <1>3, <1>4

LEMMA CertsFollow ==
  ASSUME \A s \in Replicas : Accounted(curBlock'[s]) /\ Accounted(lockedBlock'[s]),
         \A s \in Replicas, h \in Heights : Accounted(committedBlocks'[s][h]),
         \A m \in net' \ net : \A c \in CertsIn(m) : Accounted(c)
  PROVE  \A c \in AllCerts' : Accounted(c)
<1> SUFFICES ASSUME NEW c \in AllCerts' PROVE Accounted(c)
  OBVIOUS
<1>1. ASSUME NEW s \in Replicas, c \in CertsOf(s)' PROVE Accounted(c)
  <2>1. c = curBlock'[s] \/ c = lockedBlock'[s] \/ \E h \in Heights : c = committedBlocks'[s][h]
    BY <1>1 DEF CertsOf
  <2> QED
    BY <2>1
<1>2. CASE \E m \in net' : c \in CertsIn(m)
  <2>1. PICK m \in net' : c \in CertsIn(m)
    BY <1>2
  <2>2. CASE m \in net
    BY <2>1, <2>2, CertsThere
  <2>3. CASE m \notin net
    BY <2>1, <2>3
  <2> QED
    BY <2>2, <2>3
<1>3. (\E s \in Replicas : c \in CertsOf(s)') \/ (\E m \in net' : c \in CertsIn(m))
  BY DEF AllCerts, CertsIn
<1> QED
  BY <1>1, <1>2, <1>3

\* A step that leaves the blocks alone, and sends what it has.
LEMMA CertsSent ==
  ASSUME UNCHANGED <<curBlock, lockedBlock, committedBlocks>>,
         \A m \in net' \ net : m.type \in {"QC", "VIEWCHANGE", "ECHO2"} =>
           \/ m.type # "ECHO2" /\ Accounted(m.qc)
           \/ \E r \in Replicas : /\ m.type = "ECHO2"
                                  /\ m.qc = curBlock[r] /\ m.lqc = lockedBlock[r]
                                  /\ m.com = committedBlocks[r]
  PROVE  \A c \in AllCerts' : Accounted(c)
<1>1. \A m \in net' \ net : \A c \in CertsIn(m) : Accounted(c)
  <2> SUFFICES ASSUME NEW m \in net' \ net, NEW c \in CertsIn(m) PROVE Accounted(c)
    OBVIOUS
  <2>1. CASE m.type \in {"QC", "VIEWCHANGE"}
    BY <2>1, CertsInMessages
  <2>2. CASE m.type = "ECHO2"
    <3>1. PICK r \in Replicas : m.qc = curBlock[r] /\ m.lqc = lockedBlock[r]
                                /\ m.com = committedBlocks[r]
      BY <2>2
    <3> QED
      BY <2>2, <3>1, CertsInMessages, CertsThere
  <2> QED
    BY <2>1, <2>2, CertsInMessages
<1> QED
  BY <1>1, CertsThere, CertsFollow

LEMMA MonitorCerts ==
  ASSUME SInv, NEW r \in Replicas, NEW v \in Views, RequestMonitor(r, v)
  PROVE  \A c \in AllCerts' : Accounted(c)
<1>1. UNCHANGED <<curBlock, lockedBlock, committedBlocks>>
  BY DEF RequestMonitor, MonitorStart, MonitorCheckView, MonitorCheckStatus, MonitorClaim,
         MonitorPropose, chainVars
<1>2. \A m \in net' \ net : m.type = "QC" /\ m.qc \in {EmptyBlock, curBlock[r]}
  BY DEF RequestMonitor, MonitorStart, MonitorCheckView, MonitorCheckStatus, MonitorClaim,
         MonitorPropose, StartHotStuff, Proposal, FetchBlockInfo
<1> QED
  BY <1>1, <1>2, CertsSent, CertsThere

LEMMA TimeoutCerts ==
  ASSUME SInv, NEW r \in Replicas, NEW v \in Views, TimeoutHandler(r, v)
  PROVE  \A c \in AllCerts' : Accounted(c)
<1>1. UNCHANGED <<curBlock, lockedBlock, committedBlocks>>
  BY DEF TimeoutHandler, TimeoutPersistent, TimeoutInMemory, StartViewChange, chainVars
<1>2. \A m \in net' \ net : \/ m.type = "TIMEOUT"
                            \/ m.type = "VIEWCHANGE" /\ m.qc = curBlock[r]
  BY DEF TimeoutHandler, TimeoutPersistent, TimeoutInMemory, StartViewChange, TimeoutMsg,
         ViewChangeMsg
<1> QED
  BY <1>1, <1>2, CertsSent, CertsThere

LEMMA NormalCerts ==
  ASSUME SInv, NEW m \in net, Admits(m), HandleQCByteMsg(m)
  PROVE  \A c \in AllCerts' : Accounted(c)
<1> DEFINE r == m.dst
<1>1. r \in Replicas /\ m.src \in Replicas
  BY DEF SInv, BlockInv, VTypes, MsgFields
<1>2. /\ curBlock \in [Replicas -> Certs] /\ lockedBlock \in [Replicas -> Certs]
      /\ committedBlocks \in [Replicas -> [Heights -> Certs \cup {NoBlock}]]
  BY DEF SInv, BlockInv, VTypes, NormalTypes
<1>3. \A x \in net' \ net : x.type = "QCREP"
  BY DEF HandleQCByteMsg, IgnoreMsg, RejectProposal, HandleNormalMsg, DropVote,
         HandleNormalRepMsg, Vote
<1>4. \A x \in net' \ net : \A c \in CertsIn(x) : Accounted(c)
  BY <1>3, CertsInMessages
<1>5. CASE IgnoreMsg(m) \/ RejectProposal(m) \/ DropVote(m)
          \/ (HandleNormalMsg(m) /\ SkipQCInfo(r, m.qc, m.seq))
  <2>1. UNCHANGED <<curBlock, lockedBlock, committedBlocks>>
    BY <1>5 DEF IgnoreMsg, RejectProposal, DropVote, SkipQCInfo, chainVars
  <2> QED
    BY <1>3, <2>1, CertsSent
<1>6. CASE HandleNormalMsg(m) /\ ProcessQCInfo(r, m.qc, m.seq)
  <2>1. m.type = "QC"
    BY <1>6 DEF HandleNormalMsg
  <2>2. /\ curBlock' \in {curBlock, [curBlock EXCEPT ![r] = m.qc]}
        /\ lockedBlock' \in {lockedBlock, [lockedBlock EXCEPT ![r] = curBlock[r]]}
        /\ committedBlocks' \in {committedBlocks,
              [committedBlocks EXCEPT ![r][lockedBlock[r].height] = lockedBlock[r]]}
    BY <1>6 DEF ProcessQCInfo, CommitLocked, LockCurrent
  <2>3. Accounted(m.qc)
    BY <2>1, CertsInMessages, CertsThere
  <2>4. \A s \in Replicas : Accounted(curBlock'[s]) /\ Accounted(lockedBlock'[s])
    <3>1. \A s \in Replicas : curBlock'[s] \in {curBlock[s], m.qc}
      BY <1>1, <1>2, <2>2
    <3>2. \A s \in Replicas : lockedBlock'[s] \in {lockedBlock[s], curBlock[r]}
      BY <1>1, <1>2, <2>2
    <3> QED
      BY <1>1, <2>3, <3>1, <3>2, CertsThere
  <2>5. \A s \in Replicas, h \in Heights : Accounted(committedBlocks'[s][h])
    <3>1. \A s \in Replicas, h \in Heights :
            committedBlocks'[s][h] \in {committedBlocks[s][h], lockedBlock[r]}
      BY <1>1, <1>2, <2>2
    <3> QED
      BY <1>1, <3>1, CertsThere
  <2> QED
    BY <1>4, <2>4, <2>5, CertsFollow
<1>7. CASE HandleNormalRepMsg(m)
  <2>1. /\ UNCHANGED <<lockedBlock, committedBlocks>>
        /\ \/ UNCHANGED curBlock
           \/ /\ Cardinality(Voters(r, m)) >= QuorumSize
              /\ curBlock' = [curBlock EXCEPT ![r] = NewQC(r, m)]
        /\ m.type = "QCREP" /\ ~Ignored(r, m) /\ ~UselessVote(r, m)
    BY <1>7 DEF HandleNormalRepMsg
  <2>2. \A s \in Replicas : Accounted(curBlock'[s])
    <3>1. CASE UNCHANGED curBlock
      BY <3>1, CertsThere
    <3>2. CASE ~UNCHANGED curBlock
      <4>1. Assembled(NewQC(r, m))
        BY <2>1, <3>2 DEF Assembled
      <4>2. \A s \in Replicas : curBlock'[s] \in {curBlock[s], NewQC(r, m)}
        BY <1>2, <2>1, <3>2
      <4> QED
        BY <4>1, <4>2, CertsThere DEF Accounted
    <3> QED
      BY <3>1, <3>2
  <2> QED
    BY <1>4, <2>1, <2>2, CertsThere, CertsFollow
<1> QED
  BY <1>5, <1>6, <1>7 DEF HandleQCByteMsg, HandleNormalMsg

LEMMA ViewChangeCerts ==
  ASSUME SInv, NEW m \in net, HandleVCMsg(m)
  PROVE  \A c \in AllCerts' : Accounted(c)
<1> DEFINE r == m.dst
<1>1. r \in Replicas
  BY DEF SInv, BlockInv, VTypes, MsgFields
<1>2. CASE IgnoreVCMsg(m) \/ HandleTimeoutMsg(m)
  <2>1. UNCHANGED <<curBlock, lockedBlock, committedBlocks>>
    BY <1>2 DEF IgnoreVCMsg, HandleTimeoutMsg, chainVars
  <2>2. \A x \in net' \ net : x.type = "TQC"
    BY <1>2 DEF IgnoreVCMsg, HandleTimeoutMsg, TQCMsg
  <2> QED
    BY <2>1, <2>2, CertsSent
<1>3. CASE HandleTQCMsg(m)
  <2> DEFINE forwarded == IF m.view \in tqcPrepared[r] THEN {}
                          ELSE { [m EXCEPT !.dst = d] : d \in Replicas \ {r} }
             msg == ViewChangeMsg(r, LeaderID(m.view + 1), m.view + 1, curBlock[r])
  <2>1. UNCHANGED <<curBlock, lockedBlock, committedBlocks>>
    BY <1>3 DEF HandleTQCMsg, StartViewChange, chainVars
  <2>2. net' = ((net \ {m}) \cup forwarded) \cup {msg} /\ m.type = "TQC"
    BY <1>3 DEF HandleTQCMsg, StartViewChange
  <2>3. m \in TQCMsgs
    BY <2>2 DEF SInv, BlockInv, VTypes, MsgFields
  <2>4. \A x \in forwarded : x.type = "TQC"
    BY <2>3 DEF TQCMsgs
  <2>5. msg.type = "VIEWCHANGE" /\ msg.qc = curBlock[r]
    BY DEF ViewChangeMsg
  <2> HIDE DEF forwarded, msg
  <2>6. \A x \in net' \ net :
          \/ x.type = "TQC"
          \/ x.type = "VIEWCHANGE" /\ x.qc = curBlock[r]
    BY <2>2, <2>4, <2>5
  <2> QED
    BY <1>1, <2>1, <2>6, CertsSent, CertsThere
<1>4. CASE HandleQCVCMessage(m)
  <2>1. /\ UNCHANGED <<lockedBlock, committedBlocks>> /\ net' \subseteq net
        /\ curBlock' \in {curBlock, [curBlock EXCEPT ![r] = m.qc]}
        /\ m.type = "VIEWCHANGE"
    BY <1>4 DEF HandleQCVCMessage
  <2>2. \A s \in Replicas : curBlock'[s] \in {curBlock[s], m.qc}
    BY <1>1, <2>1 DEF SInv, BlockInv, VTypes, NormalTypes
  <2>3. Accounted(m.qc)
    BY <2>1, CertsInMessages, CertsThere
  <2>4. \A s \in Replicas : Accounted(curBlock'[s])
    BY <2>2, <2>3, CertsThere
  <2> QED
    BY <2>1, <2>4, CertsThere, CertsFollow
<1> QED
  BY <1>2, <1>3, <1>4 DEF HandleVCMsg

LEMMA EchoCerts ==
  ASSUME SInv, NEW m \in net, LateEcho2(m) \/ HandleEcho2Msg(m)
  PROVE  \A c \in AllCerts' : Accounted(c)
<1> DEFINE r == m.dst
<1>1. /\ m.type = "ECHO2" /\ net' \subseteq net
      /\ committedBlocks' = [committedBlocks EXCEPT ![r] = Merged(r, m.com)]
      /\ curBlock' \in {curBlock, [curBlock EXCEPT ![r] = Higher(curBlock[r], m.qc)]}
      /\ lockedBlock' \in {lockedBlock, [lockedBlock EXCEPT ![r] = Higher(lockedBlock[r], m.lqc)]}
  BY DEF LateEcho2, HandleEcho2Msg
<1>2. r \in Replicas
  BY DEF SInv, BlockInv, VTypes, MsgFields
<1>3. Accounted(m.qc) /\ Accounted(m.lqc) /\ \A h \in Heights : Accounted(m.com[h])
  BY <1>1, CertsInMessages, CertsThere
<1>4. /\ curBlock \in [Replicas -> Certs] /\ lockedBlock \in [Replicas -> Certs]
      /\ committedBlocks \in [Replicas -> [Heights -> Certs \cup {NoBlock}]]
  BY DEF SInv, BlockInv, VTypes, NormalTypes
<1>5. \A s \in Replicas : /\ curBlock'[s] \in {curBlock[s], m.qc}
                          /\ lockedBlock'[s] \in {lockedBlock[s], m.lqc}
  BY <1>1, <1>2, <1>4 DEF Higher
<1>6. \A s \in Replicas, h \in Heights :
        committedBlocks'[s][h] \in {committedBlocks[s][h], m.com[h]}
  BY <1>1, <1>2, <1>4 DEF Merged
<1>7. \A s \in Replicas : Accounted(curBlock'[s]) /\ Accounted(lockedBlock'[s])
  BY <1>3, <1>5, CertsThere
<1>8. \A s \in Replicas, h \in Heights : Accounted(committedBlocks'[s][h])
  BY <1>3, <1>6, CertsThere
<1> QED
  BY <1>1, <1>7, <1>8, CertsFollow

\* A certificate that is new was assembled in this step.
LEMMA CertsFrom ==
  ASSUME SInv, RecMode = "RecKoala2", [SleepyNext]_sleepyVars
  PROVE  \A c \in AllCerts' : Accounted(c)
<1>1. CASE UNCHANGED sleepyVars
  BY <1>1, CertsSent DEF sleepyVars, allVars, vars, chainVars
<1>2. ASSUME NEW r \in Replicas, NEW v \in Views, SleepyMonitor(r, v) \/ SleepyTimeout(r, v)
      PROVE  \A c \in AllCerts' : Accounted(c)
  BY <1>2, MonitorCerts, TimeoutCerts DEF SleepyMonitor, SleepyTimeout
<1>3. ASSUME NEW m \in net, DispatchNormal(m) \/ DispatchVC(m)
      PROVE  \A c \in AllCerts' : Accounted(c)
  BY <1>3, NormalCerts, ViewChangeCerts DEF DispatchNormal, DispatchVC
<1>4. ASSUME NEW r \in Replicas, NEW v \in Views, MonitorSleeps(r, v) \/ TimerLost(r, v)
      PROVE  \A c \in AllCerts' : Accounted(c)
  BY <1>4, CertsSent DEF MonitorSleeps, TimerLost, chainVars
<1>5. ASSUME NEW m \in net,
             DropMsg(m) \/ HandleRec1Msg(m) \/ IgnoreEcho1(m) \/ HandleEcho1Msg(m)
      PROVE  \A c \in AllCerts' : Accounted(c)
  <2>1. /\ UNCHANGED <<curBlock, lockedBlock, committedBlocks>>
        /\ \A x \in net' \ net : x.type = "ECHO1"
    BY <1>5 DEF DropMsg, HandleRec1Msg, IgnoreEcho1, HandleEcho1Msg, Echo1Msg, chainVars
  <2> QED
    BY <2>1, CertsSent
<1>6. ASSUME NEW m \in net, HandleRec2Msg(m)
      PROVE  \A c \in AllCerts' : Accounted(c)
  <2>1. m.dst \in Replicas
    BY DEF SInv, BlockInv, VTypes, MsgFields
  <2>2. /\ UNCHANGED <<curBlock, lockedBlock, committedBlocks>>
        /\ \A x \in net' \ net :
             x = Echo2Msg(m.dst, m.src, curBlock[m.dst], lockedBlock[m.dst],
                          committedBlocks[m.dst])
    BY <1>6 DEF HandleRec2Msg, chainVars
  <2>3. \A x \in net' \ net : /\ x.type = "ECHO2" /\ x.qc = curBlock[m.dst]
                              /\ x.lqc = lockedBlock[m.dst] /\ x.com = committedBlocks[m.dst]
    BY <2>2 DEF Echo2Msg
  <2> QED
    BY <2>1, <2>2, <2>3, CertsSent
<1>7. ASSUME NEW m \in net, RecoveringTQC(m)
      PROVE  \A c \in AllCerts' : Accounted(c)
  <2>1. m \in TQCMsgs /\ \A x \in net' \ net : \E d \in Replicas : x = [m EXCEPT !.dst = d]
    BY <1>7, RecoveringTQCEffect
  <2>2. \A x \in net' \ net : x.type = "TQC"
    BY <2>1 DEF TQCMsgs
  <2>3. UNCHANGED <<curBlock, lockedBlock, committedBlocks>>
    BY <1>7 DEF RecoveringTQC, chainVars
  <2> QED
    BY <2>2, <2>3, CertsSent
<1>8. ASSUME NEW r \in Replicas, FallAsleep(r) \/ RecoverKoala2(r) \/ SendRec2(r)
      PROVE  \A c \in AllCerts' : Accounted(c)
  <2>1. /\ UNCHANGED <<curBlock, lockedBlock, committedBlocks>>
        /\ \A x \in net' \ net : x.type \in {"REC1", "REC2"}
    BY <1>8 DEF FallAsleep, RecoverKoala2, SendRec2, Rec1Msg, Rec2Msg, chainVars
  <2> QED
    BY <2>1, CertsSent
<1>9. ASSUME NEW r \in Replicas, WakeUp(r)
      PROVE  \A c \in AllCerts' : Accounted(c)
  <2>1. /\ UNCHANGED <<committedBlocks, net>>
        /\ curBlock' = [curBlock EXCEPT ![r] = EmptyBlock]
        /\ lockedBlock' = [lockedBlock EXCEPT ![r] = EmptyBlock]
    BY <1>9 DEF WakeUp
  <2>2. \A s \in Replicas : /\ curBlock'[s] \in {curBlock[s], EmptyBlock}
                            /\ lockedBlock'[s] \in {lockedBlock[s], EmptyBlock}
    BY <2>1 DEF SInv, BlockInv, VTypes, NormalTypes
  <2>3. \A s \in Replicas : Accounted(curBlock'[s]) /\ Accounted(lockedBlock'[s])
    BY <2>2, CertsThere
  <2> QED
    BY <2>1, <2>3, CertsThere, CertsFollow
<1>10. CASE \E m \in net : DropMsg(m) \/ DispatchRec(m)
  BY <1>5, <1>6, <1>7, <1>10, EchoCerts DEF DispatchRec, HandleRecMsg
<1>11. CASE \E r \in Replicas :
              FallAsleep(r) \/ WakeUp(r) \/ RecoveryProcess(r) \/ SendRec2(r)
  BY <1>8, <1>9, <1>11 DEF RecoveryProcess, RecoverFromDisk, NoRecovery
<1>12. CASE \E r \in Replicas, req \in Requests : SleepyRequest(r, req)
  <2>1. UNCHANGED <<curBlock, lockedBlock, committedBlocks, net>>
    BY <1>12 DEF SleepyRequest, HandleRequest, chainVars
  <2> QED
    BY <2>1, CertsSent
<1> QED
  BY <1>1, <1>2, <1>3, <1>4, <1>10, <1>11, <1>12 DEF SleepyNext

----------------------------------------------------------------------------
(* What happens to replica 0 while it leads view 0.                        *)

LEMMA Tables ==
  ASSUME SInv
  PROVE  /\ view \in [Replicas -> Views]
         /\ curStatus \in [Replicas -> Status]
         /\ Sequence \in [Replicas -> Nat]
         /\ curBlock \in [Replicas -> Certs]
         /\ curHash \in [Replicas -> Hashes]
         /\ votes \in [Replicas -> SUBSET [hash: Hashes, id: Replicas]]
         /\ monitor \in [Replicas -> [Views -> MonitorPoints]]
         /\ sleepProc \in [Replicas -> {"awake", "asleep", "woken", "done", "ended"}]
         /\ recBuffer \in [Replicas -> [Requested -> Nat]]
         /\ reqHash \in [Replicas -> Requested \cup {"none"}]
         /\ before \in [Replicas -> [view: Views \cup {-1}, lock: Certs]]
         /\ \A m \in net : m.src \in Replicas /\ m.dst \in Replicas
         /\ \A m \in net : m.type \in ProtocolTypes => m.view \in Views
         /\ \A m \in net : m.type \in {"QC", "QCREP"} => m.hash \in Hashes \ {NilHash}
         /\ \A m \in net : m.type \in {"QC", "VIEWCHANGE", "ECHO2"} => m.qc \in Certs
         /\ 0 \in Replicas /\ 0 \in Views
<1>1. /\ view \in [Replicas -> Views]
      /\ curStatus \in [Replicas -> Status]
      /\ Sequence \in [Replicas -> Nat]
      /\ curBlock \in [Replicas -> Certs]
      /\ curHash \in [Replicas -> Hashes]
      /\ votes \in [Replicas -> SUBSET [hash: Hashes, id: Replicas]]
      /\ monitor \in [Replicas -> [Views -> MonitorPoints]]
  BY DEF SInv, BlockInv, VTypes, NormalTypes
<1>2. /\ sleepProc \in [Replicas -> {"awake", "asleep", "woken", "done", "ended"}]
      /\ recBuffer \in [Replicas -> [Requested -> Nat]]
      /\ reqHash \in [Replicas -> Requested \cup {"none"}]
      /\ before \in [Replicas -> [view: Views \cup {-1}, lock: Certs]]
  BY DEF SInv, SleepTypes, RecTypes
<1>3. \A m \in net : MsgFields(m) /\ RecMsgFields(m)
  BY DEF SInv, BlockInv, VTypes, SleepTypes
<1>4. /\ \A m \in net : m.src \in Replicas /\ m.dst \in Replicas
      /\ \A m \in net : m.type \in ProtocolTypes => m.view \in Views
      /\ \A m \in net : m.type \in {"QC", "QCREP"} => m.hash \in Hashes \ {NilHash}
      /\ \A m \in net : m.type \in {"QC", "VIEWCHANGE"} => m.qc \in Certs
  BY <1>3 DEF MsgFields, ProtocolTypes
<1>5. \A m \in net : m.type = "ECHO2" => m.qc \in Certs
  BY <1>3 DEF RecMsgFields
<1>6. 0 \in Replicas /\ 0 \in Views
  BY ConstantsAssumption DEF Replicas, Views
<1> QED
  BY <1>1, <1>2, <1>4, <1>5, <1>6

\* Replica i votes for what replica 0 proposes.
Casts(i, h) ==
  \E m \in net : m.type = "QC" /\ m.src = 0 /\ m.dst = i /\ m.hash = h /\ HandleNormalMsg(m)

\* Replica 0 makes a certificate.
Certifies(m) ==
  m.dst = 0 /\ HandleNormalRepMsg(m) /\ Cardinality(Voters(0, m)) >= QuorumSize

\* Replica 0 neither proposes nor certifies.
ZeroKeeps ==
  /\ curHash'[0] = curHash[0] /\ curBlock'[0] = curBlock[0] /\ prepared'[0] = prepared[0]
  /\ Sequence'[0] >= Sequence[0]
  /\ \A x \in votes'[0] \ votes[0] :
       \E m \in net : m.type = "QCREP" /\ m.dst = 0 /\ x.hash = m.hash /\ x.id = m.src

MonitorKeeps ==
  /\ curStatus'[0] = "READY" => curStatus[0] = "READY"
  /\ monitor'[0][0] = "claim" => monitor[0][0] = "claim" \/ curStatus[0] = "READY"
  /\ monitor'[0][0] = "propose" =>
       \/ monitor[0][0] = "propose"
       \/ monitor[0][0] = "claim" /\ curStatus'[0] # "READY"

NetKeeps ==
  \A m \in net' \ net :
    /\ ~(m.type = "QC" /\ m.src = 0)
    /\ m.type = "QCREP" /\ m.dst = 0 /\ m.src # 0 => Casts(m.src, m.hash)

ZeroRests == ZeroKeeps /\ MonitorKeeps /\ NetKeeps

\* Whoever has not slept is up.
LEMMA UpIfAwake ==
  ASSUME SInv, NEW r \in Replicas, NeverSlept(r)
  PROVE  ~Down(r)
BY DEF SInv, Phases, PhaseOf, NeverSlept

LEMMA SameZero ==
  ASSUME SInv, UNCHANGED <<curHash, curBlock, prepared, votes, Sequence>>
  PROVE  ZeroKeeps
<1>1. Sequence[0] \in Nat
  BY Tables
<1> QED
  BY <1>1 DEF ZeroKeeps

LEMMA MonitorRests ==
  ASSUME SInv, prepared \in [Replicas -> SUBSET Hashes], OthersLater, FirstLeads,
         NEW r \in Replicas, NEW v \in Views, RequestMonitor(r, v)
  PROVE  ZeroRests \/ MonitorPropose(0, 0)
<1>1. /\ monitor \in [Replicas -> [Views -> MonitorPoints]]
      /\ curStatus \in [Replicas -> Status]
      /\ 0 \in Replicas /\ 0 \in Views
  BY Tables
<1>2. \A w \in Views \ {0} : monitor[0][w] = "off"
  BY <1>1 DEF OthersLater, FirstLeads
<1>3. CASE ~MonitorPropose(r, v)
  <2>1. UNCHANGED <<curHash, curBlock, prepared, votes, Sequence, net>>
    BY <1>3 DEF RequestMonitor, MonitorStart, MonitorCheckView, MonitorCheckStatus, MonitorClaim,
                chainVars, voteVars
  <2>2. ZeroKeeps /\ NetKeeps
    BY <2>1, SameZero DEF NetKeeps
  <2>3. /\ \/ UNCHANGED curStatus
           \/ MonitorAt(r, v, "claim") /\ curStatus' = [curStatus EXCEPT ![r] = "PROCESSING"]
              /\ monitor' = [monitor EXCEPT ![r][v] = "propose"]
        /\ \E p \in MonitorPoints :
             /\ monitor' = [monitor EXCEPT ![r][v] = p]
             /\ p = "claim" => curStatus[r] = "READY"
             /\ p = "propose" => MonitorAt(r, v, "claim")
                                 /\ curStatus' = [curStatus EXCEPT ![r] = "PROCESSING"]
    BY <1>3 DEF RequestMonitor, MonitorStart, MonitorCheckView, MonitorCheckStatus, MonitorClaim,
                MonitorGoto, MayPropose, MonitorPoints
  <2>4. curStatus'[0] = "READY" => curStatus[0] = "READY"
    BY <1>1, <2>3
  <2>5. PICK p \in MonitorPoints :
          /\ monitor' = [monitor EXCEPT ![r][v] = p]
          /\ p = "claim" => curStatus[r] = "READY"
          /\ p = "propose" => MonitorAt(r, v, "claim")
                              /\ curStatus' = [curStatus EXCEPT ![r] = "PROCESSING"]
    BY <2>3
  <2>6. CASE r = 0 /\ v = 0
    <3>1. monitor'[0][0] = p
      BY <1>1, <2>5, <2>6
    <3>2. p = "propose" => monitor[0][0] = "claim" /\ curStatus'[0] = "PROCESSING"
      BY <1>1, <2>5, <2>6 DEF MonitorAt
    <3> QED
      BY <2>2, <2>4, <2>5, <2>6, <3>1, <3>2 DEF ZeroRests, MonitorKeeps
  <2>7. CASE ~(r = 0 /\ v = 0)
    <3>1. monitor'[0][0] = monitor[0][0]
      <4>1. CASE r # 0
        BY <1>1, <2>5, <4>1
      <4>2. CASE r = 0
        <5>1. v # 0 /\ monitor'[0] = [monitor[0] EXCEPT ![v] = p]
          BY <1>1, <2>5, <2>7, <4>2
        <5>2. monitor[0] \in [Views -> MonitorPoints]
          BY <1>1
        <5> QED
          BY <1>1, <5>1, <5>2
      <4> QED
        BY <4>1, <4>2
    <3>2. UNCHANGED monitor[0][0]
      BY <3>1
    <3> QED
      BY <2>2, <2>4, <3>1 DEF ZeroRests, MonitorKeeps
  <2> QED
    BY <2>6, <2>7
<1>4. CASE MonitorPropose(r, v) /\ r = 0
  <2>1. v = 0
    BY <1>2, <1>4 DEF MonitorPropose, MonitorAt
  <2> QED
    BY <1>4, <2>1
<1>5. CASE MonitorPropose(r, v) /\ r # 0
  <2>1. /\ UNCHANGED <<curBlock, prepared, votes, curStatus>>
        /\ Sequence' = [Sequence EXCEPT ![r] = Sequence[r] + 1]
        /\ \E h : curHash' = [curHash EXCEPT ![r] = h]
        /\ monitor' = [monitor EXCEPT ![r][v] = "top"]
        /\ \A m \in net' \ net : m.type = "QC" /\ m.src = r
    <3>1. /\ UNCHANGED <<curBlock, prepared, votes, curStatus>>
          /\ monitor' = [monitor EXCEPT ![r][v] = "top"]
          /\ StartHotStuff(r, Sequence[r] + 1,
                           ObtainCurHash(curHash[r], Sequence[r] + 1, Batch(r)))
      BY <1>5 DEF MonitorPropose, MonitorGoto, voteVars
    <3>2. \A m \in net' \ net : m.type = "QC" /\ m.src = r
      BY <3>1 DEF StartHotStuff, Proposal
    <3> QED
      BY <3>1, <3>2 DEF StartHotStuff
  <2>2. Sequence \in [Replicas -> Nat] /\ curHash \in [Replicas -> Hashes]
    BY Tables
  <2>3. Sequence'[0] = Sequence[0] /\ curHash'[0] = curHash[0]
    BY <1>1, <1>5, <2>1, <2>2
  <2>4. monitor'[0][0] = monitor[0][0]
    BY <1>1, <1>5, <2>1
  <2>5. Sequence[0] \in Nat
    BY <1>1, <2>2
  <2>6. ZeroKeeps
    BY <2>1, <2>3, <2>5 DEF ZeroKeeps
  <2>7. MonitorKeeps /\ NetKeeps
    BY <1>5, <2>1, <2>4 DEF MonitorKeeps, NetKeeps
  <2> QED
    BY <2>6, <2>7 DEF ZeroRests
<1> QED
  BY <1>3, <1>4, <1>5

\* A step that leaves what is replica 0's alone.
LEMMA ZeroAside ==
  ASSUME SInv, curHash'[0] = curHash[0], curBlock'[0] = curBlock[0],
         prepared'[0] = prepared[0], votes'[0] = votes[0], Sequence'[0] = Sequence[0],
         curStatus'[0] = "READY" => curStatus[0] = "READY",
         monitor'[0][0] = monitor[0][0],
         \A m \in net' \ net : m.type \notin {"QC", "QCREP"}
  PROVE  ZeroRests
<1>1. MonitorKeeps /\ NetKeeps
  BY DEF MonitorKeeps, NetKeeps
<1>2. Sequence[0] \in Nat
  BY Tables
<1>3. ZeroKeeps
  BY <1>2 DEF ZeroKeeps
<1> QED
  BY <1>1, <1>3 DEF ZeroRests

LEMMA TimeoutRests ==
  ASSUME SInv, FirstLeads', NEW r \in Replicas, NEW v \in Views, TimeoutHandler(r, v)
  PROVE  ZeroRests
<1>1. view \in [Replicas -> Views] /\ curStatus \in [Replicas -> Status] /\ 0 \in Replicas
  BY Tables
<1>2. /\ UNCHANGED <<curHash, curBlock, prepared, votes, Sequence, monitor>>
      /\ \A m \in net' \ net : m.type \in {"TIMEOUT", "VIEWCHANGE"}
  BY DEF TimeoutHandler, TimeoutPersistent, TimeoutInMemory, StartViewChange, TimeoutMsg,
         ViewChangeMsg, chainVars, voteVars
<1>3. curStatus'[0] = "READY" => curStatus[0] = "READY"
  <2>1. CASE TimeoutPersistent(r, v)
    <3>1. view' = [view EXCEPT ![r] = v + 1]
          /\ \E p : curStatus' = [curStatus EXCEPT ![r] = p]
      BY <2>1 DEF TimeoutPersistent, StartViewChange
    <3>2. v + 1 # 0 /\ view'[0] = 0
      BY DEF Views, FirstLeads
    <3>3. r # 0
      BY <1>1, <3>1, <3>2
    <3> QED
      BY <1>1, <3>1, <3>3
  <2>2. CASE TimeoutInMemory(r, v)
    BY <1>1, <2>2 DEF TimeoutInMemory
  <2> QED
    BY <2>1, <2>2 DEF TimeoutHandler
<1> QED
  BY <1>2, <1>3, ZeroAside

LEMMA NormalRests ==
  ASSUME SInv, prepared \in [Replicas -> SUBSET Hashes], FirstLeads,
         NEW m \in net, HandleQCByteMsg(m)
  PROVE  ZeroRests \/ Certifies(m)
<1> DEFINE r == m.dst
<1>1. /\ r \in Replicas /\ m.src \in Replicas /\ 0 \in Replicas
      /\ curStatus \in [Replicas -> Status] /\ Sequence \in [Replicas -> Nat]
      /\ curBlock \in [Replicas -> Certs] /\ curHash \in [Replicas -> Hashes]
      /\ votes \in [Replicas -> SUBSET [hash: Hashes, id: Replicas]]
  BY Tables
<1>2. UNCHANGED monitor
  BY DEF HandleQCByteMsg, IgnoreMsg, RejectProposal, HandleNormalMsg, DropVote,
         HandleNormalRepMsg
<1>3. CASE IgnoreMsg(m) \/ RejectProposal(m) \/ DropVote(m)
  <2>1. /\ UNCHANGED <<curHash, curBlock, prepared, votes, Sequence, curStatus>>
        /\ net' \subseteq net
    BY <1>3 DEF IgnoreMsg, RejectProposal, DropVote, chainVars, voteVars
  <2> QED
    BY <1>2, <2>1, ZeroAside
<1>4. CASE HandleNormalMsg(m)
  <2>1. /\ UNCHANGED <<prepared, votes, curStatus>> /\ m.type = "QC"
        /\ net' = (net \ {m}) \cup
             { Vote(r, d, view[r], m.seq, m.hash) : d \in VoteTargets(r, m.src) }
    BY <1>4 DEF HandleNormalMsg, voteVars
  <2>2. \A x \in net' \ net : /\ x.type = "QCREP" /\ x.src = r /\ x.hash = m.hash
                              /\ x.dst # r => x.dst = m.src
    BY <2>1 DEF Vote, VoteTargets
  <2>3. NetKeeps
    BY <1>4, <2>1, <2>2 DEF NetKeeps, Casts
  <2>4. MonitorKeeps
    BY <1>2, <2>1 DEF MonitorKeeps
  <2>5. m.seq \in Nat
    BY <2>1 DEF SInv, BlockInv, VTypes, MsgFields, Seqs
  <2>6. /\ curBlock' \in {curBlock, [curBlock EXCEPT ![r] = m.qc]}
        /\ curHash' \in {curHash, [curHash EXCEPT ![r] = m.qc.hash]}
        /\ Leader(r) => UNCHANGED <<curBlock, curHash>>
        /\ Sequence' \in {Sequence, [Sequence EXCEPT ![r] = Larger(Sequence[r], m.seq)]}
    BY <1>4 DEF HandleNormalMsg, SkipQCInfo, ProcessQCInfo, AdoptsBlock, chainVars
  <2>7. Leader(0)
    BY ConstantsAssumption DEF FirstLeads, Leader, LeaderID
  <2>8. curBlock'[0] = curBlock[0] /\ curHash'[0] = curHash[0]
    <3>1. CASE r = 0
      BY <2>6, <2>7, <3>1
    <3>2. CASE r # 0
      BY <1>1, <2>6, <3>2
    <3> QED
      BY <3>1, <3>2
  <2>9. Sequence'[0] >= Sequence[0]
    <3>1. Sequence'[0] \in {Sequence[0], Larger(Sequence[0], m.seq)}
      BY <1>1, <2>6
    <3>2. Sequence[0] \in Nat
      BY <1>1
    <3> QED
      BY <2>5, <3>1, <3>2 DEF Larger
  <2>10. ZeroKeeps
    BY <2>1, <2>8, <2>9 DEF ZeroKeeps
  <2> QED
    BY <2>3, <2>4, <2>10 DEF ZeroRests
<1>5. CASE HandleNormalRepMsg(m) /\ ~Certifies(m)
  <2>1. /\ m.type = "QCREP" /\ UNCHANGED <<curHash, Sequence>> /\ net' \subseteq net
        /\ votes' = [votes EXCEPT ![r] = votes[r] \cup {[hash |-> m.hash, id |-> m.src]}]
        /\ \/ UNCHANGED <<prepared, curBlock, curStatus>>
           \/ /\ Cardinality(Voters(r, m)) >= QuorumSize
              /\ prepared' = [prepared EXCEPT ![r] = prepared[r] \cup {m.hash}]
              /\ curBlock' = [curBlock EXCEPT ![r] = NewQC(r, m)]
              /\ curStatus' = [curStatus EXCEPT ![r] = "READY"]
    BY <1>5 DEF HandleNormalRepMsg
  <2>2. r = 0 => UNCHANGED <<prepared, curBlock, curStatus>>
    BY <1>5, <2>1 DEF Certifies
  <2>3. /\ prepared'[0] = prepared[0] /\ curBlock'[0] = curBlock[0]
        /\ curStatus'[0] = curStatus[0]
    <3>1. CASE r = 0
      BY <2>2, <3>1
    <3>2. CASE r # 0
      BY <1>1, <2>1, <3>2
    <3> QED
      BY <3>1, <3>2
  <2>4. \A x \in votes'[0] \ votes[0] : m.dst = 0 /\ x.hash = m.hash /\ x.id = m.src
    <3>1. CASE r = 0
      BY <1>1, <2>1, <3>1
    <3>2. CASE r # 0
      BY <1>1, <2>1, <3>2
    <3> QED
      BY <3>1, <3>2
  <2>5. Sequence[0] \in Nat
    BY <1>1
  <2>6. ZeroKeeps
    BY <2>1, <2>3, <2>4, <2>5 DEF ZeroKeeps
  <2>7. MonitorKeeps /\ NetKeeps
    BY <1>2, <2>1, <2>3 DEF MonitorKeeps, NetKeeps
  <2> QED
    BY <2>6, <2>7 DEF ZeroRests
<1> QED
  BY <1>3, <1>4, <1>5 DEF HandleQCByteMsg, Certifies

\* In view 0 nobody hands anything over to replica 0.
LEMMA ViewChangeRests ==
  ASSUME SInv, QuorumSize > 1, OthersLater, FirstLeads, FirstLeads',
         NEW m \in net, HandleVCMsg(m)
  PROVE  ZeroRests
<1> DEFINE r == m.dst
<1>1. /\ r \in Replicas /\ 0 \in Replicas /\ 0 \in Views
      /\ view \in [Replicas -> Views] /\ curStatus \in [Replicas -> Status]
      /\ Sequence \in [Replicas -> Nat] /\ curBlock \in [Replicas -> Certs]
      /\ monitor \in [Replicas -> [Views -> MonitorPoints]]
  BY Tables
<1>2. view[0] = 0 /\ view'[0] = 0
  BY DEF FirstLeads
<1>3. CASE IgnoreVCMsg(m) \/ HandleTimeoutMsg(m)
  <2>1. UNCHANGED <<curHash, curBlock, prepared, votes, Sequence, curStatus, monitor>>
    BY <1>3 DEF IgnoreVCMsg, HandleTimeoutMsg, chainVars, voteVars
  <2>2. \A x \in net' \ net : x.type = "TQC"
    BY <1>3 DEF IgnoreVCMsg, HandleTimeoutMsg, TQCMsg
  <2> QED
    BY <2>1, <2>2, ZeroAside
<1>4. CASE HandleTQCMsg(m)
  <2> DEFINE forwarded == IF m.view \in tqcPrepared[r] THEN {}
                          ELSE { [m EXCEPT !.dst = d] : d \in Replicas \ {r} }
             msg == ViewChangeMsg(r, LeaderID(m.view + 1), m.view + 1, curBlock[r])
  <2>1. /\ UNCHANGED <<curHash, curBlock, prepared, votes, Sequence, monitor>>
        /\ view' = [view EXCEPT ![r] = m.view + 1]
        /\ \E p : curStatus' = [curStatus EXCEPT ![r] = p]
    BY <1>4 DEF HandleTQCMsg, StartViewChange, chainVars, voteVars
  <2>2. net' = ((net \ {m}) \cup forwarded) \cup {msg} /\ m.type = "TQC"
    BY <1>4 DEF HandleTQCMsg, StartViewChange
  <2>3. m \in TQCMsgs
    BY <2>2 DEF SInv, BlockInv, VTypes, MsgFields
  <2>4. \A x \in forwarded : x.type = "TQC"
    BY <2>3 DEF TQCMsgs
  <2>5. msg.type = "VIEWCHANGE"
    BY DEF ViewChangeMsg
  <2> HIDE DEF forwarded, msg
  <2>6. \A x \in net' \ net : x.type \in {"TQC", "VIEWCHANGE"}
    BY <2>2, <2>4, <2>5
  <2>7. m.view + 1 # 0
    BY <2>3 DEF TQCMsgs, Views
  <2>8. r # 0
    BY <1>1, <1>2, <2>1, <2>7
  <2>9. curStatus'[0] = curStatus[0]
    BY <1>1, <2>1, <2>8
  <2> QED
    BY <2>1, <2>6, <2>9, ZeroAside
<1>5. CASE HandleQCVCMessage(m)
  <2>1. m.type = "VIEWCHANGE" /\ m.view <= view[r] + 1
    <3>1. m.type = "VIEWCHANGE" /\ ~(m.view > view[r] + 1)
      BY <1>5 DEF HandleQCVCMessage, IgnoresVCMsg
    <3>2. m.view \in Nat /\ view[r] \in Nat
      BY <1>1, <3>1, Tables DEF ProtocolTypes, Views
    <3> QED
      BY <3>1, <3>2
  <2>2. r # 0
    <3> SUFFICES ASSUME r = 0 PROVE FALSE
      OBVIOUS
    <3>1. m.view \in Nat /\ m.view >= 1 /\ LeaderID(m.view) = 0
      BY <2>1, Tables DEF OthersLater, ProtocolTypes, Views
    <3>2. m.view = 1
      BY <1>2, <2>1, <3>1
    <3>3. N > 1 /\ N \in Nat
      BY ConstantsAssumption
    <3>4. 1 % N = 1
      BY <3>3
    <3> QED
      BY <3>1, <3>2, <3>4 DEF LeaderID
  <2>3. /\ UNCHANGED <<curHash, prepared, votes>>
        /\ \/ UNCHANGED <<curBlock, Sequence>>
           \/ /\ curBlock' = [curBlock EXCEPT ![r] = m.qc]
              /\ \E s : Sequence' = [Sequence EXCEPT ![r] = s]
        /\ \/ UNCHANGED <<curStatus, monitor>>
           \/ /\ curStatus' = [curStatus EXCEPT ![r] = "READY"]
              /\ monitor' = [monitor EXCEPT ![r][m.view] = "wait"]
        /\ net' \subseteq net
    BY <1>5 DEF HandleQCVCMessage, MonitorGoto, voteVars
  <2>4. curBlock'[0] = curBlock[0] /\ Sequence'[0] = Sequence[0]
    BY <1>1, <2>2, <2>3
  <2>5. curStatus'[0] = curStatus[0] /\ monitor'[0] = monitor[0]
    BY <1>1, <2>2, <2>3
  <2>6. Sequence[0] \in Nat
    BY <1>1
  <2>7. ZeroKeeps
    BY <2>3, <2>4, <2>6 DEF ZeroKeeps
  <2>8. MonitorKeeps /\ NetKeeps
    BY <2>3, <2>5 DEF MonitorKeeps, NetKeeps
  <2> QED
    BY <2>7, <2>8 DEF ZeroRests
<1> QED
  BY <1>3, <1>4, <1>5 DEF HandleVCMsg

LEMMA SleepRests ==
  ASSUME SInv, SInv', RecMode = "RecKoala2", FirstLeads, FirstLeads', SleepStep
  PROVE  ZeroRests
<1>1. /\ 0 \in Replicas /\ 0 \in Views
      /\ view \in [Replicas -> Views] /\ curStatus \in [Replicas -> Status]
      /\ Sequence \in [Replicas -> Nat] /\ curBlock \in [Replicas -> Certs]
      /\ curHash \in [Replicas -> Hashes]
      /\ votes \in [Replicas -> SUBSET [hash: Hashes, id: Replicas]]
      /\ monitor \in [Replicas -> [Views -> MonitorPoints]]
      /\ sleepProc \in [Replicas -> {"awake", "asleep", "woken", "done", "ended"}]
  BY Tables
<1>2. sleepProc[0] = "awake" /\ sleepProc'[0] = "awake"
  BY DEF FirstLeads, NeverSlept
<1>3. curStatus[0] \notin {"SLEEPING", "RECOVERING"}
  BY <1>1, UpIfAwake DEF FirstLeads, Down
<1>4. ASSUME NEW r \in Replicas, NEW v \in Views, MonitorSleeps(r, v) \/ TimerLost(r, v)
      PROVE  ZeroRests
  <2>1. /\ UNCHANGED <<curHash, curBlock, prepared, votes, Sequence, curStatus, net>>
        /\ \/ UNCHANGED monitor
           \/ r # 0 /\ monitor' = [monitor EXCEPT ![r][v] = "off"]
    BY <1>3, <1>4 DEF MonitorSleeps, TimerLost, chainVars, voteVars, MonitorGoto
  <2>2. monitor'[0] = monitor[0]
    BY <1>1, <2>1
  <2> QED
    BY <2>1, <2>2, ZeroAside
<1>5. ASSUME NEW m \in net,
             DropMsg(m) \/ HandleRec1Msg(m) \/ IgnoreEcho1(m) \/ HandleEcho1Msg(m)
               \/ HandleRec2Msg(m) \/ LateEcho2(m)
      PROVE  ZeroRests
  <2>1. UNCHANGED <<curHash, curBlock, prepared, votes, Sequence, curStatus, monitor>>
    BY <1>5 DEF DropMsg, HandleRec1Msg, IgnoreEcho1, HandleEcho1Msg, HandleRec2Msg, LateEcho2,
                chainVars, voteVars
  <2>2. \A x \in net' \ net : x.type \in {"ECHO1", "ECHO2"}
    BY <1>5 DEF DropMsg, HandleRec1Msg, IgnoreEcho1, HandleEcho1Msg, HandleRec2Msg, LateEcho2,
                Echo1Msg, Echo2Msg
  <2> QED
    BY <2>1, <2>2, ZeroAside
<1>6. ASSUME NEW m \in net, HandleEcho2Msg(m)
      PROVE  ZeroRests
  <2>1. /\ UNCHANGED <<curHash, prepared, votes, monitor>> /\ net' \subseteq net
        /\ m.dst # 0
        /\ \E c, s : /\ curBlock' = [curBlock EXCEPT ![m.dst] = c]
                     /\ Sequence' = [Sequence EXCEPT ![m.dst] = s]
        /\ curStatus' \in {curStatus, [curStatus EXCEPT ![m.dst] = "READY"]}
    BY <1>3, <1>6 DEF HandleEcho2Msg, Unexpected, voteVars
  <2>2. /\ curBlock'[0] = curBlock[0] /\ Sequence'[0] = Sequence[0]
        /\ curStatus'[0] = curStatus[0]
    BY <1>1, <2>1
  <2> QED
    BY <2>1, <2>2, ZeroAside
<1>7. ASSUME NEW m \in net, RecoveringTQC(m)
      PROVE  ZeroRests
  <2>1. UNCHANGED <<curHash, curBlock, prepared, votes, Sequence, curStatus, monitor>>
    BY <1>7 DEF RecoveringTQC, chainVars, voteVars
  <2>2. m \in TQCMsgs /\ \A x \in net' \ net : \E d \in Replicas : x = [m EXCEPT !.dst = d]
    BY <1>7, RecoveringTQCEffect
  <2>3. \A x \in net' \ net : x.type = "TQC"
    BY <2>2 DEF TQCMsgs
  <2> QED
    BY <2>1, <2>3, ZeroAside
<1>8. ASSUME NEW r \in Replicas,
             FallAsleep(r) \/ WakeUp(r) \/ RecoveryProcess(r) \/ SendRec2(r)
      PROVE  ZeroRests
  <2>1. CASE SendRec2(r)
    <3>1. /\ UNCHANGED <<curHash, curBlock, prepared, votes, Sequence, curStatus, monitor>>
          /\ \A x \in net' \ net : x.type = "REC2"
      BY <2>1 DEF SendRec2, Rec2Msg, chainVars, voteVars
    <3> QED
      BY <3>1, ZeroAside
  <2>2. CASE FallAsleep(r)
    <3>1. /\ UNCHANGED <<curHash, curBlock, prepared, votes, Sequence, monitor, net>>
          /\ curStatus' = [curStatus EXCEPT ![r] = "SLEEPING"]
      BY <2>2 DEF FallAsleep, chainVars, voteVars
    <3>2. curStatus'[0] \in {curStatus[0], "SLEEPING"}
      BY <1>1, <3>1
    <3> QED
      BY <3>1, <3>2, ZeroAside
  <2>3. CASE WakeUp(r)
    <3>1. r # 0
      BY <1>2, <2>3 DEF WakeUp
    <3>2. /\ UNCHANGED <<curStatus, monitor, net>>
          /\ curBlock' = [curBlock EXCEPT ![r] = EmptyBlock]
          /\ Sequence' = [Sequence EXCEPT ![r] = 0]
          /\ curHash' = [curHash EXCEPT ![r] = NilHash]
          /\ votes' = [votes EXCEPT ![r] = {}]
          /\ prepared' = [prepared EXCEPT ![r] = {}]
      BY <2>3 DEF WakeUp
    <3>3. prepared'[0] = prepared[0]
      BY <1>1, <3>1, <3>2
    <3>4. /\ curBlock'[0] = curBlock[0] /\ Sequence'[0] = Sequence[0]
          /\ curHash'[0] = curHash[0] /\ votes'[0] = votes[0]
      BY <1>1, <3>1, <3>2
    <3> QED
      BY <3>2, <3>3, <3>4, ZeroAside
  <2>4. CASE RecoverKoala2(r)
    <3>1. /\ UNCHANGED <<curHash, curBlock, prepared, votes, Sequence, monitor>>
          /\ curStatus' = [curStatus EXCEPT ![r] = "RECOVERING"]
          /\ \A x \in net' \ net : x.type = "REC1"
      BY <2>4 DEF RecoverKoala2, Rec1Msg, chainVars, voteVars
    <3>2. curStatus'[0] \in {curStatus[0], "RECOVERING"}
      BY <1>1, <3>1
    <3> QED
      BY <3>1, <3>2, ZeroAside
  <2> QED
    BY <1>8, <2>1, <2>2, <2>3, <2>4 DEF RecoveryProcess, RecoverFromDisk, NoRecovery
<1>9. CASE \E m \in net : DropMsg(m) \/ DispatchRec(m)
  BY <1>5, <1>6, <1>7, <1>9 DEF DispatchRec, HandleRecMsg
<1> QED
  BY <1>4, <1>8, <1>9 DEF SleepStep

LEMMA FirstStays ==
  ASSUME SInv, SInv', RecMode = "RecKoala2", [SleepyNext]_sleepyVars, FirstLeads'
  PROVE  FirstLeads
<1>1. 0 \in Replicas
  BY Tables
<1>2. NeverSlept(0) /\ sleepProc'[0] = sleepProc[0]
  BY <1>1, OthersStay DEF FirstLeads, NeverSlept
<1>3. view'[0] >= view[0] /\ view'[0] = 0 /\ view[0] \in Nat
  BY <1>1, <1>2, OthersStay, ViewTypes DEF FirstLeads
<1> QED
  BY <1>2, <1>3 DEF FirstLeads

LEMMA FirstSteps ==
  ASSUME SInv, SInv', RecMode = "RecKoala2", [SleepyNext]_sleepyVars,
         prepared \in [Replicas -> SUBSET Hashes], QuorumSize > 1, OthersLater, FirstLeads'
  PROVE  ZeroRests \/ MonitorPropose(0, 0) \/ \E m \in net : Certifies(m)
<1>1. FirstLeads
  BY FirstStays
<1>2. CASE UNCHANGED sleepyVars
  BY <1>2, ZeroAside DEF sleepyVars, allVars, vars, chainVars, voteVars
<1>3. ASSUME NEW r \in Replicas, NEW v \in Views, SleepyMonitor(r, v) \/ SleepyTimeout(r, v)
      PROVE  ZeroRests \/ MonitorPropose(0, 0)
  BY <1>1, <1>3, MonitorRests, TimeoutRests DEF SleepyMonitor, SleepyTimeout
<1>4. ASSUME NEW r \in Replicas, NEW req \in Requests, SleepyRequest(r, req) PROVE ZeroRests
  <2>1. UNCHANGED <<curHash, curBlock, prepared, votes, Sequence, curStatus, monitor, net>>
    BY <1>4 DEF SleepyRequest, HandleRequest, chainVars, voteVars
  <2> QED
    BY <2>1, ZeroAside
<1>5. ASSUME NEW m \in net, DispatchNormal(m) \/ DispatchVC(m)
      PROVE  ZeroRests \/ Certifies(m)
  BY <1>1, <1>5, NormalRests, ViewChangeRests DEF DispatchNormal, DispatchVC
<1>6. CASE SleepStep
  BY <1>1, <1>6, SleepRests
<1> QED
  BY <1>2, <1>3, <1>4, <1>5, <1>6 DEF SleepyNext, SleepStep

----------------------------------------------------------------------------
(* Replica 0 waits for its certificate.                                    *)

\* A quorum of votes that replica 0 counts is for its last proposal.
LEMMA CertifiesLast ==
  ASSUME SInv, FirstLeads, LeaderWaits, QuorumSize > 1, NEW m \in net, m.type = "QCREP",
         m.dst = 0, ~UselessVote(0, m), Cardinality(Voters(0, m)) >= QuorumSize
  PROVE  /\ Uncertified(m.hash) /\ m.hash = curHash[0]
         /\ \A i \in Voters(0, m) \ {0} : VoteUnderWay(i)
<1>1. Uncertified(m.hash)
  BY DEF UselessVote, Uncertified
<1>2. \A i \in Voters(0, m) : i = m.src \/ \E x \in votes[0] : x.id = i /\ x.hash = m.hash
  BY DEF Voters
<1>3. PICK i \in Voters(0, m) : i # 0
  <2> SUFFICES ASSUME Voters(0, m) \subseteq {0} PROVE FALSE
    OBVIOUS
  <2>1. Voters(0, m) = {0}
    BY DEF Voters
  <2>2. Cardinality({0}) = 1
    BY FS_Singleton
  <2> QED
    BY <2>1, <2>2, ConstantsAssumption
<1>4. m.hash = curHash[0]
  <2>1. CASE i = m.src
    BY <1>1, <1>3, <2>1 DEF LeaderWaits
  <2>2. CASE \E x \in votes[0] : x.id = i /\ x.hash = m.hash
    BY <1>1, <1>3, <2>2 DEF LeaderWaits
  <2> QED
    BY <1>2, <1>3, <2>1, <2>2
<1>5. \A j \in Voters(0, m) \ {0} : VoteUnderWay(j)
  BY <1>1, <1>2 DEF VoteUnderWay
<1> QED
  BY <1>1, <1>4, <1>5

LEMMA WaitsAtRest ==
  ASSUME SInv, FirstLeads, LeaderWaits, ZeroRests
  PROVE  LeaderWaits'
<1>1. ZeroKeeps /\ MonitorKeeps /\ NetKeeps
  BY DEF ZeroRests
<1>2. /\ \A h : Uncertified(h)' <=> Uncertified(h)
      /\ LastCertified' <=> LastCertified
  BY <1>1 DEF ZeroKeeps, LastCertified, Uncertified
<1>3. \A m \in net' : m.type = "QC" /\ m.src = 0 => m \in net
  BY <1>1 DEF NetKeeps
<1>4. \A m \in net' : m.type = "QC" /\ m.src = 0 =>
        /\ m.view = 0
        /\ Uncertified(m.hash)' => m.hash = curHash'[0] /\ m.qc.height >= curBlock'[0].height
  BY <1>1, <1>2, <1>3 DEF ZeroKeeps, LeaderWaits
<1>5. \A m \in net' : m.type = "QCREP" /\ m.dst = 0 /\ m.src # 0 /\ Uncertified(m.hash)' =>
        m.hash = curHash'[0]
  <2> SUFFICES ASSUME NEW m \in net', m.type = "QCREP", m.dst = 0, m.src # 0,
                      Uncertified(m.hash)
               PROVE  m.hash = curHash[0]
    BY <1>1, <1>2 DEF ZeroKeeps
  <2>1. CASE m \in net
    BY <2>1 DEF LeaderWaits
  <2>2. CASE m \notin net
    <3>1. Casts(m.src, m.hash)
      BY <1>1, <2>2 DEF NetKeeps
    <3> QED
      BY <3>1 DEF Casts, LeaderWaits
  <2> QED
    BY <2>1, <2>2
<1>6. \A x \in votes'[0] : /\ x.hash # NilHash
                           /\ x.id # 0 /\ Uncertified(x.hash)' => x.hash = curHash'[0]
  <2> SUFFICES ASSUME NEW x \in votes'[0]
               PROVE  /\ x.hash # NilHash
                      /\ x.id # 0 /\ Uncertified(x.hash) => x.hash = curHash[0]
    BY <1>1, <1>2 DEF ZeroKeeps
  <2>1. CASE x \in votes[0]
    BY <2>1 DEF LeaderWaits
  <2>2. CASE x \notin votes[0]
    <3>1. PICK m \in net : m.type = "QCREP" /\ m.dst = 0 /\ x.hash = m.hash /\ x.id = m.src
      BY <1>1, <2>2 DEF ZeroKeeps
    <3> QED
      BY <3>1, Tables DEF LeaderWaits
  <2> QED
    BY <2>1, <2>2
<1>7. /\ curStatus'[0] = "READY" => LastCertified'
      /\ monitor'[0][0] \in {"claim", "propose"} => LastCertified'
      /\ monitor'[0][0] = "propose" => curStatus'[0] # "READY"
  BY <1>1, <1>2 DEF MonitorKeeps, LeaderWaits
<1>8. Sequence'[0] = 0 => curBlock'[0].height = 0 /\ curHash'[0] = NilHash
  <2>1. Sequence[0] \in Nat
    BY Tables
  <2> QED
    BY <1>1, <2>1 DEF ZeroKeeps, LeaderWaits
<1> QED
  BY <1>4, <1>5, <1>6, <1>7, <1>8 DEF LeaderWaits

LEMMA WaitsForNext ==
  ASSUME SInv, FirstLeads, LeaderWaits, MonitorPropose(0, 0)
  PROVE  LeaderWaits'
<1> DEFINE seq == Sequence[0] + 1
           hash == ObtainCurHash(curHash[0], seq, Batch(0))
<1>1. /\ 0 \in Replicas /\ 0 \in Views
      /\ Sequence \in [Replicas -> Nat] /\ curHash \in [Replicas -> Hashes]
      /\ curBlock \in [Replicas -> Certs]
      /\ monitor \in [Replicas -> [Views -> MonitorPoints]]
  BY Tables
<1>2. /\ UNCHANGED <<curBlock, prepared, votes, curStatus>>
      /\ monitor[0][0] = "propose"
      /\ monitor' = [monitor EXCEPT ![0][0] = "top"]
      /\ StartHotStuff(0, seq, hash)
  BY DEF MonitorPropose, MonitorAt, MonitorGoto, voteVars
<1>3. curStatus[0] # "READY" /\ (curHash[0] = NilHash \/ ~Uncertified(curHash[0]))
  BY <1>2 DEF LeaderWaits, LastCertified
<1>4. monitor'[0][0] = "top" /\ curStatus'[0] # "READY"
  BY <1>1, <1>2, <1>3
<1>5. /\ Sequence'[0] = seq /\ curHash'[0] = hash
      /\ net' = net \cup { Proposal(0, d, view[0], seq, hash, FetchBlockInfo(0, seq)) :
                             d \in Replicas }
  BY <1>1, <1>2 DEF StartHotStuff
<1>6. seq # 0 /\ view[0] = 0
  BY <1>1 DEF FirstLeads
<1>7. FetchBlockInfo(0, seq).height >= curBlock[0].height
  <2>1. curBlock[0].height \in Nat
    BY <1>1 DEF Certs
  <2>2. CASE seq = 1
    <3> HIDE DEF hash
    <3>1. Sequence[0] = 0
      <4>1. Sequence[0] \in Nat
        BY <1>1
      <4>2. Sequence[0] + 1 = 1
        BY <2>2
      <4> QED
        BY <4>1, <4>2
    <3>2. curBlock[0].height = 0
      BY <3>1 DEF LeaderWaits
    <3> QED
      BY <2>2, <3>2 DEF FetchBlockInfo, EmptyBlock
  <2>3. CASE seq # 1
    BY <2>1, <2>3 DEF FetchBlockInfo, EmptyBlock
  <2> QED
    BY <2>2, <2>3
<1> HIDE DEF seq, hash
<1>8. \A h : Uncertified(h)' <=> Uncertified(h)
  BY <1>2 DEF Uncertified
\* Whatever is not certified is not in a message yet.
<1>9. /\ \A m \in net : m.type = "QC" /\ m.src = 0 => m.view = 0 /\ ~Uncertified(m.hash)
      /\ \A m \in net : m.type = "QCREP" /\ m.dst = 0 /\ m.src # 0 => ~Uncertified(m.hash)
      /\ \A x \in votes[0] : x.hash # NilHash /\ (x.id # 0 => ~Uncertified(x.hash))
  BY <1>3, Tables DEF LeaderWaits
<1>10. \A m \in net' : m.type = "QC" /\ m.src = 0 =>
         /\ m.view = 0
         /\ Uncertified(m.hash)' => m.hash = curHash'[0] /\ m.qc.height >= curBlock'[0].height
  BY <1>2, <1>5, <1>6, <1>7, <1>8, <1>9 DEF Proposal
<1>11. \A m \in net' : m.type = "QCREP" => m \in net
  BY <1>5 DEF Proposal
<1> QED
  BY <1>2, <1>4, <1>5, <1>6, <1>8, <1>9, <1>10, <1>11 DEF LeaderWaits

LEMMA WaitsNoMore ==
  ASSUME SInv, prepared \in [Replicas -> SUBSET Hashes], FirstLeads, LeaderWaits,
         QuorumSize > 1, NEW m \in net, Certifies(m)
  PROVE  LeaderWaits'
<1>1. /\ m.type = "QCREP" /\ m.dst = 0 /\ ~UselessVote(0, m)
      /\ Cardinality(Voters(0, m)) >= QuorumSize
      /\ UNCHANGED <<curHash, Sequence, monitor>> /\ net' = net \ {m}
      /\ votes' = [votes EXCEPT ![0] = votes[0] \cup {[hash |-> m.hash, id |-> m.src]}]
      /\ prepared' = [prepared EXCEPT ![0] = prepared[0] \cup {m.hash}]
  BY DEF Certifies, HandleNormalRepMsg
<1>2. Uncertified(m.hash) /\ m.hash = curHash[0] /\ m.hash # NilHash
  BY <1>1, CertifiesLast, Tables
<1>3. /\ 0 \in Replicas
      /\ votes \in [Replicas -> SUBSET [hash: Hashes, id: Replicas]]
  BY Tables
<1>4. prepared'[0] = prepared[0] \cup {curHash[0]} /\ m.hash \in prepared'[0]
  BY <1>1, <1>2, <1>3
<1>5. votes'[0] = votes[0] \cup {[hash |-> m.hash, id |-> m.src]}
  BY <1>1, <1>3
<1>6. LastCertified' /\ \A h : Uncertified(h)' => Uncertified(h) /\ h # curHash[0]
  BY <1>1, <1>4 DEF LastCertified, Uncertified
<1>7. monitor[0][0] \notin {"claim", "propose"} /\ Sequence[0] # 0
  BY <1>2 DEF LeaderWaits, LastCertified
<1>8. \A x \in votes'[0] : x.hash # NilHash /\ (Uncertified(x.hash)' => x \in votes[0])
  BY <1>2, <1>4, <1>5 DEF Uncertified, LeaderWaits
<1> QED
  BY <1>1, <1>6, <1>7, <1>8 DEF LeaderWaits

LEMMA LeaderWaitsStep ==
  ASSUME SInv, SInv', RecMode = "RecKoala2", [SleepyNext]_sleepyVars,
         prepared \in [Replicas -> SUBSET Hashes], QuorumSize > 1, OthersLater,
         FirstLeads => LeaderWaits, FirstLeads'
  PROVE  LeaderWaits'
BY FirstStays, FirstSteps, WaitsAtRest, WaitsForNext, WaitsNoMore

----------------------------------------------------------------------------
(* Whoever has recovered is in a later view.                               *)

LEMMA PreparedStep ==
  ASSUME SInv, RecMode = "RecKoala2", [SleepyNext]_sleepyVars,
         prepared \in [Replicas -> SUBSET Hashes]
  PROVE  prepared' \in [Replicas -> SUBSET Hashes]
<1>1. ASSUME NEW r \in Replicas, NEW v \in Views, SleepyMonitor(r, v) \/ SleepyTimeout(r, v)
      PROVE  UNCHANGED prepared
  BY <1>1 DEF SleepyMonitor, SleepyTimeout, RequestMonitor, MonitorStart, MonitorCheckView,
              MonitorCheckStatus, MonitorClaim, MonitorPropose, TimeoutHandler,
              TimeoutPersistent, TimeoutInMemory, StartViewChange, voteVars
<1>2. ASSUME NEW m \in net, DispatchNormal(m)
      PROVE  prepared' \in [Replicas -> SUBSET Hashes]
  <2>1. \/ UNCHANGED prepared
        \/ /\ m.type = "QCREP"
           /\ prepared' = [prepared EXCEPT ![m.dst] = prepared[m.dst] \cup {m.hash}]
    BY <1>2 DEF DispatchNormal, HandleQCByteMsg, IgnoreMsg, RejectProposal, HandleNormalMsg,
                DropVote, HandleNormalRepMsg, voteVars
  <2>2. m.type = "QCREP" => m.dst \in Replicas /\ m.hash \in Hashes
    BY Tables
  <2>3. CASE UNCHANGED prepared
    BY <2>3
  <2>4. CASE ~UNCHANGED prepared
    <3>1. prepared[m.dst] \cup {m.hash} \in SUBSET Hashes
      BY <2>1, <2>2, <2>4
    <3> QED
      BY <2>1, <2>4, <3>1
  <2> QED
    BY <2>3, <2>4
<1>3. ASSUME NEW m \in net, DispatchVC(m) PROVE UNCHANGED prepared
  BY <1>3 DEF DispatchVC, HandleVCMsg, IgnoreVCMsg, HandleTimeoutMsg, HandleTQCMsg,
              StartViewChange, HandleQCVCMessage, voteVars
<1>4. ASSUME NEW m \in net, DropMsg(m) \/ DispatchRec(m) PROVE UNCHANGED prepared
  BY <1>4 DEF DropMsg, DispatchRec, HandleRecMsg, HandleRec1Msg, IgnoreEcho1, HandleEcho1Msg,
              HandleRec2Msg, LateEcho2, HandleEcho2Msg, RecoveringTQC, voteVars
<1>5. ASSUME NEW r \in Replicas, NEW v \in Views, MonitorSleeps(r, v) \/ TimerLost(r, v)
      PROVE  UNCHANGED prepared
  BY <1>5 DEF MonitorSleeps, TimerLost, voteVars
<1>6. ASSUME NEW r \in Replicas, FallAsleep(r) \/ RecoveryProcess(r) \/ SendRec2(r)
      PROVE  UNCHANGED prepared
  BY <1>6 DEF FallAsleep, RecoveryProcess, RecoverKoala2, RecoverFromDisk, NoRecovery, SendRec2,
              voteVars
<1>7. ASSUME NEW r \in Replicas, WakeUp(r)
      PROVE  prepared' \in [Replicas -> SUBSET Hashes]
  <2>1. prepared' = [prepared EXCEPT ![r] = {}]
    BY <1>7 DEF WakeUp
  <2> QED
    BY <2>1
<1>8. ASSUME NEW r \in Replicas, NEW req \in Requests, SleepyRequest(r, req)
      PROVE  UNCHANGED prepared
  BY <1>8 DEF SleepyRequest, HandleRequest, voteVars
<1>9. CASE UNCHANGED sleepyVars
  BY <1>9 DEF sleepyVars, allVars, vars, voteVars
<1> QED
  BY <1>1, <1>2, <1>3, <1>4, <1>5, <1>6, <1>7, <1>8, <1>9 DEF SleepyNext

\* Nobody's recovery goes on.
LEMMA RecoveredStays ==
  ASSUME SInv, SInv', RecoveredLater, UNCHANGED <<sleepProc, reqHash>>,
         \A s \in Replicas : sleepProc[s] = "done" =>
           /\ view'[s] >= view[s]
           /\ recBuffer'[s]["REC2"] = recBuffer[s]["REC2"]
           /\ ~Down(s)' => ~Down(s)
  PROVE  RecoveredLater'
<1>1. \A s \in Replicas : view[s] \in Nat
  BY ViewTypes
<1>2. \A s \in Replicas : view'[s] \in Nat
  BY DEF SInv, BlockInv, VTypes, NormalTypes, Views
<1> QED
  BY <1>1, <1>2 DEF RecoveredLater

\* The recovery of r goes on.
LEMMA OthersRecovered ==
  ASSUME SInv, RecoveredLater, NEW r \in Replicas,
         \A s \in Replicas \ {r} :
           /\ sleepProc'[s] = sleepProc[s] /\ reqHash'[s] = reqHash[s]
           /\ view'[s] = view[s] /\ recBuffer'[s] = recBuffer[s]
           /\ curStatus'[s] = curStatus[s],
         sleepProc'[r] = "done" =>
           /\ ~Down(r)' => view'[r] >= 1 /\ recBuffer'[r]["REC2"] >= RecQuorum
           /\ reqHash'[r] = "REC2" => view'[r] >= 1
  PROVE  RecoveredLater'
BY DEF RecoveredLater, Down

LEMMA RecoveredStep ==
  ASSUME SInv, SInv', RecMode = "RecKoala2", RecQuorum \in Nat, [SleepyNext]_sleepyVars,
         RecoveredLater
  PROVE  RecoveredLater'
<1>0. /\ view \in [Replicas -> Views] /\ curStatus \in [Replicas -> Status]
      /\ sleepProc \in [Replicas -> {"awake", "asleep", "woken", "done", "ended"}]
      /\ recBuffer \in [Replicas -> [Requested -> Nat]]
      /\ reqHash \in [Replicas -> Requested \cup {"none"}]
  BY Tables
<1>1. ASSUME UNCHANGED <<view, sleepProc, reqHash, recBuffer, curStatus>>
      PROVE  RecoveredLater'
  BY <1>1 DEF RecoveredLater, Down
<1>2. CASE UNCHANGED sleepyVars
  BY <1>1, <1>2 DEF sleepyVars, allVars, vars, sleepVars, recVars
<1>3. CASE ProtocolEffect
  <2>1. Grown /\ DownRest
    <3>1. Grown
      BY <1>3, Zenon DEF ProtocolEffect
    <3>2. DownRest
      BY <1>3, Zenon DEF ProtocolEffect
    <3> QED
      BY <3>1, <3>2
  <2>2. UNCHANGED <<sleepProc, reqHash, recBuffer>>
    <3>1. UNCHANGED <<sleepProc, recVars, before>>
      BY <1>3, Zenon DEF ProtocolEffect
    <3> QED
      BY <3>1 DEF recVars
  <2>3. \A s \in Replicas : view'[s] >= view[s] /\ (~Down(s)' => ~Down(s))
    BY <2>1 DEF Grown, DownRest, Down
  <2> QED
    BY <2>2, <2>3, RecoveredStays
<1>4. ASSUME NEW r \in Replicas, NEW v \in Views, MonitorSleeps(r, v) \/ TimerLost(r, v)
      PROVE  RecoveredLater'
  BY <1>1, <1>4 DEF MonitorSleeps, TimerLost, sleepVars, recVars
<1>5. ASSUME NEW m \in net,
             DropMsg(m) \/ HandleRec1Msg(m) \/ IgnoreEcho1(m) \/ HandleRec2Msg(m) \/ LateEcho2(m)
      PROVE  RecoveredLater'
  BY <1>1, <1>5 DEF DropMsg, HandleRec1Msg, IgnoreEcho1, HandleRec2Msg, LateEcho2, sleepVars,
                    recVars
<1>6. ASSUME NEW m \in net, HandleEcho1Msg(m) PROVE RecoveredLater'
  <2>1. /\ UNCHANGED <<sleepProc, reqHash, view, curStatus>>
        /\ recBuffer' = [recBuffer EXCEPT ![m.dst]["REC1"] = recBuffer[m.dst]["REC1"] + 1]
    BY <1>6 DEF HandleEcho1Msg
  <2>2. \A s \in Replicas : recBuffer'[s]["REC2"] = recBuffer[s]["REC2"]
    BY <1>0, <2>1 DEF Requested
  <2> QED
    BY <2>1, <2>2 DEF RecoveredLater, Down
<1>7. ASSUME NEW m \in net, HandleEcho2Msg(m) PROVE RecoveredLater'
  <2> DEFINE r == m.dst
  <2>1. /\ UNCHANGED <<sleepProc, reqHash, view>>
        /\ recBuffer' = [recBuffer EXCEPT ![r]["REC2"] = recBuffer[r]["REC2"] + 1]
        /\ \/ UNCHANGED curStatus
           \/ Completes(r, "REC2") /\ curStatus' = [curStatus EXCEPT ![r] = "READY"]
        /\ reqHash[r] = "REC2" /\ curStatus[r] = "RECOVERING"
    <3>1. m.type = "ECHO2" => m.hash = "REC2"
      BY DEF SInv, SleepTypes, RecMsgFields
    <3> QED
      BY <1>7, <3>1 DEF HandleEcho2Msg, Unexpected
  <2>2. r \in Replicas
    BY Tables
  <2> HIDE DEF r
  <2>3. /\ recBuffer'[r]["REC2"] = recBuffer[r]["REC2"] + 1
        /\ \A s \in Replicas \ {r} : recBuffer'[s] = recBuffer[s]
    BY <1>0, <2>1, <2>2 DEF Requested
  <2>4. \A s \in Replicas \ {r} : curStatus'[s] = curStatus[s]
    BY <1>0, <2>1
  <2>5. sleepProc[r] = "done" => view[r] >= 1
    BY <2>1, <2>2 DEF RecoveredLater
  <2>6. ~Down(r)' => recBuffer'[r]["REC2"] >= RecQuorum
    BY <2>1, <2>3 DEF Down, Completes
  <2> QED
    BY <2>1, <2>2, <2>3, <2>4, <2>5, <2>6, OthersRecovered
<1>8. ASSUME NEW m \in net, RecoveringTQC(m) PROVE RecoveredLater'
  <2>1. UNCHANGED <<sleepProc, reqHash, recBuffer, curStatus>>
    BY <1>8 DEF RecoveringTQC, recVars
  <2>2. \A s \in Replicas : view'[s] >= view[s]
    <3>1. /\ m.dst \in Replicas /\ view[m.dst] <= m.view /\ m.view \in Views
          /\ view' = [view EXCEPT ![m.dst] = m.view + 1]
      BY <1>8, RecoveringTQCEffect
    <3> QED
      BY <1>0, <3>1, ViewTypes, SMTT(30)
  <2>3. \A s \in Replicas : ~Down(s)' => ~Down(s)
    BY <2>1 DEF Down
  <2> QED
    BY <2>1, <2>2, <2>3, RecoveredStays
<1>9. ASSUME NEW r \in Replicas, SendRec2(r) PROVE RecoveredLater'
  <2>1. /\ UNCHANGED <<sleepProc, recBuffer, view, curStatus>>
        /\ spinning[r] /\ Passed(r)
        /\ reqHash' = [reqHash EXCEPT ![r] = "REC2"]
    BY <1>9 DEF SendRec2
  <2>2. view[r] >= 1
    <3>1. hView[r] \in Int /\ hView[r] >= -2 /\ view[r] \in Nat
      BY ViewTypes, ConstantsAssumption DEF SInv, SleepTypes, RecTypes
    <3> QED
      BY <2>1, <3>1 DEF Passed
  <2>3. \A s \in Replicas \ {r} : reqHash'[s] = reqHash[s]
    BY <1>0, <2>1
  <2> QED
    BY <2>1, <2>2, <2>3 DEF RecoveredLater, Down
<1>10. ASSUME NEW r \in Replicas, FallAsleep(r) \/ WakeUp(r) PROVE RecoveredLater'
  <2>1. \E p \in {"asleep", "woken"} : sleepProc' = [sleepProc EXCEPT ![r] = p]
    BY <1>10 DEF FallAsleep, WakeUp
  <2>2. /\ sleepProc'[r] # "done"
        /\ \A s \in Replicas \ {r} : sleepProc'[s] = sleepProc[s]
    BY <1>0, <2>1
  <2>3. /\ UNCHANGED reqHash
        /\ curStatus' \in {curStatus, [curStatus EXCEPT ![r] = "SLEEPING"]}
        /\ view' \in {view, [view EXCEPT ![r] = 0]}
        /\ recBuffer' \in {recBuffer, [recBuffer EXCEPT ![r] = [q \in Requested |-> 0]]}
    BY <1>10 DEF FallAsleep, WakeUp, recVars
  <2>4. \A s \in Replicas \ {r} : /\ curStatus'[s] = curStatus[s] /\ view'[s] = view[s]
                                  /\ recBuffer'[s] = recBuffer[s]
    BY <1>0, <2>3
  <2> QED
    BY <2>2, <2>3, <2>4, OthersRecovered
<1>11. ASSUME NEW r \in Replicas, RecoverKoala2(r) PROVE RecoveredLater'
  <2>1. /\ sleepProc' = [sleepProc EXCEPT ![r] = "done"]
        /\ curStatus' = [curStatus EXCEPT ![r] = "RECOVERING"]
        /\ reqHash' = [reqHash EXCEPT ![r] = "REC1"]
        /\ UNCHANGED <<view, recBuffer>>
    BY <1>11 DEF RecoverKoala2, StartsRecovery
  <2>2. curStatus'[r] = "RECOVERING" /\ reqHash'[r] = "REC1"
    BY <1>0, <2>1
  <2>3. \A s \in Replicas \ {r} : /\ sleepProc'[s] = sleepProc[s] /\ reqHash'[s] = reqHash[s]
                                  /\ curStatus'[s] = curStatus[s]
    BY <1>0, <2>1
  <2> QED
    BY <2>1, <2>2, <2>3, OthersRecovered DEF Down
<1>12. CASE SleepStep
  <2>1. CASE \E m \in net : DropMsg(m) \/ DispatchRec(m)
    BY <2>1, <1>5, <1>6, <1>7, <1>8 DEF DispatchRec, HandleRecMsg
  <2>2. CASE \E r \in Replicas :
               FallAsleep(r) \/ WakeUp(r) \/ RecoveryProcess(r) \/ SendRec2(r)
    BY <2>2, <1>9, <1>10, <1>11 DEF RecoveryProcess, RecoverFromDisk, NoRecovery
  <2> QED
    BY <1>4, <1>12, <2>1, <2>2 DEF SleepStep
<1> QED
  BY <1>2, <1>3, <1>12, StepKinds

----------------------------------------------------------------------------
(* The others lead later views.                                            *)

\* What a step may do.
MonitorsLater ==
  \A s \in Replicas, v \in Views :
    \/ monitor'[s][v] = monitor[s][v]
    \/ monitor'[s][v] = "off"
    \/ monitor[s][v] # "off" /\ (s # 0 /\ v = 0 => monitor[s][v] \notin {"wait", "off"})
    \/ v >= 1 /\ view'[s] >= 1

ProposesLater(m) == m.type = "QC" /\ m.src # 0 /\ NeverSlept(m.src) => view[m.src] >= 1

VotesLater(m) == m.type = "QCREP" /\ m.dst # 0 /\ NeverSlept(m.dst) => view[m.dst] >= 1

HandsOver(m) == m.type = "VIEWCHANGE" => m.view >= 1 /\ m.dst = LeaderID(m.view)

LEMMA OthersLaterMoves ==
  ASSUME SInv, SInv', RecMode = "RecKoala2", [SleepyNext]_sleepyVars, OthersLater,
         MonitorsLater,
         \A m \in net' \ net : ProposesLater(m) /\ VotesLater(m) /\ HandsOver(m)
  PROVE  OthersLater'
<1>1. \A s \in Replicas : view[s] \in Nat /\ view'[s] \in Nat
  BY ViewTypes DEF SInv, BlockInv, VTypes, NormalTypes, Views
<1>2. \A s \in Replicas : NeverSlept(s)' => NeverSlept(s) /\ view'[s] >= view[s]
  BY OthersStay DEF NeverSlept
<1>3. \A m \in net' : m.src \in Replicas /\ m.dst \in Replicas
  BY DEF SInv, BlockInv, VTypes, MsgFields
<1>4. 0 \in Views /\ Views \subseteq Nat
  BY Tables, ViewTypes
<1>5. \A s \in Replicas \ {0} : monitor'[s][0] \in {"wait", "off"}
  BY <1>4 DEF OthersLater, MonitorsLater
<1>6. \A s \in Replicas : NeverSlept(s)' /\ view'[s] = 0 =>
        \A v \in Views \ {0} : monitor'[s][v] = "off"
  BY <1>1, <1>2, <1>4 DEF OthersLater, MonitorsLater
<1>7. \A m \in net' : ProposesLater(m) /\ VotesLater(m) /\ HandsOver(m)
  BY DEF OthersLater, ProposesLater, VotesLater, HandsOver
<1>8. \A m \in net' : m.type = "QC" /\ m.src # 0 /\ NeverSlept(m.src)' => view'[m.src] >= 1
  BY <1>1, <1>2, <1>3, <1>7 DEF ProposesLater
<1>9. \A m \in net' : m.type = "QCREP" /\ m.dst # 0 /\ NeverSlept(m.dst)' => view'[m.dst] >= 1
  BY <1>1, <1>2, <1>3, <1>7 DEF VotesLater
<1> QED
  BY <1>5, <1>6, <1>7, <1>8, <1>9 DEF OthersLater, HandsOver

LEMMA MonitorLater ==
  ASSUME SInv, OthersLater, NEW r \in Replicas, NEW v \in Views, RequestMonitor(r, v)
  PROVE  /\ MonitorsLater
         /\ \A m \in net' \ net : ProposesLater(m) /\ VotesLater(m) /\ HandsOver(m)
<1>1. monitor \in [Replicas -> [Views -> MonitorPoints]] /\ 0 \in Replicas /\ 0 \in Views
  BY Tables
<1>2. /\ monitor[r][v] # "off"
      /\ \E p : monitor' = [monitor EXCEPT ![r][v] = p]
                /\ (monitor[r][v] = "wait" /\ r # 0 /\ v = 0 => p = "off")
  <2>1. LeaderID(0) = 0
    BY ConstantsAssumption DEF LeaderID
  <2> QED
    BY <2>1 DEF RequestMonitor, MonitorStart, MonitorCheckView, MonitorCheckStatus, MonitorClaim,
           MonitorPropose, MonitorAt, MonitorGoto
<1>3. MonitorsLater
  <2>1. PICK p : monitor' = [monitor EXCEPT ![r][v] = p]
                 /\ (monitor[r][v] = "wait" /\ r # 0 /\ v = 0 => p = "off")
    BY <1>2
  <2>2. monitor'[r][v] = p
    BY <1>1, <2>1
  <2>3. \A s \in Replicas, w \in Views : ~(s = r /\ w = v) => monitor'[s][w] = monitor[s][w]
    <3> SUFFICES ASSUME NEW s \in Replicas, NEW w \in Views, ~(s = r /\ w = v)
                 PROVE  monitor'[s][w] = monitor[s][w]
      OBVIOUS
    <3>1. CASE s # r
      BY <1>1, <2>1, <3>1
    <3>2. CASE s = r
      <4>1. w # v /\ monitor'[r] = [monitor[r] EXCEPT ![v] = p]
        BY <1>1, <2>1, <3>2
      <4>2. monitor[r] \in [Views -> MonitorPoints]
        BY <1>1
      <4> QED
        BY <3>2, <4>1, <4>2
    <3> QED
      BY <3>1, <3>2
  <2> QED
    BY <1>2, <2>1, <2>2, <2>3 DEF MonitorsLater
<1>4. CASE ~MonitorPropose(r, v)
  <2>1. UNCHANGED net
    BY <1>4 DEF RequestMonitor, MonitorStart, MonitorCheckView, MonitorCheckStatus, MonitorClaim
  <2> QED
    BY <1>3, <2>1
<1>5. CASE MonitorPropose(r, v)
  <2>1. \A m \in net' \ net : m.type = "QC" /\ m.src = r
    <3>1. StartHotStuff(r, Sequence[r] + 1,
                        ObtainCurHash(curHash[r], Sequence[r] + 1, Batch(r)))
      BY <1>5 DEF MonitorPropose
    <3> QED
      BY <3>1 DEF StartHotStuff, Proposal
  <2>2. r # 0 /\ NeverSlept(r) => view[r] >= 1
    <3>1. monitor[r][v] = "propose"
      BY <1>5 DEF MonitorPropose, MonitorAt
    <3>2. r # 0 /\ NeverSlept(r) => view[r] # 0
      BY <3>1 DEF OthersLater
    <3> QED
      BY <3>2, ViewTypes
  <2> QED
    BY <1>3, <2>1, <2>2 DEF ProposesLater, VotesLater, HandsOver
<1> QED
  BY <1>4, <1>5

\* A step that sends no message of concern and starts no monitor.
LEMMA NothingLater ==
  ASSUME UNCHANGED monitor,
         \A m \in net' \ net : m.type \notin {"QC", "QCREP", "VIEWCHANGE"}
  PROVE  /\ MonitorsLater
         /\ \A m \in net' \ net : ProposesLater(m) /\ VotesLater(m) /\ HandsOver(m)
BY DEF MonitorsLater, ProposesLater, VotesLater, HandsOver

LEMMA NormalLater ==
  ASSUME SInv, OthersLater, NEW m \in net, HandleQCByteMsg(m)
  PROVE  /\ MonitorsLater
         /\ \A x \in net' \ net : ProposesLater(x) /\ VotesLater(x) /\ HandsOver(x)
<1> DEFINE r == m.dst
<1>1. UNCHANGED monitor
  BY DEF HandleQCByteMsg, IgnoreMsg, RejectProposal, HandleNormalMsg, DropVote,
         HandleNormalRepMsg
<1>2. CASE ~HandleNormalMsg(m)
  <2>1. net' \subseteq net
    BY <1>2 DEF HandleQCByteMsg, IgnoreMsg, RejectProposal, DropVote, HandleNormalRepMsg
  <2> QED
    BY <1>1, <2>1, NothingLater
<1>3. CASE HandleNormalMsg(m)
  <2>1. /\ m.type = "QC"
        /\ \A x \in net' \ net : /\ x.type = "QCREP"
                                 /\ x.dst = m.src \/ (x.dst = r /\ Leader(r))
    BY <1>3 DEF HandleNormalMsg, Vote, VoteTargets
  <2>2. r # 0 /\ Leader(r) => view[r] >= 1
    <3>1. r \in Replicas /\ view[r] \in Nat
      BY Tables, ViewTypes
    <3>2. 0 % N = 0
      BY ConstantsAssumption
    <3>3. r # 0 /\ Leader(r) => view[r] # 0
      BY <3>2 DEF Leader, LeaderID
    <3> QED
      BY <3>1, <3>3
  <2>3. \A x \in net' \ net : VotesLater(x)
    BY <2>1, <2>2 DEF OthersLater, VotesLater
  <2> QED
    BY <1>1, <2>1, <2>3 DEF MonitorsLater, ProposesLater, HandsOver
<1> QED
  BY <1>2, <1>3

LEMMA ChangeLater ==
  ASSUME SInv, NEW r \in Replicas, NEW v \in Views, NEW rest,
         StartViewChange(r, v, rest), \A x \in rest \ net : x.type \in {"TQC", "TIMEOUT"}
  PROVE  /\ MonitorsLater
         /\ \A x \in net' \ net : ProposesLater(x) /\ VotesLater(x) /\ HandsOver(x)
<1>1. UNCHANGED monitor
  BY DEF StartViewChange
<1>2. v + 1 >= 1
  BY DEF Views
<1>3. \A x \in net' \ net :
        \/ x.type \in {"TQC", "TIMEOUT"}
        \/ x.type = "VIEWCHANGE" /\ x.view = v + 1 /\ x.dst = LeaderID(x.view)
  BY DEF StartViewChange, ViewChangeMsg
<1> QED
  BY <1>1, <1>2, <1>3 DEF MonitorsLater, ProposesLater, VotesLater, HandsOver

LEMMA ViewChangeLater ==
  ASSUME SInv, OthersLater, NEW m \in net, HandleVCMsg(m)
  PROVE  /\ MonitorsLater
         /\ \A x \in net' \ net : ProposesLater(x) /\ VotesLater(x) /\ HandsOver(x)
<1> DEFINE r == m.dst
<1>1. /\ r \in Replicas /\ view \in [Replicas -> Views]
      /\ monitor \in [Replicas -> [Views -> MonitorPoints]]
  BY Tables
<1>2. CASE IgnoreVCMsg(m) \/ HandleTimeoutMsg(m)
  <2>1. UNCHANGED monitor /\ \A x \in net' \ net : x.type = "TQC"
    BY <1>2 DEF IgnoreVCMsg, HandleTimeoutMsg, TQCMsg
  <2> QED
    BY <2>1, NothingLater
<1>3. CASE HandleTQCMsg(m)
  <2> DEFINE forwarded == IF m.view \in tqcPrepared[r] THEN {}
                          ELSE { [m EXCEPT !.dst = d] : d \in Replicas \ {r} }
  <2>1. m.type = "TQC" /\ StartViewChange(r, m.view, (net \ {m}) \cup forwarded)
    BY <1>3 DEF HandleTQCMsg
  <2>2. m \in TQCMsgs
    BY <2>1 DEF SInv, BlockInv, VTypes, MsgFields
  <2>3. m.view \in Views /\ \A x \in forwarded : x.type = "TQC"
    BY <2>2 DEF TQCMsgs
  <2> HIDE DEF forwarded
  <2>4. \A x \in ((net \ {m}) \cup forwarded) \ net : x.type = "TQC"
    BY <2>3
  <2> QED
    BY <1>1, <2>1, <2>3, <2>4, ChangeLater
<1>4. CASE HandleQCVCMessage(m)
  <2>1. /\ m.type = "VIEWCHANGE" /\ net' \subseteq net
        /\ \/ UNCHANGED monitor
           \/ /\ view' = [view EXCEPT ![r] = m.view]
              /\ monitor' = [monitor EXCEPT ![r][m.view] = "wait"]
    BY <1>4 DEF HandleQCVCMessage, MonitorGoto
  <2>2. CASE UNCHANGED monitor
    BY <2>1, <2>2, NothingLater
  <2>3. CASE ~UNCHANGED monitor
    <3>1. m.view \in Views /\ m.view >= 1
      BY <2>1, Tables DEF OthersLater, ProtocolTypes
    <3>2. view'[r] >= 1
      BY <1>1, <2>1, <2>3, <3>1
    <3>3. \A s \in Replicas, w \in Views :
            ~(s = r /\ w = m.view) => monitor'[s][w] = monitor[s][w]
      <4> SUFFICES ASSUME NEW s \in Replicas, NEW w \in Views, ~(s = r /\ w = m.view)
                   PROVE  monitor'[s][w] = monitor[s][w]
        OBVIOUS
      <4>1. CASE s # r
        BY <1>1, <2>1, <2>3, <4>1
      <4>2. CASE s = r
        <5>1. w # m.view /\ monitor'[r] = [monitor[r] EXCEPT ![m.view] = "wait"]
          BY <1>1, <2>1, <2>3, <4>2
        <5>2. monitor[r] \in [Views -> MonitorPoints]
          BY <1>1
        <5> QED
          BY <4>2, <5>1, <5>2
      <4> QED
        BY <4>1, <4>2
    <3> QED
      BY <2>1, <3>1, <3>2, <3>3 DEF MonitorsLater
  <2> QED
    BY <2>2, <2>3
<1> QED
  BY <1>2, <1>3, <1>4 DEF HandleVCMsg

LEMMA SleepLater ==
  ASSUME SInv, RecMode = "RecKoala2", SleepStep
  PROVE  /\ MonitorsLater
         /\ \A x \in net' \ net : ProposesLater(x) /\ VotesLater(x) /\ HandsOver(x)
<1>1. ASSUME NEW r \in Replicas, NEW v \in Views, MonitorSleeps(r, v) \/ TimerLost(r, v)
      PROVE  MonitorsLater /\ UNCHANGED net
  <2>1. UNCHANGED net /\ (UNCHANGED monitor \/ monitor' = [monitor EXCEPT ![r][v] = "off"])
    BY <1>1 DEF MonitorSleeps, TimerLost, MonitorGoto
  <2>2. monitor \in [Replicas -> [Views -> MonitorPoints]]
    BY Tables
  <2>3. \A s \in Replicas, w \in Views : monitor'[s][w] \in {monitor[s][w], "off"}
    <3>1. CASE UNCHANGED monitor
      BY <3>1
    <3>2. CASE monitor' = [monitor EXCEPT ![r][v] = "off"]
      <4>1. monitor'[r] = [monitor[r] EXCEPT ![v] = "off"]
        BY <2>2, <3>2
      <4>2. monitor[r] \in [Views -> MonitorPoints]
        BY <2>2
      <4>3. \A w \in Views : monitor'[r][w] \in {monitor[r][w], "off"}
        BY <4>1, <4>2
      <4>4. \A s \in Replicas \ {r} : monitor'[s] = monitor[s]
        BY <2>2, <3>2
      <4> QED
        BY <4>3, <4>4
    <3> QED
      BY <2>1, <3>1, <3>2
  <2> QED
    BY <2>1, <2>3 DEF MonitorsLater
<1>2. ASSUME NEW m \in net, DropMsg(m) \/ HandleRecMsg(m)
      PROVE  /\ UNCHANGED monitor
             /\ \A x \in net' \ net : x.type \in {"ECHO1", "ECHO2"}
  BY <1>2 DEF DropMsg, HandleRecMsg, HandleRec1Msg, IgnoreEcho1, HandleEcho1Msg, HandleRec2Msg,
              LateEcho2, HandleEcho2Msg, Echo1Msg, Echo2Msg
<1>3. ASSUME NEW m \in net, RecoveringTQC(m)
      PROVE  UNCHANGED monitor /\ \A x \in net' \ net : x.type = "TQC"
  <2>1. UNCHANGED monitor
    BY <1>3 DEF RecoveringTQC
  <2>2. m \in TQCMsgs /\ \A x \in net' \ net : \E d \in Replicas : x = [m EXCEPT !.dst = d]
    BY <1>3, RecoveringTQCEffect
  <2> QED
    BY <2>1, <2>2 DEF TQCMsgs
<1>4. ASSUME NEW r \in Replicas,
             FallAsleep(r) \/ WakeUp(r) \/ RecoveryProcess(r) \/ SendRec2(r)
      PROVE  /\ UNCHANGED monitor
             /\ \A x \in net' \ net : x.type \in {"REC1", "REC2"}
  <2>1. FallAsleep(r) \/ WakeUp(r) \/ RecoverKoala2(r) \/ SendRec2(r)
    BY <1>4 DEF RecoveryProcess, RecoverFromDisk, NoRecovery
  <2> QED
    BY <2>1 DEF FallAsleep, WakeUp, RecoverKoala2, SendRec2, Rec1Msg, Rec2Msg
<1>5. CASE \E r \in Replicas, v \in Views : MonitorSleeps(r, v) \/ TimerLost(r, v)
  BY <1>1, <1>5
<1>6. CASE \E m \in net : DropMsg(m) \/ DispatchRec(m)
  BY <1>2, <1>3, <1>6, NothingLater DEF DispatchRec
<1>7. CASE \E r \in Replicas :
             FallAsleep(r) \/ WakeUp(r) \/ RecoveryProcess(r) \/ SendRec2(r)
  BY <1>4, <1>7, NothingLater
<1> QED
  BY <1>5, <1>6, <1>7 DEF SleepStep

LEMMA OthersLaterStep ==
  ASSUME SInv, SInv', RecMode = "RecKoala2", [SleepyNext]_sleepyVars, OthersLater
  PROVE  OthersLater'
<1> DEFINE Later == /\ MonitorsLater
                    /\ \A m \in net' \ net : ProposesLater(m) /\ VotesLater(m) /\ HandsOver(m)
<1> SUFFICES Later
  BY OthersLaterMoves
<1>1. CASE UNCHANGED sleepyVars
  BY <1>1, NothingLater DEF sleepyVars, allVars, vars
<1>2. ASSUME NEW r \in Replicas, NEW v \in Views, SleepyMonitor(r, v) PROVE Later
  BY <1>2, MonitorLater DEF SleepyMonitor
<1>3. ASSUME NEW r \in Replicas, NEW v \in Views, SleepyTimeout(r, v) PROVE Later
  <2>1. CASE TimeoutPersistent(r, v)
    BY <2>1, ChangeLater DEF TimeoutPersistent
  <2>2. CASE TimeoutInMemory(r, v)
    <3>1. UNCHANGED monitor /\ \A x \in net' \ net : x.type = "TIMEOUT"
      BY <2>2 DEF TimeoutInMemory, TimeoutMsg
    <3> QED
      BY <3>1, NothingLater
  <2> QED
    BY <1>3, <2>1, <2>2 DEF SleepyTimeout, TimeoutHandler
<1>4. ASSUME NEW m \in net, DispatchNormal(m) \/ DispatchVC(m) PROVE Later
  BY <1>4, NormalLater, ViewChangeLater DEF DispatchNormal, DispatchVC
<1>5. ASSUME NEW r \in Replicas, NEW req \in Requests, SleepyRequest(r, req) PROVE Later
  <2>1. UNCHANGED <<monitor, net>>
    BY <1>5 DEF SleepyRequest, HandleRequest
  <2> QED
    BY <2>1, NothingLater
<1>6. CASE SleepStep
  BY <1>6, SleepLater
<1> QED
  BY <1>1, <1>2, <1>3, <1>4, <1>5, <1>6 DEF SleepyNext, SleepStep

----------------------------------------------------------------------------
(* Whoever votes in the first view knows the parent of its block.          *)

LEMMA CertHeights ==
  ASSUME SInv
  PROVE  \A c \in AllCerts : c.height \in Int
<1>1. \A c \in Certs : c.height \in Int
  BY DEF Certs
<1>2. NoBlock.height \in Int
  BY DEF NoBlock
<1>3. \A r \in Replicas : \A c \in CertsOf(r) : c \in Certs \cup {NoBlock}
  BY DEF CertsOf, SInv, BlockInv, VTypes, NormalTypes
<1>4. \A m \in net : \A c \in CertsIn(m) : c \in Certs \cup {NoBlock}
  <2> SUFFICES ASSUME NEW m \in net, NEW c \in CertsIn(m) PROVE c \in Certs \cup {NoBlock}
    OBVIOUS
  <2>1. CASE m.type \in {"QC", "VIEWCHANGE"}
    BY <2>1, CertsInMessages, Tables
  <2>2. CASE m.type = "ECHO2"
    <3>1. m.qc \in Certs /\ m.lqc \in Certs /\ m.com \in CommittedCerts
      BY <2>2 DEF SInv, SleepTypes, RecMsgFields
    <3>2. \A h \in Heights : m.com[h] \in Certs \cup {NoBlock}
      BY <3>1 DEF CommittedCerts
    <3> QED
      BY <2>2, <3>1, <3>2, CertsInMessages
  <2> QED
    BY <2>1, <2>2, CertsInMessages
<1>5. \A c \in AllCerts : c \in Certs \cup {NoBlock}
  BY <1>3, <1>4 DEF AllCerts
<1> QED
  BY <1>1, <1>2, <1>5

\* A new certificate of view 0 is replica 0's.
LEMMA FreshCert ==
  ASSUME SInv, QuorumSize > 1, OthersLater, RecoveredLater, FirstLeads => LeaderWaits,
         NEW c, Assembled(c), c.view = 0
  PROVE  /\ FirstLeads
         /\ c.height = curBlock[0].height + 1
         /\ \A i \in c.ids \ {0} : VoteUnderWay(i)
<1>1. PICK m \in net : /\ m.type = "QCREP" /\ Admits(m)
                       /\ ~Ignored(m.dst, m) /\ ~UselessVote(m.dst, m)
                       /\ Cardinality(Voters(m.dst, m)) >= QuorumSize
                       /\ c = NewQC(m.dst, m)
  BY DEF Assembled
<1> DEFINE r == m.dst
<1>2. r \in Replicas /\ sleepProc[r] \in {"awake", "asleep", "woken", "done", "ended"}
  BY Tables
<1>3. view[r] = 0 /\ c.height = curBlock[r].height + 1 /\ c.ids = Voters(r, m)
  BY <1>1 DEF NewQC
<1>4. ~Down(r)
  BY <1>1 DEF Admits, Down
<1>5. NeverSlept(r)
  <2>1. sleepProc[r] \notin {"asleep", "woken", "ended"}
    BY <1>2, <1>4 DEF SInv, Phases, PhaseOf, Down
  <2>2. sleepProc[r] # "done"
    BY <1>2, <1>3, <1>4 DEF RecoveredLater
  <2> QED
    BY <1>2, <2>1, <2>2 DEF NeverSlept
<1>6. r = 0
  BY <1>1, <1>3, <1>5 DEF OthersLater
<1>7. FirstLeads
  BY <1>3, <1>5, <1>6 DEF FirstLeads
<1>8. \A i \in Voters(0, m) \ {0} : VoteUnderWay(i)
  BY <1>1, <1>6, <1>7, CertifiesLast
<1> QED
  BY <1>3, <1>6, <1>7, <1>8

\* A vote under way was so before, unless it is just being cast.
LEMMA VotesUnderWay ==
  ASSUME SInv, SInv', RecMode = "RecKoala2", [SleepyNext]_sleepyVars,
         prepared \in [Replicas -> SUBSET Hashes], QuorumSize > 1, OthersLater,
         FirstLeads => LeaderWaits, FirstLeads', NEW i \in Replicas \ {0}, VoteUnderWay(i)'
  PROVE  /\ curBlock'[0] = curBlock[0]
         /\ VoteUnderWay(i) \/ \E h : Casts(i, h) /\ Uncertified(h)
<1>1. FirstLeads /\ LeaderWaits
  BY FirstStays
<1>2. CASE ZeroRests
  <2>1. ZeroKeeps /\ NetKeeps
    BY <1>2 DEF ZeroRests
  <2>2. /\ curBlock'[0] = curBlock[0]
        /\ \A h : Uncertified(h)' <=> Uncertified(h)
    BY <2>1 DEF ZeroKeeps, Uncertified
  <2>3. CASE \E m \in net' : m.type = "QCREP" /\ m.dst = 0 /\ m.src = i /\ Uncertified(m.hash)'
    <3>1. PICK m \in net' : m.type = "QCREP" /\ m.dst = 0 /\ m.src = i /\ Uncertified(m.hash)
      BY <2>2, <2>3
    <3>2. CASE m \in net
      BY <2>2, <3>1, <3>2 DEF VoteUnderWay
    <3>3. CASE m \notin net
      <4>1. Casts(i, m.hash)
        BY <2>1, <3>1, <3>3 DEF NetKeeps
      <4> QED
        BY <2>2, <3>1, <4>1
    <3> QED
      BY <3>2, <3>3
  <2>4. CASE \E x \in votes'[0] : x.id = i /\ Uncertified(x.hash)'
    <3>1. PICK x \in votes'[0] : x.id = i /\ Uncertified(x.hash)
      BY <2>2, <2>4
    <3>2. CASE x \in votes[0]
      BY <2>2, <3>1, <3>2 DEF VoteUnderWay
    <3>3. CASE x \notin votes[0]
      <4>1. \E m \in net : m.type = "QCREP" /\ m.dst = 0 /\ x.hash = m.hash /\ x.id = m.src
        BY <2>1, <3>3 DEF ZeroKeeps
      <4> QED
        BY <2>2, <3>1, <4>1 DEF VoteUnderWay
    <3> QED
      BY <3>2, <3>3
  <2> QED
    BY <2>3, <2>4 DEF VoteUnderWay
<1>3. CASE MonitorPropose(0, 0)
  <2>1. /\ UNCHANGED <<curBlock, votes, prepared>>
        /\ \A m \in net' : m.type = "QCREP" => m \in net
    <3>1. UNCHANGED <<curBlock, votes, prepared>>
      BY <1>3 DEF MonitorPropose, voteVars
    <3>2. \E seq, hash : StartHotStuff(0, seq, hash)
      BY <1>3 DEF MonitorPropose
    <3>3. \A m \in net' \ net : m.type = "QC"
      BY <3>2 DEF StartHotStuff, Proposal
    <3> QED
      BY <3>1, <3>3
  <2>2. \A h : Uncertified(h)' <=> Uncertified(h)
    BY <2>1 DEF Uncertified
  <2> QED
    BY <2>1, <2>2 DEF VoteUnderWay
<1>4. ASSUME NEW m \in net, Certifies(m) PROVE FALSE
  <2>1. /\ m.type = "QCREP" /\ m.dst = 0 /\ ~UselessVote(0, m)
        /\ Cardinality(Voters(0, m)) >= QuorumSize
        /\ net' = net \ {m}
        /\ votes' = [votes EXCEPT ![0] = votes[0] \cup {[hash |-> m.hash, id |-> m.src]}]
        /\ prepared' = [prepared EXCEPT ![0] = prepared[0] \cup {m.hash}]
    BY <1>4 DEF Certifies, HandleNormalRepMsg
  <2>2. m.hash = curHash[0]
    BY <1>1, <2>1, CertifiesLast
  <2>3. /\ 0 \in Replicas
        /\ votes \in [Replicas -> SUBSET [hash: Hashes, id: Replicas]]
    BY Tables
  <2>4. prepared'[0] = prepared[0] \cup {curHash[0]}
    BY <2>1, <2>2, <2>3
  <2>5. votes'[0] = votes[0] \cup {[hash |-> m.hash, id |-> m.src]}
    BY <2>1, <2>3
  <2>6. \A h : Uncertified(h)' => Uncertified(h) /\ h # curHash[0]
    BY <2>4 DEF Uncertified
  <2>7. ~ \E x \in net' : x.type = "QCREP" /\ x.dst = 0 /\ x.src = i /\ Uncertified(x.hash)'
    BY <1>1, <2>1, <2>6 DEF LeaderWaits
  <2>8. ~ \E x \in votes'[0] : x.id = i /\ Uncertified(x.hash)'
    BY <1>1, <2>2, <2>5, <2>6 DEF LeaderWaits
  <2> QED
    BY <2>7, <2>8 DEF VoteUnderWay
<1> QED
  BY <1>2, <1>3, <1>4, FirstSteps

\* A block that sufficed does so for longer, unless i votes in view 0 meanwhile or is
\* its leader.
LEMMA SufficesStays ==
  ASSUME SInv, SInv', RecMode = "RecKoala2", [SleepyNext]_sleepyVars,
         prepared \in [Replicas -> SUBSET Hashes], QuorumSize > 1, OthersLater, RecoveredLater,
         FirstLeads => LeaderWaits,
         NEW i \in Replicas, NEW j \in Nat, NEW k \in Nat, j <= k, Suffices(i, j),
         i = 0 /\ FirstLeads => curBlock[0].height <= k,
         i = 0 /\ FirstLeads' => curBlock'[0].height <= k,
         FirstLeads' /\ (\E h : Casts(i, h) /\ Uncertified(h)) => curBlock[0].height <= k
  PROVE  Suffices(i, k)'
<1>1. curBlock[0].height \in Nat
  BY BlockTypesOf
<1>2. ASSUME NEW c \in AllCerts', c.view = 0, i \in c.ids PROVE c.height <= k + 1
  <2>1. Accounted(c) /\ c # EmptyBlock
    BY <1>2, CertsFrom DEF EmptyBlock
  <2>2. CASE c \in AllCerts
    <3>1. c.height \in Int /\ c.height <= j + 1
      BY <1>2, <2>2, CertHeights DEF Suffices, CertsBelow
    <3> QED
      BY <3>1
  <2>3. CASE Assembled(c)
    <3>1. /\ FirstLeads
          /\ c.height = curBlock[0].height + 1
          /\ i # 0 => VoteUnderWay(i)
      BY <1>2, <2>3, FreshCert
    <3>2. curBlock[0].height <= k
      BY <1>1, <3>1 DEF Suffices
    <3> QED
      BY <1>1, <3>1, <3>2
  <2> QED
    BY <2>1, <2>2, <2>3 DEF Accounted
<1>3. ASSUME FirstLeads', VoteUnderWay(i)' PROVE curBlock'[0].height <= k
  <2>1. CASE i = 0
    BY <1>3, <2>1
  <2>2. CASE i # 0
    <3>1. /\ curBlock'[0] = curBlock[0]
          /\ VoteUnderWay(i) \/ \E h : Casts(i, h) /\ Uncertified(h)
      BY <1>3, <2>2, VotesUnderWay
    <3>2. FirstLeads
      BY <1>3, FirstStays
    <3> QED
      BY <1>1, <1>3, <3>1, <3>2 DEF Suffices
  <2> QED
    BY <2>1, <2>2
<1>4. CertsBelow(i, k)'
  BY <1>2 DEF CertsBelow
<1> QED
  BY <1>3, <1>4 DEF Suffices

\* A vote in view 0 for what replica 0 proposes takes its parent over.
LEMMA VoterKnows ==
  ASSUME SInv, FirstLeads, LeaderWaits, NEW i \in Replicas \ {0},
         NEW h, Casts(i, h), Uncertified(h)
  PROVE  curBlock'[i].height >= curBlock[0].height
<1>1. PICK m \in net : m.type = "QC" /\ m.src = 0 /\ m.dst = i /\ m.hash = h
                       /\ HandleNormalMsg(m)
  BY DEF Casts
<1>2. m.view = 0 /\ m.qc.height >= curBlock[0].height
  BY <1>1 DEF LeaderWaits
<1>3. /\ view[i] \in Nat /\ m.qc \in Certs /\ curBlock \in [Replicas -> Certs]
      /\ curBlock[0].height \in Nat /\ curBlock[i].height \in Nat
  BY <1>1, Tables, ViewTypes, BlockTypesOf
<1>4. view[i] = 0
  BY <1>1, <1>2, <1>3 DEF HandleNormalMsg, Ignored
<1>5. ~Leader(i)
  BY <1>4, FirstLeader
<1>6. m.qc.height \in Nat
  BY <1>3 DEF Certs
<1>7. SkipQCInfo(i, m.qc, m.seq) \/ ProcessQCInfo(i, m.qc, m.seq)
  BY <1>1 DEF HandleNormalMsg
<1>8. CASE SkipQCInfo(i, m.qc, m.seq)
  <2>1. curBlock' = curBlock /\ m.qc.height <= curBlock[i].height
    BY <1>8 DEF SkipQCInfo, OldNews, chainVars
  <2> QED
    BY <1>2, <1>3, <1>6, <2>1
<1>9. CASE ProcessQCInfo(i, m.qc, m.seq)
  <2>1. curBlock' = IF m.qc.height > curBlock[i].height
                      THEN [curBlock EXCEPT ![i] = m.qc] ELSE curBlock
    BY <1>5, <1>9 DEF ProcessQCInfo, AdoptsBlock
  <2>2. CASE m.qc.height > curBlock[i].height
    <3>1. curBlock'[i] = m.qc
      BY <1>3, <2>1, <2>2
    <3> QED
      BY <1>2, <3>1
  <2>3. CASE ~(m.qc.height > curBlock[i].height)
    BY <1>2, <1>3, <1>6, <2>1, <2>3
  <2> QED
    BY <2>2, <2>3
<1> QED
  BY <1>7, <1>8, <1>9

LEMMA VotersKnowStep ==
  ASSUME SInv, SInv', RecMode = "RecKoala2", [SleepyNext]_sleepyVars,
         prepared \in [Replicas -> SUBSET Hashes], QuorumSize > 1, OthersLater, RecoveredLater,
         FirstLeads => LeaderWaits, VotersKnow
  PROVE  VotersKnow'
<1> SUFFICES ASSUME NEW i \in Replicas, NeverSlept(i)'
             PROVE  Suffices(i, curBlock[i].height)'
  BY DEF VotersKnow
<1>1. NeverSlept(i) /\ sleepProc'[i] = sleepProc[i]
  BY OthersStay DEF NeverSlept
<1>2. curBlock'[i].height >= curBlock[i].height
  BY <1>1, OthersStay
<1>3. PICK j \in Nat : j = curBlock[i].height
  BY BlockTypesOf
<1>4. PICK k \in Nat : k = curBlock'[i].height
  <2>1. curBlock'[i] \in Certs
    BY DEF SInv, BlockInv, VTypes, NormalTypes
  <2> QED
    BY <2>1 DEF Certs
<1>5. Suffices(i, j)
  BY <1>1, <1>3 DEF VotersKnow
<1>6. i = 0 /\ FirstLeads => curBlock[0].height <= k
  BY <1>2, <1>3, <1>4
<1>7. FirstLeads' /\ (\E h : Casts(i, h) /\ Uncertified(h)) => curBlock[0].height <= k
  <2> SUFFICES ASSUME FirstLeads', NEW h, Casts(i, h), Uncertified(h)
               PROVE  curBlock[0].height <= k
    OBVIOUS
  <2>1. FirstLeads
    BY FirstStays
  <2>2. CASE i = 0
    BY <1>6, <2>1, <2>2
  <2>3. CASE i # 0
    BY <1>4, <2>1, <2>3, VoterKnows
  <2> QED
    BY <2>2, <2>3
<1>8. Suffices(i, k)'
  <2>1. j <= k
    BY <1>2, <1>3, <1>4
  <2>2. i = 0 /\ FirstLeads' => curBlock'[0].height <= k
    BY <1>4
  <2> QED
    BY <1>5, <1>6, <1>7, <2>1, <2>2, SufficesStays
<1> QED
  BY <1>4, <1>8 DEF Suffices, CertsBelow

LEMMA BlankStep ==
  ASSUME SInv, RecMode = "RecKoala2", [SleepyNext]_sleepyVars, Blank
  PROVE  Blank'
<1> SUFFICES ASSUME NEW c \in AllCerts', c.hash = NilHash PROVE c.height <= 0
  BY DEF Blank
<1>1. ~Assembled(c)
  BY Tables DEF Assembled, NewQC
<1>2. c \in AllCerts \/ c = EmptyBlock
  BY <1>1, CertsFrom DEF Accounted
<1> QED
  BY <1>2 DEF Blank, EmptyBlock

LEMMA FirstViewStep ==
  ASSUME SInv, SInv', RecMode = "RecKoala2", RecQuorum \in Nat, [SleepyNext]_sleepyVars,
         FirstView
  PROVE  FirstView'
<1>1. prepared' \in [Replicas -> SUBSET Hashes] /\ Blank' /\ RecoveredLater'
  BY PreparedStep, BlankStep, RecoveredStep DEF FirstView
<1>2. ASSUME QuorumSize > 1
      PROVE  (FirstLeads => LeaderWaits)' /\ OthersLater' /\ VotersKnow'
  BY <1>2, LeaderWaitsStep, OthersLaterStep, VotersKnowStep DEF FirstView
<1> QED
  BY <1>1, <1>2 DEF FirstView

----------------------------------------------------------------------------
(* What those who have answered in the second round know.                  *)

Moves ==
  /\ SInv /\ SInv' /\ [SleepyNext]_sleepyVars
  /\ OnlySleepers /\ OnlySleepers' /\ FirstView
  /\ RecMode = "RecKoala2" /\ RecQuorum \in Nat /\ OneSleeper

LEMMA SecondRoundTypes ==
  ASSUME SInv
  PROVE  /\ \A m \in SecondRound : Asker2(m) \in Replicas /\ Answerer2(m) \in Replicas
         /\ \A m \in SecondRound : m.type = "ECHO2" => m.qc \in Certs /\ m.qc.height \in Nat
         /\ \A r \in Replicas : recBuffer[r]["REC2"] \in Nat
<1>1. \A m \in SecondRound : Asker2(m) \in Replicas /\ Answerer2(m) \in Replicas
  BY Tables DEF SecondRound, Asker2, Answerer2
<1>2. \A m \in SecondRound : m.type = "ECHO2" => m.qc \in Certs
  BY Tables DEF SecondRound
<1>3. \A r \in Replicas : recBuffer[r]["REC2"] \in Nat
  BY Tables DEF Requested
<1> QED
  BY <1>1, <1>2, <1>3 DEF Certs

LEMMA OnlySleepersStep ==
  ASSUME SInv, RecMode = "RecKoala2", [SleepyNext]_sleepyVars, OnlySleepers
  PROVE  OnlySleepers'
<1>1. sleepProc \in [Replicas -> {"awake", "asleep", "woken", "done", "ended"}]
  BY Tables
<1>2. ASSUME NEW r \in Replicas, r \in Sleepers \/ sleepProc[r] # "awake",
             NEW p, sleepProc' = [sleepProc EXCEPT ![r] = p]
      PROVE  OnlySleepers'
  <2>1. \A s \in Replicas \ {r} : sleepProc'[s] = sleepProc[s]
    BY <1>1, <1>2
  <2> QED
    BY <1>2, <2>1 DEF OnlySleepers, NeverSlept
<1>3. CASE UNCHANGED sleepProc
  BY <1>3 DEF OnlySleepers, NeverSlept
<1>4. CASE SleepStep
  <2>1. ASSUME NEW r \in Replicas, NEW v \in Views, MonitorSleeps(r, v) \/ TimerLost(r, v)
        PROVE  UNCHANGED sleepProc
    BY <2>1 DEF MonitorSleeps, TimerLost, sleepVars
  <2>2. ASSUME NEW m \in net, DropMsg(m) \/ DispatchRec(m)
        PROVE  UNCHANGED sleepProc
    BY <2>2 DEF DropMsg, DispatchRec, HandleRecMsg, HandleRec1Msg, IgnoreEcho1, HandleEcho1Msg,
                HandleRec2Msg, LateEcho2, HandleEcho2Msg, RecoveringTQC, sleepVars
  <2>3. ASSUME NEW r \in Replicas, SendRec2(r) PROVE UNCHANGED sleepProc
    BY <2>3 DEF SendRec2
  <2>4. ASSUME NEW r \in Replicas, FallAsleep(r) \/ WakeUp(r) \/ RecoveryProcess(r)
        PROVE  OnlySleepers'
    BY <1>2, <2>4 DEF FallAsleep, ParamOfSleepyReplica, WakeUp, RecoveryProcess, RecoverKoala2,
                      RecoverFromDisk, NoRecovery, StartsRecovery
  <2> QED
    BY <1>3, <1>4, <2>1, <2>2, <2>3, <2>4 DEF SleepStep
<1> QED
  BY <1>3, <1>4, StepKinds DEF ProtocolEffect, sleepyVars, sleepVars

\* Whoever has left view 0 votes for nothing there any more.
LEMMA CoversStays ==
  ASSUME Moves, NEW r \in Replicas, ~NeverSlept(r), NEW i \in Replicas \ {r},
         NEW Q, NEW j \in Nat, NEW k \in Nat, j <= k,
         view[i] >= 1, Covers(r, Q, i, j), before'[r] = before[r]
  PROVE  view'[i] >= 1 /\ Covers(r, Q, i, k)'
<1>1. NeverSlept(i) /\ sleepProc'[i] = sleepProc[i]
  BY DEF Moves, OnlySleepers, OneSleeper, NeverSlept
<1>2. view'[i] >= view[i] /\ view[i] \in Nat /\ view'[i] \in Nat
  <2>1. view[i] \in Nat /\ view'[i] \in Nat
    BY ViewTypes DEF Moves, SInv, BlockInv, VTypes, NormalTypes, Views
  <2>2. view'[i] >= view[i]
    BY <1>1, OthersStay DEF Moves
  <2> QED
    BY <2>1, <2>2
<1>3. i \in Q => before'[r].lock.height <= k
  <2>1. before[r].lock.height \in Nat
    BY BlockTypesOf DEF Moves
  <2> QED
    BY <2>1 DEF Covers
<1>4. ASSUME QuorumSize > 1 PROVE Suffices(i, k)'
  <2>1. Suffices(i, j)
    BY <1>4 DEF Covers
  <2>2. ~(i = 0 /\ FirstLeads) /\ ~(i = 0 /\ FirstLeads')
    BY <1>2 DEF FirstLeads
  <2>3. ASSUME FirstLeads', NEW h, Casts(i, h) PROVE FALSE
    <3>1. LeaderWaits
      BY <1>4, <2>3, FirstStays DEF Moves, FirstView
    <3>2. PICK m \in net : m.type = "QC" /\ m.src = 0 /\ m.dst = i /\ HandleNormalMsg(m)
      BY <2>3 DEF Casts
    <3>3. m.view = 0 /\ ~(m.view < view[i])
      BY <3>1, <3>2 DEF LeaderWaits, HandleNormalMsg, Ignored
    <3> QED
      BY <1>2, <3>3
  <2> QED
    BY <1>4, <2>1, <2>2, <2>3, SufficesStays DEF Moves, FirstView
<1> QED
  BY <1>2, <1>3, <1>4 DEF Covers

\* An ECHO2 that is being sent.
FreshAnswer(r, m) ==
  m.type = "ECHO2" /\ m.src # r /\ view[m.src] >= 1 /\ m.qc = curBlock[m.src]

\* Of those who have answered r, B is counted after a step.
LEMMA AnsweredMoves ==
  ASSUME Moves, OneAnswer2, NEW r \in Replicas, ~NeverSlept(r), NEW Q \in SUBSET Replicas,
         NEW A \in SUBSET Replicas, Answered(r, Q, A), NEW B \in SUBSET Replicas, r \notin B,
         before'[r] = before[r],
         Cardinality(B) >= recBuffer'[r]["REC2"],
         B = {} \/ curBlock'[r].height >= curBlock[r].height,
         \A i \in B : \/ i \in A
                      \/ \E m \in SecondRound : /\ Asker2(m) = r /\ m.type = "ECHO2" /\ m.src = i
                                                /\ curBlock'[r].height >= m.qc.height,
         \A m \in SecondRound' : Asker2(m) = r =>
           Answerer2(m) \notin B /\ (m \in SecondRound \/ m.type = "REC2" \/ FreshAnswer(r, m))
  PROVE  Answered(r, Q, B)'
<1>1. \A i \in Replicas \ {r} : NeverSlept(i) /\ sleepProc'[i] = sleepProc[i]
  BY DEF Moves, OnlySleepers, OneSleeper, NeverSlept
<1>2. /\ before[r].lock.height \in Nat
      /\ \A i \in Replicas : curBlock[i].height \in Nat /\ curBlock'[i].height \in Nat
  <2>1. \A i \in Replicas : curBlock'[i] \in Certs
    BY DEF Moves, SInv, BlockInv, VTypes, NormalTypes
  <2> QED
    BY <2>1, BlockTypesOf DEF Moves, Certs
<1>3. SInv
  BY DEF Moves
<1>4. \A i \in Q \ {r} : curBlock'[i].height >= before'[r].lock.height
  <2>1. \A i \in Replicas \ {r} : curBlock'[i].height >= curBlock[i].height
    BY <1>1, OthersStay DEF Moves
  <2> QED
    BY <1>2, <2>1 DEF Answered
<1>5. ASSUME NEW m \in SecondRound', Asker2(m) = r, m.type = "ECHO2"
      PROVE  view'[m.src] >= 1 /\ Covers(r, Q, m.src, m.qc.height)'
  <2>1. m.src \in Replicas \ {r} /\ m.qc.height \in Nat
    <3>1. m \in net'
      BY DEF SecondRound
    <3>2. m.src \in Replicas /\ m.qc \in Certs
      BY <1>5, <3>1 DEF Moves, SInv, BlockInv, VTypes, MsgFields, SleepTypes, RecMsgFields
    <3>3. m.src # r
      <4>1. CASE m \in SecondRound
        BY <1>5, <4>1 DEF OneAnswer2, Answerer2
      <4>2. CASE m \notin SecondRound
        BY <1>5, <4>2 DEF FreshAnswer
      <4> QED
        BY <4>1, <4>2
    <3> QED
      BY <3>2, <3>3 DEF Certs
  <2>2. view[m.src] >= 1 /\ Covers(r, Q, m.src, m.qc.height)
    <3>1. CASE m \in SecondRound
      BY <1>5, <3>1 DEF Answered
    <3>2. CASE m \notin SecondRound
      <4>1. FreshAnswer(r, m)
        BY <1>5, <3>2
      <4>2. m.src \in Q => before[r].lock.height <= m.qc.height
        BY <1>2, <2>1, <4>1 DEF Answered, FreshAnswer
      <4>3. QuorumSize > 1 => Suffices(m.src, m.qc.height)
        BY <1>1, <2>1, <4>1 DEF FreshAnswer, Moves, FirstView, VotersKnow
      <4> QED
        BY <4>1, <4>2, <4>3 DEF Covers, FreshAnswer
    <3> QED
      BY <3>1, <3>2
  <2> QED
    BY <2>1, <2>2, CoversStays
<1>6. ASSUME NEW i \in B
      PROVE  view'[i] >= 1 /\ Covers(r, Q, i, curBlock[r].height)'
  <2>1. PICK k \in Nat : k = curBlock'[r].height
    BY <1>2
  <2>2. PICK j \in Nat : view[i] >= 1 /\ j <= k /\ Covers(r, Q, i, j)
    <3>1. CASE i \in A
      <4>1. curBlock[r].height \in Nat /\ curBlock[r].height <= k
        BY <1>2, <2>1
      <4> QED
        BY <3>1, <4>1 DEF Answered
    <3>2. CASE i \notin A
      <4>1. PICK m \in SecondRound : /\ Asker2(m) = r /\ m.type = "ECHO2" /\ m.src = i
                                     /\ k >= m.qc.height
        BY <2>1, <3>2
      <4>2. m.qc.height \in Nat
        BY <1>3, <4>1, SecondRoundTypes
      <4>3. m.qc.height <= k
        BY <4>1, <4>2
      <4> QED
        BY <4>1, <4>2, <4>3 DEF Answered
    <3> QED
      BY <3>1, <3>2
  <2>3. view'[i] >= 1 /\ Covers(r, Q, i, k)'
    BY <2>2, CoversStays
  <2>4. Covers(r, Q, i, curBlock[r].height)'
    BY <2>1, <2>3 DEF Covers, Suffices, CertsBelow
  <2> QED
    BY <2>3, <2>4
<1> QED
  BY <1>4, <1>5, <1>6 DEF Answered

----------------------------------------------------------------------------
(* The second round, step by step.                                         *)

\* Steps that neither ask, answer nor count an answer.
LEMMA RestSecond ==
  ASSUME Moves, NEW q, Second(q), UNCHANGED <<sleepProc, before, reqHash>>,
         \A s \in Replicas : recBuffer'[s]["REC2"] = recBuffer[s]["REC2"],
         SecondRound' \subseteq SecondRound
  PROVE  Second(q)'
<1>1. OneAnswer2'
  BY DEF Second, OneAnswer2
<1>2. NothingCounted2'
  BY DEF Second, NothingCounted2
<1>3. AnsweredBy(q)'
  <2> SUFFICES ASSUME NEW r \in Replicas, ~NeverSlept(r)
               PROVE  \E Q, A \in SUBSET Replicas : Cardinality(Q) >= q /\ Answered(r, Q, A)'
    BY DEF AnsweredBy, NeverSlept
  <2>1. PICK Q \in SUBSET Replicas, A \in SUBSET Replicas :
               Cardinality(Q) >= q /\ Answered(r, Q, A)
    BY DEF Second, AnsweredBy
  <2>2. curBlock'[r].height >= curBlock[r].height
    BY OthersStay DEF Moves
  <2>3. Answered(r, Q, A)'
    <3>1. /\ r \notin A /\ Cardinality(A) >= recBuffer'[r]["REC2"]
          /\ \A m \in SecondRound' : Asker2(m) = r => Answerer2(m) \notin A /\ m \in SecondRound
      BY <2>1 DEF Answered
    <3> QED
      BY <2>1, <2>2, <3>1, AnsweredMoves DEF Second
  <2> QED
    BY <2>1, <2>3
<1> QED
  BY <1>1, <1>2, <1>3 DEF Second

LEMMA ProtocolSecond ==
  ASSUME Moves, NEW q, Second(q), ProtocolEffect
  PROVE  Second(q)'
<1>1. UNCHANGED <<sleepProc, reqHash, recBuffer, before>>
  <2>1. UNCHANGED <<sleepProc, recVars, before>>
    BY Zenon DEF ProtocolEffect
  <2> QED
    BY <2>1 DEF recVars
<1>2. SecondRound' \subseteq SecondRound
  <2>1. \A m \in net' \ net : m.type \in ProtocolTypes
    BY DEF ProtocolEffect
  <2> QED
    BY <2>1 DEF SecondRound, ProtocolTypes
<1> QED
  BY <1>1, <1>2, RestSecond

LEMMA QuietSecond ==
  ASSUME Moves, NEW q, Second(q),
         \/ \E r \in Replicas, v \in Views : MonitorSleeps(r, v) \/ TimerLost(r, v)
         \/ \E m \in net : DropMsg(m) \/ HandleRec1Msg(m) \/ IgnoreEcho1(m) \/ LateEcho2(m)
                           \/ RecoveringTQC(m)
         \/ UNCHANGED sleepyVars
  PROVE  Second(q)'
<1>1. UNCHANGED <<sleepProc, reqHash, recBuffer, before>>
  BY DEF MonitorSleeps, TimerLost, DropMsg, HandleRec1Msg, IgnoreEcho1, LateEcho2,
         RecoveringTQC, sleepyVars, sleepVars, recVars
<1>2. SecondRound' \subseteq SecondRound
  <2>1. \A x \in net' \ net : x.type \in {"TQC", "ECHO1"}
    <3>1. CASE \E m \in net : RecoveringTQC(m)
      <4>1. PICK m \in net : RecoveringTQC(m)
        BY <3>1
      <4>2. m \in TQCMsgs /\ \A x \in net' \ net : \E d \in Replicas : x = [m EXCEPT !.dst = d]
        BY <4>1, RecoveringTQCEffect DEF Moves
      <4> QED
        BY <4>2 DEF TQCMsgs
    <3>2. CASE ~ \E m \in net : RecoveringTQC(m)
      BY <3>2 DEF MonitorSleeps, TimerLost, DropMsg, HandleRec1Msg, IgnoreEcho1, LateEcho2,
                  Echo1Msg, sleepyVars, allVars, vars
    <3> QED
      BY <3>1, <3>2
  <2> QED
    BY <2>1 DEF SecondRound
<1> QED
  BY <1>1, <1>2, RestSecond

LEMMA FirstRoundSecond ==
  ASSUME Moves, NEW q, Second(q), NEW m \in net, HandleEcho1Msg(m)
  PROVE  Second(q)'
<1>1. /\ UNCHANGED <<sleepProc, before, reqHash>> /\ net' \subseteq net
      /\ recBuffer' = [recBuffer EXCEPT ![m.dst]["REC1"] = recBuffer[m.dst]["REC1"] + 1]
  BY DEF HandleEcho1Msg
<1>2. recBuffer \in [Replicas -> [Requested -> Nat]]
  BY Tables DEF Moves
<1>3. \A s \in Replicas : recBuffer'[s]["REC2"] = recBuffer[s]["REC2"]
  BY <1>1, <1>2 DEF Requested
<1>4. SecondRound' \subseteq SecondRound
  BY <1>1 DEF SecondRound
<1> QED
  BY <1>1, <1>3, <1>4, RestSecond

\* The others are not asked, and nobody but the sleeper has anybody answer it.
LEMMA SleeperSecond ==
  ASSUME Moves, NEW q, AnsweredBy(q), NEW r \in Replicas, r \in Sleepers,
         \E Q, A \in SUBSET Replicas : Cardinality(Q) >= q /\ Answered(r, Q, A)'
  PROVE  AnsweredBy(q)'
<1>1. \A s \in Replicas : ~NeverSlept(s)' => s = r
  BY DEF Moves, OnlySleepers, OneSleeper
<1> QED
  BY <1>1 DEF AnsweredBy

\* A REC2 becomes an ECHO2 of whoever answers it, who has left view 0 by then.
LEMMA AskedSecond ==
  ASSUME Moves, NEW q, Second(q), NEW m \in net, HandleRec2Msg(m)
  PROVE  Second(q)'
<1> DEFINE s == m.dst
           r == m.src
           e == Echo2Msg(s, r, curBlock[s], lockedBlock[s], committedBlocks[s])
<1>1. /\ m.type = "REC2" /\ net' = (net \ {m}) \cup {e} /\ view[s] >= m.view
      /\ UNCHANGED <<view, curBlock, sleepProc, reqHash, recBuffer, before>>
  BY DEF HandleRec2Msg, sleepVars, recVars, chainVars
<1>2. m \in SecondRound /\ Asker2(m) = r /\ Answerer2(m) = s
  BY <1>1 DEF SecondRound, Asker2, Answerer2
<1>3. r \in Replicas /\ s \in Replicas
  BY <1>2, SecondRoundTypes DEF Moves
<1>4. /\ e.type = "ECHO2" /\ e.src = s /\ e.qc = curBlock[s]
      /\ Asker2(e) = r /\ Answerer2(e) = s
  BY DEF Echo2Msg, Asker2, Answerer2
<1>5. s # r /\ view[s] >= 1 /\ sleepProc[r] = "done" /\ reqHash[r] = "REC2"
  <2>1. s # r /\ m.view \in Nat \ {0} /\ sleepProc[r] = "done" /\ reqHash[r] = "REC2"
    BY <1>1, <1>2 DEF Second, OneAnswer2
  <2>2. view[s] \in Nat
    BY <1>3, ViewTypes DEF Moves, SInv, BlockInv, VTypes, NormalTypes, Views
  <2> QED
    BY <1>1, <2>1, <2>2
<1> HIDE DEF r, s, e
<1>6. SecondRound' = (SecondRound \ {m}) \cup {e}
  BY <1>1, <1>4 DEF SecondRound
<1>7. OneAnswer2'
  <2>1. \A x \in SecondRound' :
          /\ sleepProc'[Asker2(x)] = "done" /\ reqHash'[Asker2(x)] = "REC2"
          /\ Answerer2(x) # Asker2(x)
          /\ x.type = "REC2" => x.view \in Nat \ {0}
    BY <1>1, <1>4, <1>5, <1>6 DEF Second, OneAnswer2
  <2>2. \A x \in SecondRound' : Asker2(x) = r /\ Answerer2(x) = s => x = e
    BY <1>2, <1>6 DEF Second, OneAnswer2
  <2>3. \A x, y \in SecondRound' :
          Asker2(x) = Asker2(y) /\ Answerer2(x) = Answerer2(y) => x = y
    BY <1>4, <1>6, <2>2 DEF Second, OneAnswer2
  <2> QED
    BY <2>1, <2>3 DEF OneAnswer2
<1>8. NothingCounted2'
  BY <1>1 DEF Second, NothingCounted2
<1>9. PICK Q \in SUBSET Replicas, A \in SUBSET Replicas :
             Cardinality(Q) >= q /\ Answered(r, Q, A)
  BY <1>3, <1>5 DEF Second, AnsweredBy, NeverSlept
<1>10. Answered(r, Q, A)'
  <2>1. /\ before'[r] = before[r] /\ recBuffer'[r]["REC2"] = recBuffer[r]["REC2"]
        /\ curBlock'[r].height >= curBlock[r].height
        /\ r \notin A /\ Cardinality(A) >= recBuffer'[r]["REC2"]
    BY <1>1, <1>3, <1>9, BlockTypesOf DEF Moves, Answered
  <2>2. \A x \in SecondRound' : Asker2(x) = r =>
          Answerer2(x) \notin A /\ (x \in SecondRound \/ FreshAnswer(r, x))
    BY <1>2, <1>4, <1>5, <1>6, <1>9 DEF Answered, FreshAnswer
  <2>3. ~NeverSlept(r)
    BY <1>5 DEF NeverSlept
  <2> QED
    BY <1>3, <1>9, <2>1, <2>2, <2>3, AnsweredMoves DEF Second
<1>11. r \in Sleepers
  BY <1>3, <1>5 DEF Moves, OnlySleepers, NeverSlept
<1> QED
  BY <1>3, <1>7, <1>8, <1>9, <1>10, <1>11, SleeperSecond DEF Second

\* An ECHO2 that is counted adds its sender to those who have answered.
LEMMA CountedSecond ==
  ASSUME Moves, NEW q, Second(q), NEW m \in net, HandleEcho2Msg(m)
  PROVE  Second(q)'
<1> DEFINE r == m.dst
           s == m.src
<1>1. /\ m.type = "ECHO2" /\ net' = net \ {m}
      /\ UNCHANGED <<view, sleepProc, reqHash, before>>
      /\ curBlock' = [curBlock EXCEPT ![r] = Higher(curBlock[r], m.qc)]
      /\ recBuffer' = [recBuffer EXCEPT ![r]["REC2"] = recBuffer[r]["REC2"] + 1]
  BY DEF HandleEcho2Msg
<1>2. m \in SecondRound /\ Asker2(m) = r /\ Answerer2(m) = s
  BY <1>1 DEF SecondRound, Asker2, Answerer2
<1>3. /\ r \in Replicas /\ s \in Replicas /\ m.qc \in Certs /\ m.qc.height \in Nat
      /\ recBuffer \in [Replicas -> [Requested -> Nat]] /\ curBlock \in [Replicas -> Certs]
      /\ curBlock[r].height \in Nat
  BY <1>1, <1>2, SecondRoundTypes, Tables, BlockTypesOf DEF Moves
<1> HIDE DEF r, s
<1>4. SecondRound' = SecondRound \ {m}
  BY <1>1 DEF SecondRound
<1>5. s # r /\ sleepProc[r] = "done" /\ reqHash[r] = "REC2"
  BY <1>2 DEF Second, OneAnswer2
<1>6. /\ recBuffer'[r]["REC2"] = recBuffer[r]["REC2"] + 1 /\ recBuffer[r]["REC2"] \in Nat
      /\ \A t \in Replicas \ {r} : recBuffer'[t] = recBuffer[t]
  <2>1. recBuffer'[r]["REC2"] = recBuffer[r]["REC2"] + 1 /\ recBuffer[r]["REC2"] \in Nat
    BY <1>1, <1>3 DEF Requested
  <2>2. \A t \in Replicas \ {r} : recBuffer'[t] = recBuffer[t]
    BY <1>1, <1>3
  <2> QED
    BY <2>1, <2>2
\* It is at least as high as the block it is told of.
<1>7. curBlock'[r].height >= curBlock[r].height /\ curBlock'[r].height >= m.qc.height
  <2>1. m.qc.hash = NilHash => m.qc.height <= 0
    <3>1. m.qc \in AllCerts
      BY <1>1, CertsInMessages DEF AllCerts
    <3> QED
      BY <3>1 DEF Moves, FirstView, Blank
  <2>2. curBlock'[r] = Higher(curBlock[r], m.qc)
    BY <1>1, <1>3
  <2> QED
    BY <1>3, <2>1, <2>2 DEF Higher
<1>8. OneAnswer2'
  BY <1>1, <1>4 DEF Second, OneAnswer2
<1>9. NothingCounted2'
  BY <1>1, <1>5, <1>6 DEF Second, NothingCounted2
<1>10. PICK Q \in SUBSET Replicas, A \in SUBSET Replicas :
              Cardinality(Q) >= q /\ Answered(r, Q, A)
  BY <1>3, <1>5 DEF Second, AnsweredBy, NeverSlept
<1> DEFINE B == A \cup {s}
<1>11. Answered(r, Q, B)'
  <2>1. s \notin A /\ r \notin A /\ Cardinality(A) >= recBuffer[r]["REC2"]
    BY <1>2, <1>10 DEF Answered
  <2>2. Cardinality(B) >= recBuffer'[r]["REC2"] /\ B \in SUBSET Replicas
    <3>1. IsFiniteSet(A) /\ Cardinality(A) \in Nat /\ Cardinality(B) = Cardinality(A) + 1
      <4>1. IsFiniteSet(Replicas)
        BY ConstantsAssumption, FS_Interval DEF Replicas
      <4> QED
        BY <2>1, <4>1, FS_Subset, FS_CardinalityType, FS_AddElement
    <3> QED
      BY <1>3, <1>6, <2>1, <3>1
  <2>3. r \notin B
    BY <1>5, <2>1
  <2>4. \A i \in B : i \in A \/ i = s
    OBVIOUS
  <2>5. \A x \in SecondRound' : Asker2(x) = r => Answerer2(x) \notin B /\ x \in SecondRound
    BY <1>2, <1>4, <1>10 DEF Answered, Second, OneAnswer2
  <2>6. before'[r] = before[r] /\ ~NeverSlept(r)
    BY <1>1, <1>5 DEF NeverSlept
  <2>7. \A i \in B : \/ i \in A
                     \/ \E x \in SecondRound : /\ Asker2(x) = r /\ x.type = "ECHO2" /\ x.src = i
                                               /\ curBlock'[r].height >= x.qc.height
    BY <1>1, <1>2, <1>7, <2>4 DEF s
  <2> HIDE DEF B
  <2> QED
    BY <1>3, <1>7, <1>10, <2>2, <2>3, <2>5, <2>6, <2>7, AnsweredMoves DEF Second
<1>12. \E S, T \in SUBSET Replicas : Cardinality(S) >= q /\ Answered(r, S, T)'
  <2>1. B \in SUBSET Replicas
    BY <1>3
  <2> HIDE DEF B
  <2> QED
    BY <1>10, <1>11, <2>1
<1>13. r \in Sleepers
  BY <1>3, <1>5 DEF Moves, OnlySleepers, NeverSlept
<1> QED
  BY <1>3, <1>8, <1>9, <1>12, <1>13, SleeperSecond DEF Second

\* There are q replicas as high as the lock of r.
LockKnown(r, q) ==
  \E Q \in SUBSET Replicas :
    Cardinality(Q) >= q /\ \A i \in Q \ {r} : curBlock[i].height >= lockedBlock[r].height

LEMMA FallAsleepSecond ==
  ASSUME Moves, NEW q, Second(q), NEW r \in Replicas, FallAsleep(r), LockKnown(r, q)
  PROVE  Second(q)'
<1>1. /\ UNCHANGED <<recBuffer, reqHash, net, curBlock>>
      /\ sleepProc[r] = "awake" /\ r \in Sleepers
      /\ sleepProc' = [sleepProc EXCEPT ![r] = "asleep"]
      /\ before' = [before EXCEPT ![r] = [view |-> view[r], lock |-> lockedBlock[r]]]
  BY DEF FallAsleep, recVars, chainVars, ParamOfSleepyReplica
<1>2. /\ sleepProc'[r] = "asleep" /\ before'[r].lock = lockedBlock[r]
      /\ \A s \in Replicas \ {r} : sleepProc'[s] = sleepProc[s]
  BY <1>1, Tables DEF Moves
<1>3. SecondRound' = SecondRound
  BY <1>1 DEF SecondRound
<1>4. \A m \in SecondRound : Asker2(m) # r /\ Asker2(m) \in Replicas
  BY <1>1, SecondRoundTypes DEF Moves, Second, OneAnswer2
<1>5. OneAnswer2'
  BY <1>1, <1>2, <1>3, <1>4 DEF Second, OneAnswer2
<1>6. recBuffer[r]["REC2"] = 0 /\ NothingCounted2'
  BY <1>1, <1>2 DEF Second, NothingCounted2
<1>7. PICK Q \in SUBSET Replicas :
        Cardinality(Q) >= q /\ \A i \in Q \ {r} : curBlock[i].height >= lockedBlock[r].height
  BY DEF LockKnown
<1>8. Answered(r, Q, {})'
  <2>1. Cardinality({}) >= recBuffer'[r]["REC2"]
    BY <1>1, <1>6, FS_EmptySet
  <2>2. \A i \in Q \ {r} : curBlock'[i].height >= before'[r].lock.height
    BY <1>1, <1>2, <1>7
  <2> QED
    BY <1>3, <1>4, <2>1, <2>2 DEF Answered
<1>9. \E S, T \in SUBSET Replicas : Cardinality(S) >= q /\ Answered(r, S, T)'
  BY <1>7, <1>8
<1>10. AnsweredBy(q)'
  BY <1>1, <1>9, SleeperSecond DEF Second
<1> QED
  BY <1>5, <1>6, <1>10 DEF Second

\* Waking up forgets the block, and the answers, of which there are none yet.
LEMMA WakeUpSecond ==
  ASSUME Moves, NEW q, Second(q), NEW r \in Replicas, WakeUp(r)
  PROVE  Second(q)'
<1>1. /\ UNCHANGED <<reqHash, before, net>>
      /\ sleepProc[r] = "asleep"
      /\ sleepProc' = [sleepProc EXCEPT ![r] = "woken"]
      /\ recBuffer' = [recBuffer EXCEPT ![r] = [p \in Requested |-> 0]]
  BY DEF WakeUp
<1>2. /\ sleepProc'[r] = "woken" /\ recBuffer'[r]["REC2"] = 0
      /\ \A s \in Replicas \ {r} : sleepProc'[s] = sleepProc[s] /\ recBuffer'[s] = recBuffer[s]
  <2>1. /\ sleepProc \in [Replicas -> {"awake", "asleep", "woken", "done", "ended"}]
        /\ recBuffer \in [Replicas -> [Requested -> Nat]]
    BY Tables DEF Moves
  <2> QED
    BY <1>1, <2>1 DEF Requested
<1>3. SecondRound' = SecondRound
  BY <1>1 DEF SecondRound
<1>4. \A m \in SecondRound : Asker2(m) # r /\ Asker2(m) \in Replicas
  BY <1>1, SecondRoundTypes DEF Moves, Second, OneAnswer2
<1>5. OneAnswer2'
  BY <1>1, <1>2, <1>3, <1>4 DEF Second, OneAnswer2
<1>6. NothingCounted2'
  BY <1>1, <1>2 DEF Second, NothingCounted2
<1>7. PICK Q \in SUBSET Replicas, A \in SUBSET Replicas :
             Cardinality(Q) >= q /\ Answered(r, Q, A)
  BY <1>1 DEF Second, AnsweredBy, NeverSlept
<1>8. Answered(r, Q, {})'
  <2>1. ~NeverSlept(r) /\ before'[r] = before[r] /\ Cardinality({}) >= recBuffer'[r]["REC2"]
    BY <1>1, <1>2, FS_EmptySet DEF NeverSlept
  <2> QED
    BY <1>3, <1>4, <1>7, <2>1, AnsweredMoves DEF Second
<1>9. r \in Sleepers
  BY <1>1 DEF Moves, OnlySleepers, NeverSlept
<1>10. AnsweredBy(q)'
  BY <1>7, <1>8, <1>9, SleeperSecond DEF Second
<1> QED
  BY <1>5, <1>6, <1>10 DEF Second

LEMMA RecoverKoala2Second ==
  ASSUME Moves, NEW q, Second(q), NEW r \in Replicas, RecoverKoala2(r)
  PROVE  Second(q)'
<1>1. /\ UNCHANGED <<recBuffer, before>>
      /\ sleepProc[r] = "woken"
      /\ sleepProc' = [sleepProc EXCEPT ![r] = "done"]
      /\ reqHash' = [reqHash EXCEPT ![r] = "REC1"]
      /\ net' = net \cup { Rec1Msg(r, d) : d \in Others(r) }
  BY DEF RecoverKoala2, StartsRecovery
<1>2. /\ sleepProc'[r] = "done" /\ reqHash'[r] = "REC1"
      /\ \A s \in Replicas \ {r} : sleepProc'[s] = sleepProc[s] /\ reqHash'[s] = reqHash[s]
  <2>1. /\ sleepProc \in [Replicas -> {"awake", "asleep", "woken", "done", "ended"}]
        /\ reqHash \in [Replicas -> Requested \cup {"none"}]
    BY Tables DEF Moves
  <2> QED
    BY <1>1, <2>1
<1>3. SecondRound' = SecondRound
  BY <1>1 DEF SecondRound, Rec1Msg
<1>4. \A m \in SecondRound : Asker2(m) # r /\ Asker2(m) \in Replicas
  BY <1>1, SecondRoundTypes DEF Moves, Second, OneAnswer2
<1>5. OneAnswer2'
  BY <1>2, <1>3, <1>4 DEF Second, OneAnswer2
<1>6. recBuffer[r]["REC2"] = 0 /\ NothingCounted2'
  BY <1>1, <1>2 DEF Second, NothingCounted2
<1>7. PICK Q \in SUBSET Replicas, A \in SUBSET Replicas :
             Cardinality(Q) >= q /\ Answered(r, Q, A)
  BY <1>1 DEF Second, AnsweredBy, NeverSlept
<1>8. Answered(r, Q, {})'
  <2>1. ~NeverSlept(r) /\ before'[r] = before[r] /\ Cardinality({}) >= recBuffer'[r]["REC2"]
    BY <1>1, <1>6, FS_EmptySet DEF NeverSlept
  <2> QED
    BY <1>3, <1>4, <1>7, <2>1, AnsweredMoves DEF Second
<1>9. r \in Sleepers
  BY <1>1 DEF Moves, OnlySleepers, NeverSlept
<1>10. AnsweredBy(q)'
  BY <1>7, <1>8, <1>9, SleeperSecond DEF Second
<1> QED
  BY <1>5, <1>6, <1>10 DEF Second

\* A replica asks once more, everybody else once, in a view later than 0.
LEMMA SendRec2Second ==
  ASSUME Moves, NEW q, Second(q), NEW r \in Replicas, SendRec2(r)
  PROVE  Second(q)'
<1>1. /\ UNCHANGED <<sleepProc, recBuffer, before>>
      /\ spinning[r] /\ view[r] > hView[r] + 2
      /\ reqHash' = [reqHash EXCEPT ![r] = "REC2"]
      /\ net' = net \cup { Rec2Msg(r, d, view[r]) : d \in Others(r) }
  BY DEF SendRec2, Passed
<1>2. reqHash[r] = "REC1" /\ sleepProc[r] = "done"
  BY <1>1 DEF Moves, SInv, Phases, PhaseOf
<1>3. view[r] \in Nat \ {0}
  <2>1. view[r] \in Nat /\ hView[r] \in Int /\ hView[r] >= -2
    BY ViewTypes, ConstantsAssumption
       DEF Moves, SInv, BlockInv, VTypes, NormalTypes, Views, SleepTypes, RecTypes
  <2> QED
    BY <1>1, <2>1
<1>4. reqHash'[r] = "REC2" /\ \A s \in Replicas \ {r} : reqHash'[s] = reqHash[s]
  BY <1>1, Tables DEF Moves
<1>5. \A m \in SecondRound : Asker2(m) # r /\ Asker2(m) \in Replicas
  BY <1>2, SecondRoundTypes DEF Moves, Second, OneAnswer2
<1>6. /\ SecondRound \subseteq SecondRound'
      /\ \A m \in SecondRound' : m \notin SecondRound =>
           /\ m.type = "REC2" /\ Asker2(m) = r /\ Answerer2(m) # r
           /\ m = Rec2Msg(r, Answerer2(m), view[r]) /\ m.view = view[r]
  BY <1>1 DEF SecondRound, Rec2Msg, Asker2, Answerer2, Others
<1>7. OneAnswer2'
  <2>1. \A m \in SecondRound' :
          /\ sleepProc'[Asker2(m)] = "done" /\ reqHash'[Asker2(m)] = "REC2"
          /\ Answerer2(m) # Asker2(m)
          /\ m.type = "REC2" => m.view \in Nat \ {0}
    BY <1>1, <1>2, <1>3, <1>4, <1>5, <1>6 DEF Second, OneAnswer2
  <2>2. \A m, x \in SecondRound' :
          Asker2(m) = Asker2(x) /\ Answerer2(m) = Answerer2(x) => m = x
    BY <1>5, <1>6 DEF Second, OneAnswer2
  <2> QED
    BY <2>1, <2>2 DEF OneAnswer2
<1>8. recBuffer[r]["REC2"] = 0 /\ NothingCounted2'
  BY <1>1, <1>2, <1>4 DEF Second, NothingCounted2
<1>9. PICK Q \in SUBSET Replicas, A \in SUBSET Replicas :
             Cardinality(Q) >= q /\ Answered(r, Q, A)
  BY <1>2 DEF Second, AnsweredBy, NeverSlept
<1>10. Answered(r, Q, {})'
  <2>1. ~NeverSlept(r) /\ before'[r] = before[r] /\ Cardinality({}) >= recBuffer'[r]["REC2"]
    BY <1>1, <1>2, <1>8, FS_EmptySet DEF NeverSlept
  <2>2. \A m \in SecondRound' : Asker2(m) = r => m.type = "REC2"
    BY <1>5, <1>6
  <2> QED
    BY <1>9, <2>1, <2>2, AnsweredMoves DEF Second
<1>11. r \in Sleepers
  BY <1>2 DEF Moves, OnlySleepers, NeverSlept
<1>12. AnsweredBy(q)'
  BY <1>9, <1>10, <1>11, SleeperSecond DEF Second
<1> QED
  BY <1>7, <1>8, <1>12 DEF Second

LEMMA SecondStep ==
  ASSUME Moves, NEW q, Second(q), \A r \in Replicas : FallAsleep(r) => LockKnown(r, q)
  PROVE  Second(q)'
<1>1. SInv /\ RecMode = "RecKoala2"
  BY DEF Moves
<1>2. CASE UNCHANGED sleepyVars
  BY <1>2, QuietSecond
<1>3. CASE ProtocolEffect
  BY <1>3, ProtocolSecond
<1>4. CASE \E r \in Replicas, v \in Views : MonitorSleeps(r, v) \/ TimerLost(r, v)
  BY <1>4, QuietSecond
<1>5. CASE \E m \in net : DropMsg(m) \/ DispatchRec(m)
  <2>1. CASE \E m \in net : DropMsg(m) \/ HandleRec1Msg(m) \/ IgnoreEcho1(m) \/ LateEcho2(m)
                            \/ RecoveringTQC(m)
    BY <2>1, QuietSecond
  <2>2. CASE \E m \in net : HandleEcho1Msg(m)
    BY <2>2, FirstRoundSecond
  <2>3. CASE \E m \in net : HandleRec2Msg(m)
    BY <2>3, AskedSecond
  <2>4. CASE \E m \in net : HandleEcho2Msg(m)
    BY <2>4, CountedSecond
  <2> QED
    BY <1>5, <2>1, <2>2, <2>3, <2>4 DEF DispatchRec, HandleRecMsg
<1>6. CASE \E r \in Replicas : FallAsleep(r) \/ WakeUp(r) \/ RecoveryProcess(r) \/ SendRec2(r)
  BY <1>1, <1>6, FallAsleepSecond, WakeUpSecond, RecoverKoala2Second, SendRec2Second
     DEF RecoveryProcess, RecoverFromDisk, NoRecovery
<1>7. CASE SleepStep
  BY <1>4, <1>5, <1>6, <1>7 DEF SleepStep
<1> QED
  BY <1>1, <1>2, <1>3, <1>7, StepKinds DEF Moves

LEMMA RInvStep ==
  ASSUME RecMode = "RecKoala2", RecQuorum \in Nat, OneSleeper, NEW q,
         SInv, SInv', RInv(q), [SleepyNext]_sleepyVars,
         \A r \in Replicas : FallAsleep(r) => LockKnown(r, q)
  PROVE  RInv(q)'
<1>1. OnlySleepers'
  BY OnlySleepersStep DEF RInv
<1>2. FirstView'
  BY FirstViewStep DEF RInv
<1>3. Moves
  BY <1>1 DEF Moves, RInv
<1>4. Second(q)'
  BY <1>3, SecondStep DEF RInv
<1> QED
  BY <1>1, <1>2, <1>4 DEF RInv

LEMMA InitRInv == ASSUME NEW q, SleepyInit PROVE RInv(q)
<1>1. /\ \A r \in Replicas : sleepProc[r] = "awake" /\ recBuffer[r]["REC2"] = 0
      /\ net = {} /\ \A r \in Replicas : votes[r] = {}
      /\ prepared \in [Replicas -> SUBSET Hashes]
      /\ \A r \in Replicas : curHash[r] = NilHash /\ curBlock[r] = EmptyBlock
  BY DEF SleepyInit, InitSleep, VCInit, Init, InitProtocol, Requested
<1>2. \A r \in Replicas, v \in Views : monitor[r][v] = IF v = 0 THEN "wait" ELSE "off"
  BY DEF SleepyInit, VCInit, Init, InitMonitors, InitProtocol
<1>3. \A r \in Replicas :
        /\ lockedBlock[r] = EmptyBlock
        /\ \A h \in Heights : committedBlocks[r][h] = NoBlock
  BY DEF SleepyInit, VCInit, Init, InitProtocol
<1>4. 0 \in Replicas /\ 0 \in Views
  BY ConstantsAssumption DEF Replicas, Views
<1>5. AllCerts \subseteq {EmptyBlock, NoBlock}
  BY <1>1, <1>3 DEF AllCerts, CertsOf
<1>6. Blank /\ \A i, x : CertsBelow(i, x)
  BY <1>5 DEF Blank, CertsBelow, EmptyBlock, NoBlock
<1>7. \A i : ~VoteUnderWay(i)
  BY <1>1, <1>4 DEF VoteUnderWay
<1>8. LeaderWaits
  BY <1>1, <1>2, <1>4 DEF LeaderWaits, LastCertified, EmptyBlock
<1>9. OthersLater /\ VotersKnow
  BY <1>1, <1>2, <1>4, <1>6, <1>7 DEF OthersLater, VotersKnow, Suffices
<1>10. OnlySleepers /\ RecoveredLater /\ Second(q)
  BY <1>1 DEF OnlySleepers, NeverSlept, RecoveredLater, Second, OneAnswer2, NothingCounted2,
              AnsweredBy, SecondRound
<1> QED
  BY <1>1, <1>6, <1>8, <1>9, <1>10 DEF RInv, FirstView

----------------------------------------------------------------------------
(* What a replica knows that has recovered.                                *)

\* RecQuorum others have answered it, and it is none of them.
LEMMA HasAnswers ==
  ASSUME SInv, NEW q, RInv(q), RecQuorum \in Nat, QuorumSize + RecQuorum > N,
         NEW r \in Replicas, Recovered(r)
  PROVE  /\ QuorumSize > 1
         /\ \E Q, A \in SUBSET Replicas :
              /\ Cardinality(Q) >= q /\ Answered(r, Q, A) /\ Cardinality(A) >= RecQuorum
<1>1. PICK Q \in SUBSET Replicas, A \in SUBSET Replicas :
             Cardinality(Q) >= q /\ Answered(r, Q, A)
  BY DEF RInv, Second, AnsweredBy, Recovered, NeverSlept
<1>2. recBuffer[r]["REC2"] >= RecQuorum /\ recBuffer[r]["REC2"] \in Nat
  BY SecondRoundTypes DEF RInv, FirstView, RecoveredLater, Recovered
<1>3. IsFiniteSet(Replicas) /\ Cardinality(Replicas) = N
  BY ConstantsAssumption, FS_Interval DEF Replicas
<1>4. Cardinality(A) \in Nat /\ Cardinality(A) >= RecQuorum
  BY <1>1, <1>2, <1>3, FS_Subset, FS_CardinalityType DEF Answered
<1>5. Cardinality(A) < N
  <2>1. IsFiniteSet(Replicas \ {r}) /\ Cardinality(Replicas \ {r}) = N - 1
    BY <1>3, FS_RemoveElement
  <2>2. A \subseteq Replicas \ {r}
    BY <1>1 DEF Answered
  <2> QED
    BY <1>4, <2>1, <2>2, FS_Subset, ConstantsAssumption
<1> QED
  BY <1>1, <1>4, <1>5, ConstantsAssumption

LEMMA CertificatesTyped ==
  ASSUME SInv, NEW c \in Certificates
  PROVE  c \in AllCerts /\ c \in Certs \cup {NoBlock}
<1>1. \/ \E r \in Replicas : c \in CertsOf(r)
      \/ \E m \in net : m.type = "QC" /\ c = m.qc
  BY DEF Certificates, CertsOf
<1>2. c \in AllCerts
  BY <1>1, CertsInMessages DEF AllCerts
<1>3. c \in Certs \cup {NoBlock}
  BY <1>1, Tables DEF CertsOf, SInv, BlockInv, VTypes, NormalTypes
<1> QED
  BY <1>2, <1>3

LEMMA Overlap ==
  ASSUME NEW S \in SUBSET Replicas, NEW T \in SUBSET Replicas, RecQuorum \in Nat,
         Cardinality(S) >= QuorumSize, Cardinality(T) >= RecQuorum, QuorumSize + RecQuorum > N
  PROVE  S \cap T # {}
<1>1. IsFiniteSet(Replicas) /\ Cardinality(Replicas) = N
  BY ConstantsAssumption, FS_Interval DEF Replicas
<1>2. Cardinality(S) \in Nat /\ Cardinality(T) \in Nat
  BY <1>1, FS_Subset, FS_CardinalityType
<1>3. Cardinality(S) + Cardinality(T) > Cardinality(Replicas)
  BY <1>1, <1>2, ConstantsAssumption
<1> QED
  BY <1>1, <1>3, FS_MajoritiesIntersect

\* Whoever sleeps fell asleep in the first view.
AsleepFirst == \A r \in Replicas : before[r].view <= 0

LEMMA AsleepFirstStep ==
  ASSUME SInv, RecMode = "RecKoala2", AsleepFirst, [SleepyNext]_sleepyVars,
         \A r \in Replicas : FallAsleep(r) => view[r] = 0
  PROVE  AsleepFirst'
<1>1. CASE UNCHANGED before
  BY <1>1 DEF AsleepFirst
<1>2. ASSUME NEW r \in Replicas, FallAsleep(r) PROVE AsleepFirst'
  <2>1. before' = [before EXCEPT ![r] = [view |-> 0, lock |-> lockedBlock[r]]]
    BY <1>2 DEF FallAsleep
  <2>2. before \in [Replicas -> [view: Views \cup {-1}, lock: Certs]]
    BY Tables
  <2>3. before'[r].view = 0 /\ \A s \in Replicas \ {r} : before'[s] = before[s]
    BY <2>1, <2>2
  <2> QED
    BY <2>3 DEF AsleepFirst
<1>3. CASE SleepStep
  <2>1. ASSUME NEW r \in Replicas, NEW v \in Views, MonitorSleeps(r, v) \/ TimerLost(r, v)
        PROVE  UNCHANGED before
    BY <2>1 DEF MonitorSleeps, TimerLost, sleepVars
  <2>2. ASSUME NEW m \in net, DropMsg(m) \/ DispatchRec(m)
        PROVE  UNCHANGED before
    BY <2>2 DEF DropMsg, DispatchRec, HandleRecMsg, HandleRec1Msg, IgnoreEcho1, HandleEcho1Msg,
                HandleRec2Msg, LateEcho2, HandleEcho2Msg, RecoveringTQC, sleepVars
  <2>3. ASSUME NEW r \in Replicas, WakeUp(r) \/ RecoverKoala2(r) \/ SendRec2(r)
        PROVE  UNCHANGED before
    BY <2>3 DEF WakeUp, RecoverKoala2, SendRec2
  <2> QED
    BY <1>1, <1>2, <1>3, <2>1, <2>2, <2>3
       DEF SleepStep, RecoveryProcess, RecoverFromDisk, NoRecovery
<1> QED
  BY <1>1, <1>3, StepKinds DEF ProtocolEffect, sleepyVars, sleepVars

\* Falling asleep is not a stuttering step.
LEMMA FallAsleepMoves ==
  ASSUME SInv, NEW r \in Replicas, FallAsleep(r)
  PROVE  ~UNCHANGED sleepyVars
<1>1. /\ sleepProc \in [Replicas -> {"awake", "asleep", "woken", "done", "ended"}]
      /\ sleepProc[r] = "awake" /\ sleepProc' = [sleepProc EXCEPT ![r] = "asleep"]
  BY Tables DEF FallAsleep
<1>2. sleepProc' # sleepProc
  BY <1>1
<1> QED
  BY <1>2 DEF sleepyVars, sleepVars

\* If one replica is chosen to sleep and falls asleep in the first view, RecKoala2
\* brings back its votes: it takes part again with the parent of every block that it
\* helped to certify before it slept, although it answers for no vote of its own and
\* the others may be in any view.  The quorum of a certificate has one replica in common
\* with the RecQuorumSize() others whose ECHO2 HandleEcho2Msg counts.
THEOREM KoalaKeepsTheVotes ==
  ASSUME RecMode = "RecKoala2", RecQuorum \in Nat, QuorumSize + RecQuorum > N, OneSleeper
  PROVE  SleepySpec /\ [][\A r \in Replicas : FallAsleep(r) => view[r] = 0]_sleepyVars
           => []RecoversItsVotes
<1>1. ASSUME SInv, RInv(0), AsleepFirst, CertifiedByVoters PROVE RecoversItsVotes
  <2> SUFFICES ASSUME NEW r \in Replicas, NEW c \in Certificates,
                      Recovered(r), r \in c.ids, c.view <= before[r].view
               PROVE  curBlock[r].height >= c.height - 1
    BY DEF RecoversItsVotes
  <2>1. c \in AllCerts /\ c \in Certs \cup {NoBlock}
    BY <1>1, CertificatesTyped
  <2>2. c # NoBlock /\ c \in Certs
    BY <2>1 DEF NoBlock
  <2>3. c.view = 0 /\ c.height \in Nat /\ c.ids \in SUBSET Replicas
    BY <1>1, <2>2, ViewTypes DEF AsleepFirst, Certs, Views
  <2>4. curBlock[r].height \in Nat
    BY <1>1, BlockTypesOf
  <2>5. CASE c.hash = NilHash
    BY <1>1, <2>1, <2>3, <2>4, <2>5 DEF RInv, FirstView, Blank
  <2>6. CASE c.hash # NilHash
    <3>1. PICK Q \in SUBSET Replicas, A \in SUBSET Replicas :
                 Answered(r, Q, A) /\ Cardinality(A) >= RecQuorum
      BY <1>1, HasAnswers
    <3>2. PICK i \in A : i \in c.ids
      <4>1. Cardinality(c.ids) >= QuorumSize
        BY <1>1, <2>6 DEF CertifiedByVoters
      <4> QED
        BY <2>3, <3>1, <4>1, Overlap
    <3>3. CertsBelow(i, curBlock[r].height)
      BY <1>1, <3>1, <3>2, HasAnswers DEF Answered, Covers, Suffices
    <3> QED
      BY <2>1, <2>3, <2>4, <3>2, <3>3 DEF CertsBelow
  <2> QED
    BY <2>5, <2>6
<1>2. ASSUME SInv, SInv', RInv(0), AsleepFirst, [SleepyNext]_sleepyVars,
             [\A r \in Replicas : FallAsleep(r) => view[r] = 0]_sleepyVars
      PROVE  RInv(0)' /\ AsleepFirst'
  <2>1. \A r \in Replicas : FallAsleep(r) => view[r] = 0
    BY <1>2, FallAsleepMoves
  <2>2. \A r \in Replicas : LockKnown(r, 0)
    BY FS_EmptySet DEF LockKnown
  <2> QED
    BY <1>2, <2>1, <2>2, RInvStep, AsleepFirstStep
<1>3. SleepyInit => RInv(0) /\ AsleepFirst
  <2>1. SleepyInit => AsleepFirst
    BY DEF SleepyInit, InitSleep, AsleepFirst
  <2> QED
    BY <2>1, InitRInv
<1> QED
  BY <1>1, <1>2, <1>3, SleepyInvariant, SleepyCertifiedByVoters, PTL DEF SleepySpec

----------------------------------------------------------------------------
(* A quorum is as high as a lock of the first view.                        *)

\* Whoever accepted a block knows its parent, and the hash tells how high that is.
ParentsKnown ==
  \A i \in Replicas : \A h \in receivedBlocksSet[i] : curBlock[i].height >= Len(h) - 1

ParentsInv == AllAwake /\ Undisturbed => ParentsKnown

LEMMA ChainHeights ==
  ASSUME IInv, NEW s \in Seqs, s <= Sequence[0], s >= 1
  PROVE  Len(awaitingBlocks[0][s]) = s
<1>1. s \in 1..Sequence[0]
  BY DEF IInv, TypeInv, TypeOK, Seqs
<1> QED
  BY <1>1 DEF IInv, Chain

\* The leader has certified all it proposed, or all but the last.
LEMMA LeaderKnows ==
  ASSUME IInv
  PROVE  curBlock[0].height >= Sequence[0] - 1
<1>1. 0 \in Replicas /\ Sequence[0] \in Int /\ curStatus[0] \in {"READY", "PROCESSING"}
  BY FirstLeader DEF IInv, OneView, TypeInv, TypeOK
<1> QED
  BY <1>1 DEF IInv, Leading

LEMMA AcceptKnows ==
  ASSUME SInv, IInv, NEW m \in net, HandleNormalMsg(m)
  PROVE  curBlock'[m.dst].height >= Len(m.hash) - 1
<1> DEFINE r == m.dst
<1>1. /\ m.type = "QC" /\ r \in Replicas /\ m.qc \in Certs /\ m.seq \in Seqs
      /\ curBlock \in [Replicas -> Certs] /\ 0 \in Replicas
      /\ curBlock[r].height \in Nat
  <2>1. m.type = "QC"
    BY DEF HandleNormalMsg
  <2> QED
    BY <2>1, Tables, BlockTypesOf DEF SInv, BlockInv, VTypes, MsgFields
<1>2. m.qc.height \in Nat
  BY <1>1 DEF Certs
<1>3. ProposalOfChain(m) /\ view[r] = 0
  BY <1>1 DEF IInv, Messages, OneView
<1>4. m.seq \in Int /\ m.seq >= 1 /\ m.seq <= Sequence[0] /\ m.qc.height = m.seq - 1
  BY <1>1, <1>2, <1>3 DEF ProposalOfChain, Seqs
<1>5. Len(m.hash) = m.seq
  BY <1>1, <1>3, <1>4, ChainHeights DEF ProposalOfChain
<1>6. SkipQCInfo(r, m.qc, m.seq) \/ ProcessQCInfo(r, m.qc, m.seq)
  BY DEF HandleNormalMsg
<1>7. CASE SkipQCInfo(r, m.qc, m.seq)
  <2>1. curBlock' = curBlock /\ m.qc.height <= curBlock[r].height
    BY <1>7 DEF SkipQCInfo, OldNews, chainVars
  <2> QED
    BY <1>1, <1>2, <1>4, <1>5, <2>1
<1>8. CASE ProcessQCInfo(r, m.qc, m.seq) /\ r # 0
  <2>1. ~Leader(r)
    BY <1>1, <1>3, <1>8, FirstLeader
  <2>2. curBlock' = IF m.qc.height > curBlock[r].height
                      THEN [curBlock EXCEPT ![r] = m.qc] ELSE curBlock
    BY <1>8, <2>1 DEF ProcessQCInfo, AdoptsBlock
  <2>3. curBlock'[r].height >= m.qc.height
    <3>1. CASE m.qc.height > curBlock[r].height
      BY <1>1, <1>2, <2>2, <3>1
    <3>2. CASE ~(m.qc.height > curBlock[r].height)
      BY <1>1, <1>2, <2>2, <3>2
    <3> QED
      BY <3>1, <3>2
  <2> QED
    BY <1>4, <1>5, <2>3
<1>9. CASE ProcessQCInfo(r, m.qc, m.seq) /\ r = 0
  <2>1. Leader(r)
    BY <1>1, <1>3, <1>9, FirstLeader
  <2>2. curBlock' = curBlock
    BY <1>9, <2>1 DEF ProcessQCInfo, AdoptsBlock
  <2>3. Sequence[0] \in Int
    BY <1>1, Tables
  <2> QED
    BY <1>1, <1>4, <1>5, <1>9, <2>2, <2>3, LeaderKnows
<1> QED
  BY <1>6, <1>7, <1>8, <1>9

LEMMA ParentsStep ==
  ASSUME SInv, SInv', RecMode = "RecKoala2", AwakeInv, ParentsInv, [SleepyNext]_sleepyVars
  PROVE  ParentsInv'
<1> SUFFICES ASSUME AllAwake', Undisturbed'
             PROVE  ParentsKnown'
  BY DEF ParentsInv
<1>1. AllAwake
  BY WasAwake
<1>2. VInv /\ FInv /\ ProtocolNet /\ [VCNext]_allVars
  BY <1>1, AwakeStep DEF AwakeInv
<1>3. Undisturbed
  <2>1. CASE VCNext
    BY <1>2, <2>1, OnlyNormalSteps
  <2>2. CASE UNCHANGED allVars
    BY <2>2 DEF Undisturbed, TimedOut, GaveUp, allVars, vars
  <2> QED
    BY <1>2, <2>1, <2>2
<1>4. IInv /\ ParentsKnown
  BY <1>1, <1>2, <1>3 DEF FInv, ParentsInv
<1>5. \A i \in Replicas : curBlock'[i].height >= curBlock[i].height
  BY <1>1, OthersStay DEF AllAwake
<1>6. \A i \in Replicas : curBlock[i].height \in Nat /\ curBlock'[i].height \in Nat
  <2>1. \A i \in Replicas : curBlock'[i] \in Certs
    BY DEF SInv, BlockInv, VTypes, NormalTypes
  <2> QED
    BY <2>1, BlockTypesOf DEF Certs
<1>7. \A i \in Replicas : \A h \in receivedBlocksSet[i] : Len(h) \in Nat
  <2>1. \A h \in Hashes : Len(h) \in Nat
    BY DEF Hashes
  <2> QED
    BY <2>1 DEF SInv, BlockInv, VTypes, NormalTypes
<1>8. ASSUME \A i \in Replicas : \A h \in receivedBlocksSet'[i] :
               h \in receivedBlocksSet[i] \/ curBlock'[i].height >= Len(h) - 1
      PROVE  ParentsKnown'
  BY <1>4, <1>5, <1>6, <1>7, <1>8 DEF ParentsKnown
<1>9. CASE UNCHANGED receivedBlocksSet
  BY <1>8, <1>9
<1>10. ASSUME NEW m \in net, HandleNormalMsg(m)
       PROVE  ParentsKnown'
  <2>1. curBlock'[m.dst].height >= Len(m.hash) - 1
    BY <1>4, <1>10, AcceptKnows
  <2>2. /\ receivedBlocksSet \in [Replicas -> SUBSET Hashes]
        /\ receivedBlocksSet' = [receivedBlocksSet EXCEPT
                                   ![m.dst] = receivedBlocksSet[m.dst] \cup {m.hash}]
    BY <1>10 DEF HandleNormalMsg, SInv, BlockInv, VTypes, NormalTypes
  <2>3. \A i \in Replicas : \A h \in receivedBlocksSet'[i] :
          h \in receivedBlocksSet[i] \/ (i = m.dst /\ h = m.hash)
    BY <2>2
  <2> QED
    BY <1>8, <2>1, <2>3
<1>11. CASE VCNext
  <2>1. Next
    BY <1>2, <1>11, OnlyNormalSteps
  <2>2. ASSUME NEW r \in Replicas, NEW v \in Views, RequestMonitor(r, v)
        PROVE  UNCHANGED receivedBlocksSet
    BY <2>2 DEF RequestMonitor, MonitorStart, MonitorCheckView, MonitorCheckStatus,
                MonitorClaim, MonitorPropose, chainVars
  <2>3. ASSUME NEW r \in Replicas, NEW req \in Requests, HandleRequest(r, req)
        PROVE  UNCHANGED receivedBlocksSet
    BY <2>3 DEF HandleRequest
  <2>4. ASSUME NEW m \in net, HandleQCByteMsg(m)
        PROVE  UNCHANGED receivedBlocksSet \/ HandleNormalMsg(m)
    BY <2>4 DEF HandleQCByteMsg, IgnoreMsg, RejectProposal, DropVote, HandleNormalRepMsg
  <2> QED
    BY <1>9, <1>10, <2>1, <2>2, <2>3, <2>4 DEF Next
<1>12. CASE UNCHANGED allVars
  BY <1>9, <1>12 DEF allVars, vars
<1> QED
  BY <1>2, <1>11, <1>12

\* The quorum that certified the block of r has its parent, which is not lower than
\* the lock of r.
LEMMA QuorumKnowsLock ==
  ASSUME SInv, IInv, ParentsKnown, NEW r \in Replicas
  PROVE  LockKnown(r, QuorumSize)
<1>1. /\ curBlock[r] \in Certs /\ lockedBlock[r] \in Certs
      /\ \A i \in Replicas : curBlock[i].height \in Nat
  BY BlockTypesOf DEF SInv, BlockInv, VTypes, NormalTypes
<1>2. lockedBlock[r].height \in Nat /\ curBlock[r].height \in Nat
  BY <1>1 DEF Certs
<1>3. CASE lockedBlock[r].height = 0
  <2>1. Cardinality(Replicas) >= QuorumSize
    BY ConstantsAssumption, FS_Interval DEF Replicas
  <2>2. \A i \in Replicas : curBlock[i].height >= lockedBlock[r].height
    BY <1>1, <1>3
  <2> QED
    BY <2>1, <2>2 DEF LockKnown
<1>4. CASE lockedBlock[r].height # 0
  <2>1. lockedBlock[r].height < curBlock[r].height
    BY <1>4 DEF IInv, Ladder
  <2>2. Sound(curBlock[r])
    BY DEF IInv, Certified
  <2>3. /\ curBlock[r].height \in 1..Sequence[0]
        /\ curBlock[r].hash = awaitingBlocks[0][curBlock[r].height]
    BY <1>2, <2>1, <2>2 DEF Sound, SoundIn, EmptyBlock
  <2>4. Len(curBlock[r].hash) = curBlock[r].height
    BY <2>3 DEF IInv, Chain
  <2>5. curBlock[r].hash # NilHash
    BY <1>2, <2>1, <2>4 DEF NilHash
  <2>6. /\ Cardinality(curBlock[r].ids) >= QuorumSize
        /\ \A i \in curBlock[r].ids : curBlock[r].hash \in receivedBlocksSet[i]
    BY <2>2, <2>5 DEF Sound, SoundIn
  <2>7. curBlock[r].ids \in SUBSET Replicas
    BY <1>1 DEF Certs
  <2>8. \A i \in curBlock[r].ids : curBlock[i].height >= lockedBlock[r].height
    <3> SUFFICES ASSUME NEW i \in curBlock[r].ids
                 PROVE  curBlock[i].height >= lockedBlock[r].height
      OBVIOUS
    <3>1. i \in Replicas /\ curBlock[i].height \in Nat
      BY <1>1, <2>7
    <3>2. curBlock[i].height >= curBlock[r].height - 1
      BY <2>4, <2>6, <3>1 DEF ParentsKnown
    <3> QED
      BY <1>2, <2>1, <3>1, <3>2
  <2> QED
    BY <2>6, <2>7, <2>8 DEF LockKnown
<1> QED
  BY <1>3, <1>4

\* If one replica is chosen to sleep and falls asleep before a timer fires, RecKoala2
\* brings back a block as high as the lock it had, which is written nowhere: a quorum
\* knows one, and one of them is among those whose ECHO2 is counted.
THEOREM KoalaKeepsTheLock ==
  ASSUME RecMode = "RecKoala2", RecQuorum \in Nat, QuorumSize + RecQuorum > N, OneSleeper
  PROVE  SleepySpec /\ [][\A r \in Replicas : FallAsleep(r) => Undisturbed]_sleepyVars
           => []RecoversItsLock
<1>1. ASSUME SInv, RInv(QuorumSize) PROVE RecoversItsLock
  <2>0. \A r \in Replicas : ~Ended(r)
    BY <1>1 DEF SInv, Phases, PhaseOf, Ended
  <2> SUFFICES ASSUME NEW r \in Replicas, Recovered(r)
               PROVE  curBlock[r].height >= before[r].lock.height
    BY <2>0 DEF RecoversItsLock
  <2>1. PICK Q \in SUBSET Replicas, A \in SUBSET Replicas :
               Cardinality(Q) >= QuorumSize /\ Answered(r, Q, A) /\ Cardinality(A) >= RecQuorum
    BY <1>1, HasAnswers
  <2>2. PICK i \in Q : i \in A
    BY <2>1, Overlap
  <2>3. before[r].lock.height <= curBlock[r].height
    BY <2>1, <2>2 DEF Answered, Covers
  <2>4. before[r].lock.height \in Nat /\ curBlock[r].height \in Nat
    BY <1>1, BlockTypesOf
  <2> QED
    BY <2>3, <2>4
<1>2. ASSUME SInv, SInv', RInv(QuorumSize), AwakeInv, ParentsInv, [SleepyNext]_sleepyVars,
             [\A r \in Replicas : FallAsleep(r) => Undisturbed]_sleepyVars
      PROVE  RInv(QuorumSize)' /\ ParentsInv'
  <2>1. ASSUME NEW r \in Replicas, FallAsleep(r) PROVE LockKnown(r, QuorumSize)
    <3>1. Undisturbed
      BY <1>2, <2>1, FallAsleepMoves
    <3>2. AllAwake
      BY <1>2, <2>1 DEF RInv, OnlySleepers, OneSleeper, NeverSlept, FallAsleep,
                        ParamOfSleepyReplica, AllAwake
    <3> QED
      BY <1>2, <3>1, <3>2, QuorumKnowsLock DEF AwakeInv, FInv, ParentsInv
  <2> QED
    BY <1>2, <2>1, RInvStep, ParentsStep
<1>3. SleepyInit => RInv(QuorumSize) /\ ParentsInv
  <2>1. SleepyInit => ParentsInv
    BY DEF SleepyInit, VCInit, Init, InitProtocol, ParentsInv, ParentsKnown
  <2> QED
    BY <2>1, InitRInv
<1> QED
  BY <1>1, <1>2, <1>3, SleepyInvariant, AwakeInvariance, PTL DEF SleepySpec
=============================================================================
