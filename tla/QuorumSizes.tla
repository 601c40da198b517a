----------------------------- MODULE QuorumSizes -----------------------------
(***************************************************************************)
(* How many messages make a quorum (quorum.go), and which configurations   *)
(* the program accepts (SleepyHotstuffConfig of sleepyRec.go).  The other  *)
(* modules take the size of a quorum as a constant; here it is computed    *)
(* from the configuration when InitHotStuff runs, at the start of a        *)
(* replica and again when it wakes up.                                     *)
(*                                                                         *)
(* f counts the replicas that may lie.  s counts those that may fall       *)
(* asleep and forget, without stable storage, what they voted for.         *)
(***************************************************************************)
EXTENDS Integers, FiniteSets

CONSTANTS
  Nums,      \* numbers of replicas a configuration may list
  Faults,    \* values of numOfMal
  Sleepers   \* values of numOfSleepy

ASSUME SizesAssumption ==
  /\ Nums \subseteq Nat \ {0}
  /\ Faults \subseteq Nat
  /\ Sleepers \subseteq Nat

\* config.FetchTestTypeAndParam: the first three use StartQuorum.
TestTypes == {"Test_off", "NoPersist_DoubleSpend", "Persist_DoubleSpend",
              "PartChurn", "Koala2_DoubleSpend"}
SleepyTests == {"PartChurn", "Koala2_DoubleSpend"}

RecModes == {"NoRec", "RecFromDisk", "RecKoala2"}

\* noPersist is PersistLevel() = db.NoPersist; recMode is that of the sleepy
\* replicas the file lists.
Configs == [num: Nums, numOfMal: Faults, numOfSleepy: Sleepers, gat: BOOLEAN,
            noPersist: BOOLEAN, test: TestTypes, recMode: RecModes]

Phases == {"start", "fatal", "running"}

VARIABLES
  conf,      \* the configuration file
  phase,     \* whether InitHotStuff has run, or ended the program
  f,         \* quorum.f
  quorum,    \* quorum.quorum
  recQuorum, \* quorum.recQuorum
  squorum    \* quorum.squorum

sizes == <<f, quorum, recQuorum, squorum>>
sizesVars  == <<conf, phase, sizes>>

----------------------------------------------------------------------------
(* StartQuorum(num).                                                       *)

FaultsOf(num) == (num - 1) \div 3

\* Variant for a mutant: rounds down.
QuorumOfFloor(num) == (num + FaultsOf(num) + 1) \div 2

QuorumOf(num) ==
  LET sum == num + FaultsOf(num) + 1
  IN  sum \div 2 + (IF sum % 2 > 0 THEN 1 ELSE 0)

StartQuorum(num) ==
  /\ f' = FaultsOf(num)
  /\ quorum' = QuorumOf(num)
  /\ squorum' = FaultsOf(num) + 1
  /\ UNCHANGED recQuorum

----------------------------------------------------------------------------
(* StartSleepyHotstuffQuorum(num, fal, s, level).                          *)

Levels == {"3f+1", "3f+s+1", "3f+2s+1"}

\* Variant for a mutant: waits for the sleepers.
SleepyQuorumAwake(num, fal, s, level) == num - fal

SleepyQuorum(num, fal, s, level) ==
  IF level = "3f+2s+1" THEN num - fal - s ELSE num - fal

\* Variant for a mutant: a recovery waits for the sleepers.
StartSleepyAllAwake(num, fal, s, level) ==
  /\ f' = fal
  /\ quorum' = SleepyQuorum(num, fal, s, level)
  /\ recQuorum' = IF level = "3f+1" THEN recQuorum ELSE num - fal
  /\ UNCHANGED squorum

StartSleepyHotstuffQuorum(num, fal, s, level) ==
  /\ f' = fal
  /\ quorum' = SleepyQuorum(num, fal, s, level)
  /\ recQuorum' = IF level = "3f+1" THEN recQuorum ELSE num - fal - s
  /\ UNCHANGED squorum

\* SleepyHotstuffConfig: what a configuration has to tolerate, and the number of
\* replicas that takes.
LevelOf(c) ==
  IF ~c.gat THEN "3f+2s+1" ELSE IF c.noPersist THEN "3f+s+1" ELSE "3f+1"

ReplicasFor(c) ==
  3 * c.numOfMal + 1 +
    (CASE LevelOf(c) = "3f+1"    -> 0
       [] LevelOf(c) = "3f+s+1"  -> c.numOfSleepy
       [] LevelOf(c) = "3f+2s+1" -> 2 * c.numOfSleepy)

\* ParamOfSleepyReplica: how a replica that wakes up recovers.  PartChurn does
\* not look at the file.
RecModeOf(c) == IF c.test = "PartChurn" THEN "RecKoala2" ELSE c.recMode

SleepyHotstuffConfig(c) == 3 * c.numOfMal < c.num /\ c.num = ReplicasFor(c)

----------------------------------------------------------------------------

\* InitHotStuff at startup and, in the tests that make a replica sleep, in
\* SleepProcess when it wakes up; InTestConfig ends the program on a
\* configuration that does not add up.
InitHotStuff ==
  /\ phase # "fatal"
  /\ UNCHANGED conf
  /\ IF conf.test \notin SleepyTests
       THEN phase' = "running" /\ StartQuorum(conf.num)
       ELSE IF SleepyHotstuffConfig(conf)
              THEN /\ phase' = "running"
                   /\ StartSleepyHotstuffQuorum(conf.num, conf.numOfMal,
                        conf.numOfSleepy, LevelOf(conf))
              ELSE phase' = "fatal" /\ UNCHANGED sizes

SizesInit ==
  /\ conf \in Configs
  /\ phase = "start"
  /\ f = 0 /\ quorum = 0 /\ recQuorum = 0 /\ squorum = 0

SizesNext == InitHotStuff

SizesSpec == SizesInit /\ [][SizesNext]_sizesVars

----------------------------------------------------------------------------
(* Properties.                                                             *)

\* Every variable stays in the domain the code gives it.
SizesTypeOK ==
  /\ conf \in Configs
  /\ phase \in Phases
  /\ f \in Nat /\ quorum \in Nat /\ recQuorum \in Nat /\ squorum \in Nat

\* Two quorums of votes (CheckQuorum) have a replica in common that does not
\* lie, whatever number of replicas the configuration lists.
QuorumsMeet == phase = "running" => 2 * quorum - conf.num >= f + 1

\* The replicas that do not lie, less those that may be asleep where the
\* configuration makes room for that, are enough for a quorum: it can be had.
QuorumsExist ==
  phase = "running" =>
    /\ quorum <= conf.num - f
    /\ conf.test \in SleepyTests /\ ~conf.gat =>
         quorum <= conf.num - f - conf.numOfSleepy

\* A replica that lost its state asks recQuorum replicas (HandleEcho1,
\* HandleEcho2).  In the configurations whose level gives the recovery a quorum,
\* one of them does not lie and took part in any quorum of votes there was, and
\* a recovery does not need those that lie or sleep.
RecoverySeesVotes ==
  phase = "running" /\ conf.test \in SleepyTests /\ LevelOf(conf) # "3f+1" =>
    /\ recQuorum + quorum - conf.num >= f + 1
    /\ recQuorum <= conf.num - f - conf.numOfSleepy

\* The same of every configuration that InTestConfig accepts and that recovers
\* from other replicas.  It does not hold: PartChurn recovers that way with
\* stable storage under GAT too, level "3f+1", which leaves recQuorum at 0.
RecoveriesAskQuorum ==
  phase = "running" /\ conf.test \in SleepyTests /\ RecModeOf(conf) = "RecKoala2" =>
    recQuorum + quorum - conf.num >= f + 1
=============================================================================
