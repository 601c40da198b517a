-------------------------- MODULE QuorumSizesProofs --------------------------
(***************************************************************************)
(* The quorum sizes of QuorumSizes are right for every configuration.      *)
(***************************************************************************)
EXTENDS QuorumSizes, FiniteSetTheorems, TLAPS

\* For any number of replicas, the quorum that StartQuorum computes is one that
\* the replicas that do not lie can form, and two of them share one of those.
THEOREM StartQuorumSizes ==
  ASSUME NEW num \in Nat \ {0}
  PROVE  /\ FaultsOf(num) \in Nat
         /\ QuorumOf(num) \in Nat
         /\ 2 * QuorumOf(num) - num >= FaultsOf(num) + 1
         /\ QuorumOf(num) <= num - FaultsOf(num)
<1> DEFINE k == FaultsOf(num)
           m == num + k + 1
<1>1. k \in Nat /\ 3 * k <= num - 1
  BY DEF FaultsOf
<1>2. m \in Nat /\ m \div 2 \in Nat /\ m = 2 * (m \div 2) + (m % 2) /\ m % 2 \in {0, 1}
  BY <1>1
<1>3. QuorumOf(num) = m \div 2 + (IF m % 2 > 0 THEN 1 ELSE 0)
  BY DEF QuorumOf
<1> HIDE DEF k, m
<1>4. m = num + k + 1
  BY DEF m
<1>5. QuorumOf(num) \in Nat /\ 2 * QuorumOf(num) \in {m, m + 1}
  BY <1>2, <1>3
<1> QED
  BY <1>1, <1>4, <1>5 DEF k

\* The same said of sets of replicas: of two quorums, more than f replicas belong
\* to both.
THEOREM QuorumsShareReplicas ==
  ASSUME NEW num \in Nat \ {0},
         NEW P \in SUBSET (0..(num - 1)), Cardinality(P) >= QuorumOf(num),
         NEW Q \in SUBSET (0..(num - 1)), Cardinality(Q) >= QuorumOf(num)
  PROVE  Cardinality(P \cap Q) >= FaultsOf(num) + 1
<1> DEFINE R == 0..(num - 1)
<1>1. IsFiniteSet(R) /\ Cardinality(R) = num
  BY FS_Interval
<1>2. /\ IsFiniteSet(P) /\ IsFiniteSet(Q)
      /\ IsFiniteSet(P \cup Q) /\ Cardinality(P \cup Q) <= num
      /\ IsFiniteSet(P \cap Q)
  BY <1>1, FS_Subset
<1>3. Cardinality(P \cup Q) = Cardinality(P) + Cardinality(Q) - Cardinality(P \cap Q)
  BY <1>2, FS_Union
<1>4. /\ Cardinality(P) \in Nat /\ Cardinality(Q) \in Nat
      /\ Cardinality(P \cap Q) \in Nat
  BY <1>2, FS_CardinalityType
<1> QED
  BY <1>2, <1>3, <1>4, StartQuorumSizes

----------------------------------------------------------------------------

\* What a recovery quorum is when there is one; the wake-up of a replica leaves
\* it alone in the configurations that have none.
RecQuorumSet ==
  recQuorum # 0 =>
    /\ SleepyHotstuffConfig(conf)
    /\ LevelOf(conf) # "3f+1"
    /\ recQuorum = conf.num - conf.numOfMal - conf.numOfSleepy

IInv == SizesTypeOK /\ RecQuorumSet /\ QuorumsMeet /\ QuorumsExist /\ RecoverySeesVotes

LEMMA ConfigFields ==
  ASSUME NEW c \in Configs
  PROVE  /\ c.num \in Nat \ {0} /\ c.numOfMal \in Nat /\ c.numOfSleepy \in Nat
         /\ c.gat \in BOOLEAN
         /\ LevelOf(c) \in Levels
         /\ LevelOf(c) = "3f+1" => ReplicasFor(c) = 3 * c.numOfMal + 1
         /\ LevelOf(c) = "3f+s+1" =>
              ReplicasFor(c) = 3 * c.numOfMal + 1 + c.numOfSleepy
         /\ LevelOf(c) = "3f+2s+1" =>
              ReplicasFor(c) = 3 * c.numOfMal + 1 + 2 * c.numOfSleepy
         /\ ~c.gat => LevelOf(c) = "3f+2s+1"
  BY SizesAssumption DEF Configs, LevelOf, Levels, ReplicasFor

\* The initial state and every call of InitHotStuff, whatever the configuration,
\* leave sizes that meet the three properties.
THEOREM Sizes == SizesSpec => []IInv
<1>1. SizesInit => IInv
  BY DEF SizesInit, IInv, SizesTypeOK, RecQuorumSet, QuorumsMeet, QuorumsExist,
         RecoverySeesVotes, Phases
<1>2. IInv /\ [SizesNext]_sizesVars => IInv'
  <2> SUFFICES ASSUME IInv, [SizesNext]_sizesVars PROVE IInv'
    OBVIOUS
  <2>1. CASE UNCHANGED sizesVars
    BY <2>1 DEF IInv, SizesTypeOK, RecQuorumSet, QuorumsMeet, QuorumsExist,
                RecoverySeesVotes, sizesVars, sizes
  <2>2. CASE InitHotStuff /\ conf.test \notin SleepyTests
    <3>1. conf \in Configs /\ conf' = conf /\ phase' = "running" /\ StartQuorum(conf.num)
      BY <2>2 DEF IInv, SizesTypeOK, InitHotStuff
    <3>2. /\ conf.num \in Nat \ {0}
          /\ FaultsOf(conf.num) \in Nat
          /\ QuorumOf(conf.num) \in Nat
          /\ 2 * QuorumOf(conf.num) - conf.num >= FaultsOf(conf.num) + 1
          /\ QuorumOf(conf.num) <= conf.num - FaultsOf(conf.num)
      BY <3>1, ConfigFields, StartQuorumSizes
    <3>3. SizesTypeOK'
      BY <3>1, <3>2 DEF StartQuorum, SizesTypeOK, IInv, Phases
    <3>4. QuorumsMeet' /\ QuorumsExist' /\ RecoverySeesVotes'
      BY <2>2, <3>1, <3>2 DEF StartQuorum, QuorumsMeet, QuorumsExist, RecoverySeesVotes
    <3>5. RecQuorumSet'
      BY <3>1 DEF StartQuorum, RecQuorumSet, IInv
    <3> QED
      BY <3>3, <3>4, <3>5 DEF IInv
  <2>3. CASE InitHotStuff /\ conf.test \in SleepyTests /\ SleepyHotstuffConfig(conf)
    <3>1. /\ conf \in Configs /\ conf' = conf /\ phase' = "running"
          /\ conf.num = ReplicasFor(conf)
          /\ StartSleepyHotstuffQuorum(conf.num, conf.numOfMal, conf.numOfSleepy,
                                       LevelOf(conf))
      BY <2>3 DEF IInv, SizesTypeOK, InitHotStuff, SleepyHotstuffConfig
    <3>2. /\ f' = conf.numOfMal
          /\ quorum' = SleepyQuorum(conf.num, conf.numOfMal, conf.numOfSleepy,
                                    LevelOf(conf))
          /\ recQuorum' = IF LevelOf(conf) = "3f+1" THEN recQuorum
                          ELSE conf.num - conf.numOfMal - conf.numOfSleepy
          /\ squorum' = squorum
      BY <3>1 DEF StartSleepyHotstuffQuorum
    <3>3. RecQuorumSet'
      BY <2>3, <3>1, <3>2 DEF RecQuorumSet, IInv
    <3>4. SizesTypeOK' /\ QuorumsMeet' /\ QuorumsExist' /\ RecoverySeesVotes'
      <4>1. CASE LevelOf(conf) = "3f+1"
        BY <4>1, <3>1, <3>2, <3>3, ConfigFields
           DEF SleepyQuorum, SizesTypeOK, QuorumsMeet, QuorumsExist, RecoverySeesVotes,
               RecQuorumSet, Phases, IInv
      <4>2. CASE LevelOf(conf) = "3f+s+1"
        BY <4>2, <3>1, <3>2, ConfigFields
           DEF SleepyQuorum, SizesTypeOK, QuorumsMeet, QuorumsExist, RecoverySeesVotes,
               Phases, IInv
      <4>3. CASE LevelOf(conf) = "3f+2s+1"
        BY <4>3, <3>1, <3>2, ConfigFields
           DEF SleepyQuorum, SizesTypeOK, QuorumsMeet, QuorumsExist, RecoverySeesVotes,
               Phases, IInv
      <4> QED
        BY <4>1, <4>2, <4>3, <3>1, ConfigFields DEF Levels
    <3> QED
      BY <3>3, <3>4 DEF IInv
  <2>4. CASE InitHotStuff /\ conf.test \in SleepyTests /\ ~SleepyHotstuffConfig(conf)
    BY <2>4 DEF InitHotStuff, IInv, SizesTypeOK, RecQuorumSet, QuorumsMeet, QuorumsExist,
                RecoverySeesVotes, sizes, Phases
  <2> QED
    BY <2>1, <2>2, <2>3, <2>4 DEF SizesNext
<1> QED
  BY <1>1, <1>2, PTL DEF SizesSpec

\* InitHotStuff leaves sizes that are natural numbers, at startup and on wake-up.
THEOREM TypeCorrect == SizesSpec => []SizesTypeOK
  BY Sizes, PTL DEF IInv

\* Two quorums of votes share a replica that does not lie, in every accepted
\* configuration.
THEOREM QuorumsMeetAlways == SizesSpec => []QuorumsMeet
  BY Sizes, PTL DEF IInv

\* A quorum can be had without the replicas that lie and, where the configuration
\* provides for them, the sleepers.
THEOREM QuorumsExistAlways == SizesSpec => []QuorumsExist
  BY Sizes, PTL DEF IInv

\* In the configurations of level 3f+s+1 and 3f+2s+1, a recovery quorum meets
\* every quorum of votes in a replica that does not lie, and can be had.
THEOREM RecoverySeesVotesAlways == SizesSpec => []RecoverySeesVotes
  BY Sizes, PTL DEF IInv

\* In those of level 3f+1, a replica that wakes up asks nobody in particular:
\* recQuorum stays as it was before any call, and the first answer completes
\* a recovery (HandleEcho1Msg, HandleEcho2Msg).
THEOREM NoRecoveryQuorum == SizesSpec => [](LevelOf(conf) = "3f+1" => recQuorum = 0)
<1>1. IInv => (LevelOf(conf) = "3f+1" => recQuorum = 0)
  BY DEF IInv, RecQuorumSet
<1> QED
  BY <1>1, Sizes, PTL
=============================================================================
