--------------------------- MODULE MigrationPlanProofs ---------------------------
(***************************************************************************)
(* A plan the planner makes passes its own rehearsal where it replaces     *)
(* three voters and only there.  Such a plan carried out with any number   *)
(* of failures, rollbacks and elections keeps fitting the group it         *)
(* changes, for every order of the policy and every rollback window.       *)
(***************************************************************************)
EXTENDS MigrationPlan, FiniteSetTheorems, TLAPS

-----------------------------------------------------------------------------
(* The order of the plan.  A source's rank, how many sources are not later *)
(* than it, numbers the sources 1..N: Ordered is its inverse.              *)
NotLater(s) == {t \in Source : Earlier(t, s)}
Rank(s) == Cardinality(NotLater(s))

LEMMA SizesOK ==
  /\ IsFiniteSet(Source) /\ N \in Nat /\ N >= 3 /\ N = Cardinality(Source)
  /\ Source \cap Target = {} /\ RollbackWindow \in Nat /\ RollbackWindow >= 1
BY PlanConstantsOK, FS_CardinalityType DEF ValidMigrationSpec, N

LEMMA ScoreIsNat ==
  ASSUME NEW s \in Source
  PROVE  /\ Score(s) \in Nat
         /\ s = fiduciaLeader => Score(s) >= 100
         /\ s # fiduciaLeader => Score(s) <= 10
BY DEF Score

(* Earlier orders the sources totally: the policy names each once.         *)
LEMMA EarlierIsTotal ==
  ASSUME NEW s \in Source, NEW t \in Source
  PROVE  /\ Earlier(s, s)
         /\ Earlier(s, t) \/ Earlier(t, s)
         /\ Earlier(s, t) /\ Earlier(t, s) => s = t
<1>1. DeclaredOrder[s] \in Nat /\ DeclaredOrder[t] \in Nat
      /\ (DeclaredOrder[s] = DeclaredOrder[t] => s = t)
  BY PlanConstantsOK DEF ValidMigrationSpec
<1>2. Score(s) \in Nat /\ Score(t) \in Nat
  BY ScoreIsNat
<1> QED
  BY <1>1, <1>2 DEF Earlier

LEMMA EarlierIsTransitive ==
  ASSUME NEW s \in Source, NEW t \in Source, NEW u \in Source,
         Earlier(s, t), Earlier(t, u)
  PROVE  Earlier(s, u)
<1>1. DeclaredOrder[s] \in Nat /\ DeclaredOrder[t] \in Nat /\ DeclaredOrder[u] \in Nat
  BY PlanConstantsOK DEF ValidMigrationSpec
<1>2. Score(s) \in Nat /\ Score(t) \in Nat /\ Score(u) \in Nat
  BY ScoreIsNat
<1> QED
  BY <1>1, <1>2 DEF Earlier

LEMMA RankIsBounded ==
  ASSUME NEW s \in Source
  PROVE  IsFiniteSet(NotLater(s)) /\ Rank(s) \in 1..N
<1>1. NotLater(s) \in SUBSET Source /\ s \in NotLater(s)
  BY EarlierIsTotal DEF NotLater
<1>2. IsFiniteSet(NotLater(s)) /\ Cardinality(NotLater(s)) <= N
  BY <1>1, SizesOK, FS_Subset
<1>3. Cardinality(NotLater(s)) \in Nat /\ Cardinality(NotLater(s)) # 0
  BY <1>1, <1>2, FS_CardinalityType, FS_EmptySet
<1> QED
  BY <1>2, <1>3, SizesOK DEF Rank

LEMMA EarlierRanksLower ==
  ASSUME NEW s \in Source, NEW t \in Source, Earlier(s, t), s # t
  PROVE  Rank(s) < Rank(t)
<1>1. t \notin NotLater(s) /\ t \in NotLater(t)
  BY EarlierIsTotal DEF NotLater
<1>2. NotLater(s) \in SUBSET NotLater(t)
  BY EarlierIsTransitive DEF NotLater
<1>3. /\ Cardinality(NotLater(s)) <= Cardinality(NotLater(t))
      /\ Cardinality(NotLater(s)) = Cardinality(NotLater(t)) => NotLater(s) = NotLater(t)
  BY <1>2, RankIsBounded, FS_Subset
<1>4. Rank(s) \in 1..N /\ Rank(t) \in 1..N
  BY RankIsBounded
<1> QED
  BY <1>1, <1>3, <1>4, SizesOK DEF Rank

LEMMA RanksDiffer ==
  ASSUME NEW s \in Source, NEW t \in Source, Rank(s) = Rank(t)
  PROVE  s = t
<1>1. Rank(s) \in 1..N
  BY RankIsBounded
<1>2. SUFFICES ASSUME s # t PROVE FALSE
  OBVIOUS
<1>3. Rank(s) < Rank(t) \/ Rank(t) < Rank(s)
  BY <1>2, EarlierIsTotal, EarlierRanksLower
<1> QED
  BY <1>1, <1>3, SizesOK

LEMMA EveryRankIsTaken ==
  ASSUME NEW n \in 1..N
  PROVE  \E s \in Source : Rank(s) = n
<1> DEFINE f == [s \in Source |-> Rank(s)]
<1>1. f \in [Source -> 1..N]
  BY RankIsBounded
<1>2. \A s, t \in Source : f[s] = f[t] => s = t
  BY RanksDiffer
<1>3. f \in Injection(Source, 1..N)
  <2> HIDE DEF f
  <2> QED
    BY <1>1, <1>2 DEF Injection, IsInjective
<1>4. IsFiniteSet(1..N) /\ Cardinality(1..N) = Cardinality(Source)
  BY SizesOK, FS_Interval
<1>5. f \in Surjection(Source, 1..N)
  <2> HIDE DEF f
  <2> QED
    BY <1>3, <1>4, FS_Injection
<1>6. \E s \in Source : f[s] = n
  <2> HIDE DEF f
  <2> QED
    BY <1>5 DEF Surjection
<1> QED
  BY <1>6

(* What the rest of the proofs needs of the plan: every source once, the   *)
(* observed leader last.                                                   *)
GoodOrder(order) ==
  /\ order \in [1..N -> Source]
  /\ \A i, j \in 1..N : order[i] = order[j] => i = j
  /\ \A s \in Source : \E i \in 1..N : order[i] = s

LEMMA OrderedIsGood ==
  GoodOrder(Ordered) /\ (fiduciaLeader \in Source => Ordered[N] = fiduciaLeader)
<1>1. \A n \in 1..N : Ordered[n] \in Source /\ Rank(Ordered[n]) = n
  BY EveryRankIsTaken DEF Ordered, Rank, NotLater
<1>2. Ordered \in [1..N -> Source]
  BY <1>1 DEF Ordered
<1>3. \A s \in Source : Rank(s) \in 1..N /\ Ordered[Rank(s)] = s
  BY <1>1, RankIsBounded, RanksDiffer
<1>4. ASSUME fiduciaLeader \in Source
      PROVE  Ordered[N] = fiduciaLeader
  <2>1. \A t \in Source : Earlier(t, fiduciaLeader)
    <3> TAKE t \in Source
    <3>1. CASE t = fiduciaLeader
      BY <3>1, EarlierIsTotal
    <3>2. CASE t # fiduciaLeader
      <4>1. Score(t) \in Nat /\ Score(t) <= 10 /\ Score(fiduciaLeader) \in Nat
            /\ Score(fiduciaLeader) >= 100
        BY <3>2, <1>4, ScoreIsNat
      <4> QED
        BY <4>1 DEF Earlier
    <3> QED
      BY <3>1, <3>2
  <2>2. NotLater(fiduciaLeader) = Source
    BY <2>1 DEF NotLater
  <2>3. Rank(fiduciaLeader) = N
    BY <2>2, SizesOK DEF Rank
  <2> QED
    BY <2>3, <1>3, <1>4
<1> QED
  BY <1>1, <1>2, <1>3, <1>4 DEF GoodOrder

-----------------------------------------------------------------------------
(* The configurations of the plan.                                         *)
Moved(order, n) == {order[i] : i \in 1..n}
Config(order, n) == (Source \ Moved(order, n)) \cup {TargetOf[s] : s \in Moved(order, n)}

LEMMA StableVotersAreConfig ==
  ASSUME NEW n
  PROVE  StableVoters(n) = Config(replacements, n)
BY DEF StableVoters, Config, Moved

LEMMA TargetsDiffer ==
  ASSUME NEW s \in Source, NEW t \in Source, TargetOf[s] = TargetOf[t]
  PROVE  s = t
<1> DEFINE f == [u \in Source |-> TargetOf[u]]
<1>1. f \in Surjection(Source, Target)
  BY DEF Surjection, Target
<1>2. Cardinality(Target) = Cardinality(Source)
  BY PlanConstantsOK DEF ValidMigrationSpec, N
<1>3. f \in Injection(Source, Target)
  <2> HIDE DEF f
  <2> QED
    BY <1>1, <1>2, SizesOK, FS_Surjection
<1>4. \A u, v \in Source : f[u] = f[v] => u = v
  <2> HIDE DEF f
  <2> QED
    BY <1>3 DEF Injection, IsInjective
<1>5. f[s] = TargetOf[s] /\ f[t] = TargetOf[t]
  OBVIOUS
<1> QED
  BY <1>4, <1>5

LEMMA TargetsAreNoSources ==
  ASSUME NEW s \in Source
  PROVE  TargetOf[s] \in Target /\ TargetOf[s] \notin Source
BY SizesOK DEF Target

LEMMA MovedGrows ==
  ASSUME NEW order, GoodOrder(order), NEW n \in 0..(N - 1)
  PROVE  /\ order[n + 1] \in Source /\ order[n + 1] \notin Moved(order, n)
         /\ Moved(order, n) \subseteq Source
         /\ Moved(order, n + 1) = Moved(order, n) \cup {order[n + 1]}
<1>1. n \in Nat /\ n + 1 \in 1..N /\ 1..n \subseteq 1..N /\ 1..(n + 1) = (1..n) \cup {n + 1}
      /\ n + 1 \notin 1..n
  BY SizesOK
<1> QED
  BY <1>1 DEF GoodOrder, Moved

(* A replacement exchanges one source for its target and nothing else.     *)
LEMMA ConfigStep ==
  ASSUME NEW order, GoodOrder(order), NEW n \in 0..(N - 1)
  PROVE  LET s == order[n + 1]
         IN  /\ s \in Source
             /\ s \in Config(order, n) /\ TargetOf[s] \notin Config(order, n)
             /\ s \notin Config(order, n + 1) /\ TargetOf[s] \in Config(order, n + 1)
             /\ Config(order, n + 1) = (Config(order, n) \ {s}) \cup {TargetOf[s]}
             /\ Config(order, n) = (Config(order, n + 1) \ {TargetOf[s]}) \cup {s}
<1> DEFINE s == order[n + 1]
           M == Moved(order, n)
<1>1. s \in Source /\ s \notin M /\ M \subseteq Source /\ Moved(order, n + 1) = M \cup {s}
  BY MovedGrows
<1>2. Config(order, n) = (Source \ M) \cup {TargetOf[u] : u \in M}
  BY DEF Config
<1>3. Config(order, n + 1) = (Source \ (M \cup {s})) \cup {TargetOf[u] : u \in M \cup {s}}
  BY <1>1 DEF Config
<1> HIDE DEF s, M
<1>4. \A u \in M : TargetOf[u] # TargetOf[s]
  BY <1>1, TargetsDiffer
<1>5. \A u \in Source : TargetOf[u] \notin Source
  BY TargetsAreNoSources
<1>6. s \in Config(order, n) /\ TargetOf[s] \notin Config(order, n)
      /\ s \notin Config(order, n + 1) /\ TargetOf[s] \in Config(order, n + 1)
  BY <1>1, <1>2, <1>3, <1>4, <1>5
<1>7. {TargetOf[u] : u \in M \cup {s}} = {TargetOf[u] : u \in M} \cup {TargetOf[s]}
  OBVIOUS
<1>8. Config(order, n + 1) = (Config(order, n) \ {s}) \cup {TargetOf[s]}
  BY <1>1, <1>2, <1>3, <1>5, <1>7
<1>9. Config(order, n) = (Config(order, n + 1) \ {TargetOf[s]}) \cup {s}
  BY <1>8, <1>6
<1> QED
  BY <1>1, <1>6, <1>8, <1>9 DEF s

(* Every configuration has as many voters as there were laptops.           *)
LEMMA ConfigSize ==
  ASSUME NEW order, GoodOrder(order), NEW n \in 0..N
  PROVE  /\ Config(order, n) \subseteq Member /\ IsFiniteSet(Config(order, n))
         /\ Cardinality(Config(order, n)) = N
<1> DEFINE M == Moved(order, n)
           C == Config(order, n)
           f == [s \in Source |-> IF s \in M THEN TargetOf[s] ELSE s]
<1>1. M \subseteq Source
  <2>1. 1..n \subseteq 1..N
    BY SizesOK
  <2> QED
    BY <2>1 DEF Moved, GoodOrder
<1>2. C = (Source \ M) \cup {TargetOf[s] : s \in M}
  BY DEF Config
<1>3. \A s \in Source : f[s] = IF s \in M THEN TargetOf[s] ELSE s
  OBVIOUS
<1>4. f \in [Source -> C]
  BY <1>1, <1>2
<1> HIDE DEF f, M, C
<1>5. \A s, t \in Source : f[s] = f[t] => s = t
  BY <1>3, TargetsDiffer, TargetsAreNoSources
<1>6. \A v \in C : \E s \in Source : f[s] = v
  BY <1>1, <1>2, <1>3
<1>7. f \in Bijection(Source, C)
  BY <1>4, <1>5, <1>6 DEF Bijection, Injection, IsInjective, Surjection
<1>8. ExistsBijection(Source, C)
  BY <1>7 DEF ExistsBijection
<1>9. IsFiniteSet(C) /\ Cardinality(C) = N
  BY <1>8, FS_Bijection, SizesOK
<1>10. C \subseteq Member
  BY <1>1, <1>2, TargetsAreNoSources DEF Member
<1> QED
  BY <1>9, <1>10 DEF C

LEMMA ConfigEnds ==
  ASSUME NEW order, GoodOrder(order)
  PROVE  Config(order, 0) = Source /\ Config(order, N) = Target
<1>1. Moved(order, 0) = {} /\ Moved(order, N) = Source
  BY SizesOK DEF Moved, GoodOrder
<1> QED
  BY <1>1, SizesOK DEF Config, Target

-----------------------------------------------------------------------------
(* The action lists.                                                       *)

(* Where in Actions(s) the voter is replaced: the transfers come before.   *)
JointAt(fiducia, jetstream, s) ==
  9 + (IF s \in jetstream THEN 1 ELSE 0) + (IF s = fiducia THEN 1 ELSE 0)

(* Kinds that only ask for something, or that touch the lease.             *)
QuietKinds ==
  {"acquire_membership_change_lease", "verify_fresh_global_evidence",
   "provision_target_prerequisites", "add_jetstream_replica",
   "wait_jetstream_replica_catchup", "verify_outbox_replay_fencing_and_idempotency",
   "transfer_jetstream_leadership", "release_membership_change_lease",
   "remove_target_jetstream_replica", "readd_source_as_jetstream_replica",
   "wait_source_jetstream_catchup"}

ForwardKind(i, j, f, s) ==
  CASE i = 4 -> {"add_fiducia_learner"}
    [] i = 5 -> {"wait_fiducia_learner_catchup"}
    [] i = j - 1 /\ s = f -> {"transfer_fiducia_leadership"}
    [] i = j -> {"joint_consensus_replace_voter"}
    [] i = j + 1 -> {"verify_stable_membership"}
    [] i = j + 2 -> {"promote_stateless_traffic"}
    [] i = j + 3 -> {"start_rollback_window"}
    [] OTHER -> QuietKinds

LEMMA ForwardList ==
  ASSUME NEW s
  PROVE  LET j == JointAt(fiduciaLeader, jetstreamLeaders, s)
         IN  /\ j \in 9..11 /\ Len(Actions(s)) = j + 4
             /\ \A i \in 1..(j + 4) :
                  /\ Actions(s)[i].from = s /\ Actions(s)[i].to = TargetOf[s]
                  /\ Actions(s)[i].kind \in ForwardKind(i, j, fiduciaLeader, s)
<1>1. CASE s \in jetstreamLeaders /\ s = fiduciaLeader
  BY <1>1 DEF JointAt, Actions, Do, ForwardKind, QuietKinds
<1>2. CASE s \in jetstreamLeaders /\ s # fiduciaLeader
  BY <1>2 DEF JointAt, Actions, Do, ForwardKind, QuietKinds
<1>3. CASE s \notin jetstreamLeaders /\ s = fiduciaLeader
  BY <1>3 DEF JointAt, Actions, Do, ForwardKind, QuietKinds
<1>4. CASE s \notin jetstreamLeaders /\ s # fiduciaLeader
  BY <1>4 DEF JointAt, Actions, Do, ForwardKind, QuietKinds
<1> QED
  BY <1>1, <1>2, <1>3, <1>4

-----------------------------------------------------------------------------
(* Which plans simulateMigrationPlan refuses: validateMigrationSpec takes  *)
(* every odd minimum_stable_voters from three on, but a plan made by       *)
(* buildMigrationPlan passes the rehearsal, the exercise of its first      *)
(* rollback included, when it replaces three voters and never otherwise,   *)
(* whoever was observed to lead and however the policy orders the sources. *)
THEOREM PlansRehearse ==
  ASSUME replacements = Ordered
  PROVE  Rehearses <=> N = 3
<1>1. GoodOrder(replacements)
  BY OrderedIsGood
<1>2. StableVoters(0) = Source /\ StableVoters(N) = Target
  BY <1>1, StableVotersAreConfig, ConfigEnds
<1>3. ASSUME NEW n \in 1..N, NEW s, s = replacements[n],
             NEW before, before = StableVoters(n - 1), NEW after, after = StableVoters(n)
      PROVE  /\ s \in before /\ TargetOf[s] \notin before
             /\ after = (before \ {s}) \cup {TargetOf[s]}
             /\ Cardinality(before) = N /\ Cardinality(after) = N
             /\ Cardinality(before \cup after) = N + 1
             /\ SurvivesAnyOneFailure(after) /\ (n = 1 => RollbackExercise)
  <2>1. n - 1 \in 0..(N - 1) /\ n - 1 \in 0..N /\ n \in 0..N /\ (n - 1) + 1 = n
    BY SizesOK
  <2>2. before = Config(replacements, n - 1) /\ after = Config(replacements, n)
    BY <1>3, StableVotersAreConfig
  <2>3. /\ s \in before /\ TargetOf[s] \notin before
        /\ after = (before \ {s}) \cup {TargetOf[s]} /\ before = (after \ {TargetOf[s]}) \cup {s}
    BY <1>1, <1>3, <2>1, <2>2, ConfigStep
  <2>4. IsFiniteSet(before) /\ IsFiniteSet(after) /\ Cardinality(before) = N /\ Cardinality(after) = N
    BY <1>1, <2>1, <2>2, ConfigSize
  <2>5. before \cup after = before \cup {TargetOf[s]}
    BY <2>3
  <2>6. Cardinality(before \cup after) = N + 1
    BY <2>3, <2>4, <2>5, FS_AddElement
  <2>7. ASSUME NEW stable \in {before, after}
        PROVE  SurvivesAnyOneFailure(stable)
    <3>1. \A v \in stable : Cardinality(stable \ {v}) = N - 1
      BY <2>4, FS_RemoveElement
    <3> QED
      BY <3>1, SizesOK DEF SurvivesAnyOneFailure, Quorum
  <2>8. n = 1 => RollbackExercise
    <3>1. SUFFICES ASSUME n = 1
                   PROVE  before = (after \ {TargetOf[s]}) \cup {s} /\ SurvivesAnyOneFailure(before)
      BY <1>3 DEF RollbackExercise
    <3> QED
      BY <2>3, <2>7
  <2> QED
    BY <2>3, <2>4, <2>6, <2>7, <2>8
<1>4. ASSUME NEW s
      PROVE  LearnsFirst(s)
  <2> DEFINE j == JointAt(fiduciaLeader, jetstreamLeaders, s)
  <2>1. j \in 9..11 /\ Len(Actions(s)) = j + 4
    BY ForwardList
  <2>2. \A i \in 1..(j + 4) : Actions(s)[i].kind \in ForwardKind(i, j, fiduciaLeader, s)
    BY ForwardList
  <2>3. 4 \in 1..(j + 4) /\ 5 \in 1..(j + 4) /\ j \in 1..(j + 4) /\ 4 < 5 /\ 5 < j /\ 4 # j - 1 /\ 5 # j - 1
    BY <2>1
  <2>4. DOMAIN Actions(s) = 1..(j + 4)
    BY <2>1 DEF Actions
  <2> HIDE DEF j
  <2>5. /\ Actions(s)[4].kind = "add_fiducia_learner"
        /\ Actions(s)[5].kind = "wait_fiducia_learner_catchup"
        /\ Actions(s)[j].kind = "joint_consensus_replace_voter"
    BY <2>2, <2>3 DEF ForwardKind
  <2> QED
    BY <2>3, <2>4, <2>5 DEF LearnsFirst
<1>5. CASE N = 3
  <2>1. ASSUME NEW n \in 1..N
        PROVE  LET s == replacements[n]
                   before == StableVoters(n - 1)
                   after == StableVoters(n)
               IN  /\ s \in before /\ TargetOf[s] \notin before
                   /\ LearnsFirst(s)
                   /\ Cardinality(before) = 3 /\ Cardinality(after) = 3
                   /\ Cardinality(before \cup after) = 4
                   /\ after = (before \ {s}) \cup {TargetOf[s]}
                   /\ Cardinality(after) = N /\ SurvivesAnyOneFailure(after)
                   /\ n = 1 => RollbackExercise
    <3>1. PICK s, before, after :
            s = replacements[n] /\ before = StableVoters(n - 1) /\ after = StableVoters(n)
      OBVIOUS
    <3>2. /\ s \in before /\ TargetOf[s] \notin before
          /\ after = (before \ {s}) \cup {TargetOf[s]}
          /\ Cardinality(before) = N /\ Cardinality(after) = N
          /\ Cardinality(before \cup after) = N + 1
          /\ SurvivesAnyOneFailure(after) /\ (n = 1 => RollbackExercise)
      BY <1>3, <3>1
    <3> QED
      BY <1>4, <1>5, <3>1, <3>2
  <2> QED
    BY <1>2, <1>5, <2>1 DEF Rehearses
<1>6. ASSUME Rehearses
      PROVE  N = 3
  <2>1. 1 \in 1..N
    BY SizesOK
  <2>2. Cardinality(StableVoters(1)) = 3
    BY <1>6, <2>1 DEF Rehearses
  <2>3. Cardinality(StableVoters(1)) = N
    BY <1>3, <2>1
  <2> QED
    BY <2>2, <2>3
<1> QED
  BY <1>5, <1>6

-----------------------------------------------------------------------------
(* The plan carried out: its inductive invariant.                          *)
PlanIsGood ==
  /\ GoodOrder(replacements)
  /\ fiduciaLeader \in Source /\ replacements[N] = fiduciaLeader

SlotAt == JointAt(fiduciaLeader, jetstreamLeaders, Slot)
SlotTarget == TargetOf[Slot]

(* A slot's traffic is with its laptop or its cloud member, and outside    *)
(* the slot under way with the one that votes.                             *)
ServesItself == \A x \in Source : serving[x] \in {x, TargetOf[x]}
OthersServed == \A x \in Source \ {Slot} : serving[x] \in voters
AllServed == \A x \in Source : serving[x] \in voters

Idle == mode \in {"rest", "cutover", "done"}

(* Where the group stands at each action of each list.                     *)
Settled ==
  Idle =>
    /\ voters = Config(replacements, completed) /\ learners = {} /\ AllServed
    /\ mode = "rest" => pc = 1
    /\ mode = "cutover" => pc \in 1..5
    /\ mode # "rest" => completed = N

Forward ==
  mode = "forward" =>
    /\ completed < N /\ pc \in 1..(SlotAt + 4)
    /\ pc <= SlotAt =>
         /\ voters = Config(replacements, completed) /\ AllServed
         /\ learners = IF pc > 4 THEN {SlotTarget} ELSE {}
         /\ pc > 5 => SlotTarget \in caughtUp
    /\ pc > SlotAt =>
         /\ voters = Config(replacements, completed + 1) /\ OthersServed
         /\ learners = {}
         /\ pc > SlotAt + 2 => serving[Slot] = SlotTarget

Before ==
  mode = "before" =>
    /\ completed < N /\ pc \in 1..4
    /\ voters = Config(replacements, completed) /\ AllServed
    /\ learners \subseteq {SlotTarget}
    /\ pc > 2 => learners = {}

After ==
  mode = "after" =>
    /\ completed < N /\ pc \in 1..6
    /\ OthersServed
    /\ pc <= 5 =>
         /\ voters = Config(replacements, completed + 1)
         /\ learners = IF pc > 1 THEN {Slot} ELSE {}
         /\ pc > 2 => Slot \in caughtUp
    /\ pc = 6 => voters = Config(replacements, completed) /\ learners = {}

(* The soak outlasts every window, and trust goes after the soak.          *)
WindowsClosed == \A x \in Source : age[x] = RollbackWindow

Windows ==
  /\ mode = "cutover" /\ pc = 2 => \A x \in Source : age[x] >= soaked
  /\ mode = "cutover" /\ pc > 2 => WindowsClosed
  /\ ~trusted => Idle /\ completed = N /\ WindowsClosed

(* A leader the plan knows of is the observed one or a cloud member.       *)
Leads ==
  ~elected =>
    /\ leader = fiduciaLeader \/ leader \in Target
    /\ mode = "forward" /\ pc = SlotAt /\ Slot = fiduciaLeader => leader # fiduciaLeader

IInv ==
  /\ TypeOK /\ PlanIsGood /\ ServesItself
  /\ Settled /\ Forward /\ Before /\ After
  /\ VotersAreCaughtUp /\ Windows /\ Leads

-----------------------------------------------------------------------------
LEMMA PlanFacts ==
  ASSUME IInv
  PROVE  /\ completed \in 0..N
         /\ completed < N => completed \in 0..(N - 1) /\ Slot \in Source
         /\ SlotAt \in 9..11
BY SizesOK DEF IInv, TypeOK, PlanIsGood, GoodOrder, Slot, SlotAt, JointAt

LEMMA InitIInv ==
  ASSUME Init
  PROVE  IInv
<1>1. GoodOrder(replacements) /\ replacements[N] = fiduciaLeader
  BY OrderedIsGood DEF Init
<1>2. Config(replacements, 0) = Source
  BY <1>1, ConfigEnds
<1>3. TypeOK
  <2>1. replacements \in [1..N -> Source]
    BY <1>1 DEF GoodOrder
  <2>2. age \in [Source -> 0..RollbackWindow] /\ soaked \in 0..RollbackWindow
    BY SizesOK DEF Init
  <2>3. serving \in [Source -> Member] /\ voters \subseteq Member /\ Cardinality(voters) = N
    BY SizesOK DEF Init, Member
  <2>4. completed \in 0..N /\ troubles \in 0..MaxTroubles /\ pc \in Nat
    BY SizesOK, PlanConstantsOK DEF Init
  <2> QED
    BY <2>1, <2>2, <2>3, <2>4 DEF Init, TypeOK, Member
<1>4. PlanIsGood /\ ServesItself /\ VotersAreCaughtUp /\ Windows /\ Leads
  BY <1>1 DEF Init, PlanIsGood, ServesItself, VotersAreCaughtUp, Windows, Leads
<1>5. Settled /\ Forward /\ Before /\ After
  BY <1>2 DEF Init, Settled, Idle, AllServed, Forward, Before, After
<1> QED
  BY <1>3, <1>4, <1>5 DEF IInv

(* What one action of a list changes, by its kind.                         *)
Does(k, f, t) ==
  /\ Permits(k) /\ ServesAfter(k) /\ StartsTimers(k)
  /\ Replicates(k, f, t) /\ Reconfigures(k, f, t)

group == <<voters, learners, leader, caughtUp, elected>>

LEMMA KindEffects ==
  ASSUME NEW k, NEW f, NEW t, Does(k, f, t)
  PROVE  /\ k \in QuietKinds \cup {"verify_stable_membership", "switch_target_only_connectivity",
                                   "complete_full_public_traffic_soak",
                                   "revoke_laptop_trust_and_access",
                                   "securely_wipe_retired_laptops"}
              => UNCHANGED <<group, serving, time>>
         /\ k \in AddsLearner =>
              /\ learners' = learners \cup {t}
              /\ UNCHANGED <<voters, leader, caughtUp, elected, serving, time>>
         /\ k \in AwaitsLearner =>
              /\ t \in learners /\ caughtUp' = caughtUp \cup {t}
              /\ UNCHANGED <<voters, learners, leader, elected, serving, time>>
         /\ k = "remove_target_fiducia_learner" =>
              /\ learners' = learners \ {t} /\ caughtUp' = caughtUp \ {t}
              /\ UNCHANGED <<voters, leader, elected, serving, time>>
         /\ k = "transfer_fiducia_leadership" =>
              /\ leader = f => leader' \in voters \ {f}
              /\ leader # f => leader' = leader
              /\ UNCHANGED <<voters, learners, caughtUp, elected, serving, time>>
         /\ k = "joint_consensus_replace_voter" =>
              /\ t \in learners /\ voters' = NewConfig
              /\ learners' = learners \ {t} /\ caughtUp' = caughtUp \ {f}
              /\ leader' \in NewConfig
              /\ leader \in NewConfig => leader' = leader /\ elected' = elected
              /\ leader \notin NewConfig => elected'
              /\ UNCHANGED <<serving, time>>
         /\ k = "promote_stateless_traffic" =>
              /\ serving' = [serving EXCEPT ![Slot] = TargetOf[Slot]]
              /\ UNCHANGED <<group, time>>
         /\ k = "restore_source_public_weight" =>
              /\ serving' = [serving EXCEPT ![Slot] = Slot]
              /\ UNCHANGED <<group, time>>
         /\ k = "start_rollback_window" =>
              /\ age' = [age EXCEPT ![Slot] = 0]
              /\ UNCHANGED <<group, serving, soaked>>
         /\ k = "verify_all_target_voters_stable" =>
              /\ soaked' = 0
              /\ UNCHANGED <<group, serving, age>>
BY DEF Does, ServesAfter, StartsTimers, Replicates, Reconfigures, QuietKinds,
       AddsLearner, AwaitsLearner, group, time

(* A step of a list does one of its actions and goes on to the next one,   *)
(* or ends the list.                                                       *)
LEMMA StepDoes ==
  ASSUME Step, trusted \in BOOLEAN
  PROVE  /\ mode \notin {"rest", "done"}
         /\ Does(List[pc].kind, List[pc].from, List[pc].to)
         /\ List[pc].kind # "revoke_laptop_trust_and_access" => trusted' = trusted
         /\ trusted => trusted' \/ List[pc].kind = "revoke_laptop_trust_and_access"
         /\ trusted' \in BOOLEAN
         /\ pc < Len(List) => pc' = pc + 1 /\ mode' = mode /\ completed' = completed
         /\ ~(pc < Len(List)) => /\ mode' = IF mode = "cutover" THEN "done" ELSE "rest"
                                 /\ pc' = 1
                                 /\ completed' = IF mode = "forward" THEN completed + 1 ELSE completed
         /\ UNCHANGED <<plan, troubles>>
         /\ leased' \in {TRUE, FALSE, leased}
<1>1. trusted' = (trusted /\ List[pc].kind # "revoke_laptop_trust_and_access")
  BY DEF Step
<1>2. /\ List[pc].kind # "revoke_laptop_trust_and_access" => trusted' = trusted
      /\ trusted => trusted' \/ List[pc].kind = "revoke_laptop_trust_and_access"
      /\ trusted' \in BOOLEAN
  <2>1. CASE trusted = TRUE
    BY <1>1, <2>1, Zenon
  <2>2. CASE trusted = FALSE
    BY <1>1, <2>2, Zenon
  <2> QED
    BY <2>1, <2>2
<1> QED
  BY <1>2 DEF Step, Does, Leases

LEMMA ForwardEffects ==
  ASSUME IInv, Step, mode = "forward"
  PROVE  /\ UNCHANGED <<plan, troubles, trusted, soaked>>
         /\ age' = IF pc = SlotAt + 3 THEN [age EXCEPT ![Slot] = 0] ELSE age
         /\ learners' = IF pc = 4 THEN learners \cup {SlotTarget}
                        ELSE IF pc = SlotAt THEN learners \ {SlotTarget} ELSE learners
         /\ caughtUp' = IF pc = 5 THEN caughtUp \cup {SlotTarget}
                        ELSE IF pc = SlotAt THEN caughtUp \ {Slot} ELSE caughtUp
         /\ voters' = IF pc = SlotAt THEN Config(replacements, completed + 1) ELSE voters
         /\ serving' = IF pc = SlotAt + 2 THEN [serving EXCEPT ![Slot] = SlotTarget] ELSE serving
         /\ pc = SlotAt => /\ leader' \in voters'
                           /\ leader \in voters' => leader' = leader /\ elected' = elected
                           /\ leader \notin voters' => elected'
         /\ pc # SlotAt =>
              /\ elected' = elected
              /\ leader' = leader \/ (Slot = fiduciaLeader /\ leader' \in voters \ {Slot})
         /\ pc = SlotAt - 1 /\ Slot = fiduciaLeader => leader' # Slot
         /\ IF pc < SlotAt + 4 THEN pc' = pc + 1 /\ mode' = mode /\ completed' = completed
            ELSE pc' = 1 /\ mode' = "rest" /\ completed' = completed + 1
<1> DEFINE s == Slot
           j == SlotAt
           a == Actions(s)[pc]
<1>1. j \in 9..11 /\ pc \in 1..(j + 4) /\ Slot \in Source
  BY PlanFacts DEF IInv, Forward
<1>2. List = Actions(s) /\ List[pc] = a
  BY DEF List
<1>3. /\ Len(Actions(s)) = j + 4 /\ a.from = s /\ a.to = TargetOf[s]
      /\ a.kind \in ForwardKind(pc, j, fiduciaLeader, s)
  BY <1>1, ForwardList DEF SlotAt
<1>4. NewConfig = Config(replacements, completed + 1)
  BY StableVotersAreConfig DEF NewConfig
<1>5. /\ Does(a.kind, s, TargetOf[s]) /\ UNCHANGED <<plan, troubles>>
      /\ a.kind # "revoke_laptop_trust_and_access" => trusted' = trusted
      /\ pc < j + 4 => pc' = pc + 1 /\ mode' = mode /\ completed' = completed
      /\ ~(pc < j + 4) => mode' = "rest" /\ pc' = 1 /\ completed' = completed + 1
  <2> HIDE DEF a
  <2> QED
    BY <1>2, <1>3, StepDoes DEF IInv, TypeOK
<1> HIDE DEF s, j, a
<1>6. trusted' = trusted
  <2>1. a.kind # "revoke_laptop_trust_and_access"
    BY <1>3 DEF ForwardKind, QuietKinds
  <2> QED
    BY <2>1, <1>5
<1>7. CASE pc = 4
  <2>1. a.kind = "add_fiducia_learner"
    BY <1>1, <1>3, <1>7 DEF ForwardKind
  <2>2. learners' = learners \cup {TargetOf[s]} /\ UNCHANGED <<voters, leader, caughtUp, elected, serving, time>>
    BY <2>1, <1>5, KindEffects DEF AddsLearner
  <2> QED
    BY <1>1, <1>5, <1>6, <1>7, <2>2 DEF s, j, time, SlotTarget
<1>8. CASE pc = 5
  <2>1. a.kind = "wait_fiducia_learner_catchup"
    BY <1>1, <1>3, <1>8 DEF ForwardKind
  <2>2. caughtUp' = caughtUp \cup {TargetOf[s]} /\ UNCHANGED <<voters, learners, leader, elected, serving, time>>
    BY <2>1, <1>5, KindEffects DEF AwaitsLearner
  <2> QED
    BY <1>1, <1>5, <1>6, <1>8, <2>2 DEF s, j, time, SlotTarget
<1>9. CASE pc = j - 1 /\ s = fiduciaLeader
  <2>1. a.kind = "transfer_fiducia_leadership"
    BY <1>1, <1>3, <1>9 DEF ForwardKind
  <2>2. /\ leader = s => leader' \in voters \ {s}
        /\ leader # s => leader' = leader
        /\ UNCHANGED <<voters, learners, caughtUp, elected, serving, time>>
    BY <2>1, <1>5, KindEffects
  <2> QED
    BY <1>1, <1>5, <1>6, <1>9, <2>2 DEF s, j, time, SlotTarget
<1>10. CASE pc = j
  <2>1. a.kind = "joint_consensus_replace_voter"
    BY <1>1, <1>3, <1>10 DEF ForwardKind
  <2>2. /\ voters' = Config(replacements, completed + 1)
        /\ learners' = learners \ {TargetOf[s]} /\ caughtUp' = caughtUp \ {s}
        /\ leader' \in voters'
        /\ leader \in voters' => leader' = leader /\ elected' = elected
        /\ leader \notin voters' => elected'
        /\ UNCHANGED <<serving, time>>
    BY <2>1, <1>4, <1>5, KindEffects
  <2> QED
    BY <1>1, <1>5, <1>6, <1>10, <2>2 DEF s, j, time, SlotTarget
<1>11. CASE pc = j + 1
  <2>1. a.kind = "verify_stable_membership"
    BY <1>1, <1>3, <1>11 DEF ForwardKind
  <2>2. UNCHANGED <<group, serving, time>>
    BY <2>1, <1>5, KindEffects
  <2> QED
    BY <1>1, <1>5, <1>6, <1>11, <2>2 DEF s, j, time, group, SlotTarget
<1>12. CASE pc = j + 2
  <2>1. a.kind = "promote_stateless_traffic"
    BY <1>1, <1>3, <1>12 DEF ForwardKind
  <2>2. serving' = [serving EXCEPT ![Slot] = TargetOf[Slot]] /\ UNCHANGED <<group, time>>
    BY <2>1, <1>5, KindEffects
  <2> QED
    BY <1>1, <1>5, <1>6, <1>12, <2>2 DEF s, j, time, group, SlotTarget
<1>13. CASE pc = j + 3
  <2>1. a.kind = "start_rollback_window"
    BY <1>1, <1>3, <1>13 DEF ForwardKind
  <2>2. age' = [age EXCEPT ![Slot] = 0] /\ UNCHANGED <<group, serving, soaked>>
    BY <2>1, <1>5, KindEffects
  <2> QED
    BY <1>1, <1>5, <1>6, <1>13, <2>2 DEF s, j, group, SlotTarget
<1>14. CASE pc \notin {4, 5, j, j + 1, j + 2, j + 3} /\ ~(pc = j - 1 /\ s = fiduciaLeader)
  <2>1. a.kind \in QuietKinds
    BY <1>1, <1>3, <1>14 DEF ForwardKind
  <2>2. UNCHANGED <<group, serving, time>>
    BY <2>1, <1>5, KindEffects
  <2> QED
    BY <1>1, <1>5, <1>6, <1>14, <2>2 DEF s, j, time, group, SlotTarget
<1> QED
  BY <1>7, <1>8, <1>9, <1>10, <1>11, <1>12, <1>13, <1>14

LEMMA ForwardStep ==
  ASSUME IInv, Step, mode = "forward"
  PROVE  IInv'
<1> DEFINE s == Slot
           T == SlotTarget
           j == SlotAt
           old == Config(replacements, completed)
           new == Config(replacements, completed + 1)
<1>1. /\ j \in 9..11 /\ pc \in 1..(j + 4) /\ s \in Source /\ completed \in 0..(N - 1)
      /\ N \in Nat /\ T = TargetOf[s]
  BY PlanFacts, SizesOK DEF IInv, Forward, SlotTarget
<1>2. /\ pc <= j => /\ voters = old /\ AllServed
                    /\ learners = IF pc > 4 THEN {T} ELSE {}
                    /\ pc > 5 => T \in caughtUp
      /\ pc > j => /\ voters = new /\ OthersServed /\ learners = {}
                   /\ pc > j + 2 => serving[s] = T
  BY DEF IInv, Forward
<1>3. /\ s \in old /\ T \notin old /\ s \notin new /\ T \in new
      /\ new = (old \ {s}) \cup {T}
      /\ s = replacements[completed + 1]
  <2>1. GoodOrder(replacements)
    BY DEF IInv, PlanIsGood
  <2> QED
    BY <1>1, <2>1, ConfigStep DEF Slot
<1>4. /\ old \subseteq Member /\ Cardinality(old) = N
      /\ new \subseteq Member /\ Cardinality(new) = N
  <2>1. GoodOrder(replacements) /\ completed \in 0..N /\ completed + 1 \in 0..N
    BY <1>1 DEF IInv, PlanIsGood
  <2> QED
    BY <2>1, ConfigSize
<1>5. T \in Member /\ T \in Target /\ T \notin Source /\ s \in Member
  BY <1>1, TargetsAreNoSources DEF Member
<1>6. /\ UNCHANGED <<plan, troubles, trusted, soaked>>
      /\ age' = IF pc = j + 3 THEN [age EXCEPT ![s] = 0] ELSE age
      /\ learners' = IF pc = 4 THEN learners \cup {T}
                     ELSE IF pc = j THEN learners \ {T} ELSE learners
      /\ caughtUp' = IF pc = 5 THEN caughtUp \cup {T}
                     ELSE IF pc = j THEN caughtUp \ {s} ELSE caughtUp
      /\ voters' = IF pc = j THEN new ELSE voters
      /\ serving' = IF pc = j + 2 THEN [serving EXCEPT ![s] = T] ELSE serving
      /\ pc = j => /\ leader' \in voters'
                   /\ leader \in voters' => leader' = leader /\ elected' = elected
                   /\ leader \notin voters' => elected'
      /\ pc # j => /\ elected' = elected
                   /\ leader' = leader \/ (s = fiduciaLeader /\ leader' \in voters \ {s})
      /\ pc = j - 1 /\ s = fiduciaLeader => leader' # s
      /\ IF pc < j + 4 THEN pc' = pc + 1 /\ mode' = mode /\ completed' = completed
         ELSE pc' = 1 /\ mode' = "rest" /\ completed' = completed + 1
  BY ForwardEffects
<1>7. pc < j + 4 => /\ Slot' = s /\ SlotAt' = j /\ SlotTarget' = T
  BY <1>6 DEF Slot, SlotAt, SlotTarget, plan
<1>8. /\ TypeOK /\ PlanIsGood /\ ServesItself /\ VotersAreCaughtUp /\ Windows /\ Leads
  BY DEF IInv
<1>9. leased' \in BOOLEAN /\ elected' \in BOOLEAN /\ trusted' \in BOOLEAN
  <2>1. leased \in BOOLEAN /\ elected \in BOOLEAN /\ trusted \in BOOLEAN
    BY <1>8 DEF TypeOK
  <2>2. leased' \in {TRUE, FALSE, leased}
    BY <2>1, StepDoes
  <2>3. elected' \in BOOLEAN
    <3>1. CASE elected' = elected
      BY <2>1, <3>1
    <3>2. CASE pc = j /\ leader \notin voters'
      BY <3>2, <1>6
    <3> QED
      BY <3>1, <3>2, <1>6
  <2> QED
    BY <1>6, <2>1, <2>2, <2>3
<1> HIDE DEF s, T, j, old, new
<1>10. TypeOK'
  <2>1. voters' \subseteq Member /\ Cardinality(voters') = N
    BY <1>2, <1>4, <1>6, <1>1
  <2>2. learners' \subseteq Member \ voters'
    BY <1>1, <1>2, <1>3, <1>5, <1>6
  <2>3. leader' \in voters'
    BY <1>6, <1>8 DEF TypeOK
  <2>4. caughtUp' \subseteq Member
    BY <1>5, <1>6, <1>8 DEF TypeOK
  <2>5. serving' \in [Source -> Member]
    BY <1>1, <1>5, <1>6, <1>8 DEF TypeOK
  <2>6. age' \in [Source -> 0..RollbackWindow]
    <3>1. 0 \in 0..RollbackWindow
      BY SizesOK
    <3> QED
      BY <3>1, <1>1, <1>6, <1>8 DEF TypeOK
  <2>7. mode' \in {"rest", "forward", "before", "after", "cutover", "done"} /\ pc' \in Nat
        /\ completed' \in 0..N
    BY <1>1, <1>6, <1>8 DEF TypeOK
  <2>8. fiduciaLeader' = fiduciaLeader /\ jetstreamLeaders' = jetstreamLeaders
        /\ replacements' = replacements /\ troubles' = troubles /\ soaked' = soaked
    BY <1>6 DEF plan
  <2> QED
    BY <2>1, <2>2, <2>3, <2>4, <2>5, <2>6, <2>7, <2>8, <1>8, <1>9 DEF TypeOK
<1>11. PlanIsGood' /\ ServesItself'
  <2>1. PlanIsGood'
    BY <1>6, <1>8 DEF plan, PlanIsGood, GoodOrder
  <2>2. serving \in [Source -> Member]
    BY <1>8 DEF TypeOK
  <2>3. ServesItself'
    BY <1>1, <1>6, <1>8, <2>2 DEF ServesItself
  <2> QED
    BY <2>1, <2>3
<1>12. Settled'
  <2>1. CASE pc < j + 4
    BY <2>1, <1>6 DEF Settled, Idle
  <2>2. CASE ~(pc < j + 4)
    <3>1. /\ pc > j /\ pc > j + 2 /\ pc # j /\ pc # 4 /\ pc # j + 2
      BY <2>2, <1>1
    <3>2. voters' = voters /\ serving' = serving /\ learners' = learners
          /\ replacements' = replacements /\ completed' = completed + 1 /\ mode' = "rest" /\ pc' = 1
      BY <2>2, <3>1, <1>6 DEF plan
    <3>3. AllServed'
      BY <3>1, <3>2, <1>2, <1>3 DEF AllServed, OthersServed, s
    <3> QED
      BY <3>1, <3>2, <3>3, <1>2 DEF Settled, new
  <2> QED
    BY <2>1, <2>2
<1>13. Forward'
  <2>1. CASE pc < j + 4
    <3>1. completed' < N /\ pc' \in 1..(j + 4) /\ pc' = pc + 1
      BY <2>1, <1>1, <1>6
    <3>2. Config(replacements', completed') = old /\ Config(replacements', completed' + 1) = new
      BY <2>1, <1>6 DEF plan, old, new
    <3>3. CASE pc < j
      <4>1. voters' = old /\ serving' = serving
        BY <3>3, <1>1, <1>2, <1>6
      <4>2. AllServed'
        BY <3>3, <4>1, <1>1, <1>2 DEF AllServed
      <4>3. learners' = IF pc' > 4 THEN {T} ELSE {}
        BY <3>1, <3>3, <1>1, <1>2, <1>6
      <4>4. pc' > 5 => T \in caughtUp'
        BY <3>1, <3>3, <1>1, <1>2, <1>6
      <4> QED
        BY <2>1, <3>1, <3>2, <3>3, <4>1, <4>2, <4>3, <4>4, <1>1, <1>7 DEF Forward
    <3>4. CASE pc = j
      <4>1. voters' = new /\ learners' = {} /\ serving' = serving
        BY <3>4, <1>1, <1>2, <1>6
      <4>2. OthersServed'
        <5> SUFFICES ASSUME NEW x \in Source, x # s PROVE serving'[x] \in voters'
          BY <2>1, <1>7 DEF OthersServed
        <5>1. serving[x] \in voters /\ serving[x] \in {x, TargetOf[x]}
          BY <3>4, <1>1, <1>2, <1>8 DEF AllServed, ServesItself
        <5>2. serving[x] # s
          BY <5>1, <1>1, TargetsAreNoSources
        <5> QED
          BY <3>4, <4>1, <5>1, <5>2, <1>1, <1>2, <1>3
      <4> QED
        BY <2>1, <3>1, <3>2, <3>4, <4>1, <4>2, <1>1, <1>7 DEF Forward
    <3>5. CASE pc > j
      <4>1. voters' = new /\ learners' = {}
        BY <3>5, <1>1, <1>2, <1>6
      <4>2. serving \in [Source -> Member]
        BY <1>8 DEF TypeOK
      <4>3. OthersServed'
        BY <2>1, <3>5, <4>1, <4>2, <1>1, <1>2, <1>6, <1>7 DEF OthersServed, s
      <4>4. pc' > j + 2 => serving'[s] = T
        BY <3>1, <3>5, <4>2, <1>1, <1>2, <1>6
      <4> QED
        BY <2>1, <3>1, <3>2, <3>5, <4>1, <4>3, <4>4, <1>1, <1>7 DEF Forward
    <3> QED
      BY <3>3, <3>4, <3>5, <1>1
  <2>2. CASE ~(pc < j + 4)
    BY <2>2, <1>6 DEF Forward
  <2> QED
    BY <2>1, <2>2
<1>14. Before' /\ After'
  BY <1>6 DEF Before, After
<1>15. VotersAreCaughtUp'
  <2>1. CASE pc = j
    BY <2>1, <1>1, <1>2, <1>3, <1>6, <1>8 DEF VotersAreCaughtUp
  <2>2. CASE pc # j
    BY <2>2, <1>6, <1>8 DEF VotersAreCaughtUp
  <2> QED
    BY <2>1, <2>2
<1>16. Windows'
  <2>1. trusted /\ trusted' = trusted
    BY <1>6, <1>8 DEF Windows, Idle
  <2> QED
    BY <2>1, <1>6 DEF Windows
<1>17. Leads'
  <2>1. replacements' = replacements /\ fiduciaLeader' = fiduciaLeader
    BY <1>6 DEF plan
  <2>2. ASSUME s = fiduciaLeader PROVE old \ {s} \subseteq Target
    <3>1. completed + 1 = N
      BY <2>2, <1>1, <1>3, <1>8 DEF PlanIsGood, GoodOrder
    <3>2. new = Target
      BY <3>1, <1>8, ConfigEnds DEF PlanIsGood, new
    <3> QED
      BY <3>2, <1>3
  <2>3. ASSUME ~elected' PROVE leader' = fiduciaLeader \/ leader' \in Target
    <3>1. CASE pc = j
      BY <3>1, <2>3, <1>6, <1>8 DEF Leads
    <3>2. CASE pc # j /\ leader' = leader
      BY <3>2, <2>3, <1>6, <1>8 DEF Leads
    <3>3. CASE pc # j /\ s = fiduciaLeader /\ leader' \in voters \ {s}
      <4>1. CASE voters = old
        BY <3>3, <4>1, <2>2
      <4>2. CASE voters = new
        BY <3>3, <4>2, <2>2, <1>3, <1>5
      <4> QED
        BY <4>1, <4>2, <1>1, <1>2
    <3> QED
      BY <3>1, <3>2, <3>3, <1>6
  <2>4. ASSUME pc' = SlotAt', mode' = "forward", Slot' = fiduciaLeader'
        PROVE  leader' # fiduciaLeader
    <3>1. pc < j + 4
      BY <2>4, <1>6
    <3>2. pc = j - 1 /\ s = fiduciaLeader
      BY <3>1, <2>1, <2>4, <1>1, <1>6, <1>7
    <3> QED
      BY <3>2, <1>6
  <2> QED
    BY <2>1, <2>3, <2>4 DEF Leads
<1> QED
  BY <1>10, <1>11, <1>12, <1>13, <1>14, <1>15, <1>16, <1>17 DEF IInv

(* The four actions that undo a replacement whose voter has not changed.   *)
LEMMA BeforeEffects ==
  ASSUME IInv, Step, mode = "before"
  PROVE  /\ UNCHANGED <<plan, troubles, trusted, time, voters, leader, elected>>
         /\ learners' = IF pc = 2 THEN learners \ {SlotTarget} ELSE learners
         /\ caughtUp' = IF pc = 2 THEN caughtUp \ {SlotTarget} ELSE caughtUp
         /\ serving' = IF pc = 3 THEN [serving EXCEPT ![Slot] = Slot] ELSE serving
         /\ completed' = completed
         /\ IF pc < 4 THEN pc' = pc + 1 /\ mode' = mode ELSE pc' = 1 /\ mode' = "rest"
<1> DEFINE a == List[pc]
<1>1. pc \in 1..4
  BY DEF IInv, Before
<1>2. /\ Len(List) = 4 /\ a.from = Slot /\ a.to = SlotTarget
      /\ a.kind = CASE pc = 1 -> "remove_target_jetstream_replica"
                    [] pc = 2 -> "remove_target_fiducia_learner"
                    [] pc = 3 -> "restore_source_public_weight"
                    [] pc = 4 -> "release_membership_change_lease"
  BY <1>1 DEF List, RollbackBefore, Do, SlotTarget
<1>3. trusted \in BOOLEAN
  BY DEF IInv, TypeOK
<1> HIDE DEF a
<1>4. /\ Does(a.kind, Slot, SlotTarget) /\ UNCHANGED <<plan, troubles>>
      /\ a.kind # "revoke_laptop_trust_and_access" => trusted' = trusted
      /\ completed' = completed
      /\ IF pc < 4 THEN pc' = pc + 1 /\ mode' = mode ELSE pc' = 1 /\ mode' = "rest"
  BY <1>2, <1>3, StepDoes DEF a
<1>5. trusted' = trusted
  BY <1>1, <1>2, <1>4
<1>6. CASE pc = 2
  <2>1. learners' = learners \ {SlotTarget} /\ caughtUp' = caughtUp \ {SlotTarget}
        /\ UNCHANGED <<voters, leader, elected, serving, time>>
    BY <1>2, <1>4, <1>6, KindEffects
  <2> QED
    BY <1>4, <1>5, <1>6, <2>1
<1>7. CASE pc = 3
  <2>1. serving' = [serving EXCEPT ![Slot] = Slot] /\ UNCHANGED <<group, time>>
    BY <1>2, <1>4, <1>7, KindEffects
  <2> QED
    BY <1>4, <1>5, <1>7, <2>1 DEF group
<1>8. CASE pc = 1 \/ pc = 4
  <2>1. a.kind \in QuietKinds
    BY <1>2, <1>8 DEF QuietKinds
  <2>2. UNCHANGED <<group, serving, time>>
    BY <2>1, <1>4, KindEffects
  <2> QED
    BY <1>4, <1>5, <1>8, <2>2 DEF group
<1> QED
  BY <1>1, <1>6, <1>7, <1>8

(* What every step of a list but the fleet's has in common.                *)
LEMMA PlanStays ==
  ASSUME IInv, UNCHANGED <<plan, completed>>
  PROVE  PlanIsGood' /\ Slot' = Slot /\ SlotAt' = SlotAt /\ SlotTarget' = SlotTarget
BY DEF IInv, plan, PlanIsGood, GoodOrder, Slot, SlotAt, SlotTarget

(* The configurations on the two sides of the slot under way.              *)
LEMMA SlotConfigs ==
  ASSUME IInv, completed < N
  PROVE  LET old == Config(replacements, completed)
             new == Config(replacements, completed + 1)
         IN  /\ Slot \in old /\ SlotTarget \notin old /\ Slot \notin new /\ SlotTarget \in new
             /\ new = (old \ {Slot}) \cup {SlotTarget} /\ old = (new \ {SlotTarget}) \cup {Slot}
             /\ old \subseteq Member /\ Cardinality(old) = N
             /\ new \subseteq Member /\ Cardinality(new) = N
             /\ Slot \in Source /\ Slot \in Member
             /\ SlotTarget \in Member /\ SlotTarget \in Target /\ SlotTarget \notin Source
<1>1. GoodOrder(replacements) /\ completed \in 0..(N - 1) /\ completed \in 0..N
      /\ completed + 1 \in 0..N /\ Slot \in Source
  BY PlanFacts, SizesOK DEF IInv, PlanIsGood
<1>2. /\ Config(replacements, completed) \subseteq Member
      /\ Cardinality(Config(replacements, completed)) = N
  BY <1>1, ConfigSize
<1>3. /\ Config(replacements, completed + 1) \subseteq Member
      /\ Cardinality(Config(replacements, completed + 1)) = N
  BY <1>1, ConfigSize
<1> QED
  BY <1>1, <1>2, <1>3, ConfigStep, TargetsAreNoSources DEF Slot, SlotTarget, Member

LEMMA BeforeStep ==
  ASSUME IInv, Step, mode = "before"
  PROVE  IInv'
<1>1. /\ completed < N /\ pc \in 1..4
      /\ voters = Config(replacements, completed) /\ AllServed
      /\ learners \subseteq {SlotTarget}
      /\ pc > 2 => learners = {}
  BY DEF IInv, Before
<1>2. /\ UNCHANGED <<plan, troubles, trusted, time, voters, leader, elected>>
      /\ learners' = IF pc = 2 THEN learners \ {SlotTarget} ELSE learners
      /\ caughtUp' = IF pc = 2 THEN caughtUp \ {SlotTarget} ELSE caughtUp
      /\ serving' = IF pc = 3 THEN [serving EXCEPT ![Slot] = Slot] ELSE serving
      /\ completed' = completed
      /\ IF pc < 4 THEN pc' = pc + 1 /\ mode' = mode ELSE pc' = 1 /\ mode' = "rest"
  BY BeforeEffects
<1>3. PlanIsGood' /\ Slot' = Slot /\ SlotAt' = SlotAt /\ SlotTarget' = SlotTarget
  BY <1>2, PlanStays
<1>4. Slot \in voters /\ SlotTarget \notin voters /\ Slot \in Source /\ Slot \in Member
  BY <1>1, SlotConfigs
<1>5. TypeOK /\ ServesItself /\ VotersAreCaughtUp /\ Windows /\ Leads
  BY DEF IInv
<1>6. serving' \in [Source -> Member] /\ ServesItself' /\ AllServed'
  <2>1. serving \in [Source -> Member]
    BY <1>5 DEF TypeOK
  <2> QED
    BY <2>1, <1>1, <1>2, <1>4, <1>5 DEF ServesItself, AllServed
<1>7. learners' \subseteq {SlotTarget} /\ (pc >= 2 => learners' = {})
      /\ learners' \subseteq Member \ voters'
  <2>1. learners \subseteq Member \ voters
    BY <1>5 DEF TypeOK
  <2> QED
    BY <2>1, <1>1, <1>2
<1>8. TypeOK'
  <2>1. leased' \in BOOLEAN
    BY <1>5, StepDoes DEF TypeOK
  <2>2. mode' \in {"rest", "before"} /\ pc' \in Nat /\ caughtUp' \subseteq Member
    BY <1>1, <1>2, <1>5 DEF TypeOK
  <2> QED
    BY <2>1, <2>2, <1>2, <1>5, <1>6, <1>7 DEF TypeOK, plan, time
<1>9. Settled' /\ Before'
  <2>1. CASE pc < 4
    BY <2>1, <1>1, <1>2, <1>3, <1>6, <1>7 DEF Settled, Before, Idle, plan
  <2>2. CASE ~(pc < 4)
    BY <2>2, <1>1, <1>2, <1>3, <1>6, <1>7 DEF Settled, Before, Idle, plan
  <2> QED
    BY <2>1, <2>2
<1>10. Forward' /\ After'
  BY <1>2 DEF Forward, After
<1>11. VotersAreCaughtUp'
  BY <1>2, <1>4, <1>5 DEF VotersAreCaughtUp
<1>12. Windows'
  <2>1. trusted' /\ mode' # "cutover"
    BY <1>2, <1>5 DEF Windows, Idle
  <2> QED
    BY <2>1 DEF Windows
<1>13. Leads'
  BY <1>2, <1>5 DEF Leads, plan
<1> QED
  BY <1>3, <1>6, <1>8, <1>9, <1>10, <1>11, <1>12, <1>13 DEF IInv

(* The six actions that undo a replacement whose voter has changed.        *)
LEMMA AfterEffects ==
  ASSUME IInv, Step, mode = "after"
  PROVE  /\ UNCHANGED <<plan, troubles, trusted, time>>
         /\ learners' = IF pc = 1 THEN learners \cup {Slot}
                        ELSE IF pc = 5 THEN learners \ {Slot} ELSE learners
         /\ caughtUp' = IF pc = 2 THEN caughtUp \cup {Slot}
                        ELSE IF pc = 5 THEN caughtUp \ {SlotTarget} ELSE caughtUp
         /\ voters' = IF pc = 5 THEN Config(replacements, completed) ELSE voters
         /\ serving' = IF pc = 6 THEN [serving EXCEPT ![Slot] = Slot] ELSE serving
         /\ pc = 5 => /\ leader' \in voters'
                      /\ leader \in voters' => leader' = leader /\ elected' = elected
                      /\ leader \notin voters' => elected'
         /\ pc # 5 => UNCHANGED <<leader, elected>>
         /\ completed' = completed
         /\ IF pc < 6 THEN pc' = pc + 1 /\ mode' = mode ELSE pc' = 1 /\ mode' = "rest"
<1> DEFINE a == List[pc]
<1>1. pc \in 1..6
  BY DEF IInv, After
<1>2. /\ Len(List) = 6 /\ (pc < 6 => a.from = SlotTarget /\ a.to = Slot)
      /\ a.kind = CASE pc = 1 -> "readd_source_as_fiducia_learner"
                    [] pc = 2 -> "wait_source_raft_catchup"
                    [] pc = 3 -> "readd_source_as_jetstream_replica"
                    [] pc = 4 -> "wait_source_jetstream_catchup"
                    [] pc = 5 -> "joint_consensus_replace_voter"
                    [] pc = 6 -> "restore_source_public_weight"
  BY <1>1 DEF List, RollbackAfter, Do, Undo, SlotTarget
<1>3. trusted \in BOOLEAN
  BY DEF IInv, TypeOK
<1>4. mode = "after" /\ NewConfig = Config(replacements, completed)
  BY StableVotersAreConfig DEF NewConfig
<1> HIDE DEF a
<1>5. /\ Does(a.kind, a.from, a.to) /\ UNCHANGED <<plan, troubles>>
      /\ a.kind # "revoke_laptop_trust_and_access" => trusted' = trusted
      /\ completed' = completed
      /\ IF pc < 6 THEN pc' = pc + 1 /\ mode' = mode ELSE pc' = 1 /\ mode' = "rest"
  BY <1>2, <1>3, StepDoes DEF a
<1>6. trusted' = trusted
  BY <1>1, <1>2, <1>5
<1>7. CASE pc = 1
  <2>1. learners' = learners \cup {Slot} /\ UNCHANGED <<voters, leader, caughtUp, elected, serving, time>>
    BY <1>2, <1>5, <1>7, KindEffects DEF AddsLearner
  <2> QED
    BY <1>5, <1>6, <1>7, <2>1
<1>8. CASE pc = 2
  <2>1. caughtUp' = caughtUp \cup {Slot} /\ UNCHANGED <<voters, learners, leader, elected, serving, time>>
    BY <1>2, <1>5, <1>8, KindEffects DEF AwaitsLearner
  <2> QED
    BY <1>5, <1>6, <1>8, <2>1
<1>9. CASE pc = 5
  <2>1. /\ voters' = Config(replacements, completed)
        /\ learners' = learners \ {Slot} /\ caughtUp' = caughtUp \ {SlotTarget}
        /\ leader' \in voters'
        /\ leader \in voters' => leader' = leader /\ elected' = elected
        /\ leader \notin voters' => elected'
        /\ UNCHANGED <<serving, time>>
    BY <1>2, <1>4, <1>5, <1>9, KindEffects
  <2> QED
    BY <1>5, <1>6, <1>9, <2>1
<1>10. CASE pc = 6
  <2>1. serving' = [serving EXCEPT ![Slot] = Slot] /\ UNCHANGED <<group, time>>
    BY <1>2, <1>5, <1>10, KindEffects
  <2> QED
    BY <1>5, <1>6, <1>10, <2>1 DEF group
<1>11. CASE pc = 3 \/ pc = 4
  <2>1. a.kind \in QuietKinds
    BY <1>2, <1>11 DEF QuietKinds
  <2>2. UNCHANGED <<group, serving, time>>
    BY <2>1, <1>5, KindEffects
  <2> QED
    BY <1>5, <1>6, <1>11, <2>2 DEF group
<1> QED
  BY <1>1, <1>7, <1>8, <1>9, <1>10, <1>11

LEMMA AfterStep ==
  ASSUME IInv, Step, mode = "after"
  PROVE  IInv'
<1> DEFINE s == Slot
           T == SlotTarget
           old == Config(replacements, completed)
           new == Config(replacements, completed + 1)
<1>1. /\ completed < N /\ pc \in 1..6 /\ OthersServed
      /\ pc <= 5 => /\ voters = new
                    /\ learners = IF pc > 1 THEN {s} ELSE {}
                    /\ pc > 2 => s \in caughtUp
      /\ pc = 6 => voters = old /\ learners = {}
  BY DEF IInv, After
<1>2. /\ UNCHANGED <<plan, troubles, trusted, time>>
      /\ learners' = IF pc = 1 THEN learners \cup {s}
                     ELSE IF pc = 5 THEN learners \ {s} ELSE learners
      /\ caughtUp' = IF pc = 2 THEN caughtUp \cup {s}
                     ELSE IF pc = 5 THEN caughtUp \ {T} ELSE caughtUp
      /\ voters' = IF pc = 5 THEN old ELSE voters
      /\ serving' = IF pc = 6 THEN [serving EXCEPT ![s] = s] ELSE serving
      /\ pc = 5 => /\ leader' \in voters'
                   /\ leader \in voters' => leader' = leader /\ elected' = elected
                   /\ leader \notin voters' => elected'
      /\ pc # 5 => UNCHANGED <<leader, elected>>
      /\ completed' = completed
      /\ IF pc < 6 THEN pc' = pc + 1 /\ mode' = mode ELSE pc' = 1 /\ mode' = "rest"
  BY AfterEffects
<1>3. PlanIsGood' /\ Slot' = s /\ SlotAt' = SlotAt /\ SlotTarget' = T
  BY <1>2, PlanStays
<1>4. /\ s \in old /\ T \notin old /\ s \notin new /\ T \in new
      /\ new = (old \ {s}) \cup {T} /\ old = (new \ {T}) \cup {s}
      /\ old \subseteq Member /\ Cardinality(old) = N
      /\ new \subseteq Member /\ Cardinality(new) = N
      /\ s \in Source /\ s \in Member
      /\ T \in Member /\ T \in Target /\ T \notin Source
  BY <1>1, SlotConfigs
<1>5. TypeOK /\ ServesItself /\ VotersAreCaughtUp /\ Windows /\ Leads
  BY DEF IInv
<1>6. Config(replacements', completed') = old /\ Config(replacements', completed' + 1) = new
  BY <1>2 DEF plan
<1>7. T = TargetOf[s]
  BY DEF SlotTarget
<1>8. leased' \in BOOLEAN /\ elected' \in BOOLEAN
  <2>1. leased \in BOOLEAN /\ elected \in BOOLEAN /\ trusted \in BOOLEAN
    BY <1>5 DEF TypeOK
  <2>2. leased' \in {TRUE, FALSE, leased}
    BY <2>1, StepDoes
  <2>3. CASE elected' = elected
    BY <2>1, <2>2, <2>3
  <2>4. CASE pc = 5 /\ leader \notin voters'
    BY <2>1, <2>2, <2>4, <1>2
  <2> QED
    BY <2>3, <2>4, <1>2
<1> HIDE DEF s, T, old, new
<1>9. voters' \in {old, new} /\ (pc < 5 => voters' = new) /\ (pc >= 5 => voters' = old)
      /\ learners' = IF pc < 5 THEN {s} ELSE {}
  BY <1>1, <1>2
<1>10. serving \in [Source -> Member] /\ serving' \in [Source -> Member]
  BY <1>2, <1>4, <1>5 DEF TypeOK
<1>11. TypeOK'
  <2>1. leader' \in voters' /\ caughtUp' \subseteq Member
    BY <1>2, <1>4, <1>5 DEF TypeOK
  <2>2. mode' \in {"rest", "after"} /\ pc' \in Nat
    BY <1>1, <1>2, <1>5
  <2>3. voters' \subseteq Member /\ Cardinality(voters') = N /\ learners' \subseteq Member \ voters'
    BY <1>1, <1>4, <1>9
  <2> QED
    BY <2>1, <2>2, <2>3, <1>2, <1>5, <1>8, <1>10 DEF TypeOK, plan, time
<1>12. ServesItself'
  BY <1>2, <1>4, <1>5, <1>10 DEF ServesItself
<1>13. ASSUME NEW x \in Source, x # s
       PROVE  serving'[x] \in voters'
  <2>1. serving[x] \in voters /\ serving[x] \in {x, TargetOf[x]} /\ serving'[x] = serving[x]
    BY <1>1, <1>2, <1>5, <1>10, <1>13 DEF OthersServed, ServesItself, s
  <2>2. serving[x] # T
    BY <2>1, <1>4, <1>7, <1>13, TargetsDiffer
  <2> QED
    BY <2>1, <2>2, <1>1, <1>2, <1>4
<1>14. OthersServed' /\ (pc = 6 => AllServed')
  <2>1. OthersServed'
    BY <1>3, <1>13 DEF OthersServed
  <2>2. ASSUME pc = 6 PROVE AllServed'
    <3>1. serving'[s] = s
      BY <2>2, <1>2, <1>4, <1>10
    <3> QED
      BY <3>1, <2>2, <1>4, <1>9, <1>13 DEF AllServed
  <2> QED
    BY <2>1, <2>2
<1>15. Settled' /\ After'
  <2>1. CASE pc < 6
    <3>1. pc' \in 1..6 /\ pc' = pc + 1 /\ mode' = "after" /\ completed' < N
      BY <2>1, <1>1, <1>2
    <3>2. pc' > 2 => s \in caughtUp' \/ pc' = 6
      BY <2>1, <3>1, <1>1, <1>2
    <3>3. After'
      BY <2>1, <3>1, <3>2, <1>1, <1>3, <1>6, <1>9, <1>14 DEF After
    <3> QED
      BY <3>1, <3>3 DEF Settled, Idle
  <2>2. CASE pc = 6
    BY <2>2, <1>2, <1>6, <1>9, <1>14 DEF Settled, After, Idle
  <2> QED
    BY <2>1, <2>2, <1>1
<1>16. Forward' /\ Before'
  BY <1>2 DEF Forward, Before
<1>17. VotersAreCaughtUp'
  BY <1>1, <1>2, <1>4, <1>5 DEF VotersAreCaughtUp
<1>18. Windows'
  <2>1. trusted' /\ mode' # "cutover"
    BY <1>2, <1>5 DEF Windows, Idle
  <2> QED
    BY <2>1 DEF Windows
<1>19. Leads'
  BY <1>2, <1>5 DEF Leads, plan
<1> QED
  BY <1>3, <1>11, <1>12, <1>15, <1>16, <1>17, <1>18, <1>19 DEF IInv

LEMMA CutoverStep ==
  ASSUME IInv, Step, mode = "cutover"
  PROVE  IInv'
<1> DEFINE a == List[pc]
<1>1. /\ pc \in 1..5 /\ completed = N /\ learners = {} /\ AllServed
      /\ voters = Config(replacements, completed)
  BY DEF IInv, Settled, Idle
<1>2. /\ Len(List) = 5
      /\ a.kind = CASE pc = 1 -> "verify_all_target_voters_stable"
                    [] pc = 2 -> "complete_full_public_traffic_soak"
                    [] pc = 3 -> "switch_target_only_connectivity"
                    [] pc = 4 -> "revoke_laptop_trust_and_access"
                    [] pc = 5 -> "securely_wipe_retired_laptops"
  BY <1>1 DEF List, FleetCutover, Fleet
<1>3. TypeOK /\ PlanIsGood /\ ServesItself /\ VotersAreCaughtUp /\ Windows /\ Leads
  BY DEF IInv
<1>4. trusted \in BOOLEAN
  BY <1>3 DEF TypeOK
<1> HIDE DEF a
<1>5. /\ Does(a.kind, List[pc].from, List[pc].to) /\ UNCHANGED <<plan, troubles>>
      /\ a.kind # "revoke_laptop_trust_and_access" => trusted' = trusted
      /\ trusted' \in BOOLEAN /\ completed' = completed
      /\ IF pc < 5 THEN pc' = pc + 1 /\ mode' = mode ELSE pc' = 1 /\ mode' = "done"
      /\ leased' \in {TRUE, FALSE, leased}
  BY <1>2, <1>4, StepDoes DEF a
<1>6. /\ UNCHANGED <<group, serving, age>>
      /\ soaked' = IF pc = 1 THEN 0 ELSE soaked
  <2>1. CASE pc = 1
    <3>1. soaked' = 0 /\ UNCHANGED <<group, serving, age>>
      BY <1>2, <1>5, <2>1, KindEffects
    <3> QED
      BY <2>1, <3>1
  <2>2. CASE pc # 1
    <3>1. UNCHANGED <<group, serving, time>>
      BY <1>1, <1>2, <1>5, <2>2, KindEffects
    <3> QED
      BY <2>2, <3>1 DEF time
  <2> QED
    BY <2>1, <2>2
<1>7. PlanIsGood'
  BY <1>5, PlanStays
<1>8. TypeOK'
  <2>1. leased' \in BOOLEAN
    BY <1>3, <1>5 DEF TypeOK
  <2>2. mode' \in {"cutover", "done"} /\ pc' \in Nat /\ soaked' \in 0..RollbackWindow
    BY <1>1, <1>3, <1>5, <1>6, SizesOK DEF TypeOK
  <2> QED
    BY <2>1, <2>2, <1>3, <1>5, <1>6 DEF TypeOK, plan, group
<1>9. ServesItself' /\ VotersAreCaughtUp' /\ AllServed'
  BY <1>1, <1>3, <1>6 DEF ServesItself, VotersAreCaughtUp, AllServed, group
<1>10. Settled'
  BY <1>1, <1>5, <1>6, <1>9 DEF Settled, Idle, plan, group
<1>11. Forward' /\ Before' /\ After'
  BY <1>5 DEF Forward, Before, After
<1>12. Windows'
  <2>1. \A x \in Source : age[x] \in 0..RollbackWindow
    BY <1>3 DEF TypeOK
  <2>2. CASE pc = 1
    <3>1. pc' = 2 /\ mode' = "cutover" /\ soaked' = 0 /\ age' = age /\ trusted' = trusted
      BY <2>2, <1>2, <1>5, <1>6
    <3> QED
      BY <2>1, <3>1, <1>1, <1>3, <1>5, SizesOK DEF Windows, WindowsClosed, Idle
  <2>3. CASE pc = 2
    <3>1. soaked = RollbackWindow
      BY <2>3, <1>2, <1>5 DEF Does, Permits
    <3>2. WindowsClosed
      BY <2>1, <2>3, <3>1, <1>3, SizesOK DEF Windows, WindowsClosed
    <3>3. WindowsClosed' /\ pc' = 3
      BY <2>3, <3>2, <1>5, <1>6 DEF WindowsClosed
    <3> QED
      BY <3>3, <1>1, <1>5 DEF Windows, Idle
  <2>4. CASE pc > 2
    <3>1. WindowsClosed'
      BY <2>4, <1>3, <1>6 DEF Windows, WindowsClosed
    <3>2. pc' # 2 /\ Idle' /\ completed' = N
      BY <2>4, <1>1, <1>5 DEF Idle
    <3> QED
      BY <3>1, <3>2 DEF Windows
  <2> QED
    BY <2>2, <2>3, <2>4, <1>1
<1>13. Leads'
  <2>1. mode' # "forward"
    BY <1>5
  <2> QED
    BY <2>1, <1>3, <1>5, <1>6 DEF Leads, plan, group
<1> QED
  BY <1>7, <1>8, <1>9, <1>10, <1>11, <1>12, <1>13 DEF IInv

LEMMA StartStep ==
  ASSUME IInv, Start
  PROVE  IInv'
<1>1. mode = "rest" /\ mode' = (IF completed < N THEN "forward" ELSE "cutover")
      /\ UNCHANGED <<plan, cluster, time, trusted, pc, completed, troubles>>
  BY DEF Start
<1>2. /\ voters = Config(replacements, completed) /\ learners = {} /\ AllServed /\ pc = 1
      /\ completed \in 0..N /\ N \in Nat /\ SlotAt \in 9..11
  BY <1>1, PlanFacts, SizesOK DEF IInv, Settled, Idle
<1>3. PlanIsGood' /\ Slot' = Slot /\ SlotAt' = SlotAt /\ SlotTarget' = SlotTarget
  BY <1>1, PlanStays
<1>4. TypeOK' /\ ServesItself' /\ VotersAreCaughtUp' /\ AllServed'
  BY <1>1, <1>2 DEF IInv, TypeOK, ServesItself, VotersAreCaughtUp, AllServed, plan, cluster, time
<1>5. Settled' /\ Forward' /\ Before' /\ After'
  BY <1>1, <1>2, <1>3, <1>4 DEF Settled, Forward, Before, After, Idle, plan, cluster
<1>6. Windows'
  BY <1>1, <1>2 DEF IInv, Windows, WindowsClosed, Idle, time
<1>7. Leads'
  BY <1>1, <1>2, <1>3 DEF IInv, Leads, plan, cluster
<1> QED
  BY <1>3, <1>4, <1>5, <1>6, <1>7 DEF IInv

LEMMA TickStep ==
  ASSUME IInv, Tick
  PROVE  IInv'
<1>1. /\ age' = [s \in Source |-> IF age[s] < RollbackWindow THEN age[s] + 1 ELSE age[s]]
      /\ soaked' = IF Soaking /\ soaked < RollbackWindow THEN soaked + 1 ELSE soaked
      /\ UNCHANGED <<plan, cluster, trusted, mode, pc, completed, troubles>>
  BY DEF Tick, progress
<1>2. PlanIsGood' /\ Slot' = Slot /\ SlotAt' = SlotAt /\ SlotTarget' = SlotTarget
  BY <1>1, PlanStays
<1>3. /\ \A x \in Source : age[x] \in 0..RollbackWindow
      /\ soaked \in 0..RollbackWindow /\ RollbackWindow \in Nat
  BY SizesOK DEF IInv, TypeOK
<1>4. /\ \A x \in Source : age'[x] = IF age[x] < RollbackWindow THEN age[x] + 1 ELSE age[x]
      /\ age' \in [Source -> 0..RollbackWindow] /\ soaked' \in 0..RollbackWindow
  BY <1>1, <1>3
<1>5. TypeOK' /\ ServesItself' /\ VotersAreCaughtUp' /\ (AllServed' <=> AllServed)
      /\ (OthersServed' <=> OthersServed)
  BY <1>1, <1>2, <1>4 DEF IInv, TypeOK, ServesItself, VotersAreCaughtUp, AllServed, OthersServed,
                        plan, cluster
<1>6. Settled' /\ Forward'
  BY <1>1, <1>2, <1>5 DEF IInv, Settled, Forward, Idle, plan, cluster
<1>7. Before' /\ After'
  BY <1>1, <1>2, <1>5 DEF IInv, Before, After, plan, cluster
<1>8. Windows'
  <2>1. WindowsClosed => WindowsClosed'
    BY <1>3, <1>4 DEF WindowsClosed
  <2>2. ASSUME mode = "cutover", pc = 2
        PROVE  \A x \in Source : age'[x] >= soaked'
    BY <2>2, <1>1, <1>3, <1>4 DEF IInv, Windows
  <2> QED
    BY <2>1, <2>2, <1>1 DEF IInv, Windows, Idle
<1>9. Leads'
  BY <1>1, <1>2 DEF IInv, Leads, plan, cluster
<1> QED
  BY <1>2, <1>5, <1>6, <1>7, <1>8, <1>9 DEF IInv

LEMMA FailStep ==
  ASSUME IInv, Fail
  PROVE  IInv'
<1>1. /\ mode \in {"forward", "cutover"} /\ pc' = 1 /\ troubles < MaxTroubles /\ troubles' = troubles + 1
      /\ mode' = (IF mode = "cutover" THEN "rest" ELSE IF Slot \in voters THEN "before" ELSE "after")
      /\ UNCHANGED <<plan, cluster, time, trusted, completed>>
  BY DEF Fail, Trouble
<1>2. PlanIsGood' /\ Slot' = Slot /\ SlotAt' = SlotAt /\ SlotTarget' = SlotTarget
  BY <1>1, PlanStays
<1>3. troubles' \in 0..MaxTroubles
  BY <1>1, PlanConstantsOK DEF IInv, TypeOK
<1>4. TypeOK' /\ ServesItself' /\ VotersAreCaughtUp' /\ (AllServed' <=> AllServed)
      /\ (OthersServed' <=> OthersServed)
  BY <1>1, <1>2, <1>3 DEF IInv, TypeOK, ServesItself, VotersAreCaughtUp, AllServed, OthersServed,
                        plan, cluster, time
<1>5. Settled' /\ Before' /\ After'
  <2>1. CASE mode = "cutover"
    BY <2>1, <1>1, <1>4 DEF IInv, Settled, Before, After, Idle, plan, cluster
  <2>2. CASE mode = "forward"
    <3>1. /\ completed < N
          /\ pc <= SlotAt => /\ voters = Config(replacements, completed) /\ AllServed
                             /\ learners \subseteq {SlotTarget}
          /\ pc > SlotAt => /\ voters = Config(replacements, completed + 1) /\ OthersServed
                            /\ learners = {}
          /\ pc <= SlotAt \/ pc > SlotAt
      BY <2>2, PlanFacts DEF IInv, Forward
    <3>2. Slot \in Config(replacements, completed) /\ Slot \notin Config(replacements, completed + 1)
      BY <3>1, SlotConfigs
    <3> QED
      BY <2>2, <3>1, <3>2, <1>1, <1>2, <1>4 DEF Settled, Before, After, Idle, plan, cluster
  <2> QED
    BY <2>1, <2>2, <1>1
<1>6. Forward' /\ Windows' /\ Leads'
  BY <1>1, <1>2 DEF IInv, Forward, Windows, WindowsClosed, Leads, Idle, plan, cluster, time
<1> QED
  BY <1>2, <1>4, <1>5, <1>6 DEF IInv

LEMMA RollBackStep ==
  ASSUME IInv, RollBackCompleted
  PROVE  IInv'
<1>1. /\ mode = "rest" /\ mode' = "after" /\ completed > 0 /\ completed' = completed - 1
      /\ troubles < MaxTroubles /\ troubles' = troubles + 1
      /\ age[replacements[completed]] < RollbackWindow
      /\ UNCHANGED <<plan, cluster, time, trusted, pc>>
  BY DEF RollBackCompleted, Trouble
<1>2. /\ completed \in 1..N /\ completed' \in 0..(N - 1) /\ completed' + 1 = completed
      /\ voters = Config(replacements, completed) /\ learners = {} /\ AllServed /\ pc = 1
  BY <1>1, SizesOK DEF IInv, TypeOK, Settled, Idle
<1>3. PlanIsGood'
  BY <1>1 DEF IInv, PlanIsGood, GoodOrder, plan
<1>4. troubles' \in 0..MaxTroubles
  BY <1>1, PlanConstantsOK DEF IInv, TypeOK
<1>5. TypeOK' /\ ServesItself' /\ VotersAreCaughtUp'
  BY <1>1, <1>2, <1>4, SizesOK DEF IInv, TypeOK, ServesItself, VotersAreCaughtUp, plan, cluster, time
<1>6. OthersServed'
  BY <1>1, <1>2 DEF AllServed, OthersServed, cluster
<1>7. After'
  BY <1>1, <1>2, <1>6, SizesOK DEF After, plan, cluster
<1>8. Settled' /\ Forward' /\ Before'
  BY <1>1 DEF Settled, Forward, Before, Idle
<1>9. Windows'
  <2>1. replacements[completed] \in Source
    BY <1>2 DEF IInv, PlanIsGood, GoodOrder
  <2>2. ~WindowsClosed
    BY <2>1, <1>1, SizesOK DEF WindowsClosed
  <2>3. trusted /\ trusted' = trusted
    BY <2>2, <1>1 DEF IInv, Windows
  <2> QED
    BY <2>3, <1>1 DEF Windows
<1>10. Leads'
  BY <1>1 DEF IInv, Leads, plan, cluster
<1> QED
  BY <1>3, <1>5, <1>7, <1>8, <1>9, <1>10 DEF IInv

LEMMA ElectStep ==
  ASSUME IInv, Elect
  PROVE  IInv'
<1>1. /\ leader' \in voters /\ elected' = TRUE
      /\ troubles < MaxTroubles /\ troubles' = troubles + 1
      /\ UNCHANGED <<plan, voters, learners, caughtUp, serving, leased, time, trusted, mode, pc, completed>>
  BY DEF Elect, Trouble, progress
<1>2. PlanIsGood' /\ Slot' = Slot /\ SlotAt' = SlotAt /\ SlotTarget' = SlotTarget
  BY <1>1, PlanStays
<1>3. troubles' \in 0..MaxTroubles
  BY <1>1, PlanConstantsOK DEF IInv, TypeOK
<1>4. TypeOK' /\ ServesItself' /\ VotersAreCaughtUp' /\ (AllServed' <=> AllServed)
      /\ (OthersServed' <=> OthersServed)
  BY <1>1, <1>2, <1>3 DEF IInv, TypeOK, ServesItself, VotersAreCaughtUp, AllServed, OthersServed,
                        plan, time
<1>5. Settled' /\ Forward'
  BY <1>1, <1>2, <1>4 DEF IInv, Settled, Forward, Idle, plan
<1>6. Before' /\ After'
  BY <1>1, <1>2, <1>4 DEF IInv, Before, After, plan
<1>7. Windows' /\ Leads'
  BY <1>1 DEF IInv, Windows, WindowsClosed, Leads, Idle, time
<1> QED
  BY <1>2, <1>4, <1>5, <1>6, <1>7 DEF IInv

LEMMA NextIInv ==
  ASSUME IInv, [Next]_vars
  PROVE  IInv'
<1>1. CASE Step
  <2>1. mode \in {"forward", "before", "after", "cutover"}
    BY <1>1 DEF Step, IInv, TypeOK
  <2> QED
    BY <1>1, <2>1, ForwardStep, BeforeStep, AfterStep, CutoverStep
<1>2. CASE UNCHANGED vars
  <2>1. PlanIsGood' /\ Slot' = Slot /\ SlotAt' = SlotAt /\ SlotTarget' = SlotTarget
    BY <1>2, PlanStays DEF vars, progress
  <2>2. TypeOK' /\ ServesItself' /\ VotersAreCaughtUp' /\ (AllServed' <=> AllServed)
        /\ (OthersServed' <=> OthersServed)
    BY <1>2, <2>1 DEF IInv, TypeOK, ServesItself, VotersAreCaughtUp, AllServed, OthersServed,
                      vars, plan, cluster, time, progress
  <2>3. Settled' /\ Forward'
    BY <1>2, <2>1, <2>2 DEF IInv, Settled, Forward, Idle, vars, plan, cluster, progress
  <2>4. Before' /\ After'
    BY <1>2, <2>1, <2>2 DEF IInv, Before, After, vars, plan, cluster, progress
  <2>5. Windows' /\ Leads'
    BY <1>2, <2>1 DEF IInv, Windows, WindowsClosed, Leads, Idle, vars, plan, cluster, time, progress
  <2> QED
    BY <2>1, <2>2, <2>3, <2>4, <2>5 DEF IInv
<1> QED
  BY <1>1, <1>2, StartStep, TickStep, FailStep, RollBackStep, ElectStep DEF Next

LEMMA IInvAlways == Spec => []IInv
<1>1. Init => IInv
  BY InitIInv
<1>2. IInv /\ [Next]_vars => IInv'
  BY NextIInv
<1> QED
  BY <1>1, <1>2, PTL DEF Spec

-----------------------------------------------------------------------------
(* The runs' specification is Spec with fairness, so each result holds of  *)
(* it too.                                                                 *)

(* Whatever failed, was rolled back or elected before, and however often:  *)
(* between two replacements the group has the configuration the plan made  *)
(* at the start expects there, and no learner and no traffic is left over. *)
THEOREM PlanKeepsFitting == Spec => []PlanFitsCluster
<1>1. IInv => PlanFitsCluster
  BY DEF IInv, PlanFitsCluster, RestMatchesPlan, Settled, Idle, AllServed, StableVoters, Config, Moved
<1> QED
  BY <1>1, IInvAlways, PTL

(* No member votes on a stale log: of the two joint consensus changes of a *)
(* replacement each comes after the catch-up of the member it adds, since  *)
(* a failure always restarts a list from its first action.                 *)
THEOREM NoStaleVoter == Spec => []VotersAreCaughtUp
<1>1. IInv => VotersAreCaughtUp
  BY DEF IInv
<1> QED
  BY <1>1, IInvAlways, PTL

(* The laptops lose their trust only after every rollback window: the soak *)
(* began when the last window had, at most, begun and lasts as long.       *)
THEOREM SourcesStayThroughWindows == Spec => []SourcesRetained
<1>1. IInv => SourcesRetained
  <2> SUFFICES ASSUME IInv, ~trusted PROVE SourcesRetained
    BY DEF SourcesRetained
  <2>1. Idle /\ completed = N /\ WindowsClosed
    BY DEF IInv, Windows
  <2>2. voters = Target /\ AllServed
    BY <2>1, ConfigEnds DEF IInv, Settled, PlanIsGood
  <2> QED
    BY <2>1, <2>2, SizesOK DEF SourcesRetained, WindowsClosed, AllServed
<1> QED
  BY <1>1, IInvAlways, PTL

(* While leadership moves by the plan's transfers only, no replacement     *)
(* removes the leader: the observed leader is the last source, so what it  *)
(* hands over to is a cloud member, and none of those is removed.          *)
THEOREM LeaderIsNeverRemoved == Spec => LeaderIsTransferredFirst
<1>1. ASSUME IInv, [Next]_vars
      PROVE  [(mode = "forward" /\ leader \notin voters') => elected]_vars
  <2> SUFFICES ASSUME mode = "forward", leader \notin voters', ~elected PROVE FALSE
    OBVIOUS
  <2>1. leader \in voters
    BY <1>1 DEF IInv, TypeOK
  <2>2. CASE Step
    <3>1. /\ voters' = IF pc = SlotAt THEN Config(replacements, completed + 1) ELSE voters
      BY <1>1, <2>2, ForwardEffects
    <3>2. pc = SlotAt /\ voters' = Config(replacements, completed + 1)
      BY <2>1, <3>1
    <3>3. voters = Config(replacements, completed) /\ completed < N
      BY <1>1, <3>2, PlanFacts DEF IInv, Forward
    <3>4. leader = Slot /\ Slot \in Source
      BY <1>1, <2>1, <3>2, <3>3, SlotConfigs
    <3>5. leader = fiduciaLeader
      BY <1>1, <3>4, SizesOK DEF IInv, Leads
    <3> QED
      BY <1>1, <3>2, <3>4, <3>5 DEF IInv, Leads
  <2>3. CASE ~Step
    <3>1. voters' = voters
      BY <1>1, <2>3 DEF Next, Start, Tick, Fail, RollBackCompleted, Elect, vars, cluster
    <3> QED
      BY <2>1, <3>1
  <2> QED
    BY <2>2, <2>3
<1> QED
  BY <1>1, IInvAlways, PTL DEF Spec, LeaderIsTransferredFirst

=============================================================================
