----------------------------- MODULE MigrationPlan -----------------------------
(***************************************************************************)
(* The plan buildMigrationPlan makes for replacing the laptop voters by    *)
(* cloud voters one at a time (tools/plan-laptop-cloud-migration.mjs), and *)
(* the plan carried out.                                                   *)
(*                                                                         *)
(* The planner is a pure function of the policy and of one observation of  *)
(* the leaders, made before the first replacement.  Who carries the plan   *)
(* out is external, as is the Raft group: an action succeeds or fails, a   *)
(* failed replacement is rolled back by the list the plan gives for the    *)
(* side of the joint consensus it is on and tried again, and a completed   *)
(* replacement may be rolled back in its rollback window.  The fleet       *)
(* cutover then soaks, takes the laptops' trust away and wipes them.       *)
(***************************************************************************)
EXTENDS Naturals, FiniteSets, Sequences

CONSTANTS
  Source,        \* the laptop voters
  TargetOf,      \* [Source -> cloud member], the [[replacement]] mappings
  DeclaredOrder, \* [Source -> Nat], their order in the policy
  RollbackWindow, \* rollback_window_hours
  MaxTroubles    \* bound: failures, rollbacks of completed replacements, elections

Target == {TargetOf[s] : s \in Source}
Member == Source \cup Target

N == Cardinality(Source)          \* minimum_stable_voters
Quorum == N \div 2 + 1

(* Numbers of the policy that no action depends on are taken as valid.     *)
ValidMigrationSpec ==
  /\ IsFiniteSet(Source)
  /\ N >= 3 /\ N % 2 = 1
  /\ RollbackWindow \in Nat \ {0}
  /\ Cardinality(Target) = N /\ Source \cap Target = {}
  /\ DeclaredOrder \in [Source -> Nat]
  /\ \A s, t \in Source : DeclaredOrder[s] = DeclaredOrder[t] => s = t

ASSUME PlanConstantsOK == ValidMigrationSpec /\ MaxTroubles \in Nat

VARIABLES
  fiduciaLeader, jetstreamLeaders,  \* the observation the plan was made from
  replacements,                     \* the plan: the sources in their order
  voters, learners, leader,         \* the Raft group
  caughtUp,   \* members whose log is up to date
  serving,    \* [Source -> who has the public traffic of this slot]
  leased,     \* whether the membership-change lease is held for this migration
  age,        \* [Source -> age of its rollback window, at most RollbackWindow]
  soaked,     \* how long the final soak has lasted
  trusted,    \* whether the laptops are still trusted
  mode,       \* "rest", "forward", "before", "after", "cutover": the action
              \* list under way; "done" when the laptops are wiped
  pc,         \* its next action
  completed,  \* replacements completed and not rolled back
  troubles,
  elected     \* history: whether leadership moved other than by a planned transfer

plan == <<fiduciaLeader, jetstreamLeaders, replacements>>
cluster == <<voters, learners, leader, caughtUp, serving, leased, elected>>
time == <<age, soaked>>
progress == <<mode, pc, completed>>
vars == <<plan, cluster, time, trusted, progress, troubles>>

-----------------------------------------------------------------------------
(* The plan.                                                               *)

(* Mutant of Score: the observed leader is replaced first.                 *)
LeaderScoresLow(s) ==
  (IF s = fiduciaLeader THEN 0 ELSE 100) + (IF s \in jetstreamLeaders THEN 10 ELSE 0)

Score(s) ==
  (IF s = fiduciaLeader THEN 100 ELSE 0) + (IF s \in jetstreamLeaders THEN 10 ELSE 0)

Earlier(s, t) ==
  Score(s) < Score(t) \/ (Score(s) = Score(t) /\ DeclaredOrder[s] <= DeclaredOrder[t])

Ordered ==
  [n \in 1..N |->
     CHOOSE s \in Source : Cardinality({t \in Source : Earlier(t, s)}) = n]

(* stableVoters after the first n replacements.                            *)
StableVoters(n) ==
  LET moved == {replacements[i] : i \in 1..n}
  IN  (Source \ moved) \cup {TargetOf[s] : s \in moved}

Do(kind, s) == [kind |-> kind, from |-> s, to |-> TargetOf[s]]
Undo(kind, s) == [kind |-> kind, from |-> TargetOf[s], to |-> s]

(* Mutant of Actions: the lease is not released.                           *)
ActionsKeepLease(s) ==
  << Do("acquire_membership_change_lease", s), Do("add_fiducia_learner", s),
     Do("wait_fiducia_learner_catchup", s) >>
  \o (IF s = fiduciaLeader THEN <<Do("transfer_fiducia_leadership", s)>> ELSE <<>>)
  \o << Do("joint_consensus_replace_voter", s), Do("verify_stable_membership", s),
        Do("promote_stateless_traffic", s) >>

Actions(s) ==
  << Do("acquire_membership_change_lease", s), Do("verify_fresh_global_evidence", s),
     Do("provision_target_prerequisites", s), Do("add_fiducia_learner", s),
     Do("wait_fiducia_learner_catchup", s), Do("add_jetstream_replica", s),
     Do("wait_jetstream_replica_catchup", s),
     Do("verify_outbox_replay_fencing_and_idempotency", s) >>
  \o (IF s \in jetstreamLeaders THEN <<Do("transfer_jetstream_leadership", s)>> ELSE <<>>)
  \o (IF s = fiduciaLeader THEN <<Do("transfer_fiducia_leadership", s)>> ELSE <<>>)
  \o << Do("joint_consensus_replace_voter", s), Do("verify_stable_membership", s),
        Do("promote_stateless_traffic", s), Do("start_rollback_window", s),
        Do("release_membership_change_lease", s) >>

(* Mutant of RollbackBefore: the learner is left where it is.              *)
RollbackBeforeKeepsLearner(s) ==
  << Do("restore_source_public_weight", s), Do("release_membership_change_lease", s) >>

RollbackBefore(s) ==
  << Do("remove_target_jetstream_replica", s), Do("remove_target_fiducia_learner", s),
     Do("restore_source_public_weight", s), Do("release_membership_change_lease", s) >>

(* Mutant of RollbackAfter: the source becomes a voter without catching up. *)
RollbackAfterUnready(s) ==
  << Undo("readd_source_as_fiducia_learner", s), Undo("joint_consensus_replace_voter", s),
     Do("restore_source_public_weight", s) >>

(* The list the plan has for a replacement whose voter has changed:        *)
(* neither a leadership transfer nor the lease is among them.              *)
RollbackAfter(s) ==
  << Undo("readd_source_as_fiducia_learner", s), Undo("wait_source_raft_catchup", s),
     Undo("readd_source_as_jetstream_replica", s), Undo("wait_source_jetstream_catchup", s),
     Undo("joint_consensus_replace_voter", s), Do("restore_source_public_weight", s) >>

Fleet(kind) == [kind |-> kind, from |-> "laptops", to |-> "clouds"]

(* Mutant of FleetCutover: nobody waits before the trust is taken away.    *)
FleetCutoverUnsoaked ==
  << Fleet("verify_all_target_voters_stable"), Fleet("switch_target_only_connectivity"),
     Fleet("revoke_laptop_trust_and_access"), Fleet("securely_wipe_retired_laptops") >>

FleetCutover ==
  << Fleet("verify_all_target_voters_stable"), Fleet("complete_full_public_traffic_soak"),
     Fleet("switch_target_only_connectivity"), Fleet("revoke_laptop_trust_and_access"),
     Fleet("securely_wipe_retired_laptops") >>

(* simulateMigrationPlan: the rehearsal a plan has to pass to be printed.  *)
LearnsFirst(s) ==
  \E i, j, k \in DOMAIN Actions(s) :
    /\ i < j /\ j < k
    /\ Actions(s)[i].kind = "add_fiducia_learner"
    /\ Actions(s)[j].kind = "wait_fiducia_learner_catchup"
    /\ Actions(s)[k].kind = "joint_consensus_replace_voter"

SurvivesAnyOneFailure(stable) ==
  \A v \in stable : Cardinality(stable \ {v}) >= Quorum

(* The first replacement is rolled back once in the rehearsal.             *)
RollbackExercise ==
  LET s == replacements[1]
      rolledBack == (StableVoters(1) \ {TargetOf[s]}) \cup {s}
  IN  rolledBack = StableVoters(0) /\ SurvivesAnyOneFailure(rolledBack)

(* The joint consensus is asked to go from 3 over 4 to 3 whatever          *)
(* minimum_stable_voters says: with more voters no plan is printed.        *)
Rehearses ==
  /\ StableVoters(0) = Source
  /\ \A n \in 1..N :
       LET s == replacements[n]
           before == StableVoters(n - 1)
           after == StableVoters(n)
       IN  /\ s \in before /\ TargetOf[s] \notin before
           /\ LearnsFirst(s)
           /\ Cardinality(before) = 3 /\ Cardinality(after) = 3
           /\ Cardinality(before \cup after) = 4
           /\ after = (before \ {s}) \cup {TargetOf[s]}
           /\ Cardinality(after) = N /\ SurvivesAnyOneFailure(after)
           /\ n = 1 => RollbackExercise
  /\ StableVoters(N) = Target

-----------------------------------------------------------------------------
(* The plan carried out.                                                   *)

TypeOK ==
  /\ fiduciaLeader \in Source /\ jetstreamLeaders \in (SUBSET Source) \ {{}}
  /\ replacements \in [1..N -> Source]
  /\ voters \subseteq Member /\ Cardinality(voters) = N
  /\ learners \subseteq Member \ voters
  /\ leader \in voters
  /\ caughtUp \subseteq Member
  /\ serving \in [Source -> Member]
  /\ leased \in BOOLEAN /\ elected \in BOOLEAN /\ trusted \in BOOLEAN
  /\ age \in [Source -> 0..RollbackWindow] /\ soaked \in 0..RollbackWindow
  /\ mode \in {"rest", "forward", "before", "after", "cutover", "done"}
  /\ pc \in Nat /\ completed \in 0..N /\ troubles \in 0..MaxTroubles

(* validateObservations: every source is a healthy voter, one of them      *)
(* leads the Raft group and some lead JetStream.                           *)
Init ==
  /\ fiduciaLeader \in Source
  /\ jetstreamLeaders \in (SUBSET Source) \ {{}}
  /\ replacements = Ordered /\ Rehearses
  /\ voters = Source /\ learners = {} /\ leader = fiduciaLeader
  /\ caughtUp = Source
  /\ serving = [s \in Source |-> s]
  /\ leased = FALSE /\ elected = FALSE /\ trusted = TRUE
  /\ age = [s \in Source |-> RollbackWindow] /\ soaked = 0
  /\ mode = "rest" /\ pc = 1 /\ completed = 0 /\ troubles = 0

(* The replacement under way: the next one, or the one being rolled back.  *)
Slot == replacements[completed + 1]

List ==
  CASE mode = "forward" -> Actions(Slot)
    [] mode = "before" -> RollbackBefore(Slot)
    [] mode = "after" -> RollbackAfter(Slot)
    [] mode = "cutover" -> FleetCutover

(* oldConfig and newConfig of the joint consensus of the list under way.   *)
OldConfig == StableVoters(IF mode = "after" THEN completed + 1 ELSE completed)
NewConfig == StableVoters(IF mode = "after" THEN completed ELSE completed + 1)

Leases(kind) == leased' = IF kind = "acquire_membership_change_lease" THEN TRUE
                          ELSE IF kind = "release_membership_change_lease" THEN FALSE
                          ELSE leased

ServesAfter(kind) ==
  serving' = CASE kind = "promote_stateless_traffic" -> [serving EXCEPT ![Slot] = TargetOf[Slot]]
               [] kind = "restore_source_public_weight" -> [serving EXCEPT ![Slot] = Slot]
               [] OTHER -> serving

AddsLearner == {"add_fiducia_learner", "readd_source_as_fiducia_learner"}
AwaitsLearner == {"wait_fiducia_learner_catchup", "wait_source_raft_catchup"}

(* A learner receives the log; a removed member stops receiving it.        *)
Replicates(kind, from, to) ==
  /\ kind \in AwaitsLearner => to \in learners
  /\ learners' = CASE kind \in AddsLearner -> learners \cup {to}
                   [] kind \in {"remove_target_fiducia_learner", "joint_consensus_replace_voter"}
                        -> learners \ {to}
                   [] OTHER -> learners
  /\ caughtUp' = CASE kind \in AwaitsLearner -> caughtUp \cup {to}
                   [] kind = "remove_target_fiducia_learner" -> caughtUp \ {to}
                   [] kind = "joint_consensus_replace_voter" -> caughtUp \ {from}
                   [] OTHER -> caughtUp

(* The group accepts a joint consensus from its present configuration to   *)
(* one with a learner of it; a leader that is removed is replaced by an    *)
(* election.                                                               *)
Reconfigures(kind, from, to) ==
  IF kind = "joint_consensus_replace_voter"
    THEN /\ voters = OldConfig /\ to \in learners
         /\ voters' = NewConfig
         /\ IF leader \in NewConfig THEN UNCHANGED <<leader, elected>>
            ELSE leader' \in NewConfig /\ elected' = TRUE
    ELSE /\ UNCHANGED <<voters, elected>>
         /\ IF kind = "transfer_fiducia_leadership" /\ leader = from
              THEN leader' \in voters \ {from} ELSE UNCHANGED leader

(* What an action that checks or waits asks for.                           *)
Permits(kind) ==
  CASE kind = "verify_stable_membership" -> voters = NewConfig /\ learners = {}
    [] kind = "verify_all_target_voters_stable" -> voters = StableVoters(N) /\ learners = {}
    [] kind = "complete_full_public_traffic_soak" -> soaked = RollbackWindow
    [] kind = "switch_target_only_connectivity" ->
         voters \cap Source = {} /\ \A s \in Source : serving[s] \notin Source
    [] kind = "securely_wipe_retired_laptops" -> \A s \in Source : age[s] = RollbackWindow
    [] OTHER -> TRUE

StartsTimers(kind) ==
  /\ age' = IF kind = "start_rollback_window" THEN [age EXCEPT ![Slot] = 0] ELSE age
  /\ soaked' = IF kind = "verify_all_target_voters_stable" THEN 0 ELSE soaked

(* The next action of the list succeeds; the last one ends the list.       *)
Step ==
  /\ mode \notin {"rest", "done"}
  /\ LET action == List[pc]
     IN  /\ Permits(action.kind)
         /\ Leases(action.kind) /\ ServesAfter(action.kind) /\ StartsTimers(action.kind)
         /\ Replicates(action.kind, action.from, action.to)
         /\ Reconfigures(action.kind, action.from, action.to)
         /\ trusted' = (trusted /\ action.kind # "revoke_laptop_trust_and_access")
  /\ IF pc < Len(List)
       THEN pc' = pc + 1 /\ UNCHANGED <<mode, completed>>
       ELSE /\ mode' = IF mode = "cutover" THEN "done" ELSE "rest"
            /\ pc' = 1
            /\ completed' = IF mode = "forward" THEN completed + 1 ELSE completed
  /\ UNCHANGED <<plan, troubles>>

Start ==
  /\ mode = "rest"
  /\ mode' = IF completed < N THEN "forward" ELSE "cutover"
  /\ UNCHANGED <<plan, cluster, time, trusted, pc, completed, troubles>>

Soaking == mode = "cutover" /\ List[pc].kind = "complete_full_public_traffic_soak"

Tick ==
  /\ (\E s \in Source : age[s] < RollbackWindow) \/ (Soaking /\ soaked < RollbackWindow)
  /\ age' = [s \in Source |-> IF age[s] < RollbackWindow THEN age[s] + 1 ELSE age[s]]
  /\ soaked' = IF Soaking /\ soaked < RollbackWindow THEN soaked + 1 ELSE soaked
  /\ UNCHANGED <<plan, cluster, trusted, progress, troubles>>

Trouble == troubles < MaxTroubles /\ troubles' = troubles + 1

(* A gate turns false or an action fails: the rollback of this side of the *)
(* joint consensus begins; a cutover stops and is begun again.             *)
Fail ==
  /\ Trouble
  /\ mode \in {"forward", "cutover"}
  /\ mode' = IF mode = "cutover" THEN "rest" ELSE IF Slot \in voters THEN "before" ELSE "after"
  /\ pc' = 1
  /\ UNCHANGED <<plan, cluster, time, trusted, completed>>

(* Within the rollback window the newest replacement may be undone.        *)
RollBackCompleted ==
  /\ Trouble
  /\ mode = "rest" /\ completed > 0
  /\ age[replacements[completed]] < RollbackWindow
  /\ completed' = completed - 1
  /\ mode' = "after"
  /\ UNCHANGED <<plan, cluster, time, trusted, pc>>

(* The group elects another leader on its own.                             *)
Elect ==
  /\ Trouble
  /\ leader' \in voters \ {leader}
  /\ elected' = TRUE
  /\ UNCHANGED <<plan, voters, learners, caughtUp, serving, leased, time, trusted, progress>>

Next == Step \/ Start \/ Tick \/ Fail \/ RollBackCompleted \/ Elect

Spec == Init /\ [][Next]_vars

(* The plan is carried on and time passes; troubles are bounded.           *)
FairSpec == Spec /\ WF_vars(Step) /\ WF_vars(Start) /\ WF_vars(Tick)

-----------------------------------------------------------------------------
(* No member votes on a stale log: a target, a source that is brought back *)
(* from its old disk, and a target that is tried again all catch up first, *)
(* wherever replacements failed before.                                    *)
VotersAreCaughtUp == voters \subseteq caughtUp

(* While leadership moves by the plan's own transfers only, a replacement  *)
(* never removes the leader: because the observed leader comes last, what  *)
(* it is transferred to is not replaced later.                             *)
LeaderIsTransferredFirst ==
  [][(mode = "forward" /\ leader \notin voters') => elected]_vars

(* Whatever failed, between two replacements the group is the one the plan *)
(* expects there, no learner is pending, and each slot's traffic is with   *)
(* its voter.                                                              *)
RestMatchesPlan ==
  mode = "rest" =>
    /\ voters = StableVoters(completed) /\ learners = {}
    /\ \A s \in Source : serving[s] \in voters

(* Well typed, and between two replacements as the plan expects it.        *)
PlanFitsCluster == TypeOK /\ RestMatchesPlan

(* The plan's sourceRetainedThroughRollbackWindow: while a replacement may *)
(* still be rolled back its laptop keeps its trust, although the cutover   *)
(* asks for the end of the windows only before it wipes; and no laptop     *)
(* votes or serves without trust.                                          *)
SourcesRetained ==
  ~trusted =>
    /\ \A s \in Source : age[s] = RollbackWindow
    /\ voters \cap Source = {} /\ \A s \in Source : serving[s] \in Target

(* A plan made once, before the first replacement, can be carried through  *)
(* to its end after any failures and rollbacks: its configurations still   *)
(* fit, and the lease is free then.                                        *)
MigrationCompletes ==
  <>[](mode = "done" /\ voters = Target /\ ~leased /\ \A s \in Source : serving[s] \in Target)

(* docs/laptop-cloud-migration.md on the rollback after joint consensus:   *)
(* "transfer leadership away from the target if necessary" comes before    *)
(* the target is replaced by the source.                                   *)
RollbackSparesLeader ==
  [][(mode = "after" /\ voters' # voters) => leader \in voters']_vars
=============================================================================
