----------------------------- MODULE CampaignPlan -----------------------------
(***************************************************************************)
(* tools/plan-laptop-acceptance-campaign.mjs: from a campaign              *)
(* specification and one preflight observation to an ordered list of fault *)
(* steps.  Everything here is a function of its arguments.  Identifiers,   *)
(* proofs and revisions are kept only as far as the checks compare them.   *)
(***************************************************************************)
EXTENDS Naturals, Sequences, FiniteSets, SequencesExt

CONSTANTS
  Cluster,    \* the three clusters of laptop/topology.toml
  NameOrder,  \* [Cluster -> Nat], localeCompare of the names
  Specs       \* [file -> campaign specification], what the planner may be given

Resource == {"origins", "voters", "members"}
RoleName == {"fiducia", "meta", "stream"}
Fleet == "fleet"

(* What a document is read into, and who names are given to.               *)
ScenarioEntry ==
  [id : STRING, scope : STRING, plane : STRING, leaderSensitive : BOOLEAN, lost : [Resource -> Nat],
   drain : BOOLEAN, backup : BOOLEAN, protected : BOOLEAN]

PlanConstantsOK ==
  /\ IsFiniteSet(Cluster) /\ Cardinality(Cluster) = 3 /\ Fleet \notin Cluster
  /\ NameOrder \in [Cluster -> Nat]
  /\ \A a, b \in Cluster : NameOrder[a] = NameOrder[b] => a = b
  /\ \A file \in DOMAIN Specs : Specs[file].scenarios \in Seq(ScenarioEntry)

-----------------------------------------------------------------------------
(* validateCampaignSpec.                                                   *)
ValidSpec(spec) ==
  /\ spec.maxConcurrentFaults = 1
  /\ \A r \in Resource : spec.minimumHealthy[r] = 2
  /\ spec.soakHours >= 168
  /\ \A i, j \in DOMAIN spec.scenarios :
       spec.scenarios[i].id = spec.scenarios[j].id => i = j
  /\ \A s \in Range(spec.scenarios) : \A r \in Resource :
       s.lost[r] <= 1 /\ 3 - s.lost[r] >= spec.minimumHealthy[r]
  /\ Last(spec.scenarios).id = "seven-day-soak"

(* The gates, proofs and readiness of a preflight are one Boolean each.    *)
ValidPreflight(pre, allowExample) ==
  /\ pre.mode = "example" => allowExample
  /\ pre.mode = "live" => pre.recent
  /\ \A r \in Resource : pre.healthy[r] = Cluster
  /\ Range(pre.roles) \subseteq Cluster
  /\ pre.proofsDistinct /\ pre.gatesTrue

-----------------------------------------------------------------------------
SharedPlanes == {"mesh", "kubernetes", "wan", "power", "storage", "time", "upgrade"}

(* Mutant of LeaderScore: only JetStream roles count.                      *)
ScoreWithoutFiducia(c, s, roles) ==
  IF ~s.leaderSensitive \/ s.plane \notin SharedPlanes \cup {"jetstream"} THEN 0
  ELSE (IF c = roles["meta"] THEN 30 ELSE 0) + (IF c = roles["stream"] THEN 20 ELSE 0)

LeaderScore(c, s, roles) ==
  LET weight(role, own, w) ==
        IF s.plane \in SharedPlanes \cup {own} /\ c = roles[role] THEN w ELSE 0
  IN  IF ~s.leaderSensitive THEN 0
      ELSE weight("fiducia", "fiducia", 100) + weight("meta", "jetstream", 30)
             + weight("stream", "jetstream", 20)

Precedes(a, b, s, roles) ==
  \/ LeaderScore(a, s, roles) < LeaderScore(b, s, roles)
  \/ LeaderScore(a, s, roles) = LeaderScore(b, s, roles) /\ NameOrder[a] < NameOrder[b]

ByScore(s, roles) ==
  CHOOSE order \in [1..3 -> Cluster] :
    \A i, j \in 1..3 : i < j => Precedes(order[i], order[j], s, roles)

(* The designated cluster for recovery and revocation: the least loaded.   *)
RecoveryCluster(roles) == ByScore([leaderSensitive |-> TRUE, plane |-> "power"], roles)[1]

When(b, kind) == IF b THEN <<kind>> ELSE <<>>

(* Mutant of ActionsForStep: nobody takes the lease.                       *)
ActionsUnleased(s) ==
  << "reobserve_roles_health_and_backups", "inject_fault", "verify_degraded_safety",
     "recover_fault", "wait_full_readiness_and_catchup",
     "record_reviewed_result_and_release_fault_lease" >>

ActionsForStep(s) ==
  << "acquire_exclusive_fault_lease", "reobserve_roles_health_and_backups",
     "capture_redacted_before_snapshot" >>
  \o When(s.backup, "verify_backup_checkpoint")
  \o When(s.drain, "remove_target_from_public_and_background_work")
  \o << "inject_fault", "verify_fault_alert_delivery", "verify_degraded_safety" >>
  \o When(s.protected, "verify_fencing_outbox_and_idempotency")
  \o << "recover_fault", "wait_full_readiness_and_catchup",
        "capture_redacted_after_snapshot", "verify_external_probes_and_data_safety" >>
  \o When(s.drain, "restore_target_traffic_and_background_work")
  \o << "record_reviewed_result_and_release_fault_lease" >>

Step(s, target, roles) ==
  [scenario |-> s, target |-> target, actions |-> ActionsForStep(s),
   score |-> IF s.scope = "per-cluster" THEN LeaderScore(target, s, roles) ELSE 0]

StepsOf(s, roles) ==
  IF s.scope = "per-cluster"
    THEN [i \in 1..3 |-> Step(s, ByScore(s, roles)[i], roles)]
    ELSE << Step(s, IF s.id \in {"seven-day-soak", "database-clean-room-restore"}
                      THEN Fleet ELSE RecoveryCluster(roles), roles) >>

(* The plan: for each scenario its steps, one after the other; a place in  *)
(* it is a scenario and a step of that.  The fingerprint is the number of  *)
(* the observation it is built from, which observedAt stands for in the    *)
(* digested document.                                                      *)
AcceptancePlan(spec, pre) ==
  [fingerprint |-> pre.observedAt, mode |-> pre.mode, roles |-> pre.roles,
   steps |-> [i \in DOMAIN spec.scenarios |-> StepsOf(spec.scenarios[i], pre.roles)]]

Places(p) == {n \in (DOMAIN p.steps) \X (1..3) : n[2] \in DOMAIN p.steps[n[1]]}
At(p, n) == p.steps[n[1]][n[2]]
Before(m, n) == m[1] < n[1] \/ (m[1] = n[1] /\ m[2] < n[2])

(* simulateAcceptancePlan: the rehearsal every printed plan has passed.    *)
Position(st, kind) == SelectInSeq(st.actions, LAMBDA k : k = kind)

OrderIsSafe(st) ==
  LET at(kind) == Position(st, kind)
  IN  /\ at("inject_fault") > 0
      /\ at("inject_fault") < at("verify_degraded_safety")
      /\ at("verify_degraded_safety") < at("recover_fault")
      /\ at("recover_fault") < at("wait_full_readiness_and_catchup")
      /\ at("wait_full_readiness_and_catchup")
           < at("record_reviewed_result_and_release_fault_lease")

Rehearses(p) ==
  /\ \A n \in Places(p) :
       OrderIsSafe(At(p, n)) /\ \A r \in Resource : 3 - At(p, n).scenario.lost[r] >= 2
  /\ \A m, n \in Places(p) :
       (Before(m, n) /\ At(p, m).scenario.id = At(p, n).scenario.id)
         => At(p, m).score <= At(p, n).score
  /\ Last(Last(p.steps)).scenario.id = "seven-day-soak"
=============================================================================
