-------------------------- MODULE AcceptanceCampaign --------------------------
(***************************************************************************)
(* The laptop acceptance campaign: a preflight is observed, a plan built   *)
(* from it, operators carry the plan's actions out one by one, and the     *)
(* results they report are checked by                                      *)
(* tools/validate-laptop-acceptance-results.mjs.  The plan and the check   *)
(* are code; the operators and the fleet are external and do what the      *)
(* plan's actions, its stop conditions and the campaign document say.      *)
(* Leaders move at any time, steps fail and are run again, a campaign may  *)
(* be planned anew half way, and the operators need not hold the same plan. *)
(***************************************************************************)
EXTENDS CampaignPlan

CONSTANTS
  MovingRoles,   \* the roles an election may move, a subset of RoleName
  InitialRoles,  \* who may lead what at the start, a subset of [RoleName -> Cluster]
  Operator,
  None,
  PlannerAllows, ValidatorAllows,   \* whether each tool is given --allow-example
  MaxObservations, MaxElections, MaxAttempts, MaxFailures   \* bounds

VARIABLES
  roles,      \* the fleet: who leads what
  unhealthy,  \* the fleet: [Resource -> clusters lost or still catching up]
  faults,     \* the fleet: targets of faults not yet recovered
  elections,
  preflight,  \* the latest observation, or None
  plans,      \* every plan printed so far
  lease,      \* holder of the exclusive fault lease
  doing,      \* [Operator -> the step under way, of which plan, and its next action, or None]
  attempts,   \* steps carried out: [plan, step, passed], in order
  report      \* history: the results that were accepted and for which plan, or None

Job == [plan : Nat, step : Nat \X Nat, at : Nat, failing : BOOLEAN]

CampaignConstantsOK ==
  /\ PlanConstantsOK
  /\ MovingRoles \subseteq RoleName /\ InitialRoles \subseteq [RoleName -> Cluster]
  /\ None \notin Operator \cup Job

(* stepId; a result repeats the scenario and the target it is made of.     *)
StepId(st) == <<st.scenario.id, st.target>>
StepIds(p) == {StepId(At(p, n)) : n \in Places(p)}

(* The plan an operator works from; plans are known by their fingerprints. *)
PlanOf(o) == CHOOSE p \in plans : p.fingerprint = doing[o].plan

fleet == <<roles, unhealthy, faults, elections>>
planning == <<preflight, plans>>
vars == <<fleet, planning, lease, doing, attempts, report>>

TypeOK ==
  /\ roles \in [RoleName -> Cluster]
  /\ unhealthy \in [Resource -> SUBSET Cluster]
  /\ faults \subseteq Cluster \cup {Fleet}
  /\ lease \in Operator \cup {None}
  /\ doing \in [Operator -> Job \cup {None}]
  /\ \A o \in Operator : doing[o] # None =>
       /\ \E p \in plans : p.fingerprint = doing[o].plan
       /\ doing[o].step \in Places(PlanOf(o))
       /\ doing[o].at \in DOMAIN At(PlanOf(o), doing[o].step).actions
  /\ \A a \in Range(attempts) : \E p \in plans : p.fingerprint = a.plan
  /\ \A p \in plans :
       {a.step : a \in {x \in Range(attempts) : x.plan = p.fingerprint}} \subseteq StepIds(p)

Init ==
  /\ roles \in InitialRoles
  /\ unhealthy = [r \in Resource |-> {}]
  /\ faults = {} /\ elections = 0
  /\ preflight = None /\ plans = {}
  /\ lease = None
  /\ doing = [o \in Operator |-> None]
  /\ attempts = <<>> /\ report = None

-----------------------------------------------------------------------------
(* The fleet.  A new leader is a member that has caught up.                *)
Plane(role) == IF role = "fiducia" THEN "voters" ELSE "members"

Election(role, c) ==
  /\ elections < MaxElections
  /\ c # roles[role] /\ c \notin unhealthy[Plane(role)]
  /\ roles' = [roles EXCEPT ![role] = c]
  /\ elections' = elections + 1
  /\ UNCHANGED <<unhealthy, faults, planning, lease, doing, attempts, report>>

CatchUp(c) ==
  /\ c \notin faults
  /\ \E r \in Resource : c \in unhealthy[r]
  /\ unhealthy' = [r \in Resource |-> unhealthy[r] \ {c}]
  /\ UNCHANGED <<roles, faults, elections, planning, lease, doing, attempts, report>>

-----------------------------------------------------------------------------
Observations == Cardinality(plans) + IF preflight = None THEN 0 ELSE 1

(* A live preflight is a reading of the fleet; an example one is a file.   *)
Observe(mode, gates) ==
  /\ report = None
  /\ Observations < MaxObservations /\ preflight = None
  /\ \A o \in Operator : doing[o] = None
  /\ preflight' =
       [mode |-> mode, observedAt |-> Observations + 1, recent |-> TRUE, roles |-> roles,
        healthy |-> [r \in Resource |-> Cluster \ unhealthy[r]],
        proofsDistinct |-> TRUE, gatesTrue |-> gates]
  /\ UNCHANGED <<fleet, plans, lease, doing, attempts, report>>

TenMinutesPass ==
  /\ preflight # None /\ preflight.recent
  /\ preflight' = [preflight EXCEPT !.recent = FALSE]
  /\ UNCHANGED <<fleet, plans, lease, doing, attempts, report>>

Discard ==
  /\ preflight # None /\ ~preflight.recent
  /\ preflight' = None
  /\ UNCHANGED <<fleet, plans, lease, doing, attempts, report>>

(* main: the plan is printed only when its rehearsal passes.               *)
BuildAcceptancePlan(file) ==
  /\ preflight # None
  /\ ValidSpec(Specs[file]) /\ ValidPreflight(preflight, PlannerAllows)
  /\ LET p == AcceptancePlan(Specs[file], preflight)
     IN  Rehearses(p) /\ plans' = plans \cup {p}
  /\ preflight' = None
  /\ UNCHANGED <<fleet, lease, doing, attempts, report>>

-----------------------------------------------------------------------------
Passed(p) == {a.step : a \in {x \in Range(attempts) : x.plan = p.fingerprint /\ x.passed}}
Open(p) == {n \in Places(p) : StepId(At(p, n)) \notin Passed(p)}
StepOf(o) == At(PlanOf(o), doing[o].step)
ScenarioOf(o) == StepOf(o).scenario
Kind(o) == StepOf(o).actions[doing[o].at]

(* An operator turns to the first step without a result in some plan that  *)
(* was printed, the newest or an earlier one.                              *)
TakeStep(o) ==
  /\ preflight = None /\ report = None
  /\ doing[o] = None /\ Len(attempts) < MaxAttempts
  /\ \E p \in plans : \E n \in Open(p) :
       /\ ~\E m \in Open(p) : Before(m, n)
       /\ doing' = [doing EXCEPT ![o] =
            [plan |-> p.fingerprint, step |-> n, at |-> 1, failing |-> FALSE]]
  /\ UNCHANGED <<fleet, planning, lease, attempts, report>>

Advance(o) == doing' = [doing EXCEPT ![o].at = @ + 1]
AllHealthy == \A r \in Resource : unhealthy[r] = {}

AcquireLease(o) ==
  /\ doing[o] # None /\ Kind(o) = "acquire_exclusive_fault_lease"
  /\ IF lease = None /\ doing[o].step \in Open(PlanOf(o))
       THEN lease' = o /\ Advance(o)
       ELSE lease' = lease /\ doing' = [doing EXCEPT ![o] = None]
  /\ UNCHANGED <<fleet, planning, attempts, report>>

(* Stop conditions: something active, unhealthy or not caught up.          *)
Reobserve(o) ==
  /\ doing[o] # None /\ Kind(o) = "reobserve_roles_health_and_backups"
  /\ AllHealthy
  /\ Advance(o)
  /\ UNCHANGED <<fleet, planning, lease, attempts, report>>

InjectFault(o) ==
  /\ doing[o] # None /\ Kind(o) = "inject_fault"
  /\ LET target == StepOf(o).target
     IN  /\ faults' = faults \cup {target}
         /\ unhealthy' = [r \in Resource |->
              IF ScenarioOf(o).lost[r] = 1 THEN unhealthy[r] \cup ({target} \cap Cluster)
              ELSE unhealthy[r]]
  /\ Advance(o)
  /\ UNCHANGED <<roles, elections, planning, lease, attempts, report>>

Failures == Cardinality({i \in DOMAIN attempts : ~attempts[i].passed})

(* A check fails, or the stop authority orders the recovery: the step goes *)
(* on with its recovery and is recorded as failed.                         *)
Checks ==
  {"verify_fault_alert_delivery", "verify_degraded_safety",
   "verify_fencing_outbox_and_idempotency", "verify_external_probes_and_data_safety"}

Check(o) ==
  /\ doing[o] # None /\ Kind(o) \in Checks
  /\ \E failing \in BOOLEAN :
       /\ IF doing[o].failing THEN failing ELSE failing => Failures < MaxFailures
       /\ doing' = [doing EXCEPT ![o] =
         [plan |-> @.plan, step |-> @.step, at |-> @.at + 1, failing |-> failing]]
  /\ UNCHANGED <<fleet, planning, lease, attempts, report>>

Routine ==
  {"capture_redacted_before_snapshot", "verify_backup_checkpoint",
   "remove_target_from_public_and_background_work", "capture_redacted_after_snapshot",
   "restore_target_traffic_and_background_work"}

DoRoutine(o) ==
  /\ doing[o] # None /\ Kind(o) \in Routine
  /\ Advance(o)
  /\ UNCHANGED <<fleet, planning, lease, attempts, report>>

RecoverFault(o) ==
  /\ doing[o] # None /\ Kind(o) = "recover_fault"
  /\ faults' = faults \ {StepOf(o).target}
  /\ Advance(o)
  /\ UNCHANGED <<roles, unhealthy, elections, planning, lease, attempts, report>>

WaitFullReadiness(o) ==
  /\ doing[o] # None /\ Kind(o) = "wait_full_readiness_and_catchup"
  /\ AllHealthy
  /\ Advance(o)
  /\ UNCHANGED <<fleet, planning, lease, attempts, report>>

RecordAndRelease(o) ==
  /\ doing[o] # None /\ Kind(o) = "record_reviewed_result_and_release_fault_lease"
  /\ attempts' = Append(attempts,
       [plan |-> doing[o].plan, step |-> StepId(StepOf(o)), passed |-> ~doing[o].failing])
  /\ lease' = None
  /\ doing' = [doing EXCEPT ![o] = None]
  /\ UNCHANGED <<fleet, planning, report>>

-----------------------------------------------------------------------------
(* Results.  A document is typed in for one plan: an entry per stepId, with *)
(* a status and references to proofs.  An attempt leaves several proofs;   *)
(* <<i, k>> refers to the k-th of attempt i, and to nothing when i is 0.   *)
Entry(i, sheet, status) == [status |-> status, proofs |-> {i} \X sheet]
Outcome(i) == IF i # 0 /\ attempts[i].passed THEN "passed" ELSE "failed"

(* Entries made of the latest attempts of the steps, under whatever plan,  *)
(* with their outcomes told or glossed over; or of the latest under this   *)
(* plan, glossed over, and one entry vouched for by the first or the last  *)
(* attempt or none, with proofs another entry may have, or with too few.   *)
Latest(q, fs) ==
  [id \in StepIds(q) |-> SelectLastInSeq(attempts, LAMBDA a : a.step = id /\ a.plan \in fs)]

Documents(q) ==
  LET any == Latest(q, {p.fingerprint : p \in plans})
      own == Latest(q, {q.fingerprint})
      glossed(latest) == [id \in StepIds(q) |-> Entry(latest[id], 1..3, "passed")]
      mine == glossed(own)
  IN  {glossed(any), [id \in StepIds(q) |-> Entry(any[id], 1..3, Outcome(any[id]))]} \cup
      {[mine EXCEPT ![id] = Entry(i, sheet, "passed")] :
         id \in StepIds(q), i \in {0, 1, Len(attempts)}, sheet \in {1..3, 4..6, 4..5}}

ProofList(entries) ==
  /\ \A id \in DOMAIN entries : Cardinality(entries[id].proofs) >= 3
  /\ \A a, b \in DOMAIN entries : a # b => entries[a].proofs \cap entries[b].proofs = {}

(* Mutant of ValidResults: the fingerprints are not compared.              *)
ValidForAnyPlan(p, doc) ==
  /\ doc.mode = "example" => ValidatorAllows
  /\ DOMAIN doc.entries = StepIds(p)
  /\ \A id \in DOMAIN doc.entries : doc.entries[id].status = "passed"
  /\ ProofList(doc.entries)

ValidResults(p, doc) ==
  /\ doc.mode = "example" => ValidatorAllows
  /\ doc.fingerprint = p.fingerprint
  /\ DOMAIN doc.entries = StepIds(p)
  /\ \A id \in DOMAIN doc.entries : doc.entries[id].status = "passed"
  /\ ProofList(doc.entries)

AcceptResults ==
  /\ report = None /\ preflight = None /\ \A o \in Operator : doing[o] = None
  /\ \E q \in plans : \E entries \in Documents(q), p \in plans, mode \in {"example", "live"} :
       LET doc == [mode |-> mode, fingerprint |-> q.fingerprint, entries |-> entries]
       IN  /\ ValidResults(p, doc)
           /\ report' = [against |-> p.fingerprint, fingerprint |-> doc.fingerprint,
                         vouched |-> [id \in DOMAIN entries |-> {r[1] : r \in entries[id].proofs}]]
  /\ UNCHANGED <<fleet, planning, lease, doing, attempts>>

Next ==
  \/ \E role \in MovingRoles, c \in Cluster : Election(role, c)
  \/ \E c \in Cluster : CatchUp(c)
  \/ \E mode \in {"example", "live"}, gates \in BOOLEAN : Observe(mode, gates)
  \/ TenMinutesPass \/ Discard
  \/ \E file \in DOMAIN Specs : BuildAcceptancePlan(file)
  \/ \E o \in Operator :
       \/ TakeStep(o) \/ AcquireLease(o) \/ Reobserve(o) \/ InjectFault(o) \/ Check(o)
       \/ DoRoutine(o) \/ RecoverFault(o) \/ WaitFullReadiness(o) \/ RecordAndRelease(o)
  \/ AcceptResults

Spec == Init /\ [][Next]_vars

-----------------------------------------------------------------------------
(* Operators who follow the plan, take the lease and wait for the catch-up *)
(* never leave fewer than two healthy voters, members or public origins,   *)
(* whatever steps fail, are repeated or are planned anew.                  *)
TwoOfThreeStayHealthy == \A r \in Resource : Cardinality(Cluster \ unhealthy[r]) >= 2

Injected(o) ==
  doing[o] # None /\ \E i \in 1..(doing[o].at - 1) : StepOf(o).actions[i] = "inject_fault"

(* The Fiducia leader the plan was built for is faulted by a stateful      *)
(* scenario only after that scenario has passed on both other clusters,    *)
(* and never by a recovery or revocation that is tried once.               *)
ObservedLeaderGoesLast ==
  \A o \in Operator :
    (Injected(o) /\ StepOf(o).target = PlanOf(o).roles["fiducia"]) =>
      /\ ScenarioOf(o).scope = "per-cluster"
      /\ (ScenarioOf(o).leaderSensitive /\ ScenarioOf(o).plane \in SharedPlanes \cup {"fiducia"})
           => \A c \in Cluster \ {StepOf(o).target} : <<ScenarioOf(o).id, c>> \in Passed(PlanOf(o))

(* Nobody but the reviewers can see what a reference refers to.  Where     *)
(* they find that each of an accepted document's is of a passed attempt of *)
(* its step under the document's plan, the plan the document was checked   *)
(* against was carried out from its first step to its last in its order,   *)
(* whatever failed, was repeated, or was done under another plan meanwhile. *)
Truthful(r) ==
  \A id \in DOMAIN r.vouched : \A i \in r.vouched[id] :
    i \in DOMAIN attempts /\ attempts[i] = [plan |-> r.fingerprint, step |-> id, passed |-> TRUE]

TruthfulResultsFollowThePlan ==
  (report # None /\ Truthful(report)) =>
    \E p \in plans :
      /\ p.fingerprint = report.against
      /\ DOMAIN report.vouched = StepIds(p)
      /\ \A id \in StepIds(p) : report.vouched[id] # {}
      /\ \A m, n \in Places(p) : Before(m, n) =>
           \A i \in report.vouched[StepId(At(p, m))], j \in report.vouched[StepId(At(p, n))] : i < j
=============================================================================
