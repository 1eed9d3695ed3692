--------------------------- MODULE OperatorObserver ---------------------------
(***************************************************************************)
(* The Fiducia operator (operator/src): an observer that reads two         *)
(* StatefulSets and the namespace's PVCs and patches the status of its     *)
(* FiduciaCluster resource.  It watches the resource only; changes of the  *)
(* workloads reach it through the periodic requeue.                        *)
(*                                                                         *)
(* One reconciliation is a sequence of API calls; the cluster may change   *)
(* between any two of them.  The resource it works on is the watch cache's *)
(* copy at the start.  Any call may fail, and the process may be replaced  *)
(* while its last patch is still on the way.                               *)
(***************************************************************************)
EXTENDS Naturals, FiniteSets, Sequences

CONSTANTS
  NodeSet, BrainSet,  \* spec.nodeStatefulSet and spec.brainStatefulSet
  None,
  MaxReplicas,        \* bound: replicas of a StatefulSet
  Matching,           \* [StatefulSet -> the StatefulSets whose claims' names
                      \*   start with data-<name>-]
  MaxChanges,         \* bound: changes of the cluster from outside
  MaxFaults           \* bound: failed API calls and process crashes

StatefulSet == {NodeSet, BrainSet}

ASSUME ObserverConstantsOK ==
  /\ MaxReplicas \in Nat \ {0} /\ MaxChanges \in Nat /\ MaxFaults \in Nat
  /\ Matching \in [StatefulSet -> SUBSET StatefulSet]
  /\ \A s \in StatefulSet : s \in Matching[s]

VARIABLES
  workload,  \* [StatefulSet -> its spec and status, or None]
  bound,     \* the PVCs in phase Bound, as <<StatefulSet, ordinal>>
  cr,        \* the FiduciaCluster at the API server
  cached,    \* the controller's watch cache of it
  due,       \* whether a reconciliation is queued
  timer,     \* whether a requeue is scheduled
  step,      \* "idle" or the API call the reconciliation makes next
  cluster,   \* the reconciliation's copy of the resource
  claims,    \* the PVC list it got
  seen,      \* [StatefulSet -> observation, or None]: what it has read
  wire,      \* status patches on their way to the API server
  changes, faults,
  specOf     \* history: [generation -> whether the spec names a brain]

world == <<workload, bound>>
controller == <<cached, due, timer, step, cluster, claims, seen>>
bounds == <<changes, faults, specOf>>
vars == <<world, cr, controller, wire, bounds>>

Ordinal == 0..(MaxReplicas - 1)
Workload == [replicas : 0..MaxReplicas, ready : 0..MaxReplicas,
             guarded : BOOLEAN, contract : BOOLEAN]
Observation == [exists : BOOLEAN, expected : Nat, ready : Nat, bound : Nat,
                guarded : BOOLEAN, contract : BOOLEAN]

(* observe_stateful_set for a StatefulSet that does not exist.             *)
NotFound == [exists |-> FALSE, expected |-> 0, ready |-> 0, bound |-> 0,
             guarded |-> FALSE, contract |-> FALSE]

(* observe_stateful_set: bound PVCs are counted by the prefix of the name, *)
(* whatever their ordinal.                                                 *)
Observe(s, w, pvcs) ==
  IF w = None THEN NotFound
  ELSE [exists |-> TRUE, expected |-> w.replicas, ready |-> w.ready,
        bound |-> Cardinality({c \in pvcs : c[1] \in Matching[s]}),
        guarded |-> w.guarded, contract |-> w.contract]

Observed(withBrain) == IF withBrain THEN {NodeSet, BrainSet} ELSE {NodeSet}

StorageReady(ws) ==
  \A s \in DOMAIN ws : ws[s].contract /\ ws[s].bound >= ws[s].expected

Ready(ws) ==
  /\ StorageReady(ws)
  /\ \A s \in DOMAIN ws : ws[s].exists /\ ws[s].guarded /\ ws[s].ready >= ws[s].expected

(* build_status; the other conditions follow from the workloads as well.   *)
BuildStatus(generation, ws) ==
  [generation |-> generation, workloads |-> ws,
   storageReady |-> StorageReady(ws), phase |-> IF Ready(ws) THEN "Observed" ELSE "Degraded"]

IsStatus(st) ==
  /\ DOMAIN st = {"generation", "workloads", "storageReady", "phase"}
  /\ \E b \in BOOLEAN : st.workloads \in [Observed(b) -> Observation]
IsCluster(c) ==
  /\ c.generation \in Nat /\ c.withBrain \in BOOLEAN
  /\ c.status # None => IsStatus(c.status)

TypeOK ==
  /\ workload \in [StatefulSet -> Workload \cup {None}]
  /\ bound \subseteq StatefulSet \X Ordinal
  /\ IsCluster(cr) /\ IsCluster(cached) /\ (cluster # None => IsCluster(cluster))
  /\ due \in BOOLEAN /\ timer \in BOOLEAN
  /\ step \in {"idle", "list", "node", "brain", "compare", "patch"}
  /\ claims \subseteq StatefulSet \X Ordinal
  /\ seen \in [StatefulSet -> Observation \cup {None}]
  /\ \A st \in wire : IsStatus(st)
  /\ changes \in 0..MaxChanges /\ faults \in 0..MaxFaults

(* The operator starts next to one healthy node StatefulSet; the watch has *)
(* delivered the resource and queued it.                                   *)
Init ==
  /\ workload = [s \in StatefulSet |->
       IF s = NodeSet THEN [replicas |-> MaxReplicas, ready |-> MaxReplicas,
                            guarded |-> TRUE, contract |-> TRUE] ELSE None]
  /\ bound = {NodeSet} \X Ordinal
  /\ cr = [generation |-> 1, withBrain |-> FALSE, status |-> None]
  /\ cached = cr
  /\ due = TRUE /\ timer = FALSE
  /\ step = "idle" /\ cluster = None /\ claims = {}
  /\ seen = [s \in StatefulSet |-> None]
  /\ wire = {}
  /\ changes = 0 /\ faults = 0
  /\ specOf = <<FALSE>>

-----------------------------------------------------------------------------
(* The cluster around the operator.                                        *)

Change == changes < MaxChanges /\ changes' = changes + 1

SetWorkload(s, w) ==
  /\ Change
  /\ workload' = [workload EXCEPT ![s] = w]
  /\ UNCHANGED <<bound, cr, controller, wire, faults, specOf>>

(* Scaling keeps the claims (retention policy Retain).                     *)
Scale(s, n) ==
  workload[s] # None /\ SetWorkload(s, [workload[s] EXCEPT !.replicas = n])
PodsReady(s, n) ==
  workload[s] # None /\ SetWorkload(s, [workload[s] EXCEPT !.ready = n])
SetPolicy(s, guarded, contract) ==
  workload[s] # None
    /\ SetWorkload(s, [workload[s] EXCEPT !.guarded = guarded, !.contract = contract])
Create(s) ==
  workload[s] = None
    /\ SetWorkload(s, [replicas |-> 1, ready |-> 0, guarded |-> TRUE, contract |-> TRUE])
Delete(s) == workload[s] # None /\ SetWorkload(s, None)

(* A claim is bound for a pod the StatefulSet has, or stops being Bound.   *)
ClaimChanges(s, i) ==
  /\ Change
  /\ \/ /\ workload[s] # None /\ i < workload[s].replicas
        /\ bound' = bound \cup {<<s, i>>}
     \/ bound' = bound \ {<<s, i>>}
  /\ UNCHANGED <<workload, cr, controller, wire, faults, specOf>>

EditSpec ==
  /\ Change
  /\ cr' = [cr EXCEPT !.generation = @ + 1, !.withBrain = ~@]
  /\ specOf' = Append(specOf, cr'.withBrain)
  /\ UNCHANGED <<world, controller, wire, faults>>

-----------------------------------------------------------------------------
(* The controller runtime.                                                 *)

(* The watch delivers the newest resource and queues it: after an edit,    *)
(* and after the operator's own status patch.                              *)
WatchEvent ==
  /\ cached # cr
  /\ cached' = cr
  /\ due' = TRUE
  /\ UNCHANGED <<world, cr, timer, step, cluster, claims, seen, wire, bounds>>

TimerFires ==
  /\ timer
  /\ timer' = FALSE /\ due' = TRUE
  /\ UNCHANGED <<world, cr, cached, step, cluster, claims, seen, wire, bounds>>

(* reconcile is called with the cache's copy; one object is never          *)
(* reconciled twice at once.                                               *)
StartReconcile ==
  /\ due /\ step = "idle"
  /\ due' = FALSE /\ timer' = FALSE
  /\ step' = "list" /\ cluster' = cached
  /\ UNCHANGED <<world, cr, cached, claims, seen, wire, bounds>>

(* pvcs.list(...).await?                                                   *)
ListPvcs ==
  /\ step = "list"
  /\ claims' = bound
  /\ step' = "node"
  /\ UNCHANGED <<world, cr, cached, due, timer, cluster, seen, wire, bounds>>

(* stateful_sets.get_opt(...).await?, and the brain's if there is one.     *)
GetStatefulSet ==
  /\ step \in {"node", "brain"}
  /\ LET s == IF step = "node" THEN NodeSet ELSE BrainSet
     IN  seen' = [seen EXCEPT ![s] = Observe(s, workload[s], claims)]
  /\ step' = IF step = "node" /\ cluster.withBrain THEN "brain" ELSE "compare"
  /\ UNCHANGED <<world, cr, cached, due, timer, cluster, claims, wire, bounds>>

(* Mutant of DesiredStatus: the generation is read from the cache again.   *)
StatusOfNewestGeneration ==
  BuildStatus(cached.generation, [s \in Observed(cluster.withBrain) |-> seen[s]])

DesiredStatus ==
  BuildStatus(cluster.generation, [s \in Observed(cluster.withBrain) |-> seen[s]])

Idle ==
  /\ step' = "idle" /\ cluster' = None /\ claims' = {}
  /\ seen' = [s \in StatefulSet |-> None]

(* Mutant of UpToDate: the comparison is left out.                         *)
NeverUpToDate == step = "compare" /\ FALSE

UpToDate == step = "compare" /\ cluster.status = DesiredStatus

(* Mutant of Unchanged: nothing is requeued, as Action::await_change().    *)
UnchangedAwaitsChange ==
  /\ UpToDate
  /\ Idle
  /\ UNCHANGED <<world, cr, cached, due, timer, wire, bounds>>

(* Nothing to patch: Ok(Action::requeue(...)).                             *)
Unchanged ==
  /\ UpToDate
  /\ Idle /\ timer' = TRUE
  /\ UNCHANGED <<world, cr, cached, due, wire, bounds>>

SendPatch ==
  /\ step = "compare" /\ ~UpToDate
  /\ wire' = wire \cup {DesiredStatus}
  /\ step' = "patch"
  /\ UNCHANGED <<world, cr, cached, due, timer, cluster, claims, seen, bounds>>

(* The API server applies a patch; the answer reaches the reconciliation   *)
(* that sent it, unless its process is gone.                               *)
PatchLands(st) ==
  /\ cr' = [cr EXCEPT !.status = st]
  /\ wire' = wire \ {st}
  /\ IF step = "patch" /\ st = DesiredStatus
       THEN Idle /\ timer' = TRUE
       ELSE UNCHANGED <<step, cluster, claims, seen, timer>>
  /\ UNCHANGED <<world, cached, due, bounds>>

Fault == faults < MaxFaults /\ faults' = faults + 1

(* A call fails: error_policy requeues.  A failed patch may be applied all *)
(* the same.                                                               *)
ApiError ==
  /\ Fault
  /\ step # "idle" /\ step # "compare"
  /\ IF step = "patch"
       THEN wire' = wire \/ wire' = wire \ {DesiredStatus}
       ELSE UNCHANGED wire
  /\ Idle /\ timer' = TRUE
  /\ UNCHANGED <<world, cr, cached, due, changes, specOf>>

(* The pod is replaced (strategy Recreate): the new process lists the      *)
(* resource first.                                                         *)
Restart ==
  /\ Fault
  /\ Idle
  /\ cached' = cr /\ due' = TRUE /\ timer' = FALSE
  /\ UNCHANGED <<world, cr, wire, changes, specOf>>

World ==
  \/ \E s \in StatefulSet :
       \/ \E n \in 0..MaxReplicas : Scale(s, n) \/ PodsReady(s, n)
       \/ \E g, c \in BOOLEAN : SetPolicy(s, g, c)
       \/ Create(s) \/ Delete(s)
       \/ \E i \in Ordinal : ClaimChanges(s, i)
  \/ EditSpec

Next ==
  \/ World
  \/ WatchEvent \/ TimerFires
  \/ StartReconcile \/ ListPvcs \/ GetStatefulSet \/ Unchanged \/ SendPatch
  \/ \E st \in wire : PatchLands(st)
  \/ ApiError \/ Restart

Spec == Init /\ [][Next]_vars

(* The runtime delivers watch events, fires timers and runs reconcile; API *)
(* calls are answered in the end.  Faults and outside changes are bounded, *)
(* so in the end the cluster is quiet and calls succeed.                   *)
FairSpec ==
  /\ Spec
  /\ WF_vars(WatchEvent) /\ WF_vars(TimerFires)
  /\ WF_vars(StartReconcile) /\ WF_vars(ListPvcs) /\ WF_vars(GetStatefulSet)
  /\ WF_vars(Unchanged) /\ WF_vars(SendPatch)
  /\ WF_vars(\E st \in wire : PatchLands(st))

-----------------------------------------------------------------------------
(* The status a reconciliation of the present world would compute.         *)
TrueStatus ==
  BuildStatus(cr.generation,
    [s \in Observed(cr.withBrain) |-> Observe(s, workload[s], bound)])

(* A status never describes one generation of the spec under the number of *)
(* another: the workloads it lists are those the spec of its               *)
(* observedGeneration names, although the cache may move on, or lag,       *)
(* while reconcile runs.                                                   *)
StatusMatchesGeneration ==
  cr.status # None =>
    DOMAIN cr.status.workloads = Observed(specOf[cr.status.generation])

(* Through torn reads, a lagging cache, failed calls and replaced pods the  *)
(* operator's copies stay well formed and no status mixes two generations. *)
StatusIsOrderly == TypeOK /\ StatusMatchesGeneration

(* Once the cluster is quiet, the status tells the truth and keeps doing   *)
(* so: no missed workload change, torn read, stale cache, failed call or   *)
(* late patch of a replaced process leaves a wrong status for good.        *)
StatusSettles == <>[](cr.status = TrueStatus)

(* The operator's own patch wakes it up through its watch; comparing with  *)
(* the cached status ends the loop: in the end nothing is sent any more.   *)
PatchingStops == <>[](wire = {})

(* operator/README.md: the status reports "how many expected data PVCs are *)
(* Bound", and StorageReady says that each workload has a retained, bound  *)
(* data PVC.  An up-to-date status with StorageReady then means that every *)
(* ordinal of every workload has its own claim bound.                      *)
StorageReadyMeansBound ==
  (cr.status = TrueStatus /\ cr.status.storageReady) =>
    \A s \in DOMAIN cr.status.workloads :
      \A i \in Ordinal : i < workload[s].replicas => <<s, i>> \in bound
=============================================================================
