------------------------- MODULE OperatorObserverProofs -------------------------
(***************************************************************************)
(* The operator for any number of replicas, outside changes and faults:    *)
(* a status never mixes two generations of the spec.  Every copy of the    *)
(* resource that is about - at the API server, in the watch cache, in the  *)
(* reconciliation under way - pairs a generation with the spec it had, and *)
(* a status is made from one copy only.                                    *)
(***************************************************************************)
EXTENDS OperatorObserver, FiniteSetTheorems, TLAPS

Status ==
  [generation : Nat, workloads : UNION {[Observed(b) -> Observation] : b \in BOOLEAN},
   storageReady : BOOLEAN, phase : {"Observed", "Degraded"}]
ClusterCopy == [generation : Nat, withBrain : BOOLEAN, status : Status \cup {None}]

(* None is none of the things it stands in for.                            *)
NoneIsNew == None \notin Workload /\ None \notin Observation
               /\ None \notin Status /\ None \notin ClusterCopy

WellFormed ==
  /\ workload \in [StatefulSet -> Workload \cup {None}]
  /\ bound \subseteq StatefulSet \X Ordinal
  /\ cr \in ClusterCopy /\ cached \in ClusterCopy /\ cluster \in ClusterCopy \cup {None}
  /\ due \in BOOLEAN /\ timer \in BOOLEAN
  /\ step \in {"idle", "list", "node", "brain", "compare", "patch"}
  /\ claims \subseteq StatefulSet \X Ordinal
  /\ seen \in [StatefulSet -> Observation \cup {None}]
  /\ wire \subseteq Status
  /\ changes \in 0..MaxChanges /\ faults \in 0..MaxFaults
  /\ specOf \in Seq(BOOLEAN)

(* What a reconciliation has got hold of by each of its calls.             *)
HasRead ==
  /\ step # "idle" => cluster # None
  /\ step \in {"brain", "compare", "patch"} => seen[NodeSet] # None
  /\ step = "brain" => cluster.withBrain
  /\ step \in {"compare", "patch"} /\ cluster.withBrain => seen[BrainSet] # None

(* A generation goes with the spec that had it, in copies and statuses.    *)
Pairs(c) == c.generation \in 1..Len(specOf) /\ c.withBrain = specOf[c.generation]
Describes(st) ==
  st.generation \in 1..Len(specOf) /\ DOMAIN st.workloads = Observed(specOf[st.generation])

CopiesPair ==
  /\ cr.generation = Len(specOf)
  /\ Pairs(cr) /\ Pairs(cached) /\ (cluster # None => Pairs(cluster))

StatusesDescribe ==
  /\ cr.status # None => Describes(cr.status)
  /\ \A st \in wire : Describes(st)

Inv == WellFormed /\ HasRead /\ CopiesPair /\ StatusesDescribe

-----------------------------------------------------------------------------
LEMMA StatusHasForm ==
  ASSUME NEW st \in Status
  PROVE  IsStatus(st)
<1>1. DOMAIN st = {"generation", "workloads", "storageReady", "phase"}
  BY DEF Status
<1>2. \E b \in BOOLEAN : st.workloads \in [Observed(b) -> Observation]
  BY DEF Status
<1> QED
  BY <1>1, <1>2 DEF IsStatus

LEMMA InvIsOrderly ==
  ASSUME Inv
  PROVE  StatusIsOrderly
<1>1. \A c \in ClusterCopy : IsCluster(c)
  BY StatusHasForm DEF ClusterCopy, IsCluster
<1>2. TypeOK
  BY <1>1, StatusHasForm DEF Inv, WellFormed, TypeOK
<1>3. StatusMatchesGeneration
  BY DEF Inv, StatusesDescribe, Describes, StatusMatchesGeneration
<1> QED
  BY <1>2, <1>3 DEF StatusIsOrderly

(* observe_stateful_set counts finitely many claims.                       *)
LEMMA ObserveType ==
  ASSUME NEW s, NEW w \in Workload \cup {None}, NEW pvcs \in SUBSET (StatefulSet \X Ordinal)
  PROVE  Observe(s, w, pvcs) \in Observation
<1> DEFINE counted == {c \in pvcs : c[1] \in Matching[s]}
<1>1. IsFiniteSet(StatefulSet) /\ IsFiniteSet(Ordinal)
  <2>1. IsFiniteSet({NodeSet})
    BY FS_Singleton
  <2>2. IsFiniteSet({NodeSet} \cup {BrainSet}) /\ StatefulSet = {NodeSet} \cup {BrainSet}
    BY <2>1, FS_AddElement DEF StatefulSet
  <2>3. 0 \in Int /\ MaxReplicas - 1 \in Int
    BY ObserverConstantsOK
  <2> QED
    BY <2>2, <2>3, FS_Interval DEF Ordinal
<1>2. IsFiniteSet(StatefulSet \X Ordinal)
  BY <1>1, FS_Product
<1>3. counted \subseteq StatefulSet \X Ordinal
  OBVIOUS
<1>4. Cardinality(counted) \in Nat
  BY <1>2, <1>3, FS_Subset, FS_CardinalityType
<1>5. NotFound \in Observation
  BY DEF NotFound, Observation
<1> HIDE DEF counted
<1>6. w # None => [exists |-> TRUE, expected |-> w.replicas, ready |-> w.ready,
                   bound |-> Cardinality(counted),
                   guarded |-> w.guarded, contract |-> w.contract] \in Observation
  BY <1>4, ObserverConstantsOK DEF Workload, Observation
<1> QED
  BY <1>5, <1>6 DEF Observe, counted

(* A status is made from one copy of the resource.                         *)
LEMMA DesiredIsOfCopy ==
  ASSUME NoneIsNew, Inv, step \in {"compare", "patch"}
  PROVE  /\ DesiredStatus \in Status
         /\ DesiredStatus.generation = cluster.generation
         /\ DOMAIN DesiredStatus.workloads = Observed(cluster.withBrain)
         /\ Describes(DesiredStatus)
<1> DEFINE ws == [s \in Observed(cluster.withBrain) |-> seen[s]]
<1>1. cluster \in ClusterCopy /\ Pairs(cluster)
  BY DEF Inv, WellFormed, HasRead, CopiesPair
<1>2. cluster.generation \in Nat /\ cluster.withBrain \in BOOLEAN
  BY <1>1 DEF ClusterCopy
<1>3. \A s \in Observed(cluster.withBrain) : seen[s] \in Observation
  BY <1>2 DEF Inv, WellFormed, HasRead, Observed, StatefulSet
<1>4. ws \in [Observed(cluster.withBrain) -> Observation]
  BY <1>3
<1>5. ws \in UNION {[Observed(b) -> Observation] : b \in BOOLEAN}
  BY <1>2, <1>4
<1>6. DOMAIN ws = Observed(cluster.withBrain)
  OBVIOUS
<1> HIDE DEF ws
<1>7. StorageReady(ws) \in BOOLEAN
  BY DEF StorageReady
<1>8. DesiredStatus = [generation |-> cluster.generation, workloads |-> ws,
        storageReady |-> StorageReady(ws), phase |-> IF Ready(ws) THEN "Observed" ELSE "Degraded"]
  BY DEF DesiredStatus, BuildStatus, ws
<1>9. DesiredStatus \in Status
  BY <1>2, <1>5, <1>7, <1>8 DEF Status
<1>10. DesiredStatus.generation = cluster.generation /\ DesiredStatus.workloads = ws
  BY <1>8
<1> QED
  BY <1>1, <1>6, <1>9, <1>10 DEF Describes, Pairs

LEMMA InitInv ==
  ASSUME NoneIsNew, Init
  PROVE  Inv
<1>1. [generation |-> 1, withBrain |-> FALSE, status |-> None] \in ClusterCopy
  BY DEF ClusterCopy
<1>2. workload \in [StatefulSet -> Workload \cup {None}]
  <2>1. [replicas |-> MaxReplicas, ready |-> MaxReplicas, guarded |-> TRUE, contract |-> TRUE] \in Workload
    BY ObserverConstantsOK DEF Workload
  <2> QED
    BY <2>1 DEF Init
<1>3. bound \subseteq StatefulSet \X Ordinal
  BY DEF Init, StatefulSet
<1>4. specOf \in Seq(BOOLEAN) /\ Len(specOf) = 1 /\ specOf[1] = FALSE
  BY DEF Init
<1>5. WellFormed
  <2>1. cr \in ClusterCopy /\ cached \in ClusterCopy /\ cluster \in ClusterCopy \cup {None}
    BY <1>1 DEF Init
  <2>2. due \in BOOLEAN /\ timer \in BOOLEAN
    BY DEF Init
  <2>3. /\ step \in {"idle", "list", "node", "brain", "compare", "patch"}
        /\ claims \subseteq StatefulSet \X Ordinal /\ wire \subseteq Status
        /\ seen \in [StatefulSet -> Observation \cup {None}]
    BY DEF Init
  <2>4. changes \in 0..MaxChanges /\ faults \in 0..MaxFaults
    BY ObserverConstantsOK DEF Init
  <2> QED
    BY <1>2, <1>3, <1>4, <2>1, <2>2, <2>3, <2>4 DEF WellFormed
<1>6. HasRead /\ CopiesPair /\ StatusesDescribe
  BY <1>4 DEF Init, HasRead, CopiesPair, Pairs, StatusesDescribe
<1> QED
  BY <1>5, <1>6 DEF Inv

-----------------------------------------------------------------------------
(* The cluster around the operator touches none of its copies, but an edit *)
(* of the spec makes a new generation.                                     *)
LEMMA WorldInv ==
  ASSUME NoneIsNew, Inv, World
  PROVE  Inv'
<1>1. ASSUME Change, UNCHANGED <<cr, controller, wire, faults, specOf>>,
             workload' \in [StatefulSet -> Workload \cup {None}],
             bound' \subseteq StatefulSet \X Ordinal
      PROVE  Inv'
  <2>1. changes' \in 0..MaxChanges
    BY <1>1, ObserverConstantsOK DEF Inv, WellFormed, Change
  <2> QED
    BY <1>1, <2>1 DEF Inv, controller, WellFormed, HasRead, CopiesPair, Pairs, StatusesDescribe, Describes
<1>2. ASSUME NEW s \in StatefulSet, NEW w \in Workload \cup {None}, SetWorkload(s, w)
      PROVE  Inv'
  <2>1. /\ Change /\ UNCHANGED <<cr, controller, wire, faults, specOf>>
        /\ workload' \in [StatefulSet -> Workload \cup {None}]
        /\ bound' \subseteq StatefulSet \X Ordinal
    BY <1>2 DEF SetWorkload, Inv, WellFormed
  <2> QED
    BY <1>1, <2>1
<1>3. ASSUME NEW s \in StatefulSet, NEW n \in 0..MaxReplicas, Scale(s, n) \/ PodsReady(s, n)
      PROVE  Inv'
  <2>1. workload[s] \in Workload
    BY <1>3 DEF Scale, PodsReady, Inv, WellFormed
  <2>2. /\ [workload[s] EXCEPT !.replicas = n] \in Workload
        /\ [workload[s] EXCEPT !.ready = n] \in Workload
    BY <2>1 DEF Workload
  <2> QED
    BY <1>2, <1>3, <2>2 DEF Scale, PodsReady
<1>4. ASSUME NEW s \in StatefulSet, NEW g \in BOOLEAN, NEW c \in BOOLEAN, SetPolicy(s, g, c)
      PROVE  Inv'
  <2>1. workload[s] \in Workload
    BY <1>4 DEF SetPolicy, Inv, WellFormed
  <2>2. [workload[s] EXCEPT !.guarded = g, !.contract = c] \in Workload
    BY <2>1 DEF Workload
  <2> QED
    BY <1>2, <1>4, <2>2 DEF SetPolicy
<1>5. ASSUME NEW s \in StatefulSet, Create(s) \/ Delete(s)
      PROVE  Inv'
  <2>1. [replicas |-> 1, ready |-> 0, guarded |-> TRUE, contract |-> TRUE] \in Workload
    BY ObserverConstantsOK DEF Workload
  <2> QED
    BY <1>2, <1>5, <2>1 DEF Create, Delete
<1>6. ASSUME NEW s \in StatefulSet, NEW i \in Ordinal, ClaimChanges(s, i)
      PROVE  Inv'
  <2>1. /\ Change /\ UNCHANGED <<cr, controller, wire, faults, specOf>>
        /\ workload' \in [StatefulSet -> Workload \cup {None}]
        /\ bound' \subseteq StatefulSet \X Ordinal
    BY <1>6 DEF ClaimChanges, Inv, WellFormed
  <2> QED
    BY <1>1, <2>1
<1>7. ASSUME EditSpec
      PROVE  Inv'
  <2>1. /\ Change /\ UNCHANGED <<workload, bound, cached, due, timer, step, cluster, claims, seen, wire, faults>>
        /\ cr' = [cr EXCEPT !.generation = @ + 1, !.withBrain = ~@]
        /\ specOf' = Append(specOf, cr'.withBrain)
    BY <1>7 DEF EditSpec, world, controller
  <2>2. cr \in ClusterCopy /\ specOf \in Seq(BOOLEAN) /\ cr.generation = Len(specOf)
    BY DEF Inv, WellFormed, CopiesPair
  <2>3. /\ cr' \in ClusterCopy /\ cr'.generation = cr.generation + 1
        /\ cr'.status = cr.status
    <3>1. /\ cr = [generation |-> cr.generation, withBrain |-> cr.withBrain, status |-> cr.status]
          /\ cr.generation \in Nat /\ cr.withBrain \in BOOLEAN /\ cr.status \in Status \cup {None}
      BY <2>2 DEF ClusterCopy
    <3>2. cr' = [generation |-> cr.generation + 1, withBrain |-> ~cr.withBrain, status |-> cr.status]
      BY <2>1, <3>1
    <3>3. cr.generation + 1 \in Nat /\ (~cr.withBrain) \in BOOLEAN
      BY <3>1
    <3> QED
      BY <3>1, <3>2, <3>3 DEF ClusterCopy
  <2>4. cr'.withBrain \in BOOLEAN
    BY <2>3 DEF ClusterCopy
  <2>5. /\ specOf' \in Seq(BOOLEAN) /\ Len(specOf') = Len(specOf) + 1
        /\ specOf'[Len(specOf) + 1] = cr'.withBrain
        /\ \A g \in 1..Len(specOf) : g \in 1..Len(specOf') /\ specOf'[g] = specOf[g]
    BY <2>1, <2>2, <2>4
  <2>6. changes' \in 0..MaxChanges
    BY <2>1, ObserverConstantsOK DEF Inv, WellFormed, Change
  <2>7. WellFormed'
    BY <2>1, <2>3, <2>5, <2>6 DEF Inv, WellFormed
  <2>8. HasRead'
    BY <2>1 DEF Inv, HasRead
  <2>9. CopiesPair'
    <3>1. Pairs(cr)'
      BY <2>2, <2>3, <2>5 DEF Pairs
    <3>2. Pairs(cached)' /\ (cluster # None => Pairs(cluster)')
      BY <2>1, <2>5 DEF Inv, CopiesPair, Pairs
    <3> QED
      BY <2>1, <2>2, <2>3, <2>5, <3>1, <3>2 DEF CopiesPair
  <2>10. StatusesDescribe'
    BY <2>1, <2>3, <2>5 DEF Inv, StatusesDescribe, Describes
  <2> QED
    BY <2>7, <2>8, <2>9, <2>10 DEF Inv
<1> QED
  BY <1>3, <1>4, <1>5, <1>6, <1>7 DEF World

-----------------------------------------------------------------------------
LEMMA RuntimeInv ==
  ASSUME NoneIsNew, Inv, WatchEvent \/ TimerFires \/ StartReconcile \/ Restart
  PROVE  Inv'
<1>1. /\ workload' = workload /\ bound' = bound /\ cr' = cr /\ wire' = wire
      /\ changes' = changes /\ specOf' = specOf
      /\ faults' \in 0..MaxFaults
      /\ due' \in BOOLEAN /\ timer' \in BOOLEAN
  <2>1. /\ workload' = workload /\ bound' = bound /\ cr' = cr /\ wire' = wire
        /\ changes' = changes /\ specOf' = specOf
    BY DEF WatchEvent, TimerFires, StartReconcile, Restart, world, bounds
  <2>2. faults \in 0..MaxFaults
    BY DEF Inv, WellFormed
  <2>3. faults' = faults \/ (faults < MaxFaults /\ faults' = faults + 1)
    BY DEF WatchEvent, TimerFires, StartReconcile, Restart, bounds, Fault
  <2>4. faults' \in 0..MaxFaults
    BY <2>2, <2>3, ObserverConstantsOK
  <2>5. due' \in {due, TRUE, FALSE} /\ timer' \in {timer, FALSE}
    BY DEF WatchEvent, TimerFires, StartReconcile, Restart
  <2>6. due' \in BOOLEAN /\ timer' \in BOOLEAN
    BY <2>5 DEF Inv, WellFormed
  <2> QED
    BY <2>1, <2>4, <2>6
<1>2. cached' \in {cached, cr} /\ cluster' \in {cluster, cached, None}
  BY DEF WatchEvent, TimerFires, StartReconcile, Restart, Idle
<1>3. /\ claims' \in {claims, {}}
      /\ seen' = seen \/ seen' = [s \in StatefulSet |-> None]
      /\ \/ step' = step /\ seen' = seen /\ cluster' = cluster
         \/ step' = "list" /\ cluster' = cached
         \/ step' = "idle"
  BY DEF WatchEvent, TimerFires, StartReconcile, Restart, Idle
<1>4. WellFormed'
  BY <1>1, <1>2, <1>3 DEF Inv, WellFormed
<1>5. HasRead'
  BY <1>3 DEF Inv, WellFormed, HasRead, NoneIsNew
<1>6. CopiesPair' /\ StatusesDescribe'
  BY <1>1, <1>2 DEF Inv, CopiesPair, Pairs, StatusesDescribe, Describes
<1> QED
  BY <1>4, <1>5, <1>6 DEF Inv

LEMMA ListPvcsInv ==
  ASSUME NoneIsNew, Inv, ListPvcs
  PROVE  Inv'
<1>1. /\ step = "list" /\ step' = "node" /\ claims' = bound
      /\ UNCHANGED <<workload, bound, cr, cached, due, timer, cluster, seen, wire, changes, faults, specOf>>
  BY DEF ListPvcs, world, bounds
<1> QED
  BY <1>1 DEF Inv, WellFormed, HasRead, CopiesPair, Pairs, StatusesDescribe, Describes

LEMMA GetStatefulSetInv ==
  ASSUME NoneIsNew, Inv, GetStatefulSet
  PROVE  Inv'
<1> DEFINE s == IF step = "node" THEN NodeSet ELSE BrainSet
           read == Observe(s, workload[s], claims)
<1>1. /\ step \in {"node", "brain"} /\ seen' = [seen EXCEPT ![s] = read]
      /\ step' = IF step = "node" /\ cluster.withBrain THEN "brain" ELSE "compare"
      /\ UNCHANGED <<workload, bound, cr, cached, due, timer, cluster, claims, wire, changes, faults, specOf>>
  BY DEF GetStatefulSet, world, bounds
<1>2. s \in StatefulSet
  BY DEF StatefulSet
<1>3. workload[s] \in Workload \cup {None} /\ claims \in SUBSET (StatefulSet \X Ordinal)
  BY <1>2 DEF Inv, WellFormed
<1>4. read \in Observation
  <2> HIDE DEF s
  <2> QED
    BY <1>3, ObserveType
<1> HIDE DEF read
<1>5. /\ seen' \in [StatefulSet -> Observation \cup {None}] /\ seen'[s] # None
      /\ \A t \in StatefulSet \ {s} : seen'[t] = seen[t]
  BY <1>1, <1>2, <1>4 DEF Inv, WellFormed, NoneIsNew
<1>6. WellFormed'
  BY <1>1, <1>5 DEF Inv, WellFormed
<1>7. HasRead'
  <2>1. cluster # None /\ cluster' = cluster
    BY <1>1 DEF Inv, HasRead
  <2>2. NodeSet \in StatefulSet /\ BrainSet \in StatefulSet
    BY DEF StatefulSet
  <2>3. seen'[NodeSet] # None
    BY <1>1, <1>5, <2>2 DEF Inv, HasRead
  <2>4. step' = "compare" /\ cluster.withBrain => step = "brain"
    BY <1>1
  <2>5. step' = "compare" /\ cluster.withBrain => seen'[BrainSet] # None
    BY <1>5, <2>4
  <2> QED
    BY <1>1, <2>1, <2>3, <2>5 DEF HasRead
<1>8. CopiesPair' /\ StatusesDescribe'
  BY <1>1 DEF Inv, CopiesPair, Pairs, StatusesDescribe, Describes
<1> QED
  BY <1>6, <1>7, <1>8 DEF Inv

LEMMA UnchangedInv ==
  ASSUME NoneIsNew, Inv, Unchanged \/ ApiError
  PROVE  Inv'
<1>1. /\ UNCHANGED <<workload, bound, cr, cached, due, changes, specOf>>
      /\ timer' = TRUE /\ step' = "idle" /\ cluster' = None /\ claims' = {}
      /\ seen' = [t \in StatefulSet |-> None]
      /\ wire' \subseteq wire /\ faults' \in 0..MaxFaults
  BY ObserverConstantsOK DEF Unchanged, ApiError, Idle, world, bounds, Fault, Inv, WellFormed
<1> QED
  BY <1>1 DEF Inv, WellFormed, HasRead, CopiesPair, Pairs, StatusesDescribe, Describes

LEMMA SendPatchInv ==
  ASSUME NoneIsNew, Inv, SendPatch
  PROVE  Inv'
<1>1. /\ step = "compare" /\ step' = "patch" /\ wire' = wire \cup {DesiredStatus}
      /\ UNCHANGED <<workload, bound, cr, cached, due, timer, cluster, claims, seen, changes, faults, specOf>>
  BY DEF SendPatch, world, bounds
<1>2. DesiredStatus \in Status /\ Describes(DesiredStatus)
  BY <1>1, DesiredIsOfCopy
<1>3. \A st \in Status : Describes(st) => Describes(st)'
  BY <1>1 DEF Describes
<1>4. StatusesDescribe'
  <2>1. \A st \in wire' : Describes(st)
    BY <1>1, <1>2 DEF Inv, StatusesDescribe
  <2> QED
    BY <1>1, <2>1 DEF Inv, StatusesDescribe, Describes
<1> QED
  BY <1>1, <1>2, <1>4 DEF Inv, WellFormed, HasRead, CopiesPair, Pairs

LEMMA PatchLandsInv ==
  ASSUME NoneIsNew, Inv, NEW st \in wire, PatchLands(st)
  PROVE  Inv'
<1>1. /\ cr' = [cr EXCEPT !.status = st] /\ wire' = wire \ {st}
      /\ UNCHANGED <<workload, bound, cached, due, changes, faults, specOf>>
      /\ \/ /\ step' = "idle" /\ cluster' = None /\ claims' = {}
            /\ seen' = [t \in StatefulSet |-> None] /\ timer' = TRUE
         \/ UNCHANGED <<step, cluster, claims, seen, timer>>
  BY DEF PatchLands, Idle, world, bounds
<1>2. cr \in ClusterCopy /\ st \in Status /\ Describes(st)
  BY DEF Inv, WellFormed, StatusesDescribe
<1>3. /\ cr' \in ClusterCopy /\ cr'.generation = cr.generation
      /\ cr'.withBrain = cr.withBrain /\ cr'.status = st
  BY <1>1, <1>2 DEF ClusterCopy
<1>4. WellFormed'
  BY <1>1, <1>3 DEF Inv, WellFormed
<1>5. HasRead'
  BY <1>1 DEF Inv, HasRead
<1>6. CopiesPair'
  BY <1>1, <1>3 DEF Inv, CopiesPair, Pairs
<1>7. StatusesDescribe'
  BY <1>1, <1>2, <1>3 DEF Inv, StatusesDescribe, Describes
<1> QED
  BY <1>4, <1>5, <1>6, <1>7 DEF Inv

LEMMA NextInv ==
  ASSUME NoneIsNew, Inv, [Next]_vars
  PROVE  Inv'
<1>1. CASE UNCHANGED vars
  BY <1>1 DEF vars, world, controller, bounds, Inv, WellFormed, HasRead, CopiesPair, Pairs,
     StatusesDescribe, Describes
<1>2. CASE Next
  BY <1>2, WorldInv, RuntimeInv, ListPvcsInv, GetStatefulSetInv, UnchangedInv, SendPatchInv,
     PatchLandsInv DEF Next
<1> QED
  BY <1>1, <1>2

-----------------------------------------------------------------------------
(* The status at the API server lists the workloads that the spec of its   *)
(* observedGeneration names, whatever patches of replaced processes arrive *)
(* late and however far the watch cache lags.                              *)
THEOREM StatusesKeepTheirGeneration ==
  ASSUME NoneIsNew
  PROVE  Spec => []StatusIsOrderly
<1>1. Init => Inv
  BY InitInv
<1>2. Inv /\ [Next]_vars => Inv'
  BY NextInv
<1>3. Inv => StatusIsOrderly
  BY InvIsOrderly
<1> QED
  BY <1>1, <1>2, <1>3, PTL DEF Spec
=============================================================================
