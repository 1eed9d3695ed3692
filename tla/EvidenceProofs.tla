----------------------------- MODULE EvidenceProofs -----------------------------
(***************************************************************************)
(* What an accepted report, a counted application or an answered call      *)
(* stands for, whatever the limits, the numbers of servers, keys, clusters *)
(* and callers and the order in which facts change, are read and judged;   *)
(* what a campaign of faults does to the fleet, whatever its files and the *)
(* number of its operators.  Each tool has its inductive invariant; a step *)
(* of another tool leaves it alone, because a behaviour runs one of them.  *)
(***************************************************************************)
EXTENDS Evidence, Sequences, FiniteSetTheorems, TLAPS

-----------------------------------------------------------------------------
(* DurabilityGate: a manifest lists every key its backup needs, the keys   *)
(* of the live values are required ones, and a reading copies both.        *)
ReadingListsKeys ==
  evidence # None =>
    /\ evidence.live \subseteq evidence.ring.required
    /\ \A w \in Workload : evidence.backups[w].needs \subseteq evidence.backups[w].required

DurabilityInv == D!TypeOK /\ ReadingListsKeys /\ D!NeededKeysWereShown

LEMMA DurabilityInit ==
  ASSUME D!Init
  PROVE  DurabilityInv
BY EvidenceConstantsOK
   DEF D!Init, D!Time, DurabilityInv, D!TypeOK, D!Ring, ReadingListsKeys, D!NeededKeysWereShown

LEMMA DurabilityStep ==
  ASSUME DurabilityInv, D!Next
  PROVE  DurabilityInv'
<1> USE DEF DurabilityInv, D!TypeOK, D!Unread, D!NeededKeysWereShown, ReadingListsKeys, D!world
<1>0. None \notin D!Time /\ None \notin D!Backup /\ None \notin D!Restore /\ None \notin D!Reading
      /\ now \in D!Time
  BY EvidenceConstantsOK DEF D!Time
<1>1. CASE D!Tick
  <2>1. D!Time = 0..DurabilityTime /\ DurabilityTime \in Nat
    BY EvidenceConstantsOK DEF D!Time
  <2>2. now' \in D!Time /\ UNCHANGED <<ring, live, backups, restore, evidence, accepted>>
    BY <1>0, <1>1, <2>1 DEF D!Tick
  <2> QED
    BY <2>2
<1>2. ASSUME NEW k \in Key, D!Rotate(k)
      PROVE  DurabilityInv'
  BY <1>2 DEF D!Rotate, D!Ring
<1>3. CASE D!Reencrypt
  BY <1>3 DEF D!Reencrypt, D!Ring
<1>4. ASSUME NEW k \in Key, D!Retire(k)
      PROVE  DurabilityInv'
  BY <1>4 DEF D!Retire, D!Ring
<1>5. ASSUME NEW w \in Workload, D!TakeSnapshot(w)
      PROVE  DurabilityInv'
  <2> DEFINE b == [createdAt |-> now, successAt |-> None,
                   active |-> ring.active, required |-> ring.required, needs |-> live]
  <2>1. b \in D!Backup /\ b.needs \subseteq b.required
    BY <1>0 DEF D!Backup, D!Ring
  <2>2. backups' = [backups EXCEPT ![w] = b] /\ UNCHANGED <<now, ring, live, restore, evidence, accepted>>
    BY <1>5 DEF D!TakeSnapshot
  <2> HIDE DEF b
  <2>3. backups' \in [Workload -> D!Backup \cup {None}]
        /\ \A v \in Workload : backups'[v] # None => backups'[v].needs \subseteq backups'[v].required
    BY <2>1, <2>2
  <2> QED
    BY <2>2, <2>3, <1>5 DEF D!TakeSnapshot
<1>6. ASSUME NEW w \in Workload, D!StoreBackup(w)
      PROVE  DurabilityInv'
  <2> DEFINE b == [backups[w] EXCEPT !.successAt = now]
  <2>1. b \in D!Backup /\ b.needs \subseteq b.required
    BY <1>0, <1>6 DEF D!StoreBackup, D!Backup
  <2>2. backups' = [backups EXCEPT ![w] = b] /\ UNCHANGED <<now, ring, live, restore, evidence, accepted>>
    BY <1>6 DEF D!StoreBackup
  <2> HIDE DEF b
  <2>3. backups' \in [Workload -> D!Backup \cup {None}]
        /\ \A v \in Workload : backups'[v] # None => backups'[v].needs \subseteq backups'[v].required
    BY <2>1, <2>2
  <2> QED
    BY <2>2, <2>3, <1>6 DEF D!StoreBackup
<1>7. ASSUME NEW keys \in SUBSET Key, D!BeginRestore(keys)
      PROVE  DurabilityInv'
  <2>1. restore' \in D!Restore /\ restore'.completedAt = None
    BY <1>0, <1>7 DEF D!BeginRestore, D!Restore
  <2> QED
    BY <1>7, <2>1 DEF D!BeginRestore
<1>8. CASE D!CompleteRestore
  <2>1. restore' \in D!Restore /\ restore'.startedAt < restore'.completedAt
    BY <1>0, <1>8 DEF D!CompleteRestore, D!Restore
  <2> QED
    BY <1>8, <2>1 DEF D!CompleteRestore
<1>9. CASE D!Observe
  <2>1. \A w \in Workload : backups[w] # None
    BY <1>9 DEF D!Observe, D!Stored
  <2>2. backups \in [Workload -> D!Backup] /\ restore \in D!Restore /\ live \subseteq Key
    BY <1>9, <2>1 DEF D!Observe, D!Ring
  <2>3. evidence' = [observedAt |-> now, ring |-> ring, live |-> live,
                     backups |-> backups, restore |-> restore]
    BY <1>9 DEF D!Observe
  <2>4. evidence' \in D!Reading
    BY <1>0, <2>2, <2>3 DEF D!Reading
  <2> QED
    BY <1>9, <2>1, <2>3, <2>4 DEF D!Observe
<1>10. CASE D!Validate
  <2>1. PICK doc \in D!Documents :
          /\ D!ValidDurabilityEvidence(doc) /\ D!Decision(doc) # "example-only"
          /\ accepted' = [at |-> now, decision |-> D!Decision(doc), seen |-> evidence]
    BY <1>10 DEF D!Validate
  <2>2. /\ evidence \in D!Reading
        /\ UNCHANGED <<now, ring, live, backups, restore>> /\ evidence' = None
    BY <1>10 DEF D!Validate
  <2>3. evidence.restore.keys = evidence.ring.required
        /\ now - evidence.restore.completedAt <= MaxRestoreAge
    BY <2>1 DEF D!ValidDurabilityEvidence, D!ValidRestore
  <2>4. \A w \in Workload : evidence.backups[w].required = evidence.ring.required
    BY <2>1 DEF D!ValidDurabilityEvidence, D!ValidBackup
  <2>5. evidence # None
    BY <1>10 DEF D!Validate
  <2>6. evidence.live \cup UNION {evidence.backups[w].needs : w \in Workload} \subseteq evidence.restore.keys
    BY <2>3, <2>4, <2>5
  <2>7. accepted'.at = now /\ accepted'.seen = evidence /\ accepted'.decision # "example-only"
    BY <2>1
  <2> QED
    BY <2>2, <2>3, <2>6, <2>7
<1>11. CASE D!Discard
  BY <1>11 DEF D!Discard
<1> QED
  BY <1>1, <1>2, <1>3, <1>4, <1>5, <1>6, <1>7, <1>8, <1>9, <1>10, <1>11 DEF D!Next

(* validate-fiducia-raft-durability-evidence.mjs: an eligible report rests *)
(* on keys that were used in a recent restore, for any keyring and         *)
(* workloads, however keys were rotated and retired in between.            *)
THEOREM NeededKeysAreShown == EvidenceSpec => []NeededKeysWereShown
<1> DEFINE Inv == part = "durability" => DurabilityInv
<1>1. EvidenceInit => Inv
  BY DurabilityInit DEF EvidenceInit
<1>2. Inv /\ [EvidenceNext]_<<part, clock, others>> => Inv'
  <2>1. CASE UNCHANGED <<part, clock, others>>
    BY <2>1 DEF clock, others, durability, DurabilityInv, D!TypeOK, ReadingListsKeys, D!NeededKeysWereShown
  <2>2. CASE EvidenceNext
    BY <2>2, DurabilityStep DEF EvidenceNext
  <2> QED
    BY <2>1, <2>2
<1>3. Inv => NeededKeysWereShown
  BY DEF DurabilityInv, NeededKeysWereShown
<1> QED
  BY <1>1, <1>2, <1>3, PTL DEF EvidenceSpec

-----------------------------------------------------------------------------
(* BootstrapSecrets: a value of an object that some cluster holds was not  *)
(* replaced before it was refreshed.                                       *)
Current(values, at, secret) ==
  secret # None =>
    /\ secret.value <= Len(values) /\ secret.refreshedAt <= at
    /\ secret.value < Len(values) => secret.refreshedAt <= values[secret.value + 1]

CopiesAreCurrent == \A c \in Cluster, o \in Object : Current(cloud[o], now, held[c][o])

ReadingIsCurrent ==
  evidence # None => \A c \in Cluster : evidence.clusters[c] # None =>
    \A o \in Object : Current(cloud[o], now, evidence.clusters[c][o])

AcceptedAreRecent ==
  accepted # None =>
    /\ {MaxRefreshAge, SecretObservationAge} \subseteq Nat
    /\ \A c \in Cluster, o \in Object :
         LET secret == accepted.seen.clusters[c][o]
         IN  /\ secret # None /\ Current(cloud[o], now, secret)
             /\ accepted.at - secret.refreshedAt <= MaxRefreshAge + SecretObservationAge

BootstrapInv == B!TypeOK /\ CopiesAreCurrent /\ ReadingIsCurrent /\ AcceptedAreRecent

LEMMA BootstrapConstants ==
  /\ B!Time \subseteq Nat /\ 0 \in B!Time
  /\ None \notin B!Secret /\ None \notin B!Held /\ None \notin B!Reading
BY EvidenceConstantsOK DEF B!Time

LEMMA BootstrapInit ==
  ASSUME B!Init
  PROVE  BootstrapInv
<1>1. \A o \in Object : <<0>> \in Seq(B!Time) /\ <<0>> # <<>>
  BY BootstrapConstants
<1> QED
  BY <1>1, BootstrapConstants
     DEF B!Init, BootstrapInv, B!TypeOK, B!Held, CopiesAreCurrent, ReadingIsCurrent, Current, AcceptedAreRecent

(* Time goes on, and a rotation comes no earlier than any refresh.         *)
LEMMA CurrentStays ==
  ASSUME NEW t \in Nat, NEW u \in Nat, t <= u, NEW values \in Seq(B!Time),
         NEW next, next = values \/ next = Append(values, t),
         NEW secret \in B!Secret \cup {None}, Current(values, t, secret)
  PROVE  Current(next, u, secret)
<1>1. SUFFICES ASSUME secret # None, secret.value \in Nat \ {0}, secret.refreshedAt \in Nat
               PROVE  Current(next, u, secret)
  BY BootstrapConstants DEF Current, B!Secret
<1>2. Len(values) \in Nat /\ secret.value <= Len(values) /\ secret.refreshedAt <= t
  BY <1>1 DEF Current
<1>3. CASE next = values
  BY <1>1, <1>2, <1>3 DEF Current
<1>4. CASE next = Append(values, t)
  <2>1. Len(next) = Len(values) + 1 /\ next[Len(values) + 1] = t
        /\ \A i \in 1..Len(values) : next[i] = values[i]
    BY <1>4
  <2>2. CASE secret.value = Len(values)
    BY <1>1, <1>2, <2>1, <2>2 DEF Current
  <2>3. CASE secret.value < Len(values)
    <3>1. secret.value + 1 \in 1..Len(values)
      BY <1>1, <1>2, <2>3
    <3> QED
      BY <1>1, <1>2, <2>1, <2>3, <3>1 DEF Current
  <2> QED
    BY <1>1, <1>2, <2>2, <2>3
<1> QED
  BY <1>3, <1>4

LEMMA BootstrapType ==
  ASSUME B!TypeOK, B!Next
  PROVE  B!TypeOK' /\ now <= now'
<1> USE DEF B!TypeOK
<1>0. now \in B!Time /\ now \in Nat
      /\ None \notin B!Secret /\ None \notin B!Held /\ None \notin B!Reading
  BY BootstrapConstants
<1>1. CASE B!Tick
  <2>1. now' \in B!Time /\ now <= now' /\ accepted = None
    BY <1>0, <1>1, EvidenceConstantsOK DEF B!Tick, B!Time
  <2> QED
    BY <1>1, <2>1 DEF B!Tick
<1>2. ASSUME NEW o \in Object, B!Rotate(o)
      PROVE  B!TypeOK' /\ now <= now'
  <2>1. cloud' = [cloud EXCEPT ![o] = Append(cloud[o], now)]
    BY <1>2 DEF B!Rotate
  <2>2. Append(cloud[o], now) \in Seq(B!Time) /\ Append(cloud[o], now) # <<>>
    BY <1>0
  <2> QED
    BY <1>0, <1>2, <2>1, <2>2 DEF B!Rotate
<1>3. ASSUME NEW c \in Cluster, NEW o \in Object, B!Refresh(c, o)
      PROVE  B!TypeOK' /\ now <= now'
  <2> DEFINE secret == [value |-> Len(cloud[o]), refreshedAt |-> now]
  <2>1. cloud[o] \in Seq(B!Time) /\ cloud[o] # <<>>
    OBVIOUS
  <2>2. Len(cloud[o]) \in Nat \ {0}
    BY <2>1
  <2>3. secret \in B!Secret
    BY <1>0, <2>2 DEF B!Secret
  <2>4. held' = [held EXCEPT ![c] = [held[c] EXCEPT ![o] = secret]]
    BY <1>3 DEF B!Refresh, B!Held
  <2> HIDE DEF secret
  <2>5. held' \in [Cluster -> B!Held]
    BY <2>3, <2>4 DEF B!Held
  <2> QED
    BY <1>0, <1>3, <2>5 DEF B!Refresh
<1>4. CASE B!BeginReading
  <2>1. \A o \in Object : B!Last(cloud[o]) \in B!Time
    BY DEF B!Last
  <2>2. evidence' \in B!Reading
    BY <1>0, <1>4, <2>1 DEF B!BeginReading, B!Reading
  <2> QED
    BY <1>0, <1>4, <2>2 DEF B!BeginReading
<1>5. ASSUME NEW c \in Cluster, B!ReadCluster(c)
      PROVE  B!TypeOK' /\ now <= now'
  <2>1. evidence \in B!Reading
    BY <1>5 DEF B!ReadCluster
  <2>2. PICK at \in {evidence.observedAt, now} :
          evidence' = [evidence EXCEPT !.clusters[c] = held[c], !.observedAt = at]
    BY <1>5 DEF B!ReadCluster
  <2>3. evidence' \in B!Reading
    BY <1>0, <2>1, <2>2 DEF B!Reading
  <2> QED
    BY <1>0, <1>5, <2>3 DEF B!ReadCluster
<1>6. CASE B!Validate
  <2>1. evidence \in B!Reading /\ B!ValidClusterReadiness /\ accepted' = [at |-> now, seen |-> evidence]
    BY <1>6 DEF B!Validate, B!ValidBootstrapSecretReadiness
  <2>2. evidence.clusters \in [Cluster -> B!Held]
    BY <2>1 DEF B!ValidClusterReadiness, B!Reading
  <2>3. accepted'.at \in 0..now /\ accepted'.seen.clusters \in [Cluster -> B!Held]
    BY <1>0, <2>1, <2>2
  <2> QED
    BY <1>0, <1>6, <2>3 DEF B!Validate
<1> QED
  BY <1>1, <1>2, <1>3, <1>4, <1>5, <1>6 DEF B!Next

LEMMA BootstrapStep ==
  ASSUME BootstrapInv, B!Next
  PROVE  BootstrapInv'
<1>1. B!TypeOK /\ B!TypeOK' /\ now <= now' /\ CopiesAreCurrent /\ ReadingIsCurrent /\ AcceptedAreRecent
  BY BootstrapType DEF BootstrapInv
<1>2. None \notin B!Secret /\ now \in Nat /\ now' \in Nat
  BY <1>1, BootstrapConstants DEF B!TypeOK
<1>3. \A o \in Object : cloud[o] \in Seq(B!Time) /\ (cloud'[o] = cloud[o] \/ cloud'[o] = Append(cloud[o], now))
  <2>1. cloud' = cloud \/ \E o \in Object : cloud' = [cloud EXCEPT ![o] = Append(cloud[o], now)]
    BY DEF B!Next, B!Tick, B!Rotate, B!Refresh, B!BeginReading, B!ReadCluster, B!Validate
  <2> QED
    BY <1>1, <2>1 DEF B!TypeOK
<1>4. \A o \in Object : \A secret \in B!Secret \cup {None} :
        Current(cloud[o], now, secret) => Current(cloud'[o], now', secret)
  BY <1>1, <1>2, <1>3, CurrentStays
<1>5. CopiesAreCurrent'
  <2>1. ASSUME NEW c \in Cluster, NEW o \in Object, B!Refresh(c, o), NEW d \in Cluster, NEW p \in Object
        PROVE  Current(cloud'[p], now', held'[d][p])
    <3>1. held[d][p] \in B!Secret \cup {None}
      BY <1>1 DEF B!TypeOK, B!Held
    <3>2. held' = [held EXCEPT ![c] = [held[c] EXCEPT ![o] = [value |-> Len(cloud[o]), refreshedAt |-> now]]]
          /\ cloud' = cloud /\ now' = now
      BY <1>1, <2>1 DEF B!Refresh, B!TypeOK, B!Held
    <3>3. held'[d][p] = held[d][p]
          \/ (p = o /\ held'[d][p] = [value |-> Len(cloud[o]), refreshedAt |-> now])
      <4>1. DOMAIN held = Cluster /\ DOMAIN held[c] = Object
        BY <1>1 DEF B!TypeOK, B!Held
      <4> DEFINE h == [held[c] EXCEPT ![o] = [value |-> Len(cloud[o]), refreshedAt |-> now]]
      <4>2. h[p] = held[c][p] \/ (p = o /\ h[p] = [value |-> Len(cloud[o]), refreshedAt |-> now])
        BY <4>1
      <4> HIDE DEF h
      <4>3. held' = [held EXCEPT ![c] = h]
        BY <3>2 DEF h
      <4> QED
        BY <4>1, <4>2, <4>3
    <3>4. CASE held'[d][p] = held[d][p]
      BY <1>1, <1>4, <3>1, <3>4 DEF CopiesAreCurrent
    <3>5. CASE p = o /\ held'[d][p] = [value |-> Len(cloud[o]), refreshedAt |-> now]
      <4>1. Len(cloud[o]) \in Nat
        BY <1>3
      <4> QED
        BY <1>2, <3>2, <3>5, <4>1 DEF Current
    <3> QED
      BY <3>3, <3>4, <3>5
  <2>2. ASSUME UNCHANGED held, NEW c \in Cluster, NEW o \in Object
        PROVE  Current(cloud'[o], now', held'[c][o])
    <3>1. held[c][o] \in B!Secret \cup {None}
      BY <1>1 DEF B!TypeOK, B!Held
    <3> QED
      BY <1>1, <1>4, <2>2, <3>1 DEF CopiesAreCurrent
  <2> QED
    BY <2>1, <2>2
       DEF B!Next, B!Tick, B!Rotate, B!BeginReading, B!ReadCluster, B!Validate, CopiesAreCurrent
<1>6. ReadingIsCurrent'
  <2>1. ASSUME evidence # None, NEW c \in Cluster, evidence.clusters[c] # None, NEW o \in Object
        PROVE  Current(cloud'[o], now', evidence.clusters[c][o])
    <3>1. evidence.clusters[c] \in B!Held
      BY <1>1, <2>1 DEF B!TypeOK, B!Reading
    <3>2. evidence.clusters[c][o] \in B!Secret \cup {None} /\ Current(cloud[o], now, evidence.clusters[c][o])
      BY <1>1, <2>1, <3>1 DEF ReadingIsCurrent, B!Held
    <3> QED
      BY <1>4, <3>2
  <2>2. CASE B!BeginReading
    BY <2>2 DEF B!BeginReading, ReadingIsCurrent
  <2>3. ASSUME NEW c \in Cluster, B!ReadCluster(c)
        PROVE  ReadingIsCurrent'
    <3>1. evidence \in B!Reading /\ evidence # None /\ held' = held
      BY <1>1, <2>3 DEF B!ReadCluster, B!TypeOK
    <3>2. PICK at \in {evidence.observedAt, now} :
            evidence' = [evidence EXCEPT !.clusters[c] = held[c], !.observedAt = at]
      BY <2>3 DEF B!ReadCluster
    <3>3. evidence'.clusters = [evidence.clusters EXCEPT ![c] = held[c]]
      BY <3>1, <3>2 DEF B!Reading
    <3>4. DOMAIN evidence.clusters = Cluster
      BY <3>1 DEF B!Reading
    <3>5. \A d \in Cluster : evidence'.clusters[d] = IF d = c THEN held'[d] ELSE evidence.clusters[d]
      BY <3>1, <3>3, <3>4
    <3> QED
      BY <1>5, <2>1, <3>1, <3>5 DEF ReadingIsCurrent, CopiesAreCurrent
  <2>4. CASE UNCHANGED evidence
    BY <2>1, <2>4 DEF ReadingIsCurrent
  <2> QED
    BY <2>2, <2>3, <2>4 DEF B!Next, B!Tick, B!Rotate, B!Refresh, B!Validate
<1>7. AcceptedAreRecent'
  <2>1. CASE B!Validate
    <3>1. PICK doc \in B!Documents : B!ValidBootstrapSecretReadiness(doc) /\ doc.mode = "live"
      BY <2>1 DEF B!Validate
    <3>2. /\ evidence \in B!Reading /\ evidence # None /\ accepted' = [at |-> now, seen |-> evidence]
          /\ UNCHANGED <<now, cloud>>
      BY <1>1, <2>1 DEF B!Validate, B!TypeOK
    <3>3. {MaxRefreshAge, SecretObservationAge} \subseteq Nat /\ B!ValidClusterReadiness
          /\ now - evidence.observedAt <= SecretObservationAge
      BY <3>1 DEF B!ValidBootstrapSecretReadiness, B!ValidSecretContract
    <3>4. ASSUME NEW c \in Cluster, NEW o \in Object
          PROVE  LET secret == evidence.clusters[c][o]
                 IN  /\ secret # None /\ Current(cloud[o], now, secret)
                     /\ now - secret.refreshedAt <= MaxRefreshAge + SecretObservationAge
      <4> DEFINE secret == evidence.clusters[c][o]
      <4>1. evidence.clusters[c] # None /\ secret # None
            /\ evidence.observedAt - secret.refreshedAt <= MaxRefreshAge
        BY <3>3 DEF B!ValidClusterReadiness
      <4>2. evidence.clusters[c] \in B!Held
        BY <3>2, <4>1 DEF B!Reading
      <4>3. secret \in B!Secret /\ Current(cloud[o], now, secret)
        BY <1>1, <3>2, <4>1, <4>2 DEF ReadingIsCurrent, B!Held
      <4>4. secret.refreshedAt \in Nat /\ evidence.observedAt \in Nat
        BY <3>2, <4>3, BootstrapConstants DEF B!Secret, B!Reading
      <4> HIDE DEF secret
      <4>5. now - secret.refreshedAt <= MaxRefreshAge + SecretObservationAge
        BY <1>2, <3>3, <4>1, <4>4
      <4> QED
        BY <4>1, <4>3, <4>5 DEF secret
    <3>5. accepted'.at = now /\ accepted'.seen = evidence
      BY <3>2
    <3> QED
      BY <3>2, <3>3, <3>4, <3>5 DEF AcceptedAreRecent, Current
  <2>2. CASE accepted # None /\ accepted' = accepted
    <3>1. \A c \in Cluster, o \in Object : accepted.seen.clusters[c][o] \in B!Secret \cup {None}
      BY <1>1, <2>2 DEF B!TypeOK, B!Held
    <3> QED
      BY <1>1, <1>4, <2>2, <3>1 DEF AcceptedAreRecent
  <2>3. CASE accepted = None /\ accepted' = None
    BY <2>3 DEF AcceptedAreRecent
  <2> QED
    BY <2>1, <2>2, <2>3 DEF B!Next, B!Tick, B!Rotate, B!Refresh, B!BeginReading, B!ReadCluster
<1> QED
  BY <1>1, <1>5, <1>6, <1>7 DEF BootstrapInv, CopiesAreCurrent

(* validate-fiducia-bootstrap-secret-readiness.mjs: a cluster found ready  *)
(* holds no value replaced longer ago than a refresh and an observation    *)
(* may take, for any number of clusters, objects and rotations.            *)
THEOREM ReadyClustersAreRecent == EvidenceSpec => []HeldValuesAreRecent
<1> DEFINE Inv == part = "bootstrap" => BootstrapInv
<1>1. EvidenceInit => Inv
  BY BootstrapInit DEF EvidenceInit
<1>2. Inv /\ [EvidenceNext]_<<part, clock, others>> => Inv'
  <2>1. CASE UNCHANGED <<part, clock, others>>
    BY <2>1 DEF clock, others, bootstrap, BootstrapInv, B!TypeOK, CopiesAreCurrent, ReadingIsCurrent, Current, AcceptedAreRecent
  <2>2. CASE EvidenceNext
    BY <2>2, BootstrapStep DEF EvidenceNext
  <2> QED
    BY <2>1, <2>2
<1>3. Inv => HeldValuesAreRecent
  <2>1. SUFFICES ASSUME BootstrapInv, accepted # None, NEW c \in Cluster, NEW o \in Object,
                        accepted.seen.clusters[c][o].value < Len(cloud[o])
                 PROVE  accepted.at - cloud[o][accepted.seen.clusters[c][o].value + 1]
                          <= MaxRefreshAge + SecretObservationAge
    BY DEF BootstrapInv, HeldValuesAreRecent, B!HeldValuesAreRecent
  <2> DEFINE secret == accepted.seen.clusters[c][o]
  <2>2. secret # None /\ Current(cloud[o], now, secret)
        /\ accepted.at - secret.refreshedAt <= MaxRefreshAge + SecretObservationAge
        /\ {MaxRefreshAge, SecretObservationAge} \subseteq Nat
    BY <2>1 DEF BootstrapInv, AcceptedAreRecent
  <2>3. secret \in B!Secret
    BY <2>1, <2>2 DEF BootstrapInv, B!TypeOK, B!Held
  <2>4. accepted.at \in Nat /\ cloud[o] \in Seq(B!Time)
    <3>1. accepted.at \in 0..now /\ now \in Nat
      BY <2>1, BootstrapConstants DEF BootstrapInv, B!TypeOK
    <3> QED
      BY <2>1, <3>1 DEF BootstrapInv, B!TypeOK
  <2>5. secret.value \in Nat \ {0} /\ secret.refreshedAt \in Nat
    BY <2>3, BootstrapConstants DEF B!Secret
  <2> HIDE DEF secret
  <2>6. cloud[o][secret.value + 1] \in Nat
    <3>1. secret.value + 1 \in 1..Len(cloud[o])
      BY <2>1, <2>4, <2>5 DEF secret
    <3>2. cloud[o][secret.value + 1] \in B!Time
      BY <2>4, <3>1
    <3> QED
      BY <3>2, BootstrapConstants
  <2>7. secret.refreshedAt <= cloud[o][secret.value + 1]
    BY <2>1, <2>2 DEF Current, secret
  <2> QED
    BY <2>2, <2>4, <2>5, <2>6, <2>7 DEF secret
<1> QED
  BY <1>1, <1>2, <1>3, PTL DEF EvidenceSpec

-----------------------------------------------------------------------------
(* SnapshotEvidence: every file on the node, and in a list of them, is the *)
(* whole snapshot as it was taken; the bucket may hold anything.           *)
AsTaken(file) ==
  /\ taken[file.name] # None /\ file.size = S!Whole
  /\ file.createdAt = taken[file.name].at /\ file.token = taken[file.name].token

FilesAreAsTaken ==
  /\ \A n \in SnapshotName : taken[n] # None => taken[n].at <= now
  /\ \A file \in local : AsTaken(file)
  /\ evidence # None => \A file \in evidence.local : AsTaken(file)

AcceptedIsTaken ==
  accepted # None =>
    /\ accepted.at \in Nat /\ accepted.object \in S!Item /\ AsTaken(accepted.file)
    /\ accepted.file \in S!Item /\ S!Matches(accepted.file, accepted.object)
    /\ accepted.at - S!Created(accepted) <= MaxSnapshotAge

SnapshotInv == S!TypeOK /\ FilesAreAsTaken /\ AcceptedIsTaken

LEMMA SnapshotConstants ==
  /\ S!Time \subseteq Nat /\ 0 \in S!Time /\ S!Whole \in Size
  /\ MaxSnapshotAge \in Nat /\ MaxSkew \in Nat
  /\ None \notin S!Taken /\ None \notin S!List
<1>1. Cardinality(Size) \in Size /\ \A n \in Size : Cardinality(Size) >= n
  BY EvidenceConstantsOK
<1>2. S!Whole \in Size
  BY <1>1 DEF S!Whole, S!Max
<1> QED
  BY <1>2, EvidenceConstantsOK DEF S!Time

(* The later of two times.                                                 *)
LEMMA LaterOfTwo ==
  ASSUME NEW s \in Nat, NEW t \in Nat
  PROVE  S!Max({s, t}) = IF s < t THEN t ELSE s
<1> DEFINE m == IF s < t THEN t ELSE s
<1>1. m \in {s, t} /\ \A x \in {s, t} : m >= x
  OBVIOUS
<1>2. \A y \in {s, t} : (\A x \in {s, t} : y >= x) => y = m
  OBVIOUS
<1> QED
  BY <1>1, <1>2 DEF S!Max

LEMMA SnapshotInit ==
  ASSUME S!Init
  PROVE  SnapshotInv
BY SnapshotConstants DEF S!Init, SnapshotInv, S!TypeOK, FilesAreAsTaken, AcceptedIsTaken

LEMMA SnapshotStep ==
  ASSUME SnapshotInv, S!Next
  PROVE  SnapshotInv'
<1> USE DEF SnapshotInv, FilesAreAsTaken, AsTaken
<1>0. /\ now \in S!Time /\ now \in Nat /\ token \in BOOLEAN
      /\ local \subseteq S!Item /\ remote \subseteq S!Item
      /\ taken \in [SnapshotName -> S!Taken \cup {None}]
      /\ evidence \in S!List \cup {None}
      /\ \A item \in S!Item : item.name \in SnapshotName
  BY SnapshotConstants DEF S!TypeOK, S!Item
<1>1. CASE S!Tick
  <2>1. now' \in S!Time /\ now' = now + 1 /\ UNCHANGED <<token, local, remote, taken, evidence, accepted>>
    BY <1>0, <1>1, SnapshotConstants, EvidenceConstantsOK DEF S!Tick, S!Time
  <2>2. \A n \in SnapshotName : taken[n] # None => taken[n].at \in Nat
    BY <1>0, SnapshotConstants DEF S!Taken
  <2> QED
    BY <1>0, <2>1, <2>2 DEF S!TypeOK, AcceptedIsTaken
<1>2. CASE S!RotateToken
  BY <1>0, <1>2 DEF S!RotateToken, S!Unread, S!TypeOK, AcceptedIsTaken
<1>3. ASSUME NEW n \in SnapshotName, S!TakeSnapshot(n)
      PROVE  SnapshotInv'
  <2> DEFINE snapshot == [at |-> now, token |-> token]
             file == [name |-> n, size |-> S!Whole, createdAt |-> now, token |-> token]
  <2>1. /\ evidence = None /\ accepted = None /\ taken[n] = None
        /\ taken' = [taken EXCEPT ![n] = snapshot] /\ local' = local \cup {file}
        /\ UNCHANGED <<now, token, remote, evidence, accepted>>
    BY <1>3 DEF S!TakeSnapshot, S!Unread
  <2>2. snapshot \in S!Taken /\ snapshot # None /\ file \in S!Item
    BY <1>0, SnapshotConstants DEF S!Taken, S!Item
  <2>3. \A m \in SnapshotName : taken[m] # None => taken'[m] = taken[m]
    BY <1>0, <2>1
  <2>4. taken'[n] = snapshot
    BY <1>0, <2>1
  <2>5. snapshot.at = now /\ snapshot.token = token /\ file.name = n /\ file.size = S!Whole
        /\ file.createdAt = now /\ file.token = token
    OBVIOUS
  <2>6. taken' \in [SnapshotName -> S!Taken \cup {None}] /\ local' \subseteq S!Item
    BY <1>0, <2>1, <2>2
  <2> HIDE DEF snapshot, file
  <2>7. \A f \in local' : taken'[f.name] # None /\ f.size = S!Whole
           /\ f.createdAt = taken'[f.name].at /\ f.token = taken'[f.name].token
    BY <1>0, <2>1, <2>2, <2>3, <2>4, <2>5
  <2>8. \A item \in local' \cup remote' : taken'[item.name] # None /\ taken'[item.name].at <= item.createdAt
    BY <1>0, <2>1, <2>2, <2>3, <2>4, <2>5 DEF S!TypeOK
  <2>10. \A m \in SnapshotName : taken'[m] # None => taken'[m].at <= now'
    BY <1>0, <2>1, <2>3, <2>4, <2>5
  <2>9. S!TypeOK'
    BY <1>0, <2>1, <2>6, <2>8 DEF S!TypeOK
  <2> QED
    BY <2>1, <2>7, <2>9, <2>10 DEF AcceptedIsTaken
<1>4. ASSUME NEW file \in local, NEW size \in Size, NEW hash \in BOOLEAN \cup {None}, S!Upload(file, size, hash)
      PROVE  SnapshotInv'
  <2> DEFINE copy == [name |-> file.name, size |-> size, createdAt |-> now, token |-> hash]
  <2>1. /\ evidence = None /\ accepted = None
        /\ remote' = {r \in remote : r.name # file.name} \cup {copy}
        /\ UNCHANGED <<now, token, local, taken, evidence, accepted>>
    BY <1>4 DEF S!Upload, S!Unread
  <2>2. copy \in S!Item /\ copy.name = file.name /\ copy.createdAt = now
    BY <1>0 DEF S!Item
  <2>3. taken[file.name] # None /\ taken[file.name].at <= now
    BY <1>0
  <2> HIDE DEF copy
  <2> QED
    BY <1>0, <2>1, <2>2, <2>3 DEF S!TypeOK, AcceptedIsTaken
<1>5. ASSUME NEW item \in local \cup remote, S!Prune(item)
      PROVE  SnapshotInv'
  BY <1>0, <1>5 DEF S!Prune, S!Unread, S!TypeOK, AcceptedIsTaken
<1>6. CASE S!CaptureList
  <2>1. evidence' \in S!List /\ evidence'.local = local
    BY <1>0, <1>6 DEF S!CaptureList, S!List
  <2> QED
    BY <1>0, <1>6, <2>1 DEF S!CaptureList, S!Unread, S!TypeOK, AcceptedIsTaken
<1>7. CASE S!verifySnapshotEvidence
  <2>1. PICK f \in evidence.local, o \in evidence.remote :
          /\ S!Matches(f, o)
          /\ now - S!Created([file |-> f, object |-> o]) <= MaxSnapshotAge
          /\ accepted' = [at |-> now, file |-> f, object |-> o]
    BY <1>7 DEF S!verifySnapshotEvidence
  <2>2. evidence \in S!List /\ evidence # None /\ UNCHANGED <<now, token, local, remote, taken, evidence>>
    BY <1>0, <1>7 DEF S!verifySnapshotEvidence
  <2>3. f \in S!Item /\ o \in S!Item
    BY <2>2 DEF S!List
  <2>4. /\ accepted'.at = now /\ accepted'.file = f /\ accepted'.object = o
        /\ S!Created(accepted') = S!Created([file |-> f, object |-> o])
    BY <2>1 DEF S!Created
  <2>5. S!TypeOK'
    BY <2>2, <2>4 DEF S!TypeOK
  <2>6. AsTaken(f)
    BY <2>2
  <2> QED
    BY <1>0, <2>1, <2>2, <2>3, <2>4, <2>5, <2>6 DEF AcceptedIsTaken
<1> QED
  BY <1>1, <1>2, <1>3, <1>4, <1>5, <1>6, <1>7 DEF S!Next

(* verify-etcd-snapshot-evidence.mjs: a cluster that passed is rebuilt     *)
(* from the bucket alone, to a state as recent as the limits ask, for any  *)
(* number of snapshots, uploads and limits.                                *)
THEOREM BucketAloneRestores == EvidenceSpec => []BucketRestoresRecentState
<1> DEFINE Inv == part = "snapshots" => SnapshotInv
<1>1. EvidenceInit => Inv
  BY SnapshotInit DEF EvidenceInit
<1>2. Inv /\ [EvidenceNext]_<<part, clock, others>> => Inv'
  <2>1. CASE UNCHANGED <<part, clock, others>>
    BY <2>1 DEF clock, others, snapshots, SnapshotInv, S!TypeOK, FilesAreAsTaken, AsTaken, AcceptedIsTaken
  <2>2. CASE EvidenceNext
    BY <2>2, SnapshotStep DEF EvidenceNext
  <2> QED
    BY <2>1, <2>2
<1>3. Inv => BucketRestoresRecentState
  <2>1. SUFFICES ASSUME SnapshotInv, accepted # None
                 PROVE  /\ accepted.object.size = S!Whole
                        /\ accepted.object.token = taken[accepted.object.name].token
                        /\ accepted.at - taken[accepted.object.name].at <= MaxSnapshotAge + MaxSkew
    BY DEF SnapshotInv, BucketRestoresRecentState, S!BucketRestoresRecentState
  <2> DEFINE f == accepted.file
             o == accepted.object
  <2>2. /\ accepted.at \in Nat /\ f \in S!Item /\ o \in S!Item /\ AsTaken(f) /\ S!Matches(f, o)
        /\ accepted.at - S!Max({f.createdAt, o.createdAt}) <= MaxSnapshotAge
    BY <2>1 DEF SnapshotInv, AcceptedIsTaken, S!Created
  <2> HIDE DEF f, o
  <2>3. f.createdAt \in Nat /\ o.createdAt \in Nat /\ MaxSnapshotAge \in Nat /\ MaxSkew \in Nat
    BY <2>2, SnapshotConstants DEF S!Item
  <2>4. f.name = o.name /\ f.size = o.size /\ f.token = o.token
        /\ (IF f.createdAt < o.createdAt THEN o.createdAt - f.createdAt ELSE f.createdAt - o.createdAt) <= MaxSkew
    BY <2>2 DEF S!Matches, S!Gap
  <2>5. accepted.at - f.createdAt <= MaxSnapshotAge + MaxSkew
    BY <2>2, <2>3, <2>4, LaterOfTwo
  <2> QED
    BY <2>2, <2>4, <2>5 DEF AsTaken, o
<1> QED
  BY <1>1, <1>2, <1>3, PTL DEF EvidenceSpec

-----------------------------------------------------------------------------
(* JetStreamEvidence: a leader is up, just heard of and has every message, *)
(* and what is captured of the followers is the state of one moment.       *)
LeaderIsCurrent == leader # None => heard[leader] = now /\ has[leader] = messages

SeenFrom(l, followers, state) ==
  /\ state.has[l] = state.messages /\ state.heard[l] = state.at
  /\ followers = [s \in Server \ {l} |->
                   [lag |-> state.messages - state.has[s], silent |-> state.at - state.heard[s]]]

CaptureIsOfOneMoment ==
  /\ truth = None /\ evidence # None => evidence.followers = None
  /\ truth # None =>
       /\ evidence # None /\ evidence.observedAt <= truth.at /\ truth.at <= now
       /\ \E l \in Server : SeenFrom(l, evidence.followers, truth)

ObservedBefore == evidence # None => evidence.observedAt <= now

JetStreamInv == J!TypeOK /\ LeaderIsCurrent /\ CaptureIsOfOneMoment /\ ObservedBefore
                /\ J!AnyOneLossLeavesQuorum

LEMMA JetStreamConstants ==
  /\ J!Time \subseteq Nat /\ 0 \in J!Time
  /\ MaxActive \in Nat /\ MaxLiveAge \in Nat /\ MaxMessages \in Nat
  /\ None \notin Server /\ None \notin J!Truth /\ None \notin J!Capture
BY EvidenceConstantsOK DEF J!Time

LEMMA JetStreamInit ==
  ASSUME J!Init
  PROVE  JetStreamInv
BY JetStreamConstants
   DEF J!Init, JetStreamInv, J!TypeOK, LeaderIsCurrent, CaptureIsOfOneMoment, ObservedBefore,
       J!AnyOneLossLeavesQuorum

LEMMA JetStreamStep ==
  ASSUME JetStreamInv, J!Next
  PROVE  JetStreamInv'
<1> USE DEF JetStreamInv, LeaderIsCurrent, ObservedBefore
<1>0. /\ now \in J!Time /\ now \in Nat
      /\ up \subseteq Server /\ leader \in up \cup {None}
      /\ messages \in 0..MaxMessages /\ messages \in Nat /\ MaxMessages \in Nat
      /\ has \in [Server -> 0..messages] /\ heard \in [Server -> 0..now]
      /\ None \notin Server
      /\ evidence # None => evidence \in J!Capture /\ evidence.observedAt \in Nat
      /\ truth # None => truth \in J!Truth /\ truth.at \in Nat
  <2>1. now \in J!Time /\ (evidence # None => evidence \in J!Capture) /\ (truth # None => truth \in J!Truth)
    BY DEF J!TypeOK
  <2>2. evidence # None => evidence.observedAt \in J!Time
    BY <2>1 DEF J!Capture
  <2>3. truth # None => truth.at \in J!Time
    BY <2>1 DEF J!Truth
  <2>4. /\ up \subseteq Server /\ leader \in up \cup {None}
        /\ messages \in 0..MaxMessages
        /\ has \in [Server -> 0..messages] /\ heard \in [Server -> 0..now]
    BY DEF J!TypeOK
  <2>5. messages \in Nat /\ MaxMessages \in Nat
    BY <2>4, JetStreamConstants
  <2>6. J!Time \subseteq Nat /\ None \notin Server
    BY JetStreamConstants
  <2> QED
    BY <2>1, <2>2, <2>3, <2>4, <2>5, <2>6
<1>1. CASE J!Tick
  <2>1. now' \in J!Time /\ now' = now + 1 /\ accepted = None
        /\ UNCHANGED <<up, leader, messages, has, evidence, truth, accepted>>
    <3>1. now < JetStreamTime /\ now' = now + 1 /\ accepted = None
          /\ UNCHANGED <<up, leader, messages, has, evidence, truth, accepted>>
      BY <1>1 DEF J!Tick
    <3>2. JetStreamTime \in Nat
      BY EvidenceConstantsOK
    <3> QED
      BY <1>0, <3>1, <3>2 DEF J!Time
  <2>2. heard' \in [Server -> 0..now'] /\ (leader # None => heard'[leader] = now')
    BY <1>0, <1>1, <2>1 DEF J!Tick
  <2>3. J!TypeOK'
    BY <2>1, <2>2 DEF J!TypeOK
  <2>5. CaptureIsOfOneMoment'
    <3>1. truth' = truth /\ evidence' = evidence
      BY <2>1
    <3>2. truth # None => truth.at <= now'
      BY <1>0, <2>1 DEF CaptureIsOfOneMoment
    <3> QED
      BY <3>1, <3>2 DEF CaptureIsOfOneMoment
  <2> QED
    BY <1>0, <2>1, <2>2, <2>3, <2>5 DEF J!AnyOneLossLeavesQuorum
<1>2. ASSUME NEW s \in Server, J!Fail(s)
      PROVE  JetStreamInv'
  BY <1>0, <1>2 DEF J!Fail, J!Unread, J!TypeOK, CaptureIsOfOneMoment, J!AnyOneLossLeavesQuorum
<1>3. ASSUME NEW s \in Server, J!Return(s)
      PROVE  JetStreamInv'
  BY <1>0, <1>3 DEF J!Return, J!Unread, J!TypeOK, CaptureIsOfOneMoment, J!AnyOneLossLeavesQuorum
<1>4. ASSUME NEW s \in Server, J!Elect(s)
      PROVE  JetStreamInv'
  <2>1. /\ leader' = s /\ messages' = has[s] /\ s \in up
        /\ UNCHANGED <<now, up, evidence, truth, accepted>> /\ truth = None
        /\ has' = [t \in Server |-> IF has[t] > has[s] THEN has[s] ELSE has[t]]
        /\ heard' = [t \in Server |-> IF t \in up THEN now ELSE heard[t]]
    BY <1>4 DEF J!Elect, J!Unread
  <2>2. messages' \in 0..MaxMessages /\ has' \in [Server -> 0..messages'] /\ has'[s] = messages'
    BY <1>0, <2>1
  <2>3. heard' \in [Server -> 0..now] /\ heard'[s] = now
    BY <1>0, <2>1
  <2>4. J!TypeOK'
    BY <1>0, <2>1, <2>2, <2>3 DEF J!TypeOK
  <2> QED
    BY <1>0, <2>1, <2>2, <2>3, <2>4 DEF CaptureIsOfOneMoment, J!TypeOK, J!AnyOneLossLeavesQuorum
<1>5. ASSUME NEW s \in Server, J!Publish(s)
      PROVE  JetStreamInv'
  <2>1. /\ leader # None /\ s \in up \ {leader} /\ messages < MaxMessages /\ messages' = messages + 1
        /\ has' = [has EXCEPT ![leader] = messages + 1, ![s] = messages + 1]
        /\ UNCHANGED <<now, up, leader, heard, evidence, truth, accepted>> /\ truth = None
    BY <1>5 DEF J!Publish, J!Unread
  <2>2. messages' \in 0..MaxMessages /\ has' \in [Server -> 0..messages'] /\ has'[leader] = messages'
    BY <1>0, <2>1
  <2>3. J!TypeOK'
    BY <1>0, <2>1, <2>2 DEF J!TypeOK
  <2> QED
    BY <1>0, <2>1, <2>2, <2>3 DEF CaptureIsOfOneMoment, J!TypeOK, J!AnyOneLossLeavesQuorum
<1>6. ASSUME NEW s \in Server, J!CatchUp(s)
      PROVE  JetStreamInv'
  <2>1. /\ has' = [has EXCEPT ![s] = messages]
        /\ UNCHANGED <<now, up, leader, messages, heard, evidence, truth, accepted>> /\ truth = None
    BY <1>6 DEF J!CatchUp, J!Unread
  <2>2. has' \in [Server -> 0..messages] /\ (leader # None => has'[leader] = messages)
    BY <1>0, <2>1
  <2>3. J!TypeOK'
    BY <1>0, <2>1, <2>2 DEF J!TypeOK
  <2> QED
    BY <1>0, <2>1, <2>2, <2>3 DEF CaptureIsOfOneMoment, J!TypeOK, J!AnyOneLossLeavesQuorum
<1>7. CASE J!BeginCapture
  <2>1. /\ evidence = None
        /\ evidence' = [observedAt |-> now, routes |-> [s \in Server |-> None], followers |-> None]
        /\ UNCHANGED <<now, up, leader, messages, has, heard, truth, accepted>>
    BY <1>7 DEF J!BeginCapture, J!cluster
  <2>2. evidence' \in J!Capture
    BY <1>0, <2>1 DEF J!Capture
  <2>3. truth = None
    BY <2>1 DEF CaptureIsOfOneMoment
  <2> QED
    BY <1>0, <2>1, <2>2, <2>3 DEF J!TypeOK, CaptureIsOfOneMoment, J!AnyOneLossLeavesQuorum
<1>8. ASSUME NEW s \in Server, J!ReadServer(s)
      PROVE  JetStreamInv'
  <2>1. /\ evidence # None /\ truth = None /\ evidence' = [evidence EXCEPT !.routes[s] = up \ {s}]
        /\ evidence.followers = None
        /\ UNCHANGED <<now, up, leader, messages, has, heard, truth, accepted>>
    BY <1>8 DEF J!ReadServer, J!Unread, J!cluster, CaptureIsOfOneMoment
  <2>2. evidence' \in J!Capture /\ evidence'.followers = None /\ evidence'.observedAt = evidence.observedAt
    BY <1>0, <2>1 DEF J!Capture
  <2> QED
    BY <1>0, <2>1, <2>2 DEF J!TypeOK, CaptureIsOfOneMoment, J!AnyOneLossLeavesQuorum
<1>9. CASE J!ReadStream
  <2> DEFINE state == [at |-> now, messages |-> messages, has |-> has, heard |-> heard]
             seen == [s \in Server \ {leader} |-> [lag |-> messages - has[s], silent |-> now - heard[s]]]
  <2>1. /\ evidence # None /\ truth = None /\ leader # None
        /\ evidence' = [evidence EXCEPT !.followers = seen] /\ truth' = state
        /\ UNCHANGED <<now, up, leader, messages, has, heard, accepted>>
    BY <1>9 DEF J!ReadStream, J!Unread, J!cluster
  <2>2. state \in J!Truth /\ state # None
    <3>1. has \in [Server -> 0..MaxMessages]
      BY <1>0
    <3>2. heard \in [Server -> J!Time]
      <4>1. 0..now \subseteq J!Time
        BY <1>0, EvidenceConstantsOK DEF J!Time
      <4> QED
        BY <1>0, <4>1
    <3>3. state \in J!Truth
      BY <1>0, <3>1, <3>2 DEF J!Truth
    <3> QED
      BY <3>3, JetStreamConstants
  <2>3. leader \in Server /\ SeenFrom(leader, seen, state)
    BY <1>0, <2>1 DEF SeenFrom
  <2>4. seen \in J!Followers
    <3>1. 0..now \subseteq J!Time
      BY <1>0, EvidenceConstantsOK DEF J!Time
    <3>2. seen \in [Server \ {leader} -> [lag : 0..MaxMessages, silent : J!Time]]
      <4>1. ASSUME NEW s \in Server
            PROVE  messages - has[s] \in 0..MaxMessages /\ now - heard[s] \in J!Time
        <5>1. has[s] \in 0..messages /\ heard[s] \in 0..now
          BY <1>0
        <5> QED
          BY <1>0, <3>1, <5>1
      <4> QED
        BY <4>1
    <3> QED
      BY <3>2 DEF J!Followers
  <2>5. evidence' \in J!Capture /\ evidence'.followers = seen /\ evidence'.observedAt = evidence.observedAt
    <3> HIDE DEF seen
    <3> QED
      BY <1>0, <2>1, <2>4 DEF J!Capture
  <2>6. state.at = now
    OBVIOUS
  <2> HIDE DEF state, seen
  <2>7. accepted = None
    BY <2>1 DEF J!TypeOK
  <2> QED
    BY <1>0, <2>1, <2>2, <2>3, <2>5, <2>6, <2>7, JetStreamConstants
       DEF J!TypeOK, CaptureIsOfOneMoment, J!AnyOneLossLeavesQuorum
<1>10. CASE J!Validate
  <2>1. PICK doc \in J!Documents : J!ValidJetStreamEvidence(doc) /\ doc.mode = "live"
    BY <1>10 DEF J!Validate
  <2>2. /\ evidence # None /\ accepted' = [at |-> now]
        /\ UNCHANGED <<now, up, leader, messages, has, heard, evidence, truth>>
    BY <1>10 DEF J!Validate, J!cluster
  <2>3. now - evidence.observedAt <= MaxLiveAge /\ J!ValidReplicas
    BY <2>1 DEF J!ValidJetStreamEvidence
  <2>4. evidence.followers # None
    BY <2>3 DEF J!ValidReplicas
  <2>5. truth # None /\ evidence.observedAt \in Nat /\ evidence.observedAt <= truth.at /\ truth.at <= now
    BY <1>0, <2>2, <2>4 DEF CaptureIsOfOneMoment
  <2>6. PICK l \in Server : SeenFrom(l, evidence.followers, truth)
    BY <2>2, <2>5 DEF CaptureIsOfOneMoment
  <2>7. truth \in J!Truth
    BY <2>5 DEF J!TypeOK
  <2>8. truth.at \in Nat /\ truth.messages \in Nat
        /\ \A s \in Server : truth.has[s] \in Nat /\ truth.heard[s] \in Nat
    BY <2>7, JetStreamConstants DEF J!Truth
  <2>9. now - truth.at <= MaxLiveAge
    BY <1>0, <2>3, <2>5, <2>8, JetStreamConstants
  <2>10. ASSUME NEW s \in Server
         PROVE  truth.has[s] = truth.messages /\ truth.at - truth.heard[s] <= MaxActive
    <3>1. CASE s = l
      BY <2>6, <2>8, <3>1, JetStreamConstants DEF SeenFrom
    <3>2. CASE s # l
      <4>1. s \in DOMAIN evidence.followers
            /\ evidence.followers[s].lag = truth.messages - truth.has[s]
            /\ evidence.followers[s].silent = truth.at - truth.heard[s]
        BY <2>6, <3>2 DEF SeenFrom
      <4> QED
        BY <2>3, <2>8, <4>1 DEF J!ValidReplicas
    <3> QED
      BY <3>1, <3>2
  <2>11. accepted'.at = now
    BY <2>2
  <2>12. now \in truth.at..now
    BY <1>0, <2>5, <2>8
  <2> QED
    BY <2>2, <2>5, <2>9, <2>10, <2>11, <2>12 DEF J!TypeOK, CaptureIsOfOneMoment, J!AnyOneLossLeavesQuorum
<1> QED
  BY <1>1, <1>2, <1>3, <1>4, <1>5, <1>6, <1>7, <1>8, <1>9, <1>10 DEF J!Next

(* validate-laptop-jetstream-evidence.mjs: anyOneServerLossLeavesQuorum is *)
(* true of one recent moment, for any number of servers and however their  *)
(* reports and the stream's were interleaved with failures.                *)
THEOREM AnyOneLossIsSurvived == EvidenceSpec => []AnyOneLossLeavesQuorum
<1> DEFINE Inv == part = "jetstream" => JetStreamInv
<1>1. EvidenceInit => Inv
  BY JetStreamInit DEF EvidenceInit
<1>2. Inv /\ [EvidenceNext]_<<part, clock, others>> => Inv'
  <2>1. CASE UNCHANGED <<part, clock, others>>
    BY <2>1 DEF clock, others, jetstream, JetStreamInv, J!TypeOK, LeaderIsCurrent, CaptureIsOfOneMoment,
                ObservedBefore, J!AnyOneLossLeavesQuorum
  <2>2. CASE EvidenceNext
    BY <2>2, JetStreamStep DEF EvidenceNext
  <2> QED
    BY <2>1, <2>2
<1>3. Inv => AnyOneLossLeavesQuorum
  BY DEF JetStreamInv, AnyOneLossLeavesQuorum
<1> QED
  BY <1>1, <1>2, <1>3, PTL DEF EvidenceSpec

-----------------------------------------------------------------------------
(* CommercialIntake: one open insert, and whoever is past the look at the  *)
(* stored row - it replays, or has committed - has it before it.           *)
Settled(c) == phase[c] \in {"replaying", "committed", "answered"}

(* One insert is open at most, and only while nothing is stored; a call    *)
(* that found the key taken, or is done, has the stored row before it, and *)
(* the reply built from it names that row.                                 *)
OneInsert ==
  \A c \in Call : phase[c] = "inserted" =>
    pending = c /\ stored = None /\ reply[c] = [by |-> c, idempotent_replay |-> FALSE]

NoneWaits == pending # None => stored = None /\ phase[pending] = "inserted"

ReplyOfStored ==
  \A c \in Call : Settled(c) =>
    /\ stored # None /\ stored.digest = digest[c]
    /\ reply[c].by = stored.by
    /\ reply[c].idempotent_replay \/ stored.by = c

RefusalIsDue ==
  \A c \in Call :
    /\ phase[c] = "conflicted" => stored # None
    /\ phase[c] = "refused" /\ allowed[c] => stored # None /\ stored.digest # digest[c]

IntakeInv == C!TypeOK /\ OneInsert /\ NoneWaits /\ ReplyOfStored /\ RefusalIsDue

LEMMA IntakeConstants ==
  /\ MaxTries \in Nat
  /\ None \notin Call
  /\ None \notin [by : Call, digest : Digest]
  /\ None \notin [by : Call, idempotent_replay : BOOLEAN]
BY EvidenceConstantsOK

LEMMA IntakeInit ==
  ASSUME C!Init
  PROVE  IntakeInv
BY IntakeConstants DEF C!Init, IntakeInv, C!TypeOK, OneInsert, NoneWaits, ReplyOfStored, RefusalIsDue, Settled

LEMMA IntakeInsert ==
  ASSUME IntakeInv, NEW c \in Call, C!Insert(c)
  PROVE  IntakeInv'
<1> USE IntakeConstants DEF IntakeInv, C!Insert, C!requests, C!Goes
<1>1. CASE stored = None
  <2>1. pending' = c /\ phase' = [phase EXCEPT ![c] = "inserted"]
        /\ reply' = [reply EXCEPT ![c] = [by |-> c, idempotent_replay |-> FALSE]]
    BY <1>1
  <2>2. C!TypeOK'
    BY <2>1 DEF C!TypeOK, C!Open
  <2>3. \A d \in Call : phase[d] # "inserted"
    BY DEF OneInsert, C!TypeOK
  <2>4. OneInsert' /\ NoneWaits'
    BY <1>1, <2>1, <2>3 DEF C!TypeOK, OneInsert, NoneWaits
  <2>5. ReplyOfStored' /\ RefusalIsDue'
    BY <2>1 DEF C!TypeOK, ReplyOfStored, RefusalIsDue, Settled
  <2> QED
    BY <2>2, <2>4, <2>5
<1>2. CASE stored # None
  <2>1. phase' = [phase EXCEPT ![c] = "conflicted"] /\ UNCHANGED <<pending, reply>>
    BY <1>2
  <2>2. C!TypeOK'
    BY <2>1 DEF C!TypeOK, C!Open
  <2>3. OneInsert' /\ NoneWaits'
    BY <2>1 DEF C!TypeOK, OneInsert, NoneWaits
  <2>4. ReplyOfStored' /\ RefusalIsDue'
    BY <1>2, <2>1 DEF C!TypeOK, ReplyOfStored, RefusalIsDue, Settled
  <2> QED
    BY <2>2, <2>3, <2>4
<1> QED
  BY <1>1, <1>2

LEMMA IntakeRejectRow ==
  ASSUME IntakeInv, NEW c \in Call, C!RejectRow(c)
  PROVE  IntakeInv'
<1> USE IntakeConstants DEF IntakeInv, C!RejectRow, C!requests, C!Goes
<1>1. C!TypeOK'
  BY DEF C!TypeOK, C!Open
<1>2. OneInsert' /\ NoneWaits'
  BY DEF C!TypeOK, OneInsert, NoneWaits
<1>3. ReplyOfStored' /\ RefusalIsDue'
  BY DEF C!TypeOK, ReplyOfStored, RefusalIsDue, Settled
<1> QED
  BY <1>1, <1>2, <1>3

LEMMA IntakeSelectStored ==
  ASSUME IntakeInv, NEW c \in Call, C!SelectStored(c)
  PROVE  IntakeInv'
<1> USE IntakeConstants DEF IntakeInv, C!SelectStored, C!requests, C!Goes
<1>1. stored # None
  BY DEF RefusalIsDue
<1>2. C!TypeOK'
  <2>1. stored.by \in Call
    BY <1>1 DEF C!TypeOK
  <2>2. [by |-> stored.by, idempotent_replay |-> TRUE] \in [by : Call, idempotent_replay : BOOLEAN]
    BY <2>1
  <2>3. phase' \in [Call -> {"called", "committed", "answered", "refused", "lost"} \cup C!Open]
    BY DEF C!TypeOK, C!Open
  <2>4. reply' \in [Call -> [by : Call, idempotent_replay : BOOLEAN] \cup {None}]
    BY <2>2 DEF C!TypeOK
  <2> QED
    BY <2>3, <2>4 DEF C!TypeOK
<1>3. OneInsert' /\ NoneWaits'
  BY DEF C!TypeOK, OneInsert, NoneWaits
<1>4. ReplyOfStored'
  BY <1>1 DEF C!TypeOK, ReplyOfStored, Settled
<1>5. RefusalIsDue'
  BY <1>1 DEF C!TypeOK, RefusalIsDue
<1> QED
  BY <1>2, <1>3, <1>4, <1>5

(* The insert that commits was alone, so nobody has another row in mind.   *)
LEMMA IntakeCommit ==
  ASSUME IntakeInv, NEW c \in Call, C!Commit(c)
  PROVE  IntakeInv'
<1> USE IntakeConstants DEF IntakeInv, C!Commit, C!requests, C!Goes
<1>1. C!TypeOK'
  BY DEF C!TypeOK, C!Open
<1>2. OneInsert' /\ NoneWaits'
  BY DEF C!TypeOK, OneInsert, NoneWaits
<1>3. CASE phase[c] = "inserted"
  <2>1. stored = None /\ stored' = [by |-> c, digest |-> digest[c]] /\ stored' # None
    BY <1>1, <1>3 DEF OneInsert, C!TypeOK
  <2>2. reply[c] = [by |-> c, idempotent_replay |-> FALSE]
    BY <1>3 DEF OneInsert
  <2>3. ReplyOfStored'
    BY <1>3, <2>1, <2>2 DEF C!TypeOK, ReplyOfStored, Settled
  <2>4. RefusalIsDue'
    BY <1>3, <2>1 DEF C!TypeOK, RefusalIsDue
  <2> QED
    BY <1>1, <1>2, <2>3, <2>4
<1>4. CASE phase[c] = "replaying"
  <2>1. ReplyOfStored' /\ RefusalIsDue'
    BY <1>4 DEF C!TypeOK, ReplyOfStored, RefusalIsDue, Settled
  <2> QED
    BY <1>1, <1>2, <2>1
<1> QED
  BY <1>3, <1>4

LEMMA IntakeAnswer ==
  ASSUME IntakeInv, NEW c \in Call, C!Answer(c)
  PROVE  IntakeInv'
<1> USE IntakeConstants DEF IntakeInv, C!Answer, C!requests, C!Goes
<1>1. C!TypeOK'
  BY DEF C!TypeOK, C!Open
<1>2. OneInsert' /\ NoneWaits'
  BY DEF C!TypeOK, OneInsert, NoneWaits
<1>3. ReplyOfStored' /\ RefusalIsDue'
  BY DEF C!TypeOK, ReplyOfStored, RefusalIsDue, Settled
<1> QED
  BY <1>1, <1>2, <1>3

(* Whoever is lost with an insert open frees the key.                      *)
LEMMA IntakeLose ==
  ASSUME IntakeInv, NEW c \in Call, C!Lose(c)
  PROVE  IntakeInv'
<1> USE IntakeConstants DEF IntakeInv, C!Lose, C!requests, C!Goes
<1>1. C!TypeOK'
  BY DEF C!TypeOK, C!Open
<1>2. OneInsert' /\ NoneWaits'
  BY DEF C!TypeOK, OneInsert, NoneWaits
<1>3. ReplyOfStored' /\ RefusalIsDue'
  BY DEF C!TypeOK, ReplyOfStored, RefusalIsDue, Settled
<1> QED
  BY <1>1, <1>2, <1>3

LEMMA IntakeRetry ==
  ASSUME IntakeInv, NEW c \in Call, C!Retry(c)
  PROVE  IntakeInv'
<1> USE IntakeConstants DEF IntakeInv, C!Retry, C!requests, C!Goes
<1>1. C!TypeOK'
  BY DEF C!TypeOK, C!Open
<1>2. OneInsert' /\ NoneWaits'
  BY DEF C!TypeOK, OneInsert, NoneWaits
<1>3. ReplyOfStored' /\ RefusalIsDue'
  BY DEF C!TypeOK, ReplyOfStored, RefusalIsDue, Settled
<1> QED
  BY <1>1, <1>2, <1>3

LEMMA IntakeStep ==
  ASSUME IntakeInv, C!Next
  PROVE  IntakeInv'
BY IntakeInsert, IntakeRejectRow, IntakeSelectStored, IntakeCommit, IntakeAnswer, IntakeLose, IntakeRetry
   DEF C!Next

LEMMA IntakeHolds == EvidenceSpec => [](part = "intake" => IntakeInv)
<1> DEFINE Inv == part = "intake" => IntakeInv
<1>1. EvidenceInit => Inv
  BY IntakeInit DEF EvidenceInit
<1>2. Inv /\ [EvidenceNext]_<<part, clock, others>> => Inv'
  <2>1. CASE UNCHANGED <<part, clock, others>>
    BY <2>1 DEF others, intake, IntakeInv, C!TypeOK, OneInsert, NoneWaits, ReplyOfStored, RefusalIsDue, Settled
  <2>2. CASE EvidenceNext
    BY <2>2, IntakeStep DEF EvidenceNext
  <2> QED
    BY <2>1, <2>2
<1> QED
  BY <1>1, <1>2, PTL DEF EvidenceSpec

(* Every answer under one key tells of the one stored submission, whoever  *)
(* asked, however often, and whatever was lost: the unique key and the     *)
(* re-read of fiducia_submit_commercial_intake_v1 for all bounds.          *)
THEOREM AnswersTellOfOneSubmission == EvidenceSpec => []RepliesAgree
<1>1. (part = "intake" => IntakeInv) => RepliesAgree
  BY DEF IntakeInv, ReplyOfStored, RefusalIsDue, Settled, RepliesAgree, C!RepliesAgree
<1> QED
  BY <1>1, IntakeHolds, PTL

(* The stored submission is never replaced or removed: no retry and no     *)
(* caller with another request takes over a key that is in use.            *)
THEOREM StoredRowStays ==
  EvidenceSpec => [][part = "intake" /\ stored # None => stored' = stored]_<<part, clock, others>>
<1>1. ASSUME part = "intake" => IntakeInv, [EvidenceNext]_<<part, clock, others>>,
             part = "intake", stored # None
      PROVE  stored' = stored
  <2>1. ASSUME NEW c \in Call, C!Commit(c)
        PROVE  stored' = stored
    BY <1>1, <2>1 DEF C!Commit, IntakeInv, OneInsert
  <2>2. ASSUME NEW c \in Call, C!Insert(c) \/ C!RejectRow(c) \/ C!SelectStored(c)
                               \/ C!Answer(c) \/ C!Lose(c) \/ C!Retry(c)
        PROVE  stored' = stored
    BY <2>2 DEF C!Insert, C!RejectRow, C!SelectStored, C!Answer, C!Lose, C!Retry
  <2>3. C!Next => stored' = stored
    BY <2>1, <2>2 DEF C!Next
  <2> QED
    BY <1>1, <2>3 DEF EvidenceNext, others, intake
<1> QED
  BY <1>1, IntakeHolds, PTL DEF EvidenceSpec

-----------------------------------------------------------------------------
(* ApplicationLedger: what a record shows has happened, and mails that are *)
(* granted but not sent yet are counted with the sent ones.                *)
Event == L!Reply \cup {"email_sent"}
MailsIn(seq) == Cardinality({i \in DOMAIN seq : seq[i] = "email_sent"})
Granted(id) == {s \in Sender : granted[s] # None /\ L!IdentityOf(granted[s]) = id}

RecordedStays ==
  \A id \in L!Identity : known[id] # None =>
    \E app \in L!Application : ledger[app] # None /\ L!IdentityOf(app) = id

MailsAreGranted ==
  \A id \in L!Identity : known[id] # None =>
    MailsIn(events[id]) + Cardinality(Granted(id)) <= known[id] + Cardinality(Sender)

LedgerInv == L!TypeOK /\ RecordedStays /\ MailsAreGranted

LEMMA LedgerConstants ==
  /\ None \notin Nat /\ None \notin L!Application /\ None \notin L!Record
  /\ IsFiniteSet(Sender) /\ IsFiniteSet(L!Identity)
  /\ \A app \in L!Application : L!IdentityOf(app) \in L!Identity /\ L!makeIdempotencyKey(app) = L!IdentityOf(app)
<1>1. IsFiniteSet(Program \X Category)
  BY FS_Product, EvidenceConstantsOK
<1>2. Slug \in [Name -> Program]
  BY EvidenceConstantsOK
<1>3. ASSUME NEW app \in L!Application
      PROVE  L!IdentityOf(app) \in L!Identity /\ L!makeIdempotencyKey(app) = L!IdentityOf(app)
  BY <1>2 DEF L!Application, L!Identity, L!IdentityOf, L!makeIdempotencyKey
<1>4. None \notin Nat /\ None \notin L!Application /\ None \notin L!Record /\ IsFiniteSet(Sender)
  BY EvidenceConstantsOK
<1> QED
  BY <1>1, <1>3, <1>4 DEF L!Identity

(* The instance brings its own copy of Cardinality.                        *)
LEMMA SameCardinality ==
  ASSUME NEW T
  PROVE  L!Cardinality(T) = Cardinality(T)
BY DEF L!Cardinality, Cardinality

LEMMA MailsAreCounted ==
  ASSUME NEW id
  PROVE  L!Mails(id) = MailsIn(events[id])
<1> DEFINE M == {i \in DOMAIN events[id] : events[id][i] = "email_sent"}
<1>1. L!Mails(id) = L!Cardinality(M) /\ MailsIn(events[id]) = Cardinality(M)
  BY DEF L!Mails, MailsIn
<1> HIDE DEF M
<1> QED
  BY <1>1, SameCardinality

(* One more event is one more mail only if it is a mail.                   *)
LEMMA MailsOfAppend ==
  ASSUME NEW seq \in Seq(Event), NEW e
  PROVE  /\ MailsIn(seq) \in Nat
         /\ MailsIn(Append(seq, e)) = MailsIn(seq) + (IF e = "email_sent" THEN 1 ELSE 0)
<1> DEFINE M == {i \in 1..Len(seq) : seq[i] = "email_sent"}
           N == {i \in 1..(Len(seq) + 1) : Append(seq, e)[i] = "email_sent"}
<1>1. Len(seq) \in Nat /\ DOMAIN seq = 1..Len(seq) /\ DOMAIN Append(seq, e) = 1..(Len(seq) + 1)
  OBVIOUS
<1>2. MailsIn(seq) = Cardinality(M) /\ MailsIn(Append(seq, e)) = Cardinality(N)
  BY <1>1 DEF MailsIn
<1>3. IsFiniteSet(M) /\ Cardinality(M) \in Nat
  <2>1. IsFiniteSet(1..Len(seq))
    BY <1>1, FS_Interval
  <2>2. M \in SUBSET (1..Len(seq))
    OBVIOUS
  <2> QED
    BY <2>1, <2>2, FS_Subset, FS_CardinalityType
<1>4. CASE e = "email_sent"
  <2>1. N = M \cup {Len(seq) + 1} /\ Len(seq) + 1 \notin M
    BY <1>1, <1>4
  <2>2. Cardinality(M \cup {Len(seq) + 1}) = Cardinality(M) + 1
    BY <1>3, <2>1, FS_AddElement
  <2> QED
    BY <1>2, <1>3, <1>4, <2>1, <2>2
<1>5. CASE e # "email_sent"
  <2>1. N = M
    BY <1>1, <1>5
  <2> HIDE DEF M, N
  <2> QED
    BY <1>2, <1>3, <1>5, <2>1
<1> QED
  BY <1>4, <1>5

(* Part of a sequence holds nothing that the sequence does not hold.       *)
LEMMA PartsArePart ==
  ASSUME NEW seq \in Seq(Event), NEW piece \in L!PartsInOrder(seq)
  PROVE  piece \in Seq(Event) /\ L!Range(piece) \subseteq L!Range(seq)
<1>1. PICK n \in 0..Len(seq) : \E at \in [1..n -> DOMAIN seq] : piece = [i \in 1..n |-> seq[at[i]]]
  BY DEF L!PartsInOrder
<1> PICK at \in [1..n -> DOMAIN seq] : piece = [i \in 1..n |-> seq[at[i]]]
  BY <1>1
<1>2. n \in Nat /\ \A i \in 1..n : at[i] \in 1..Len(seq) /\ seq[at[i]] \in Event
  BY <1>1
<1>3. piece \in Seq(Event)
  BY <1>1, <1>2
<1>4. DOMAIN piece = 1..n /\ \A i \in 1..n : piece[i] = seq[at[i]] /\ at[i] \in DOMAIN seq
  BY <1>1
<1> QED
  BY <1>3, <1>4 DEF L!Range

LEMMA GrantedIsFinite ==
  ASSUME NEW id
  PROVE  IsFiniteSet(Granted(id)) /\ Cardinality(Granted(id)) \in Nat
         /\ Cardinality(Sender) \in Nat /\ Cardinality(Granted(id)) <= Cardinality(Sender)
<1>1. Granted(id) \in SUBSET Sender
  BY DEF Granted
<1> QED
  BY <1>1, LedgerConstants, FS_Subset, FS_CardinalityType

LEMMA LedgerInit ==
  ASSUME L!Init
  PROVE  LedgerInv
<1>1. L!TypeOK
  <2>1. \A app \in L!Application : ledger[app] = None
    BY DEF L!Init
  <2>2. L!validateApplicationLedger(ledger)
    BY <2>1 DEF L!validateApplicationLedger
  <2>3. <<>> \in Seq(Event)
    OBVIOUS
  <2> QED
    BY <2>1, <2>2, <2>3 DEF L!Init, L!TypeOK, Event
<1> QED
  BY <1>1 DEF L!Init, LedgerInv, RecordedStays, MailsAreGranted

(* An event is added to one application; the record's evidence stays true. *)
LEMMA HappensType ==
  ASSUME L!TypeOK, NEW id \in L!Identity, NEW e \in Event, L!Happens(id, e),
         UNCHANGED <<migrated, ledger, known>>, granted' \in [Sender -> L!Application \cup {None}]
  PROVE  L!TypeOK'
<1>1. events \in [L!Identity -> Seq(Event)] /\ events' = [events EXCEPT ![id] = Append(events[id], e)]
  BY DEF L!TypeOK, Event, L!Happens
<1>2. events' \in [L!Identity -> Seq(Event)]
  BY <1>1
<1>3. \A other \in L!Identity : L!Range(events[other]) \subseteq L!Range(events'[other])
  <2>1. SUFFICES ASSUME NEW other \in L!Identity, NEW i \in DOMAIN events[other]
                 PROVE  \E j \in DOMAIN events'[other] : events'[other][j] = events[other][i]
    BY DEF L!Range
  <2>2. CASE other = id
    <3>1. events[id] \in Seq(Event) /\ events'[id] = Append(events[id], e) /\ i \in DOMAIN events[id]
      BY <1>1, <2>2
    <3>2. i \in DOMAIN Append(events[id], e) /\ Append(events[id], e)[i] = events[id][i]
      BY <3>1
    <3> QED
      BY <2>2, <3>1, <3>2
  <2>3. CASE other # id
    BY <1>1, <2>3
  <2> QED
    BY <2>2, <2>3
<1>4. \A app \in L!Application : ledger[app] # None =>
        L!Range(ledger[app].evidence) \subseteq L!Range(events'[L!IdentityOf(app)])
  BY <1>3, LedgerConstants DEF L!TypeOK
<1>5. L!validateApplicationLedger(ledger) /\ ledger' = ledger
  BY DEF L!TypeOK
<1>6. L!validateApplicationLedger(ledger')
  BY <1>5
<1> QED
  BY <1>2, <1>4, <1>6 DEF L!TypeOK, Event

LEMMA LedgerStep ==
  ASSUME LedgerInv, L!Next
  PROVE  LedgerInv'
<1>0. /\ L!TypeOK /\ RecordedStays /\ MailsAreGranted
      /\ events \in [L!Identity -> Seq(Event)] /\ known \in [L!Identity -> Nat \cup {None}]
      /\ granted \in [Sender -> L!Application \cup {None}]
      /\ ledger \in [L!Application -> L!Record \cup {None}]
  BY DEF LedgerInv, L!TypeOK, Event
<1>1. CASE L!CompleteMigration
  BY <1>0, <1>1 DEF L!CompleteMigration, LedgerInv, L!TypeOK, RecordedStays, MailsAreGranted, Granted
<1>2. ASSUME NEW s \in Sender, L!SendMail(s)
      PROVE  LedgerInv'
  <2> DEFINE app == granted[s]
             id == L!IdentityOf(app)
  <2>1. /\ app \in L!Application /\ app # None /\ id \in L!Identity
        /\ granted' = [granted EXCEPT ![s] = None]
        /\ L!Happens(id, "email_sent") /\ UNCHANGED <<migrated, ledger, known>>
    BY <1>0, <1>2, LedgerConstants DEF L!SendMail
  <2>2. L!TypeOK'
    BY <1>0, <2>1, HappensType DEF Event
  <2>3. events' = [events EXCEPT ![id] = Append(events[id], "email_sent")]
    BY <2>1 DEF L!Happens
  <2>4. ASSUME NEW other \in L!Identity, known[other] # None
        PROVE  MailsIn(events'[other]) + Cardinality(Granted(other)') <= known[other] + Cardinality(Sender)
    <3>1. MailsIn(events[other]) + Cardinality(Granted(other)) <= known[other] + Cardinality(Sender)
      BY <1>0, <2>4 DEF MailsAreGranted
    <3>2. CASE other = id
      <4>1. s \in Granted(other) /\ Granted(other)' = Granted(other) \ {s}
        BY <1>0, <2>1, <3>2 DEF Granted
      <4>2. Cardinality(Granted(other)') = Cardinality(Granted(other)) - 1
        BY <4>1, GrantedIsFinite, FS_RemoveElement
      <4>3. MailsIn(events'[other]) = MailsIn(events[other]) + 1 /\ MailsIn(events[other]) \in Nat
        BY <1>0, <2>3, <3>2, MailsOfAppend
      <4>4. known[other] \in Nat
        BY <1>0, <2>4
      <4> QED
        BY <3>1, <4>2, <4>3, <4>4, GrantedIsFinite
    <3>3. CASE other # id
      <4>1. Granted(other)' = Granted(other) /\ events'[other] = events[other]
        BY <1>0, <2>1, <2>3, <3>3 DEF Granted
      <4> QED
        BY <3>1, <4>1
    <3> QED
      BY <3>2, <3>3
  <2> HIDE DEF app, id
  <2> QED
    BY <1>0, <2>1, <2>2, <2>4 DEF LedgerInv, RecordedStays, MailsAreGranted
<1>3. ASSUME NEW s \in Sender, NEW app \in L!Application, L!authorizeApplicationSend(s, app)
      PROVE  LedgerInv'
  <2>1. PICK controls \in BOOLEAN :
          granted' = [granted EXCEPT ![s] = IF L!Authorized(app, controls) THEN app ELSE None]
    BY <1>3 DEF L!authorizeApplicationSend
  <2>2. granted[s] = None /\ UNCHANGED <<migrated, ledger, events, known>>
    BY <1>3 DEF L!authorizeApplicationSend
  <2>3. L!TypeOK'
    BY <1>0, <2>1, <2>2 DEF L!TypeOK
  <2>4. ASSUME NEW id \in L!Identity, known[id] # None
        PROVE  Granted(id)' = Granted(id)
    <3>1. PICK entry \in L!Application : ledger[entry] # None /\ L!IdentityOf(entry) = id
      BY <1>0, <2>4 DEF RecordedStays
    <3>2. L!Authorized(app, controls) => L!IdentityOf(app) # id
      BY <3>1, LedgerConstants DEF L!Authorized
    <3>3. \A t \in Sender : t # s => granted'[t] = granted[t]
      BY <1>0, <2>1
    <3>4. granted'[s] = IF L!Authorized(app, controls) THEN app ELSE None
      BY <1>0, <2>1
    <3> QED
      BY <2>2, <3>2, <3>3, <3>4 DEF Granted
  <2>5. MailsAreGranted'
    <3>1. ASSUME NEW id \in L!Identity, known[id] # None
          PROVE  MailsIn(events[id]) + Cardinality(Granted(id)') <= known[id] + Cardinality(Sender)
      BY <1>0, <2>4, <3>1 DEF MailsAreGranted
    <3> QED
      BY <2>2, <3>1 DEF MailsAreGranted
  <2> QED
    BY <1>0, <2>2, <2>3, <2>5 DEF LedgerInv, RecordedStays
<1>4. ASSUME NEW id \in L!Identity, NEW reply0 \in L!Reply, L!Answer(id, reply0)
      PROVE  LedgerInv'
  <2>1. L!Happens(id, reply0) /\ UNCHANGED <<migrated, ledger, granted, known>>
    BY <1>4 DEF L!Answer
  <2>2. L!TypeOK'
    BY <1>0, <2>1, HappensType DEF Event
  <2>3. events' = [events EXCEPT ![id] = Append(events[id], reply0)] /\ reply0 # "email_sent"
    BY <2>1 DEF L!Happens, L!Reply, L!Confirming, L!Receipt
  <2>4. \A other \in L!Identity : MailsIn(events'[other]) = MailsIn(events[other])
    <3>1. MailsIn(Append(events[id], reply0)) = MailsIn(events[id])
      BY <1>0, <2>3, MailsOfAppend
    <3> QED
      BY <1>0, <2>3, <3>1
  <2>5. \A other : Granted(other)' = Granted(other)
    BY <2>1 DEF Granted
  <2> QED
    BY <1>0, <2>1, <2>2, <2>4, <2>5 DEF LedgerInv, RecordedStays, MailsAreGranted
<1>5. ASSUME NEW app \in L!Application, NEW status \in Statuses, L!EditLedger(app, status)
      PROVE  LedgerInv'
  <2> DEFINE id == L!IdentityOf(app)
  <2>1. PICK piece \in L!PartsInOrder(events[id]) :
          ledger' = [ledger EXCEPT ![app] = [status |-> status, evidence |-> piece]]
    BY <1>5 DEF L!EditLedger
  <2>2. /\ L!validateApplicationLedger(ledger')
        /\ known' = [known EXCEPT ![id] = IF known[id] = None THEN L!Mails(id) ELSE known[id]]
        /\ UNCHANGED <<migrated, granted, events>>
    BY <1>5 DEF L!EditLedger
  <2>3. id \in L!Identity
    BY LedgerConstants
  <2>4. events[id] \in Seq(Event) /\ L!Mails(id) = MailsIn(events[id]) /\ MailsIn(events[id]) \in Nat
    BY <1>0, <2>3, MailsOfAppend, MailsAreCounted
  <2> DEFINE record == [status |-> status, evidence |-> piece]
  <2>5. record \in L!Record /\ record # None /\ record.evidence = piece
        /\ L!Range(piece) \subseteq L!Range(events[id])
    BY <2>4, PartsArePart, LedgerConstants DEF L!Record, Event
  <2> HIDE DEF record
  <2>6. ledger' = [ledger EXCEPT ![app] = record]
    BY <2>1 DEF record
  <2> HIDE DEF id
  <2>7. L!TypeOK'
    <3>1. ledger' \in [L!Application -> L!Record \cup {None}]
      BY <1>0, <2>5, <2>6
    <3>2. known' \in [L!Identity -> Nat \cup {None}]
      BY <1>0, <2>2, <2>3, <2>4
    <3>3. \A other \in L!Application : ledger'[other] # None =>
            L!Range(ledger'[other].evidence) \subseteq L!Range(events[L!IdentityOf(other)])
      BY <1>0, <2>5, <2>6 DEF L!TypeOK, id
    <3> QED
      BY <1>0, <2>2, <3>1, <3>2, <3>3 DEF L!TypeOK
  <2>8. \A other \in L!Application : ledger[other] # None => ledger'[other] # None
    BY <1>0, <2>5, <2>6
  <2>9. ledger'[app] # None
    BY <1>0, <2>5, <2>6
  <2>10. RecordedStays'
    <3>1. ASSUME NEW other \in L!Identity, known'[other] # None
          PROVE  \E entry \in L!Application : ledger'[entry] # None /\ L!IdentityOf(entry) = other
      <4>1. CASE other = id
        BY <2>9, <4>1 DEF id
      <4>2. CASE other # id
        BY <1>0, <2>2, <2>8, <3>1, <4>2 DEF RecordedStays
      <4> QED
        BY <4>1, <4>2
    <3> QED
      BY <3>1 DEF RecordedStays
  <2>11. MailsAreGranted'
    <3>1. ASSUME NEW other \in L!Identity, known'[other] # None
          PROVE  MailsIn(events[other]) + Cardinality(Granted(other)) <= known'[other] + Cardinality(Sender)
      <4>1. CASE known[other] # None
        <5>1. known'[other] = known[other]
          BY <1>0, <2>2, <2>3, <4>1
        <5> QED
          BY <1>0, <4>1, <5>1 DEF MailsAreGranted
      <4>2. CASE known[other] = None
        <5>1. other = id /\ known'[other] = MailsIn(events[other])
          BY <1>0, <2>2, <2>3, <2>4, <3>1, <4>2
        <5> QED
          BY <2>4, <5>1, GrantedIsFinite
      <4> QED
        BY <4>1, <4>2
    <3>2. \A other : Granted(other)' = Granted(other)
      BY <2>2 DEF Granted
    <3> QED
      BY <2>2, <3>1, <3>2 DEF MailsAreGranted
  <2> QED
    BY <2>7, <2>10, <2>11 DEF LedgerInv
<1> QED
  BY <1>1, <1>2, <1>3, <1>4, <1>5 DEF L!Next

LEMMA LedgerHolds == EvidenceSpec => [](part = "ledger" => LedgerInv)
<1> DEFINE Inv == part = "ledger" => LedgerInv
<1>1. EvidenceInit => Inv
  BY LedgerInit DEF EvidenceInit
<1>2. Inv /\ [EvidenceNext]_<<part, clock, others>> => Inv'
  <2>1. CASE UNCHANGED <<part, clock, others>>
    BY <2>1 DEF others, applications, LedgerInv, L!TypeOK, RecordedStays, MailsAreGranted, Granted
  <2>2. CASE EvidenceNext
    BY <2>2, LedgerStep DEF EvidenceNext
  <2> QED
    BY <2>1, <2>2
<1> QED
  BY <1>1, <1>2, PTL DEF EvidenceSpec

(* application-operations.mjs: the quota counts each received application  *)
(* once, for any number of names, spellings, categories and events.        *)
THEOREM QuotaCountsReceived == EvidenceSpec => []QuotaIsEarned
<1>1. (part = "ledger" => LedgerInv) => QuotaIsEarned
  <2>1. SUFFICES ASSUME L!TypeOK, NEW c \in Category
                 PROVE  L!summarizeQuota[c] <=
                          L!Cardinality({id \in L!Identity : id[2] = c /\ L!Range(events[id]) \cap L!Receipt # {}})
    BY DEF LedgerInv, QuotaIsEarned, L!QuotaIsEarned
  <2> DEFINE counted == {app \in L!Application :
                           app.category = c /\ ledger[app] # None /\ L!qualifiesForQuota(ledger[app])}
             received == {id \in L!Identity : id[2] = c /\ L!Range(events[id]) \cap L!Receipt # {}}
             f == [app \in counted |-> L!IdentityOf(app)]
  <2>2. \A app \in counted : L!IdentityOf(app) \in received
    <3>1. SUFFICES ASSUME NEW app \in counted
                   PROVE  L!IdentityOf(app) \in received
      OBVIOUS
    <3>2. L!IdentityOf(app) \in L!Identity /\ L!IdentityOf(app)[2] = c
      BY LedgerConstants DEF L!IdentityOf
    <3>3. L!Range(ledger[app].evidence) \subseteq L!Range(events[L!IdentityOf(app)])
      BY <2>1 DEF L!TypeOK
    <3>4. L!Range(ledger[app].evidence) \cap L!Receipt # {}
      BY DEF L!qualifiesForQuota
    <3> QED
      BY <3>2, <3>3, <3>4
  <2>3. \A a, b \in counted : L!IdentityOf(a) = L!IdentityOf(b) => a = b
    BY <2>1, LedgerConstants DEF L!TypeOK, L!validateApplicationLedger
  <2>4. f \in Injection(counted, received)
    BY <2>2, <2>3 DEF Injection, IsInjective
  <2>5. IsFiniteSet(received)
    BY LedgerConstants, FS_Subset
  <2>6. L!summarizeQuota[c] = L!Cardinality(counted)
    BY DEF L!summarizeQuota
  <2> HIDE DEF counted, received, f
  <2>7. Cardinality(counted) <= Cardinality(received)
    BY <2>4, <2>5, FS_Injection
  <2>8. L!summarizeQuota[c] <= L!Cardinality(received)
    BY <2>6, <2>7, SameCardinality
  <2> QED
    BY <2>8 DEF received
<1> QED
  BY <1>1, LedgerHolds, PTL

(* application-operations.mjs: once recorded, an application is mailed at  *)
(* most once more by each sender, for any number of senders and spellings, *)
(* though the preflight reserves nothing.                                  *)
THEOREM RecordedIsHardlyMailed == EvidenceSpec => []RepeatedMailsAreBounded
<1>1. (part = "ledger" => LedgerInv) => RepeatedMailsAreBounded
  <2>1. SUFFICES ASSUME LedgerInv, NEW id \in L!Identity, known[id] # None
                 PROVE  L!Mails(id) <= known[id] + Cardinality(Sender)
    BY SameCardinality DEF RepeatedMailsAreBounded, L!RepeatedMailsAreBounded
  <2>2. events[id] \in Seq(Event) /\ known[id] \in Nat
    BY <2>1 DEF LedgerInv, L!TypeOK, Event
  <2>3. MailsIn(events[id]) + Cardinality(Granted(id)) <= known[id] + Cardinality(Sender)
    BY <2>1 DEF LedgerInv, MailsAreGranted
  <2>4. L!Mails(id) = MailsIn(events[id]) /\ MailsIn(events[id]) \in Nat
    BY <2>2, MailsOfAppend, MailsAreCounted
  <2> QED
    BY <2>2, <2>3, <2>4, GrantedIsFinite
<1> QED
  BY <1>1, LedgerHolds, PTL

-----------------------------------------------------------------------------
(* AcceptanceReports: operators who keep to a plan have run what comes     *)
(* before it in the plan, and run it before.                               *)
IsPlanOf(p, order) ==
  /\ \A i \in R!Rank : p[i] \in R!All /\ order[p[i]] = i
  /\ \A s \in R!All : order[s] \in R!Rank /\ p[order[s]] = s
  /\ \A s \in Scenario : order[s] < order[Soak]
  /\ \A pair \in MustPrecede : order[pair[1]] < order[pair[2]]

PlanIsKept ==
  plan # None => \A i, j \in R!Rank : i < j /\ runs[plan[j]] # None =>
    runs[plan[i]] # None /\ runs[plan[i]].completedAt <= runs[plan[j]].startedAt

ReportsInv == R!TypeOK /\ PlanIsKept /\ R!LaunchIsEarned

LEMMA ReportsConstants ==
  /\ R!Time \subseteq Nat /\ 0 \in R!Time /\ None \notin R!Time /\ None \notin R!Span
  /\ SevenDays \in Nat /\ MaxReportAge \in Nat
  /\ IsFiniteSet(R!All) /\ Cardinality(R!All) \in Nat /\ R!Rank = 1..Cardinality(R!All)
  /\ Soak \in R!All /\ Scenario \subseteq R!All /\ Soak \notin Scenario
<1>1. R!Cardinality(R!All) = Cardinality(R!All)
  BY DEF R!Cardinality, Cardinality
<1>2. IsFiniteSet(R!All) /\ Cardinality(R!All) \in Nat
  BY EvidenceConstantsOK, FS_AddElement, FS_CardinalityType DEF R!All
<1>3. R!Rank = 1..Cardinality(R!All)
  BY <1>1 DEF R!Rank
<1>4. Soak \in R!All /\ Scenario \subseteq R!All /\ Soak \notin Scenario
  BY EvidenceConstantsOK DEF R!All
<1>5. SevenDays \in Nat /\ MaxReportAge \in Nat /\ ReportTime \in Nat /\ None \notin Nat /\ None \notin R!Span
  BY EvidenceConstantsOK
<1> QED
  BY <1>2, <1>3, <1>4, <1>5 DEF R!Time

(* An order that numbers everything numbers it differently, so that the    *)
(* plan made of it is its inverse.                                         *)
LEMMA PlansAreOrders ==
  ASSUME NEW p \in R!Plans
  PROVE  \E order : IsPlanOf(p, order)
<1>1. PICK order \in [R!All -> R!Rank] :
        R!ValidAcceptanceSpec(order, SevenDays) /\ p = R!AcceptancePlan(order)
  BY DEF R!Plans, R!Orders
<1>2. /\ \A i \in R!Rank : \E s \in R!All : order[s] = i
      /\ \A pair \in MustPrecede : order[pair[1]] < order[pair[2]]
      /\ order[Soak] = Cardinality(R!All)
  <2>1. R!Cardinality(R!All) = Cardinality(R!All)
    BY DEF R!Cardinality, Cardinality
  <2> QED
    BY <1>1, <2>1 DEF R!ValidAcceptanceSpec
<1>3. \A i \in R!Rank : p[i] \in R!All /\ order[p[i]] = i
  <2>1. ASSUME NEW i \in R!Rank
        PROVE  p[i] \in R!All /\ order[p[i]] = i
    <3>1. p[i] = CHOOSE s \in R!All : order[s] = i
      BY <1>1 DEF R!AcceptancePlan
    <3>2. \E s \in R!All : order[s] = i
      BY <1>2
    <3> QED
      BY <3>1, <3>2
  <2> QED
    BY <2>1
<1>4. \A s, t \in R!All : order[s] = order[t] => s = t
  <2>1. order \in Surjection(R!All, R!Rank)
    BY <1>1, <1>2 DEF Surjection
  <2>2. Cardinality(R!Rank) = Cardinality(R!All)
    BY ReportsConstants, FS_Interval
  <2>3. order \in Injection(R!All, R!Rank)
    BY <2>1, <2>2, ReportsConstants, FS_SurjSameCardinalityImpliesInj
  <2> QED
    BY <1>1, <2>3 DEF Injection, IsInjective
<1>5. \A s \in R!All : order[s] \in R!Rank /\ p[order[s]] = s
  BY <1>1, <1>3, <1>4
<1>6. \A s \in Scenario : order[s] < order[Soak]
  <2>1. ASSUME NEW s \in Scenario
        PROVE  order[s] < order[Soak]
    <3>1. s \in R!All /\ Soak \in R!All /\ s # Soak
      BY ReportsConstants
    <3>2. order[s] \in 1..Cardinality(R!All) /\ order[s] # Cardinality(R!All)
      BY <1>1, <1>2, <1>4, <3>1, ReportsConstants
    <3> QED
      BY <1>2, <3>2, ReportsConstants
  <2> QED
    BY <2>1
<1> QED
  BY <1>2, <1>3, <1>5, <1>6 DEF IsPlanOf

LEMMA ReportsInit ==
  ASSUME R!Init
  PROVE  ReportsInv
<1>1. plan # None => {plan[i] : i \in R!Rank} = R!All
  <2>1. SUFFICES ASSUME plan \in R!Plans
                 PROVE  {plan[i] : i \in R!Rank} = R!All
    BY DEF R!Init
  <2>2. PICK order : IsPlanOf(plan, order)
    BY <2>1, PlansAreOrders
  <2>3. (\A i \in R!Rank : plan[i] \in R!All) /\ (\A s \in R!All : \E i \in R!Rank : plan[i] = s)
    BY <2>2 DEF IsPlanOf
  <2> QED
    BY <2>3
<1>2. \A s \in R!All : runs[s] = None
  BY DEF R!Init
<1>3. R!TypeOK
  BY <1>1, <1>2, ReportsConstants DEF R!Init, R!TypeOK
<1>4. PlanIsKept
  <2>1. SUFFICES ASSUME plan # None, NEW j \in R!Rank
                 PROVE  runs[plan[j]] = None
    BY DEF PlanIsKept
  <2> QED
    BY <1>1, <1>2, <2>1
<1> QED
  BY <1>3, <1>4 DEF R!Init, ReportsInv, R!LaunchIsEarned

(* The next run of the plan begins when every earlier one has ended.       *)
LEMMA RunStep ==
  ASSUME ReportsInv, NEW s \in R!All, NEW from \in 0..now, R!Run(s, from)
  PROVE  ReportsInv'
<1> DEFINE run == [startedAt |-> from, completedAt |-> now]
<1>1. /\ accepted = None /\ from < now /\ (plan # None => R!Due(s, from))
      /\ runs' = [runs EXCEPT ![s] = run]
      /\ UNCHANGED <<now, spread, plan, started, accepted>>
  BY DEF R!Run, R!domains
<1>2. now \in R!Time /\ now \in Nat /\ from \in R!Time /\ runs \in [R!All -> R!Span \cup {None}]
  <2>1. now \in R!Time /\ now \in Nat /\ runs \in [R!All -> R!Span \cup {None}]
    BY ReportsConstants DEF ReportsInv, R!TypeOK
  <2>2. R!Time = 0..ReportTime /\ ReportTime \in Nat
    BY EvidenceConstantsOK DEF R!Time
  <2>3. 0..now \subseteq R!Time
    BY <2>1, <2>2
  <2> QED
    BY <2>1, <2>3
<1>3. run \in R!Span /\ run # None /\ run.startedAt = from /\ run.completedAt = now
  BY <1>2, ReportsConstants DEF R!Span
<1> HIDE DEF run
<1>4. runs' \in [R!All -> R!Span \cup {None}] /\ runs'[s] = run
      /\ \A t \in R!All : t # s => runs'[t] = runs[t]
  BY <1>1, <1>2, <1>3
<1>5. R!TypeOK'
  BY <1>1, <1>2, <1>3, <1>4 DEF ReportsInv, R!TypeOK
<1>6. PlanIsKept'
  <2>1. SUFFICES ASSUME plan # None, NEW a \in R!Rank, NEW b \in R!Rank, a < b, runs'[plan[b]] # None
                 PROVE  runs'[plan[a]] # None /\ runs'[plan[a]].completedAt <= runs'[plan[b]].startedAt
    BY <1>1 DEF PlanIsKept
  <2>2. PICK order : IsPlanOf(plan, order)
    BY <2>1, PlansAreOrders DEF ReportsInv, R!TypeOK
  <2>3. PICK i \in R!Rank : plan[i] = s /\ \A j \in R!Rank : (j < i) <=> (runs[plan[j]] # None)
    BY <1>1, <2>1 DEF R!Due
  <2>4. \A t \in R!All : runs[t] # None => runs[t].completedAt <= from
    BY <1>1, <2>1 DEF R!Due
  <2>5. /\ plan[a] \in R!All /\ plan[b] \in R!All
        /\ plan[a] = s => a = i
        /\ plan[b] = s => b = i
    BY <2>2, <2>3 DEF IsPlanOf
  <2>6. a < i /\ a # i
    <3>1. CASE plan[b] = s
      BY <2>1, <2>5, <3>1, ReportsConstants
    <3>2. CASE plan[b] # s
      <4>1. b < i
        BY <1>4, <2>1, <2>3, <2>5, <3>2
      <4> QED
        BY <2>1, <4>1, ReportsConstants
    <3> QED
      BY <3>1, <3>2
  <2>7. runs[plan[a]] # None /\ runs'[plan[a]] = runs[plan[a]]
    BY <1>4, <2>3, <2>5, <2>6
  <2>8. CASE plan[b] = s
    BY <1>3, <1>4, <2>4, <2>5, <2>7, <2>8
  <2>9. CASE plan[b] # s
    BY <1>4, <2>1, <2>5, <2>7, <2>9 DEF ReportsInv, PlanIsKept
  <2> QED
    BY <2>8, <2>9
<1> QED
  BY <1>1, <1>5, <1>6 DEF ReportsInv, R!LaunchIsEarned

(* Seven days are asked for, and what was planned was done as planned.     *)
LEMMA ValidateStep ==
  ASSUME ReportsInv, R!Validate
  PROVE  ReportsInv'
<1>1. /\ started # None /\ R!EveryScenarioPassed
      /\ UNCHANGED <<now, spread, plan, runs, started>>
  BY DEF R!Validate, R!domains
<1>2. PICK soakHours \in R!AskedHours :
        \/ /\ R!Orders(soakHours) # {}
           /\ \E doc \in R!PhysicalReports :
                /\ R!ValidPhysicalEvidence(doc, soakHours)
                /\ R!Accept("physical", doc, doc.completedAt, FailureDomain)
        \/ /\ R!ValidFleetPolicy(soakHours)
           /\ \E doc \in R!FleetReports :
                /\ R!ValidFleetEvidence(doc, soakHours)
                /\ R!Accept("fleet", doc, doc.observedAt, RequireDistinct)
  BY DEF R!Validate
<1>3. soakHours \in Int
  BY ReportsConstants DEF R!AskedHours
<1>4. now \in Nat /\ started \in Nat
  BY <1>1, ReportsConstants DEF ReportsInv, R!TypeOK
<1>5. CASE \E doc \in R!PhysicalReports :
             R!Orders(soakHours) # {} /\ R!ValidPhysicalEvidence(doc, soakHours)
             /\ R!Accept("physical", doc, doc.completedAt, FailureDomain)
  <2>1. PICK doc \in R!PhysicalReports :
          R!Orders(soakHours) # {} /\ R!ValidPhysicalEvidence(doc, soakHours)
          /\ R!Accept("physical", doc, doc.completedAt, FailureDomain)
    BY <1>5
  <2>2. soakHours >= SevenDays
    BY <2>1 DEF R!Orders, R!ValidAcceptanceSpec
  <2>3. /\ doc.completedAt \in 0..now /\ doc.mode \in {"example", "live"} /\ doc.hours \in Nat
    BY ReportsConstants DEF R!PhysicalReports
  <2>4. /\ now - doc.completedAt <= MaxReportAge
        /\ R!ScenariosPassed(doc) /\ R!ValidSoak(doc, soakHours) /\ R!ValidDecision(doc)
    BY <2>1, <2>3 DEF R!ValidPhysicalEvidence
  <2>5. /\ runs[Soak] # None /\ started <= runs[Soak].startedAt
        /\ runs[Soak].completedAt <= doc.completedAt
        /\ runs[Soak].completedAt - runs[Soak].startedAt >= soakHours
    BY <2>4 DEF R!ValidSoak, R!InCampaign
  <2>6. runs[Soak].startedAt \in Nat /\ runs[Soak].completedAt \in Nat
    BY <2>5, ReportsConstants DEF ReportsInv, R!TypeOK, R!Span
  <2>7. runs[Soak].completedAt - runs[Soak].startedAt >= SevenDays /\ doc.completedAt - started >= SevenDays
    BY <1>3, <1>4, <2>2, <2>3, <2>5, <2>6, ReportsConstants
  <2>8. doc.classification = "limited-production" => FailureDomain \subseteq spread
    BY <2>4 DEF R!ValidDecision
  <2>9. plan # None =>
          /\ R!FinalSoak
          /\ \A p \in MustPrecede : runs[p[1]].completedAt <= runs[p[2]].startedAt
    <3>1. SUFFICES ASSUME plan # None
                   PROVE  /\ R!FinalSoak
                          /\ \A p \in MustPrecede : runs[p[1]].completedAt <= runs[p[2]].startedAt
      OBVIOUS
    <3>2. PICK order : IsPlanOf(plan, order)
      BY <3>1, PlansAreOrders DEF ReportsInv, R!TypeOK
    <3>3. ASSUME NEW s \in R!All, NEW t \in R!All, order[s] < order[t], runs[t] # None
          PROVE  runs[s].completedAt <= runs[t].startedAt
      <4>1. order[s] \in R!Rank /\ order[t] \in R!Rank /\ plan[order[s]] = s /\ plan[order[t]] = t
        BY <3>2 DEF IsPlanOf
      <4> QED
        BY <3>1, <3>3, <4>1 DEF ReportsInv, PlanIsKept
    <3>4. \A s \in Scenario : s \in R!All /\ runs[s] # None /\ order[s] < order[Soak]
      BY <1>1, <3>2, ReportsConstants DEF R!EveryScenarioPassed, IsPlanOf
    <3>5. R!FinalSoak
      BY <2>5, <3>3, <3>4, ReportsConstants DEF R!FinalSoak
    <3>6. \A p \in MustPrecede : p[1] \in Scenario /\ p[2] \in Scenario /\ order[p[1]] < order[p[2]]
      BY <3>2, EvidenceConstantsOK DEF IsPlanOf
    <3> QED
      BY <3>3, <3>4, <3>5, <3>6
  <2>10. accepted' = [tool |-> "physical", at |-> now, completedAt |-> doc.completedAt,
                      observedAt |-> doc.completedAt, classification |-> doc.classification,
                      asked |-> FailureDomain]
    BY <2>1 DEF R!Accept
  <2>11. doc.completedAt <= now
    BY <1>4, <2>3
  <2>12. R!LaunchIsEarned'
    BY <1>1, <2>4, <2>7, <2>8, <2>9, <2>10 DEF R!LaunchIsEarned, R!FinalSoak
  <2>13. R!TypeOK' /\ PlanIsKept'
    BY <1>1, <2>10, <2>11 DEF ReportsInv, R!TypeOK, PlanIsKept
  <2> QED
    BY <2>12, <2>13 DEF ReportsInv
<1>6. CASE \E doc \in R!FleetReports :
             R!ValidFleetPolicy(soakHours) /\ R!ValidFleetEvidence(doc, soakHours)
             /\ R!Accept("fleet", doc, doc.observedAt, RequireDistinct)
  <2>1. PICK doc \in R!FleetReports :
          R!ValidFleetPolicy(soakHours) /\ R!ValidFleetEvidence(doc, soakHours)
          /\ R!Accept("fleet", doc, doc.observedAt, RequireDistinct)
    BY <1>6
  <2>2. soakHours >= SevenDays
    BY <2>1 DEF R!ValidFleetPolicy
  <2>3. doc.completedAt \in 0..now /\ doc.mode \in {"example", "live"}
    BY DEF R!FleetReports
  <2>4. /\ now - doc.observedAt <= MaxReportAge
        /\ doc.completedAt - started >= soakHours
        /\ doc.classification = "limited-production" => RequireDistinct \subseteq spread
    BY <2>1, <2>3 DEF R!ValidFleetEvidence, R!ValidFleetSoak, R!ValidFleetDomains
  <2>5. doc.completedAt - started >= SevenDays /\ doc.completedAt <= now
    BY <1>3, <1>4, <2>2, <2>3, <2>4, ReportsConstants
  <2>6. accepted' = [tool |-> "fleet", at |-> now, completedAt |-> doc.completedAt,
                     observedAt |-> doc.observedAt, classification |-> doc.classification,
                     asked |-> RequireDistinct]
    BY <2>1 DEF R!Accept
  <2>7. R!LaunchIsEarned'
    BY <1>1, <2>4, <2>5, <2>6 DEF R!LaunchIsEarned
  <2>8. R!TypeOK' /\ PlanIsKept'
    BY <1>1, <2>5, <2>6 DEF ReportsInv, R!TypeOK, PlanIsKept
  <2> QED
    BY <2>7, <2>8 DEF ReportsInv
<1> QED
  BY <1>2, <1>5, <1>6

LEMMA ReportsStep ==
  ASSUME ReportsInv, R!Next
  PROVE  ReportsInv'
<1>1. CASE R!Tick
  <2>1. now \in Nat /\ now < ReportTime /\ now' = now + 1 /\ ReportTime \in Nat
        /\ UNCHANGED <<spread, plan, runs, started, accepted>> /\ accepted = None
    BY <1>1, ReportsConstants, EvidenceConstantsOK DEF R!Tick, R!domains, ReportsInv, R!TypeOK
  <2>2. now' \in R!Time
    BY <2>1 DEF R!Time
  <2>3. \A s \in R!All : runs[s] # None => runs[s].completedAt \in Nat
    BY ReportsConstants DEF ReportsInv, R!TypeOK, R!Span
  <2>4. \A s \in R!All : runs[s] # None =>
          runs[s].startedAt < runs[s].completedAt /\ runs[s].completedAt <= now'
    BY <2>1, <2>3 DEF ReportsInv, R!TypeOK
  <2>5. R!TypeOK'
    BY <2>1, <2>2, <2>4 DEF ReportsInv, R!TypeOK
  <2> QED
    BY <2>1, <2>5 DEF ReportsInv, PlanIsKept, R!LaunchIsEarned
<1>2. CASE R!Declare
  <2>1. started = None /\ started' = now /\ UNCHANGED <<now, spread, plan, runs, accepted>>
    BY <1>2 DEF R!Declare, R!domains
  <2>2. accepted = None
    BY <2>1 DEF ReportsInv, R!TypeOK
  <2> QED
    BY <2>1, <2>2 DEF ReportsInv, R!TypeOK, PlanIsKept, R!LaunchIsEarned
<1> QED
  BY <1>1, <1>2, RunStep, ValidateStep DEF R!Next

(* laptop-acceptance.mjs and validate-laptop-acceptance-evidence.mjs: a    *)
(* launch rests on a recent campaign of seven days, on the separation of   *)
(* the laptops that the tool or its policy asks for, and on what the plan  *)
(* asked for where it was kept, for any scenarios, orders, limits and      *)
(* switches of the policy.                                                 *)
THEOREM LaunchesAreEarned == EvidenceSpec => []LaunchIsEarned
<1> DEFINE Inv == part = "reports" => ReportsInv
<1>1. EvidenceInit => Inv
  BY ReportsInit DEF EvidenceInit
<1>2. Inv /\ [EvidenceNext]_<<part, clock, others>> => Inv'
  <2>1. CASE UNCHANGED <<part, clock, others>>
    BY <2>1 DEF clock, others, reports, ReportsInv, R!TypeOK, PlanIsKept, R!LaunchIsEarned, R!FinalSoak
  <2>2. CASE EvidenceNext
    BY <2>2, ReportsStep DEF EvidenceNext
  <2> QED
    BY <2>1, <2>2
<1>3. Inv => LaunchIsEarned
  BY DEF ReportsInv, LaunchIsEarned
<1> QED
  BY <1>1, <1>2, <1>3, PTL DEF EvidenceSpec

-----------------------------------------------------------------------------
(* AcceptanceCampaign: first the plan, a function of its arguments.  Names *)
(* order the three laptops, so that a scenario's targets are sorted in one *)
(* way, the laptops that lead least first.                                 *)
LEMMA CampaignConstants ==
  /\ IsFiniteSet(Laptop) /\ Cardinality(Laptop) = 3 /\ A!Fleet \notin Laptop
  /\ NameOrder \in [Laptop -> Nat]
  /\ \A a, b \in Laptop : NameOrder[a] = NameOrder[b] => a = b
  /\ \A file \in DOMAIN Specs : Specs[file].scenarios \in Seq(A!ScenarioEntry)
  /\ MovingRoles \subseteq A!RoleName /\ InitialRoles \subseteq [A!RoleName -> Laptop]
  /\ None \notin Operator \cup A!Job
BY EvidenceConstantsOK
   DEF A!CampaignConstantsOK, A!PlanConstantsOK, A!Cardinality, A!IsFiniteSet, Cardinality, IsFiniteSet

LEMMA ThreeLaptops ==
  \E a, b, c \in Laptop : a # b /\ b # c /\ a # c /\ Laptop = {a, b, c}
<1>1. IsFiniteSet(Laptop) /\ Cardinality(Laptop) = 3
  BY CampaignConstants
<1>2. PICK a : a \in Laptop
  BY <1>1, FS_EmptySet
<1>3. IsFiniteSet(Laptop \ {a}) /\ Cardinality(Laptop \ {a}) = 2
  BY <1>1, <1>2, FS_RemoveElement
<1>4. PICK b : b \in Laptop \ {a}
  BY <1>3, FS_EmptySet
<1>5. IsFiniteSet(Laptop \ {a, b}) /\ Cardinality(Laptop \ {a, b}) = 1
  <2>1. (Laptop \ {a}) \ {b} = Laptop \ {a, b}
    OBVIOUS
  <2> QED
    BY <1>3, <1>4, <2>1, FS_RemoveElement
<1>6. PICK c : Laptop \ {a, b} = {c}
  BY <1>5, FS_Singleton
<1> QED
  BY <1>2, <1>4, <1>6

(* The scores, and how far the leader's is above the others'.              *)
LEMMA Scores ==
  ASSUME NEW c, NEW s, NEW led
  PROVE  /\ A!LeaderScore(c, s, led) \in Nat
         /\ s.leaderSensitive /\ s.plane \in A!SharedPlanes \cup {"fiducia"} =>
              /\ c = led["fiducia"] => A!LeaderScore(c, s, led) >= 100
              /\ c # led["fiducia"] => A!LeaderScore(c, s, led) <= 50
BY DEF A!LeaderScore

LEMMA PrecedesIsOrder ==
  ASSUME NEW s, NEW led, NEW a \in Laptop, NEW b \in Laptop, NEW c \in Laptop
  PROVE  /\ a # b => A!Precedes(a, b, s, led) \/ A!Precedes(b, a, s, led)
         /\ A!Precedes(a, b, s, led) /\ A!Precedes(b, c, s, led) => A!Precedes(a, c, s, led)
         /\ A!Precedes(a, b, s, led) => a # b
<1>1. /\ A!LeaderScore(a, s, led) \in Nat /\ A!LeaderScore(b, s, led) \in Nat
      /\ A!LeaderScore(c, s, led) \in Nat
  BY Scores
<1>2. /\ NameOrder[a] \in Nat /\ NameOrder[b] \in Nat /\ NameOrder[c] \in Nat
      /\ NameOrder[a] = NameOrder[b] => a = b
  BY CampaignConstants
<1> QED
  BY <1>1, <1>2 DEF A!Precedes

LEMMA ByScoreSorts ==
  ASSUME NEW s, NEW led
  PROVE  /\ A!ByScore(s, led) \in [1..3 -> Laptop]
         /\ \A i, j \in 1..3 : i < j =>
              A!Precedes(A!ByScore(s, led)[i], A!ByScore(s, led)[j], s, led)
<1> DEFINE P(x1, y1) == A!Precedes(x1, y1, s, led)
           Sorted(order) == \A i, j \in 1..3 : i < j => P(order[i], order[j])
<1>1. PICK a, b, c \in Laptop : a # b /\ b # c /\ a # c
  BY ThreeLaptops
<1>2. \E u, v, w \in Laptop : P(u, v) /\ P(v, w) /\ P(u, w)
  <2>1. P(a, b) \/ P(b, a)
    BY <1>1, PrecedesIsOrder
  <2>2. P(b, c) \/ P(c, b)
    BY <1>1, PrecedesIsOrder
  <2>3. P(a, c) \/ P(c, a)
    BY <1>1, PrecedesIsOrder
  <2>4. \A u, v, w \in Laptop : P(u, v) /\ P(v, w) => P(u, w)
    BY PrecedesIsOrder
  <2> HIDE DEF P
  <2> QED
    BY <2>1, <2>2, <2>3, <2>4
<1>3. PICK u, v, w \in Laptop : P(u, v) /\ P(v, w) /\ P(u, w)
  BY <1>2
<1> DEFINE f == [i \in 1..3 |-> IF i = 1 THEN u ELSE IF i = 2 THEN v ELSE w]
<1>4. f \in [1..3 -> Laptop] /\ Sorted(f)
  <2> HIDE DEF P
  <2> QED
    BY <1>3
<1>5. \E order \in [1..3 -> Laptop] : Sorted(order)
  BY <1>4
<1> QED
  BY <1>5 DEF A!ByScore

(* Every laptop is in the order once.                                      *)
LEMMA ByScoreCovers ==
  ASSUME NEW s, NEW led, NEW c \in Laptop
  PROVE  \E i \in 1..3 : A!ByScore(s, led)[i] = c
<1> DEFINE order == A!ByScore(s, led)
<1>1. order[1] \in Laptop /\ order[2] \in Laptop /\ order[3] \in Laptop
  BY ByScoreSorts
<1>2. order[1] # order[2] /\ order[2] # order[3] /\ order[1] # order[3]
  BY <1>1, ByScoreSorts, PrecedesIsOrder
<1> HIDE DEF order
<1>3. c \in {order[1], order[2], order[3]}
  BY <1>1, <1>2, ThreeLaptops
<1> QED
  BY <1>3 DEF order

(* An ordinary scenario reaches the observed leader last; a recovery is    *)
(* never given to it.                                                      *)
LEMMA LeaderIsLast ==
  ASSUME NEW s, NEW led, s.leaderSensitive, s.plane \in A!SharedPlanes \cup {"fiducia"},
         NEW i \in 1..3, A!ByScore(s, led)[i] = led["fiducia"]
  PROVE  i = 3
<1>1. SUFFICES ASSUME i < 3 PROVE FALSE
  OBVIOUS
<1>2. /\ A!Precedes(A!ByScore(s, led)[i], A!ByScore(s, led)[3], s, led)
      /\ A!ByScore(s, led)[i] \in Laptop /\ A!ByScore(s, led)[3] \in Laptop
  BY <1>1, ByScoreSorts
<1>3. A!ByScore(s, led)[3] # led["fiducia"]
  BY <1>2, PrecedesIsOrder
<1>4. /\ A!LeaderScore(A!ByScore(s, led)[3], s, led) \in Nat
      /\ A!LeaderScore(A!ByScore(s, led)[3], s, led) <= 50
  BY <1>3, Scores
<1>5. /\ A!LeaderScore(A!ByScore(s, led)[i], s, led) \in Nat
      /\ A!LeaderScore(A!ByScore(s, led)[i], s, led) >= 100
  BY Scores
<1> QED
  BY <1>2, <1>4, <1>5 DEF A!Precedes

LEMMA RecoverySparesLeader ==
  ASSUME NEW led
  PROVE  A!RecoveryCluster(led) \in Laptop /\ A!RecoveryCluster(led) # led["fiducia"]
<1> DEFINE s == [leaderSensitive |-> TRUE, plane |-> "power"]
<1>1. s.leaderSensitive /\ s.plane \in A!SharedPlanes \cup {"fiducia"}
  BY DEF A!SharedPlanes
<1>2. A!RecoveryCluster(led) = A!ByScore(s, led)[1]
  BY DEF A!RecoveryCluster
<1> HIDE DEF s
<1>3. A!ByScore(s, led)[1] = led["fiducia"] => 1 = 3
  BY <1>1, LeaderIsLast
<1> QED
  BY <1>2, <1>3, ByScoreSorts

(* Where a step's fault is injected, where its recovery is waited for, and *)
(* where its result is recorded.                                           *)
InjectAt(s) == 4 + (IF s.backup THEN 1 ELSE 0) + (IF s.drain THEN 1 ELSE 0)
WaitAt(s) == InjectAt(s) + 4 + (IF s.protected THEN 1 ELSE 0)
RecordAt(s) == WaitAt(s) + 3 + (IF s.drain THEN 1 ELSE 0)

KindsAt(i, s) ==
  IF i = 1 THEN {"acquire_exclusive_fault_lease"}
  ELSE IF i = InjectAt(s) THEN {"inject_fault"}
  ELSE IF i = WaitAt(s) THEN {"wait_full_readiness_and_catchup"}
  ELSE IF i = RecordAt(s) THEN {"record_reviewed_result_and_release_fault_lease"}
  ELSE {"reobserve_roles_health_and_backups", "recover_fault"} \cup A!Routine \cup A!Checks

LEMMA ActionsAre ==
  ASSUME NEW s
  PROVE  /\ 1 < InjectAt(s) /\ InjectAt(s) < WaitAt(s) /\ WaitAt(s) < RecordAt(s)
         /\ InjectAt(s) \in Nat /\ WaitAt(s) \in Nat /\ RecordAt(s) \in Nat
         /\ DOMAIN A!ActionsForStep(s) = 1..RecordAt(s)
         /\ \A i \in 1..RecordAt(s) : A!ActionsForStep(s)[i] \in KindsAt(i, s)
<1> USE DEF InjectAt, WaitAt, RecordAt, KindsAt, A!ActionsForStep, A!When, A!Routine, A!Checks
<1>1. CASE s.backup /\ s.drain /\ s.protected
  BY <1>1
<1>2. CASE s.backup /\ s.drain /\ ~s.protected
  BY <1>2
<1>3. CASE s.backup /\ ~s.drain /\ s.protected
  BY <1>3
<1>4. CASE s.backup /\ ~s.drain /\ ~s.protected
  BY <1>4
<1>5. CASE ~s.backup /\ s.drain /\ s.protected
  BY <1>5
<1>6. CASE ~s.backup /\ s.drain /\ ~s.protected
  BY <1>6
<1>7. CASE ~s.backup /\ ~s.drain /\ s.protected
  BY <1>7
<1>8. CASE ~s.backup /\ ~s.drain /\ ~s.protected
  BY <1>8
<1> QED
  BY <1>1, <1>2, <1>3, <1>4, <1>5, <1>6, <1>7, <1>8

-----------------------------------------------------------------------------
(* What the planner prints: steps of the scenarios of one of its files,    *)
(* whose ids differ, for the roles it was given.                           *)
IsPlan(p) ==
  \E file \in DOMAIN Specs, n \in Nat, mode \in {"example", "live"}, led \in [A!RoleName -> Laptop] :
    /\ p = [fingerprint |-> n, mode |-> mode, roles |-> led,
            steps |-> [i \in DOMAIN Specs[file].scenarios |->
                        A!StepsOf(Specs[file].scenarios[i], led)]]
    /\ \A i, j \in DOMAIN Specs[file].scenarios :
         Specs[file].scenarios[i].id = Specs[file].scenarios[j].id => i = j

IsStep(st, led) ==
  \E s \in A!ScenarioEntry, t \in Laptop \cup {A!Fleet} : st = A!Step(s, t, led)

LEMMA StepFields ==
  ASSUME NEW st, NEW led, IsStep(st, led)
  PROVE  /\ st.scenario \in A!ScenarioEntry /\ st.target \in Laptop \cup {A!Fleet}
         /\ st.actions = A!ActionsForStep(st.scenario)
BY DEF IsStep, A!Step

LEMMA StepsOfScenario ==
  ASSUME NEW s \in A!ScenarioEntry, NEW led \in [A!RoleName -> Laptop]
  PROVE  /\ DOMAIN A!StepsOf(s, led) \subseteq 1..3
         /\ \A k \in DOMAIN A!StepsOf(s, led) :
              /\ IsStep(A!StepsOf(s, led)[k], led)
              /\ A!StepsOf(s, led)[k].scenario = s
              /\ A!StepsOf(s, led)[k].target = led["fiducia"] =>
                   s.scope = "per-cluster" /\ A!ByScore(s, led)[k] = led["fiducia"]
         /\ s.scope = "per-cluster" =>
              /\ DOMAIN A!StepsOf(s, led) = 1..3
              /\ \A k \in 1..3 : A!StepsOf(s, led)[k].target = A!ByScore(s, led)[k]
         /\ s.scope # "per-cluster" => DOMAIN A!StepsOf(s, led) = {1}
<1>1. CASE s.scope = "per-cluster"
  <2>1. A!StepsOf(s, led) = [i \in 1..3 |-> A!Step(s, A!ByScore(s, led)[i], led)]
    BY <1>1 DEF A!StepsOf
  <2>2. \A k \in 1..3 : A!ByScore(s, led)[k] \in Laptop
    BY ByScoreSorts
  <2>3. \A k \in 1..3 : /\ IsStep(A!StepsOf(s, led)[k], led)
                        /\ A!StepsOf(s, led)[k].scenario = s
                        /\ A!StepsOf(s, led)[k].target = A!ByScore(s, led)[k]
    BY <2>1, <2>2 DEF IsStep, A!Step
  <2> QED
    BY <1>1, <2>1, <2>3
<1>2. CASE s.scope # "per-cluster"
  <2> DEFINE t == IF s.id \in {"seven-day-soak", "database-clean-room-restore"}
                  THEN A!Fleet ELSE A!RecoveryCluster(led)
  <2>1. A!StepsOf(s, led) = << A!Step(s, t, led) >>
    BY <1>2 DEF A!StepsOf
  <2>2. t \in Laptop \cup {A!Fleet} /\ t # led["fiducia"]
    <3>1. led["fiducia"] \in Laptop
      BY DEF A!RoleName
    <3> QED
      BY <3>1, RecoverySparesLeader, CampaignConstants
  <2> HIDE DEF t
  <2>3. DOMAIN A!StepsOf(s, led) = {1} /\ A!StepsOf(s, led)[1] = A!Step(s, t, led)
    BY <2>1
  <2> QED
    BY <1>2, <2>2, <2>3 DEF IsStep, A!Step
<1> QED
  BY <1>1, <1>2

LEMMA PlanFacts ==
  ASSUME NEW p, IsPlan(p)
  PROVE  /\ p.fingerprint \in Nat /\ p.roles \in [A!RoleName -> Laptop]
         /\ IsFiniteSet(A!Places(p)) /\ A!Places(p) \subseteq Nat \X Nat
         /\ \A n \in A!Places(p) :
              /\ IsStep(A!At(p, n), p.roles)
              /\ A!StepId(A!At(p, n)) \in STRING \X (Laptop \cup {A!Fleet})
<1>1. PICK file \in DOMAIN Specs, fp \in Nat, mode \in {"example", "live"}, led \in [A!RoleName -> Laptop] :
        p = [fingerprint |-> fp, mode |-> mode, roles |-> led,
             steps |-> [i \in DOMAIN Specs[file].scenarios |->
                         A!StepsOf(Specs[file].scenarios[i], led)]]
  BY DEF IsPlan
<1> DEFINE scenarios == Specs[file].scenarios
<1>2. scenarios \in Seq(A!ScenarioEntry)
  BY CampaignConstants
<1> HIDE DEF scenarios
<1>3. /\ DOMAIN p.steps = 1..Len(scenarios) /\ Len(scenarios) \in Nat
      /\ \A i \in 1..Len(scenarios) : /\ scenarios[i] \in A!ScenarioEntry
                                      /\ p.steps[i] = A!StepsOf(scenarios[i], led)
  BY <1>1, <1>2 DEF scenarios
<1>4. A!Places(p) \in SUBSET ((1..Len(scenarios)) \X (1..3))
  BY <1>3 DEF A!Places
<1>5. IsFiniteSet((1..Len(scenarios)) \X (1..3))
  <2>0. ASSUME NEW k \in Int PROVE IsFiniteSet(1..k)
    <3>1. 1 \in Int
      OBVIOUS
    <3> QED
      BY <3>1, FS_Interval
  <2>1. IsFiniteSet(1..Len(scenarios))
    BY <1>3, <2>0
  <2>2. IsFiniteSet(1..3)
    <3>1. PICK k \in Int : k = 3
      OBVIOUS
    <3>2. IsFiniteSet(1..k)
      BY <2>0
    <3> QED
      BY <3>1, <3>2, Zenon
  <2> QED
    BY <2>1, <2>2, FS_Product
<1>6. IsFiniteSet(A!Places(p))
  BY <1>4, <1>5, FS_Subset
<1>7. ASSUME NEW n \in A!Places(p)
      PROVE  IsStep(A!At(p, n), led)
  <2>1. n[1] \in 1..Len(scenarios) /\ n[2] \in DOMAIN A!StepsOf(scenarios[n[1]], led)
    BY <1>3 DEF A!Places
  <2> QED
    BY <1>3, <2>1, StepsOfScenario DEF A!At
<1>8. ASSUME NEW n \in A!Places(p)
      PROVE  A!StepId(A!At(p, n)) \in STRING \X (Laptop \cup {A!Fleet})
  BY <1>7, StepFields DEF A!StepId, A!ScenarioEntry
<1>9. p.roles = led /\ p.fingerprint = fp
  BY <1>1
<1> QED
  BY <1>3, <1>4, <1>6, <1>7, <1>8, <1>9

(* No two places of a plan hold the same step of the same scenario.        *)
LEMMA StepIdsDiffer ==
  ASSUME NEW p, IsPlan(p), NEW m \in A!Places(p), NEW n \in A!Places(p),
         A!StepId(A!At(p, m)) = A!StepId(A!At(p, n))
  PROVE  m = n
<1>1. PICK file \in DOMAIN Specs, fp \in Nat, mode \in {"example", "live"}, led \in [A!RoleName -> Laptop] :
        /\ p = [fingerprint |-> fp, mode |-> mode, roles |-> led,
                steps |-> [i \in DOMAIN Specs[file].scenarios |->
                            A!StepsOf(Specs[file].scenarios[i], led)]]
        /\ \A i, j \in DOMAIN Specs[file].scenarios :
             Specs[file].scenarios[i].id = Specs[file].scenarios[j].id => i = j
  BY DEF IsPlan
<1> DEFINE scenarios == Specs[file].scenarios
<1>2. \A k \in A!Places(p) :
        /\ k[1] \in DOMAIN scenarios /\ scenarios[k[1]] \in A!ScenarioEntry /\ k = <<k[1], k[2]>>
        /\ k[2] \in DOMAIN A!StepsOf(scenarios[k[1]], led)
        /\ A!At(p, k) = A!StepsOf(scenarios[k[1]], led)[k[2]]
  BY <1>1, CampaignConstants DEF A!Places, A!At
<1>3. \A k \in A!Places(p) : A!At(p, k).scenario = scenarios[k[1]] /\ k[2] \in 1..3
  BY <1>2, StepsOfScenario
<1>4. scenarios[m[1]].id = scenarios[n[1]].id /\ A!At(p, m).target = A!At(p, n).target
  BY <1>3 DEF A!StepId
<1>5. m[1] = n[1]
  BY <1>1, <1>2, <1>4
<1> DEFINE s == scenarios[m[1]]
<1>6. /\ s \in A!ScenarioEntry /\ m[2] \in 1..3 /\ n[2] \in 1..3
      /\ m[2] \in DOMAIN A!StepsOf(s, led) /\ n[2] \in DOMAIN A!StepsOf(s, led)
      /\ A!StepsOf(s, led)[m[2]].target = A!StepsOf(s, led)[n[2]].target
  BY <1>2, <1>3, <1>4, <1>5
<1> HIDE DEF s
<1>7. m[2] = n[2]
  <2>1. CASE s.scope = "per-cluster"
    <3>1. A!ByScore(s, led)[m[2]] = A!ByScore(s, led)[n[2]]
      BY <1>6, <2>1, StepsOfScenario
    <3>2. A!ByScore(s, led)[m[2]] \in Laptop /\ A!ByScore(s, led)[n[2]] \in Laptop
      BY <1>6, ByScoreSorts
    <3>3. ~(m[2] < n[2]) /\ ~(n[2] < m[2])
      BY <1>6, <3>1, <3>2, ByScoreSorts, PrecedesIsOrder
    <3> QED
      BY <1>6, <3>3
  <2>2. CASE s.scope # "per-cluster"
    BY <1>6, <2>2, StepsOfScenario
  <2> QED
    BY <2>1, <2>2
<1> QED
  BY <1>2, <1>5, <1>7

(* Before a step that faults the observed leader, its scenario has a step  *)
(* for each of the others.                                                 *)
LEMMA LeaderSteps ==
  ASSUME NEW p, IsPlan(p), NEW n \in A!Places(p),
         A!At(p, n).target = p.roles["fiducia"]
  PROVE  /\ A!At(p, n).scenario.scope = "per-cluster"
         /\ (A!At(p, n).scenario.leaderSensitive
             /\ A!At(p, n).scenario.plane \in A!SharedPlanes \cup {"fiducia"}) =>
              \A c \in Laptop \ {A!At(p, n).target} :
                \E m \in A!Places(p) :
                  A!Before(m, n) /\ A!StepId(A!At(p, m)) = <<A!At(p, n).scenario.id, c>>
<1>1. PICK file \in DOMAIN Specs, fp \in Nat, mode \in {"example", "live"}, led \in [A!RoleName -> Laptop] :
        p = [fingerprint |-> fp, mode |-> mode, roles |-> led,
             steps |-> [i \in DOMAIN Specs[file].scenarios |->
                         A!StepsOf(Specs[file].scenarios[i], led)]]
  BY DEF IsPlan
<1> DEFINE s == Specs[file].scenarios[n[1]]
<1>2. /\ n[1] \in DOMAIN Specs[file].scenarios /\ n[1] \in DOMAIN p.steps
      /\ n[2] \in DOMAIN p.steps[n[1]] /\ p.steps[n[1]] = A!StepsOf(s, led)
  BY <1>1 DEF A!Places
<1>3. s \in A!ScenarioEntry /\ n[1] \in Nat
  BY <1>2, CampaignConstants
<1> HIDE DEF s
<1>4. p.roles = led /\ A!At(p, n) = A!StepsOf(s, led)[n[2]]
  BY <1>1, <1>2 DEF A!At
<1>5. /\ A!At(p, n).scenario = s /\ s.scope = "per-cluster"
      /\ A!ByScore(s, led)[n[2]] = led["fiducia"] /\ n[2] \in 1..3
  BY <1>2, <1>3, <1>4, StepsOfScenario
<1>6. ASSUME s.leaderSensitive, s.plane \in A!SharedPlanes \cup {"fiducia"},
             NEW c \in Laptop \ {led["fiducia"]}
      PROVE  \E m \in A!Places(p) : A!Before(m, n) /\ A!StepId(A!At(p, m)) = <<s.id, c>>
  <2>1. n[2] = 3
    BY <1>5, <1>6, LeaderIsLast
  <2>2. PICK k \in 1..3 : A!ByScore(s, led)[k] = c
    BY ByScoreCovers
  <2>3. k < 3
    BY <1>5, <2>1, <2>2
  <2> DEFINE m == <<n[1], k>>
  <2>4. DOMAIN A!StepsOf(s, led) = 1..3 /\ A!StepsOf(s, led)[k].target = c
        /\ A!StepsOf(s, led)[k].scenario = s
    BY <1>3, <1>5, <2>2, StepsOfScenario
  <2>5. m \in A!Places(p) /\ A!At(p, m) = A!StepsOf(s, led)[k]
    BY <1>2, <2>4 DEF A!Places, A!At
  <2>6. A!Before(m, n)
    BY <1>3, <2>1, <2>3 DEF A!Before
  <2> QED
    BY <2>4, <2>5, <2>6 DEF A!StepId
<1> QED
  BY <1>4, <1>5, <1>6

-----------------------------------------------------------------------------
(* AcceptanceCampaign: plans are printed ones, with fingerprints of their  *)
(* own; an operator past the lease action holds the lease, and nobody else *)
(* records its step meanwhile; something is unhealthy only at the target   *)
(* of a step between its injection and its wait; the steps of its plan     *)
(* before the one under way have passed, so that they passed in order.     *)
Preflight ==
  [mode : {"example", "live"}, observedAt : Nat, recent : BOOLEAN, roles : [A!RoleName -> Laptop],
   healthy : [A!Resource -> SUBSET Laptop], proofsDistinct : BOOLEAN, gatesTrue : BOOLEAN]

Attempt == [plan : Nat, step : STRING \X (Laptop \cup {A!Fleet}), passed : BOOLEAN]

Scen(o) == A!StepOf(o).scenario
Id(p, n) == A!StepId(A!At(p, n))
PassedIn(log, f) == {a.step : a \in {x \in A!Range(log) : x.plan = f /\ x.passed}}
Passing(a, p, n) == a = [plan |-> p.fingerprint, step |-> Id(p, n), passed |-> TRUE]

FleetType ==
  /\ roles \in [A!RoleName -> Laptop]
  /\ unhealthy \in [A!Resource -> SUBSET Laptop]
  /\ faults \subseteq Laptop \cup {A!Fleet}

PlansType ==
  /\ preflight # None =>
       /\ preflight \in Preflight /\ preflight.observedAt = Cardinality(plans) + 1
       /\ \A o \in Operator : doing[o] = None
  /\ IsFiniteSet(plans)
  /\ \A p \in plans : IsPlan(p) /\ p.fingerprint <= Cardinality(plans)
  /\ \A p, q \in plans : p.fingerprint = q.fingerprint => p = q

WorkType ==
  /\ lease \in Operator \cup {None}
  /\ doing \in [Operator -> A!Job \cup {None}]
  /\ \A o \in Operator : doing[o] # None =>
       /\ \E p \in plans : p.fingerprint = doing[o].plan
       /\ doing[o].step \in A!Places(A!PlanOf(o))
       /\ doing[o].at \in 1..RecordAt(Scen(o))

AttemptsType ==
  /\ attempts \in Seq(Attempt)
  /\ \A i \in DOMAIN attempts :
       \E p \in plans : p.fingerprint = attempts[i].plan /\ attempts[i].step \in A!StepIds(p)

ReportType ==
  report # None =>
    \E p \in plans :
      /\ p.fingerprint = report.against /\ report.fingerprint = report.against
      /\ DOMAIN report.vouched = A!StepIds(p)
      /\ \A id \in A!StepIds(p) : report.vouched[id] # {}

LeaseIsHeld == \A o \in Operator : (doing[o] # None /\ doing[o].at > 1) => lease = o

Exposed(o) ==
  doing[o] # None /\ InjectAt(Scen(o)) < doing[o].at /\ doing[o].at <= WaitAt(Scen(o))

OnlyTargetSuffers ==
  /\ \A o \in Operator : Exposed(o) =>
       \A r \in A!Resource : unhealthy[r] \subseteq {A!StepOf(o).target}
  /\ (\A o \in Operator : ~Exposed(o)) => A!AllHealthy

EarlierHavePassed ==
  \A o \in Operator : doing[o] # None =>
    \A m \in A!Places(A!PlanOf(o)) :
      A!Before(m, doing[o].step) => Id(A!PlanOf(o), m) \in PassedIn(attempts, doing[o].plan)

HeldStepIsOpen ==
  \A o \in Operator : (doing[o] # None /\ doing[o].at > 1) =>
    Id(A!PlanOf(o), doing[o].step) \notin PassedIn(attempts, doing[o].plan)

PassedInOrder ==
  \A p \in plans : \A m, n \in A!Places(p) : A!Before(m, n) =>
    /\ Id(p, n) \in PassedIn(attempts, p.fingerprint) => Id(p, m) \in PassedIn(attempts, p.fingerprint)
    /\ \A i, j \in DOMAIN attempts :
         (Passing(attempts[i], p, m) /\ Passing(attempts[j], p, n)) => i < j

CampaignInv ==
  /\ FleetType /\ PlansType /\ WorkType /\ AttemptsType /\ ReportType
  /\ LeaseIsHeld /\ OnlyTargetSuffers /\ EarlierHavePassed /\ HeldStepIsOpen /\ PassedInOrder

LEMMA CampaignInit ==
  ASSUME A!Init
  PROVE  CampaignInv
<1>1. FleetType
  BY CampaignConstants DEF A!Init, FleetType
<1>2. PlansType
  BY FS_EmptySet DEF A!Init, PlansType
<1>3. WorkType /\ LeaseIsHeld /\ EarlierHavePassed /\ HeldStepIsOpen
  BY DEF A!Init, WorkType, LeaseIsHeld, EarlierHavePassed, HeldStepIsOpen
<1>4. AttemptsType /\ ReportType /\ PassedInOrder
  BY DEF A!Init, AttemptsType, ReportType, PassedInOrder
<1>5. OnlyTargetSuffers
  BY DEF A!Init, OnlyTargetSuffers, Exposed, A!AllHealthy
<1> QED
  BY <1>1, <1>2, <1>3, <1>4, <1>5 DEF CampaignInv

LEMMA PassedAre ==
  ASSUME NEW log \in Seq(Attempt), NEW f
  PROVE  \A st : st \in PassedIn(log, f) <=>
           \E i \in DOMAIN log : log[i].plan = f /\ log[i].passed /\ log[i].step = st
BY DEF PassedIn, A!Range

LEMMA PassedOfPlan ==
  ASSUME NEW p
  PROVE  A!Passed(p) = PassedIn(attempts, p.fingerprint)
BY DEF A!Passed, PassedIn

(* The plan an operator works from, and what follows from its kind of      *)
(* action.                                                                 *)
LEMMA PlanIsHeld ==
  ASSUME NEW o \in Operator, \E p \in plans : p.fingerprint = doing[o].plan
  PROVE  A!PlanOf(o) \in plans /\ A!PlanOf(o).fingerprint = doing[o].plan
BY DEF A!PlanOf

LEMMA SamePlan ==
  ASSUME PlansType', plans \subseteq plans', NEW o \in Operator,
         \E p \in plans : p.fingerprint = doing[o].plan, doing'[o].plan = doing[o].plan
  PROVE  A!PlanOf(o)' = A!PlanOf(o)
<1>1. A!PlanOf(o) \in plans' /\ A!PlanOf(o).fingerprint = doing'[o].plan
  BY PlanIsHeld
<1>2. (A!PlanOf(o))' \in plans' /\ (A!PlanOf(o))'.fingerprint = doing'[o].plan
  BY <1>1 DEF A!PlanOf
<1> QED
  BY <1>1, <1>2 DEF PlansType

LEMMA KindTellsWhere ==
  ASSUME PlansType, WorkType, NEW o \in Operator, doing[o] # None
  PROVE  /\ doing[o] \in A!Job /\ doing[o].at \in Nat /\ doing[o].at >= 1
         /\ A!PlanOf(o) \in plans /\ A!PlanOf(o).fingerprint = doing[o].plan
         /\ IsPlan(A!PlanOf(o)) /\ IsStep(A!StepOf(o), A!PlanOf(o).roles)
         /\ A!StepOf(o).target \in Laptop \cup {A!Fleet}
         /\ InjectAt(Scen(o)) \in Nat /\ WaitAt(Scen(o)) \in Nat /\ RecordAt(Scen(o)) \in Nat
         /\ 1 < InjectAt(Scen(o)) /\ InjectAt(Scen(o)) < WaitAt(Scen(o)) /\ WaitAt(Scen(o)) < RecordAt(Scen(o))
         /\ DOMAIN A!StepOf(o).actions = 1..RecordAt(Scen(o))
         /\ A!Kind(o) \in KindsAt(doing[o].at, Scen(o))
<1>1. doing[o] \in A!Job /\ doing[o].at \in 1..RecordAt(Scen(o))
      /\ doing[o].step \in A!Places(A!PlanOf(o))
      /\ \E p \in plans : p.fingerprint = doing[o].plan
  BY DEF WorkType
<1>2. A!PlanOf(o) \in plans /\ A!PlanOf(o).fingerprint = doing[o].plan
  BY <1>1, PlanIsHeld
<1>3. IsPlan(A!PlanOf(o))
  BY <1>2 DEF PlansType
<1>4. IsStep(A!StepOf(o), A!PlanOf(o).roles)
  BY <1>1, <1>3, PlanFacts DEF A!StepOf
<1>5. A!StepOf(o).actions = A!ActionsForStep(Scen(o)) /\ A!StepOf(o).target \in Laptop \cup {A!Fleet}
  BY <1>4, StepFields DEF Scen
<1>6. /\ 1 < InjectAt(Scen(o)) /\ InjectAt(Scen(o)) < WaitAt(Scen(o)) /\ WaitAt(Scen(o)) < RecordAt(Scen(o))
      /\ InjectAt(Scen(o)) \in Nat /\ WaitAt(Scen(o)) \in Nat /\ RecordAt(Scen(o)) \in Nat
      /\ DOMAIN A!ActionsForStep(Scen(o)) = 1..RecordAt(Scen(o))
      /\ \A i \in 1..RecordAt(Scen(o)) : A!ActionsForStep(Scen(o))[i] \in KindsAt(i, Scen(o))
  BY ActionsAre
<1>7. A!Kind(o) \in KindsAt(doing[o].at, Scen(o))
  BY <1>1, <1>5, <1>6 DEF A!Kind
<1>8. doing[o].at \in Nat /\ doing[o].at >= 1
  BY <1>1, <1>6
<1> QED
  BY <1>1, <1>2, <1>3, <1>4, <1>5, <1>6, <1>7, <1>8

-----------------------------------------------------------------------------
(* While plans stay, an operator whose job stays is where it was.          *)
LEMMA SameJob ==
  ASSUME PlansType', WorkType, plans \subseteq plans', NEW o \in Operator, doing'[o] = doing[o]
  PROVE  /\ doing[o] # None => /\ A!PlanOf(o)' = A!PlanOf(o)
                               /\ A!StepOf(o)' = A!StepOf(o) /\ Scen(o)' = Scen(o)
         /\ Exposed(o)' <=> Exposed(o)
<1>1. ASSUME doing[o] # None
      PROVE  A!PlanOf(o)' = A!PlanOf(o) /\ A!StepOf(o)' = A!StepOf(o) /\ Scen(o)' = Scen(o)
  <2>1. \E p \in plans : p.fingerprint = doing[o].plan
    BY <1>1 DEF WorkType
  <2>2. A!PlanOf(o)' = A!PlanOf(o)
    BY <2>1, SamePlan
  <2>3. A!StepOf(o)' = A!StepOf(o)
    BY <2>2 DEF A!StepOf
  <2> QED
    BY <2>2, <2>3 DEF Scen
<1> QED
  BY <1>1 DEF Exposed

LEMMA SameAttempts ==
  ASSUME AttemptsType, PassedInOrder, ReportType, plans \subseteq plans', UNCHANGED <<attempts, report>>,
         \A p \in plans' \ plans : \A i \in DOMAIN attempts : attempts[i].plan # p.fingerprint
  PROVE  AttemptsType' /\ PassedInOrder' /\ ReportType'
<1>1. AttemptsType' /\ ReportType'
  BY DEF AttemptsType, ReportType
<1>2. ASSUME NEW p \in plans' \ plans, NEW m \in A!Places(p), NEW n \in A!Places(p)
      PROVE  /\ Id(p, n) \notin PassedIn(attempts, p.fingerprint)
             /\ \A i \in DOMAIN attempts : ~Passing(attempts[i], p, m)
  BY <1>2, PassedAre DEF AttemptsType, Passing
<1>3. PassedInOrder'
  BY <1>2 DEF PassedInOrder
<1> QED
  BY <1>1, <1>3

LEMMA FleetMoves ==
  ASSUME CampaignInv, FleetType', \A r \in A!Resource : unhealthy'[r] \subseteq unhealthy[r],
         UNCHANGED <<preflight, plans, lease, doing, attempts, report>>
  PROVE  CampaignInv'
<1> USE DEF CampaignInv
<1>1. PlansType' /\ LeaseIsHeld'
  BY DEF PlansType, LeaseIsHeld
<1>2. \A o \in Operator :
        /\ doing[o] # None => /\ A!PlanOf(o)' = A!PlanOf(o)
                              /\ A!StepOf(o)' = A!StepOf(o) /\ Scen(o)' = Scen(o)
        /\ Exposed(o)' <=> Exposed(o)
  BY <1>1, SameJob
<1>3. WorkType' /\ EarlierHavePassed' /\ HeldStepIsOpen'
  BY <1>2 DEF WorkType, EarlierHavePassed, HeldStepIsOpen
<1>4. AttemptsType' /\ PassedInOrder' /\ ReportType'
  BY SameAttempts
<1>5. OnlyTargetSuffers'
  <2>1. A!AllHealthy => A!AllHealthy'
    BY DEF A!AllHealthy
  <2>2. \A o \in Operator : Exposed(o) => doing[o] # None
    BY DEF Exposed
  <2> QED
    BY <1>2, <2>1, <2>2 DEF OnlyTargetSuffers
<1> QED
  BY <1>1, <1>3, <1>4, <1>5

(* While nobody has a step under way plans may be added.                   *)
LEMMA PlanMoves ==
  ASSUME CampaignInv, PlansType', plans \subseteq plans', \A o \in Operator : doing[o] = None,
         \A p \in plans' \ plans : \A i \in DOMAIN attempts : attempts[i].plan # p.fingerprint,
         UNCHANGED <<roles, unhealthy, faults, lease, doing, attempts, report>>
  PROVE  CampaignInv'
<1> USE DEF CampaignInv
<1>1. FleetType' /\ WorkType' /\ LeaseIsHeld' /\ EarlierHavePassed' /\ HeldStepIsOpen'
  BY DEF FleetType, WorkType, LeaseIsHeld, EarlierHavePassed, HeldStepIsOpen
<1>2. AttemptsType' /\ PassedInOrder' /\ ReportType'
  BY SameAttempts
<1>3. OnlyTargetSuffers'
  BY DEF OnlyTargetSuffers, Exposed, A!AllHealthy
<1> QED
  BY <1>1, <1>2, <1>3

LEMMA ElectionAndCatchUp ==
  ASSUME CampaignInv, NEW c \in Laptop,
         A!CatchUp(c) \/ \E role \in MovingRoles : A!Election(role, c)
  PROVE  CampaignInv'
<1>1. CASE A!CatchUp(c)
  <2>1. FleetType' /\ \A r \in A!Resource : unhealthy'[r] \subseteq unhealthy[r]
    BY <1>1 DEF A!CatchUp, CampaignInv, FleetType
  <2> QED
    BY <1>1, <2>1, FleetMoves DEF A!CatchUp, A!planning
<1>2. ASSUME NEW role \in MovingRoles, A!Election(role, c)
      PROVE  CampaignInv'
  <2>1. FleetType' /\ \A r \in A!Resource : unhealthy'[r] \subseteq unhealthy[r]
    BY <1>2, CampaignConstants DEF A!Election, CampaignInv, FleetType
  <2> QED
    BY <1>2, <2>1, FleetMoves DEF A!Election, A!planning
<1> QED
  BY <1>1, <1>2

LEMMA PreflightMoves ==
  ASSUME CampaignInv,
         A!TenMinutesPass \/ A!Discard
         \/ \E mode \in {"example", "live"}, gates \in BOOLEAN : A!Observe(mode, gates)
  PROVE  CampaignInv'
<1>1. CASE A!TenMinutesPass
  <2>1. preflight # None /\ preflight' = [preflight EXCEPT !.recent = FALSE]
        /\ UNCHANGED <<roles, unhealthy, faults, plans, lease, doing, attempts, report>>
    BY <1>1 DEF A!TenMinutesPass, A!fleet
  <2>2. PlansType' /\ \A o \in Operator : doing[o] = None
    BY <2>1 DEF CampaignInv, PlansType, Preflight
  <2> QED
    BY <2>1, <2>2, PlanMoves
<1>2. CASE A!Discard
  <2>1. PlansType' /\ \A o \in Operator : doing[o] = None
    BY <1>2 DEF A!Discard, CampaignInv, PlansType
  <2> QED
    BY <1>2, <2>1, PlanMoves DEF A!Discard, A!fleet
<1>3. ASSUME NEW mode \in {"example", "live"}, NEW gates \in BOOLEAN, A!Observe(mode, gates)
      PROVE  CampaignInv'
  <2>1. /\ preflight = None /\ \A o \in Operator : doing[o] = None
        /\ preflight' = [mode |-> mode, observedAt |-> A!Observations + 1, recent |-> TRUE, roles |-> roles,
                         healthy |-> [r \in A!Resource |-> Laptop \ unhealthy[r]],
                         proofsDistinct |-> TRUE, gatesTrue |-> gates]
        /\ UNCHANGED <<roles, unhealthy, faults, plans, lease, doing, attempts, report>>
    BY <1>3 DEF A!Observe, A!fleet
  <2>2. A!Observations = Cardinality(plans) /\ Cardinality(plans) \in Nat
    <3>1. A!Cardinality(plans) = Cardinality(plans)
      BY DEF A!Cardinality, Cardinality
    <3>2. Cardinality(plans) \in Nat
      BY FS_CardinalityType DEF CampaignInv, PlansType
    <3> QED
      BY <2>1, <3>1, <3>2 DEF A!Observations
  <2>3. preflight' \in Preflight /\ preflight'.observedAt = Cardinality(plans') + 1
    BY <2>1, <2>2 DEF Preflight, CampaignInv, FleetType
  <2>4. PlansType'
    BY <2>1, <2>3 DEF CampaignInv, PlansType
  <2> QED
    BY <2>1, <2>4, PlanMoves
<1> QED
  BY <1>1, <1>2, <1>3

LEMMA PlanIsBuilt ==
  ASSUME CampaignInv, NEW file \in DOMAIN Specs, A!BuildAcceptancePlan(file)
  PROVE  CampaignInv'
<1> DEFINE p == A!AcceptancePlan(Specs[file], preflight)
<1>1. /\ preflight # None /\ preflight' = None /\ plans' = plans \cup {p}
      /\ A!ValidSpec(Specs[file])
      /\ UNCHANGED <<roles, unhealthy, faults, lease, doing, attempts, report>>
  BY DEF A!BuildAcceptancePlan, A!fleet
<1>2. /\ preflight \in Preflight /\ \A o \in Operator : doing[o] = None
      /\ p.fingerprint = Cardinality(plans) + 1 /\ Cardinality(plans) \in Nat /\ IsFiniteSet(plans)
  BY <1>1, FS_CardinalityType DEF CampaignInv, PlansType, A!AcceptancePlan
<1>3. IsPlan(p)
  BY <1>1, <1>2 DEF IsPlan, A!AcceptancePlan, A!ValidSpec, Preflight
<1> HIDE DEF p
<1>4. \A q \in plans : q.fingerprint <= Cardinality(plans) /\ q.fingerprint \in Nat
  BY PlanFacts DEF CampaignInv, PlansType
<1>5. p \notin plans
  BY <1>2, <1>4
<1>6. IsFiniteSet(plans \cup {p}) /\ Cardinality(plans \cup {p}) = Cardinality(plans) + 1
  BY <1>2, <1>5, FS_AddElement
<1>7. PlansType'
  <2>1. \A q \in plans' : IsPlan(q) /\ q.fingerprint <= Cardinality(plans')
    BY <1>1, <1>2, <1>3, <1>4, <1>6 DEF CampaignInv, PlansType
  <2>2. \A q, r \in plans' : q.fingerprint = r.fingerprint => q = r
    BY <1>1, <1>2, <1>4 DEF CampaignInv, PlansType
  <2> QED
    BY <1>1, <1>6, <2>1, <2>2 DEF PlansType
<1>8. \A i \in DOMAIN attempts : attempts[i].plan # p.fingerprint
  BY <1>2, <1>4 DEF CampaignInv, AttemptsType
<1> QED
  BY <1>1, <1>2, <1>7, <1>8, PlanMoves

(* An operator at work changes only its own place.                         *)
LEMMA OtherOperators ==
  ASSUME PlansType', WorkType, NEW o \in Operator, NEW j, doing' = [doing EXCEPT ![o] = j],
         UNCHANGED plans
  PROVE  /\ doing'[o] = j
         /\ \A p \in Operator \ {o} :
              /\ doing'[p] = doing[p]
              /\ doing[p] # None => /\ A!PlanOf(p)' = A!PlanOf(p)
                                    /\ A!StepOf(p)' = A!StepOf(p) /\ Scen(p)' = Scen(p)
              /\ Exposed(p)' <=> Exposed(p)
<1>1. doing'[o] = j /\ \A p \in Operator \ {o} : doing'[p] = doing[p]
  BY DEF WorkType
<1> QED
  BY <1>1, SameJob

LEMMA StepIsTaken ==
  ASSUME CampaignInv, NEW o \in Operator, A!TakeStep(o)
  PROVE  CampaignInv'
<1>0. PICK q \in plans : \E n \in A!Open(q) :
        /\ ~\E m \in A!Open(q) : A!Before(m, n)
        /\ doing' = [doing EXCEPT ![o] = [plan |-> q.fingerprint, step |-> n, at |-> 1, failing |-> FALSE]]
  BY DEF A!TakeStep
<1>1. PICK n \in A!Open(q) :
        /\ ~\E m \in A!Open(q) : A!Before(m, n)
        /\ doing' = [doing EXCEPT ![o] = [plan |-> q.fingerprint, step |-> n, at |-> 1, failing |-> FALSE]]
  BY <1>0
<1>2. /\ preflight = None /\ doing[o] = None
      /\ UNCHANGED <<roles, unhealthy, faults, preflight, plans, lease, attempts, report>>
  BY DEF A!TakeStep, A!fleet, A!planning
<1> DEFINE j == [plan |-> q.fingerprint, step |-> n, at |-> 1, failing |-> FALSE]
<1>3. IsPlan(q)
  BY DEF CampaignInv, PlansType
<1>4. n \in A!Places(q) /\ n \in Nat \X Nat /\ q.fingerprint \in Nat
  BY <1>3, PlanFacts DEF A!Open
<1>5. j \in A!Job /\ j # None
  <2>1. j \in A!Job
    BY <1>4 DEF A!Job
  <2> QED
    BY <2>1, CampaignConstants
<1>6. FleetType' /\ PlansType' /\ AttemptsType' /\ PassedInOrder' /\ ReportType'
  <2>1. FleetType' /\ PlansType'
    BY <1>2 DEF CampaignInv, FleetType, PlansType
  <2> QED
    BY <1>2, <2>1, SameAttempts DEF CampaignInv
<1>7. /\ doing' = [doing EXCEPT ![o] = j] /\ doing'[o] = j /\ WorkType
      /\ \A p \in Operator \ {o} :
           /\ doing'[p] = doing[p]
           /\ doing[p] # None => /\ A!PlanOf(p)' = A!PlanOf(p)
                                 /\ A!StepOf(p)' = A!StepOf(p) /\ Scen(p)' = Scen(p)
           /\ Exposed(p)' <=> Exposed(p)
  BY <1>1, <1>2, <1>6, OtherOperators DEF CampaignInv
<1>8. j.at = 1 /\ j.step = n /\ j.plan = q.fingerprint
  OBVIOUS
<1> HIDE DEF j
<1>9. A!PlanOf(o)' = q
  <2>1. (A!PlanOf(o))' \in plans' /\ (A!PlanOf(o))'.fingerprint = q.fingerprint
    BY <1>2, <1>7, <1>8 DEF A!PlanOf
  <2> QED
    BY <1>2, <2>1 DEF CampaignInv, PlansType
<1>10. WorkType'
  <2>1. doing' \in [Operator -> A!Job \cup {None}] /\ (lease \in Operator \cup {None})'
    BY <1>2, <1>5, <1>7 DEF WorkType
  <2>2. 1 \in 1..RecordAt(Scen(o)')
    BY ActionsAre
  <2>3. ASSUME NEW p \in Operator, doing'[p] # None
        PROVE  /\ \E r \in plans' : r.fingerprint = doing'[p].plan
               /\ doing'[p].step \in A!Places(A!PlanOf(p)')
               /\ doing'[p].at \in 1..RecordAt(Scen(p)')
    <3>1. CASE p = o
      BY <1>2, <1>4, <1>7, <1>8, <1>9, <2>2, <3>1
    <3>2. CASE p # o
      BY <1>2, <1>7, <2>3, <3>2 DEF WorkType
    <3> QED
      BY <3>1, <3>2
  <2> QED
    BY <2>1, <2>3 DEF WorkType
<1>11. LeaseIsHeld' /\ HeldStepIsOpen'
  <2>1. \A p \in Operator : doing'[p] # None /\ doing'[p].at > 1 =>
          p # o /\ doing'[p] = doing[p] /\ A!PlanOf(p)' = A!PlanOf(p)
    BY <1>7, <1>8
  <2> QED
    BY <1>2, <2>1 DEF CampaignInv, LeaseIsHeld, HeldStepIsOpen
<1>12. OnlyTargetSuffers'
  <2>1. ~Exposed(o) /\ ~Exposed(o)'
    <3>1. ~Exposed(o)
      BY <1>2 DEF Exposed
    <3>2. 1 < InjectAt(Scen(o)') /\ InjectAt(Scen(o)') \in Nat
      BY ActionsAre
    <3>3. ~Exposed(o)'
      BY <1>7, <1>8, <3>2 DEF Exposed
    <3> QED
      BY <3>1, <3>3
  <2>2. \A p \in Operator : Exposed(p)' => p # o /\ Exposed(p) /\ A!StepOf(p)' = A!StepOf(p)
    BY <1>7, <2>1 DEF Exposed
  <2> QED
    BY <1>2, <1>7, <2>1, <2>2 DEF CampaignInv, OnlyTargetSuffers, A!AllHealthy
<1>13. EarlierHavePassed'
  <2>1. \A m \in A!Places(q) : A!Before(m, n) => Id(q, m) \in PassedIn(attempts, q.fingerprint)
    BY <1>1, PassedOfPlan DEF A!Open, Id
  <2>2. ASSUME NEW p \in Operator, doing'[p] # None, NEW m \in A!Places(A!PlanOf(p)'),
               A!Before(m, doing'[p].step)
        PROVE  Id(A!PlanOf(p)', m) \in PassedIn(attempts', doing'[p].plan)
    <3>1. CASE p = o
      BY <1>2, <1>7, <1>8, <1>9, <2>1, <2>2, <3>1
    <3>2. CASE p # o
      BY <1>2, <1>7, <2>2, <3>2 DEF CampaignInv, EarlierHavePassed
    <3> QED
      BY <3>1, <3>2
  <2> QED
    BY <2>2 DEF EarlierHavePassed, Id
<1> QED
  BY <1>6, <1>10, <1>11, <1>12, <1>13 DEF CampaignInv

(* An operator who goes on to its next action holds the lease, or takes a  *)
(* free one for a step that is still open; who is exposed is for the       *)
(* action to say.                                                          *)
LEMMA OperatorGoesOn ==
  ASSUME CampaignInv, NEW o \in Operator, doing[o] # None, doing[o].at < RecordAt(Scen(o)),
         NEW failing \in BOOLEAN,
         doing' = [doing EXCEPT ![o] = [plan |-> doing[o].plan, step |-> doing[o].step,
                                        at |-> doing[o].at + 1, failing |-> failing]],
         Id(A!PlanOf(o), doing[o].step) \notin PassedIn(attempts, doing[o].plan),
         lease \in {o, None}, lease' = o, FleetType',
         UNCHANGED <<preflight, plans, attempts, report>>
  PROVE  /\ FleetType' /\ PlansType' /\ WorkType' /\ AttemptsType' /\ ReportType'
         /\ LeaseIsHeld' /\ EarlierHavePassed' /\ HeldStepIsOpen' /\ PassedInOrder'
         /\ doing'[o] # None /\ doing'[o].at = doing[o].at + 1
         /\ A!StepOf(o)' = A!StepOf(o) /\ Scen(o)' = Scen(o)
         /\ \A p \in Operator \ {o} : ~Exposed(p) /\ ~Exposed(p)'
<1> DEFINE j == [plan |-> doing[o].plan, step |-> doing[o].step, at |-> doing[o].at + 1, failing |-> failing]
<1>1. /\ doing[o] \in A!Job /\ doing[o].at \in Nat /\ doing[o].at >= 1
      /\ RecordAt(Scen(o)) \in Nat
      /\ A!PlanOf(o) \in plans /\ A!PlanOf(o).fingerprint = doing[o].plan
  BY KindTellsWhere DEF CampaignInv
<1>2. j \in A!Job /\ j # None /\ j.plan = doing[o].plan /\ j.step = doing[o].step /\ j.at = doing[o].at + 1
  BY <1>1, CampaignConstants DEF A!Job
<1>3. PlansType'
  BY <1>2 DEF CampaignInv, PlansType
<1>4. /\ doing' = [doing EXCEPT ![o] = j] /\ doing'[o] = j /\ WorkType
      /\ \A p \in Operator \ {o} :
           /\ doing'[p] = doing[p]
           /\ doing[p] # None => /\ A!PlanOf(p)' = A!PlanOf(p)
                                 /\ A!StepOf(p)' = A!StepOf(p) /\ Scen(p)' = Scen(p)
           /\ Exposed(p)' <=> Exposed(p)
  BY <1>3, OtherOperators DEF CampaignInv
<1> HIDE DEF j
<1>5. A!PlanOf(o)' = A!PlanOf(o) /\ A!StepOf(o)' = A!StepOf(o) /\ Scen(o)' = Scen(o)
  <2>1. A!PlanOf(o)' = A!PlanOf(o)
    BY <1>1, <1>2, <1>3, <1>4, SamePlan
  <2>2. A!StepOf(o)' = A!StepOf(o)
    BY <1>2, <1>4, <2>1 DEF A!StepOf
  <2> QED
    BY <2>1, <2>2 DEF Scen
<1>6. AttemptsType' /\ PassedInOrder' /\ ReportType'
  BY SameAttempts DEF CampaignInv
<1>7. WorkType'
  <2>1. doing' \in [Operator -> A!Job \cup {None}] /\ (lease \in Operator \cup {None})'
    BY <1>2, <1>4 DEF WorkType
  <2>2. ASSUME NEW p \in Operator, doing'[p] # None
        PROVE  /\ \E r \in plans' : r.fingerprint = doing'[p].plan
               /\ doing'[p].step \in A!Places(A!PlanOf(p)')
               /\ doing'[p].at \in 1..RecordAt(Scen(p)')
    <3>1. CASE p = o
      BY <1>1, <1>2, <1>4, <1>5, <3>1 DEF WorkType
    <3>2. CASE p # o
      BY <1>4, <2>2, <3>2 DEF WorkType
    <3> QED
      BY <3>1, <3>2
  <2> QED
    BY <2>1, <2>2 DEF WorkType
<1>8. \A p \in Operator \ {o} : doing[p] # None => ~(doing[p].at > 1)
  BY CampaignConstants DEF CampaignInv, LeaseIsHeld
<1>9. LeaseIsHeld' /\ HeldStepIsOpen'
  <2>1. \A p \in Operator : doing'[p] # None /\ doing'[p].at > 1 => p = o
    BY <1>4, <1>8
  <2> QED
    BY <1>2, <1>4, <1>5, <2>1 DEF LeaseIsHeld, HeldStepIsOpen, Id
<1>10. \A p \in Operator \ {o} : ~Exposed(p)
  <2> SUFFICES ASSUME NEW p \in Operator \ {o}, Exposed(p)
               PROVE  FALSE
    OBVIOUS
  <2>1. doing[p] # None /\ InjectAt(Scen(p)) < doing[p].at
    BY DEF Exposed
  <2>2. 1 < InjectAt(Scen(p)) /\ InjectAt(Scen(p)) \in Nat /\ doing[p].at \in Nat
    BY <2>1, KindTellsWhere DEF CampaignInv
  <2> QED
    BY <1>8, <2>1, <2>2
<1>11. EarlierHavePassed'
  <2>1. \A p \in Operator : doing'[p] # None =>
          /\ doing[p] # None /\ doing'[p].step = doing[p].step /\ doing'[p].plan = doing[p].plan
          /\ A!PlanOf(p)' = A!PlanOf(p)
    BY <1>2, <1>4, <1>5
  <2> QED
    BY <2>1 DEF CampaignInv, EarlierHavePassed, Id
<1> QED
  BY <1>2, <1>3, <1>4, <1>5, <1>6, <1>7, <1>9, <1>10, <1>11

LEMMA KindPlaces ==
  ASSUME PlansType, WorkType, NEW o \in Operator, doing[o] # None
  PROVE  /\ A!Kind(o) = "acquire_exclusive_fault_lease" => doing[o].at = 1
         /\ A!Kind(o) = "inject_fault" => doing[o].at = InjectAt(Scen(o))
         /\ A!Kind(o) = "wait_full_readiness_and_catchup" => doing[o].at = WaitAt(Scen(o))
         /\ A!Kind(o) = "record_reviewed_result_and_release_fault_lease" => doing[o].at = RecordAt(Scen(o))
         /\ A!Kind(o) \in {"reobserve_roles_health_and_backups", "recover_fault"} \cup A!Routine \cup A!Checks =>
              doing[o].at \notin {1, InjectAt(Scen(o)), WaitAt(Scen(o)), RecordAt(Scen(o))}
<1> DEFINE at == doing[o].at
           s == Scen(o)
<1>1. A!Kind(o) \in KindsAt(at, s) /\ 1 < InjectAt(s) /\ InjectAt(s) < WaitAt(s) /\ WaitAt(s) < RecordAt(s)
      /\ InjectAt(s) \in Nat /\ WaitAt(s) \in Nat /\ RecordAt(s) \in Nat
  BY KindTellsWhere
<1> HIDE DEF at, s
<1>2. /\ A!Kind(o) = "acquire_exclusive_fault_lease" => at = 1
      /\ A!Kind(o) = "inject_fault" => at = InjectAt(s)
      /\ A!Kind(o) = "wait_full_readiness_and_catchup" => at = WaitAt(s)
      /\ A!Kind(o) = "record_reviewed_result_and_release_fault_lease" => at = RecordAt(s)
      /\ A!Kind(o) \in {"reobserve_roles_health_and_backups", "recover_fault"} \cup A!Routine \cup A!Checks =>
           at \notin {1, InjectAt(s), WaitAt(s), RecordAt(s)}
  BY <1>1 DEF KindsAt, A!Routine, A!Checks
<1> QED
  BY <1>2 DEF at, s

LEMMA AdvanceIs ==
  ASSUME WorkType, NEW o \in Operator, doing[o] # None, A!Advance(o)
  PROVE  doing[o].failing \in BOOLEAN
         /\ doing' = [doing EXCEPT ![o] = [plan |-> doing[o].plan, step |-> doing[o].step,
                                          at |-> doing[o].at + 1, failing |-> doing[o].failing]]
<1>1. doing[o] \in A!Job
  BY DEF WorkType
<1>2. [doing[o] EXCEPT !.at = @ + 1]
        = [plan |-> doing[o].plan, step |-> doing[o].step,
           at |-> doing[o].at + 1, failing |-> doing[o].failing]
  BY <1>1 DEF A!Job
<1> QED
  BY <1>1, <1>2 DEF A!Advance, A!Job

LEMMA LeaseIsTried ==
  ASSUME CampaignInv, NEW o \in Operator, A!AcquireLease(o)
  PROVE  CampaignInv'
<1>1. /\ doing[o] # None /\ A!Kind(o) = "acquire_exclusive_fault_lease"
      /\ UNCHANGED <<roles, unhealthy, faults, preflight, plans, attempts, report>>
  BY DEF A!AcquireLease, A!fleet, A!planning
<1>2. /\ doing[o].at = 1 /\ WorkType
      /\ A!PlanOf(o) \in plans /\ A!PlanOf(o).fingerprint = doing[o].plan
  BY <1>1, KindPlaces, KindTellsWhere DEF CampaignInv
<1>3. 1 < InjectAt(Scen(o)) /\ InjectAt(Scen(o)) < RecordAt(Scen(o)) /\ InjectAt(Scen(o)) \in Nat
      /\ RecordAt(Scen(o)) \in Nat
  BY ActionsAre
<1>4. FleetType'
  BY <1>1 DEF CampaignInv, FleetType
<1>5. ~Exposed(o)
  BY <1>2, <1>3 DEF Exposed
<1>6. CASE lease' = o /\ lease = None /\ doing[o].step \in A!Open(A!PlanOf(o)) /\ A!Advance(o)
  <2>1. doing[o].failing \in BOOLEAN
        /\ doing' = [doing EXCEPT ![o] = [plan |-> doing[o].plan, step |-> doing[o].step,
                                          at |-> doing[o].at + 1, failing |-> doing[o].failing]]
    BY <1>1, <1>2, <1>6, AdvanceIs
  <2>2. /\ doing[o] # None /\ doing[o].at < RecordAt(Scen(o)) /\ lease \in {o, None} /\ lease' = o
        /\ UNCHANGED <<preflight, plans, attempts, report>>
    BY <1>1, <1>2, <1>3, <1>6
  <2>3. Id(A!PlanOf(o), doing[o].step) \notin PassedIn(attempts, doing[o].plan)
    BY <1>2, <1>6, PassedOfPlan DEF A!Open, Id
  <2>4. /\ FleetType' /\ PlansType' /\ WorkType' /\ AttemptsType' /\ ReportType'
        /\ LeaseIsHeld' /\ EarlierHavePassed' /\ HeldStepIsOpen' /\ PassedInOrder'
        /\ doing'[o].at = doing[o].at + 1 /\ Scen(o)' = Scen(o)
        /\ \A p \in Operator \ {o} : ~Exposed(p) /\ ~Exposed(p)'
    BY <1>4, <2>1, <2>2, <2>3, OperatorGoesOn
  <2>5. ~Exposed(o)'
    BY <1>2, <1>3, <2>4 DEF Exposed
  <2>6. OnlyTargetSuffers'
    BY <1>1, <1>5, <2>4, <2>5 DEF CampaignInv, OnlyTargetSuffers, A!AllHealthy
  <2> QED
    BY <2>4, <2>6 DEF CampaignInv
<1>7. CASE lease' = lease /\ doing' = [doing EXCEPT ![o] = None]
  <2>1. PlansType'
    <3>1. \A p \in Operator : doing[p] = None => doing'[p] = None
      BY <1>2, <1>7 DEF WorkType
    <3> QED
      BY <1>1, <3>1 DEF CampaignInv, PlansType
  <2>2. /\ doing'[o] = None
        /\ \A p \in Operator \ {o} :
             /\ doing'[p] = doing[p]
             /\ doing[p] # None => /\ A!PlanOf(p)' = A!PlanOf(p)
                                   /\ A!StepOf(p)' = A!StepOf(p) /\ Scen(p)' = Scen(p)
             /\ Exposed(p)' <=> Exposed(p)
    BY <1>1, <1>2, <1>7, <2>1, OtherOperators
  <2>3. AttemptsType' /\ PassedInOrder' /\ ReportType'
    BY <1>1, SameAttempts DEF CampaignInv
  <2>4. \A p \in Operator : doing'[p] # None =>
          /\ p # o /\ doing'[p] = doing[p] /\ A!PlanOf(p)' = A!PlanOf(p) /\ Scen(p)' = Scen(p)
    BY <2>2
  <2>5. WorkType'
    <3>1. doing' \in [Operator -> A!Job \cup {None}]
      BY <1>2, <1>7 DEF WorkType
    <3> QED
      BY <1>1, <1>7, <2>4, <3>1 DEF CampaignInv, WorkType
  <2>6. LeaseIsHeld' /\ HeldStepIsOpen' /\ EarlierHavePassed'
    BY <1>1, <1>7, <2>4 DEF CampaignInv, LeaseIsHeld, HeldStepIsOpen, EarlierHavePassed
  <2>7. ~Exposed(o)'
    BY <2>2 DEF Exposed
  <2>8. OnlyTargetSuffers'
    <3>1. \A p \in Operator : Exposed(p)' => Exposed(p) /\ A!StepOf(p)' = A!StepOf(p)
      BY <2>2, <2>7 DEF Exposed
    <3> QED
      BY <1>1, <1>5, <2>2, <3>1 DEF CampaignInv, OnlyTargetSuffers, A!AllHealthy
  <2> QED
    BY <1>4, <2>1, <2>3, <2>5, <2>6, <2>8 DEF CampaignInv
<1> QED
  BY <1>6, <1>7 DEF A!AcquireLease

(* Neither the injection nor the wait: the exposure is as before.          *)
LEMMA QuietMoves ==
  ASSUME CampaignInv, NEW o \in Operator,
         A!Reobserve(o) \/ A!Check(o) \/ A!DoRoutine(o) \/ A!RecoverFault(o)
  PROVE  CampaignInv'
<1>1. /\ doing[o] # None
      /\ A!Kind(o) \in {"reobserve_roles_health_and_backups", "recover_fault"} \cup A!Routine \cup A!Checks
      /\ faults' \subseteq faults
      /\ UNCHANGED <<roles, unhealthy, lease, preflight, plans, attempts, report>>
  BY DEF A!Reobserve, A!Check, A!DoRoutine, A!RecoverFault, A!fleet, A!planning
<1>2. /\ doing[o].at \notin {1, InjectAt(Scen(o)), WaitAt(Scen(o)), RecordAt(Scen(o))}
      /\ doing[o] \in A!Job /\ WorkType
  BY <1>1, KindPlaces DEF CampaignInv, WorkType
<1>3. /\ doing[o].at \in 1..RecordAt(Scen(o))
      /\ InjectAt(Scen(o)) \in Nat /\ WaitAt(Scen(o)) \in Nat /\ RecordAt(Scen(o)) \in Nat
  BY <1>1, <1>2, ActionsAre DEF WorkType
<1>4. doing[o].at \in Nat /\ doing[o].at > 1 /\ doing[o].at < RecordAt(Scen(o))
  BY <1>2, <1>3
<1>5. lease = o /\ Id(A!PlanOf(o), doing[o].step) \notin PassedIn(attempts, doing[o].plan)
  BY <1>1, <1>4 DEF CampaignInv, LeaseIsHeld, HeldStepIsOpen
<1>6. \E failing \in BOOLEAN :
        doing' = [doing EXCEPT ![o] = [plan |-> doing[o].plan, step |-> doing[o].step,
                                       at |-> doing[o].at + 1, failing |-> failing]]
  <2>1. CASE A!Advance(o)
    BY <1>1, <1>2, <2>1, AdvanceIs
  <2>2. CASE A!Check(o)
    BY <2>2 DEF A!Check
  <2> QED
    BY <2>1, <2>2 DEF A!Reobserve, A!DoRoutine, A!RecoverFault
<1>7. FleetType'
  BY <1>1 DEF CampaignInv, FleetType
<1>8. /\ PlansType' /\ WorkType' /\ AttemptsType' /\ ReportType'
      /\ LeaseIsHeld' /\ EarlierHavePassed' /\ HeldStepIsOpen' /\ PassedInOrder'
      /\ doing'[o] # None /\ doing'[o].at = doing[o].at + 1
      /\ A!StepOf(o)' = A!StepOf(o) /\ Scen(o)' = Scen(o)
      /\ \A p \in Operator \ {o} : ~Exposed(p) /\ ~Exposed(p)'
  BY <1>1, <1>4, <1>5, <1>6, <1>7, OperatorGoesOn
<1>9. Exposed(o)' <=> Exposed(o)
  BY <1>1, <1>2, <1>3, <1>4, <1>8 DEF Exposed
<1>10. OnlyTargetSuffers'
  BY <1>1, <1>8, <1>9 DEF CampaignInv, OnlyTargetSuffers, A!AllHealthy
<1> QED
  BY <1>7, <1>8, <1>10 DEF CampaignInv

(* Everything is healthy before an injection, and only the target suffers. *)
LEMMA FaultIsInjected ==
  ASSUME CampaignInv, NEW o \in Operator, A!InjectFault(o)
  PROVE  CampaignInv'
<1> DEFINE target == A!StepOf(o).target
<1>1. /\ doing[o] # None /\ A!Kind(o) = "inject_fault" /\ A!Advance(o)
      /\ faults' = faults \cup {target}
      /\ unhealthy' = [r \in A!Resource |->
              IF A!ScenarioOf(o).lost[r] = 1 THEN unhealthy[r] \cup ({target} \cap Laptop)
              ELSE unhealthy[r]]
      /\ UNCHANGED <<roles, lease, preflight, plans, attempts, report>>
  BY DEF A!InjectFault, A!planning
<1>2. /\ doing[o].at = InjectAt(Scen(o)) /\ WorkType
      /\ target \in Laptop \cup {A!Fleet}
      /\ 1 < InjectAt(Scen(o)) /\ InjectAt(Scen(o)) < WaitAt(Scen(o)) /\ WaitAt(Scen(o)) < RecordAt(Scen(o))
      /\ InjectAt(Scen(o)) \in Nat /\ WaitAt(Scen(o)) \in Nat /\ RecordAt(Scen(o)) \in Nat
  BY <1>1, KindPlaces, KindTellsWhere DEF CampaignInv
<1> HIDE DEF target
<1>3. lease = o /\ Id(A!PlanOf(o), doing[o].step) \notin PassedIn(attempts, doing[o].plan)
  BY <1>1, <1>2 DEF CampaignInv, LeaseIsHeld, HeldStepIsOpen
<1>4. FleetType'
  BY <1>1, <1>2 DEF CampaignInv, FleetType
<1>5. doing[o].failing \in BOOLEAN
      /\ doing' = [doing EXCEPT ![o] = [plan |-> doing[o].plan, step |-> doing[o].step,
                                        at |-> doing[o].at + 1, failing |-> doing[o].failing]]
  BY <1>1, <1>2, AdvanceIs
<1>6. /\ doing[o] # None /\ doing[o].at < RecordAt(Scen(o)) /\ lease \in {o, None} /\ lease' = o
      /\ UNCHANGED <<preflight, plans, attempts, report>>
  BY <1>1, <1>2, <1>3
<1>7. /\ PlansType' /\ WorkType' /\ AttemptsType' /\ ReportType'
      /\ LeaseIsHeld' /\ EarlierHavePassed' /\ HeldStepIsOpen' /\ PassedInOrder'
      /\ doing'[o] # None /\ doing'[o].at = doing[o].at + 1
      /\ A!StepOf(o)' = A!StepOf(o) /\ Scen(o)' = Scen(o)
      /\ \A p \in Operator \ {o} : ~Exposed(p) /\ ~Exposed(p)'
  BY <1>3, <1>4, <1>5, <1>6, OperatorGoesOn
<1>8. ~Exposed(o) /\ Exposed(o)'
  BY <1>1, <1>2, <1>7 DEF Exposed
<1>9. A!AllHealthy
  BY <1>7, <1>8 DEF CampaignInv, OnlyTargetSuffers
<1>10. \A r \in A!Resource : unhealthy'[r] \subseteq {target}
  BY <1>1, <1>9 DEF A!AllHealthy
<1>11. OnlyTargetSuffers'
  BY <1>7, <1>8, <1>10 DEF OnlyTargetSuffers, target
<1> QED
  BY <1>4, <1>7, <1>11 DEF CampaignInv

LEMMA ReadinessIsAwaited ==
  ASSUME CampaignInv, NEW o \in Operator, A!WaitFullReadiness(o)
  PROVE  CampaignInv'
<1>1. /\ doing[o] # None /\ A!Kind(o) = "wait_full_readiness_and_catchup" /\ A!Advance(o) /\ A!AllHealthy
      /\ UNCHANGED <<roles, unhealthy, faults, lease, preflight, plans, attempts, report>>
  BY DEF A!WaitFullReadiness, A!fleet, A!planning
<1>2. /\ doing[o].at = WaitAt(Scen(o)) /\ WorkType
      /\ 1 < InjectAt(Scen(o)) /\ InjectAt(Scen(o)) < WaitAt(Scen(o)) /\ WaitAt(Scen(o)) < RecordAt(Scen(o))
      /\ InjectAt(Scen(o)) \in Nat /\ WaitAt(Scen(o)) \in Nat /\ RecordAt(Scen(o)) \in Nat
  BY <1>1, KindPlaces, KindTellsWhere DEF CampaignInv
<1>3. lease = o /\ Id(A!PlanOf(o), doing[o].step) \notin PassedIn(attempts, doing[o].plan)
  BY <1>1, <1>2 DEF CampaignInv, LeaseIsHeld, HeldStepIsOpen
<1>4. FleetType'
  BY <1>1 DEF CampaignInv, FleetType
<1>5. doing[o].failing \in BOOLEAN
      /\ doing' = [doing EXCEPT ![o] = [plan |-> doing[o].plan, step |-> doing[o].step,
                                        at |-> doing[o].at + 1, failing |-> doing[o].failing]]
  BY <1>1, <1>2, AdvanceIs
<1>6. /\ PlansType' /\ WorkType' /\ AttemptsType' /\ ReportType'
      /\ LeaseIsHeld' /\ EarlierHavePassed' /\ HeldStepIsOpen' /\ PassedInOrder'
  BY <1>1, <1>2, <1>3, <1>4, <1>5, OperatorGoesOn
<1>7. A!AllHealthy'
  BY <1>1 DEF A!AllHealthy
<1>8. OnlyTargetSuffers'
  BY <1>7 DEF OnlyTargetSuffers, A!AllHealthy
<1> QED
  BY <1>4, <1>6, <1>8 DEF CampaignInv

LEMMA PassedGrow ==
  ASSUME NEW log \in Seq(Attempt), NEW a \in Attempt, NEW next, next = Append(log, a)
  PROVE  \A f, st :
           /\ st \in PassedIn(log, f) => st \in PassedIn(next, f)
           /\ st \in PassedIn(next, f) =>
                st \in PassedIn(log, f) \/ (f = a.plan /\ st = a.step)
<1>1. next \in Seq(Attempt)
  OBVIOUS
<1>2. /\ \A i \in DOMAIN log : i \in DOMAIN next /\ next[i] = log[i]
      /\ \A i \in DOMAIN next : i \in DOMAIN log \/ next[i] = a
      /\ \A i \in DOMAIN next : i \in DOMAIN log => next[i] = log[i]
  OBVIOUS
<1>3. \A f, st : st \in PassedIn(next, f) <=>
                  \E i \in DOMAIN next : next[i].plan = f /\ next[i].passed /\ next[i].step = st
  BY <1>1, PassedAre
<1>4. \A f, st : st \in PassedIn(log, f) <=>
                  \E i \in DOMAIN log : log[i].plan = f /\ log[i].passed /\ log[i].step = st
  BY PassedAre
<1>5. ASSUME NEW f, NEW st
      PROVE  st \in PassedIn(log, f) => st \in PassedIn(next, f)
  BY <1>2, <1>3, <1>4
<1>6. ASSUME NEW f, NEW st
      PROVE  st \in PassedIn(next, f) => st \in PassedIn(log, f) \/ (f = a.plan /\ st = a.step)
  BY <1>2, <1>3, <1>4
<1> QED
  BY <1>5, <1>6

(* A step that was open is recorded after the earlier steps of its plan.   *)
LEMMA AttemptIsAdded ==
  ASSUME PlansType, AttemptsType, PassedInOrder, UNCHANGED plans,
         NEW q \in plans, NEW d \in A!Places(q), NEW passed \in BOOLEAN,
         Id(q, d) \notin PassedIn(attempts, q.fingerprint),
         \A m \in A!Places(q) : A!Before(m, d) => Id(q, m) \in PassedIn(attempts, q.fingerprint),
         attempts' = Append(attempts, [plan |-> q.fingerprint, step |-> Id(q, d), passed |-> passed])
  PROVE  /\ AttemptsType' /\ PassedInOrder'
         /\ \A f : PassedIn(attempts, f) \subseteq PassedIn(attempts', f)
<1> DEFINE a == [plan |-> q.fingerprint, step |-> Id(q, d), passed |-> passed]
<1>1. /\ a \in Attempt /\ a.step \in A!StepIds(q)
      /\ a.plan = q.fingerprint /\ a.step = Id(q, d) /\ a.passed = passed
  BY PlanFacts DEF Attempt, PlansType, A!StepIds, Id
<1> HIDE DEF a
<1>2. /\ attempts \in Seq(Attempt) /\ attempts' \in Seq(Attempt) /\ Len(attempts) \in Nat
      /\ DOMAIN attempts = 1..Len(attempts) /\ DOMAIN attempts' = 1..(Len(attempts) + 1)
      /\ \A i \in DOMAIN attempts : attempts'[i] = attempts[i]
      /\ attempts'[Len(attempts) + 1] = a
  BY <1>1 DEF AttemptsType, a
<1> DEFINE k == Len(attempts) + 1
<1>3. \A i \in DOMAIN attempts' : i = k \/ (i \in DOMAIN attempts /\ i < k)
  BY <1>2
<1>4. AttemptsType'
  BY <1>1, <1>2, <1>3 DEF AttemptsType
<1>5. \A f, st :
        /\ st \in PassedIn(attempts, f) => st \in PassedIn(attempts', f)
        /\ st \in PassedIn(attempts', f) =>
             st \in PassedIn(attempts, f) \/ (f = q.fingerprint /\ st = Id(q, d))
  <2>1. attempts \in Seq(Attempt) /\ a \in Attempt /\ attempts' = Append(attempts, a)
    BY <1>1, <1>2 DEF a
  <2>2. \A f, st :
          /\ st \in PassedIn(attempts, f) => st \in PassedIn(attempts', f)
          /\ st \in PassedIn(attempts', f) => st \in PassedIn(attempts, f) \/ (f = a.plan /\ st = a.step)
    BY <2>1, PassedGrow
  <2> QED
    BY <1>1, <2>2
<1>6. ASSUME NEW p \in plans, NEW n \in A!Places(p), Id(p, n) = Id(q, d), p.fingerprint = q.fingerprint
      PROVE  p = q /\ n = d
  BY <1>6, StepIdsDiffer DEF PlansType, Id
<1>7. ASSUME NEW p \in plans, NEW m \in A!Places(p), NEW n \in A!Places(p), A!Before(m, n)
      PROVE  Id(p, n) \in PassedIn(attempts', p.fingerprint) => Id(p, m) \in PassedIn(attempts', p.fingerprint)
  <2>1. CASE Id(p, n) \in PassedIn(attempts, p.fingerprint)
    BY <1>5, <1>7, <2>1 DEF PassedInOrder
  <2>2. CASE p.fingerprint = q.fingerprint /\ Id(p, n) = Id(q, d)
    BY <1>5, <1>6, <1>7, <2>2
  <2> QED
    BY <1>5, <2>1, <2>2
<1>8. ASSUME NEW p \in plans, NEW n \in A!Places(p), Passing(a, p, n)
      PROVE  p = q /\ n = d
  BY <1>1, <1>6, <1>8 DEF Passing
<1>9. ASSUME NEW p \in plans, NEW n \in A!Places(p), NEW i \in DOMAIN attempts, Passing(attempts[i], p, n)
      PROVE  Id(p, n) \in PassedIn(attempts, p.fingerprint)
  BY <1>2, <1>9, PassedAre DEF Passing
<1>10. ASSUME NEW p \in plans, NEW m \in A!Places(p), NEW n \in A!Places(p), A!Before(m, n),
              NEW i \in DOMAIN attempts', NEW j \in DOMAIN attempts',
              Passing(attempts'[i], p, m), Passing(attempts'[j], p, n)
       PROVE  i < j
  <2>1. CASE i \in DOMAIN attempts /\ j \in DOMAIN attempts
    BY <1>2, <1>10, <2>1 DEF PassedInOrder
  <2>2. CASE i \in DOMAIN attempts /\ j = k
    BY <1>2, <2>2
  <2>3. CASE i = k /\ j \in DOMAIN attempts
    <3>1. p = q /\ m = d
      BY <1>2, <1>8, <1>10, <2>3
    <3>2. Id(p, n) \in PassedIn(attempts, p.fingerprint)
      BY <1>2, <1>9, <1>10, <2>3
    <3>3. Id(p, m) \in PassedIn(attempts, p.fingerprint)
      BY <1>10, <3>2 DEF PassedInOrder
    <3> QED
      BY <3>1, <3>3
  <2>4. CASE i = k /\ j = k
    <3>1. p = q /\ m = d /\ n = d
      BY <1>2, <1>8, <1>10, <2>4
    <3>2. d \in Nat \X Nat
      BY PlanFacts DEF PlansType
    <3> QED
      BY <1>10, <3>1, <3>2 DEF A!Before
  <2> QED
    BY <1>3, <2>1, <2>2, <2>3, <2>4
<1>11. PassedInOrder'
  BY <1>7, <1>10 DEF PassedInOrder, Id, Passing
<1> QED
  BY <1>4, <1>5, <1>11

LEMMA ResultIsRecorded ==
  ASSUME CampaignInv, NEW o \in Operator, A!RecordAndRelease(o)
  PROVE  CampaignInv'
<1>1. /\ doing[o] # None /\ A!Kind(o) = "record_reviewed_result_and_release_fault_lease"
      /\ attempts' = Append(attempts, [plan |-> doing[o].plan, step |-> A!StepId(A!StepOf(o)),
                                       passed |-> ~doing[o].failing])
      /\ lease' = None /\ doing' = [doing EXCEPT ![o] = None]
      /\ UNCHANGED <<roles, unhealthy, faults, preflight, plans, report>>
  BY DEF A!RecordAndRelease, A!fleet, A!planning
<1>2. /\ doing[o].at = RecordAt(Scen(o)) /\ WorkType
      /\ A!PlanOf(o) \in plans /\ A!PlanOf(o).fingerprint = doing[o].plan
      /\ doing[o].step \in A!Places(A!PlanOf(o))
      /\ 1 < InjectAt(Scen(o)) /\ InjectAt(Scen(o)) < WaitAt(Scen(o)) /\ WaitAt(Scen(o)) < RecordAt(Scen(o))
      /\ InjectAt(Scen(o)) \in Nat /\ WaitAt(Scen(o)) \in Nat /\ RecordAt(Scen(o)) \in Nat
  BY <1>1, KindPlaces, KindTellsWhere DEF CampaignInv, WorkType
<1>3. lease = o /\ Id(A!PlanOf(o), doing[o].step) \notin PassedIn(attempts, doing[o].plan)
  BY <1>1, <1>2 DEF CampaignInv, LeaseIsHeld, HeldStepIsOpen
<1>4. /\ AttemptsType' /\ PassedInOrder'
      /\ \A f : PassedIn(attempts, f) \subseteq PassedIn(attempts', f)
  <2>1. \A m \in A!Places(A!PlanOf(o)) :
          A!Before(m, doing[o].step) => Id(A!PlanOf(o), m) \in PassedIn(attempts, doing[o].plan)
    BY <1>1 DEF CampaignInv, EarlierHavePassed
  <2>2. A!StepId(A!StepOf(o)) = Id(A!PlanOf(o), doing[o].step) /\ (~doing[o].failing) \in BOOLEAN
    BY DEF A!StepOf, Id
  <2>3. PICK q \in plans : q = A!PlanOf(o)
    BY <1>2
  <2>4. PICK d \in A!Places(q) : d = doing[o].step
    BY <1>2, <2>3
  <2>5. PICK passed \in BOOLEAN : passed = ~doing[o].failing
    BY <2>2
  <2>6. /\ Id(q, d) \notin PassedIn(attempts, q.fingerprint)
        /\ \A m \in A!Places(q) : A!Before(m, d) => Id(q, m) \in PassedIn(attempts, q.fingerprint)
        /\ attempts' = Append(attempts, [plan |-> q.fingerprint, step |-> Id(q, d), passed |-> passed])
    BY <1>1, <1>2, <1>3, <2>1, <2>2, <2>3, <2>4, <2>5
  <2> QED
    BY <1>1, <2>6, AttemptIsAdded DEF CampaignInv
<1>5. PlansType'
  <2>1. \A p \in Operator : doing[p] = None => doing'[p] = None
    BY <1>1, <1>2 DEF WorkType
  <2> QED
    BY <1>1, <2>1 DEF CampaignInv, PlansType
<1>6. /\ doing'[o] = None
      /\ \A p \in Operator \ {o} :
           /\ doing'[p] = doing[p]
           /\ doing[p] # None => /\ A!PlanOf(p)' = A!PlanOf(p)
                                 /\ A!StepOf(p)' = A!StepOf(p) /\ Scen(p)' = Scen(p)
           /\ Exposed(p)' <=> Exposed(p)
  BY <1>1, <1>2, <1>5, OtherOperators
<1>7. FleetType' /\ ReportType'
  BY <1>1 DEF CampaignInv, FleetType, ReportType
<1>8. \A p \in Operator : doing'[p] # None =>
        p # o /\ doing'[p] = doing[p] /\ A!PlanOf(p)' = A!PlanOf(p) /\ Scen(p)' = Scen(p)
  BY <1>6
<1>9. WorkType'
  <2>1. doing' \in [Operator -> A!Job \cup {None}]
    BY <1>1, <1>2 DEF WorkType
  <2> QED
    BY <1>1, <1>8, <2>1 DEF CampaignInv, WorkType
<1>10. LeaseIsHeld' /\ HeldStepIsOpen'
  <2>1. \A p \in Operator : doing'[p] # None => ~(doing'[p].at > 1)
    BY <1>3, <1>8 DEF CampaignInv, LeaseIsHeld
  <2> QED
    BY <2>1 DEF LeaseIsHeld, HeldStepIsOpen
<1>11. OnlyTargetSuffers'
  <2>1. ~Exposed(o) /\ ~Exposed(o)'
    BY <1>2, <1>6 DEF Exposed
  <2>2. \A p \in Operator : Exposed(p)' => Exposed(p) /\ A!StepOf(p)' = A!StepOf(p)
    BY <1>6, <2>1 DEF Exposed
  <2> QED
    BY <1>1, <1>6, <2>1, <2>2 DEF CampaignInv, OnlyTargetSuffers, A!AllHealthy
<1>12. EarlierHavePassed'
  BY <1>4, <1>8 DEF CampaignInv, EarlierHavePassed, Id
<1> QED
  BY <1>4, <1>5, <1>7, <1>9, <1>10, <1>11, <1>12 DEF CampaignInv

(* Three references are at least one.                                      *)
LEMMA ResultsAreAccepted ==
  ASSUME CampaignInv, A!AcceptResults
  PROVE  CampaignInv'
<1>1. PICK p, q, mode, entries :
        /\ p \in plans /\ q \in plans
        /\ A!ValidResults(p, [mode |-> mode, fingerprint |-> q.fingerprint, entries |-> entries])
        /\ report' = [against |-> p.fingerprint, fingerprint |-> q.fingerprint,
                      vouched |-> [id \in DOMAIN entries |-> {r[1] : r \in entries[id].proofs}]]
        /\ UNCHANGED <<roles, unhealthy, faults, preflight, plans, lease, doing, attempts>>
  BY DEF A!AcceptResults, A!fleet, A!planning
<1>2. /\ p.fingerprint = q.fingerprint /\ DOMAIN entries = A!StepIds(p)
      /\ \A id \in A!StepIds(p) : A!Cardinality(entries[id].proofs) >= 3
  BY <1>1 DEF A!ValidResults, A!ProofList
<1>3. \A id \in A!StepIds(p) : entries[id].proofs # {}
  <2>1. \A set : A!Cardinality(set) = Cardinality(set)
    BY DEF A!Cardinality, Cardinality
  <2>2. A!Cardinality({}) = 0
    BY <2>1, FS_EmptySet
  <2>3. ASSUME NEW id \in A!StepIds(p), entries[id].proofs = {}
        PROVE  FALSE
    <3>1. A!Cardinality(entries[id].proofs) = 0
      BY <2>2, <2>3
    <3> QED
      BY <1>2, <3>1
  <2> QED
    BY <2>3
<1>4. ReportType'
  <2>1. /\ report'.against = p.fingerprint /\ report'.fingerprint = q.fingerprint
        /\ report'.vouched = [id \in A!StepIds(p) |-> {r[1] : r \in entries[id].proofs}]
    BY <1>1, <1>2
  <2>2. \A id \in A!StepIds(p) : report'.vouched[id] # {}
    BY <1>3, <2>1
  <2> QED
    BY <1>1, <1>2, <2>1, <2>2 DEF ReportType
<1>5. PlansType'
  BY <1>1 DEF CampaignInv, PlansType
<1>6. \A o \in Operator :
        /\ doing[o] # None => /\ A!PlanOf(o)' = A!PlanOf(o)
                              /\ A!StepOf(o)' = A!StepOf(o) /\ Scen(o)' = Scen(o)
        /\ Exposed(o)' <=> Exposed(o)
  BY <1>1, <1>5, SameJob DEF CampaignInv
<1>7. FleetType' /\ WorkType' /\ AttemptsType' /\ LeaseIsHeld'
  BY <1>1, <1>6 DEF CampaignInv, FleetType, WorkType, AttemptsType, LeaseIsHeld
<1>8. EarlierHavePassed' /\ HeldStepIsOpen' /\ PassedInOrder'
  BY <1>1, <1>6 DEF CampaignInv, EarlierHavePassed, HeldStepIsOpen, PassedInOrder
<1>9. OnlyTargetSuffers'
  <2>1. \A o \in Operator : Exposed(o) => doing[o] # None
    BY DEF Exposed
  <2> QED
    BY <1>1, <1>6, <2>1 DEF CampaignInv, OnlyTargetSuffers, A!AllHealthy
<1> QED
  BY <1>4, <1>5, <1>7, <1>8, <1>9 DEF CampaignInv

LEMMA CampaignStep ==
  ASSUME CampaignInv, A!Next
  PROVE  CampaignInv'
BY ElectionAndCatchUp, PreflightMoves, PlanIsBuilt, StepIsTaken, LeaseIsTried, QuietMoves,
   FaultIsInjected, ReadinessIsAwaited, ResultIsRecorded, ResultsAreAccepted DEF A!Next

LEMMA CampaignIdles ==
  ASSUME CampaignInv, UNCHANGED campaign
  PROVE  CampaignInv'
<1>1. UNCHANGED <<roles, unhealthy, faults, elections, preflight,
                  plans, lease, doing, attempts, report>>
  BY DEF campaign
<1>2. FleetType'
  BY <1>1 DEF CampaignInv, FleetType
<1> QED
  BY <1>1, <1>2, FleetMoves

LEMMA CampaignHolds == EvidenceSpec => [](part = "campaign" => CampaignInv)
<1> DEFINE Inv == part = "campaign" => CampaignInv
<1>1. EvidenceInit => Inv
  BY CampaignInit DEF EvidenceInit
<1>2. Inv /\ [EvidenceNext]_<<part, clock, others>> => Inv'
  <2>1. CASE UNCHANGED <<part, clock, others>>
    BY <2>1, CampaignIdles DEF others
  <2>2. CASE EvidenceNext
    BY <2>2, CampaignStep DEF EvidenceNext
  <2> QED
    BY <2>1, <2>2
<1> QED
  BY <1>1, <1>2, PTL DEF EvidenceSpec

LEMMA OnlyOneIsLost ==
  ASSUME CampaignInv
  PROVE  A!TypeOK /\ A!TwoOfThreeStayHealthy
<1> USE DEF CampaignInv
<1>1. A!TypeOK
  <2>1. /\ roles \in [A!RoleName -> Laptop] /\ unhealthy \in [A!Resource -> SUBSET Laptop]
        /\ faults \subseteq Laptop \cup {A!Fleet}
        /\ lease \in Operator \cup {None} /\ doing \in [Operator -> A!Job \cup {None}]
    BY DEF FleetType, WorkType
  <2>2. \A o \in Operator : doing[o] # None =>
          /\ \E p \in plans : p.fingerprint = doing[o].plan
          /\ doing[o].step \in A!Places(A!PlanOf(o))
          /\ doing[o].at \in DOMAIN A!At(A!PlanOf(o), doing[o].step).actions
    BY KindTellsWhere DEF WorkType, A!StepOf
  <2>3. \A a \in A!Range(attempts) :
          \E p \in plans : p.fingerprint = a.plan /\ a.step \in A!StepIds(p)
    BY DEF AttemptsType, A!Range
  <2>4. \A p \in plans :
          {a.step : a \in {x \in A!Range(attempts) : x.plan = p.fingerprint}} \subseteq A!StepIds(p)
    BY <2>3 DEF PlansType
  <2> QED
    BY <2>1, <2>2, <2>3, <2>4 DEF A!TypeOK
<1>2. ASSUME NEW r \in A!Resource
      PROVE  A!Cardinality(Laptop \ unhealthy[r]) >= 2
  <2>1. PICK c \in Laptop : unhealthy[r] \subseteq {c}
    <3>1. unhealthy[r] \subseteq Laptop
      BY DEF FleetType
    <3>2. CASE \E o \in Operator : Exposed(o)
      <4>1. PICK o \in Operator : Exposed(o)
        BY <3>2
      <4>2. unhealthy[r] \subseteq {A!StepOf(o).target}
        BY <4>1 DEF OnlyTargetSuffers
      <4>3. A!StepOf(o).target \in Laptop \cup {A!Fleet}
        BY <4>1, KindTellsWhere DEF Exposed
      <4> QED
        BY <3>1, <4>2, <4>3, ThreeLaptops, CampaignConstants
    <3>3. CASE \A o \in Operator : ~Exposed(o)
      BY <3>3, ThreeLaptops DEF OnlyTargetSuffers, A!AllHealthy
    <3> QED
      BY <3>2, <3>3
  <2>2. IsFiniteSet(Laptop) /\ Cardinality(Laptop) = 3
    BY CampaignConstants
  <2>3. IsFiniteSet(Laptop \ {c}) /\ Cardinality(Laptop \ {c}) = 2
    BY <2>1, <2>2, FS_RemoveElement
  <2>4. Laptop \ {c} \subseteq Laptop \ unhealthy[r] /\ IsFiniteSet(Laptop \ unhealthy[r])
    BY <2>1, <2>2, FS_Subset
  <2>5. Cardinality(Laptop \ unhealthy[r]) \in Nat /\ Cardinality(Laptop \ unhealthy[r]) >= 2
    BY <2>3, <2>4, FS_Subset, FS_CardinalityType
  <2>6. A!Cardinality(Laptop \ unhealthy[r]) = Cardinality(Laptop \ unhealthy[r])
    BY DEF A!Cardinality, Cardinality
  <2> QED
    BY <2>5, <2>6
<1> QED
  BY <1>1, <1>2 DEF A!TwoOfThreeStayHealthy

(* Every fault of a campaign leaves two of three voters, members and       *)
(* origins healthy, whatever is planned, repeated or fails: the order of   *)
(* actionsForStep and the exclusive lease are what it rests on, for any    *)
(* number of operators and any valid campaign file.                        *)
THEOREM FleetStaysHealthy == EvidenceSpec => []FleetKeepsQuorum
<1>1. CampaignInv => A!TypeOK /\ A!TwoOfThreeStayHealthy
  BY OnlyOneIsLost
<1> QED
  BY <1>1, CampaignHolds, PTL DEF FleetKeepsQuorum

LEMMA LeaderWaits ==
  ASSUME CampaignInv
  PROVE  A!ObservedLeaderGoesLast
<1> SUFFICES ASSUME NEW o \in Operator, doing[o] # None,
                    A!StepOf(o).target = A!PlanOf(o).roles["fiducia"]
             PROVE  /\ A!ScenarioOf(o).scope = "per-cluster"
                    /\ (A!ScenarioOf(o).leaderSensitive
                        /\ A!ScenarioOf(o).plane \in A!SharedPlanes \cup {"fiducia"}) =>
                         \A c \in Laptop \ {A!StepOf(o).target} :
                           <<A!ScenarioOf(o).id, c>> \in A!Passed(A!PlanOf(o))
  BY DEF A!ObservedLeaderGoesLast, A!Injected
<1>1. PICK p \in plans : p = A!PlanOf(o) /\ p.fingerprint = doing[o].plan
  BY PlanIsHeld DEF CampaignInv, WorkType
<1>2. PICK n \in A!Places(p) : n = doing[o].step
  BY <1>1 DEF CampaignInv, WorkType
<1>3. IsPlan(p)
  BY DEF CampaignInv, PlansType
<1>4. A!StepOf(o) = A!At(p, n) /\ A!ScenarioOf(o) = A!At(p, n).scenario
  BY <1>1, <1>2 DEF A!StepOf, A!ScenarioOf
<1>5. \A m \in A!Places(p) : A!Before(m, n) => A!StepId(A!At(p, m)) \in A!Passed(p)
  BY <1>1, <1>2, PassedOfPlan DEF CampaignInv, EarlierHavePassed, Id
<1> QED
  BY <1>1, <1>3, <1>4, <1>5, LeaderSteps

(* A scenario that a leader's state depends on reaches the Fiducia leader  *)
(* the plan was built for only after it has passed on both other laptops,  *)
(* under whatever re-planning and repetition: the sort by leaderScore and  *)
(* the rule that the first open step is next.                              *)
THEOREM LeaderIsFaultedLast == EvidenceSpec => []ObservedLeaderGoesLast
<1>1. CampaignInv => A!ObservedLeaderGoesLast
  BY LeaderWaits
<1> QED
  BY <1>1, CampaignHolds, PTL DEF ObservedLeaderGoesLast

(* References that are truthful are of passed attempts, which are in the    *)
(* order of the plan because each was recorded after the earlier steps.    *)
LEMMA TruthfulFollow ==
  ASSUME CampaignInv
  PROVE  A!TruthfulResultsFollowThePlan
<1> SUFFICES ASSUME report # None, A!Truthful(report)
             PROVE  \E p \in plans :
                      /\ p.fingerprint = report.against
                      /\ DOMAIN report.vouched = A!StepIds(p)
                      /\ \A id \in A!StepIds(p) : report.vouched[id] # {}
                      /\ \A m, n \in A!Places(p) : A!Before(m, n) =>
                           \A i \in report.vouched[A!StepId(A!At(p, m))],
                              j \in report.vouched[A!StepId(A!At(p, n))] : i < j
  BY DEF A!TruthfulResultsFollowThePlan
<1>1. PICK p \in plans :
        /\ p.fingerprint = report.against /\ report.fingerprint = report.against
        /\ DOMAIN report.vouched = A!StepIds(p)
        /\ \A id \in A!StepIds(p) : report.vouched[id] # {}
  BY DEF CampaignInv, ReportType
<1>2. ASSUME NEW n \in A!Places(p), NEW i \in report.vouched[Id(p, n)]
      PROVE  i \in DOMAIN attempts /\ Passing(attempts[i], p, n)
  <2>1. Id(p, n) \in DOMAIN report.vouched
    BY <1>1 DEF A!StepIds, Id
  <2> QED
    BY <1>1, <1>2, <2>1 DEF A!Truthful, Passing
<1>3. ASSUME NEW m \in A!Places(p), NEW n \in A!Places(p), A!Before(m, n),
             NEW i \in report.vouched[Id(p, m)], NEW j \in report.vouched[Id(p, n)]
      PROVE  i < j
  BY <1>2, <1>3 DEF CampaignInv, PassedInOrder
<1> QED
  BY <1>1, <1>3 DEF Id

(* Where the references of accepted results are truthful, the plan they    *)
(* were checked against was carried out from its first step to its last in *)
(* its order, for any number of operators holding any of the plans.        *)
(* validate-laptop-acceptance-results.mjs does not ask for it, as it never *)
(* compares the times of two steps: the rule that the first open step is   *)
(* next and the lease bring it about.                                      *)
THEOREM ResultsAreEarned == EvidenceSpec => []TruthfulResultsFollowThePlan
<1>1. CampaignInv => A!TruthfulResultsFollowThePlan
  BY TruthfulFollow
<1> QED
  BY <1>1, CampaignHolds, PTL DEF TruthfulResultsFollowThePlan
=============================================================================
