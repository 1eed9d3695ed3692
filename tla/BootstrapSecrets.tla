---------------------------- MODULE BootstrapSecrets ----------------------------
(***************************************************************************)
(* tools/validate-fiducia-bootstrap-secret-readiness.mjs, and the facts    *)
(* its evidence reports (external): secrets rotated in the cloud store,    *)
(* copied by an ExternalSecret into each cluster when its controller       *)
(* refreshes.  The clusters are read one after the other, the verdict      *)
(* comes later.  A value is known by its number in the row of rotations.   *)
(***************************************************************************)
EXTENDS Naturals, SequencesExt

CONSTANTS
  Cluster, Object,   \* bootstrap/fiducia-secret-contract.json
  None,
  MaxRotationAge, MaxRefreshAge, MaxObservationAge,   \* the same
  AllowExample, MaxTime

VARIABLES
  now,
  cloud,     \* [Object -> times at which its values were set, first to latest]
  held,      \* [Cluster -> [Object -> value materialised and when, or None]]
  evidence,  \* what was read so far, or None
  accepted   \* history: the first eligible decision, or None

vars == <<now, cloud, held, evidence, accepted>>
Time == 0..MaxTime

Secret == [value : Nat \ {0}, refreshedAt : Time]
Held == [Object -> Secret \cup {None}]
Reading == [observedAt : Time, rotatedAt : [Object -> Time], clusters : [Cluster -> Held \cup {None}]]

TypeOK ==
  /\ now \in Time
  /\ cloud \in [Object -> Seq(Time)] /\ \A o \in Object : cloud[o] # <<>>
  /\ held \in [Cluster -> Held]
  /\ evidence \in Reading \cup {None}
  /\ accepted # None => accepted.at \in 0..now /\ accepted.seen.clusters \in [Cluster -> Held]

Init ==
  /\ now = 0
  /\ cloud = [o \in Object |-> <<0>>]
  /\ held = [c \in Cluster |-> [o \in Object |-> None]]
  /\ evidence = None /\ accepted = None

-----------------------------------------------------------------------------
Tick ==
  /\ accepted = None /\ now < MaxTime
  /\ now' = now + 1
  /\ UNCHANGED <<cloud, held, evidence, accepted>>

Rotate(o) ==
  /\ accepted = None /\ Last(cloud[o]) < now
  /\ cloud' = [cloud EXCEPT ![o] = Append(@, now)]
  /\ UNCHANGED <<now, held, evidence, accepted>>

Refresh(c, o) ==
  /\ accepted = None
  /\ held' = [held EXCEPT ![c][o] = [value |-> Len(cloud[o]), refreshedAt |-> now]]
  /\ UNCHANGED <<now, cloud, evidence, accepted>>

(* The time of the observation is written down when the reading begins, or *)
(* again with each cluster that is read.                                   *)
BeginReading ==
  /\ evidence = None /\ accepted = None
  /\ evidence' = [observedAt |-> now, rotatedAt |-> [o \in Object |-> Last(cloud[o])],
                  clusters |-> [c \in Cluster |-> None]]
  /\ UNCHANGED <<now, cloud, held, accepted>>

ReadCluster(c) ==
  /\ evidence # None /\ evidence.clusters[c] = None
  /\ \E at \in {evidence.observedAt, now} :
       evidence' = [evidence EXCEPT !.clusters[c] = held[c], !.observedAt = at]
  /\ UNCHANGED <<now, cloud, held, accepted>>

-----------------------------------------------------------------------------
(* Facts that are fixed for a document - key names, lengths, owners,       *)
(* stores, proofs, findings - are one Boolean, sound; its approvals are in *)
(* order, before the observation or both by one person.                    *)
Documents ==
  [mode : {"example", "live"}, sound : BOOLEAN, approvals : {"given", "early", "one person"}]

ValidSecretContract ==
  {MaxObservationAge, MaxRefreshAge, MaxRotationAge} \subseteq Nat \ {0}

ValidCloudObjects ==
  \A o \in Object :
    /\ evidence.rotatedAt[o] <= evidence.observedAt
    /\ evidence.observedAt - evidence.rotatedAt[o] <= MaxRotationAge

(* Mutant of ValidClusterReadiness: the age of a refresh is not bounded.   *)
ReadyHoweverOld ==
  \A c \in Cluster : evidence.clusters[c] # None /\
    \A o \in Object :
      evidence.clusters[c][o] # None
        /\ evidence.clusters[c][o].refreshedAt <= evidence.observedAt

ValidClusterReadiness ==
  \A c \in Cluster : evidence.clusters[c] # None /\
    \A o \in Object :
      LET secret == evidence.clusters[c][o]
      IN  /\ secret # None
          /\ secret.refreshedAt <= evidence.observedAt
          /\ evidence.observedAt - secret.refreshedAt <= MaxRefreshAge

ValidApprovals(doc) == doc.approvals = "given"

ValidBootstrapSecretReadiness(doc) ==
  /\ ValidSecretContract
  /\ doc.mode = "example" => AllowExample
  /\ evidence.observedAt <= now
  /\ doc.mode = "live" => now - evidence.observedAt <= MaxObservationAge
  /\ ValidCloudObjects
  /\ ValidClusterReadiness
  /\ doc.sound
  /\ ValidApprovals(doc)

Validate ==
  /\ evidence # None /\ accepted = None
  /\ \E doc \in Documents : ValidBootstrapSecretReadiness(doc) /\ doc.mode = "live"
  /\ accepted' = [at |-> now, seen |-> evidence]
  /\ UNCHANGED <<now, cloud, held, evidence>>

Next ==
  \/ Tick \/ BeginReading \/ Validate
  \/ \E o \in Object : Rotate(o)
  \/ \E c \in Cluster, o \in Object : Refresh(c, o)
  \/ \E c \in Cluster : ReadCluster(c)

-----------------------------------------------------------------------------
(* A cluster found ready holds no value that was replaced in the cloud     *)
(* longer ago than a refresh and an observation may take together, though  *)
(* clusters are read at different times and rotations go on.               *)
HeldValuesAreRecent ==
  accepted # None =>
    \A c \in Cluster, o \in Object :
      LET value == accepted.seen.clusters[c][o].value
      IN  value < Len(cloud[o])
            => accepted.at - cloud[o][value + 1] <= MaxRefreshAge + MaxObservationAge
=============================================================================
