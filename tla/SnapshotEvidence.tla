---------------------------- MODULE SnapshotEvidence ----------------------------
(***************************************************************************)
(* tools/verify-etcd-snapshot-evidence.mjs, and what the list it judges    *)
(* reports of one cluster (external): K3s takes snapshots, copies them to  *)
(* S3 - late, again, cut short -, prunes either side.  The list is read at *)
(* one moment and judged later.                                            *)
(***************************************************************************)
EXTENDS Naturals, FiniteSetsExt

CONSTANTS
  Name, Size, None,   \* snapshot names; Size: 1..n, a whole snapshot has the largest
  MaxAge, MaxSkew,    \* --max-age-hours, and the five minutes between two copies
  MaxTime

VARIABLES
  now,
  token,     \* hash of the cluster's current token
  local,     \* snapshot files on the node
  remote,    \* objects in the bucket
  taken,     \* history: [Name -> time and token of the snapshot, or None]
  evidence,  \* the list that was read, or None
  accepted   \* history: the first pair that was found good, or None

vars == <<now, token, local, remote, taken, evidence, accepted>>
Time == 0..MaxTime
Whole == Max(Size)
Gap(s, t) == IF s < t THEN t - s ELSE s - t

Item == [name : Name, size : Size, createdAt : Time, token : BOOLEAN \cup {None}]
Taken == [at : Time, token : BOOLEAN]
List == [local : SUBSET Item, remote : SUBSET Item]

TypeOK ==
  /\ now \in Time /\ token \in BOOLEAN
  /\ local \subseteq Item /\ remote \subseteq Item
  /\ taken \in [Name -> Taken \cup {None}]
  /\ evidence \in List \cup {None}
  /\ \A item \in local \cup remote : taken[item.name] # None /\ taken[item.name].at <= item.createdAt
  /\ \A s, t \in remote : s.name = t.name => s = t
  /\ accepted # None => accepted.file \in evidence.local /\ accepted.object \in evidence.remote

Init ==
  /\ now = 0 /\ token = FALSE
  /\ local = {} /\ remote = {}
  /\ taken = [n \in Name |-> None]
  /\ evidence = None /\ accepted = None

-----------------------------------------------------------------------------
Unread == evidence = None /\ accepted = None

Tick ==
  /\ accepted = None /\ now < MaxTime
  /\ now' = now + 1
  /\ UNCHANGED <<token, local, remote, taken, evidence, accepted>>

RotateToken ==
  /\ Unread /\ token' = ~token
  /\ UNCHANGED <<now, local, remote, taken, evidence, accepted>>

TakeSnapshot(n) ==
  /\ Unread /\ taken[n] = None
  /\ taken' = [taken EXCEPT ![n] = [at |-> now, token |-> token]]
  /\ local' = local \cup {[name |-> n, size |-> Whole, createdAt |-> now, token |-> token]}
  /\ UNCHANGED <<now, token, remote, evidence, accepted>>

(* A copy is dated when it is made, replaces an earlier one, may be short  *)
(* and may lack the annotation.                                            *)
Upload(file, size, hash) ==
  /\ Unread /\ hash \in {file.token, None}
  /\ remote' = {r \in remote : r.name # file.name}
       \cup {[name |-> file.name, size |-> size, createdAt |-> now, token |-> hash]}
  /\ UNCHANGED <<now, token, local, taken, evidence, accepted>>

Prune(item) ==
  /\ Unread
  /\ local' = local \ {item} /\ remote' = remote \ {item}
  /\ UNCHANGED <<now, token, taken, evidence, accepted>>

(* ready, of the right node, kind and location: what is not, is not here.  *)
CaptureList ==
  /\ Unread
  /\ evidence' = [local |-> local, remote |-> remote]
  /\ UNCHANGED <<now, token, local, remote, taken, accepted>>

-----------------------------------------------------------------------------
(* Mutant of Matches: the sizes are not compared.                          *)
MatchesAnySize(file, object) ==
  /\ file.name = object.name
  /\ Gap(file.createdAt, object.createdAt) <= MaxSkew
  /\ file.token # None /\ file.token = object.token

Matches(file, object) ==
  /\ file.name = object.name /\ file.size = object.size
  /\ Gap(file.createdAt, object.createdAt) <= MaxSkew
  /\ file.token # None /\ file.token = object.token

Created(pair) == Max({pair.file.createdAt, pair.object.createdAt})

verifySnapshotEvidence ==
  /\ evidence # None /\ accepted = None
  /\ LET pairs == {[file |-> f, object |-> o] : f \in evidence.local, o \in evidence.remote}
         good == {p \in pairs : Matches(p.file, p.object)}
     IN  \E latest \in good :
           /\ \A p \in good : Created(p) <= Created(latest)
           /\ now - Created(latest) <= MaxAge
           /\ accepted' = [at |-> now, file |-> latest.file, object |-> latest.object]
  /\ UNCHANGED <<now, token, local, remote, taken, evidence>>

Next ==
  \/ Tick \/ RotateToken \/ CaptureList \/ verifySnapshotEvidence
  \/ \E n \in Name : TakeSnapshot(n)
  \/ \E file \in local, size \in Size, hash \in BOOLEAN \cup {None} : Upload(file, size, hash)
  \/ \E item \in local \cup remote : Prune(item)

-----------------------------------------------------------------------------
(* A cluster that passed can be rebuilt from the bucket alone: the object  *)
(* is a whole snapshot, its token is known, and the state in it is no      *)
(* older than the age allowed plus the gap between the copies - however    *)
(* late, often or badly it was uploaded.                                   *)
BucketRestoresRecentState ==
  accepted # None =>
    LET object == accepted.object
    IN  /\ object.size = Whole /\ object.token = taken[object.name].token
        /\ accepted.at - taken[object.name].at <= MaxAge + MaxSkew
=============================================================================
