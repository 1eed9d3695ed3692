----------------------------- MODULE DurabilityGate -----------------------------
(***************************************************************************)
(* tools/validate-fiducia-raft-durability-evidence.mjs, and the facts its  *)
(* evidence reports (external): a keyring that rotates, backups stored     *)
(* some time after they were taken, a clean-room restore.  The evidence is *)
(* read at one moment and judged later, and what it says may have aged or  *)
(* been overtaken in between.                                              *)
(***************************************************************************)
EXTENDS Naturals

CONSTANTS
  Key, Workload, None,
  MaxObservationAge, MaxBackupAge, MaxRestoreAge,   \* durability/fiducia-raft-policy.toml
  AllowTemporaryLocalPath, RequireDistinctReviewer, \* the same
  AllowExample,   \* whether the tool is given --allow-example
  MaxTime         \* bound of the clock

VARIABLES
  now,
  ring,      \* [active, required]: key ids, as the custodians list them
  live,      \* keys the live values are encrypted with
  backups,   \* [Workload -> latest snapshot and when it was stored, or None]
  restore,   \* the latest clean-room restore, or None
  evidence,  \* what was read of all this and when, or None
  accepted   \* history: the first eligible decision, or None

world == <<ring, live, backups, restore>>
vars == <<now, world, evidence, accepted>>

Time == 0..MaxTime

Ring == [active : Key, required : SUBSET Key]
Backup == [createdAt : Time, successAt : Time \cup {None},
           active : Key, required : SUBSET Key, needs : SUBSET Key]
Restore == [startedAt : Time, completedAt : Time \cup {None}, keys : SUBSET Key]
Reading == [observedAt : Time, ring : Ring, live : SUBSET Key,
            backups : [Workload -> Backup], restore : Restore]

TypeOK ==
  /\ now \in Time
  /\ ring \in Ring /\ ring.active \in ring.required
  /\ ring.active \in live /\ live \subseteq ring.required
  /\ backups \in [Workload -> Backup \cup {None}]
  /\ \A w \in Workload : backups[w] # None => backups[w].needs \subseteq backups[w].required
  /\ restore \in Restore \cup {None}
  /\ restore # None => restore.completedAt = None \/ restore.startedAt < restore.completedAt
  /\ evidence \in Reading \cup {None}
  /\ accepted # None => accepted.seen \in Reading /\ accepted.decision # "example-only"

Init ==
  /\ now = 0
  /\ \E k \in Key : ring = [active |-> k, required |-> {k}] /\ live = {k}
  /\ backups = [w \in Workload |-> None]
  /\ restore = None /\ evidence = None /\ accepted = None

-----------------------------------------------------------------------------
(* What happens to the system after the reading changes no verdict on the  *)
(* reading, so it is left out.                                             *)
Unread == evidence = None /\ accepted = None

Tick ==
  /\ accepted = None /\ now < MaxTime
  /\ now' = now + 1
  /\ UNCHANGED <<world, evidence, accepted>>

Rotate(k) ==
  /\ Unread /\ k \notin ring.required
  /\ ring' = [active |-> k, required |-> ring.required \cup {k}]
  /\ live' = live \cup {k}
  /\ UNCHANGED <<now, backups, restore, evidence, accepted>>

Reencrypt ==
  /\ Unread /\ live # {ring.active}
  /\ live' = {ring.active}
  /\ UNCHANGED <<now, ring, backups, restore, evidence, accepted>>

(* Nothing stops a custodian who forgets about the backups.                *)
Retire(k) ==
  /\ Unread /\ k \in ring.required \ live
  /\ ring' = [ring EXCEPT !.required = @ \ {k}]
  /\ UNCHANGED <<now, live, backups, restore, evidence, accepted>>

TakeSnapshot(w) ==
  /\ Unread
  /\ backups' = [backups EXCEPT ![w] =
       [createdAt |-> now, successAt |-> None,
        active |-> ring.active, required |-> ring.required, needs |-> live]]
  /\ UNCHANGED <<now, ring, live, restore, evidence, accepted>>

Stored(w) == backups[w] # None /\ backups[w].successAt # None

StoreBackup(w) ==
  /\ Unread /\ backups[w] # None /\ ~Stored(w)
  /\ backups' = [backups EXCEPT ![w].successAt = now]
  /\ UNCHANGED <<now, ring, live, restore, evidence, accepted>>

(* A restore is handed some keys; it completes if the backups need no other. *)
BeginRestore(keys) ==
  /\ Unread /\ restore = None
  /\ \A w \in Workload : Stored(w) /\ backups[w].needs \subseteq keys
  /\ restore' = [startedAt |-> now, completedAt |-> None, keys |-> keys]
  /\ UNCHANGED <<now, ring, live, backups, evidence, accepted>>

CompleteRestore ==
  /\ Unread /\ restore # None /\ restore.completedAt = None /\ now > restore.startedAt
  /\ restore' = [restore EXCEPT !.completedAt = now]
  /\ UNCHANGED <<now, ring, live, backups, evidence, accepted>>

Observe ==
  /\ Unread
  /\ \A w \in Workload : Stored(w)
  /\ restore # None /\ restore.completedAt # None
  /\ evidence' = [observedAt |-> now, ring |-> ring, live |-> live,
                  backups |-> backups, restore |-> restore]
  /\ UNCHANGED <<now, world, accepted>>

-----------------------------------------------------------------------------
(* Around the facts a document has a mode, a classification, a storage     *)
(* class, a campaign and approvals, which are in order, early or both by   *)
(* one person.  What is fixed for a document - sizes, latencies, proofs,   *)
(* scenarios, findings - is one Boolean, sound.                            *)
Documents ==
  [mode : {"example", "live"}, substrate : {"temporary-laptop", "durable-provider"},
   localPath : BOOLEAN, sound : BOOLEAN, startedAt : 0..evidence.observedAt,
   endedAt : {evidence.observedAt, now}, approvals : {"given", "early", "one person"}]

(* Any policy that loads will do: its numbers are naturals, its switches   *)
(* Booleans; the rest of it is fixed with the document.                    *)
ValidDurabilityPolicy ==
  /\ {MaxObservationAge, MaxBackupAge, MaxRestoreAge} \subseteq Nat
  /\ AllowTemporaryLocalPath \in BOOLEAN /\ RequireDistinctReviewer \in BOOLEAN

ValidWorkloadStorage(doc) ==
  doc.localPath => AllowTemporaryLocalPath /\ doc.substrate = "temporary-laptop"

(* Mutant of ValidBackup: the keys of the manifest are not compared.       *)
ValidBackupAnyKeys(b) ==
  b.successAt <= now /\ now - b.successAt <= MaxBackupAge /\ b.createdAt <= b.successAt

ValidBackup(b) ==
  /\ b.successAt <= now /\ now - b.successAt <= MaxBackupAge
  /\ b.createdAt <= b.successAt
  /\ b.active = evidence.ring.active /\ b.required = evidence.ring.required

ValidRestore(doc) ==
  LET r == evidence.restore
  IN  /\ r.startedAt < r.completedAt /\ r.completedAt <= now
      /\ now - r.completedAt <= MaxRestoreAge
      /\ r.keys = evidence.ring.required
      /\ doc.startedAt <= r.startedAt /\ r.completedAt <= doc.endedAt

ValidApprovals(doc) ==
  /\ doc.approvals # "early"
  /\ RequireDistinctReviewer => doc.approvals # "one person"

ValidDurabilityEvidence(doc) ==
  /\ ValidDurabilityPolicy
  /\ doc.mode = "example" => AllowExample
  /\ doc.startedAt < doc.endedAt
  /\ doc.endedAt <= evidence.observedAt /\ evidence.observedAt <= now
  /\ doc.mode = "live" => now - evidence.observedAt <= MaxObservationAge
  /\ ValidWorkloadStorage(doc)
  /\ \A w \in Workload : ValidBackup(evidence.backups[w])
  /\ ValidRestore(doc)
  /\ doc.sound
  /\ ValidApprovals(doc)

Decision(doc) ==
  IF doc.mode = "example" THEN "example-only"
  ELSE IF doc.substrate = "temporary-laptop"
       THEN "eligible-temporary-laptop-with-restore-dependency"
       ELSE "eligible-durable-provider"

Validate ==
  /\ evidence # None /\ accepted = None
  /\ \E doc \in Documents :
       /\ ValidDurabilityEvidence(doc) /\ Decision(doc) # "example-only"
       /\ accepted' = [at |-> now, decision |-> Decision(doc), seen |-> evidence]
  /\ evidence' = None
  /\ UNCHANGED <<now, world>>

(* A refused reading is thrown away.                                       *)
Discard ==
  /\ evidence # None /\ accepted = None
  /\ evidence' = None
  /\ UNCHANGED <<now, world, accepted>>

Next ==
  \/ Tick \/ Reencrypt \/ CompleteRestore \/ Observe \/ Validate \/ Discard
  \/ \E k \in Key : Rotate(k) \/ Retire(k)
  \/ \E w \in Workload : TakeSnapshot(w) \/ StoreBackup(w)
  \/ \E keys \in SUBSET Key : BeginRestore(keys)

-----------------------------------------------------------------------------
(* An eligible report rests on keys somebody could produce: whatever the   *)
(* reported backups or the live values are encrypted with was used in a    *)
(* restore at most MaxRestoreAge before the decision, however keys were    *)
(* rotated and retired between snapshot, storing, restore and reading.     *)
NeededKeysWereShown ==
  accepted # None =>
    LET seen == accepted.seen
    IN  /\ seen.live \cup UNION {seen.backups[w].needs : w \in Workload} \subseteq seen.restore.keys
        /\ accepted.at - seen.restore.completedAt <= MaxRestoreAge
=============================================================================
