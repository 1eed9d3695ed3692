---------------------------- MODULE VersionedState ----------------------------
(***************************************************************************)
(* The versioned records of FiduciaLeaseCoordinator: getState and          *)
(* compareAndSet on one key.  Writers are external: a writer reads the     *)
(* record, adds an operation of its own to the value, and sends the result *)
(* with the version it read as expectedVersion.  The request may be        *)
(* delayed and delivered again (a retry after a lost answer sends the same *)
(* request).  A blind writer passes null, which compareAndSet takes as     *)
(* "whatever the version".                                                 *)
(***************************************************************************)
EXTENDS Naturals, FiniteSets

CONSTANTS
  Writer, BlindWriter,   \* all writers, and those of them who pass null
  Null,                  \* normalizeExpectedVersion(null or undefined), not a Nat
  MaxOps,                \* bound: operations per writer
  MaxVersion             \* bound: no write past this version

VARIABLES
  record,    \* the kv:<key> record: version 0 stands for "absent"
  seen,      \* [Writer -> record it read last]
  attempt,   \* [Writer -> operation under way, 0 before the first]
  waiting,   \* writers with an answer outstanding
  requests,  \* requests sent; the network may deliver each again at any time
  applied,   \* history: [request -> times it was written]
  acked      \* history: operations whose writer was told of success

vars == <<record, seen, attempt, waiting, requests, applied, acked>>

Op == Writer \X (1..MaxOps)
Record == [version : Nat, value : SUBSET Op]
Request == [op : Op, expected : Nat \cup {Null}, value : SUBSET Op]

TypeOK ==
  /\ record \in Record
  /\ seen \in [Writer -> Record]
  /\ attempt \in [Writer -> 0..MaxOps]
  /\ waiting \subseteq Writer
  /\ requests \subseteq Request
  /\ DOMAIN applied = requests /\ \A m \in requests : applied[m] \in Nat
  /\ acked \subseteq Op

Absent == [version |-> 0, value |-> {}]

Init ==
  /\ record = Absent
  /\ seen = [w \in Writer |-> Absent]
  /\ attempt = [w \in Writer |-> 0]
  /\ waiting = {}
  /\ requests = {}
  /\ applied = <<>>
  /\ acked = {}

Current(w) == <<w, attempt[w]>>

(* getState, at any moment: what was read may be stale when it is used.    *)
GetState(w) ==
  /\ w \notin waiting
  /\ seen' = [seen EXCEPT ![w] = record]
  /\ UNCHANGED <<record, attempt, waiting, requests, applied, acked>>

(* A writer that was acknowledged starts the next operation; one that was  *)
(* refused computes the same operation again from what it has read since.  *)
Compute(w) ==
  /\ w \notin waiting
  /\ LET n == IF attempt[w] > 0 /\ Current(w) \notin acked THEN attempt[w] ELSE attempt[w] + 1
         m == [op |-> <<w, n>>,
               expected |-> IF w \in BlindWriter THEN Null ELSE seen[w].version,
               value |-> seen[w].value \cup {<<w, n>>}]
     IN  /\ n <= MaxOps
         /\ m \notin requests
         /\ attempt' = [attempt EXCEPT ![w] = n]
         /\ requests' = requests \cup {m}
         /\ applied' = [q \in requests \cup {m} |-> IF q = m THEN 0 ELSE applied[q]]
  /\ waiting' = waiting \cup {w}
  /\ UNCHANGED <<record, seen, acked>>

(* Mutant of Matches: any version up to the current one is accepted.       *)
MatchesOlder(m) == IF m.expected = Null THEN TRUE ELSE m.expected <= record.version

Matches(m) == m.expected = Null \/ m.expected = record.version

(* Mutant of CompareAndSet: the version is kept.                           *)
CasKeepsVersion(m) ==
  /\ Matches(m)
  /\ record' = [value |-> m.value, version |-> record.version]
  /\ applied' = [applied EXCEPT ![m] = @ + 1]
  /\ acked' = acked \cup {m.op} /\ waiting' = waiting \ {m.op[1]}
  /\ UNCHANGED <<seen, attempt, requests>>

(* compareAndSet succeeds: one transaction reads, compares and writes.     *)
CompareAndSet(m) ==
  /\ Matches(m)
  /\ record.version < MaxVersion
  /\ record' = [value |-> m.value, version |-> record.version + 1]
  /\ applied' = [applied EXCEPT ![m] = @ + 1]
  /\ \/ acked' = acked \cup {m.op} /\ waiting' = waiting \ {m.op[1]}
     \/ UNCHANGED <<acked, waiting>>    \* the answer is lost
  /\ UNCHANGED <<seen, attempt, requests>>

(* version_conflict is thrown and nothing is written; the answer reaches   *)
(* the writer or is lost.                                                  *)
VersionConflict(m) ==
  /\ ~Matches(m)
  /\ m.op = Current(m.op[1])
  /\ waiting' = waiting \ {m.op[1]}
  /\ UNCHANGED <<record, seen, attempt, requests, applied, acked>>

Next ==
  \/ \E w \in Writer : GetState(w) \/ Compute(w)
  \/ \E m \in requests : CompareAndSet(m) \/ VersionConflict(m)

Spec == Init /\ [][Next]_vars

-----------------------------------------------------------------------------
(* compareAndSet with a version loses no update: until a writer passes     *)
(* null, an operation whose writer was told of success stays in the record *)
(* whatever stale reads, delayed requests and repeated deliveries follow.  *)
BlindlyWritten == \E m \in requests : m.expected = Null /\ applied[m] > 0
AcknowledgedIsKept == ~BlindlyWritten => acked \subseteq record.value

(* A versioned request is written at most once however often a retry       *)
(* delivers it: the second delivery meets a newer version.                 *)
WrittenAtMostOnce == \A m \in requests : m.expected # Null => applied[m] <= 1
=============================================================================
