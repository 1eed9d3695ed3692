--------------------------- MODULE CoordinatorProofs ---------------------------
(***************************************************************************)
(* What holds of the Durable Object in each of its uses.  What is proved   *)
(* of a coordinator and its callers is proved in LeaseClientsProofs; it is *)
(* taken over here for both uses as a lease, because a step of a behaviour *)
(* is a step of the use it runs and leaves the others alone.               *)
(*                                                                         *)
(* The versioned records are proved about for any number of writers,       *)
(* operations and versions: the version that grows with every write is     *)
(* what makes a stale read, a late request and a second delivery harmless. *)
(***************************************************************************)
EXTENDS Coordinator, LeaseClientsProofs

Clients == INSTANCE LeaseClientsProofs WITH
  Resource <- PatientResource, MaxTime <- PatientMaxTime, MaxToken <- PatientMaxToken,
  MaxCalls <- PatientMaxCalls, ClockMayRegress <- FALSE, MayAbandon <- FALSE,
  lease <- plLease, counter <- plCounter, now <- plNow, granted <- plGranted,
  phase <- plPhase, calls <- plCalls, belief <- plBelief,
  requests <- plRequests, answers <- plAnswers

-----------------------------------------------------------------------------
(* Each use runs its own specification.                                    *)
THEOREM UsesRunClients == UsesSpec => Spec
<1>1. UsesInit => Init
  BY DEF UsesInit
<1>2. [UsesNext]_<<part, vars, plVars, kvVars>> => [Next]_vars
  BY DEF UsesNext
<1> QED
  BY <1>1, <1>2, PTL DEF UsesSpec, Spec

(* The callers of Clients are those of Patient: one module, instantiated   *)
(* alike.                                                                  *)
LEMMA SameCallers ==
  /\ Patient!Init <=> Clients!Init
  /\ Patient!Next <=> Clients!Next
  /\ Patient!vars = Clients!vars /\ Patient!vars' = Clients!vars'
<1>1. Patient!Init <=> Clients!Init
  BY DEF Patient!Init, Clients!Init, Patient!CoordInit, Clients!CoordInit
<1>2. Patient!Next <=> Clients!Next
  BY DEF Patient!Next, Clients!Next, Patient!CallAcquire, Clients!CallAcquire,
         Patient!CallRelease, Clients!CallRelease, Patient!Abandon,
         Clients!Abandon, Patient!ServeAcquire, Clients!ServeAcquire,
         Patient!ServeRelease, Clients!ServeRelease, Patient!ServeRejected,
         Clients!ServeRejected, Patient!Accept, Clients!Accept,
         Patient!DropLate, Clients!DropLate, Patient!Tick, Clients!Tick,
         Patient!ClockSetBack, Clients!ClockSetBack, Patient!NextCall,
         Clients!NextCall, Patient!Earlier, Clients!Earlier,
         Patient!TtlIsLegal, Clients!TtlIsLegal, Patient!AcquireLease,
         Clients!AcquireLease, Patient!AcquireAnswer, Clients!AcquireAnswer,
         Patient!Refuse, Clients!Refuse, Patient!Renew, Clients!Renew,
         Patient!Mint, Clients!Mint, Patient!ReleaseLease,
         Clients!ReleaseLease, Patient!ReleaseMatches, Clients!ReleaseMatches,
         Patient!ReleaseRejected, Clients!ReleaseRejected,
         Patient!LeaseIsLive, Clients!LeaseIsLive, Patient!NextToken,
         Clients!NextToken, Patient!Recorded, Clients!Recorded,
         Patient!Awaited, Clients!Awaited, Patient!coordVars,
         Clients!coordVars, Patient!clientVars, Clients!clientVars
<1>3. Patient!vars = Clients!vars /\ Patient!vars' = Clients!vars'
  BY DEF Patient!vars, Clients!vars, Patient!coordVars, Clients!coordVars,
         Patient!clientVars, Clients!clientVars
<1> QED
  BY <1>1, <1>2, <1>3

LEMMA UsesRunPatient == UsesSpec => Clients!Spec
<1>1. UsesInit => Clients!Init
  BY SameCallers DEF UsesInit
<1>2. [UsesNext]_<<part, vars, plVars, kvVars>> => [Patient!Next]_(Patient!vars)
  BY DEF UsesNext, plVars, Patient!vars, Patient!coordVars, Patient!clientVars
<1>3. [UsesNext]_<<part, vars, plVars, kvVars>> => [Clients!Next]_(Clients!vars)
  BY <1>2, SameCallers
<1> QED
  BY <1>1, <1>3, PTL DEF UsesSpec, Clients!Spec

LEMMA UsesRunVersions == UsesSpec => Versions!Spec
<1>1. UsesInit => Versions!Init
  BY DEF UsesInit
<1>2. [UsesNext]_<<part, vars, plVars, kvVars>> => [Versions!Next]_(Versions!vars)
  BY DEF UsesNext, kvVars, Versions!vars
<1> QED
  BY <1>1, <1>2, PTL DEF UsesSpec, Versions!Spec

(* The constants of the patient callers are as LeaseClients assumes.       *)
LEMMA PatientAssumptions ==
  /\ PatientMaxCalls \in [Holder -> Nat] /\ FALSE \in BOOLEAN
  /\ NoLease \notin Clients!Lease /\ NoLease \notin Holder
  /\ /\ TtlInput \subseteq Int
     /\ MinTtl \in Nat \ {0} /\ MaxTtl \in Nat /\ MinTtl <= MaxTtl
     /\ PatientMaxTime \in Nat /\ PatientMaxToken \in Nat
     /\ FALSE \in BOOLEAN
BY ConstantsOK, NoLeaseAssumption, PatientConstantsOK DEF Clients!Lease, Lease

-----------------------------------------------------------------------------
(* The versioned records.                                                  *)

(* What was read is of an earlier version, or is the record.               *)
ReadsAreOld ==
  \A w \in Writer :
    /\ kvSeen[w].version <= kvRecord.version
    /\ kvSeen[w].version = kvRecord.version => kvSeen[w].value = kvRecord.value

Versioned == {m \in kvRequests : m.expected # Null}

(* A request that may still be written starts from the whole record; one   *)
(* that was written expects a version that is gone.                        *)
RequestsExtend ==
  /\ \A m \in kvRequests : m.op \in m.value
  /\ \A m \in Versioned :
       /\ m.expected <= kvRecord.version
       /\ m.expected = kvRecord.version => kvRecord.value \subseteq m.value /\ kvApplied[m] = 0
       /\ kvApplied[m] <= 1

VersionsInv == Versions!TypeOK /\ ReadsAreOld /\ RequestsExtend /\ Versions!AcknowledgedIsKept

-----------------------------------------------------------------------------
LEMMA VersionsInit ==
  ASSUME Versions!Init
  PROVE  VersionsInv
<1> USE VersionConstantsOK DEF Versions!Init, Versions!Absent
<1>1. Versions!TypeOK
  BY DEF Versions!TypeOK, Versions!Record, Versions!Request, Versions!Op
<1>2. ReadsAreOld /\ RequestsExtend /\ Versions!AcknowledgedIsKept
  BY DEF ReadsAreOld, RequestsExtend, Versioned, Versions!AcknowledgedIsKept
<1> QED
  BY <1>1, <1>2 DEF VersionsInv

LEMMA VersionFields ==
  ASSUME Versions!TypeOK, NEW m \in kvRequests
  PROVE  /\ m.op \in Versions!Op /\ m.expected \in Nat \cup {Null} /\ m.value \subseteq Versions!Op
         /\ kvApplied[m] \in Nat
BY DEF Versions!TypeOK, Versions!Request

LEMMA GetStateKeeps ==
  ASSUME VersionsInv, NEW w \in Writer, Versions!GetState(w)
  PROVE  VersionsInv'
<1> USE DEF VersionsInv, Versions!GetState
<1>1. Versions!TypeOK'
  BY DEF Versions!TypeOK
<1>2. ReadsAreOld'
  BY DEF ReadsAreOld, Versions!TypeOK, Versions!Record
<1>3. RequestsExtend' /\ Versions!AcknowledgedIsKept'
  BY DEF RequestsExtend, Versioned, Versions!AcknowledgedIsKept, Versions!BlindlyWritten
<1> QED
  BY <1>1, <1>2, <1>3

(* What a writer computes carries all it read, and was never written.      *)
LEMMA ComputeKeeps ==
  ASSUME VersionsInv, NEW w \in Writer, Versions!Compute(w)
  PROVE  VersionsInv'
<1> DEFINE n == IF kvAttempt[w] > 0 /\ Versions!Current(w) \notin kvAcked
                  THEN kvAttempt[w] ELSE kvAttempt[w] + 1
           m == [op |-> <<w, n>>,
                 expected |-> IF w \in BlindWriter THEN Null ELSE kvSeen[w].version,
                 value |-> kvSeen[w].value \cup {<<w, n>>}]
<1>1. /\ n <= MaxOps /\ m \notin kvRequests
      /\ kvAttempt' = [kvAttempt EXCEPT ![w] = n]
      /\ kvRequests' = kvRequests \cup {m}
      /\ kvApplied' = [q \in kvRequests \cup {m} |-> IF q = m THEN 0 ELSE kvApplied[q]]
      /\ kvWaiting' = kvWaiting \cup {w}
      /\ UNCHANGED <<kvRecord, kvSeen, kvAcked>>
  BY DEF Versions!Compute
<1>2. Versions!TypeOK /\ kvRecord.version \in Nat /\ kvSeen[w] \in Versions!Record
      /\ kvAttempt[w] \in 0..MaxOps
  BY DEF VersionsInv, Versions!TypeOK, Versions!Record
<1>3. n \in 1..MaxOps
  BY <1>1, <1>2, VersionConstantsOK
<1>4. m \in Versions!Request
  <2>1. <<w, n>> \in Versions!Op
    BY <1>3 DEF Versions!Op
  <2> QED
    BY <1>2, <2>1 DEF Versions!Request, Versions!Record
<1>5. Versions!TypeOK'
  <2> HIDE DEF n, m
  <2>1. kvAttempt' \in [Writer -> 0..MaxOps]
    BY <1>1, <1>2, <1>3 DEF Versions!TypeOK
  <2>2. kvRequests' \subseteq Versions!Request
    BY <1>1, <1>2, <1>4 DEF Versions!TypeOK
  <2>3. DOMAIN kvApplied' = kvRequests' /\ \A q \in kvRequests' : kvApplied'[q] \in Nat
    BY <1>1, <1>2 DEF Versions!TypeOK
  <2> QED
    BY <1>1, <1>2, <2>1, <2>2, <2>3 DEF Versions!TypeOK
<1>6. /\ m.op \in m.value
      /\ m.expected # Null =>
           /\ m.expected <= kvRecord.version
           /\ m.expected = kvRecord.version => kvRecord.value \subseteq m.value
  BY <1>2 DEF VersionsInv, ReadsAreOld
<1>7. kvApplied'[m] = 0 /\ \A q \in kvRequests : kvApplied'[q] = kvApplied[q]
  BY <1>1
<1> HIDE DEF n, m
<1>8. ReadsAreOld'
  BY <1>1 DEF VersionsInv, ReadsAreOld
<1>9. RequestsExtend'
  BY <1>1, <1>6, <1>7 DEF VersionsInv, RequestsExtend, Versioned
<1>10. Versions!AcknowledgedIsKept'
  BY <1>1, <1>7 DEF VersionsInv, Versions!AcknowledgedIsKept, Versions!BlindlyWritten
<1> QED
  BY <1>5, <1>8, <1>9, <1>10 DEF VersionsInv

(* A write makes every version read or expected so far an old one.         *)
LEMMA CompareAndSetKeeps ==
  ASSUME VersionsInv, NEW m \in kvRequests, Versions!CompareAndSet(m)
  PROVE  VersionsInv'
<1>1. /\ Versions!Matches(m)
      /\ kvRecord' = [value |-> m.value, version |-> kvRecord.version + 1]
      /\ kvApplied' = [kvApplied EXCEPT ![m] = @ + 1]
      /\ \/ kvAcked' = kvAcked \cup {m.op} /\ kvWaiting' = kvWaiting \ {m.op[1]}
         \/ UNCHANGED <<kvAcked, kvWaiting>>
      /\ UNCHANGED <<kvSeen, kvAttempt, kvRequests>>
  BY DEF Versions!CompareAndSet
<1>2. Versions!TypeOK /\ kvRecord \in Versions!Record /\ kvRecord.version \in Nat
      /\ m.op \in Versions!Op /\ m.value \subseteq Versions!Op
  BY VersionFields DEF VersionsInv, Versions!TypeOK, Versions!Record
<1>3. \A q \in kvRequests : kvApplied'[q] = IF q = m THEN kvApplied[q] + 1 ELSE kvApplied[q]
  BY <1>1, <1>2 DEF Versions!TypeOK
<1>4. Versions!TypeOK'
  <2>1. kvRecord' \in Versions!Record /\ kvRecord'.version = kvRecord.version + 1
        /\ kvRecord'.value = m.value
    BY <1>1, <1>2 DEF Versions!Record
  <2>2. DOMAIN kvApplied' = kvRequests' /\ \A q \in kvRequests' : kvApplied'[q] \in Nat
    BY <1>1, <1>2, <1>3 DEF Versions!TypeOK
  <2> QED
    BY <1>1, <1>2, <2>1, <2>2 DEF Versions!TypeOK
<1>5. kvRecord'.version = kvRecord.version + 1 /\ kvRecord'.value = m.value
  BY <1>1
<1>6. ReadsAreOld'
  <2>1. \A w \in Writer : kvSeen[w].version \in Nat /\ kvSeen[w].version <= kvRecord.version
    BY <1>2 DEF VersionsInv, ReadsAreOld, Versions!TypeOK, Versions!Record
  <2> QED
    BY <1>1, <1>2, <1>5, <2>1 DEF ReadsAreOld
<1>7. RequestsExtend'
  <2>1. \A q \in Versioned : q.expected \in Nat /\ kvApplied[q] \in Nat
                             /\ q.expected <= kvRecord.version /\ kvApplied[q] <= 1
    BY <1>2, VersionFields DEF VersionsInv, RequestsExtend, Versioned
  <2>2. m \in Versioned => kvApplied[m] = 0
    BY <1>1 DEF VersionsInv, RequestsExtend, Versioned, Versions!Matches
  <2>3. \A q \in Versioned : kvApplied'[q] <= 1
    BY <1>3, <2>1, <2>2 DEF Versioned
  <2>4. Versioned' = Versioned
    BY <1>1 DEF Versioned
  <2>5. \A q \in Versioned : q.expected < kvRecord'.version
    BY <1>2, <1>5, <2>1
  <2>6. \A q \in Versioned : q.expected <= kvRecord'.version /\ q.expected # kvRecord'.version
    BY <1>2, <1>5, <2>1, <2>5
  <2> QED
    BY <1>1, <2>3, <2>4, <2>6 DEF VersionsInv, RequestsExtend
<1>8. Versions!AcknowledgedIsKept'
  <2> SUFFICES ASSUME ~Versions!BlindlyWritten'
               PROVE  kvAcked' \subseteq kvRecord'.value
    BY DEF Versions!AcknowledgedIsKept
  <2>1. m.expected # Null
    BY <1>1, <1>2, <1>3, VersionFields DEF Versions!BlindlyWritten
  <2>2. ~Versions!BlindlyWritten
    BY <1>1, <1>2, <1>3, VersionFields DEF Versions!BlindlyWritten
  <2>3. kvAcked \subseteq kvRecord.value /\ kvRecord.value \subseteq m.value /\ m.op \in m.value
    BY <1>1, <2>1, <2>2 DEF VersionsInv, Versions!AcknowledgedIsKept, RequestsExtend, Versioned, Versions!Matches
  <2> QED
    BY <1>1, <1>5, <2>3
<1> QED
  BY <1>4, <1>6, <1>7, <1>8 DEF VersionsInv

LEMMA VersionConflictKeeps ==
  ASSUME VersionsInv, NEW m \in kvRequests, Versions!VersionConflict(m)
  PROVE  VersionsInv'
<1>1. Versions!TypeOK'
  BY DEF VersionsInv, Versions!TypeOK, Versions!VersionConflict
<1>2. ReadsAreOld' /\ RequestsExtend' /\ Versions!AcknowledgedIsKept'
  BY DEF VersionsInv, Versions!VersionConflict, ReadsAreOld, RequestsExtend, Versioned, Versions!AcknowledgedIsKept,
         Versions!BlindlyWritten
<1> QED
  BY <1>1, <1>2 DEF VersionsInv

LEMMA VersionsStep ==
  ASSUME VersionsInv, [Versions!Next]_(Versions!vars)
  PROVE  VersionsInv'
<1>1. CASE UNCHANGED Versions!vars
  <2>1. Versions!TypeOK'
    BY <1>1 DEF Versions!vars, VersionsInv, Versions!TypeOK
  <2>2. ReadsAreOld' /\ RequestsExtend' /\ Versions!AcknowledgedIsKept'
    BY <1>1 DEF Versions!vars, VersionsInv, ReadsAreOld, RequestsExtend, Versioned, Versions!AcknowledgedIsKept,
                Versions!BlindlyWritten
  <2> QED
    BY <2>1, <2>2 DEF VersionsInv
<1>2. CASE Versions!Next
  BY <1>2, GetStateKeeps, ComputeKeeps, CompareAndSetKeeps, VersionConflictKeeps DEF Versions!Next
<1> QED
  BY <1>1, <1>2

-----------------------------------------------------------------------------
(* Callers that wait never hold one lease together, whatever the delays    *)
(* and whatever ttl within the bounds each asks for.                       *)
THEOREM PatientCallersExclude == UsesSpec => []WaitingCallersExclude
<1>1. Clients!Spec => []Clients!TypeOK
  BY PatientAssumptions, Clients!ClientsTypeCorrect
<1>2. Clients!Spec => []Clients!BelievedExclusive
  BY PatientAssumptions, Clients!WaitingCallersExcludeEachOther
<1>3. Clients!TypeOK => Patient!TypeOK
  BY DEF Patient!TypeOK, Clients!TypeOK, Patient!CoordTypeOK,
         Clients!CoordTypeOK, Patient!Lease, Clients!Lease, Patient!Belief,
         Clients!Belief, Patient!Request, Clients!Request, Patient!Answer,
         Clients!Answer
<1>4. Clients!BelievedExclusive => Patient!BelievedExclusive
  BY DEF Patient!BelievedExclusive, Clients!BelievedExclusive,
         Patient!Believes, Clients!Believes
<1>5. Clients!TypeOK /\ Clients!BelievedExclusive => WaitingCallersExclude
  BY <1>3, <1>4 DEF WaitingCallersExclude
<1> QED
  BY <1>1, <1>2, <1>5, UsesRunPatient, PTL

(* With a clock that does not go back the live leases of the composed      *)
(* system are the abstract fenced lock, whatever its callers send.         *)
THEOREM PatientLeasesAreLock == UsesSpec => LeasesAreFencedLock
<1>1. Clients!Spec => Clients!CoordSpec
  BY PatientAssumptions, Clients!ClientsRunCoordinator
<1>2. Clients!CoordSpec => Clients!ImplementsFencedLock
  BY PatientAssumptions, Clients!CoordinatorImplementsLock
<1>3. Clients!ImplementsFencedLock <=> Patient!ImplementsFencedLock
  BY DEF Clients!ImplementsFencedLock, Patient!ImplementsFencedLock,
         Clients!Lock!Spec, Patient!Lock!Spec, Clients!Lock!Init, Patient!Lock!Init,
         Clients!Lock!Next, Patient!Lock!Next, Clients!Lock!Enter, Patient!Lock!Enter,
         Clients!Lock!Leave, Patient!Lock!Leave, Clients!Lock!lockVars, Patient!Lock!lockVars,
         Clients!LeaseIsLive, Patient!LeaseIsLive
<1> QED
  BY <1>1, <1>2, <1>3, UsesRunPatient, PTL DEF LeasesAreFencedLock

(* compareAndSet loses no acknowledged update of a writer that passes the  *)
(* version it read, as long as no request that passes null was written.    *)
THEOREM NoUpdateIsLost == UsesSpec => []AcknowledgedIsKept
<1>1. Versions!Init => VersionsInv
  BY VersionsInit
<1>2. VersionsInv /\ [Versions!Next]_(Versions!vars) => VersionsInv'
  BY VersionsStep
<1>3. VersionsInv => AcknowledgedIsKept
  BY DEF VersionsInv, AcknowledgedIsKept
<1> QED
  BY <1>1, <1>2, <1>3, UsesRunVersions, PTL DEF Versions!Spec

(* However often a request with a version is delivered, compareAndSet      *)
(* writes it once.                                                         *)
THEOREM NoRequestIsWrittenTwice == UsesSpec => []WrittenAtMostOnce
<1>1. Versions!Init => VersionsInv
  BY VersionsInit
<1>2. VersionsInv /\ [Versions!Next]_(Versions!vars) => VersionsInv'
  BY VersionsStep
<1>3. VersionsInv => WrittenAtMostOnce
  BY DEF VersionsInv, RequestsExtend, Versioned, WrittenAtMostOnce, Versions!WrittenAtMostOnce
<1> QED
  BY <1>1, <1>2, <1>3, UsesRunVersions, PTL DEF Versions!Spec
=============================================================================
