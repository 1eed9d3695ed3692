------------------------------ MODULE Coordinator ------------------------------
(***************************************************************************)
(* The Durable Object in its three uses, of which a behaviour runs one and *)
(* leaves the others in their initial state: callers that may abandon a    *)
(* call contend for a lease under a clock that may go back (the variables  *)
(* of LeaseClients), callers that wait do under a good clock (pl...), and  *)
(* writers contend for one versioned record (kv...).                       *)
(***************************************************************************)
EXTENDS LeaseClients

CONSTANTS
  PatientResource, PatientMaxTime, PatientMaxToken, PatientMaxCalls,
                                 \* as in LeaseClients, for the callers that wait
  Writer, BlindWriter, Null, MaxOps, MaxVersion   \* as in VersionedState

ASSUME PatientConstantsOK ==
  /\ PatientMaxTime \in Nat /\ PatientMaxToken \in Nat
  /\ PatientMaxCalls \in [Holder -> Nat]

ASSUME VersionConstantsOK == Null \notin Nat /\ MaxOps \in Nat

VARIABLES
  part,   \* which use is made of the object
  plLease, plCounter, plNow, plGranted, plPhase, plCalls, plBelief, plRequests, plAnswers,
  kvRecord, kvSeen, kvAttempt, kvWaiting, kvRequests, kvApplied, kvAcked

plVars == <<plLease, plCounter, plNow, plGranted, plPhase, plCalls, plBelief, plRequests, plAnswers>>
kvVars == <<kvRecord, kvSeen, kvAttempt, kvWaiting, kvRequests, kvApplied, kvAcked>>

Patient == INSTANCE LeaseClients WITH
  Resource <- PatientResource, MaxTime <- PatientMaxTime, MaxToken <- PatientMaxToken,
  MaxCalls <- PatientMaxCalls, ClockMayRegress <- FALSE, MayAbandon <- FALSE,
  lease <- plLease, counter <- plCounter, now <- plNow, granted <- plGranted,
  phase <- plPhase, calls <- plCalls, belief <- plBelief,
  requests <- plRequests, answers <- plAnswers

Versions == INSTANCE VersionedState WITH
  record <- kvRecord, seen <- kvSeen, attempt <- kvAttempt, waiting <- kvWaiting,
  requests <- kvRequests, applied <- kvApplied, acked <- kvAcked

UsesInit ==
  /\ part \in {"impatient", "patient", "versions"}
  /\ Init /\ Patient!Init /\ Versions!Init

UsesNext ==
  /\ UNCHANGED part
  /\ \/ part = "impatient" /\ Next /\ UNCHANGED <<plVars, kvVars>>
     \/ part = "patient" /\ Patient!Next /\ UNCHANGED <<vars, kvVars>>
     \/ part = "versions" /\ Versions!Next /\ UNCHANGED <<vars, plVars>>

UsesSpec == UsesInit /\ [][UsesNext]_<<part, vars, plVars, kvVars>>

-----------------------------------------------------------------------------
(* Callers that wait never hold one lease together, whatever the delays.   *)
WaitingCallersExclude ==
  part = "patient" => Patient!TypeOK /\ Patient!BelievedExclusive

(* Under a good clock the live leases are the abstract fenced lock.        *)
LeasesAreFencedLock == Patient!ImplementsFencedLock

(* compareAndSet: no acknowledged update is lost to a versioned writer.    *)
AcknowledgedIsKept ==
  part = "versions" => Versions!TypeOK /\ Versions!AcknowledgedIsKept

(* compareAndSet: a repeated delivery does not write again.                *)
WrittenAtMostOnce == part = "versions" => Versions!WrittenAtMostOnce
=============================================================================
