--------------------------- MODULE LeaseCoordinator ---------------------------
(***************************************************************************)
(* The lease half of the Cloudflare Durable Object                         *)
(* FiduciaLeaseCoordinator (modules/cloudflare/durable-coordinator).       *)
(*                                                                         *)
(* Every RPC body runs inside one storage transaction of a single-threaded *)
(* object, so an RPC is one step.  Per resource the object stores the      *)
(* current lease (or nothing) and a counter that outlives the lease.  The  *)
(* object reads Date.now() in the transaction: that clock is the variable  *)
(* now, which only ClockMayRegress lets run backwards.                     *)
(***************************************************************************)
EXTENDS Integers, FiniteSets

CONSTANTS
  Resource,         \* normalised resource names
  Holder,           \* normalised holder names
  NoLease,          \* no record under lease:<resource>
  TtlInput,         \* the ttl values callers pass, legal or not
  MinTtl, MaxTtl,   \* MIN_LEASE_TTL_MS and MAX_LEASE_TTL_MS, in ticks
  MaxTime,          \* bound: the clock stops here
  MaxToken,         \* bound: no further lease is minted past this counter
  ClockMayRegress   \* whether Date.now() may go back (object moved to another host)

ASSUME ConstantsOK ==
  /\ TtlInput \subseteq Int
  /\ MinTtl \in Nat \ {0} /\ MaxTtl \in Nat /\ MinTtl <= MaxTtl
  /\ MaxTime \in Nat /\ MaxToken \in Nat
  /\ ClockMayRegress \in BOOLEAN

VARIABLES
  lease,    \* [Resource -> Lease \cup {NoLease}], the lease:<resource> records
  counter,  \* [Resource -> Nat], the lease-counter:<resource> records (0 if absent)
  now,      \* Date.now() at the object
  granted   \* history: every lease handed out in an acquired:true answer

coordVars == <<lease, counter, now, granted>>

Lease == [holder : Holder, fencing_token : Nat, expires_at : Nat]

ASSUME NoLeaseAssumption == NoLease \notin Lease /\ NoLease \notin Holder

CoordTypeOK ==
  /\ lease \in [Resource -> Lease \cup {NoLease}]
  /\ counter \in [Resource -> Nat]
  /\ now \in Nat
  /\ granted \subseteq [resource : Resource, holder : Holder, fencing_token : Nat]

CoordInit ==
  /\ lease = [r \in Resource |-> NoLease]
  /\ counter = [r \in Resource |-> 0]
  /\ now = 0
  /\ granted = {}

-----------------------------------------------------------------------------

(* Mutant of LeaseIsLive: the last tick of a lease no longer counts.       *)
LeaseEndsEarly(l, t) == l # NoLease /\ l.expires_at > t + 1

LeaseIsLive(l, t) == l # NoLease /\ l.expires_at > t

(* Mutant of TtlIsLegal: the bounds are not checked.                       *)
TtlUnchecked(ttl) == TRUE

(* normalizeTtlMs throws a RangeError outside these bounds. *)
TtlIsLegal(ttl) == ttl \in MinTtl..MaxTtl

(* Mutant of NextToken: the counter that outlives a release is not read.   *)
NextTokenOfLease(r) == IF lease[r] = NoLease THEN 1 ELSE lease[r].fencing_token + 1

(* Math.max(counter, current?.fencing_token ?? 0) + 1 *)
NextToken(r) ==
  LET stored == IF lease[r] = NoLease THEN 0 ELSE lease[r].fencing_token
  IN  (IF stored > counter[r] THEN stored ELSE counter[r]) + 1

Recorded(r, l) ==
  [resource |-> r, holder |-> l.holder, fencing_token |-> l.fencing_token]

(* acquireLease on a live lease of somebody else answers acquired:false    *)
(* and writes nothing.                                                     *)
Refuse(r, h, ttl) ==
  /\ TtlIsLegal(ttl)
  /\ LeaseIsLive(lease[r], now)
  /\ lease[r].holder # h
  /\ UNCHANGED coordVars

(* Mutant of Renew: an expired lease is renewed under its old token.       *)
RenewExpired(r, h, ttl) ==
  /\ TtlIsLegal(ttl)
  /\ lease[r] # NoLease /\ lease[r].holder = h
  /\ lease' = [lease EXCEPT ![r].expires_at = now + ttl]
  /\ granted' = granted \cup {Recorded(r, lease'[r])}
  /\ UNCHANGED <<counter, now>>

(* acquireLease by the live holder extends the deadline and keeps the      *)
(* token, without touching the counter.                                    *)
Renew(r, h, ttl) ==
  /\ TtlIsLegal(ttl)
  /\ LeaseIsLive(lease[r], now)
  /\ lease[r].holder = h
  /\ lease' = [lease EXCEPT ![r].expires_at = now + ttl]
  /\ granted' = granted \cup {Recorded(r, lease'[r])}
  /\ UNCHANGED <<counter, now>>

(* Mutant of Mint: the counter is not put.                                 *)
MintForgetsCounter(r, h, ttl) ==
  /\ TtlIsLegal(ttl)
  /\ ~LeaseIsLive(lease[r], now)
  /\ NextToken(r) <= MaxToken
  /\ lease' = [lease EXCEPT ![r] =
                 [holder |-> h, fencing_token |-> NextToken(r), expires_at |-> now + ttl]]
  /\ granted' = granted \cup {Recorded(r, lease'[r])}
  /\ UNCHANGED <<counter, now>>

(* acquireLease on a missing or expired lease mints the next token and     *)
(* puts the counter and the lease in the same transaction.                 *)
Mint(r, h, ttl) ==
  /\ TtlIsLegal(ttl)
  /\ ~LeaseIsLive(lease[r], now)
  /\ NextToken(r) <= MaxToken
  /\ lease' = [lease EXCEPT ![r] =
                 [holder |-> h, fencing_token |-> NextToken(r), expires_at |-> now + ttl]]
  /\ counter' = [counter EXCEPT ![r] = NextToken(r)]
  /\ granted' = granted \cup {Recorded(r, lease'[r])}
  /\ UNCHANGED now

AcquireLease(r, h, ttl) == Refuse(r, h, ttl) \/ Renew(r, h, ttl) \/ Mint(r, h, ttl)

(* The answer acquireLease returns, read in the state the RPC runs in.     *)
AcquireAnswer(r, h, ttl) ==
  IF LeaseIsLive(lease[r], now) /\ lease[r].holder # h
    THEN [acquired |-> FALSE, lease |-> lease[r]]
    ELSE [acquired |-> TRUE,
          lease |-> [holder |-> h, expires_at |-> now + ttl,
                     fencing_token |-> IF LeaseIsLive(lease[r], now)
                                         THEN lease[r].fencing_token
                                         ELSE NextToken(r)]]

ReleaseMatches(r, h, token) ==
  /\ lease[r] # NoLease
  /\ lease[r].holder = h
  /\ lease[r].fencing_token = token

(* releaseLease deletes the lease record only, live or not; the counter    *)
(* stays.  A non-positive token or any mismatch answers false.             *)
ReleaseLease(r, h, token) ==
  /\ token > 0
  /\ ReleaseMatches(r, h, token)
  /\ lease' = [lease EXCEPT ![r] = NoLease]
  /\ UNCHANGED <<counter, now, granted>>

ReleaseRejected(r, h, token) ==
  /\ token <= 0 \/ ~ReleaseMatches(r, h, token)
  /\ UNCHANGED coordVars

(* The wall clock of the host: it advances, and may be set back.           *)
Tick ==
  /\ now < MaxTime
  /\ now' = now + 1
  /\ UNCHANGED <<lease, counter, granted>>

ClockSetBack ==
  /\ ClockMayRegress
  /\ now > 0
  /\ now' = now - 1
  /\ UNCHANGED <<lease, counter, granted>>

CoordNext ==
  \/ \E r \in Resource, h \in Holder :
       \/ \E ttl \in TtlInput : AcquireLease(r, h, ttl)
       \/ \E token \in 0..MaxToken : ReleaseLease(r, h, token) \/ ReleaseRejected(r, h, token)
  \/ Tick
  \/ ClockSetBack

CoordSpec == CoordInit /\ [][CoordNext]_coordVars

-----------------------------------------------------------------------------
(* Why fencing works: a stored lease always carries the newest token, and  *)
(* every token ever handed out for a resource is at most its counter.      *)

StoredLeaseIsNewest ==
  \A r \in Resource : lease[r] # NoLease => lease[r].fencing_token = counter[r]

GrantsAreCounted ==
  \A g \in granted : 0 < g.fencing_token /\ g.fencing_token <= counter[g.resource]

StoredLeaseWasGranted ==
  \A r \in Resource : lease[r] # NoLease => Recorded(r, lease[r]) \in granted

(* One token names one holder: no sequence of acquisitions, renewals,      *)
(* releases, expiries and clock corrections makes acquireLease hand the    *)
(* same token of a resource to two different holders.                      *)
TokenNamesOneHolder ==
  \A g1, g2 \in granted :
    (g1.resource = g2.resource /\ g1.fencing_token = g2.fencing_token)
      => g1.holder = g2.holder

FencingInv ==
  /\ CoordTypeOK
  /\ StoredLeaseIsNewest
  /\ GrantsAreCounted
  /\ StoredLeaseWasGranted
  /\ TokenNamesOneHolder

(* A holder that acquireLease puts in place of another one, or of none,    *)
(* gets a token above every token ever granted for the resource, so a      *)
(* store that rejects older tokens rejects every earlier holder.           *)
NewHolderOutranksAll ==
  [][\A r \in Resource :
       (/\ lease'[r] # NoLease
        /\ lease[r] = NoLease \/ lease[r].holder # lease'[r].holder)
       => \A g \in granted : g.resource = r => g.fencing_token < lease'[r].fencing_token]_coordVars

(* The counter survives release and expiry: it never goes down, so tokens  *)
(* stay comparable over the whole life of a resource.                      *)
CounterNeverDrops == [][\A r \in Resource : counter'[r] >= counter[r]]_coordVars

(* Seen without clock and records, the live leases are the abstract lock.  *)
Lock == INSTANCE FencedLock WITH
  Nobody <- NoLease,
  owner <- [r \in Resource |-> IF LeaseIsLive(lease[r], now) THEN lease[r].holder ELSE NoLease],
  epoch <- counter

(* While the clock does not go back, acquireLease never hands a resource   *)
(* over while its lease is live, and every new owner comes with the next   *)
(* epoch.                                                                  *)
ImplementsFencedLock == Lock!Spec
=============================================================================
