---------------------------- MODULE EdgeRevocation ----------------------------
(***************************************************************************)
(* authorizeRevocation of the edge worker (jwt-revocation-boundary.mjs):   *)
(* the module-global revocation cache of one isolate, its single-flight    *)
(* refreshes, and the requests that interleave at every await.             *)
(*                                                                         *)
(* A request captures nowMs on entry, awaits the digest that makes its     *)
(* cache key, looks the key up, and where the cache has no fresh decision  *)
(* waits for the refresh of that key, which it starts if there is none.    *)
(* The authority, its revocations, the network between, the host's clock   *)
(* and the replacement of the isolate are the environment.                 *)
(***************************************************************************)
EXTENDS Integers, FiniteSets

CONSTANTS
  Key,              \* cache keys: one per (iss, aud, org_id, jti)
  Request,          \* invocations of authorizeRevocation
  None,
  Freshness,        \* FIDUCIA_REVOCATION_CACHE_TTL_SECONDS, in ticks
  Timeout,          \* FIDUCIA_REVOCATION_TIMEOUT_MS, in ticks
  Capacity,         \* FIDUCIA_REVOCATION_CACHE_CAPACITY
  Lifetimes,        \* how long a revocation may stand at the authority
  MaxTime,          \* bound: Date.now() stops here
  ClockMayRegress,  \* whether Date.now() may be set back
  MayRestart        \* whether the isolate may be replaced

ASSUME RevocationConstantsOK ==
  /\ Freshness \in Nat \ {0} /\ Timeout \in Nat \ {0} /\ Capacity \in Nat \ {0}
  /\ Lifetimes \subseteq Nat \ {0} /\ MaxTime \in Nat
  /\ ClockMayRegress \in BOOLEAN /\ MayRestart \in BOOLEAN

VARIABLES
  now,              \* Date.now()
  authority,        \* [Key -> revocation or None]: what the authority knows
  revocationCache,  \* [Key -> entry or None]
  refreshes,        \* [Key -> the request whose refresh is under way, or None]
  flight,           \* [Request -> the authority call it started, or None]
  clockHighWater,
  phase,            \* [Request -> "new", "keying", "waiting", "done"]
  key, nowMs,       \* [Request -> what the invocation works on, captured on entry]
  joined,           \* [Request -> the refresh it awaits (its starter)]
  prior,            \* [Request -> whether the entry it found was a revocation]
  answer,           \* [Request -> the decision's kind]
  deniedBefore,     \* history: [Request -> whether its key had been denied on entry]
  setBack           \* history: whether Date.now() has been set back

requestVars == <<phase, key, nowMs, joined, prior, answer, deniedBefore>>
isolateVars == <<revocationCache, refreshes, flight, clockHighWater>>
vars == <<now, setBack, authority, isolateVars, requestVars>>

Revocation == [revokedAt : Nat, expiresAt : Nat, stands : BOOLEAN]
Verdict == [revoked : BOOLEAN, expiresAt : Nat \cup {None}]
Entry == [revoked : BOOLEAN, expiresAt : Nat \cup {None},
          observedAt : Nat, freshUntil : Nat]

TypeOK ==
  /\ now \in 0..MaxTime /\ setBack \in BOOLEAN
  /\ authority \in [Key -> Revocation \cup {None}]
  /\ revocationCache \in [Key -> Entry \cup {None}]
  /\ refreshes \in [Key -> Request \cup {None}]
  /\ flight \in [Request -> [timer : 0..Timeout, verdict : Verdict \cup {None}] \cup {None}]
  /\ clockHighWater \in Nat
  /\ phase \in [Request -> {"new", "keying", "waiting", "done"}]
  /\ key \in [Request -> Key \cup {None}]
  /\ nowMs \in [Request -> Nat]
  /\ joined \in [Request -> Request \cup {None}]
  /\ prior \in [Request -> BOOLEAN]
  /\ answer \in [Request -> {None, "allow", "deny", "unavailable", "lost"}]
  /\ deniedBefore \in [Request -> BOOLEAN]

Init ==
  /\ now = 0 /\ setBack = FALSE
  /\ authority = [k \in Key |-> None]
  /\ revocationCache = [k \in Key |-> None]
  /\ refreshes = [k \in Key |-> None]
  /\ flight = [q \in Request |-> None]
  /\ clockHighWater = 0
  /\ phase = [q \in Request |-> "new"]
  /\ key = [q \in Request |-> None]
  /\ nowMs = [q \in Request |-> 0]
  /\ joined = [q \in Request |-> None]
  /\ prior = [q \in Request |-> FALSE]
  /\ answer = [q \in Request |-> None]
  /\ deniedBefore = [q \in Request |-> FALSE]

-----------------------------------------------------------------------------

ClockRegressed(t) == t < clockHighWater

(* authorizeRevocation up to the await of the key's digest.                *)
Enter(q, k) ==
  /\ phase[q] = "new"
  /\ key' = [key EXCEPT ![q] = k]
  /\ nowMs' = [nowMs EXCEPT ![q] = now]
  /\ deniedBefore' = [deniedBefore EXCEPT ![q] =
                        \E p \in Request : key[p] = k /\ answer[p] = "deny"]
  /\ IF ClockRegressed(now)
       THEN /\ phase' = [phase EXCEPT ![q] = "done"]
            /\ answer' = [answer EXCEPT ![q] = "unavailable"]
            /\ UNCHANGED clockHighWater
       ELSE /\ phase' = [phase EXCEPT ![q] = "keying"]
            /\ clockHighWater' = now
            /\ UNCHANGED answer
  /\ UNCHANGED <<now, setBack, authority, revocationCache, refreshes, flight, joined, prior>>

(* lookupCached: a revocation past its own expires_at is not fresh.        *)
IsFresh(entry, t) ==
  /\ entry # None
  /\ t < entry.freshUntil
  /\ ~(entry.revoked /\ entry.expiresAt # None /\ t >= entry.expiresAt)

(* fresh_negative allows and fresh_positive denies without the authority.  *)
AnswerFromCache(q) ==
  LET entry == revocationCache[key[q]]
  IN  /\ phase[q] = "keying"
      /\ IsFresh(entry, nowMs[q])
      /\ phase' = [phase EXCEPT ![q] = "done"]
      /\ answer' = [answer EXCEPT ![q] = IF entry.revoked THEN "deny" ELSE "allow"]
      /\ UNCHANGED <<now, setBack, authority, isolateVars, key, nowMs, joined, prior, deniedBefore>>

(* Mutant of JoinOrStart: every request starts a refresh of its own.       *)
StartAlways(q) ==
  /\ joined' = [joined EXCEPT ![q] = q]
  /\ refreshes' = [refreshes EXCEPT ![key[q]] = q]
  /\ flight' = [flight EXCEPT ![q] = [timer |-> Timeout, verdict |-> None]]

(* refreshSingleFlight: join the refresh of this key, or start one.        *)
JoinOrStart(q) ==
  LET k == key[q] IN
  IF refreshes[k] # None
    THEN /\ joined' = [joined EXCEPT ![q] = refreshes[k]]
         /\ UNCHANGED <<refreshes, flight>>
    ELSE /\ joined' = [joined EXCEPT ![q] = q]
         /\ refreshes' = [refreshes EXCEPT ![k] = q]
         /\ flight' = [flight EXCEPT ![q] = [timer |-> Timeout, verdict |-> None]]

(* miss, stale_negative or stale_positive: the decision must be refreshed. *)
AwaitRefresh(q) ==
  LET entry == revocationCache[key[q]]
  IN  /\ phase[q] = "keying"
      /\ ~IsFresh(entry, nowMs[q])
      /\ prior' = [prior EXCEPT ![q] = IF entry = None THEN FALSE ELSE entry.revoked]
      /\ phase' = [phase EXCEPT ![q] = "waiting"]
      /\ JoinOrStart(q)
      /\ UNCHANGED <<now, setBack, authority, revocationCache, clockHighWater,
                     key, nowMs, answer, deniedBefore>>

(* The authority reads its own state; its answer is then on the way back.  *)
Stands(k) == authority[k] # None /\ authority[k].stands

AuthorityDecides(s) ==
  /\ flight[s] # None /\ flight[s].verdict = None
  /\ flight' = [flight EXCEPT ![s].verdict =
       IF Stands(key[s])
         THEN [revoked |-> TRUE, expiresAt |-> authority[key[s]].expiresAt]
         ELSE [revoked |-> FALSE, expiresAt |-> None]]
  /\ UNCHANGED <<now, setBack, authority, revocationCache, refreshes, clockHighWater, requestVars>>

(* The keys installDecision may evict: none while there is room, else one  *)
(* with the oldest observation.                                            *)
Cached == {k \in Key : revocationCache[k] # None}

(* Mutant of Evicted: room is made one entry too late.                     *)
EvictedLate(k) ==
  IF revocationCache[k] # None \/ Cardinality(Cached) <= Capacity
    THEN {{}} ELSE {{o} : o \in Cached}

Evicted(k) ==
  IF revocationCache[k] # None \/ Cardinality(Cached) < Capacity
    THEN {{}}
    ELSE {{o} : o \in {x \in Cached : \A y \in Cached :
             revocationCache[x].observedAt <= revocationCache[y].observedAt}}

InstallDecision(k, entry) ==
  \E gone \in Evicted(k) :
    revocationCache' = [x \in Key |-> IF x = k THEN entry
                                      ELSE IF x \in gone THEN None
                                      ELSE revocationCache[x]]

(* Everybody awaiting the refresh s settles when its promise does.         *)
Settle(s, kind) ==
  LET waiters == {q \in Request : phase[q] = "waiting" /\ joined[q] = s}
  IN  /\ phase' = [q \in Request |-> IF q \in waiters THEN "done" ELSE phase[q]]
      /\ answer' = [q \in Request |-> IF q \in waiters THEN kind[q] ELSE answer[q]]
      /\ flight' = [flight EXCEPT ![s] = None]
      /\ refreshes' = [k \in Key |-> IF refreshes[k] = s THEN None ELSE refreshes[k]]
      /\ joined' = [q \in Request |-> IF q \in waiters THEN None ELSE joined[q]]
      /\ prior' = [q \in Request |-> IF q \in waiters THEN FALSE ELSE prior[q]]
      /\ UNCHANGED <<key, nowMs, deniedBefore>>

(* Mutant of RefreshSucceeds: the entry is stamped with the time it came.  *)
RefreshStampsArrival(s) ==
  /\ flight[s] # None /\ flight[s].verdict # None
  /\ LET verdict == flight[s].verdict
     IN  /\ InstallDecision(key[s],
              [revoked |-> verdict.revoked, expiresAt |-> verdict.expiresAt,
               observedAt |-> now, freshUntil |-> now + Freshness])
         /\ Settle(s, [q \in Request |-> IF verdict.revoked THEN "deny" ELSE "allow"])
  /\ UNCHANGED <<now, setBack, authority, clockHighWater>>

(* The decision arrives: it is installed with the starter's nowMs, and     *)
(* decides for every waiter.                                               *)
RefreshSucceeds(s) ==
  /\ flight[s] # None /\ flight[s].verdict # None
  /\ LET verdict == flight[s].verdict
     IN  /\ InstallDecision(key[s],
              [revoked |-> verdict.revoked, expiresAt |-> verdict.expiresAt,
               observedAt |-> nowMs[s], freshUntil |-> nowMs[s] + Freshness])
         /\ Settle(s, [q \in Request |-> IF verdict.revoked THEN "deny" ELSE "allow"])
  /\ UNCHANGED <<now, setBack, authority, clockHighWater>>

(* timeout, network error, error status, malformed decision, unusable      *)
(* credentials or endpoint: nothing is installed, and a waiter that had    *)
(* found a revocation denies.                                              *)
RefreshFails(s) ==
  /\ flight[s] # None
  /\ Settle(s, [q \in Request |-> IF prior[q] THEN "deny" ELSE "unavailable"])
  /\ UNCHANGED <<now, setBack, authority, revocationCache, clockHighWater>>

(* Mutant of TimeoutFires: the authority call has no timeout.              *)
NoTimeout(s) == FALSE

TimeoutFires(s) == flight[s] # None /\ flight[s].timer = 0 /\ RefreshFails(s)

-----------------------------------------------------------------------------

Revoke(k, life) ==
  /\ authority[k] = None
  /\ authority' = [authority EXCEPT ![k] = 
                    [revokedAt |-> now, expiresAt |-> now + life, stands |-> TRUE]]
  /\ UNCHANGED <<now, setBack, isolateVars, requestVars>>

(* The authority forgets a revocation some time after its expires_at.      *)
Lapse(k) ==
  /\ Stands(k) /\ now >= authority[k].expiresAt
  /\ authority' = [authority EXCEPT ![k].stands = FALSE]
  /\ UNCHANGED <<now, setBack, isolateVars, requestVars>>

(* Time passes; a timer that is due fires before the clock moves on.  At   *)
(* the bound Date.now() stands still and timers still run.                 *)
InFlight == {s \in Request : flight[s] # None}

Tick ==
  /\ now < MaxTime \/ InFlight # {}
  /\ \A s \in InFlight : flight[s].timer > 0
  /\ now' = IF now < MaxTime THEN now + 1 ELSE now
  /\ flight' = [s \in Request |-> IF s \in InFlight
                                    THEN [flight[s] EXCEPT !.timer = @ - 1] ELSE None]
  /\ UNCHANGED <<setBack, authority, revocationCache, refreshes, clockHighWater, requestVars>>

ClockSetBack ==
  /\ ClockMayRegress /\ now > 0
  /\ now' = now - 1
  /\ setBack' = TRUE
  /\ UNCHANGED <<authority, isolateVars, requestVars>>

(* The platform replaces the isolate: module globals start afresh and the  *)
(* invocations under way are gone.                                         *)
Restart ==
  /\ MayRestart
  /\ revocationCache' = [k \in Key |-> None]
  /\ refreshes' = [k \in Key |-> None]
  /\ flight' = [q \in Request |-> None]
  /\ clockHighWater' = 0
  /\ phase' = [q \in Request |-> IF phase[q] \in {"keying", "waiting"} THEN "done" ELSE phase[q]]
  /\ answer' = [q \in Request |-> IF phase[q] \in {"keying", "waiting"} THEN "lost" ELSE answer[q]]
  /\ joined' = [q \in Request |-> None] /\ prior' = [q \in Request |-> FALSE]
  /\ UNCHANGED <<now, setBack, authority, key, nowMs, deniedBefore>>

Next ==
  \/ \E q \in Request :
       \/ \E k \in Key : Enter(q, k)
       \/ AnswerFromCache(q) \/ AwaitRefresh(q)
       \/ AuthorityDecides(q) \/ RefreshSucceeds(q) \/ RefreshFails(q) \/ TimeoutFires(q)
  \/ \E k \in Key, life \in Lifetimes : Revoke(k, life)
  \/ \E k \in Key : Lapse(k)
  \/ Tick \/ ClockSetBack \/ Restart

Spec == Init /\ [][Next]_vars

(* The event loop runs ready continuations and due timers, and time        *)
(* passes; neither the authority nor the network is fair.                  *)
Fairness ==
  /\ WF_vars(Tick)
  /\ \A q \in Request :
       /\ WF_vars(AnswerFromCache(q)) /\ WF_vars(AwaitRefresh(q)) /\ WF_vars(TimeoutFires(q))

FairSpec == Spec /\ Fairness

-----------------------------------------------------------------------------
(* While the host's clock has not been set back, a request is allowed only *)
(* on knowledge of the authority younger than the cache's freshness or, for *)
(* one that joins a refresh under way, no older than its timeout: what was *)
(* revoked that long ago when the request entered authorizeRevocation is   *)
(* never let through, whatever cached entries, delayed answers, joined     *)
(* refreshes, evictions and restarts it met.                               *)
Staleness == IF Freshness > Timeout THEN Freshness ELSE Timeout + 1
AllowIsRecent ==
  ~setBack => \A q \in Request : answer[q] = "allow" =>
    ~(Stands(key[q]) /\ authority[key[q]].revokedAt + Staleness <= nowMs[q])

(* Once a token has been denied by this isolate, a request for it that     *)
(* enters later is not allowed while the revocation stands: no late answer *)
(* of an older refresh, eviction, authority failure or clock correction    *)
(* turns a known revocation back into an allow.                            *)
DenialSticks ==
  [][\A q \in Request :
       (answer[q] # "allow" /\ answer'[q] = "allow" /\ deniedBefore[q])
         => ~Stands(key[q])]_vars

(* Each key has one refresh at a time, so that answers for it are          *)
(* installed in the order the authority gave them.                         *)
OneFlightPerKey ==
  \A s1, s2 \in InFlight : key[s1] = key[s2] => s1 = s2

(* installDecision keeps the cache within its capacity.                    *)
CacheWithinCapacity == Cardinality(Cached) <= Capacity

(* The isolate's globals fit together: well typed, one refresh under way   *)
(* for a key, no more entries than the cache may hold.                     *)
IsolateIsOrderly == TypeOK /\ OneFlightPerKey /\ CacheWithinCapacity

(* Every request is answered although the authority may never answer.      *)
EveryRequestEnds ==
  \A q \in Request : phase[q] = "keying" ~> phase[q] = "done"
=============================================================================
