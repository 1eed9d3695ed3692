------------------------------ MODULE EdgeRequest ------------------------------
(***************************************************************************)
(* One request's way through the edge worker (worker.mjs, index.mjs): the  *)
(* revocation boundary, authentication, the rate limit, the opt-in read    *)
(* cache, the choice of regions and forwardWithFailover, and the answer's  *)
(* way out through secureResponse (security-boundary.mjs).  Requests of    *)
(* several identities share the read cache and the regions.                *)
(*                                                                         *)
(* Regions are external: a region that is reached may run the request or   *)
(* not, and the edge sees an answer or an exception in both cases.  Any    *)
(* await before the forwarding may throw; worker.mjs turns that into 503.  *)
(***************************************************************************)
EXTENDS Naturals, FiniteSets, Sequences

CONSTANTS
  Request,
  Region,
  None,
  Identity,      \* [org, keyId (or None), kind] records of authenticated callers
  Distance,      \* [Region -> Nat], regionDistance for the caller's continent
  NameOrder      \* [Region -> Nat], localeCompare on names; injective

Statuses == {"ok", "4xx", "5xx", "501", "401", "429", "503", "ambiguous", "no_region",
             "withheld"}

ASSUME EdgeConstantsOK ==
  /\ IsFiniteSet(Region)
  /\ Distance \in [Region -> Nat] /\ NameOrder \in [Region -> Nat]
  /\ \A r, s \in Region : NameOrder[r] = NameOrder[s] => r = s
  /\ None \notin Identity /\ \A i \in Identity : i.kind # None
  /\ None \notin [status : Statuses, from : Identity \cup {None}]

VARIABLES
  unusable,   \* the settings for answers that cannot be used; never changes
  phase,      \* [Request -> where the request is]
  method,     \* [Request -> "GET" or "POST"]
  cacheable,  \* [Request -> isCacheableRead]
  identity,   \* [Request -> who authenticated, None for nobody]
  passed,     \* [Request -> set of checks passed]
  order,      \* [Request -> regions as pickRegions ordered them]
  healthy,    \* [Request -> regions the configuration it loaded calls healthy]
  tried,      \* [Request -> number of regions contacted]
  atRegion,   \* [Request -> "idle", "sent", "ran": the call under way]
  ran,        \* history: [Request -> times a region executed it]
  answer,     \* [Request -> [status, from]]
  limiter,    \* [Request -> the RateLimiter object's verdict, None before it is asked]
  readCache   \* caches.default: set of [key, by], by whose origin answer it is

vars == <<unusable, phase, method, cacheable, identity, passed, order, healthy, tried, atRegion,
          ran, answer, limiter, readCache>>

Phases == {"new", "boundary", "auth", "rate", "cache", "config", "forward", "put", "done"}
Orgs == {i.org : i \in Identity}
Principals == {i.keyId : i \in Identity} \cup {i.kind : i \in Identity}
CacheKey == Orgs \X (Principals \ {None})

TypeOK ==
  /\ unusable \in SUBSET {"connect_src", "resource_policy"}
  /\ phase \in [Request -> Phases]
  /\ method \in [Request -> {"GET", "POST"}]
  /\ cacheable \in [Request -> BOOLEAN]
  /\ identity \in [Request -> Identity \cup {None}]
  /\ passed \in [Request -> SUBSET {"boundary", "auth", "rate"}]
  /\ order \in [Request -> Seq(Region)]
  /\ healthy \in [Request -> SUBSET Region]
  /\ tried \in [Request -> 0..Cardinality(Region)]
  /\ atRegion \in [Request -> {"idle", "sent", "ran"}]
  /\ ran \in [Request -> Nat]
  /\ answer \in [Request -> [status : Statuses, from : Identity \cup {None}] \cup {None}]
  /\ limiter \in [Request -> {None, "ok", "limited", "error"}]
  /\ readCache \subseteq [key : CacheKey, by : Identity]

Init ==
  /\ unusable \in SUBSET {"connect_src", "resource_policy"}
  /\ phase = [q \in Request |-> "new"]
  /\ method \in [Request -> {"GET", "POST"}]
  /\ cacheable \in [Request -> BOOLEAN]
  /\ \A q \in Request : cacheable[q] => method[q] = "GET"
  /\ identity = [q \in Request |-> None]
  /\ passed = [q \in Request |-> {}]
  /\ order = [q \in Request |-> <<>>]
  /\ healthy = [q \in Request |-> {}]
  /\ tried = [q \in Request |-> 0]
  /\ atRegion = [q \in Request |-> "idle"]
  /\ ran = [q \in Request |-> 0]
  /\ answer = [q \in Request |-> None]
  /\ limiter = [q \in Request |-> None]
  /\ readCache = {}

-----------------------------------------------------------------------------

GoTo(q, p) == phase' = [phase EXCEPT ![q] = p]

(* Session cookies of an answer: none, one as the contract of              *)
(* sessionCookieViolation wants it, or one with an attribute missing or    *)
(* with a domain.                                                          *)
Contract == {"__Host-", "secure", "httponly", "samesite=strict", "path=/"}
Cookies == {None, Contract, Contract \cup {"domain"}} \cup {Contract \ {a} : a \in Contract}

sessionCookieViolation(cookie) ==
  cookie # None /\ (~(Contract \subseteq cookie) \/ "domain" \in cookie)

(* parseConnectSources and resourcePolicy throw on a setting they refuse.  *)
buildApiCsp == "connect_src" \notin unusable
resourcePolicy == "resource_policy" \notin unusable

failClosedConfigurationResponse == [status |-> "503", from |-> None]

(* secureResponse, its own throw caught by worker.mjs: an unusable setting *)
(* makes every answer a 503, a bad cookie makes an answer a 502.           *)
secureResponse(status, from, cookie) ==
  IF ~(buildApiCsp /\ resourcePolicy) THEN failClosedConfigurationResponse
  ELSE IF sessionCookieViolation(cookie) THEN [status |-> "withheld", from |-> None]
  ELSE [status |-> status, from |-> from]

Answer(q, status, from) ==
  /\ answer' = [answer EXCEPT ![q] = secureResponse(status, from, None)]
  /\ GoTo(q, "done")

Pass(q, check, next) ==
  /\ passed' = [passed EXCEPT ![q] = @ \cup {check}]
  /\ GoTo(q, next)
  /\ UNCHANGED answer

requestData == <<unusable, method, cacheable, order, healthy, tried, atRegion, ran, readCache>>

(* enforceJwtRevocationBoundary: null, or a 401 or 503 of its own.         *)
Boundary(q) ==
  /\ phase[q] = "new"
  /\ \/ Pass(q, "boundary", "auth")
     \/ (\E status \in {"401", "503"} : Answer(q, status, None)) /\ UNCHANGED passed
  /\ UNCHANGED <<identity, limiter, requestData>>

(* checkAuth, with FIDUCIA_AUTH_REQUIRED set as wrangler.toml sets it.     *)
Authenticate(q) ==
  /\ phase[q] = "auth"
  /\ \/ /\ \E i \in Identity : identity' = [identity EXCEPT ![q] = i]
        /\ Pass(q, "auth", "rate")
     \/ (\E status \in {"401", "503"} : Answer(q, status, None)) /\ UNCHANGED <<identity, passed>>
  /\ UNCHANGED <<limiter, requestData>>

(* Mutant of RateLimit: a limiter out of order lets everything through.    *)
RateLimitFailsOpen(q, verdict) ==
  /\ phase[q] = "rate"
  /\ limiter' = [limiter EXCEPT ![q] = verdict]
  /\ IF verdict # "limited"
       THEN Pass(q, "rate", IF cacheable[q] THEN "cache" ELSE "config")
       ELSE Answer(q, "503", None) /\ UNCHANGED passed
  /\ UNCHANGED <<identity, requestData>>

(* checkRateLimit.  The object answers a limited call with status 429,     *)
(* which checkRateLimit, testing response.ok, reads as a limiter that is   *)
(* out of order: fetch answers 503 rate_limiter_unavailable in both cases. *)
RateLimit(q, verdict) ==
  /\ phase[q] = "rate"
  /\ limiter' = [limiter EXCEPT ![q] = verdict]
  /\ IF verdict = "ok"
       THEN Pass(q, "rate", IF cacheable[q] THEN "cache" ELSE "config")
       ELSE Answer(q, "503", None) /\ UNCHANGED passed
  /\ UNCHANGED <<identity, requestData>>

(* Mutant of CacheKeyFor: the organisation is left out.                    *)
CacheKeyWithoutOrg(i) == <<"anonymous", IF i.keyId # None THEN i.keyId ELSE i.kind>>

CacheKeyFor(i) == <<i.org, IF i.keyId # None THEN i.keyId ELSE i.kind>>

MatchReadCache(q) ==
  LET hits == {e \in readCache : e.key = CacheKeyFor(identity[q])}
  IN  /\ phase[q] = "cache"
      /\ IF hits = {} THEN GoTo(q, "config") /\ UNCHANGED answer
         ELSE \E e \in hits : Answer(q, "ok", e.by)
      /\ UNCHANGED <<identity, passed, limiter, requestData>>

(* Mutant of Before: distance counts before health.                        *)
NearestFirst(r, s, up) ==
  \/ Distance[r] < Distance[s]
  \/ /\ Distance[r] = Distance[s]
     /\ \/ r \in up /\ s \notin up
        \/ (r \in up <=> s \in up) /\ NameOrder[r] <= NameOrder[s]

(* Healthy before unhealthy, then near before far, then by name.           *)
Before(r, s, up) ==
  \/ r \in up /\ s \notin up
  \/ /\ r \in up <=> s \in up
     /\ \/ Distance[r] < Distance[s]
        \/ Distance[r] = Distance[s] /\ NameOrder[r] <= NameOrder[s]

(* pickRegions: the regions in that order.  The sets hold one list each.   *)
PickRegions(regions, up) ==
  {list \in [1..Cardinality(regions) -> regions] :
     /\ \A r \in regions : \E n \in DOMAIN list : list[n] = r
     /\ \A m, n \in DOMAIN list : m < n => Before(list[m], list[n], up)}

(* loadEdgeConfig answers some configuration: regions and their health.    *)
LoadConfig(q) ==
  /\ phase[q] = "config"
  /\ \E regions \in SUBSET Region, up \in SUBSET Region :
       /\ up \subseteq regions
       /\ IF regions = {}
            THEN /\ Answer(q, "503", None) /\ UNCHANGED <<order, healthy>>
            ELSE /\ \E list \in PickRegions(regions, up) : order' = [order EXCEPT ![q] = list]
                 /\ healthy' = [healthy EXCEPT ![q] = up]
                 /\ GoTo(q, "forward") /\ UNCHANGED answer
  /\ UNCHANGED <<unusable, method, cacheable, identity, passed, tried, atRegion, ran, limiter,
                 readCache>>

ReplaySafe(q) == method[q] = "GET"

forwardRest == <<unusable, method, cacheable, identity, passed, order, healthy, limiter, readCache>>

(* fetch(target) to the next region of the list.                           *)
SendToRegion(q) ==
  /\ phase[q] = "forward" /\ atRegion[q] = "idle"
  /\ tried[q] < Len(order[q])
  /\ tried' = [tried EXCEPT ![q] = @ + 1]
  /\ atRegion' = [atRegion EXCEPT ![q] = "sent"]
  /\ UNCHANGED <<phase, ran, answer, forwardRest>>

RegionRuns(q) ==
  /\ atRegion[q] = "sent"
  /\ atRegion' = [atRegion EXCEPT ![q] = "ran"]
  /\ ran' = [ran EXCEPT ![q] = @ + 1]
  /\ UNCHANGED <<phase, tried, answer, forwardRest>>

(* A response: a replay-safe request goes on after a 5xx other than 501,   *)
(* every other response is returned, and a good cacheable one cached as it *)
(* is - if it sets no cookie, or caches.default would not keep it.         *)
RegionResponds(q, status, cookie) ==
  /\ atRegion[q] # "idle"
  /\ status \in {"ok", "4xx"} => atRegion[q] = "ran"
  /\ atRegion' = [atRegion EXCEPT ![q] = "idle"]
  /\ IF ReplaySafe(q) /\ status = "5xx"
       THEN UNCHANGED <<phase, answer>>
       ELSE /\ answer' = [answer EXCEPT ![q] = secureResponse(status, identity[q], cookie)]
            /\ GoTo(q, IF cacheable[q] /\ status = "ok" /\ cookie = None THEN "put" ELSE "done")
  /\ UNCHANGED <<tried, ran, forwardRest>>

(* Mutant of RegionUnreachable: a mutation fails over like a read.         *)
UnreachableReplays(q) ==
  /\ atRegion[q] # "idle"
  /\ atRegion' = [atRegion EXCEPT ![q] = "idle"]
  /\ UNCHANGED <<phase, answer, tried, ran, forwardRest>>

(* Mutant of RegionUnreachable: a mutation that met an exception is        *)
(* reported as not served.                                                 *)
UnreachableIsNoRegion(q) ==
  /\ atRegion[q] # "idle"
  /\ atRegion' = [atRegion EXCEPT ![q] = "idle"]
  /\ IF ReplaySafe(q) THEN UNCHANGED <<phase, answer>> ELSE Answer(q, "no_region", None)
  /\ UNCHANGED <<tried, ran, forwardRest>>

(* fetch throws, before or after the region ran the request: a mutation is *)
(* never replayed, the caller is told that the result is ambiguous.        *)
RegionUnreachable(q) ==
  /\ atRegion[q] # "idle"
  /\ atRegion' = [atRegion EXCEPT ![q] = "idle"]
  /\ IF ReplaySafe(q)
       THEN UNCHANGED <<phase, answer>>
       ELSE Answer(q, "ambiguous", None)
  /\ UNCHANGED <<tried, ran, forwardRest>>

Exhausted(q) ==
  /\ phase[q] = "forward" /\ atRegion[q] = "idle"
  /\ tried[q] = Len(order[q])
  /\ Answer(q, "no_region", None)
  /\ UNCHANGED <<tried, atRegion, ran, forwardRest>>

(* Whatever throws outside the try of forwardWithFailover (an unusable     *)
(* region url included) reaches worker.mjs, which fails closed.            *)
FailClosed(q) ==
  /\ phase[q] \in Phases \ {"put", "done"} /\ atRegion[q] = "idle"
  /\ Answer(q, "503", None)
  /\ UNCHANGED <<identity, passed, limiter, requestData>>

(* ctx.waitUntil(caches.default.put(...)) after the answer has gone out;   *)
(* a later put of the same key replaces the earlier one.                   *)
PutReadCache(q) ==
  LET k == CacheKeyFor(identity[q])
  IN  /\ phase[q] = "put"
      /\ readCache' = {e \in readCache : e.key # k} \cup {[key |-> k, by |-> identity[q]]}
      /\ GoTo(q, "done")
      /\ UNCHANGED <<unusable, method, cacheable, identity, passed, order, healthy, tried,
                     atRegion, ran, answer, limiter>>

(* max-age runs out, or the colo evicts the entry.                         *)
ReadCacheExpires(e) ==
  /\ readCache' = readCache \ {e}
  /\ UNCHANGED <<unusable, phase, method, cacheable, identity, passed, order, healthy, tried,
                 atRegion, ran, answer, limiter>>

Next ==
  \/ \E q \in Request :
       \/ Boundary(q) \/ Authenticate(q) \/ MatchReadCache(q)
       \/ \E verdict \in {"ok", "limited", "error"} : RateLimit(q, verdict)
       \/ LoadConfig(q) \/ FailClosed(q) \/ SendToRegion(q) \/ RegionRuns(q)
       \/ \E status \in {"ok", "4xx", "5xx", "501"}, cookie \in Cookies :
            RegionResponds(q, status, cookie)
       \/ RegionUnreachable(q) \/ Exhausted(q) \/ PutReadCache(q)
  \/ \E e \in readCache : ReadCacheExpires(e)

Spec == Init /\ [][Next]_vars

-----------------------------------------------------------------------------
(* forwardWithFailover sends a mutation to one region at most, so no       *)
(* combination of 5xx answers, exceptions and failover runs it twice.      *)
MutationRunsOnce ==
  \A q \in Request : method[q] = "POST" => tried[q] <= 1 /\ ran[q] <= 1

(* A mutation that may have run is not reported as never served: the       *)
(* caller of one that ran sees the region's answer, that it was withheld,  *)
(* or "ambiguous".  Only a worker whose own settings are unusable, which   *)
(* secureResponse finds out after the region has answered, says 503.       *)
RanIsReported ==
  \A q \in Request : (method[q] = "POST" /\ ran[q] > 0 /\ phase[q] = "done")
    => answer[q].status \in {"ok", "4xx", "5xx", "501", "ambiguous", "withheld"} \/ unusable # {}

(* A region runs only what passed the boundary, the authentication and the *)
(* rate limit, whatever fails or throws on the way.                        *)
RunsOnlyChecked ==
  \A q \in Request : tried[q] > 0 =>
    passed[q] = {"boundary", "auth", "rate"} /\ limiter[q] = "ok"

(* What index.mjs line 271 and the limiter's test intend: a caller over    *)
(* its limit is told so with status 429.                                   *)
LimitedIsTold ==
  \A q \in Request : (limiter[q] = "limited" /\ phase[q] = "done") => answer[q].status = "429"

(* An unhealthy region is contacted only when every healthy one of the     *)
(* loaded configuration has failed this request.                           *)
UnhealthyIsLastResort ==
  \A q \in Request : \A n \in 1..tried[q] :
    order[q][n] \notin healthy[q] =>
      \A r \in healthy[q] : \E m \in 1..(n - 1) : order[q][m] = r

(* Well typed, and an unhealthy region is tried when no healthy one is left. *)
FailoverIsOrderly == TypeOK /\ UnhealthyIsLastResort

(* The read cache never answers one organisation with another's response.  *)
CachedAnswerIsOwn ==
  \A q \in Request : (answer[q] # None /\ answer[q].from # None)
    => answer[q].from.org = identity[q].org
=============================================================================
