---------------------------- MODULE EdgeRequestProofs ----------------------------
(***************************************************************************)
(* What the edge worker promises for any number of requests, regions,      *)
(* identities and configurations.  Every invariant is about one request,   *)
(* but for the read cache, whose entries belong to the key they are under. *)
(***************************************************************************)
EXTENDS EdgePipeline, FiniteSetTheorems, TLAPS

Checks == {"boundary", "auth", "rate"}

(* The parts of TypeOK that do not speak of the order of regions.          *)
Shape ==
  /\ phase \in [Request -> Phases]
  /\ method \in [Request -> {"GET", "POST"}]
  /\ DOMAIN identity = Request
  /\ DOMAIN passed = Request
  /\ tried \in [Request -> Nat]
  /\ atRegion \in [Request -> {"idle", "sent", "ran"}]
  /\ ran \in [Request -> Nat]
  /\ DOMAIN answer = Request
  /\ DOMAIN limiter = Request

(* What has been checked by the time a request is somewhere.               *)
CheckedOnTheWay ==
  \A q \in Request :
    /\ phase[q] = "new" => passed[q] = {}
    /\ phase[q] = "auth" => passed[q] = {"boundary"}
    /\ phase[q] = "rate" => passed[q] = {"boundary", "auth"}
    /\ phase[q] \in {"cache", "config", "forward", "put"} =>
         passed[q] = Checks /\ limiter[q] = "ok"
    /\ tried[q] > 0 => phase[q] \in {"forward", "put", "done"}
                       /\ passed[q] = Checks /\ limiter[q] = "ok"
    /\ atRegion[q] # "idle" => phase[q] = "forward" /\ tried[q] > 0

(* A mutation is on its way once; back from it, it is answered.            *)
Told == {"ok", "4xx", "5xx", "501", "ambiguous", "withheld"}
OneTry ==
  \A q \in Request : method[q] = "POST" =>
    /\ tried[q] = 0 => ran[q] = 0
    /\ tried[q] <= 1
    /\ atRegion[q] = "sent" => ran[q] = 0
    /\ ran[q] <= 1
    /\ tried[q] = 1 /\ atRegion[q] = "idle" =>
         phase[q] \in {"put", "done"} /\ (answer[q].status \in Told \/ unusable # {})

(* A cached response is under the key of who it was for, and an answer     *)
(* that came from somebody is of the same organisation.                    *)
OwnAnswers ==
  /\ \A e \in readCache : e.key = CacheKeyFor(e.by)
  /\ CachedAnswerIsOwn
  /\ \A q \in Request : answer[q] # None => phase[q] \in {"put", "done"}

Inv == Shape /\ CheckedOnTheWay /\ OneTry /\ OwnAnswers

(* None is no answer.                                                      *)
NoneIsNew == None \notin [status : Statuses, from : Identity \cup {None}]

-----------------------------------------------------------------------------
LEMMA BoundaryInv ==
  ASSUME NoneIsNew, Inv, NEW q \in Request, Boundary(q)
  PROVE  Inv'
<1> USE DEF Inv, Boundary, Answer, Pass, secureResponse, buildApiCsp, resourcePolicy,
      failClosedConfigurationResponse, GoTo, requestData
<1>1. Shape'
  BY DEF Shape, Phases
<1>2. CheckedOnTheWay'
  BY DEF Shape, CheckedOnTheWay, Checks
<1>3. OneTry'
  BY DEF Shape, CheckedOnTheWay, OneTry, Told
<1>4. OwnAnswers'
  BY DEF Shape, CheckedOnTheWay, OwnAnswers, CachedAnswerIsOwn, NoneIsNew, Statuses
<1> QED
  BY <1>1, <1>2, <1>3, <1>4

LEMMA AuthenticateInv ==
  ASSUME NoneIsNew, Inv, NEW q \in Request, Authenticate(q)
  PROVE  Inv'
<1> USE DEF Inv, Authenticate, Answer, Pass, secureResponse, buildApiCsp, resourcePolicy,
      failClosedConfigurationResponse, GoTo, requestData
<1>1. Shape'
  BY DEF Shape, Phases
<1>2. CheckedOnTheWay'
  BY DEF Shape, CheckedOnTheWay, Checks
<1>3. OneTry'
  BY DEF Shape, CheckedOnTheWay, OneTry, Told
<1>4. OwnAnswers'
  BY DEF Shape, CheckedOnTheWay, OwnAnswers, CachedAnswerIsOwn, NoneIsNew, Statuses
<1> QED
  BY <1>1, <1>2, <1>3, <1>4

LEMMA MatchReadCacheInv ==
  ASSUME NoneIsNew, Inv, NEW q \in Request, MatchReadCache(q)
  PROVE  Inv'
<1> USE DEF Inv, MatchReadCache, CacheKeyFor, Answer, secureResponse, buildApiCsp, resourcePolicy,
      failClosedConfigurationResponse, GoTo, requestData
<1>1. Shape'
  BY DEF Shape, Phases
<1>2. CheckedOnTheWay'
  BY DEF Shape, CheckedOnTheWay, Checks
<1>3. OneTry'
  BY DEF Shape, CheckedOnTheWay, OneTry, Told
<1>4. OwnAnswers'
  BY DEF Shape, CheckedOnTheWay, OwnAnswers, CachedAnswerIsOwn, NoneIsNew, Statuses
<1> QED
  BY <1>1, <1>2, <1>3, <1>4

LEMMA RateLimitInv ==
  ASSUME NoneIsNew, Inv, NEW q \in Request, NEW v \in {"ok", "limited", "error"}, RateLimit(q, v)
  PROVE  Inv'
<1> USE DEF Inv, RateLimit, Answer, Pass, secureResponse, buildApiCsp, resourcePolicy,
      failClosedConfigurationResponse, GoTo, requestData
<1>1. Shape'
  BY DEF Shape, Phases
<1>2. CheckedOnTheWay'
  BY DEF Shape, CheckedOnTheWay, Checks
<1>3. OneTry'
  BY DEF Shape, CheckedOnTheWay, OneTry, Told
<1>4. OwnAnswers'
  BY DEF Shape, CheckedOnTheWay, OwnAnswers, CachedAnswerIsOwn, NoneIsNew, Statuses
<1> QED
  BY <1>1, <1>2, <1>3, <1>4

LEMMA LoadConfigInv ==
  ASSUME NoneIsNew, Inv, NEW q \in Request, LoadConfig(q)
  PROVE  Inv'
<1> USE DEF Inv, LoadConfig, Answer, secureResponse, buildApiCsp, resourcePolicy,
      failClosedConfigurationResponse, GoTo
<1>1. Shape'
  BY DEF Shape, Phases
<1>2. CheckedOnTheWay'
  BY DEF Shape, CheckedOnTheWay, Checks
<1>3. OneTry'
  BY DEF Shape, CheckedOnTheWay, OneTry, Told
<1>4. OwnAnswers'
  BY DEF Shape, CheckedOnTheWay, OwnAnswers, CachedAnswerIsOwn, NoneIsNew, Statuses
<1> QED
  BY <1>1, <1>2, <1>3, <1>4

LEMMA FailClosedInv ==
  ASSUME NoneIsNew, Inv, NEW q \in Request, FailClosed(q)
  PROVE  Inv'
<1> USE DEF Inv, FailClosed, Answer, secureResponse, buildApiCsp, resourcePolicy,
      failClosedConfigurationResponse, GoTo, requestData
<1>1. Shape'
  BY DEF Shape, Phases
<1>2. CheckedOnTheWay'
  BY DEF Shape, CheckedOnTheWay, Checks
<1>3. OneTry'
  BY DEF Shape, CheckedOnTheWay, OneTry, Told
<1>4. OwnAnswers'
  BY DEF Shape, CheckedOnTheWay, OwnAnswers, CachedAnswerIsOwn, NoneIsNew, Statuses
<1> QED
  BY <1>1, <1>2, <1>3, <1>4

LEMMA SendToRegionInv ==
  ASSUME NoneIsNew, Inv, NEW q \in Request, SendToRegion(q)
  PROVE  Inv'
<1> USE DEF Inv, SendToRegion, forwardRest
<1>1. Shape'
  BY DEF Shape, Phases
<1>2. CheckedOnTheWay'
  BY DEF Shape, CheckedOnTheWay, Checks
<1>3. OneTry'
  BY DEF Shape, CheckedOnTheWay, OneTry, Told
<1>4. OwnAnswers'
  BY DEF Shape, CheckedOnTheWay, OwnAnswers, CachedAnswerIsOwn, NoneIsNew, Statuses
<1> QED
  BY <1>1, <1>2, <1>3, <1>4

LEMMA RegionRunsInv ==
  ASSUME NoneIsNew, Inv, NEW q \in Request, RegionRuns(q)
  PROVE  Inv'
<1> USE DEF Inv, RegionRuns, forwardRest
<1>1. Shape'
  BY DEF Shape, Phases
<1>2. CheckedOnTheWay'
  BY DEF Shape, CheckedOnTheWay, Checks
<1>3. OneTry'
  BY DEF Shape, CheckedOnTheWay, OneTry, Told
<1>4. OwnAnswers'
  BY DEF Shape, CheckedOnTheWay, OwnAnswers, CachedAnswerIsOwn, NoneIsNew, Statuses
<1> QED
  BY <1>1, <1>2, <1>3, <1>4

LEMMA RegionRespondsInv ==
  ASSUME NoneIsNew, Inv, NEW q \in Request, NEW v \in {"ok", "4xx", "5xx", "501"},
         NEW cookie \in Cookies, RegionResponds(q, v, cookie)
  PROVE  Inv'
<1> USE DEF Inv, RegionResponds, ReplaySafe, secureResponse, buildApiCsp, resourcePolicy,
      failClosedConfigurationResponse, GoTo, forwardRest
<1>1. Shape'
  BY DEF Shape, Phases
<1>2. CheckedOnTheWay'
  BY DEF Shape, CheckedOnTheWay, Checks
<1>3. OneTry'
  BY DEF Shape, CheckedOnTheWay, OneTry, Told
<1>4. OwnAnswers'
  BY DEF Shape, CheckedOnTheWay, OwnAnswers, CachedAnswerIsOwn, NoneIsNew, Statuses
<1> QED
  BY <1>1, <1>2, <1>3, <1>4

LEMMA RegionUnreachableInv ==
  ASSUME NoneIsNew, Inv, NEW q \in Request, RegionUnreachable(q)
  PROVE  Inv'
<1> USE DEF Inv, RegionUnreachable, ReplaySafe, Answer, secureResponse, buildApiCsp, resourcePolicy,
      failClosedConfigurationResponse, GoTo, forwardRest
<1>1. Shape'
  BY DEF Shape, Phases
<1>2. CheckedOnTheWay'
  BY DEF Shape, CheckedOnTheWay, Checks
<1>3. OneTry'
  BY DEF Shape, CheckedOnTheWay, OneTry, Told
<1>4. OwnAnswers'
  BY DEF Shape, CheckedOnTheWay, OwnAnswers, CachedAnswerIsOwn, NoneIsNew, Statuses
<1> QED
  BY <1>1, <1>2, <1>3, <1>4

LEMMA ExhaustedInv ==
  ASSUME NoneIsNew, Inv, NEW q \in Request, Exhausted(q)
  PROVE  Inv'
<1> USE DEF Inv, Exhausted, Answer, secureResponse, buildApiCsp, resourcePolicy,
      failClosedConfigurationResponse, GoTo, forwardRest
<1>1. Shape'
  BY DEF Shape, Phases
<1>2. CheckedOnTheWay'
  BY DEF Shape, CheckedOnTheWay, Checks
<1>3. OneTry'
  BY DEF Shape, CheckedOnTheWay, OneTry, Told
<1>4. OwnAnswers'
  BY DEF Shape, CheckedOnTheWay, OwnAnswers, CachedAnswerIsOwn, NoneIsNew, Statuses
<1> QED
  BY <1>1, <1>2, <1>3, <1>4

LEMMA PutReadCacheInv ==
  ASSUME NoneIsNew, Inv, NEW q \in Request, PutReadCache(q)
  PROVE  Inv'
<1> USE DEF Inv, PutReadCache, GoTo
<1>1. Shape'
  BY DEF Shape, Phases
<1>2. CheckedOnTheWay'
  BY DEF Shape, CheckedOnTheWay, Checks
<1>3. OneTry'
  BY DEF Shape, CheckedOnTheWay, OneTry, Told
<1>4. OwnAnswers'
  BY DEF Shape, CheckedOnTheWay, OwnAnswers, CachedAnswerIsOwn, NoneIsNew, Statuses
<1> QED
  BY <1>1, <1>2, <1>3, <1>4

LEMMA ReadCacheExpiresInv ==
  ASSUME Inv, NEW e \in readCache, ReadCacheExpires(e)
  PROVE  Inv'
<1> USE DEF Inv, ReadCacheExpires
<1>1. Shape' /\ CheckedOnTheWay' /\ OneTry'
  BY DEF Shape, CheckedOnTheWay, OneTry
<1>2. OwnAnswers'
  BY DEF OwnAnswers, CachedAnswerIsOwn
<1> QED
  BY <1>1, <1>2

LEMMA InitInv ==
  ASSUME Init
  PROVE  Inv
<1>1. Shape
  BY DEF Init, Shape, Phases
<1>2. CheckedOnTheWay /\ OneTry /\ OwnAnswers
  BY DEF Init, CheckedOnTheWay, OneTry, OwnAnswers, CachedAnswerIsOwn
<1> QED
  BY <1>1, <1>2 DEF Inv

LEMMA NextInv ==
  ASSUME NoneIsNew, Inv, [Next]_vars
  PROVE  Inv'
<1>1. CASE UNCHANGED vars
  <2>1. Shape' /\ CheckedOnTheWay' /\ OneTry'
    BY <1>1 DEF vars, Inv, Shape, CheckedOnTheWay, OneTry
  <2>2. OwnAnswers'
    BY <1>1 DEF vars, Inv, OwnAnswers, CachedAnswerIsOwn
  <2> QED
    BY <2>1, <2>2 DEF Inv
<1>2. ASSUME NEW q \in Request,
             Boundary(q) \/ Authenticate(q) \/ MatchReadCache(q) \/ LoadConfig(q) \/ FailClosed(q)
      PROVE  Inv'
  BY <1>2, BoundaryInv, AuthenticateInv, MatchReadCacheInv, LoadConfigInv, FailClosedInv
<1>3. ASSUME NEW q \in Request,
             SendToRegion(q) \/ RegionRuns(q) \/ RegionUnreachable(q) \/ Exhausted(q) \/ PutReadCache(q)
      PROVE  Inv'
  BY <1>3, SendToRegionInv, RegionRunsInv, RegionUnreachableInv, ExhaustedInv, PutReadCacheInv
<1>4. CASE Next
  BY <1>2, <1>3, <1>4, RateLimitInv, RegionRespondsInv, ReadCacheExpiresInv DEF Next
<1> QED
  BY <1>1, <1>4

LEMMA NoneIsNoAnswer == NoneIsNew
BY EdgeConstantsOK DEF NoneIsNew

LEMMA InvHolds == Spec => []Inv
<1>1. Init => Inv
  BY InitInv
<1>2. Inv /\ [Next]_vars => Inv'
  BY NextInv, NoneIsNoAnswer
<1> QED
  BY <1>1, <1>2, PTL DEF Spec

-----------------------------------------------------------------------------
(* The order of failover.  An unhealthy region of a list comes after every *)
(* healthy one.                                                            *)
HealthyFirst(list, up) ==
  \A n \in 1..Len(list) : list[n] \notin up =>
    \A r \in up : \E m \in 1..(n - 1) : list[m] = r

Known == {"rate", "cache", "config", "forward", "put"}

Places ==
  /\ TypeOK
  /\ \A q \in Request :
       /\ phase[q] \in Known => identity[q] \in Identity
       /\ tried[q] <= Len(order[q])
       /\ Len(order[q]) <= Cardinality(Region)
       /\ HealthyFirst(order[q], healthy[q])

(* pickRegions lists the regions it is given, the healthy ones first.      *)
LEMMA PickedInOrder ==
  ASSUME NEW regions \in SUBSET Region, NEW up \in SUBSET regions,
         NEW list \in PickRegions(regions, up)
  PROVE  /\ list \in Seq(Region)
         /\ Len(list) \in Nat /\ Len(list) <= Cardinality(Region)
         /\ HealthyFirst(list, up)
<1>1. /\ IsFiniteSet(regions) /\ Cardinality(regions) <= Cardinality(Region)
      /\ Cardinality(regions) \in Nat /\ Cardinality(Region) \in Nat
  BY EdgeConstantsOK, FS_Subset, FS_CardinalityType
<1>2. list \in [1..Cardinality(regions) -> regions]
  BY DEF PickRegions
<1>3. list \in Seq(Region) /\ Len(list) = Cardinality(regions)
  BY <1>1, <1>2
<1>4. ASSUME NEW n \in 1..Len(list), list[n] \notin up, NEW r \in up
      PROVE  \E m \in 1..(n - 1) : list[m] = r
  <2>1. PICK m \in DOMAIN list : list[m] = r
    BY DEF PickRegions
  <2>2. n \in DOMAIN list /\ m \in 1..Len(list)
    BY <1>1, <1>2, <1>3
  <2>3. ~(n < m)
    BY <1>4, <2>1, <2>2 DEF PickRegions, Before
  <2> QED
    BY <1>1, <1>3, <1>4, <2>1, <2>2, <2>3
<1> QED
  BY <1>1, <1>3, <1>4 DEF HealthyFirst

LEMMA SecureResponseType ==
  ASSUME NEW status \in Statuses, NEW from \in Identity \cup {None}, NEW cookie
  PROVE  secureResponse(status, from, cookie) \in [status : Statuses, from : Identity \cup {None}]
BY DEF secureResponse, failClosedConfigurationResponse, Statuses

LEMMA CacheKeyType ==
  ASSUME NEW i \in Identity
  PROVE  CacheKeyFor(i) \in CacheKey
<1> DEFINE k == IF i.keyId # None THEN i.keyId ELSE i.kind
<1>1. i.org \in Orgs
  BY DEF Orgs
<1>2. k \in Principals
  BY DEF Principals
<1>3. k # None
  BY EdgeConstantsOK
<1>4. CacheKeyFor(i) = <<i.org, k>>
  BY DEF CacheKeyFor
<1> HIDE DEF k
<1> QED
  BY <1>1, <1>2, <1>3, <1>4 DEF CacheKey

LEMMA AnswerPlaces ==
  ASSUME TypeOK, NEW q \in Request, NEW status \in Statuses, NEW from \in Identity \cup {None},
         Answer(q, status, from)
  PROVE  /\ answer' \in [Request -> [status : Statuses, from : Identity \cup {None}] \cup {None}]
         /\ phase' \in [Request -> Phases]
         /\ \A p \in Request : phase'[p] \in Known => p # q /\ phase'[p] = phase[p]
<1>1. secureResponse(status, from, None) \in [status : Statuses, from : Identity \cup {None}]
  BY SecureResponseType
<1> QED
  BY <1>1 DEF TypeOK, Answer, GoTo, Known, Phases

(* What is to be shown of a step that leaves the lists of regions alone.   *)
LEMMA PlacesKept ==
  ASSUME Places, UNCHANGED <<unusable, method, cacheable, order, healthy>>, TypeOK',
         \A q \in Request : tried'[q] <= Len(order[q]),
         \A q \in Request : phase'[q] \in Known => identity'[q] \in Identity
  PROVE  Places'
BY DEF Places

(* The actions that neither answer nor touch the list of regions.          *)
LEMMA QuietPlaces ==
  ASSUME Inv, Places, NEW q \in Request, SendToRegion(q) \/ RegionRuns(q) \/ PutReadCache(q)
  PROVE  Places'
<1> USE DEF Places, Known, Phases, GoTo, forwardRest
<1>0. Cardinality(Region) \in Nat
  BY EdgeConstantsOK, FS_CardinalityType
<1>1. CASE SendToRegion(q)
  <2>1. Len(order[q]) \in Nat
    BY DEF TypeOK
  <2>2. tried[q] + 1 \in 0..Cardinality(Region)
    BY <1>0, <1>1, <2>1 DEF SendToRegion, TypeOK
  <2>3. TypeOK'
    BY <1>1, <2>2 DEF SendToRegion, TypeOK
  <2> QED
    BY <1>1, <2>1, <2>3, PlacesKept DEF SendToRegion, TypeOK
<1>2. CASE RegionRuns(q)
  <2>1. TypeOK'
    BY <1>2 DEF RegionRuns, TypeOK
  <2> QED
    BY <1>2, <2>1, PlacesKept DEF RegionRuns
<1>3. CASE PutReadCache(q)
  <2>1. identity[q] \in Identity /\ CacheKeyFor(identity[q]) \in CacheKey
    BY <1>3, CacheKeyType DEF PutReadCache
  <2>2. readCache' \subseteq [key : CacheKey, by : Identity]
    BY <1>3, <2>1 DEF PutReadCache, TypeOK
  <2>3. TypeOK'
    BY <1>3, <2>2 DEF PutReadCache, TypeOK
  <2> QED
    BY <1>3, <2>3, PlacesKept DEF PutReadCache, TypeOK
<1> QED
  BY <1>1, <1>2, <1>3

(* Those that pass a check, or answer in its place.                        *)
LEMMA CheckPlaces ==
  ASSUME Inv, Places, NEW q \in Request,
         \/ Boundary(q) \/ Authenticate(q) \/ MatchReadCache(q) \/ FailClosed(q)
         \/ \E v \in {"ok", "limited", "error"} : RateLimit(q, v)
  PROVE  Places'
<1>0. UNCHANGED requestData
  BY DEF Boundary, Authenticate, MatchReadCache, FailClosed, RateLimit
<1>1. /\ identity' \in [Request -> Identity \cup {None}]
      /\ passed' \in [Request -> SUBSET {"boundary", "auth", "rate"}]
      /\ limiter' \in [Request -> {None, "ok", "limited", "error"}]
  <2>0. /\ identity \in [Request -> Identity \cup {None}]
        /\ passed \in [Request -> SUBSET {"boundary", "auth", "rate"}]
        /\ limiter \in [Request -> {None, "ok", "limited", "error"}]
    BY DEF Places, TypeOK
  <2>1. CASE Boundary(q)
    BY <2>0, <2>1 DEF Boundary, Pass
  <2>2. CASE Authenticate(q)
    BY <2>0, <2>2 DEF Authenticate, Pass
  <2>3. CASE MatchReadCache(q) \/ FailClosed(q)
    BY <2>0, <2>3 DEF MatchReadCache, FailClosed
  <2>4. CASE \E v \in {"ok", "limited", "error"} : RateLimit(q, v)
    BY <2>0, <2>4 DEF RateLimit, Pass
  <2> QED
    BY <2>1, <2>2, <2>3, <2>4
<1>2. ASSUME NEW status \in Statuses, NEW from \in Identity \cup {None}, Answer(q, status, from),
             UNCHANGED identity
      PROVE  Places'
  <2>1. TypeOK'
    BY <1>0, <1>1, <1>2, AnswerPlaces DEF Places, TypeOK, requestData
  <2> QED
    BY <1>0, <1>2, <2>1, AnswerPlaces, PlacesKept DEF Places, requestData
<1>3. ASSUME UNCHANGED answer, NEW next \in Phases, GoTo(q, next),
             \A p \in Request : p # q => identity'[p] = identity[p],
             next \in Known => identity'[q] \in Identity
      PROVE  Places'
  <2>1. TypeOK'
    BY <1>0, <1>1, <1>3 DEF Places, TypeOK, requestData, GoTo
  <2> QED
    BY <1>0, <1>3, <2>1, PlacesKept DEF Places, TypeOK, requestData, GoTo
<1>4. CASE Boundary(q)
  BY <1>2, <1>3, <1>4 DEF Boundary, Pass, Statuses, Phases, Known
<1>5. CASE Authenticate(q)
  <2>1. CASE Pass(q, "auth", "rate") /\ \E i \in Identity : identity' = [identity EXCEPT ![q] = i]
    BY <1>3, <2>1 DEF Pass, Phases, Places, TypeOK
  <2>2. CASE ~(Pass(q, "auth", "rate") /\ \E i \in Identity : identity' = [identity EXCEPT ![q] = i])
    BY <1>2, <1>5, <2>2 DEF Authenticate, Statuses
  <2> QED
    BY <2>1, <2>2
<1>6. CASE MatchReadCache(q)
  <2>1. CASE GoTo(q, "config") /\ UNCHANGED answer
    BY <1>3, <1>6, <2>1 DEF MatchReadCache, Phases, Known, Places
  <2>2. CASE ~(GoTo(q, "config") /\ UNCHANGED answer)
    <3>1. PICK e \in readCache : Answer(q, "ok", e.by)
      BY <1>6, <2>2 DEF MatchReadCache
    <3>2. e.by \in Identity
      BY DEF Places, TypeOK
    <3> QED
      BY <1>2, <1>6, <3>1, <3>2 DEF MatchReadCache, Statuses
  <2> QED
    BY <2>1, <2>2
<1>7. CASE FailClosed(q)
  BY <1>2, <1>7 DEF FailClosed, Statuses
<1>8. CASE \E v \in {"ok", "limited", "error"} : RateLimit(q, v)
  <2>1. phase[q] \in Known /\ UNCHANGED identity
    BY <1>8 DEF RateLimit, Known
  <2>2. \/ Answer(q, "503", None)
        \/ Pass(q, "rate", "cache") \/ Pass(q, "rate", "config")
    BY <1>8 DEF RateLimit
  <2> QED
    BY <1>2, <1>3, <2>1, <2>2 DEF Pass, Phases, Places, Statuses
<1> QED
  BY <1>4, <1>5, <1>6, <1>7, <1>8

LEMMA LoadPlaces ==
  ASSUME Inv, Places, NEW q \in Request, LoadConfig(q)
  PROVE  Places'
<1>0. UNCHANGED <<unusable, method, cacheable, identity, passed, tried, atRegion, ran, limiter,
                  readCache>>
  BY DEF LoadConfig
<1>1. PICK regions \in SUBSET Region, up \in SUBSET Region :
        /\ up \subseteq regions
        /\ \/ /\ Answer(q, "503", None) /\ UNCHANGED <<order, healthy>>
           \/ /\ \E list \in PickRegions(regions, up) : order' = [order EXCEPT ![q] = list]
              /\ healthy' = [healthy EXCEPT ![q] = up]
              /\ GoTo(q, "forward") /\ UNCHANGED answer
  BY DEF LoadConfig
<1>2. CASE Answer(q, "503", None) /\ UNCHANGED <<order, healthy>>
  <2>1. TypeOK'
    BY <1>0, <1>2, AnswerPlaces DEF Places, TypeOK, Statuses
  <2> QED
    BY <1>0, <1>2, <2>1, AnswerPlaces, PlacesKept DEF Places, Statuses
<1>3. CASE ~(Answer(q, "503", None) /\ UNCHANGED <<order, healthy>>)
  <2>1. PICK list \in PickRegions(regions, up) : order' = [order EXCEPT ![q] = list]
    BY <1>1, <1>3
  <2>2. /\ list \in Seq(Region) /\ HealthyFirst(list, up)
        /\ Len(list) \in Nat /\ Len(list) <= Cardinality(Region)
    BY <1>1, PickedInOrder
  <2>3. tried[q] = 0 /\ phase[q] = "config"
    BY DEF LoadConfig, Inv, CheckedOnTheWay, Shape
  <2>4. /\ healthy' = [healthy EXCEPT ![q] = up]
        /\ phase' = [phase EXCEPT ![q] = "forward"] /\ answer' = answer
    BY <1>1, <1>3 DEF GoTo
  <2>5. TypeOK'
    BY <1>0, <2>1, <2>2, <2>4 DEF Places, TypeOK, Phases
  <2>6. ASSUME NEW p \in Request
        PROVE  /\ phase'[p] \in Known => identity'[p] \in Identity
               /\ tried'[p] <= Len(order'[p]) /\ Len(order'[p]) <= Cardinality(Region)
               /\ HealthyFirst(order'[p], healthy'[p])
    <3>1. CASE p = q
      BY <1>0, <2>1, <2>2, <2>3, <2>4, <3>1 DEF Places, TypeOK, Known
    <3>2. CASE p # q
      BY <1>0, <2>1, <2>4, <3>2 DEF Places, TypeOK
    <3> QED
      BY <3>1, <3>2
  <2> QED
    BY <2>5, <2>6 DEF Places
<1> QED
  BY <1>2, <1>3

LEMMA ForwardPlaces ==
  ASSUME Inv, Places, NEW q \in Request,
         \/ RegionUnreachable(q) \/ Exhausted(q)
         \/ \E v \in {"ok", "4xx", "5xx", "501"}, cookie \in Cookies : RegionResponds(q, v, cookie)
  PROVE  Places'
<1>0. /\ UNCHANGED <<forwardRest, tried, ran>>
      /\ atRegion' \in [Request -> {"idle", "sent", "ran"}]
      /\ phase[q] = "forward"
  BY DEF RegionUnreachable, Exhausted, RegionResponds, Places, TypeOK, Inv, CheckedOnTheWay
<1>1. ASSUME NEW next \in Phases, phase' = [phase EXCEPT ![q] = next],
             answer' \in [Request -> [status : Statuses, from : Identity \cup {None}] \cup {None}]
      PROVE  Places'
  <2>1. TypeOK'
    BY <1>0, <1>1 DEF Places, TypeOK, forwardRest
  <2> QED
    BY <1>0, <1>1, <2>1, PlacesKept DEF Places, TypeOK, forwardRest, Known
<1>2. CASE UNCHANGED <<phase, answer>>
  <2>1. phase' = [phase EXCEPT ![q] = "forward"]
    BY <1>0, <1>2 DEF Places, TypeOK
  <2> QED
    BY <1>1, <1>2, <2>1 DEF Places, TypeOK, Phases
<1>3. CASE Answer(q, "ambiguous", None) \/ Answer(q, "no_region", None)
  <2>1. phase' = [phase EXCEPT ![q] = "done"]
    BY <1>3 DEF Answer, GoTo
  <2> QED
    BY <1>1, <1>3, <2>1, AnswerPlaces DEF Places, Phases, Statuses
<1>4. CASE \E v \in {"ok", "4xx", "5xx", "501"}, cookie \in Cookies : RegionResponds(q, v, cookie)
  <2>1. PICK v \in {"ok", "4xx", "5xx", "501"}, cookie \in Cookies : RegionResponds(q, v, cookie)
    BY <1>4
  <2>2. CASE ~UNCHANGED <<phase, answer>>
    <3>1. secureResponse(v, identity[q], cookie) \in [status : Statuses, from : Identity \cup {None}]
      BY SecureResponseType DEF Statuses, Places, TypeOK
    <3>2. answer' \in [Request -> [status : Statuses, from : Identity \cup {None}] \cup {None}]
      <4>1. answer' = [answer EXCEPT ![q] = secureResponse(v, identity[q], cookie)]
        BY <2>1, <2>2 DEF RegionResponds
      <4> QED
        BY <3>1, <4>1 DEF Places, TypeOK
    <3>3. \/ phase' = [phase EXCEPT ![q] = "put"]
          \/ phase' = [phase EXCEPT ![q] = "done"]
      BY <2>1, <2>2 DEF RegionResponds, GoTo
    <3> QED
      BY <1>1, <3>2, <3>3 DEF Phases
  <2> QED
    BY <1>2, <2>2
<1> QED
  BY <1>2, <1>3, <1>4 DEF RegionUnreachable, Exhausted

LEMMA NextPlaces ==
  ASSUME Inv, Places, [Next]_vars
  PROVE  Places'
<1>1. CASE UNCHANGED vars
  BY <1>1 DEF vars, Places, TypeOK
<1>2. CASE \E e \in readCache : ReadCacheExpires(e)
  BY <1>2 DEF ReadCacheExpires, Places, TypeOK
<1>3. CASE Next /\ ~(\E e \in readCache : ReadCacheExpires(e))
  BY <1>3, QuietPlaces, CheckPlaces, LoadPlaces, ForwardPlaces DEF Next
<1> QED
  BY <1>1, <1>2, <1>3

LEMMA InitPlaces ==
  ASSUME Init
  PROVE  Places
<1>1. Cardinality(Region) \in Nat
  BY EdgeConstantsOK, FS_CardinalityType
<1>2. \A q \in Request : order[q] \in Seq(Region) /\ Len(order[q]) = 0
  BY DEF Init
<1> QED
  BY <1>1, <1>2 DEF Init, Places, TypeOK, Known, Phases, HealthyFirst

(* Failover never contacts an unhealthy region before every healthy one of *)
(* the loaded configuration has failed this request, however many regions  *)
(* there are and wherever they lie.                                        *)
THEOREM FailoverIsInOrder == Spec => []FailoverIsOrderly
<1>1. Init => Inv /\ Places
  BY InitInv, InitPlaces
<1>2. (Inv /\ Places) /\ [Next]_vars => (Inv /\ Places)'
  BY NextInv, NoneIsNoAnswer, NextPlaces
<1>3. Inv /\ Places => FailoverIsOrderly
  <2>1. SUFFICES ASSUME Inv, Places, NEW q \in Request, NEW n \in 1..tried[q]
                 PROVE  n \in 1..Len(order[q])
    BY DEF Places, HealthyFirst, FailoverIsOrderly, UnhealthyIsLastResort
  <2>2. order[q] \in Seq(Region) /\ tried[q] \in Nat /\ tried[q] <= Len(order[q])
    BY <2>1 DEF Inv, Shape, Places, TypeOK
  <2>3. Len(order[q]) \in Nat
    BY <2>2
  <2>4. n \in Nat /\ 1 <= n /\ n <= tried[q]
    BY <2>2
  <2> QED
    BY <2>2, <2>3, <2>4
<1> QED
  BY <1>1, <1>2, <1>3, PTL DEF Spec

-----------------------------------------------------------------------------
(* forwardWithFailover sends a mutation to one region at most, in every    *)
(* configuration and with any number of regions to fail over to.           *)
THEOREM MutationsRunOnce == Spec => []MutationRunsOnce
<1>1. Inv => MutationRunsOnce
  BY DEF Inv, OneTry, MutationRunsOnce
<1> QED
  BY <1>1, InvHolds, PTL

(* The caller of a mutation that ran is never told that nobody served it.  *)
THEOREM WhatRanIsReported == Spec => []RanIsReported
<1>1. Inv => RanIsReported
  BY DEF Inv, Shape, CheckedOnTheWay, OneTry, Told, RanIsReported
<1> QED
  BY <1>1, InvHolds, PTL

(* No region runs what the boundary, the authentication or the rate limit  *)
(* has not let through.                                                    *)
THEOREM OnlyCheckedReachRegions == Spec => []RunsOnlyChecked
<1>1. Inv => RunsOnlyChecked
  BY DEF Inv, CheckedOnTheWay, Checks, RunsOnlyChecked
<1> QED
  BY <1>1, InvHolds, PTL

(* The opt-in read cache never crosses organisations, for any identities.  *)
THEOREM CacheKeepsOrganisationsApart == Spec => []CachedAnswerIsOwn
<1>1. Inv => CachedAnswerIsOwn
  BY DEF Inv, OwnAnswers
<1> QED
  BY <1>1, InvHolds, PTL
-----------------------------------------------------------------------------
(* Credentials of one isolate.  What a step may leave behind: an API     *)
(* key's entry fades with the introspection it came from, a token's with   *)
(* the keys the boundary has seen and its exp.                             *)
Calls == [backed : BOOLEAN \cup {None}, arrived : BOOLEAN, until : Nat \cup {None}]
CrPhases == {"new", "boundary", "edge", "accepted", "refused", "unavailable"}

CrShape ==
  /\ crNow \in 0..MaxTime
  /\ crCredential \in {"api_key", "jwt"}
  /\ crRetired \in (0..MaxTime) \cup {None}
  /\ crRetired # None => crRetired <= crNow
  /\ crVerified \in Nat /\ crVerified <= crNow + JwtTtl
  /\ crJwks \in [{"boundary", "edge"} -> [holds : BOOLEAN, until : Nat]]
  /\ \A l \in {"boundary", "edge"} : crJwks[l].until <= crNow + JwksTtl
  /\ crAuthCache \in [ok : BOOLEAN, until : Nat]
  /\ crPhase \in [Request -> CrPhases]
  /\ crNowMs \in [Request -> Nat]
  /\ crCall \in [Request -> Calls \cup {None}]
  /\ \A q \in Request :
       /\ crNowMs[q] <= crNow
       /\ crPhase[q] = "boundary" => crCredential = "jwt"
       /\ crCall[q] # None => crPhase[q] \in {"boundary", "edge"}
       /\ crCall[q] # None => (crCall[q].arrived => crCall[q].backed # None /\ crCredential = "jwt")

ApiBound == MaxFlight + (AuthTtl - 1)
TokenBound == (JwksTtl - 1) + (JwtTtl - 1)

ApiKeyFades ==
  crCredential = "api_key" =>
    /\ crAuthCache.ok /\ crRetired = None => crAuthCache.until <= crNow + AuthTtl
    /\ crAuthCache.ok /\ crRetired # None => crAuthCache.until <= crRetired + MaxFlight + AuthTtl
    /\ \A q \in Request : crCall[q] # None =>
         /\ crCall[q].until \in Nat /\ crNow <= crCall[q].until
         /\ crCall[q].until <= crNow + MaxFlight
         /\ crCall[q].backed = TRUE /\ crRetired # None => crCall[q].until <= crRetired + MaxFlight
    /\ \A q \in Request : crPhase[q] = "accepted" /\ crRetired # None =>
         crNowMs[q] <= crRetired + ApiBound

TokenFades ==
  crCredential = "jwt" =>
    /\ crVerified <= Expiry
    /\ crRetired # None =>
         /\ crJwks["boundary"].holds => crJwks["boundary"].until <= crRetired + JwksTtl
         /\ crVerified <= crRetired + (JwksTtl - 1) + JwtTtl
         /\ \A q \in Request : crPhase[q] = "boundary" /\ crCall[q] # None =>
              (crCall[q].backed = TRUE =>
                 IF crCall[q].arrived THEN crNowMs[q] <= crRetired + (JwksTtl - 1)
                 ELSE crNowMs[q] <= crRetired)
    /\ \A q \in Request : crPhase[q] \in {"edge", "accepted"} =>
         /\ crNowMs[q] < Expiry
         /\ crRetired # None => crNowMs[q] <= crRetired + TokenBound

CrInv == CrShape /\ ApiKeyFades /\ TokenFades

(* The settings are natural numbers; None is none and no call.             *)
LEMMA Settings ==
  /\ JwksTtl \in Nat /\ JwtTtl \in Nat /\ AuthTtl \in Nat /\ RefusalTtl \in Nat
  /\ JwksTtl >= 1 /\ JwtTtl >= 1 /\ AuthTtl >= 1
  /\ MaxFlight \in Nat /\ Expiry \in Nat /\ MaxTime \in Nat
  /\ None \notin Nat /\ None \notin BOOLEAN /\ None \notin Calls
BY EdgeTimesOK DEF Calls

(* Nobody has answered yet is not a yes.                                   *)
LEMMA NoneIsNotTrue == None # TRUE
<1>1. TRUE \in BOOLEAN /\ None \notin BOOLEAN
  BY Settings
<1> QED
  BY <1>1, Zenon

LEMMA CrTick ==
  ASSUME CrInv, Credentials!Tick
  PROVE  CrInv'
<1> USE Settings DEF CrInv, Credentials!Tick, CrPhases,
      Credentials!Goes, Credentials!Remember, Credentials!Missed, Credentials!DropVerified, Credentials!HasKey, Credentials!Clock, Credentials!Least, Credentials!InHand, Credentials!verifyJwtSignature, Credentials!validateClaims, Credentials!validateEdgeClaims, Credentials!caches, Credentials!requests
<1>1. CrShape'
  BY DEF CrShape, Calls
<1>2. ApiKeyFades'
  BY DEF CrShape, ApiKeyFades, ApiBound, Calls
<1>3. TokenFades'
  BY DEF CrShape, TokenFades, TokenBound, Calls
<1> QED
  BY <1>1, <1>2, <1>3

LEMMA CrRetire ==
  ASSUME CrInv, Credentials!Retire
  PROVE  CrInv'
<1> USE Settings DEF CrInv, Credentials!Retire, CrPhases,
      Credentials!Goes, Credentials!Remember, Credentials!Missed, Credentials!DropVerified, Credentials!HasKey, Credentials!Clock, Credentials!Least, Credentials!InHand, Credentials!verifyJwtSignature, Credentials!validateClaims, Credentials!validateEdgeClaims, Credentials!caches, Credentials!requests
<1>1. CrShape'
  BY DEF CrShape, Calls
<1>2. ApiKeyFades'
  BY DEF CrShape, ApiKeyFades, ApiBound, Calls
<1>3. TokenFades'
  BY DEF CrShape, TokenFades, TokenBound, Calls
<1> QED
  BY <1>1, <1>2, <1>3

LEMMA CrEnter ==
  ASSUME CrInv, NEW q \in Request, Credentials!Enter(q)
  PROVE  CrInv'
<1> USE Settings DEF CrInv, Credentials!Enter, CrPhases,
      Credentials!Goes, Credentials!Remember, Credentials!Missed, Credentials!DropVerified, Credentials!HasKey, Credentials!Clock, Credentials!Least, Credentials!InHand, Credentials!verifyJwtSignature, Credentials!validateClaims, Credentials!validateEdgeClaims, Credentials!caches, Credentials!requests
<1>1. CrShape'
  BY DEF CrShape, Calls
<1>2. ApiKeyFades'
  BY DEF CrShape, ApiKeyFades, ApiBound, Calls
<1>3. TokenFades'
  BY DEF CrShape, TokenFades, TokenBound, Calls
<1> QED
  BY <1>1, <1>2, <1>3

LEMMA CrFoundVerified ==
  ASSUME CrInv, NEW q \in Request, Credentials!FoundVerified(q)
  PROVE  CrInv'
<1> USE Settings DEF CrInv, Credentials!FoundVerified, CrPhases,
      Credentials!Goes, Credentials!Remember, Credentials!Missed, Credentials!DropVerified, Credentials!HasKey, Credentials!Clock, Credentials!Least, Credentials!InHand, Credentials!verifyJwtSignature, Credentials!validateClaims, Credentials!validateEdgeClaims, Credentials!caches, Credentials!requests
<1>1. CrShape'
  BY DEF CrShape, Calls
<1>2. ApiKeyFades'
  BY DEF CrShape, ApiKeyFades, ApiBound, Calls
<1>3. TokenFades'
  BY DEF CrShape, TokenFades, TokenBound, Calls
<1> QED
  BY <1>1, <1>2, <1>3

LEMMA CrFoundInAuthCache ==
  ASSUME CrInv, NEW q \in Request, Credentials!FoundInAuthCache(q)
  PROVE  CrInv'
<1> USE Settings DEF CrInv, Credentials!FoundInAuthCache, CrPhases,
      Credentials!Goes, Credentials!Remember, Credentials!Missed, Credentials!DropVerified, Credentials!HasKey, Credentials!Clock, Credentials!Least, Credentials!InHand, Credentials!verifyJwtSignature, Credentials!validateClaims, Credentials!validateEdgeClaims, Credentials!caches, Credentials!requests
<1>1. CrShape'
  BY DEF CrShape, Calls
<1>2. ApiKeyFades'
  BY DEF CrShape, ApiKeyFades, ApiBound, Calls
<1>3. TokenFades'
  BY DEF CrShape, TokenFades, TokenBound, Calls
<1> QED
  BY <1>1, <1>2, <1>3

LEMMA CrKeyIsCached ==
  ASSUME CrInv, NEW q \in Request, Credentials!KeyIsCached(q)
  PROVE  CrInv'
<1> USE Settings DEF CrInv, Credentials!KeyIsCached, CrPhases,
      Credentials!Goes, Credentials!Remember, Credentials!Missed, Credentials!DropVerified, Credentials!HasKey, Credentials!Clock, Credentials!Least, Credentials!InHand, Credentials!verifyJwtSignature, Credentials!validateClaims, Credentials!validateEdgeClaims, Credentials!caches, Credentials!requests
<1>0. [backed |-> TRUE, arrived |-> TRUE, until |-> None] \in Calls
  BY DEF Calls
<1>1. CrShape'
  <2>1. crCall' \in [Request -> Calls \cup {None}]
    BY <1>0 DEF CrShape
  <2>2. crVerified' \in Nat /\ crVerified' <= crNow + JwtTtl
    BY DEF CrShape
  <2>3. \A r \in Request : crCall'[r] # None => crPhase[r] \in {"boundary", "edge"}
    BY DEF CrShape
  <2>4. \A r \in Request : crCall'[r] # None => (crCall'[r].arrived => crCall'[r].backed # None)
    BY DEF CrShape
  <2> QED
    BY <2>1, <2>2, <2>3, <2>4 DEF CrShape
<1>2. ApiKeyFades'
  BY DEF CrShape, ApiKeyFades, ApiBound, Calls
<1>3. TokenFades'
  BY DEF CrShape, TokenFades, TokenBound, Calls
<1> QED
  BY <1>1, <1>2, <1>3

LEMMA CrFetch ==
  ASSUME CrInv, NEW q \in Request, Credentials!Fetch(q)
  PROVE  CrInv'
<1> DEFINE asked == [backed |-> None, arrived |-> FALSE,
                     until |-> IF crCredential = "api_key" THEN crNow + MaxFlight ELSE None]
<1>0. /\ crCall' = [crCall EXCEPT ![q] = asked] /\ crPhase[q] \in {"boundary", "edge"}
      /\ crVerified' = crVerified \/ crVerified' = 0
      /\ UNCHANGED <<crNow, crCredential, crRetired, crJwks, crAuthCache, crPhase, crNowMs>>
  BY DEF Credentials!Fetch, Credentials!Missed, Credentials!DropVerified
<1>5. asked \in Calls
  BY Settings DEF Calls, CrInv, CrShape
<1>6. /\ asked.backed = None /\ ~asked.arrived
      /\ crCredential = "api_key" => asked.until = crNow + MaxFlight
  OBVIOUS
<1> HIDE DEF asked
<1>1. asked \in Calls /\ ~asked.arrived /\ ~(asked.backed = TRUE)
      /\ (crCredential = "api_key" => asked.until = crNow + MaxFlight)
  BY <1>5, <1>6, NoneIsNotTrue, Zenon
<1>2. CrShape'
  BY <1>0, <1>1, Settings DEF CrInv, CrShape, CrPhases
<1>3. ApiKeyFades'
  BY <1>0, <1>1, Settings DEF CrInv, CrShape, ApiKeyFades, ApiBound
<1>4. TokenFades'
  BY <1>0, <1>1, Settings DEF CrInv, CrShape, TokenFades, TokenBound
<1> QED
  BY <1>2, <1>3, <1>4 DEF CrInv

LEMMA CrServiceDecides ==
  ASSUME CrInv, NEW q \in Request, Credentials!ServiceDecides(q)
  PROVE  CrInv'
<1> USE Settings DEF CrInv, Credentials!ServiceDecides, CrPhases,
      Credentials!Goes, Credentials!Remember, Credentials!Missed, Credentials!DropVerified, Credentials!HasKey, Credentials!Clock, Credentials!Least, Credentials!InHand, Credentials!verifyJwtSignature, Credentials!validateClaims, Credentials!validateEdgeClaims, Credentials!caches, Credentials!requests
<1>0. crCall' \in [Request -> Calls \cup {None}]
  <2>1. crCall[q] \in Calls /\ crCall' = [crCall EXCEPT ![q] = [crCall[q] EXCEPT !.backed = crRetired = None]]
    BY DEF CrShape
  <2>2. [crCall[q] EXCEPT !.backed = crRetired = None] \in Calls
    BY <2>1 DEF Calls
  <2> QED
    BY <2>1, <2>2 DEF CrShape
<1>1. CrShape'
  BY <1>0 DEF CrShape, Calls
<1>2. ApiKeyFades'
  BY DEF CrShape, ApiKeyFades, ApiBound, Calls
<1>3. TokenFades'
  BY DEF CrShape, TokenFades, TokenBound, Calls
<1> QED
  BY <1>1, <1>2, <1>3

LEMMA CrJwksArrives ==
  ASSUME CrInv, NEW q \in Request, Credentials!JwksArrives(q)
  PROVE  CrInv'
<1> USE Settings DEF CrInv, Credentials!JwksArrives, CrPhases,
      Credentials!Goes, Credentials!Remember, Credentials!Missed, Credentials!DropVerified, Credentials!HasKey, Credentials!Clock, Credentials!Least, Credentials!InHand, Credentials!verifyJwtSignature, Credentials!validateClaims, Credentials!validateEdgeClaims, Credentials!caches, Credentials!requests
<1>0. /\ crPhase[q] \in {"boundary", "edge"} /\ crCall[q] \in Calls
      /\ crNow \in Nat /\ crNowMs[q] \in Nat /\ crNowMs[q] <= crNow
  BY DEF CrShape
<1>4. crJwks' \in [{"boundary", "edge"} -> [holds : BOOLEAN, until : Nat]]
  <2>1. crCall[q].backed \in BOOLEAN
    BY <1>0 DEF Calls
  <2> QED
    BY <1>0, <2>1 DEF CrShape
<1>5. \A l \in {"boundary", "edge"} : crJwks'[l].until <= crNow + JwksTtl
  BY <1>0 DEF CrShape
<1>6. crCall' \in [Request -> Calls \cup {None}]
  <2>1. [crCall[q] EXCEPT !.arrived = TRUE] \in Calls
    BY <1>0 DEF Calls
  <2> QED
    BY <2>1 DEF CrShape
<1>1. CrShape'
  BY <1>4, <1>5, <1>6 DEF CrShape, Calls
<1>2. ApiKeyFades'
  BY DEF CrShape, ApiKeyFades, ApiBound, Calls
<1>3. TokenFades'
  BY DEF CrShape, TokenFades, TokenBound, Calls
<1> QED
  BY <1>1, <1>2, <1>3

LEMMA CrIntrospectionArrives ==
  ASSUME CrInv, NEW q \in Request, Credentials!IntrospectionArrives(q)
  PROVE  CrInv'
<1> USE Settings DEF CrInv, Credentials!IntrospectionArrives, CrPhases,
      Credentials!Goes, Credentials!Remember, Credentials!Missed, Credentials!DropVerified, Credentials!HasKey, Credentials!Clock, Credentials!Least, Credentials!InHand, Credentials!verifyJwtSignature, Credentials!validateClaims, Credentials!validateEdgeClaims, Credentials!caches, Credentials!requests
<1>1. CrShape'
  BY DEF CrShape, Calls
<1>2. ApiKeyFades'
  BY DEF CrShape, ApiKeyFades, ApiBound, Calls
<1>3. TokenFades'
  BY DEF CrShape, TokenFades, TokenBound, Calls
<1> QED
  BY <1>1, <1>2, <1>3

LEMMA CrFetchFails ==
  ASSUME CrInv, NEW q \in Request, Credentials!FetchFails(q)
  PROVE  CrInv'
<1> DEFINE refusal == [ok |-> FALSE, until |-> crNow + RefusalTtl]
           goal == IF crCredential = "api_key" THEN "unavailable" ELSE "refused"
<1>0. /\ crCall' = [crCall EXCEPT ![q] = None]
      /\ crPhase' = [crPhase EXCEPT ![q] = goal]
      /\ (crAuthCache' = refusal /\ crCredential = "jwt") \/ crAuthCache' = crAuthCache
      /\ UNCHANGED <<crNow, crCredential, crRetired, crVerified, crJwks, crNowMs>>
  BY Zenon DEF Credentials!FetchFails, Credentials!Goes, Credentials!Remember
<1>1. refusal \in [ok : BOOLEAN, until : Nat]
  BY Settings DEF CrInv, CrShape
<1> HIDE DEF refusal
<1>2. CrShape'
  BY <1>0, <1>1, Settings DEF CrInv, CrShape, CrPhases
<1>3. ApiKeyFades'
  BY <1>0, Settings DEF CrInv, CrShape, ApiKeyFades, ApiBound
<1>4. TokenFades'
  BY <1>0, Settings DEF CrInv, CrShape, TokenFades, TokenBound
<1> QED
  BY <1>2, <1>3, <1>4 DEF CrInv

LEMMA CrVerifyToken ==
  ASSUME CrInv, NEW q \in Request, Credentials!VerifyToken(q)
  PROVE  CrInv'
<1> USE Settings DEF CrInv, Credentials!VerifyToken, CrPhases,
      Credentials!Goes, Credentials!Remember, Credentials!Missed, Credentials!DropVerified, Credentials!HasKey, Credentials!Clock, Credentials!Least, Credentials!InHand, Credentials!verifyJwtSignature, Credentials!validateClaims, Credentials!validateEdgeClaims, Credentials!caches, Credentials!requests
<1>1. CrShape'
  BY DEF CrShape, Calls
<1>2. ApiKeyFades'
  BY DEF CrShape, ApiKeyFades, ApiBound, Calls
<1>3. TokenFades'
  BY DEF CrShape, TokenFades, TokenBound, Calls
<1> QED
  BY <1>1, <1>2, <1>3

LEMMA CrVerifyFiduciaToken ==
  ASSUME CrInv, NEW q \in Request, Credentials!VerifyFiduciaToken(q)
  PROVE  CrInv'
<1>0. /\ crCall' = [crCall EXCEPT ![q] = None] /\ crPhase[q] = "edge" /\ crCredential = "jwt"
      /\ \/ /\ crNow < Expiry /\ crPhase' = [crPhase EXCEPT ![q] = "accepted"]
            /\ crAuthCache' = [ok |-> TRUE, until |-> crNow + Credentials!Least(Expiry - crNow, JwtTtl)]
         \/ /\ crPhase' = [crPhase EXCEPT ![q] = "refused"]
            /\ crAuthCache' = [ok |-> FALSE, until |-> crNow + RefusalTtl]
      /\ UNCHANGED <<crNow, crCredential, crRetired, crVerified, crJwks, crNowMs>>
  BY DEF CrInv, CrShape, Credentials!VerifyFiduciaToken, Credentials!InHand, Credentials!Goes, Credentials!Remember,
     Credentials!validateEdgeClaims, Credentials!verifyJwtSignature
<1>1. crNow \in Nat /\ crNow + RefusalTtl \in Nat
  BY Settings DEF CrInv, CrShape
<1>2. crNow < Expiry => crNow + Credentials!Least(Expiry - crNow, JwtTtl) \in Nat
  BY <1>1, Settings DEF Credentials!Least
<1>3. crAuthCache' \in [ok : BOOLEAN, until : Nat]
  <2>1. CASE crAuthCache' = [ok |-> FALSE, until |-> crNow + RefusalTtl]
    BY <1>1, <2>1
  <2>2. CASE crAuthCache' = [ok |-> TRUE, until |-> crNow + Credentials!Least(Expiry - crNow, JwtTtl)]
             /\ crNow < Expiry
    <3>1. PICK u \in Nat : u = crNow + Credentials!Least(Expiry - crNow, JwtTtl)
      BY <1>2, <2>2
    <3>2. crAuthCache' = [ok |-> TRUE, until |-> u]
      BY <2>2, <3>1
    <3> QED
      BY <3>2
  <2> QED
    BY <1>0, <2>1, <2>2
<1>4. CrShape'
  BY <1>0, <1>3, Settings DEF CrInv, CrShape, CrPhases
<1>5. ApiKeyFades'
  BY <1>0 DEF ApiKeyFades
<1>6. TokenFades'
  BY <1>0, Settings DEF CrInv, CrShape, TokenFades, TokenBound
<1> QED
  BY <1>4, <1>5, <1>6 DEF CrInv

LEMMA CrInit ==
  ASSUME Credentials!Init
  PROVE  CrInv
<1> USE Settings DEF Credentials!Init, Credentials!Layer
<1>1. CrShape
  BY DEF CrShape, CrPhases
<1>2. ApiKeyFades /\ TokenFades
  BY DEF ApiKeyFades, TokenFades
<1> QED
  BY <1>1, <1>2 DEF CrInv

LEMMA CrNext ==
  ASSUME CrInv, [PipelineNext]_<<vars, crVars>>
  PROVE  CrInv'
<1>1. CASE UNCHANGED crVars
  BY <1>1 DEF crVars, CrInv, CrShape, ApiKeyFades, TokenFades
<1>2. CASE Credentials!Next
  BY <1>2, CrTick, CrRetire, CrEnter, CrFoundVerified, CrFoundInAuthCache, CrKeyIsCached,
     CrFetch, CrServiceDecides, CrJwksArrives, CrIntrospectionArrives, CrFetchFails,
     CrVerifyToken, CrVerifyFiduciaToken
     DEF Credentials!Next
<1> QED
  BY <1>1, <1>2 DEF PipelineNext, crVars

(* No request is accepted that came long after its credential stopped      *)
(* being backed, or after the token's exp: for an API key one entry's life *)
(* and one introspection, for a token the lives of a JWKS and of a         *)
(* verified token, whatever the settings, however late and in whatever     *)
(* order the answers arrive.                                               *)
THEOREM RevocationReachesTheEdge == PipelineSpec => []AcceptedIsBacked
<1>1. PipelineInit => CrInv
  BY CrInit DEF PipelineInit
<1>2. CrInv /\ [PipelineNext]_<<vars, crVars>> => CrInv'
  BY CrNext
<1>3. CrInv => AcceptedIsBacked
  <2>1. CrInv => Credentials!TypeOK
    BY Settings DEF CrInv, CrShape, CrPhases, Credentials!TypeOK, Credentials!Time, Credentials!Layer
  <2>2. CrInv => Credentials!AcceptedIsBacked
    BY Settings DEF CrInv, CrShape, ApiKeyFades, TokenFades, ApiBound, TokenBound,
       Credentials!AcceptedIsBacked
  <2> QED
    BY <2>1, <2>2 DEF AcceptedIsBacked
<1> QED
  BY <1>1, <1>2, <1>3, PTL DEF PipelineSpec
=============================================================================
