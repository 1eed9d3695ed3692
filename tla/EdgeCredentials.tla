---------------------------- MODULE EdgeCredentials ----------------------------
(***************************************************************************)
(* What one isolate of the edge worker remembers of credentials.  An API   *)
(* key goes to checkApiKey and its authCache.  A JWT is verified twice: in *)
(* verifyJwt of jwt-revocation-boundary.mjs, by the time at which the      *)
(* request came, and again in verifyFiduciaJwt of index.mjs, by the        *)
(* present time; each layer has a JWKS cache and a cache of tokens.        *)
(* Nothing is single-flight here: answers asked for earlier may arrive     *)
(* later and overwrite what came before.  Entries of different credentials *)
(* never meet, so all requests carry one: an API key or a token.  The      *)
(* authentication service is external and answers or fails.                *)
(***************************************************************************)
EXTENDS Naturals

CONSTANTS
  Request,      \* those under way at one time
  None,
  JwksTtl, JwtTtl, AuthTtl, RefusalTtl,   \* FIDUCIA_AUTH_*_TTL_SECONDS
  MaxFlight,    \* how long an introspection takes at most; the code sets no timeout
  Expiry,       \* exp of the token
  MaxTime       \* bound of the clock

VARIABLES
  now,
  credential,   \* what the requests carry: "api_key" or "jwt"
  retired,   \* when the service stopped backing it, or None
  verified,  \* verifiedJwtCache: until when the token counts as verified
  jwks,      \* [Layer -> whether the token's key was among the keys, until when]
  authCache, \* its entry: identity or refusal, until when
  phase, nowMs,   \* [Request -> ...]
  call       \* [Request -> the fetch under way or the key in hand, or None]

requests == <<phase, nowMs, call>>
caches == <<verified, jwks, authCache>>
vars == <<now, credential, retired, caches, requests>>

Layer == {"boundary", "edge"}
Time == 0..MaxTime
Least(a, b) == IF a < b THEN a ELSE b

TypeOK ==
  /\ now \in Time
  /\ credential \in {"api_key", "jwt"}
  /\ retired \in Time \cup {None}
  /\ verified \in 0..(MaxTime + JwtTtl)
  /\ \A l \in Layer : jwks[l].holds \in BOOLEAN /\ jwks[l].until <= now + JwksTtl
  /\ authCache.ok \in BOOLEAN /\ authCache.until \in Nat
  /\ phase \in [Request -> {"new", "boundary", "edge", "accepted", "refused", "unavailable"}]
  /\ \A q \in Request : phase[q] = "boundary" => credential = "jwt"

Init ==
  /\ now = 0
  /\ credential \in {"api_key", "jwt"}
  /\ retired = None
  /\ verified = 0
  /\ jwks = [l \in Layer |-> [holds |-> FALSE, until |-> 0]]
  /\ authCache = [ok |-> FALSE, until |-> 0]
  /\ phase = [q \in Request |-> "new"]
  /\ nowMs = [q \in Request |-> 0]
  /\ call = [q \in Request |-> None]

-----------------------------------------------------------------------------
Tick ==
  /\ now < MaxTime
  /\ credential = "api_key" =>
       \A q \in Request : call[q] # None => now < call[q].until
  /\ now' = now + 1
  /\ UNCHANGED <<credential, retired, caches, requests>>

(* An API key is revoked; a signing key leaves the published JWKS.         *)
Retire ==
  /\ retired = None
  /\ retired' = now
  /\ UNCHANGED <<now, credential, caches, requests>>

(* nowMs is captured before the digest of the credential is awaited.  One  *)
(* that has its answer makes room for the next: q is one of those that are *)
(* under way at the same time.                                             *)
Enter(q) ==
  /\ phase[q] \in {"new", "accepted", "refused", "unavailable"}
  /\ phase' = [phase EXCEPT ![q] = IF credential = "jwt" THEN "boundary" ELSE "edge"]
  /\ nowMs' = [nowMs EXCEPT ![q] = now]
  /\ UNCHANGED <<now, credential, retired, caches, call>>

Goes(q, where) == phase' = [phase EXCEPT ![q] = where] /\ call' = [call EXCEPT ![q] = None]

(* The boundary judges by the request's own time, the edge by the present. *)
Clock(q) == IF phase[q] = "boundary" THEN nowMs[q] ELSE now

(* verifiedJwtCache, and getCachedAuth.                                    *)
FoundVerified(q) ==
  /\ phase[q] = "boundary" /\ call[q] = None
  /\ verified > nowMs[q]
  /\ Goes(q, "edge")
  /\ UNCHANGED <<now, credential, retired, caches, nowMs>>

FoundInAuthCache(q) ==
  /\ phase[q] = "edge" /\ call[q] = None
  /\ authCache.until > now
  /\ Goes(q, IF authCache.ok THEN "accepted" ELSE "refused")
  /\ UNCHANGED <<now, credential, retired, caches, nowMs>>

Missed(q) ==
  /\ call[q] = None
  /\ \/ phase[q] = "boundary" /\ verified <= nowMs[q]
     \/ phase[q] = "edge" /\ authCache.until <= now

(* An entry that has run out is deleted when it is found.                  *)
DropVerified(q) == verified' = IF phase[q] = "boundary" THEN 0 ELSE verified

(* Mutant of HasKey: the keys last as long as the isolate.                 *)
HeldKey(q) == jwks[phase[q]].holds

HasKey(q) == jwks[phase[q]].holds /\ jwks[phase[q]].until > Clock(q)

(* jwkForKid: the key is at hand; a key that is missing is fetched again.  *)
KeyIsCached(q) ==
  /\ Missed(q) /\ credential = "jwt" /\ HasKey(q)
  /\ call' = [call EXCEPT ![q] = [backed |-> TRUE, arrived |-> TRUE, until |-> None]]
  /\ DropVerified(q)
  /\ UNCHANGED <<now, credential, retired, jwks, authCache, phase, nowMs>>

(* jwkForKid or the introspection of checkApiKey.                          *)
Fetch(q) ==
  /\ Missed(q) /\ (credential = "jwt" => ~HasKey(q))
  /\ call' = [call EXCEPT ![q] = [backed |-> None, arrived |-> FALSE,
      until |-> IF credential = "api_key" THEN now + MaxFlight ELSE None]]
  /\ DropVerified(q)
  /\ UNCHANGED <<now, credential, retired, jwks, authCache, phase, nowMs>>

ServiceDecides(q) ==
  /\ call[q] # None /\ call[q].backed = None
  /\ call' = [call EXCEPT ![q].backed = retired = None]
  /\ UNCHANGED <<now, credential, retired, caches, phase, nowMs>>

JwksArrives(q) ==
  /\ call[q] # None /\ credential = "jwt" /\ ~call[q].arrived /\ call[q].backed # None
  /\ jwks' = [jwks EXCEPT ![phase[q]] = [holds |-> call[q].backed, until |-> Clock(q) + JwksTtl]]
  /\ call' = [call EXCEPT ![q].arrived = TRUE]
  /\ UNCHANGED <<now, credential, retired, verified, authCache, phase, nowMs>>

Remember(q, ok, ttl) ==
  authCache' = [ok |-> ok, until |-> now + ttl]

IntrospectionArrives(q) ==
  /\ call[q] # None /\ credential = "api_key" /\ call[q].backed # None
  /\ Remember(q, call[q].backed, IF call[q].backed THEN AuthTtl ELSE RefusalTtl)
  /\ Goes(q, IF call[q].backed THEN "accepted" ELSE "refused")
  /\ UNCHANGED <<now, credential, retired, verified, jwks, nowMs>>

(* An API key is then not judged; a JWT is refused, and by the edge for    *)
(* RefusalTtl, whatever was known of it before.                            *)
FetchFails(q) ==
  /\ call[q] # None /\ ~call[q].arrived
  /\ Goes(q, IF credential = "api_key" THEN "unavailable" ELSE "refused")
  /\ IF credential = "jwt" /\ phase[q] = "edge" THEN Remember(q, FALSE, RefusalTtl)
     ELSE UNCHANGED authCache
  /\ UNCHANGED <<now, credential, retired, verified, jwks, nowMs>>

InHand(q) == call[q] # None /\ call[q].arrived

(* A signature holds under the key the token names; claims hold until exp, *)
(* the rest of them being the same for each layer.                         *)
verifyJwtSignature(q) == call[q].backed
validateClaims(q) == nowMs[q] < Expiry      \* of the boundary
validateEdgeClaims(q) == now < Expiry

(* The rest of verifyJwt, after the signature was checked.                 *)
VerifyToken(q) ==
  /\ InHand(q) /\ phase[q] = "boundary"
  /\ IF verifyJwtSignature(q) /\ validateClaims(q)
       THEN verified' = nowMs[q] + Least(Expiry - nowMs[q], JwtTtl) /\ Goes(q, "edge")
       ELSE UNCHANGED verified /\ Goes(q, "refused")
  /\ UNCHANGED <<now, credential, retired, jwks, authCache, nowMs>>

(* The rest of verifyFiduciaJwt.                                           *)
VerifyFiduciaToken(q) ==
  /\ InHand(q) /\ phase[q] = "edge"
  /\ IF verifyJwtSignature(q) /\ validateEdgeClaims(q)
       THEN Remember(q, TRUE, Least(Expiry - now, JwtTtl)) /\ Goes(q, "accepted")
       ELSE Remember(q, FALSE, RefusalTtl) /\ Goes(q, "refused")
  /\ UNCHANGED <<now, credential, retired, verified, jwks, nowMs>>

Next ==
  \/ Tick \/ Retire
  \/ \E q \in Request :
       \/ Enter(q) \/ FoundVerified(q) \/ FoundInAuthCache(q) \/ KeyIsCached(q) \/ Fetch(q)
       \/ ServiceDecides(q) \/ JwksArrives(q) \/ IntrospectionArrives(q) \/ FetchFails(q)
       \/ VerifyToken(q) \/ VerifyFiduciaToken(q)

Spec == Init /\ [][Next]_vars

-----------------------------------------------------------------------------
(* No request is accepted that came long after its credential stopped      *)
(* being backed: for an API key one entry's life and one introspection,    *)
(* for a token the lives of a JWKS and of a verified token, which add up,  *)
(* however late and in whatever order answers arrive; and none that came   *)
(* after the token's exp.  (A life of n ticks ends in the last of them.)   *)
AcceptedIsBacked ==
  \A q \in Request : phase[q] = "accepted" =>
    /\ retired # None =>
         nowMs[q] <= retired + (IF credential = "api_key" THEN MaxFlight + (AuthTtl - 1)
                                ELSE (JwksTtl - 1) + (JwtTtl - 1))
    /\ credential = "jwt" => nowMs[q] < Expiry
=============================================================================
