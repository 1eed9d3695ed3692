-------------------------- MODULE EdgeRevocationProofs --------------------------
(***************************************************************************)
(* authorizeRevocation for any number of keys and requests, any freshness, *)
(* timeout and capacity: allows rest on recent knowledge, and a denial is  *)
(* not taken back.  Both rest on there being one refresh for a key.        *)
(***************************************************************************)
EXTENDS EdgeRevocation, FiniteSetTheorems, TLAPS

(* None is none of the things it stands in for.                            *)
NoneIsNew ==
  /\ None \notin Key /\ None \notin Request
  /\ None \notin Revocation /\ None \notin Entry /\ None \notin Verdict
  /\ None \notin [timer : 0..Timeout, verdict : Verdict \cup {None}]
  /\ None \notin {"allow", "deny", "unavailable", "lost"}

(* Where a request is, and what it has by then.                            *)
Stages ==
  \A q \in Request :
    /\ phase[q] # "new" => key[q] \in Key
    /\ phase[q] # "done" => answer[q] = None

(* A key's refresh is the flight of the request that started it, and       *)
(* whoever waits does so for the refresh of its own key.                   *)
FlightsFit ==
  /\ \A k \in Key : refreshes[k] # None =>
       flight[refreshes[k]] # None /\ key[refreshes[k]] = k
  /\ \A s \in Request : flight[s] # None =>
       /\ phase[s] = "waiting" /\ joined[s] = s
       /\ refreshes[key[s]] = s
  /\ \A q \in Request : phase[q] = "waiting" =>
       /\ joined[q] \in Request /\ key[joined[q]] = key[q]
       /\ flight[joined[q]] # None

Shape == TypeOK /\ Stages /\ FlightsFit

(* An authority that said no would now know of nothing older than the      *)
(* question; t is when it was asked at the latest.                         *)
NothingOlder(k, t) == Stands(k) => authority[k].revokedAt >= t

SaidNo(s) == flight[s] # None /\ flight[s].verdict # None /\ ~flight[s].verdict.revoked

FreshForAWhile ==
  \A k \in Key : revocationCache[k] # None =>
    revocationCache[k].freshUntil = revocationCache[k].observedAt + Freshness

CameBefore ==
  /\ \A q \in Request : nowMs[q] <= now
  /\ \A k \in Key : revocationCache[k] # None => revocationCache[k].observedAt <= now

EntriesHold ==
  \A k \in Key : (revocationCache[k] # None /\ ~revocationCache[k].revoked) =>
    NothingOlder(k, revocationCache[k].observedAt)

AnswersHold ==
  \A s \in Request : SaidNo(s) =>
    /\ NothingOlder(key[s], nowMs[s])
    /\ NothingOlder(key[s], now + flight[s].timer - Timeout)

Times == FreshForAWhile /\ (~setBack => CameBefore /\ EntriesHold /\ AnswersHold)

(* A revocation of the key is known to the isolate, or was.                *)
Denied(k) == \E p \in Request : key[p] = k /\ answer[p] = "deny"
CachedDenial(k) == revocationCache[k] # None /\ revocationCache[k].revoked
FoundDenial(k) == \E q \in Request : key[q] = k /\ phase[q] = "waiting" /\ prior[q]
Known(k) == Denied(k) \/ CachedDenial(k) \/ FoundDenial(k)

(* Denials come from the authority; while the revocation they came from    *)
(* stands, nothing in the isolate says no any more.                        *)
DeniedBefore == \A q \in Request : deniedBefore[q] => Denied(key[q])

Denials ==
  /\ \A k \in Key : Known(k) => authority[k] # None
  /\ \A s \in Request :
       (flight[s] # None /\ flight[s].verdict # None /\ flight[s].verdict.revoked)
         => authority[key[s]] # None
  /\ \A k \in Key : (Known(k) /\ Stands(k)) =>
       /\ revocationCache[k] # None => revocationCache[k].revoked
       /\ \A s \in Request : key[s] = k => ~SaidNo(s)
  /\ DeniedBefore

Inv == Shape /\ Times /\ AllowIsRecent /\ Denials

-----------------------------------------------------------------------------
LEMMA InitInv ==
  ASSUME NoneIsNew, Init
  PROVE  Inv
<1>1. TypeOK
  <2>1. 0 \in 0..MaxTime /\ 0 \in Nat
    BY RevocationConstantsOK
  <2>2. /\ phase \in [Request -> {"new", "keying", "waiting", "done"}]
        /\ answer \in [Request -> {None, "allow", "deny", "unavailable", "lost"}]
        /\ nowMs \in [Request -> Nat]
    BY <2>1 DEF Init
  <2> QED
    BY <2>1, <2>2 DEF Init, TypeOK
<1>2. Stages /\ FlightsFit
  BY DEF Init, Stages, FlightsFit
<1>3. Times
  BY DEF Init, Times, FreshForAWhile, CameBefore, EntriesHold, AnswersHold, SaidNo
<1>4. AllowIsRecent
  BY DEF Init, AllowIsRecent, NoneIsNew
<1>5. Denials
  BY DEF Init, Denials, DeniedBefore, Known, Denied, CachedDenial, FoundDenial, SaidNo, NoneIsNew
<1> QED
  BY <1>1, <1>2, <1>3, <1>4, <1>5 DEF Inv, Shape

LEMMA Durations ==
  /\ Freshness \in Nat /\ Timeout \in Nat /\ Staleness \in Nat
  /\ Staleness >= Freshness /\ Staleness > Timeout
BY RevocationConstantsOK DEF Staleness

LEMMA EntryFields ==
  ASSUME NoneIsNew, TypeOK, NEW k \in Key, revocationCache[k] # None
  PROVE  /\ revocationCache[k].revoked \in BOOLEAN
         /\ revocationCache[k].observedAt \in Nat /\ revocationCache[k].freshUntil \in Nat
BY DEF TypeOK, Entry

LEMMA AuthorityFields ==
  ASSUME NoneIsNew, TypeOK, NEW k \in Key, authority[k] # None
  PROVE  authority[k].revokedAt \in Nat /\ authority[k].stands \in BOOLEAN
BY DEF TypeOK, Revocation

LEMMA FlightFields ==
  ASSUME NoneIsNew, Shape, NEW s \in Request, flight[s] # None
  PROVE  /\ flight[s].timer \in 0..Timeout /\ flight[s].verdict \in Verdict \cup {None}
         /\ flight[s].verdict # None => flight[s].verdict.revoked \in BOOLEAN
         /\ key[s] \in Key /\ nowMs[s] \in Nat
BY DEF Shape, TypeOK, Stages, FlightsFit, Verdict

-----------------------------------------------------------------------------
LEMMA EnterInv ==
  ASSUME NoneIsNew, Inv, NEW q \in Request, NEW k \in Key, Enter(q, k)
  PROVE  Inv'
<1>1. /\ phase[q] = "new"
      /\ key' = [key EXCEPT ![q] = k] /\ nowMs' = [nowMs EXCEPT ![q] = now]
      /\ deniedBefore' = [deniedBefore EXCEPT ![q] = Denied(k)]
      /\ \/ /\ phase' = [phase EXCEPT ![q] = "done"]
            /\ answer' = [answer EXCEPT ![q] = "unavailable"]
            /\ UNCHANGED clockHighWater
         \/ /\ phase' = [phase EXCEPT ![q] = "keying"]
            /\ clockHighWater' = now
            /\ UNCHANGED answer
      /\ UNCHANGED <<now, setBack, authority, revocationCache, refreshes, flight, joined, prior>>
  BY DEF Enter, Denied
<1>2. TypeOK /\ Stages /\ FlightsFit /\ now \in Nat /\ answer[q] = None
  BY <1>1, RevocationConstantsOK DEF Inv, Shape, Stages, TypeOK
<1>3. TypeOK'
  <2>1. Denied(k) \in BOOLEAN
    BY DEF Denied
  <2>2. deniedBefore' \in [Request -> BOOLEAN]
    BY <1>1, <1>2, <2>1 DEF TypeOK
  <2> QED
    BY <1>1, <1>2, <2>2 DEF TypeOK
<1>4. \A p \in Request : phase[p] # "new" => p # q /\ key'[p] = key[p] /\ nowMs'[p] = nowMs[p]
  BY <1>1, <1>2 DEF TypeOK
<1>5. Stages'
  BY <1>1, <1>2 DEF TypeOK, Stages
<1>6. \A s \in Request : flight[s] # None => s # q /\ key'[s] = key[s] /\ nowMs'[s] = nowMs[s]
  BY <1>2, <1>4 DEF FlightsFit
<1>7. FlightsFit'
  <2>1. \A l \in Key : refreshes'[l] # None => flight'[refreshes'[l]] # None /\ key'[refreshes'[l]] = l
    BY <1>1, <1>2, <1>6 DEF FlightsFit, TypeOK
  <2>2. \A s \in Request : flight'[s] # None =>
          phase'[s] = "waiting" /\ joined'[s] = s /\ refreshes'[key'[s]] = s
    BY <1>1, <1>2, <1>6 DEF FlightsFit, TypeOK
  <2>3. \A p \in Request : phase'[p] = "waiting" => p # q /\ phase[p] = "waiting" /\ key'[p] = key[p]
    BY <1>1, <1>2 DEF TypeOK
  <2>4. \A p \in Request : phase'[p] = "waiting" =>
          joined'[p] \in Request /\ key'[joined'[p]] = key'[p] /\ flight'[joined'[p]] # None
    BY <1>1, <1>2, <1>6, <2>3 DEF FlightsFit
  <2> QED
    BY <2>1, <2>2, <2>4 DEF FlightsFit
<1>8. \A s \in Request : SaidNo(s)' <=> SaidNo(s)
  BY <1>1 DEF SaidNo
<1>9. Times'
  <2>1. CameBefore => CameBefore'
    BY <1>1, <1>2 DEF CameBefore, TypeOK
  <2>2. ASSUME AnswersHold PROVE AnswersHold'
    <3> SUFFICES ASSUME NEW s \in Request, SaidNo(s)
                 PROVE  /\ NothingOlder(key[s], nowMs[s])'
                        /\ NothingOlder(key[s], now + flight[s].timer - Timeout)'
      BY <1>8 DEF AnswersHold
    <3>1. key'[s] = key[s] /\ nowMs'[s] = nowMs[s]
      BY <1>6 DEF SaidNo
    <3> QED
      BY <1>1, <2>2, <3>1 DEF AnswersHold, NothingOlder, Stands
  <2>3. EntriesHold => EntriesHold'
    BY <1>1 DEF EntriesHold, NothingOlder, Stands
  <2> QED
    BY <1>1, <2>1, <2>2, <2>3 DEF Inv, Times, FreshForAWhile
<1>10. AllowIsRecent'
  <2>1. \A p \in Request : answer'[p] = "allow" => p # q /\ answer[p] = "allow"
    BY <1>1, <1>2 DEF TypeOK, NoneIsNew
  <2>2. \A p \in Request : answer'[p] = "allow" => key'[p] = key[p] /\ nowMs'[p] = nowMs[p]
    BY <1>1, <2>1
  <2> QED
    BY <1>1, <2>1, <2>2 DEF Inv, AllowIsRecent, Stands
<1>11. \A l \in Key : (Denied(l)' <=> Denied(l)) /\ (Known(l)' <=> Known(l))
  <2>1. \A p \in Request : answer[p] = "deny" => p # q /\ phase[p] = "done"
    BY <1>1, <1>2 DEF Stages, NoneIsNew
  <2>2. \A p \in Request : answer'[p] = "deny" <=> answer[p] = "deny"
    BY <1>1, <1>2 DEF TypeOK, NoneIsNew
  <2>3. \A l \in Key : Denied(l)' <=> Denied(l)
    BY <1>1, <1>4, <2>1, <2>2 DEF Denied
  <2>4. \A p \in Request : phase'[p] = "waiting" <=> phase[p] = "waiting"
    BY <1>1, <1>2 DEF TypeOK
  <2>5. \A l \in Key : FoundDenial(l)' <=> FoundDenial(l)
    BY <1>1, <1>4, <2>4 DEF FoundDenial
  <2> QED
    BY <1>1, <2>3, <2>5 DEF Known, CachedDenial
<1>12. Denials'
  <2>1. \A l \in Key : Known(l)' => authority'[l] # None
    BY <1>1, <1>11 DEF Inv, Denials
  <2>2. \A s \in Request : (flight'[s] # None /\ flight'[s].verdict # None /\ flight'[s].verdict.revoked)
          => authority'[key'[s]] # None
    BY <1>1, <1>6 DEF Inv, Denials
  <2>3. ASSUME NEW l \in Key, Known(l)', Stands(l)'
        PROVE  /\ revocationCache'[l] # None => revocationCache'[l].revoked
               /\ \A s \in Request : key'[s] = l => ~SaidNo(s)'
    <3>1. Known(l) /\ Stands(l)
      BY <1>1, <1>11, <2>3 DEF Stands
    <3>2. \A s \in Request : SaidNo(s) => key'[s] = key[s]
      BY <1>6 DEF SaidNo
    <3> QED
      BY <1>1, <1>8, <3>1, <3>2 DEF Inv, Denials
  <2>4. DeniedBefore'
    <3> SUFFICES ASSUME NEW p \in Request, deniedBefore'[p]
                 PROVE  Denied(key[p])'
      BY DEF DeniedBefore
    <3>1. CASE p = q
      <4>1. Denied(k) /\ key'[p] = k
        BY <1>1, <1>2, <3>1 DEF TypeOK
      <4> QED
        BY <1>11, <4>1
    <3>2. CASE p # q
      <4>1. deniedBefore[p] /\ key'[p] = key[p]
        BY <1>1, <1>2, <3>2 DEF TypeOK
      <4>2. PICK r \in Request : key[r] = key[p] /\ answer[r] = "deny"
        BY <4>1 DEF Inv, Denials, DeniedBefore, Denied
      <4>3. r # q /\ key'[r] = key[r] /\ answer'[r] = "deny"
        BY <1>1, <1>2, <4>2 DEF TypeOK, NoneIsNew
      <4> QED
        BY <4>1, <4>2, <4>3 DEF Denied
    <3> QED
      BY <3>1, <3>2
  <2> QED
    BY <2>1, <2>2, <2>3, <2>4 DEF Denials
<1> QED
  BY <1>3, <1>5, <1>7, <1>9, <1>10, <1>12 DEF Inv, Shape

LEMMA AnswerFromCacheInv ==
  ASSUME NoneIsNew, Inv, NEW q \in Request, AnswerFromCache(q)
  PROVE  Inv'
<1> DEFINE entry == revocationCache[key[q]]
<1>1. /\ phase[q] = "keying" /\ entry # None /\ nowMs[q] < entry.freshUntil
      /\ phase' = [phase EXCEPT ![q] = "done"]
      /\ answer' = [answer EXCEPT ![q] = IF entry.revoked THEN "deny" ELSE "allow"]
      /\ UNCHANGED <<now, setBack, authority, revocationCache, refreshes, flight,
                     clockHighWater, key, nowMs, joined, prior, deniedBefore>>
  BY DEF AnswerFromCache, IsFresh, isolateVars
<1>2. TypeOK /\ Stages /\ FlightsFit /\ key[q] \in Key /\ answer[q] = None /\ nowMs[q] \in Nat
  BY <1>1 DEF Inv, Shape, Stages, TypeOK
<1>3. entry.revoked \in BOOLEAN /\ entry.observedAt \in Nat /\ entry.freshUntil \in Nat
  BY <1>1, <1>2, EntryFields
<1>4. TypeOK'
  BY <1>1, <1>2 DEF TypeOK
<1>5. Stages'
  BY <1>1, <1>2 DEF TypeOK, Stages
<1>6. \A p \in Request : phase'[p] = "waiting" <=> phase[p] = "waiting"
  BY <1>1, <1>2 DEF TypeOK
<1>7. FlightsFit'
  BY <1>1, <1>2, <1>6 DEF FlightsFit
<1>8. Times'
  BY <1>1 DEF Inv, Times, FreshForAWhile, CameBefore, EntriesHold, AnswersHold,
              NothingOlder, Stands, SaidNo
<1>9. AllowIsRecent'
  <2> SUFFICES ASSUME ~setBack, NEW p \in Request, answer'[p] = "allow",
                      Stands(key[p]), authority[key[p]].revokedAt + Staleness <= nowMs[p]
               PROVE  FALSE
    BY <1>1 DEF AllowIsRecent, Stands
  <2>1. CASE p # q
    BY <1>1, <1>2, <2>1 DEF Inv, AllowIsRecent, TypeOK
  <2>2. CASE p = q
    <3>1. ~entry.revoked
      BY <1>1, <1>2, <1>3, <2>2 DEF TypeOK
    <3>2. authority[key[q]].revokedAt >= entry.observedAt
      BY <1>1, <1>2, <2>2, <3>1 DEF Inv, Times, EntriesHold, NothingOlder
    <3>3. entry.freshUntil = entry.observedAt + Freshness
      BY <1>1, <1>2 DEF Inv, Times, FreshForAWhile
    <3>4. authority[key[q]].revokedAt \in Nat
      BY <1>2, <2>2, AuthorityFields DEF Stands
    <3> HIDE DEF entry
    <3> QED
      BY <1>1, <1>2, <1>3, <2>2, <3>2, <3>3, <3>4, Durations
  <2> QED
    BY <2>1, <2>2
<1>10. \A l \in Key : Denied(l) => Denied(l)'
  <2>1. \A p \in Request : answer[p] = "deny" => answer'[p] = "deny"
    BY <1>1, <1>2 DEF TypeOK, NoneIsNew
  <2> QED
    BY <1>1, <2>1 DEF Denied
<1>11. \A l \in Key : Known(l)' => Known(l)
  <2>1. ASSUME NEW l \in Key, Denied(l)' PROVE Known(l)
    <3>1. PICK p \in Request : key[p] = l /\ answer'[p] = "deny"
      BY <1>1, <2>1 DEF Denied
    <3>2. CASE p # q
      BY <1>1, <1>2, <3>1, <3>2 DEF Known, Denied, TypeOK
    <3>3. CASE p = q
      BY <1>1, <1>2, <1>3, <3>1, <3>3 DEF Known, CachedDenial, TypeOK
    <3> QED
      BY <3>2, <3>3
  <2>2. \A l \in Key : FoundDenial(l)' => FoundDenial(l)
    BY <1>1, <1>6 DEF FoundDenial
  <2> QED
    BY <1>1, <2>1, <2>2 DEF Known, CachedDenial
<1>12. Denials'
  <2>1. DeniedBefore'
    BY <1>1, <1>2, <1>10 DEF Inv, Denials, DeniedBefore, Denied
  <2> QED
    BY <1>1, <1>11, <2>1 DEF Inv, Denials, SaidNo, Stands
<1> QED
  BY <1>4, <1>5, <1>7, <1>8, <1>9, <1>12 DEF Inv, Shape

LEMMA AwaitRefreshInv ==
  ASSUME NoneIsNew, Inv, NEW q \in Request, AwaitRefresh(q)
  PROVE  Inv'
<1> DEFINE entry == revocationCache[key[q]]
           started == [flight EXCEPT ![q] = [timer |-> Timeout, verdict |-> None]]
<1>1. /\ phase[q] = "keying"
      /\ prior' = [prior EXCEPT ![q] = IF entry = None THEN FALSE ELSE entry.revoked]
      /\ phase' = [phase EXCEPT ![q] = "waiting"]
      /\ UNCHANGED <<now, setBack, authority, revocationCache, clockHighWater,
                     key, nowMs, answer, deniedBefore>>
  BY DEF AwaitRefresh
<1>2. \/ /\ refreshes[key[q]] # None
         /\ joined' = [joined EXCEPT ![q] = refreshes[key[q]]]
         /\ UNCHANGED <<refreshes, flight>>
      \/ /\ refreshes[key[q]] = None
         /\ joined' = [joined EXCEPT ![q] = q]
         /\ refreshes' = [refreshes EXCEPT ![key[q]] = q]
         /\ flight' = started
  BY DEF AwaitRefresh, JoinOrStart
<1>3. /\ TypeOK /\ Stages /\ FlightsFit /\ key[q] \in Key /\ answer[q] = None
      /\ flight[q] = None
  BY <1>1 DEF Inv, Shape, Stages, FlightsFit
<1>4. (entry # None => entry.revoked \in BOOLEAN) /\ Timeout \in 0..Timeout
  BY <1>3, EntryFields, Durations
<1>5. TypeOK'
  <2>1. [timer |-> Timeout, verdict |-> None] \in [timer : 0..Timeout, verdict : Verdict \cup {None}]
    BY <1>4
  <2>2. /\ prior' \in [Request -> BOOLEAN]
        /\ phase' \in [Request -> {"new", "keying", "waiting", "done"}]
    BY <1>1, <1>3, <1>4 DEF TypeOK
  <2>3. /\ joined' \in [Request -> Request \cup {None}]
        /\ refreshes' \in [Key -> Request \cup {None}]
    BY <1>2, <1>3 DEF TypeOK
  <2>4. flight' \in [Request -> [timer : 0..Timeout, verdict : Verdict \cup {None}] \cup {None}]
    BY <1>2, <1>3, <2>1 DEF TypeOK
  <2> QED
    BY <1>1, <1>3, <2>2, <2>3, <2>4 DEF TypeOK
<1>6. Stages'
  BY <1>1, <1>3 DEF TypeOK, Stages
<1>7. [timer |-> Timeout, verdict |-> None] # None
  BY <1>4 DEF NoneIsNew
<1>8. None \notin Request
  BY DEF NoneIsNew
<1>9. FlightsFit'
  <2>1. \A p \in Request : /\ p # q => /\ phase'[p] = phase[p] /\ joined'[p] = joined[p]
                                       /\ flight'[p] = flight[p]
                           /\ flight[p] # None => flight'[p] # None
    BY <1>1, <1>2, <1>3, <1>7 DEF TypeOK
  <2>2. \A l \in Key : refreshes'[l] # None => flight'[refreshes'[l]] # None /\ key[refreshes'[l]] = l
    <3> TAKE l \in Key
    <3>1. CASE refreshes'[l] = refreshes[l]
      BY <1>3, <2>1, <3>1 DEF FlightsFit, TypeOK
    <3>2. CASE refreshes'[l] # refreshes[l]
      <4>1. l = key[q] /\ refreshes'[l] = q /\ flight'[q] # None
        BY <1>2, <1>3, <1>7, <3>2 DEF TypeOK
      <4> QED
        BY <4>1
    <3> QED
      BY <3>1, <3>2
  <2>3. \A s \in Request : flight'[s] # None =>
          phase'[s] = "waiting" /\ joined'[s] = s /\ refreshes'[key[s]] = s
    <3> TAKE s \in Request
    <3>1. CASE s = q
      BY <1>1, <1>2, <1>3, <3>1 DEF TypeOK
    <3>2. CASE s # q /\ flight[s] # None
      <4>1. phase[s] = "waiting" /\ joined[s] = s /\ refreshes[key[s]] = s /\ key[s] \in Key
        BY <1>3, <3>2 DEF FlightsFit, Stages
      <4>2. refreshes'[key[s]] = refreshes[key[s]]
        BY <1>2, <1>3, <1>8, <4>1 DEF TypeOK
      <4> QED
        BY <2>1, <3>2, <4>1, <4>2
    <3> QED
      BY <2>1, <3>1, <3>2
  <2>4. \A p \in Request : phase'[p] = "waiting" =>
          joined'[p] \in Request /\ key[joined'[p]] = key[p] /\ flight'[joined'[p]] # None
    <3> TAKE p \in Request
    <3>1. CASE p # q
      BY <1>3, <2>1, <3>1 DEF FlightsFit
    <3>2. CASE p = q /\ refreshes[key[q]] # None
      <4>1. joined'[q] = refreshes[key[q]] /\ refreshes[key[q]] \in Request
        BY <1>2, <1>3, <3>2 DEF TypeOK
      <4> QED
        BY <1>3, <2>1, <3>2, <4>1 DEF FlightsFit
    <3>3. CASE p = q /\ refreshes[key[q]] = None
      BY <1>2, <1>3, <1>7, <3>3 DEF TypeOK
    <3> QED
      BY <3>1, <3>2, <3>3
  <2> QED
    BY <1>1, <2>2, <2>3, <2>4 DEF FlightsFit
<1>10. \A s \in Request :
         /\ SaidNo(s)' => SaidNo(s) /\ flight'[s] = flight[s]
         /\ (flight'[s] # None /\ flight'[s].verdict # None) => flight'[s] = flight[s]
  BY <1>2, <1>3 DEF SaidNo, TypeOK
<1>11. Times'
  <2>1. AnswersHold => AnswersHold'
    BY <1>1, <1>10 DEF AnswersHold, NothingOlder, Stands
  <2> QED
    BY <1>1, <2>1 DEF Inv, Times, FreshForAWhile, CameBefore, EntriesHold, NothingOlder, Stands
<1>12. AllowIsRecent'
  BY <1>1 DEF Inv, AllowIsRecent, Stands
<1>13. \A l \in Key : Known(l)' => Known(l)
  <2> SUFFICES ASSUME NEW l \in Key, FoundDenial(l)'
               PROVE  Known(l)
    BY <1>1 DEF Known, Denied, CachedDenial
  <2>1. PICK p \in Request : key[p] = l /\ phase'[p] = "waiting" /\ prior'[p]
    BY <1>1 DEF FoundDenial
  <2>2. CASE p # q
    BY <1>1, <1>3, <2>1, <2>2 DEF Known, FoundDenial, TypeOK
  <2>3. CASE p = q
    BY <1>1, <1>3, <2>1, <2>3 DEF Known, CachedDenial, TypeOK
  <2> QED
    BY <2>2, <2>3
<1>14. Denials'
  <2>1. DeniedBefore'
    BY <1>1 DEF Inv, Denials, DeniedBefore, Denied
  <2> QED
    BY <1>1, <1>10, <1>13, <2>1 DEF Inv, Denials, Stands
<1> QED
  BY <1>5, <1>6, <1>9, <1>11, <1>12, <1>14 DEF Inv, Shape

LEMMA AuthorityDecidesInv ==
  ASSUME NoneIsNew, Inv, NEW s \in Request, AuthorityDecides(s)
  PROVE  Inv'
<1> DEFINE verdict == IF Stands(key[s])
                        THEN [revoked |-> TRUE, expiresAt |-> authority[key[s]].expiresAt]
                        ELSE [revoked |-> FALSE, expiresAt |-> None]
<1>1. /\ flight[s] # None /\ flight[s].verdict = None
      /\ flight' = [flight EXCEPT ![s].verdict = verdict]
      /\ UNCHANGED <<now, setBack, authority, revocationCache, refreshes, clockHighWater,
                     phase, key, nowMs, joined, prior, answer, deniedBefore>>
  BY DEF AuthorityDecides, requestVars
<1>2. TypeOK /\ Stages /\ FlightsFit /\ key[s] \in Key /\ flight[s].timer \in 0..Timeout
  BY <1>1, FlightFields DEF Inv, Shape
<1>3. /\ verdict \in Verdict /\ (~verdict.revoked => ~Stands(key[s]))
      /\ verdict.revoked => authority[key[s]] # None
  BY <1>2 DEF TypeOK, Revocation, Verdict, Stands
<1>4. /\ flight'[s] = [timer |-> flight[s].timer, verdict |-> verdict]
      /\ \A t \in Request \ {s} : flight'[t] = flight[t]
      /\ flight' \in [Request -> [timer : 0..Timeout, verdict : Verdict \cup {None}] \cup {None}]
  <2> HIDE DEF verdict
  <2> QED
    BY <1>1, <1>2, <1>3 DEF TypeOK
<1>5. TypeOK'
  BY <1>1, <1>2, <1>4 DEF TypeOK
<1>6. Stages'
  BY <1>1, <1>2 DEF Stages
<1>7. FlightsFit'
  <2> HIDE DEF verdict
  <2>1. flight'[s] # None
    BY <1>2, <1>3, <1>4 DEF NoneIsNew
  <2>2. \A t \in Request : flight'[t] # None <=> flight[t] # None
    BY <1>1, <1>4, <2>1
  <2>3. \A l \in Key : refreshes[l] # None => refreshes[l] \in Request
    BY <1>2 DEF TypeOK
  <2> QED
    BY <1>1, <1>2, <2>2, <2>3 DEF FlightsFit
<1>8. \A t \in Request : SaidNo(t)' => (t # s /\ SaidNo(t)) \/ (t = s /\ ~Stands(key[s]))
  <2> HIDE DEF verdict
  <2> QED
    BY <1>3, <1>4 DEF SaidNo
<1>9. Times'
  <2>1. AnswersHold => AnswersHold'
    BY <1>1, <1>4, <1>8 DEF AnswersHold, NothingOlder, Stands
  <2> QED
    BY <1>1, <2>1 DEF Inv, Times, FreshForAWhile, CameBefore, EntriesHold, NothingOlder, Stands
<1>10. AllowIsRecent'
  BY <1>1 DEF Inv, AllowIsRecent, Stands
<1>11. Denials'
  <2>1. DeniedBefore' /\ (\A l \in Key : Known(l)' <=> Known(l))
    BY <1>1 DEF Inv, Denials, DeniedBefore, Known, Denied, CachedDenial, FoundDenial
  <2>2. \A t \in Request : (flight'[t] # None /\ flight'[t].verdict # None /\ flight'[t].verdict.revoked)
          => authority[key[t]] # None
    <3> TAKE t \in Request
    <3>1. CASE t = s
      <4> HIDE DEF verdict
      <4> QED
        BY <1>3, <1>4, <3>1
    <3>2. CASE t # s
      BY <1>4, <3>2 DEF Inv, Denials
    <3> QED
      BY <3>1, <3>2
  <2> QED
    BY <1>1, <1>8, <2>1, <2>2 DEF Inv, Denials, Stands
<1> QED
  BY <1>5, <1>6, <1>7, <1>9, <1>10, <1>11 DEF Inv, Shape

-----------------------------------------------------------------------------
(* What a settled refresh does to the requests, whichever way it ended.    *)
LEMMA SettleShape ==
  ASSUME NoneIsNew, Shape, NEW s \in Request, flight[s] # None,
         NEW kind \in [Request -> {"allow", "deny", "unavailable"}], Settle(s, kind),
         UNCHANGED <<now, setBack, authority, clockHighWater>>,
         revocationCache' \in [Key -> Entry \cup {None}]
  PROVE  /\ Shape'
         /\ \A q \in Request : phase'[q] = "waiting" =>
              phase[q] = "waiting" /\ prior'[q] = prior[q]
         /\ \A q \in Request : answer'[q] = answer[q] \/
              (answer'[q] = kind[q] /\ answer[q] = None /\ phase[q] = "waiting" /\ key[q] = key[s])
         /\ \A t \in Request : flight'[t] # None =>
              flight'[t] = flight[t] /\ key[t] # key[s]
         /\ UNCHANGED <<key, nowMs, deniedBefore>>
<1> DEFINE waits(q) == phase[q] = "waiting" /\ joined[q] = s
<1>1. TypeOK /\ Stages /\ FlightsFit
  BY DEF Shape
<1>2. /\ \A q \in Request : /\ phase'[q] = IF waits(q) THEN "done" ELSE phase[q]
                            /\ answer'[q] = IF waits(q) THEN kind[q] ELSE answer[q]
                            /\ joined'[q] = IF waits(q) THEN None ELSE joined[q]
                            /\ prior'[q] = IF waits(q) THEN FALSE ELSE prior[q]
      /\ flight' = [flight EXCEPT ![s] = None]
      /\ \A k \in Key : refreshes'[k] = IF refreshes[k] = s THEN None ELSE refreshes[k]
      /\ UNCHANGED <<key, nowMs, deniedBefore>>
  BY DEF Settle
<1>3. TypeOK'
  <2>1. /\ phase' \in [Request -> {"new", "keying", "waiting", "done"}]
        /\ answer' \in [Request -> {None, "allow", "deny", "unavailable", "lost"}]
    BY <1>1 DEF Settle, TypeOK
  <2>2. /\ joined' \in [Request -> Request \cup {None}]
        /\ refreshes' \in [Key -> Request \cup {None}]
    BY <1>1 DEF Settle, TypeOK
  <2>3. prior' \in [Request -> BOOLEAN]
    BY <1>1 DEF Settle, TypeOK
  <2>4. flight' \in [Request -> [timer : 0..Timeout, verdict : Verdict \cup {None}] \cup {None}]
    BY <1>1, <1>2 DEF TypeOK
  <2> QED
    BY <1>1, <1>2, <2>1, <2>2, <2>3, <2>4 DEF TypeOK
<1>4. Stages'
  BY <1>1, <1>2 DEF Stages
<1>5. \A t \in Request : flight'[t] # None => t # s /\ flight'[t] = flight[t] /\ key[t] # key[s]
  <2> SUFFICES ASSUME NEW t \in Request, flight'[t] # None
               PROVE  t # s /\ flight'[t] = flight[t] /\ key[t] # key[s]
    OBVIOUS
  <2>1. t # s /\ flight'[t] = flight[t]
    BY <1>1, <1>2 DEF TypeOK
  <2> QED
    BY <1>1, <2>1 DEF FlightsFit
<1>6. FlightsFit'
  <2>1. \A k \in Key : refreshes'[k] # None => flight'[refreshes'[k]] # None /\ key[refreshes'[k]] = k
    <3> SUFFICES ASSUME NEW k \in Key, refreshes'[k] # None
                 PROVE  flight'[refreshes'[k]] # None /\ key[refreshes'[k]] = k
      OBVIOUS
    <3>1. refreshes'[k] = refreshes[k] /\ refreshes[k] # s /\ refreshes[k] \in Request
      BY <1>1, <1>2 DEF TypeOK
    <3>2. flight'[refreshes[k]] = flight[refreshes[k]]
      BY <1>1, <1>2, <3>1 DEF TypeOK
    <3> QED
      BY <1>1, <3>1, <3>2 DEF FlightsFit
  <2>2. \A t \in Request : flight'[t] # None =>
          phase'[t] = "waiting" /\ joined'[t] = t /\ refreshes'[key[t]] = t
    <3> SUFFICES ASSUME NEW t \in Request, flight'[t] # None
                 PROVE  phase'[t] = "waiting" /\ joined'[t] = t /\ refreshes'[key[t]] = t
      OBVIOUS
    <3>1. t # s /\ flight[t] # None
      BY <1>5
    <3>2. phase[t] = "waiting" /\ joined[t] = t /\ refreshes[key[t]] = t /\ key[t] \in Key
      BY <1>1, <3>1 DEF FlightsFit, Stages
    <3> QED
      BY <1>2, <3>1, <3>2
  <2>3. \A q \in Request : phase'[q] = "waiting" =>
          joined'[q] \in Request /\ key[joined'[q]] = key[q] /\ flight'[joined'[q]] # None
    <3> SUFFICES ASSUME NEW q \in Request, phase'[q] = "waiting"
                 PROVE  joined'[q] \in Request /\ key[joined'[q]] = key[q] /\ flight'[joined'[q]] # None
      OBVIOUS
    <3>1. phase[q] = "waiting" /\ joined'[q] = joined[q] /\ joined[q] # s
      BY <1>2
    <3>2. joined[q] \in Request /\ key[joined[q]] = key[q] /\ flight[joined[q]] # None
      BY <1>1, <3>1 DEF FlightsFit
    <3> QED
      BY <1>1, <1>2, <3>1, <3>2 DEF TypeOK
  <2> QED
    BY <1>2, <2>1, <2>2, <2>3 DEF FlightsFit
<1>7. \A q \in Request : phase'[q] = "waiting" => phase[q] = "waiting" /\ prior'[q] = prior[q]
  BY <1>2
<1>8. \A q \in Request : waits(q) => answer[q] = None /\ key[q] = key[s]
  BY <1>1 DEF Stages, FlightsFit
<1> QED
  BY <1>2, <1>3, <1>4, <1>5, <1>6, <1>7, <1>8 DEF Shape

LEMMA RefreshSucceedsInv ==
  ASSUME NoneIsNew, Inv, NEW s \in Request, RefreshSucceeds(s)
  PROVE  Inv'
<1> DEFINE verdict == flight[s].verdict
           entry == [revoked |-> verdict.revoked, expiresAt |-> verdict.expiresAt,
                     observedAt |-> nowMs[s], freshUntil |-> nowMs[s] + Freshness]
           kind == [q \in Request |-> IF verdict.revoked THEN "deny" ELSE "allow"]
<1>1. /\ flight[s] # None /\ verdict # None
      /\ InstallDecision(key[s], entry) /\ Settle(s, kind)
      /\ UNCHANGED <<now, setBack, authority, clockHighWater>>
  BY DEF RefreshSucceeds
<1>2. /\ TypeOK /\ Stages /\ FlightsFit /\ key[s] \in Key /\ nowMs[s] \in Nat
      /\ flight[s].timer \in 0..Timeout /\ verdict \in Verdict
  BY <1>1, FlightFields DEF Inv, Shape
<1>3. entry \in Entry
  BY <1>2, Durations DEF Entry, Verdict
<1>4. /\ revocationCache' \in [Key -> Entry \cup {None}]
      /\ revocationCache'[key[s]] = entry
      /\ \A k \in Key \ {key[s]} : revocationCache'[k] \in {None, revocationCache[k]}
  <2> HIDE DEF entry
  <2>1. PICK gone : revocationCache' = [x \in Key |-> IF x = key[s] THEN entry
                                          ELSE IF x \in gone THEN None ELSE revocationCache[x]]
    BY <1>1 DEF InstallDecision
  <2> QED
    BY <1>2, <1>3, <2>1 DEF TypeOK
<1>5. kind \in [Request -> {"allow", "deny", "unavailable"}]
  OBVIOUS
<1>6. /\ Shape'
      /\ \A q \in Request : phase'[q] = "waiting" =>
           phase[q] = "waiting" /\ prior'[q] = prior[q]
      /\ \A q \in Request : answer'[q] = answer[q] \/
           (answer'[q] = kind[q] /\ answer[q] = None /\ phase[q] = "waiting" /\ key[q] = key[s])
      /\ \A t \in Request : flight'[t] # None => flight'[t] = flight[t] /\ key[t] # key[s]
      /\ UNCHANGED <<key, nowMs, deniedBefore>>
  <2> HIDE DEF kind
  <2> QED
    BY <1>1, <1>4, <1>5, SettleShape DEF Inv
<1>7. \A t \in Request : SaidNo(t)' => SaidNo(t) /\ flight'[t] = flight[t]
  BY <1>6 DEF SaidNo
<1>8. ~verdict.revoked => SaidNo(s)
  BY <1>1 DEF SaidNo
<1>9. Times'
  <2>1. FreshForAWhile'
    BY <1>4 DEF Inv, Times, FreshForAWhile
  <2>2. CameBefore => CameBefore'
    BY <1>1, <1>2, <1>4, <1>6 DEF CameBefore
  <2>3. ASSUME EntriesHold, AnswersHold PROVE EntriesHold'
    BY <1>1, <1>2, <1>4, <1>8, <2>3 DEF EntriesHold, AnswersHold, NothingOlder, Stands
  <2>4. AnswersHold => AnswersHold'
    BY <1>1, <1>6, <1>7 DEF AnswersHold, NothingOlder, Stands
  <2> QED
    BY <1>1, <2>1, <2>2, <2>3, <2>4 DEF Inv, Times
<1>10. AllowIsRecent'
  <2> SUFFICES ASSUME ~setBack, NEW p \in Request, answer'[p] = "allow",
                      Stands(key[p]), authority[key[p]].revokedAt + Staleness <= nowMs[p]
               PROVE  FALSE
    BY <1>1, <1>6 DEF AllowIsRecent, Stands
  <2>1. CASE answer'[p] = answer[p]
    BY <2>1 DEF Inv, AllowIsRecent
  <2>2. CASE answer'[p] # answer[p]
    <3>1. answer'[p] = kind[p] /\ key[p] = key[s]
      BY <1>6, <2>2
    <3>2. ~verdict.revoked
      BY <3>1
    <3>3. /\ authority[key[s]].revokedAt >= now + flight[s].timer - Timeout
          /\ nowMs[p] <= now
      BY <1>2, <1>8, <3>1, <3>2 DEF Inv, Times, AnswersHold, NothingOlder, CameBefore
    <3>4. authority[key[s]].revokedAt \in Nat /\ nowMs[p] \in Nat /\ now \in Nat
      BY <1>2, <3>1, AuthorityFields, RevocationConstantsOK DEF Stands, TypeOK
    <3>5. flight[s].timer \in Nat
      BY <1>2, Durations
    <3> QED
      BY <3>1, <3>3, <3>4, <3>5, Durations
  <2> QED
    BY <2>1, <2>2
<1>11. \A l \in Key : Denied(l) => Denied(l)'
  BY <1>6 DEF Denied, NoneIsNew
<1>12. \A l \in Key : Known(l)' => Known(l) \/ (l = key[s] /\ verdict.revoked)
  <2>1. \A l \in Key : Denied(l)' => Denied(l) \/ (l = key[s] /\ verdict.revoked)
    BY <1>6 DEF Denied
  <2>2. \A l \in Key : CachedDenial(l)' => CachedDenial(l) \/ (l = key[s] /\ verdict.revoked)
    BY <1>4 DEF CachedDenial
  <2>3. \A l \in Key : FoundDenial(l)' => FoundDenial(l)
    BY <1>6 DEF FoundDenial
  <2> QED
    BY <2>1, <2>2, <2>3 DEF Known
<1>13. Denials'
  <2>1. DeniedBefore'
    <3> SUFFICES ASSUME NEW q \in Request, deniedBefore[q]
                 PROVE  Denied(key[q])'
      BY <1>6 DEF DeniedBefore, Denied
    <3>1. PICK r \in Request : key[r] = key[q] /\ answer[r] = "deny"
      BY DEF Inv, Denials, DeniedBefore, Denied
    <3> QED
      BY <1>6, <3>1 DEF Denied, NoneIsNew
  <2>2. \A l \in Key : Known(l)' => authority[l] # None
    BY <1>1, <1>12 DEF Inv, Denials
  <2>3. ASSUME NEW l \in Key, Known(l)', Stands(l)
        PROVE  /\ revocationCache'[l] # None => revocationCache'[l].revoked
               /\ \A t \in Request : key[t] = l => ~SaidNo(t)'
    <3>1. CASE l = key[s]
      <4>1. verdict.revoked
        BY <1>8, <1>12, <2>3, <3>1 DEF Inv, Denials
      <4>2. \A t \in Request : key[t] = l => ~SaidNo(t)'
        BY <1>6, <3>1 DEF SaidNo
      <4> QED
        BY <1>4, <3>1, <4>1, <4>2
    <3>2. CASE l # key[s]
      <4>1. Known(l)
        BY <1>12, <2>3, <3>2
      <4>2. /\ revocationCache[l] # None => revocationCache[l].revoked
            /\ \A t \in Request : key[t] = l => ~SaidNo(t)
        BY <2>3, <4>1 DEF Inv, Denials
      <4> QED
        BY <1>4, <1>7, <3>2, <4>2
    <3> QED
      BY <3>1, <3>2
  <2> QED
    BY <1>1, <1>6, <2>1, <2>2, <2>3 DEF Inv, Denials, Stands
<1> QED
  BY <1>6, <1>9, <1>10, <1>13 DEF Inv

LEMMA RefreshFailsInv ==
  ASSUME NoneIsNew, Inv, NEW s \in Request, RefreshFails(s)
  PROVE  Inv'
<1> DEFINE kind == [q \in Request |-> IF prior[q] THEN "deny" ELSE "unavailable"]
<1>1. /\ flight[s] # None /\ Settle(s, kind)
      /\ UNCHANGED <<now, setBack, authority, revocationCache, clockHighWater>>
  BY DEF RefreshFails
<1>2. TypeOK /\ Stages /\ FlightsFit /\ kind \in [Request -> {"allow", "deny", "unavailable"}]
  BY DEF Inv, Shape
<1>3. /\ Shape'
      /\ \A q \in Request : phase'[q] = "waiting" =>
           phase[q] = "waiting" /\ prior'[q] = prior[q]
      /\ \A q \in Request : answer'[q] = answer[q] \/
           (answer'[q] = kind[q] /\ answer[q] = None /\ phase[q] = "waiting" /\ key[q] = key[s])
      /\ \A t \in Request : flight'[t] # None => flight'[t] = flight[t] /\ key[t] # key[s]
      /\ UNCHANGED <<key, nowMs, deniedBefore>>
  <2> HIDE DEF kind
  <2>1. revocationCache' \in [Key -> Entry \cup {None}]
    BY <1>1, <1>2 DEF TypeOK
  <2> QED
    BY <1>1, <1>2, <2>1, SettleShape DEF Inv
<1>4. \A t \in Request : SaidNo(t)' => SaidNo(t) /\ flight'[t] = flight[t]
  BY <1>3 DEF SaidNo
<1>5. Times'
  BY <1>1, <1>3, <1>4 DEF Inv, Times, FreshForAWhile, CameBefore, EntriesHold, AnswersHold,
                          NothingOlder, Stands
<1>6. AllowIsRecent'
  <2>1. \A p \in Request : answer'[p] = "allow" => answer[p] = "allow"
    BY <1>3
  <2> QED
    BY <1>1, <1>3, <2>1 DEF Inv, AllowIsRecent, Stands
<1>7. \A l \in Key : Known(l)' => Known(l)
  <2>1. \A l \in Key : Denied(l)' => Denied(l) \/ FoundDenial(l)
    BY <1>3 DEF Denied, FoundDenial
  <2>2. \A l \in Key : FoundDenial(l)' => FoundDenial(l)
    BY <1>3 DEF FoundDenial
  <2> QED
    BY <1>1, <2>1, <2>2 DEF Known, CachedDenial
<1>8. Denials'
  <2>1. DeniedBefore'
    <3> SUFFICES ASSUME NEW q \in Request, deniedBefore[q]
                 PROVE  Denied(key[q])'
      BY <1>3 DEF DeniedBefore, Denied
    <3>1. PICK r \in Request : key[r] = key[q] /\ answer[r] = "deny"
      BY DEF Inv, Denials, DeniedBefore, Denied
    <3> QED
      BY <1>3, <3>1 DEF Denied, NoneIsNew
  <2> QED
    BY <1>1, <1>3, <1>4, <1>7, <2>1 DEF Inv, Denials, Stands
<1> QED
  BY <1>3, <1>5, <1>6, <1>8 DEF Inv

-----------------------------------------------------------------------------
LEMMA RevokeInv ==
  ASSUME NoneIsNew, Inv, NEW k \in Key, NEW life \in Lifetimes, Revoke(k, life)
  PROVE  Inv'
<1> DEFINE revocation == [revokedAt |-> now, expiresAt |-> now + life, stands |-> TRUE]
<1>1. /\ authority[k] = None /\ authority' = [authority EXCEPT ![k] = revocation]
      /\ UNCHANGED <<now, setBack, revocationCache, refreshes, flight, clockHighWater,
                     phase, key, nowMs, joined, prior, answer, deniedBefore>>
  BY DEF Revoke, isolateVars, requestVars
<1>2. TypeOK /\ Stages /\ FlightsFit /\ now \in Nat /\ life \in Nat
  BY RevocationConstantsOK DEF Inv, Shape, TypeOK
<1>3. revocation \in Revocation
  BY <1>2 DEF Revocation
<1>4. /\ authority'[k] = revocation /\ revocation.revokedAt = now
      /\ \A l \in Key \ {k} : authority'[l] = authority[l]
      /\ authority' \in [Key -> Revocation \cup {None}]
  <2> HIDE DEF revocation
  <2>1. revocation.revokedAt = now
    BY DEF revocation
  <2> QED
    BY <1>1, <1>2, <1>3, <2>1 DEF TypeOK
<1> HIDE DEF revocation
<1>5. Shape'
  BY <1>1, <1>2, <1>4 DEF Shape, TypeOK, Stages, FlightsFit
<1>6. \A t : \A l \in Key : (NothingOlder(l, t) /\ t <= now) => NothingOlder(l, t)'
  BY <1>1, <1>4 DEF NothingOlder, Stands
<1>7. Times'
  <2>1. ASSUME CameBefore, EntriesHold PROVE EntriesHold'
    BY <1>1, <1>6, <2>1 DEF EntriesHold, CameBefore, NothingOlder, Stands
  <2>2. ASSUME CameBefore, AnswersHold PROVE AnswersHold'
    <3> SUFFICES ASSUME NEW s \in Request, SaidNo(s)
                 PROVE  /\ NothingOlder(key[s], nowMs[s])'
                        /\ NothingOlder(key[s], now + flight[s].timer - Timeout)'
      BY <1>1 DEF AnswersHold, SaidNo
    <3>1. key[s] \in Key /\ nowMs[s] <= now /\ flight[s].timer \in 0..Timeout
      BY <2>2, FlightFields DEF Inv, CameBefore, SaidNo
    <3>2. now + flight[s].timer - Timeout <= now
      BY <1>2, <3>1, Durations
    <3> QED
      BY <1>1, <1>6, <2>2, <3>1, <3>2 DEF AnswersHold, NothingOlder, Stands
  <2> QED
    BY <1>1, <2>1, <2>2 DEF Inv, Times, FreshForAWhile, CameBefore
<1>8. AllowIsRecent'
  <2> SUFFICES ASSUME ~setBack, NEW p \in Request, answer[p] = "allow", Stands(key[p])',
                      authority'[key[p]].revokedAt + Staleness <= nowMs[p]
               PROVE  FALSE
    BY <1>1 DEF AllowIsRecent, Stands
  <2>1. phase[p] # "new" /\ key[p] \in Key
    BY <1>2 DEF Stages, NoneIsNew
  <2>2. CASE key[p] = k
    <3>1. nowMs[p] <= now /\ nowMs[p] \in Nat
      BY <1>2 DEF Inv, Times, CameBefore, TypeOK
    <3> QED
      BY <1>2, <1>4, <2>2, <3>1, Durations
  <2>3. CASE key[p] # k
    BY <1>1, <1>4, <2>1, <2>3 DEF Inv, AllowIsRecent, Stands
  <2> QED
    BY <2>2, <2>3
<1>9. Denials'
  <2>1. \A l \in Key : Known(l)' <=> Known(l)
    BY <1>1 DEF Known, Denied, CachedDenial, FoundDenial
  <2>2. ~Known(k) /\ \A s \in Request :
          (flight[s] # None /\ flight[s].verdict # None /\ flight[s].verdict.revoked) => key[s] # k
    BY <1>1 DEF Inv, Denials
  <2>3. DeniedBefore'
    BY <1>1 DEF Inv, Denials, DeniedBefore, Denied
  <2>4. \A s \in Request : flight[s] # None => key[s] \in Key
    BY FlightFields DEF Inv
  <2>5. \A l \in Key : Known(l) => l # k /\ authority'[l] = authority[l] /\ authority[l] # None
    BY <1>4, <2>2 DEF Inv, Denials
  <2>6. \A s \in Request : (flight[s] # None /\ flight[s].verdict # None /\ flight[s].verdict.revoked)
          => authority'[key[s]] # None
    BY <1>4, <2>2, <2>4 DEF Inv, Denials
  <2>7. ASSUME NEW l \in Key, Known(l), Stands(l)'
        PROVE  /\ revocationCache[l] # None => revocationCache[l].revoked
               /\ \A s \in Request : key[s] = l => ~SaidNo(s)
    BY <2>5, <2>7 DEF Inv, Denials, Stands
  <2> QED
    BY <1>1, <2>1, <2>3, <2>5, <2>6, <2>7 DEF Denials, SaidNo
<1> QED
  BY <1>5, <1>7, <1>8, <1>9 DEF Inv

LEMMA LapseInv ==
  ASSUME NoneIsNew, Inv, NEW k \in Key, Lapse(k)
  PROVE  Inv'
<1>1. /\ authority[k] # None /\ authority' = [authority EXCEPT ![k].stands = FALSE]
      /\ UNCHANGED <<now, setBack, revocationCache, refreshes, flight, clockHighWater,
                     phase, key, nowMs, joined, prior, answer, deniedBefore>>
  BY DEF Lapse, Stands, isolateVars, requestVars
<1>2. TypeOK /\ Stages /\ FlightsFit /\ authority[k] \in Revocation
  BY <1>1 DEF Inv, Shape, TypeOK
<1>3. /\ authority'[k] \in Revocation /\ ~authority'[k].stands
      /\ \A l \in Key \ {k} : authority'[l] = authority[l]
      /\ authority' \in [Key -> Revocation \cup {None}]
  BY <1>1, <1>2 DEF TypeOK, Revocation
<1>4. /\ \A l \in Key : Stands(l)' => Stands(l) /\ authority'[l] = authority[l]
      /\ \A l \in Key : authority[l] # None => authority'[l] # None
  BY <1>3 DEF Stands, NoneIsNew
<1>5. Shape'
  BY <1>1, <1>2, <1>3 DEF Shape, TypeOK, Stages, FlightsFit
<1>6. \A s \in Request : flight[s] # None => key[s] \in Key
  BY FlightFields DEF Inv
<1>7. Times'
  <2>1. EntriesHold => EntriesHold'
    BY <1>1, <1>4 DEF EntriesHold, NothingOlder
  <2>2. AnswersHold => AnswersHold'
    BY <1>1, <1>4, <1>6 DEF AnswersHold, NothingOlder, SaidNo
  <2> QED
    BY <1>1, <2>1, <2>2 DEF Inv, Times, FreshForAWhile, CameBefore
<1>8. AllowIsRecent'
  <2>1. \A p \in Request : answer[p] = "allow" => key[p] \in Key
    BY <1>2 DEF Stages, NoneIsNew
  <2> QED
    BY <1>1, <1>4, <2>1 DEF Inv, AllowIsRecent
<1>9. Denials'
  <2>1. (\A l \in Key : Known(l)' <=> Known(l)) /\ DeniedBefore'
    BY <1>1 DEF Inv, Denials, DeniedBefore, Known, Denied, CachedDenial, FoundDenial
  <2> QED
    BY <1>1, <1>4, <1>6, <2>1 DEF Inv, Denials, SaidNo
<1> QED
  BY <1>5, <1>7, <1>8, <1>9 DEF Inv

LEMMA TickInv ==
  ASSUME NoneIsNew, Inv, Tick
  PROVE  Inv'
<1>1. /\ \A s \in Request : flight[s] # None => flight[s].timer > 0
      /\ now' = IF now < MaxTime THEN now + 1 ELSE now
      /\ flight' = [s \in Request |-> IF flight[s] # None
                                        THEN [flight[s] EXCEPT !.timer = @ - 1] ELSE None]
      /\ UNCHANGED <<setBack, authority, revocationCache, refreshes, clockHighWater,
                     phase, key, nowMs, joined, prior, answer, deniedBefore>>
  BY DEF Tick, InFlight, requestVars
<1>2. TypeOK /\ Stages /\ FlightsFit /\ now \in Nat /\ now' \in 0..MaxTime /\ now <= now' /\ now' <= now + 1
  BY <1>1, RevocationConstantsOK DEF Inv, Shape, TypeOK
<1>3. \A s \in Request :
        /\ flight'[s] # None <=> flight[s] # None
        /\ flight[s] # None =>
             /\ flight'[s] \in [timer : 0..Timeout, verdict : Verdict \cup {None}]
             /\ flight'[s].verdict = flight[s].verdict
             /\ flight'[s].timer = flight[s].timer - 1
  <2> SUFFICES ASSUME NEW s \in Request, flight[s] # None
               PROVE  /\ flight'[s] # None
                      /\ flight'[s] \in [timer : 0..Timeout, verdict : Verdict \cup {None}]
                      /\ flight'[s].verdict = flight[s].verdict
                      /\ flight'[s].timer = flight[s].timer - 1
    BY <1>1
  <2>1. flight[s] \in [timer : 0..Timeout, verdict : Verdict \cup {None}] /\ flight[s].timer > 0
    BY <1>1, <1>2 DEF TypeOK
  <2>2. flight'[s] = [flight[s] EXCEPT !.timer = @ - 1]
    BY <1>1
  <2>3. flight'[s] \in [timer : 0..Timeout, verdict : Verdict \cup {None}]
    BY <2>1, <2>2, Durations
  <2> QED
    BY <2>1, <2>2, <2>3 DEF NoneIsNew
<1>4. Shape'
  <2>1. flight' \in [Request -> [timer : 0..Timeout, verdict : Verdict \cup {None}] \cup {None}]
    BY <1>1, <1>3
  <2>2. \A l \in Key : refreshes[l] # None => refreshes[l] \in Request
    BY <1>2 DEF TypeOK
  <2>3. FlightsFit'
    BY <1>1, <1>2, <1>3, <2>2 DEF FlightsFit
  <2> QED
    BY <1>1, <1>2, <2>1, <2>3 DEF Shape, TypeOK, Stages
<1>5. \A s \in Request : SaidNo(s)' <=> SaidNo(s)
  BY <1>3 DEF SaidNo
<1>6. Times'
  <2>1. CameBefore => CameBefore'
    <3>1. \A k \in Key : revocationCache[k] # None => revocationCache[k].observedAt \in Nat
      BY <1>2, EntryFields
    <3> QED
      BY <1>1, <1>2, <3>1 DEF CameBefore, TypeOK
  <2>2. EntriesHold => EntriesHold'
    BY <1>1 DEF EntriesHold, NothingOlder, Stands
  <2>3. ASSUME AnswersHold PROVE AnswersHold'
    <3> SUFFICES ASSUME NEW s \in Request, SaidNo(s)
                 PROVE  /\ NothingOlder(key[s], nowMs[s])'
                        /\ NothingOlder(key[s], now + flight[s].timer - Timeout)'
      BY <1>5 DEF AnswersHold
    <3>1. NothingOlder(key[s], nowMs[s]) /\ NothingOlder(key[s], now + flight[s].timer - Timeout)
      BY <2>3 DEF AnswersHold
    <3>2. key[s] \in Key /\ flight[s].timer \in Nat /\ flight'[s].timer = flight[s].timer - 1
      BY <1>3, FlightFields, Durations DEF Inv, SaidNo
    <3>3. now' + flight'[s].timer - Timeout <= now + flight[s].timer - Timeout
      BY <1>2, <3>2, Durations
    <3>4. Stands(key[s]) => authority[key[s]].revokedAt \in Nat
      BY <1>2, <3>2, AuthorityFields DEF Stands
    <3>5. now' \in Nat /\ flight'[s].timer \in Int
      BY <1>2, <3>2, RevocationConstantsOK
    <3> QED
      BY <1>1, <1>2, <3>1, <3>2, <3>3, <3>4, <3>5, Durations DEF NothingOlder, Stands
  <2> QED
    BY <1>1, <2>1, <2>2, <2>3 DEF Inv, Times, FreshForAWhile
<1>7. AllowIsRecent'
  BY <1>1 DEF Inv, AllowIsRecent, Stands
<1>8. Denials'
  <2>1. (\A l \in Key : Known(l)' <=> Known(l)) /\ DeniedBefore'
    BY <1>1 DEF Inv, Denials, DeniedBefore, Known, Denied, CachedDenial, FoundDenial
  <2> QED
    BY <1>1, <1>3, <1>5, <2>1 DEF Inv, Denials, Stands
<1> QED
  BY <1>4, <1>6, <1>7, <1>8 DEF Inv

LEMMA ClockSetBackInv ==
  ASSUME NoneIsNew, Inv, ClockSetBack
  PROVE  Inv'
<1>1. /\ now > 0 /\ now' = now - 1 /\ setBack' = TRUE
      /\ UNCHANGED <<authority, revocationCache, refreshes, flight, clockHighWater,
                     phase, key, nowMs, joined, prior, answer, deniedBefore>>
  BY DEF ClockSetBack, isolateVars, requestVars
<1>2. Shape'
  <2>1. now' \in 0..MaxTime
    BY <1>1, RevocationConstantsOK DEF Inv, Shape, TypeOK
  <2> QED
    BY <1>1, <2>1 DEF Inv, Shape, TypeOK, Stages, FlightsFit
<1>3. Times' /\ AllowIsRecent'
  BY <1>1 DEF Inv, Times, FreshForAWhile, AllowIsRecent
<1>4. Denials'
  BY <1>1 DEF Inv, Denials, DeniedBefore, Known, Denied, CachedDenial, FoundDenial, SaidNo, Stands
<1> QED
  BY <1>2, <1>3, <1>4 DEF Inv

LEMMA RestartInv ==
  ASSUME NoneIsNew, Inv, Restart
  PROVE  Inv'
<1>1. /\ revocationCache' = [k \in Key |-> None]
      /\ refreshes' = [k \in Key |-> None]
      /\ flight' = [q \in Request |-> None]
      /\ clockHighWater' = 0
      /\ phase' = [q \in Request |-> IF phase[q] \in {"keying", "waiting"} THEN "done" ELSE phase[q]]
      /\ answer' = [q \in Request |-> IF phase[q] \in {"keying", "waiting"} THEN "lost" ELSE answer[q]]
      /\ joined' = [q \in Request |-> None] /\ prior' = [q \in Request |-> FALSE]
      /\ UNCHANGED <<now, setBack, authority, key, nowMs, deniedBefore>>
  BY DEF Restart
<1>2. TypeOK /\ Stages
  BY DEF Inv, Shape
<1>3. TypeOK'
  <2>1. phase' \in [Request -> {"new", "keying", "waiting", "done"}]
    BY <1>1, <1>2 DEF TypeOK
  <2>2. answer' \in [Request -> {None, "allow", "deny", "unavailable", "lost"}]
    BY <1>1, <1>2 DEF TypeOK
  <2> QED
    BY <1>1, <1>2, <2>1, <2>2 DEF TypeOK
<1>4. \A q \in Request : phase'[q] # "waiting" /\ (phase'[q] # "new" => phase[q] # "new")
  BY <1>1, <1>2 DEF TypeOK
<1>5. Shape'
  BY <1>1, <1>2, <1>3, <1>4 DEF Shape, Stages, FlightsFit
<1>6. Times'
  BY <1>1 DEF Inv, Times, FreshForAWhile, CameBefore, EntriesHold, AnswersHold, SaidNo
<1>7. \A p \in Request : /\ answer'[p] = "allow" => answer[p] = "allow"
                         /\ answer'[p] = "deny" <=> answer[p] = "deny"
  BY <1>1, <1>2 DEF Stages, NoneIsNew
<1>8. AllowIsRecent'
  BY <1>1, <1>7 DEF Inv, AllowIsRecent, Stands
<1>9. Denials'
  <2>1. \A l \in Key : Denied(l)' <=> Denied(l)
    BY <1>1, <1>7 DEF Denied
  <2>2. \A l \in Key : Known(l)' => Known(l)
    BY <1>1, <2>1 DEF Known, CachedDenial, FoundDenial
  <2>3. DeniedBefore'
    BY <1>1, <1>7 DEF Inv, Denials, DeniedBefore, Denied
  <2> QED
    BY <1>1, <2>2, <2>3 DEF Inv, Denials, SaidNo
<1> QED
  BY <1>5, <1>6, <1>8, <1>9 DEF Inv

-----------------------------------------------------------------------------
LEMMA NextInv ==
  ASSUME NoneIsNew, Inv, [Next]_vars
  PROVE  Inv'
<1>1. CASE \E q \in Request :
             \/ \E k \in Key : Enter(q, k)
             \/ AnswerFromCache(q) \/ AwaitRefresh(q)
             \/ AuthorityDecides(q) \/ RefreshSucceeds(q) \/ RefreshFails(q) \/ TimeoutFires(q)
  BY <1>1, EnterInv, AnswerFromCacheInv, AwaitRefreshInv, AuthorityDecidesInv,
     RefreshSucceedsInv, RefreshFailsInv DEF TimeoutFires
<1>2. CASE (\E k \in Key, life \in Lifetimes : Revoke(k, life)) \/ \E k \in Key : Lapse(k)
  BY <1>2, RevokeInv, LapseInv
<1>3. CASE Tick \/ ClockSetBack \/ Restart
  BY <1>3, TickInv, ClockSetBackInv, RestartInv
<1>4. CASE UNCHANGED vars
  BY <1>4 DEF vars, isolateVars, requestVars, Inv, Shape, TypeOK, Stages, FlightsFit, Times,
     FreshForAWhile, CameBefore, EntriesHold, AnswersHold, NothingOlder, AllowIsRecent, Denials,
     DeniedBefore, Known, Denied, CachedDenial, FoundDenial, SaidNo, Stands
<1> QED
  BY <1>1, <1>2, <1>3, <1>4 DEF Next

(* The invariant holds in every reachable state.                           *)
THEOREM RevocationInvariant ==
  ASSUME NoneIsNew
  PROVE  Spec => []Inv
<1>1. Init => Inv
  BY InitInv
<1>2. Inv /\ [Next]_vars => Inv'
  BY NextInv
<1> QED
  BY <1>1, <1>2, PTL DEF Spec

(* An allow rests on what the authority knew no longer ago than the cache  *)
(* keeps an entry fresh or a refresh may take, whatever entries, answers,  *)
(* joined refreshes, evictions and restarts the request met.               *)
THEOREM AllowsAreRecent ==
  ASSUME NoneIsNew
  PROVE  Spec => []AllowIsRecent
<1>1. Inv => AllowIsRecent
  BY DEF Inv
<1> QED
  BY <1>1, RevocationInvariant, PTL

(* There is one refresh of a key at a time, and its starter is the request *)
(* the others join.                                                        *)
THEOREM RefreshesAreSingle ==
  ASSUME NoneIsNew
  PROVE  Spec => []OneFlightPerKey
<1>1. Inv => OneFlightPerKey
  BY DEF Inv, Shape, FlightsFit, OneFlightPerKey, InFlight
<1> QED
  BY <1>1, RevocationInvariant, PTL

(* installDecision: a new entry is added only where there is room or after *)
(* another one has gone.                                                   *)
CacheIsBounded == IsFiniteSet(Cached) /\ CacheWithinCapacity

LEMMA InstallKeepsBound ==
  ASSUME CacheIsBounded, NEW k \in Key, NEW entry, InstallDecision(k, entry)
  PROVE  CacheIsBounded'
<1>0. IsFiniteSet(Cached) /\ Cardinality(Cached) \in Nat /\ Cardinality(Cached) <= Capacity
      /\ Capacity \in Nat
  BY FS_CardinalityType, RevocationConstantsOK DEF CacheIsBounded, CacheWithinCapacity
<1>1. PICK gone \in Evicted(k) :
        revocationCache' = [x \in Key |-> IF x = k THEN entry
                                          ELSE IF x \in gone THEN None ELSE revocationCache[x]]
  BY DEF InstallDecision
<1>2. Cached' \subseteq (Cached \ gone) \cup {k}
  BY <1>1 DEF Cached
<1>3. SUFFICES ASSUME NEW room, IsFiniteSet(room), Cached' \subseteq room,
                      Cardinality(room) <= Capacity
               PROVE  CacheIsBounded'
  <2>1. CASE revocationCache[k] # None
    <3>1. k \in Cached
      BY <2>1 DEF Cached
    <3> QED
      BY <1>0, <1>2, <1>3, <3>1
  <2>2. CASE revocationCache[k] = None /\ Cardinality(Cached) < Capacity
    <3>0. k \notin Cached
      BY <2>2 DEF Cached
    <3>1. IsFiniteSet(Cached \cup {k}) /\ Cardinality(Cached \cup {k}) = Cardinality(Cached) + 1
      BY <1>0, <3>0, FS_AddElement, Zenon
    <3>2. Cached' \subseteq Cached \cup {k} /\ Cardinality(Cached \cup {k}) <= Capacity
      <4>1. Cardinality(Cached \cup {k}) \in Nat
        BY <3>1, FS_CardinalityType
      <4> QED
        BY <1>0, <1>2, <2>2, <3>1, <4>1
    <3> QED
      BY <1>3, <3>1, <3>2
  <2>3. CASE revocationCache[k] = None /\ ~(Cardinality(Cached) < Capacity)
    <3>1. PICK o \in Cached : gone = {o}
      BY <1>1, <2>3 DEF Evicted
    <3> DEFINE rest == Cached \ {o}
    <3>2. IsFiniteSet(rest) /\ Cardinality(rest) = Cardinality(Cached) - 1 /\ k \notin rest
      BY <1>0, <2>3, <3>1, FS_RemoveElement DEF Cached
    <3>3. IsFiniteSet(rest \cup {k}) /\ Cardinality(rest \cup {k}) = Cardinality(rest) + 1
      BY <3>2, FS_AddElement
    <3>4. Cached' \subseteq rest \cup {k} /\ Cardinality(rest \cup {k}) <= Capacity
      BY <1>0, <1>2, <3>1, <3>2, <3>3
    <3> HIDE DEF rest
    <3> QED
      BY <1>3, <3>3, <3>4
  <2> QED
    BY <2>1, <2>2, <2>3
<1>4. IsFiniteSet(Cached') /\ Cardinality(Cached') <= Cardinality(room)
  BY <1>3, FS_Subset
<1>5. Cardinality(Cached') \in Nat /\ Cardinality(room) \in Nat
  BY <1>3, <1>4, FS_CardinalityType
<1> QED
  BY <1>0, <1>3, <1>4, <1>5 DEF CacheIsBounded, CacheWithinCapacity

LEMMA BoundStep ==
  ASSUME Inv, CacheIsBounded, [Next]_vars
  PROVE  CacheIsBounded'
<1>1. ASSUME NEW s \in Request, RefreshSucceeds(s)
      PROVE  CacheIsBounded'
  <2>1. key[s] \in Key
    BY <1>1 DEF RefreshSucceeds, Inv, Shape, FlightsFit, Stages
  <2>2. PICK entry : InstallDecision(key[s], entry)
    BY <1>1 DEF RefreshSucceeds
  <2> QED
    BY <2>1, <2>2, InstallKeepsBound
<1>2. CASE Restart
  <2>1. Cached' = {}
    BY <1>2 DEF Restart, Cached
  <2> QED
    BY <2>1, FS_EmptySet, RevocationConstantsOK DEF CacheIsBounded, CacheWithinCapacity
<1>3. CASE UNCHANGED revocationCache
  BY <1>3 DEF CacheIsBounded, CacheWithinCapacity, Cached
<1> QED
  BY <1>1, <1>2, <1>3
     DEF Next, vars, isolateVars, Enter, AnswerFromCache, AwaitRefresh, AuthorityDecides,
         RefreshFails, TimeoutFires, Revoke, Lapse, Tick, ClockSetBack

(* The isolate's globals fit together in every reachable state: well       *)
(* typed, one refresh for a key, and never more entries than              *)
(* FIDUCIA_REVOCATION_CACHE_CAPACITY.                                      *)
THEOREM IsolateStaysOrderly ==
  ASSUME NoneIsNew
  PROVE  Spec => []IsolateIsOrderly
<1>1. Init => CacheIsBounded
  BY FS_EmptySet, RevocationConstantsOK
     DEF Init, CacheIsBounded, CacheWithinCapacity, Cached
<1>2. Inv /\ CacheIsBounded /\ [Next]_vars => CacheIsBounded'
  BY BoundStep
<1>3. Inv /\ OneFlightPerKey /\ CacheIsBounded => IsolateIsOrderly
  BY DEF Inv, Shape, CacheIsBounded, IsolateIsOrderly
<1> QED
  BY <1>1, <1>2, <1>3, RevocationInvariant, RefreshesAreSingle, PTL DEF Spec

(* A step that allows a token denied before finds the revocation gone:     *)
(* while it stands no entry and no answer on its way says no.              *)
LEMMA DenialStep ==
  ASSUME NoneIsNew, Inv, [Next]_vars, NEW q \in Request,
         answer[q] # "allow", answer'[q] = "allow", deniedBefore[q]
  PROVE  ~Stands(key[q])
<1> SUFFICES ASSUME Stands(key[q]) PROVE FALSE
  OBVIOUS
<1>1. TypeOK /\ Stages /\ FlightsFit
  BY DEF Inv, Shape
<1>2. Denied(key[q])
  BY DEF Inv, Denials, DeniedBefore
<1>3. ASSUME key[q] \in Key
      PROVE  /\ revocationCache[key[q]] # None => revocationCache[key[q]].revoked
             /\ \A s \in Request : key[s] = key[q] => ~SaidNo(s)
  BY <1>2, <1>3 DEF Inv, Denials, Known
<1>4. ASSUME NEW p \in Request, AnswerFromCache(p) PROVE FALSE
  <2>1. p = q /\ phase[q] = "keying" /\ revocationCache[key[q]] # None
    BY <1>1, <1>4 DEF AnswerFromCache, IsFresh, TypeOK
  <2>2. ~revocationCache[key[q]].revoked
    BY <1>1, <1>4, <2>1 DEF AnswerFromCache, TypeOK
  <2> QED
    BY <1>1, <1>3, <2>1, <2>2 DEF Stages
<1>5. ASSUME NEW s \in Request, RefreshSucceeds(s) PROVE FALSE
  <2>1. /\ phase[q] = "waiting" /\ joined[q] = s /\ ~flight[s].verdict.revoked
        /\ flight[s] # None /\ flight[s].verdict # None
    BY <1>5 DEF RefreshSucceeds, Settle
  <2>2. key[q] \in Key /\ key[s] = key[q]
    BY <1>1, <2>1 DEF Stages, FlightsFit
  <2> QED
    BY <1>3, <2>1, <2>2 DEF SaidNo
<1>6. ASSUME NEW s \in Request, RefreshFails(s) PROVE FALSE
  BY <1>6 DEF RefreshFails, Settle
<1>7. ASSUME NEW p \in Request, NEW k \in Key, Enter(p, k) PROVE FALSE
  BY <1>1, <1>7 DEF Enter, TypeOK
<1>8. ASSUME Restart PROVE FALSE
  BY <1>8 DEF Restart
<1>9. CASE UNCHANGED answer
  BY <1>9
<1> QED
  BY <1>4, <1>5, <1>6, <1>7, <1>8, <1>9
     DEF Next, vars, requestVars, TimeoutFires, AwaitRefresh, AuthorityDecides, Revoke, Lapse,
         Tick, ClockSetBack

(* What a denied token meets later is never an allow while the revocation  *)
(* stands.                                                                 *)
THEOREM DenialsStick ==
  ASSUME NoneIsNew
  PROVE  Spec => DenialSticks
<1>1. Inv /\ [Next]_vars =>
        [\A q \in Request : (answer[q] # "allow" /\ answer'[q] = "allow" /\ deniedBefore[q])
           => ~Stands(key[q])]_vars
  BY DenialStep
<1> QED
  BY <1>1, RevocationInvariant, PTL DEF Spec, DenialSticks
=============================================================================
