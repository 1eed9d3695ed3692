-------------------------- MODULE LeaseClientsProofs --------------------------
(***************************************************************************)
(* What holds of the lease coordinator, and of the coordinator together    *)
(* with its callers, for every set of resources and callers, every ttl     *)
(* bounds and every clock, whether callers abandon calls or wait.          *)
(*                                                                         *)
(* The coordinator's invariant is inductive as it stands: GrantsAreCounted *)
(* and StoredLeaseIsNewest make every minted token new, and                *)
(* StoredLeaseWasGranted ties a renewal's token to the holder it was first *)
(* granted to.  Every step of the composition is a step of the coordinator *)
(* or leaves it alone, so what is proved of the coordinator holds there;   *)
(* that beliefs and answers under way carry granted tokens brings fencing  *)
(* to the callers.  Callers that wait exclude each other.                  *)
(***************************************************************************)
EXTENDS LeaseClients, TLAPS

-----------------------------------------------------------------------------
(* The coordinator.                                                        *)
Grant == [resource : Resource, holder : Holder, fencing_token : Nat]

(* What NextToken returns: a token above the counter and the stored one.   *)
LEMMA NextTokenIsNew ==
  ASSUME CoordTypeOK, NEW r \in Resource
  PROVE  /\ NextToken(r) \in Nat
         /\ NextToken(r) > counter[r]
         /\ lease[r] # NoLease => NextToken(r) > lease[r].fencing_token
  BY NoLeaseAssumption DEF CoordTypeOK, NextToken, Lease

LEMMA TtlIsPositive ==
  ASSUME NEW ttl \in TtlInput, TtlIsLegal(ttl)
  PROVE  ttl \in Nat /\ ttl >= 1
  BY ConstantsOK DEF TtlIsLegal

-----------------------------------------------------------------------------

(* A step of the coordinator keeps the declared types.                     *)
LEMMA CoordTypeStep ==
  ASSUME CoordTypeOK, [CoordNext]_coordVars
  PROVE  CoordTypeOK'
<1>1. ASSUME NEW r \in Resource, NEW h \in Holder, NEW ttl \in TtlInput, Refuse(r, h, ttl)
      PROVE  CoordTypeOK'
  BY <1>1 DEF Refuse, CoordTypeOK, coordVars
<1>2. ASSUME NEW r \in Resource, NEW h \in Holder, NEW ttl \in TtlInput, Renew(r, h, ttl)
      PROVE  CoordTypeOK'
  <2>1. now + ttl \in Nat
    BY <1>2, TtlIsPositive DEF Renew, CoordTypeOK
  <2>2. lease[r] \in Lease
    BY <1>2 DEF Renew, LeaseIsLive, CoordTypeOK
  <2>3. lease'[r] \in Lease /\ lease' \in [Resource -> Lease \cup {NoLease}]
    BY <1>2, <2>1, <2>2 DEF Renew, CoordTypeOK, Lease
  <2>4. Recorded(r, lease'[r]) \in Grant
    BY <2>3 DEF Recorded, Lease, Grant
  <2> QED
    BY <1>2, <2>3, <2>4 DEF Renew, CoordTypeOK, Grant
<1>3. ASSUME NEW r \in Resource, NEW h \in Holder, NEW ttl \in TtlInput, Mint(r, h, ttl)
      PROVE  CoordTypeOK'
  <2>1. now + ttl \in Nat
    BY <1>3, TtlIsPositive DEF Mint, CoordTypeOK
  <2>2. NextToken(r) \in Nat
    BY NextTokenIsNew
  <2>3. lease'[r] \in Lease /\ lease' \in [Resource -> Lease \cup {NoLease}]
    BY <1>3, <2>1, <2>2 DEF Mint, CoordTypeOK, Lease
  <2>4. Recorded(r, lease'[r]) \in Grant
    BY <2>3 DEF Recorded, Lease, Grant
  <2> QED
    BY <1>3, <2>2, <2>3, <2>4 DEF Mint, CoordTypeOK, Grant
<1>4. ASSUME NEW r \in Resource, NEW h \in Holder, NEW token \in 0..MaxToken,
             ReleaseLease(r, h, token)
      PROVE  CoordTypeOK'
  BY <1>4 DEF ReleaseLease, CoordTypeOK
<1>5. ASSUME NEW r \in Resource, NEW h \in Holder, NEW token \in 0..MaxToken,
             ReleaseRejected(r, h, token)
      PROVE  CoordTypeOK'
  BY <1>5 DEF ReleaseRejected, CoordTypeOK, coordVars
<1>6. CASE Tick
  BY <1>6 DEF Tick, CoordTypeOK
<1>7. CASE ClockSetBack
  BY <1>7 DEF ClockSetBack, CoordTypeOK
<1>8. CASE UNCHANGED coordVars
  BY <1>8 DEF CoordTypeOK, coordVars
<1> QED
  BY <1>1, <1>2, <1>3, <1>4, <1>5, <1>6, <1>7, <1>8 DEF CoordNext, AcquireLease

(* Every reachable state of the coordinator has the declared types.        *)
THEOREM CoordTypeCorrect == CoordSpec => []CoordTypeOK
<1>1. CoordInit => CoordTypeOK
  BY DEF CoordInit, CoordTypeOK
<1>2. CoordTypeOK /\ [CoordNext]_coordVars => CoordTypeOK'
  BY CoordTypeStep
<1> QED
  BY <1>1, <1>2, PTL DEF CoordSpec

-----------------------------------------------------------------------------

(* The three ways a step touches the stored records and the grants.        *)
LeaseRenewed(r, h) ==
  /\ LeaseIsLive(lease[r], now) /\ lease[r].holder = h
  /\ \E deadline \in Nat :
       deadline > now /\ lease' = [lease EXCEPT ![r].expires_at = deadline]
  /\ granted' = granted \cup {Recorded(r, lease'[r])}
  /\ UNCHANGED <<counter, now>>

LeaseMinted(r, h) ==
  /\ ~LeaseIsLive(lease[r], now)
  /\ \E deadline \in Nat :
       /\ deadline > now
       /\ lease' = [lease EXCEPT ![r] =
                     [holder |-> h, fencing_token |-> NextToken(r), expires_at |-> deadline]]
  /\ counter' = [counter EXCEPT ![r] = NextToken(r)]
  /\ granted' = granted \cup {Recorded(r, lease'[r])}
  /\ UNCHANGED now

LeaseDropped(r) ==
  /\ lease' = [lease EXCEPT ![r] = NoLease]
  /\ UNCHANGED <<counter, granted, now>>

NothingStored ==
  /\ UNCHANGED <<lease, counter, granted>>
  /\ now' = now \/ now' = now + 1 \/ ClockMayRegress

(* Clock steps, refused acquisitions and rejected releases leave the       *)
(* records and the grants alone; every other step is one of the three.     *)
LEMMA StepEffect ==
  ASSUME CoordTypeOK, [CoordNext]_coordVars
  PROVE  \/ \E r \in Resource, h \in Holder : LeaseRenewed(r, h) \/ LeaseMinted(r, h)
         \/ \E r \in Resource : LeaseDropped(r)
         \/ NothingStored
<1>1. ASSUME NEW r \in Resource, NEW h \in Holder, NEW ttl \in TtlInput, Renew(r, h, ttl)
      PROVE  LeaseRenewed(r, h)
  <2>1. now + ttl \in Nat /\ now + ttl > now
    BY <1>1, TtlIsPositive DEF Renew, CoordTypeOK
  <2> QED
    BY <1>1, <2>1 DEF Renew, LeaseRenewed
<1>2. ASSUME NEW r \in Resource, NEW h \in Holder, NEW ttl \in TtlInput, Mint(r, h, ttl)
      PROVE  LeaseMinted(r, h)
  <2>1. now + ttl \in Nat /\ now + ttl > now
    BY <1>2, TtlIsPositive DEF Mint, CoordTypeOK
  <2> QED
    BY <1>2, <2>1 DEF Mint, LeaseMinted
<1>3. ASSUME NEW r \in Resource, NEW h \in Holder, NEW token \in 0..MaxToken,
             ReleaseLease(r, h, token)
      PROVE  LeaseDropped(r)
  BY <1>3 DEF ReleaseLease, LeaseDropped
<1>4. ASSUME NEW r \in Resource, NEW h \in Holder, NEW ttl \in TtlInput, Refuse(r, h, ttl)
      PROVE  NothingStored
  BY <1>4 DEF Refuse, coordVars, NothingStored
<1>5. ASSUME NEW r \in Resource, NEW h \in Holder, NEW token \in 0..MaxToken,
             ReleaseRejected(r, h, token)
      PROVE  NothingStored
  BY <1>5 DEF ReleaseRejected, coordVars, NothingStored
<1>6. Tick \/ ClockSetBack \/ UNCHANGED coordVars => NothingStored
  BY DEF Tick, ClockSetBack, coordVars, NothingStored
<1> QED
  BY <1>1, <1>2, <1>3, <1>4, <1>5, <1>6 DEF CoordNext, AcquireLease

(* The records of a renewed lease: same holder, same token.                *)
LEMMA RenewalKeepsToken ==
  ASSUME CoordTypeOK, NEW r \in Resource, NEW h \in Holder, LeaseRenewed(r, h)
  PROVE  /\ lease[r] \in Lease
         /\ lease'[r] \in Lease
         /\ lease'[r].holder = lease[r].holder
         /\ lease'[r].fencing_token = lease[r].fencing_token
         /\ lease'[r].expires_at > now
         /\ \A s \in Resource \ {r} : lease'[s] = lease[s]
         /\ Recorded(r, lease'[r]) = Recorded(r, lease[r])
<1>1. lease[r] \in Lease
  BY DEF LeaseRenewed, LeaseIsLive, CoordTypeOK
<1>2. PICK deadline \in Nat :
        deadline > now /\ lease' = [lease EXCEPT ![r].expires_at = deadline]
  BY DEF LeaseRenewed
<1>3. lease'[r] = [lease[r] EXCEPT !.expires_at = deadline]
  BY <1>2 DEF CoordTypeOK
<1>4. \A s \in Resource \ {r} : lease'[s] = lease[s]
  BY <1>2 DEF CoordTypeOK
<1>5. /\ lease'[r] \in Lease
      /\ lease'[r].holder = lease[r].holder
      /\ lease'[r].fencing_token = lease[r].fencing_token
      /\ lease'[r].expires_at > now
  BY <1>1, <1>2, <1>3 DEF Lease
<1> QED
  BY <1>1, <1>4, <1>5 DEF Recorded

LEMMA MintTakesNewToken ==
  ASSUME CoordTypeOK, NEW r \in Resource, NEW h \in Holder, LeaseMinted(r, h)
  PROVE  /\ lease'[r] \in Lease
         /\ lease'[r].holder = h
         /\ lease'[r].fencing_token = NextToken(r)
         /\ lease'[r].expires_at > now
         /\ counter'[r] = NextToken(r)
         /\ \A s \in Resource \ {r} : lease'[s] = lease[s] /\ counter'[s] = counter[s]
         /\ Recorded(r, lease'[r]) = [resource |-> r, holder |-> h, fencing_token |-> NextToken(r)]
<1>1. PICK deadline \in Nat :
        /\ deadline > now
        /\ lease' = [lease EXCEPT ![r] =
                      [holder |-> h, fencing_token |-> NextToken(r), expires_at |-> deadline]]
  BY DEF LeaseMinted
<1>2. lease'[r] = [holder |-> h, fencing_token |-> NextToken(r), expires_at |-> deadline]
  BY <1>1 DEF CoordTypeOK
<1>3. NextToken(r) \in Nat
  BY NextTokenIsNew
<1>4. counter'[r] = NextToken(r)
  BY DEF LeaseMinted, CoordTypeOK
<1>5. \A s \in Resource \ {r} : lease'[s] = lease[s] /\ counter'[s] = counter[s]
  BY <1>1 DEF LeaseMinted, CoordTypeOK
<1> QED
  BY <1>1, <1>2, <1>3, <1>4, <1>5 DEF Lease, Recorded

LEMMA FencingStep ==
  ASSUME FencingInv, CoordTypeOK', [CoordNext]_coordVars
  PROVE  FencingInv'
<1> USE DEF FencingInv
<1>1. ASSUME NEW r \in Resource, NEW h \in Holder, LeaseRenewed(r, h)
      PROVE  FencingInv'
  <2>1. /\ granted' = granted \cup {Recorded(r, lease[r])}
        /\ counter' = counter
    BY <1>1, RenewalKeepsToken DEF LeaseRenewed
  <2>2. granted' = granted
    BY <1>1, <2>1, RenewalKeepsToken, NoLeaseAssumption DEF StoredLeaseWasGranted
  <2>3. StoredLeaseIsNewest'
    BY <1>1, <2>1, RenewalKeepsToken, NoLeaseAssumption DEF StoredLeaseIsNewest
  <2>4. GrantsAreCounted'
    BY <2>1, <2>2 DEF GrantsAreCounted
  <2>5. StoredLeaseWasGranted'
    <3> SUFFICES ASSUME NEW s \in Resource, lease'[s] # NoLease
                 PROVE  Recorded(s, lease'[s]) \in granted
      BY <2>2 DEF StoredLeaseWasGranted, Recorded
    <3>1. CASE s = r
      BY <1>1, <3>1, RenewalKeepsToken, NoLeaseAssumption DEF StoredLeaseWasGranted
    <3>2. CASE s # r
      BY <1>1, <3>2, RenewalKeepsToken DEF StoredLeaseWasGranted
    <3> QED
      BY <3>1, <3>2
  <2>6. TokenNamesOneHolder'
    BY <2>2 DEF TokenNamesOneHolder
  <2> QED
    BY <2>3, <2>4, <2>5, <2>6
<1>2. ASSUME NEW r \in Resource, NEW h \in Holder, LeaseMinted(r, h)
      PROVE  FencingInv'
  <2> DEFINE g0 == [resource |-> r, holder |-> h, fencing_token |-> NextToken(r)]
  <2>1. granted' = granted \cup {g0}
    BY <1>2, MintTakesNewToken DEF LeaseMinted
  <2>2. NextToken(r) \in Nat /\ NextToken(r) > counter[r] /\ counter[r] \in Nat
    BY NextTokenIsNew DEF CoordTypeOK
  <2>3. \A g \in granted : g.resource \in Resource /\ g.fencing_token \in Nat
    BY DEF CoordTypeOK
  <2>4. \A g \in granted : g.resource = r => g.fencing_token < NextToken(r)
    BY <2>2, <2>3 DEF GrantsAreCounted
  <2>5. StoredLeaseIsNewest'
    BY <1>2, MintTakesNewToken DEF StoredLeaseIsNewest
  <2>6. GrantsAreCounted'
    <3> SUFFICES ASSUME NEW g \in granted'
                 PROVE  0 < g.fencing_token /\ g.fencing_token <= counter'[g.resource]
      BY DEF GrantsAreCounted
    <3>1. CASE g = g0
      BY <1>2, <2>2, <3>1, MintTakesNewToken
    <3>2. CASE g \in granted /\ g.resource = r
      <4>1. counter'[g.resource] = NextToken(r)
        BY <1>2, <3>2, MintTakesNewToken
      <4>2. 0 < g.fencing_token /\ g.fencing_token < NextToken(r) /\ g.fencing_token \in Nat
        BY <2>3, <2>4, <3>2 DEF GrantsAreCounted
      <4> QED
        BY <2>2, <4>1, <4>2
    <3>3. CASE g \in granted /\ g.resource # r
      <4>1. counter'[g.resource] = counter[g.resource]
        BY <1>2, <2>3, <3>3, MintTakesNewToken
      <4> QED
        BY <3>3, <4>1 DEF GrantsAreCounted
    <3> QED
      BY <2>1, <3>1, <3>2, <3>3
  <2>7. StoredLeaseWasGranted'
    <3> SUFFICES ASSUME NEW s \in Resource, lease'[s] # NoLease
                 PROVE  Recorded(s, lease'[s]) \in granted'
      BY DEF StoredLeaseWasGranted, Recorded
    <3>1. CASE s = r
      BY <1>2, <2>1, <3>1, MintTakesNewToken
    <3>2. CASE s # r
      BY <1>2, <2>1, <3>2, MintTakesNewToken DEF StoredLeaseWasGranted
    <3> QED
      BY <3>1, <3>2
  <2>8. TokenNamesOneHolder'
    BY <2>1, <2>2, <2>3, <2>4 DEF TokenNamesOneHolder
  <2> QED
    BY <2>5, <2>6, <2>7, <2>8
<1>3. ASSUME NEW r \in Resource, LeaseDropped(r)
      PROVE  FencingInv'
  <2>1. /\ \A s \in Resource : lease'[s] = NoLease \/ lease'[s] = lease[s]
        /\ counter' = counter /\ granted' = granted
    BY <1>3 DEF LeaseDropped, CoordTypeOK
  <2> QED
    BY <2>1 DEF StoredLeaseIsNewest, GrantsAreCounted, StoredLeaseWasGranted,
                TokenNamesOneHolder, Recorded
<1>4. CASE NothingStored
  BY <1>4 DEF NothingStored, StoredLeaseIsNewest, GrantsAreCounted, StoredLeaseWasGranted,
              TokenNamesOneHolder, Recorded
<1> QED
  BY <1>1, <1>2, <1>3, <1>4, StepEffect

(* Tokens are unique: however acquisitions, renewals, releases, expiries   *)
(* and clock corrections interleave, acquireLease never hands one token of *)
(* a resource to two holders, and the stored lease carries the newest one. *)
THEOREM Fencing == CoordSpec => []FencingInv
<1>1. CoordInit => FencingInv
  BY DEF CoordInit, FencingInv, CoordTypeOK, StoredLeaseIsNewest, GrantsAreCounted,
         StoredLeaseWasGranted, TokenNamesOneHolder
<1>2. FencingInv /\ CoordTypeOK' /\ [CoordNext]_coordVars => FencingInv'
  BY FencingStep
<1> QED
  BY <1>1, <1>2, CoordTypeCorrect, PTL DEF CoordSpec

(* A holder that replaces another one, or nobody, gets a token above every *)
(* token acquireLease has granted for the resource.                        *)
THEOREM NewHolderOutranks == CoordSpec => NewHolderOutranksAll
<1> DEFINE Outranks ==
      \A r \in Resource :
        (/\ lease'[r] # NoLease
         /\ lease[r] = NoLease \/ lease[r].holder # lease'[r].holder)
        => \A g \in granted : g.resource = r => g.fencing_token < lease'[r].fencing_token
<1>1. FencingInv /\ [CoordNext]_coordVars => [Outranks]_coordVars
  <2> SUFFICES ASSUME FencingInv, [CoordNext]_coordVars,
                      NEW r \in Resource, lease'[r] # NoLease,
                      lease[r] = NoLease \/ lease[r].holder # lease'[r].holder,
                      NEW g \in granted, g.resource = r
               PROVE  g.fencing_token < lease'[r].fencing_token
    OBVIOUS
  <2>0. CoordTypeOK
    BY DEF FencingInv
  <2>1. ASSUME NEW s \in Resource, NEW h \in Holder, LeaseRenewed(s, h)
        PROVE  FALSE
    BY <2>0, <2>1, RenewalKeepsToken, NoLeaseAssumption
  <2>2. ASSUME NEW s \in Resource, NEW h \in Holder, LeaseMinted(s, h)
        PROVE  g.fencing_token < lease'[r].fencing_token
    <3>1. r = s
      BY <2>0, <2>2, MintTakesNewToken
    <3>2. lease'[r].fencing_token = NextToken(r)
      BY <2>0, <2>2, <3>1, MintTakesNewToken
    <3>3. g.fencing_token \in Nat /\ counter[r] \in Nat /\ g.fencing_token <= counter[r]
      BY DEF FencingInv, GrantsAreCounted, CoordTypeOK
    <3> QED
      BY <2>0, <3>2, <3>3, NextTokenIsNew
  <2>3. ASSUME NEW s \in Resource, LeaseDropped(s)
        PROVE  FALSE
    BY <2>0, <2>3 DEF LeaseDropped, CoordTypeOK
  <2> QED
    BY <2>0, <2>1, <2>2, <2>3, StepEffect DEF NothingStored
<1> QED
  BY <1>1, Fencing, PTL DEF CoordSpec, NewHolderOutranksAll

(* The counter of a resource never goes down, whatever is released.        *)
THEOREM CounterIsMonotone == CoordSpec => CounterNeverDrops
<1>1. CoordTypeOK /\ [CoordNext]_coordVars
        => [\A r \in Resource : counter'[r] >= counter[r]]_coordVars
  <2> SUFFICES ASSUME CoordTypeOK, [CoordNext]_coordVars, NEW r \in Resource
               PROVE  counter'[r] >= counter[r]
    OBVIOUS
  <2>0. counter[r] \in Nat
    BY DEF CoordTypeOK
  <2>1. ASSUME NEW s \in Resource, NEW h \in Holder, LeaseRenewed(s, h)
        PROVE  counter'[r] >= counter[r]
    BY <2>0, <2>1 DEF LeaseRenewed
  <2>2. ASSUME NEW s \in Resource, NEW h \in Holder, LeaseMinted(s, h)
        PROVE  counter'[r] >= counter[r]
    <3>1. CASE r = s
      <4>1. counter'[r] = NextToken(r)
        BY <2>2, <3>1, MintTakesNewToken
      <4> QED
        BY <2>0, <4>1, NextTokenIsNew
    <3>2. CASE r # s
      <4>1. counter'[r] = counter[r]
        BY <2>2, <3>2, MintTakesNewToken
      <4> QED
        BY <2>0, <4>1
    <3> QED
      BY <3>1, <3>2
  <2>3. ASSUME NEW s \in Resource, LeaseDropped(s)
        PROVE  counter'[r] >= counter[r]
    BY <2>0, <2>3 DEF LeaseDropped
  <2> QED
    BY <2>0, <2>1, <2>2, <2>3, StepEffect DEF NothingStored
<1> QED
  BY <1>1, CoordTypeCorrect, PTL DEF CoordSpec, CounterNeverDrops

-----------------------------------------------------------------------------

(* The abstract owners, as the refinement mapping substitutes them.        *)
Owner == [r \in Resource |-> IF LeaseIsLive(lease[r], now) THEN lease[r].holder ELSE NoLease]

(* Every step of the coordinator is a step of the lock, or changes nothing *)
(* of it: a mint is an Enter, a release of a live lease and the expiry of  *)
(* any number of leases are a Leave.                                       *)
LEMMA LockStep ==
  ASSUME ~ClockMayRegress, FencingInv, CoordTypeOK', [CoordNext]_coordVars
  PROVE  [Lock!Next]_(Lock!lockVars)
<1>0. /\ CoordTypeOK
      /\ Owner = [r \in Resource |-> Owner[r]]
      /\ Owner' = [r \in Resource |-> Owner'[r]]
  BY DEF FencingInv, Owner
<1>1. ASSUME NEW r \in Resource, NEW h \in Holder, LeaseRenewed(r, h)
      PROVE  UNCHANGED <<Owner, counter>>
  <2>1. Owner'[r] = Owner[r]
    BY <1>0, <1>1, RenewalKeepsToken, NoLeaseAssumption DEF Owner, LeaseRenewed, LeaseIsLive
  <2>2. \A s \in Resource \ {r} : Owner'[s] = Owner[s]
    BY <1>0, <1>1, RenewalKeepsToken DEF Owner, LeaseRenewed, LeaseIsLive
  <2> QED
    BY <1>0, <1>1, <2>1, <2>2 DEF LeaseRenewed
<1>2. ASSUME NEW r \in Resource, NEW h \in Holder, LeaseMinted(r, h)
      PROVE  Lock!Enter(r, h)
  <2>1. Owner[r] = NoLease
    BY <1>2 DEF Owner, LeaseMinted
  <2>2. Owner'[r] = h
    <3>1. lease'[r] \in Lease /\ lease'[r].holder = h /\ lease'[r].expires_at > now'
      BY <1>0, <1>2, MintTakesNewToken DEF LeaseMinted
    <3> QED
      BY <3>1, NoLeaseAssumption DEF Owner, LeaseIsLive
  <2>3. \A s \in Resource \ {r} : Owner'[s] = Owner[s]
    BY <1>0, <1>2, MintTakesNewToken DEF Owner, LeaseMinted, LeaseIsLive
  <2>4. Owner' = [Owner EXCEPT ![r] = h]
    BY <1>0, <2>2, <2>3
  <2>5. NextToken(r) = counter[r] + 1
    BY <1>0 DEF FencingInv, StoredLeaseIsNewest, NextToken, CoordTypeOK
  <2>6. counter' = [counter EXCEPT ![r] = @ + 1]
    BY <1>2, <2>5 DEF LeaseMinted
  <2> QED
    BY <2>1, <2>4, <2>6 DEF Lock!Enter, Owner
<1>3. ASSUME NEW S \in SUBSET Resource, UNCHANGED counter,
             \A r \in S : Owner[r] # NoLease /\ Owner'[r] = NoLease,
             \A r \in Resource \ S : Owner'[r] = Owner[r]
      PROVE  Lock!Leave(S)
  <2>1. Owner' = [r \in Resource |-> IF r \in S THEN NoLease ELSE Owner[r]]
    BY <1>0, <1>3
  <2> QED
    BY <1>3, <2>1 DEF Lock!Leave, Owner
<1>4. ASSUME NEW r \in Resource, LeaseDropped(r)
      PROVE  UNCHANGED <<Owner, counter>> \/ \E S \in SUBSET Resource : Lock!Leave(S)
  <2>1. /\ Owner'[r] = NoLease /\ UNCHANGED counter
        /\ \A s \in Resource \ {r} : Owner'[s] = Owner[s]
    BY <1>0, <1>4 DEF LeaseDropped, Owner, LeaseIsLive, CoordTypeOK
  <2>2. CASE Owner[r] = NoLease
    BY <1>0, <2>1, <2>2
  <2>3. CASE Owner[r] # NoLease
    <3>1. Lock!Leave({r})
      BY <1>3, <2>1, <2>3
    <3> QED
      BY <3>1
  <2> QED
    BY <2>2, <2>3
<1>5. ASSUME NothingStored
      PROVE  \E S \in SUBSET Resource : Lock!Leave(S)
  <2>0. PICK Ending \in SUBSET Resource : Ending = {r \in Resource : Owner[r] # Owner'[r]}
    OBVIOUS
  <2>1. ASSUME NEW r \in Ending
        PROVE  Owner[r] # NoLease /\ Owner'[r] = NoLease
    <3>1. now' >= now /\ lease'[r] = lease[r]
      BY <1>0, <1>5 DEF NothingStored, CoordTypeOK
    <3>2. LeaseIsLive(lease[r], now)' => LeaseIsLive(lease[r], now)
      <4> SUFFICES ASSUME LeaseIsLive(lease[r], now)'
                   PROVE  LeaseIsLive(lease[r], now)
        OBVIOUS
      <4>1. lease[r] \in Lease /\ lease[r].expires_at > now'
        BY <1>0, <2>0, <2>1, <3>1 DEF LeaseIsLive, CoordTypeOK
      <4>2. lease[r].expires_at \in Nat /\ now \in Nat /\ now' \in Nat
        BY <1>0, <4>1 DEF Lease, CoordTypeOK
      <4> QED
        BY <3>1, <4>1, <4>2, NoLeaseAssumption DEF LeaseIsLive
    <3>3. CASE LeaseIsLive(lease[r], now)'
      BY <2>0, <2>1, <3>1, <3>2, <3>3 DEF Owner
    <3>4. CASE ~LeaseIsLive(lease[r], now)'
      BY <2>0, <2>1, <3>4 DEF Owner
    <3> QED
      BY <3>3, <3>4
  <2>2. \A r \in Resource \ Ending : Owner'[r] = Owner[r]
    BY <2>0
  <2>3. Lock!Leave(Ending)
    BY <1>3, <1>5, <2>0, <2>1, <2>2 DEF NothingStored
  <2> QED
    BY <2>3
<1>6. UNCHANGED <<Owner, counter>> => UNCHANGED Lock!lockVars
  BY DEF Lock!lockVars, Owner
<1> QED
  BY <1>0, <1>1, <1>2, <1>4, <1>5, <1>6, StepEffect DEF Lock!Next

(* With a clock that does not go back, acquireLease and releaseLease       *)
(* implement the abstract fenced lock: no lease is handed over while it is *)
(* live, and every new owner comes with the next epoch.                    *)
THEOREM CoordinatorImplementsLock ==
  ASSUME ~ClockMayRegress
  PROVE  CoordSpec => ImplementsFencedLock
<1>1. CoordInit => Lock!Init
  BY DEF CoordInit, Lock!Init, LeaseIsLive
<1>2. FencingInv /\ CoordTypeOK' /\ [CoordNext]_coordVars => [Lock!Next]_(Lock!lockVars)
  BY LockStep
<1> QED
  BY <1>1, <1>2, Fencing, CoordTypeCorrect, PTL DEF CoordSpec, ImplementsFencedLock, Lock!Spec

-----------------------------------------------------------------------------
(* The coordinator and its callers.                                        *)

(* A caller in phase "holding" has something it holds.                     *)
HoldingHasBelief == \A c \in Holder : phase[c] = "holding" => belief[c] # NoLease

StoredTokenIsBounded ==
  \A r \in Resource : lease[r] # NoLease => lease[r].fencing_token <= MaxToken

GrantOf(c, b) == [resource |-> b.resource, holder |-> c, fencing_token |-> b.fencing_token]

(* What callers believe, and what is on its way to them, was granted.      *)
BeliefsWereGranted ==
  /\ \A c \in Holder : belief[c] # NoLease => GrantOf(c, belief[c]) \in granted
  /\ \A a \in answers : a.got # NoLease => GrantOf(a.to, a.got) \in granted

LEMMA RequestFields ==
  ASSUME TypeOK, NEW m \in requests
  PROVE  /\ m.from \in Holder /\ m.call \in Nat /\ m.resource \in Resource
         /\ m.op = "acquireLease" => m.ttl \in TtlInput
         /\ m.op = "releaseLease" => m.token \in Nat
  BY DEF TypeOK, Request

-----------------------------------------------------------------------------

(* The coordinator's part of a step.                                       *)
LEMMA StepIsCoordStep ==
  ASSUME TypeOK, StoredTokenIsBounded, [Next]_vars
  PROVE  [CoordNext]_coordVars
<1>0. CoordTypeOK
  BY DEF TypeOK
<1>1. ASSUME NEW m \in requests, ServeAcquire(m)
      PROVE  CoordNext
  BY <1>1, RequestFields DEF ServeAcquire, CoordNext
<1>2. ASSUME NEW m \in requests, ServeRelease(m)
      PROVE  [CoordNext]_coordVars
  <2>1. CASE ReleaseRejected(m.resource, m.from, m.token)
    BY <2>1 DEF ReleaseRejected
  <2>2. CASE ReleaseLease(m.resource, m.from, m.token)
    <3>1. m.token \in 0..MaxToken
      BY <1>0, <1>2, <2>2, RequestFields, ConstantsOK
         DEF ServeRelease, ReleaseLease, ReleaseMatches, StoredTokenIsBounded
    <3> QED
      BY <1>2, <2>2, <3>1, RequestFields DEF CoordNext
  <2> QED
    BY <1>2, <2>1, <2>2 DEF ServeRelease
<1>3. Tick \/ ClockSetBack => CoordNext
  BY DEF CoordNext
<1>4. CASE UNCHANGED coordVars
  BY <1>4
<1>5. ASSUME NEW c \in Holder, NEW r \in Resource, NEW ttl \in TtlInput, CallAcquire(c, r, ttl)
      PROVE  UNCHANGED coordVars
  BY <1>5 DEF CallAcquire
<1>6. ASSUME NEW c \in Holder, CallRelease(c) \/ Abandon(c)
      PROVE  UNCHANGED coordVars
  BY <1>6 DEF CallRelease, Abandon
<1>7. ASSUME NEW m \in requests, ServeRejected(m)
      PROVE  UNCHANGED coordVars
  BY <1>7 DEF ServeRejected
<1>8. ASSUME NEW a \in answers, Accept(a) \/ DropLate(a)
      PROVE  UNCHANGED coordVars
  BY <1>8 DEF Accept, DropLate
<1>9. CASE UNCHANGED vars
  BY <1>9 DEF vars
<1> QED
  BY <1>1, <1>2, <1>3, <1>4, <1>5, <1>6, <1>7, <1>8, <1>9 DEF Next

LEMMA TokenBoundStep ==
  ASSUME CoordTypeOK, StoredTokenIsBounded, [CoordNext]_coordVars
  PROVE  StoredTokenIsBounded'
<1>1. ASSUME NEW r \in Resource, NEW h \in Holder, NEW ttl \in TtlInput, Refuse(r, h, ttl)
      PROVE  StoredTokenIsBounded'
  BY <1>1 DEF Refuse, coordVars, StoredTokenIsBounded
<1>2. ASSUME NEW r \in Resource, NEW h \in Holder, NEW ttl \in TtlInput, Renew(r, h, ttl)
      PROVE  StoredTokenIsBounded'
  <2>1. lease[r] \in Lease /\ lease[r] # NoLease
    BY <1>2, NoLeaseAssumption DEF Renew, LeaseIsLive, CoordTypeOK
  <2>2. lease'[r] = [lease[r] EXCEPT !.expires_at = now + ttl]
    BY <1>2 DEF Renew, CoordTypeOK
  <2>3. lease'[r].fencing_token = lease[r].fencing_token
    BY <2>1, <2>2 DEF Lease
  <2>4. \A s \in Resource \ {r} : lease'[s] = lease[s]
    BY <1>2 DEF Renew, CoordTypeOK
  <2> QED
    BY <2>1, <2>3, <2>4 DEF StoredTokenIsBounded
<1>3. ASSUME NEW r \in Resource, NEW h \in Holder, NEW ttl \in TtlInput, Mint(r, h, ttl)
      PROVE  StoredTokenIsBounded'
  BY <1>3 DEF Mint, CoordTypeOK, StoredTokenIsBounded
<1>4. ASSUME NEW r \in Resource, NEW h \in Holder, NEW token \in 0..MaxToken,
             ReleaseLease(r, h, token)
      PROVE  StoredTokenIsBounded'
  BY <1>4 DEF ReleaseLease, CoordTypeOK, StoredTokenIsBounded
<1>5. ASSUME NEW r \in Resource, NEW h \in Holder, NEW token \in 0..MaxToken,
             ReleaseRejected(r, h, token)
      PROVE  StoredTokenIsBounded'
  BY <1>5 DEF ReleaseRejected, coordVars, StoredTokenIsBounded
<1>6. CASE Tick \/ ClockSetBack \/ UNCHANGED coordVars
  BY <1>6 DEF Tick, ClockSetBack, coordVars, StoredTokenIsBounded
<1> QED
  BY <1>1, <1>2, <1>3, <1>4, <1>5, <1>6 DEF CoordNext, AcquireLease

-----------------------------------------------------------------------------

(* acquireLease answers with a lease it has recorded as granted.           *)
LEMMA AnswerIsGranted ==
  ASSUME CoordTypeOK, NEW r \in Resource, NEW h \in Holder, NEW ttl \in TtlInput,
         AcquireLease(r, h, ttl), AcquireAnswer(r, h, ttl).acquired
  PROVE  LET l == AcquireAnswer(r, h, ttl).lease
         IN  /\ l.fencing_token \in Nat /\ l.expires_at \in Nat
             /\ [resource |-> r, holder |-> h, fencing_token |-> l.fencing_token] \in granted'
<1> DEFINE l == AcquireAnswer(r, h, ttl).lease
<1>0. ~(LeaseIsLive(lease[r], now) /\ lease[r].holder # h)
  BY DEF AcquireAnswer
<1>1. l = [holder |-> h, expires_at |-> now + ttl,
           fencing_token |-> IF LeaseIsLive(lease[r], now) THEN lease[r].fencing_token
                             ELSE NextToken(r)]
  BY <1>0 DEF AcquireAnswer
<1>2. TtlIsLegal(ttl)
  BY DEF AcquireLease, Refuse, Renew, Mint
<1>3. l.expires_at \in Nat
  BY <1>1, <1>2, TtlIsPositive DEF CoordTypeOK
<1>4. CASE LeaseIsLive(lease[r], now)
  <2>1. Renew(r, h, ttl)
    BY <1>0, <1>4 DEF AcquireLease, Refuse, Mint
  <2>2. lease[r] \in Lease
    BY <1>4 DEF LeaseIsLive, CoordTypeOK
  <2>3. lease'[r] = [lease[r] EXCEPT !.expires_at = now + ttl]
    BY <2>1 DEF Renew, CoordTypeOK
  <2>4. lease'[r].holder = h /\ lease'[r].fencing_token = lease[r].fencing_token
    BY <2>1, <2>2, <2>3 DEF Lease, Renew
  <2>5. Recorded(r, lease'[r]) \in granted'
    BY <2>1 DEF Renew
  <2>6. l.fencing_token = lease[r].fencing_token /\ l.fencing_token \in Nat
    BY <1>1, <1>4, <2>2 DEF Lease
  <2> QED
    BY <1>3, <2>4, <2>5, <2>6 DEF Recorded
<1>5. CASE ~LeaseIsLive(lease[r], now)
  <2>1. Mint(r, h, ttl)
    BY <1>5 DEF AcquireLease, Refuse, Renew
  <2>2. lease'[r].holder = h /\ lease'[r].fencing_token = NextToken(r)
    BY <2>1 DEF Mint, CoordTypeOK
  <2>3. Recorded(r, lease'[r]) \in granted'
    BY <2>1 DEF Mint
  <2>4. l.fencing_token = NextToken(r) /\ l.fencing_token \in Nat
    BY <1>1, <1>5, NextTokenIsNew
  <2> QED
    BY <1>3, <2>2, <2>3, <2>4 DEF Recorded
<1> QED
  BY <1>4, <1>5

-----------------------------------------------------------------------------

(* A step keeps the declared types, and a holding caller has a belief.     *)
LEMMA ClientTypeStep ==
  ASSUME TypeOK, HoldingHasBelief, CoordTypeOK', [Next]_vars
  PROVE  TypeOK' /\ HoldingHasBelief'
<1> DEFINE ClientsOK == /\ phase \in [Holder -> {"idle", "holding", "acquiring", "releasing"}]
                        /\ calls \in [Holder -> Nat]
                        /\ belief \in [Holder -> Belief \cup {NoLease}]
                        /\ requests \subseteq Request
                        /\ answers \subseteq Answer
<1>0. CoordTypeOK /\ ClientsOK
  BY DEF TypeOK
<1>1. ASSUME NEW c \in Holder, NEW r \in Resource, NEW ttl \in TtlInput, CallAcquire(c, r, ttl)
      PROVE  ClientsOK' /\ HoldingHasBelief'
  <2>1. belief' \in [Holder -> Belief \cup {NoLease}]
    <3>1. CASE belief[c] = NoLease \/ ~TtlIsLegal(ttl)
      BY <1>0, <1>1, <3>1 DEF CallAcquire
    <3>2. CASE belief[c] # NoLease /\ TtlIsLegal(ttl)
      <4>1. belief[c] \in Belief
        BY <1>0, <3>2
      <4>2. Earlier(belief[c].expires_at, now + ttl) \in Nat
        BY <1>0, <3>2, <4>1, TtlIsPositive DEF Earlier, Belief, CoordTypeOK
      <4>3. [belief[c] EXCEPT !.expires_at = Earlier(@, now + ttl)] \in Belief
        BY <4>1, <4>2 DEF Belief
      <4>4. belief' = [belief EXCEPT ![c].expires_at = Earlier(@, now + ttl)]
        BY <1>1, <3>2 DEF CallAcquire
      <4> QED
        BY <1>0, <4>3, <4>4
    <3> QED
      BY <3>1, <3>2
  <2>2. calls' \in [Holder -> Nat] /\ calls'[c] \in Nat
    BY <1>0, <1>1 DEF CallAcquire, NextCall
  <2>3. [op |-> "acquireLease", from |-> c, call |-> calls'[c], resource |-> r, ttl |-> ttl]
          \in Request
    BY <2>2 DEF Request
  <2>4. requests' \subseteq Request
    BY <1>0, <1>1, <2>3 DEF CallAcquire
  <2>5. phase' \in [Holder -> {"idle", "holding", "acquiring", "releasing"}]
    BY <1>0, <1>1 DEF CallAcquire
  <2>6. HoldingHasBelief'
    <3> SUFFICES ASSUME NEW d \in Holder, phase'[d] = "holding"
                 PROVE  belief'[d] # NoLease
      BY DEF HoldingHasBelief
    <3>1. d # c /\ phase[d] = "holding"
      BY <1>0, <1>1 DEF CallAcquire
    <3>2. belief'[d] = belief[d]
      BY <1>0, <1>1, <3>1 DEF CallAcquire
    <3> QED
      BY <3>1, <3>2 DEF HoldingHasBelief
  <2> QED
    BY <1>0, <1>1, <2>1, <2>2, <2>4, <2>5, <2>6 DEF CallAcquire
<1>2. ASSUME NEW c \in Holder, CallRelease(c)
      PROVE  ClientsOK' /\ HoldingHasBelief'
  <2>1. belief[c] \in Belief
    BY <1>0, <1>2 DEF CallRelease, HoldingHasBelief
  <2>2. calls' \in [Holder -> Nat] /\ calls'[c] \in Nat
    BY <1>0, <1>2 DEF CallRelease, NextCall
  <2>3. [op |-> "releaseLease", from |-> c, call |-> calls'[c],
         resource |-> belief[c].resource, token |-> belief[c].fencing_token] \in Request
    BY <2>1, <2>2 DEF Request, Belief
  <2>4. requests' \subseteq Request /\ answers' = answers
    BY <1>0, <1>2, <2>3 DEF CallRelease
  <2>5. /\ phase' \in [Holder -> {"idle", "holding", "acquiring", "releasing"}]
        /\ belief' \in [Holder -> Belief \cup {NoLease}]
    BY <1>0, <1>2 DEF CallRelease
  <2>6. HoldingHasBelief'
    BY <1>0, <1>2 DEF CallRelease, HoldingHasBelief
  <2> QED
    BY <1>0, <2>2, <2>4, <2>5, <2>6
<1>3. ASSUME NEW m \in requests, ServeAcquire(m)
      PROVE  ClientsOK' /\ HoldingHasBelief'
  <2> DEFINE l == AcquireAnswer(m.resource, m.from, m.ttl).lease
             got == IF AcquireAnswer(m.resource, m.from, m.ttl).acquired
                      THEN [resource |-> m.resource, fencing_token |-> l.fencing_token,
                            expires_at |-> l.expires_at]
                      ELSE NoLease
  <2>1. got \in Belief \cup {NoLease}
    <3>1. CASE AcquireAnswer(m.resource, m.from, m.ttl).acquired
      <4>1. l.fencing_token \in Nat /\ l.expires_at \in Nat
        BY <1>0, <1>3, <3>1, RequestFields, AnswerIsGranted DEF ServeAcquire
      <4> QED
        BY <3>1, <4>1, RequestFields DEF Belief
    <3> QED
      BY <3>1
  <2>2. [to |-> m.from, call |-> m.call, got |-> got] \in Answer
    BY <2>1, RequestFields DEF Answer
  <2>3. answers' = answers \cup {[to |-> m.from, call |-> m.call, got |-> got]}
    BY <1>3 DEF ServeAcquire
  <2>4. UNCHANGED <<phase, calls, belief>> /\ requests' \subseteq requests
    BY <1>3 DEF ServeAcquire
  <2> QED
    BY <1>0, <2>2, <2>3, <2>4 DEF HoldingHasBelief
<1>4. ASSUME NEW m \in requests, ServeRelease(m) \/ ServeRejected(m)
      PROVE  ClientsOK' /\ HoldingHasBelief'
  <2>1. [to |-> m.from, call |-> m.call, got |-> NoLease] \in Answer
    BY RequestFields DEF Answer
  <2>2. /\ answers' = answers \cup {[to |-> m.from, call |-> m.call, got |-> NoLease]}
        /\ UNCHANGED <<phase, calls, belief>> /\ requests' \subseteq requests
    BY <1>4 DEF ServeRelease, ServeRejected
  <2> QED
    BY <1>0, <2>1, <2>2 DEF HoldingHasBelief
<1>5. ASSUME NEW a \in answers, Accept(a)
      PROVE  ClientsOK' /\ HoldingHasBelief'
  <2>1. a.to \in Holder /\ a.got \in Belief \cup {NoLease}
    BY <1>0 DEF Answer
  <2>2. /\ belief' = [belief EXCEPT ![a.to] = a.got]
        /\ phase' = [phase EXCEPT ![a.to] = IF a.got = NoLease THEN "idle" ELSE "holding"]
        /\ answers' \subseteq answers /\ UNCHANGED <<calls, requests>>
    BY <1>5 DEF Accept
  <2>3. HoldingHasBelief'
    BY <1>0, <2>1, <2>2 DEF HoldingHasBelief
  <2> QED
    BY <1>0, <2>1, <2>2, <2>3
<1>6. ASSUME NEW a \in answers, DropLate(a)
      PROVE  ClientsOK' /\ HoldingHasBelief'
  BY <1>0, <1>6 DEF DropLate, HoldingHasBelief
<1>7. ASSUME NEW c \in Holder, Abandon(c)
      PROVE  ClientsOK' /\ HoldingHasBelief'
  BY <1>0, <1>7 DEF Abandon, HoldingHasBelief
<1>8. ASSUME UNCHANGED clientVars
      PROVE  ClientsOK' /\ HoldingHasBelief'
  BY <1>0, <1>8 DEF clientVars, HoldingHasBelief
<1> QED
  BY <1>1, <1>2, <1>3, <1>4, <1>5, <1>6, <1>7, <1>8 DEF Next, vars, TypeOK

(* A step keeps beliefs and answers covered by grants, which only grow.    *)
LEMMA GrantedStep ==
  ASSUME TypeOK, HoldingHasBelief, BeliefsWereGranted, [CoordNext]_coordVars, [Next]_vars
  PROVE  BeliefsWereGranted'
<1>0. /\ CoordTypeOK /\ granted \subseteq granted'
      /\ belief \in [Holder -> Belief \cup {NoLease}] /\ answers \subseteq Answer
  BY DEF TypeOK, CoordNext, coordVars, AcquireLease, Refuse, Renew, Mint, ReleaseLease,
         ReleaseRejected, Tick, ClockSetBack
<1>1. ASSUME \A c \in Holder : belief'[c] # NoLease =>
               GrantOf(c, belief'[c]) \in granted',
             \A a \in answers' : a \in answers \/ a.got = NoLease
               \/ GrantOf(a.to, a.got) \in granted'
      PROVE  BeliefsWereGranted'
  BY <1>0, <1>1 DEF BeliefsWereGranted, GrantOf
<1>2. ASSUME UNCHANGED belief
      PROVE  \A c \in Holder : belief'[c] # NoLease => GrantOf(c, belief'[c]) \in granted'
  BY <1>0, <1>2 DEF BeliefsWereGranted
<1>3. ASSUME NEW c \in Holder, NEW r \in Resource, NEW ttl \in TtlInput, CallAcquire(c, r, ttl)
      PROVE  BeliefsWereGranted'
  <2>1. ASSUME NEW d \in Holder, belief'[d] # NoLease
        PROVE  GrantOf(d, belief'[d]) \in granted'
    <3>1. CASE belief' = belief
      BY <1>2, <2>1, <3>1
    <3>2. CASE belief[c] # NoLease
               /\ belief' = [belief EXCEPT ![c].expires_at = Earlier(@, now + ttl)]
      <4>1. belief[c] \in Belief
        BY <1>0, <3>2
      <4>2. GrantOf(c, belief'[c]) = GrantOf(c, belief[c])
        BY <1>0, <3>2, <4>1 DEF GrantOf, Belief
      <4>3. d # c => belief'[d] = belief[d]
        BY <1>0, <3>2
      <4> QED
        BY <1>0, <2>1, <3>2, <4>2, <4>3 DEF BeliefsWereGranted
    <3> QED
      BY <1>3, <3>1, <3>2 DEF CallAcquire
  <2> QED
    BY <1>1, <1>3, <2>1 DEF CallAcquire
<1>4. ASSUME NEW c \in Holder, CallRelease(c)
      PROVE  BeliefsWereGranted'
  <2>1. \A d \in Holder : belief'[d] # NoLease => belief'[d] = belief[d]
    BY <1>0, <1>4 DEF CallRelease
  <2> QED
    BY <1>0, <1>1, <1>4, <2>1 DEF CallRelease, BeliefsWereGranted
<1>5. ASSUME NEW m \in requests, ServeAcquire(m)
      PROVE  BeliefsWereGranted'
  <2> DEFINE answer == AcquireAnswer(m.resource, m.from, m.ttl)
             got == IF answer.acquired
                      THEN [resource |-> m.resource,
                            fencing_token |-> answer.lease.fencing_token,
                            expires_at |-> answer.lease.expires_at]
                      ELSE NoLease
  <2>1. answers' = answers \cup {[to |-> m.from, call |-> m.call, got |-> got]}
    BY <1>5 DEF ServeAcquire
  <2>2. answer.acquired => GrantOf(m.from, got) \in granted'
    BY <1>0, <1>5, RequestFields, AnswerIsGranted DEF ServeAcquire, GrantOf
  <2> QED
    BY <1>1, <1>2, <1>5, <2>1, <2>2 DEF ServeAcquire
<1>6. ASSUME NEW m \in requests, ServeRelease(m) \/ ServeRejected(m)
      PROVE  BeliefsWereGranted'
  BY <1>1, <1>2, <1>6 DEF ServeRelease, ServeRejected
<1>7. ASSUME NEW a \in answers, Accept(a)
      PROVE  BeliefsWereGranted'
  <2>1. a.to \in Holder /\ (a.got # NoLease => GrantOf(a.to, a.got) \in granted')
    BY <1>0 DEF Answer, BeliefsWereGranted
  <2>2. belief' = [belief EXCEPT ![a.to] = a.got]
    BY <1>7 DEF Accept
  <2>3. \A c \in Holder : belief'[c] # NoLease => GrantOf(c, belief'[c]) \in granted'
    BY <1>0, <2>1, <2>2 DEF BeliefsWereGranted
  <2> QED
    BY <1>1, <1>7, <2>3 DEF Accept
<1>8. ASSUME NEW a \in answers, DropLate(a)
      PROVE  BeliefsWereGranted'
  BY <1>1, <1>2, <1>8 DEF DropLate
<1>9. ASSUME NEW c \in Holder, Abandon(c)
      PROVE  BeliefsWereGranted'
  BY <1>1, <1>2, <1>9 DEF Abandon
<1>10. CASE UNCHANGED clientVars
  BY <1>1, <1>2, <1>10 DEF clientVars
<1> QED
  BY <1>3, <1>4, <1>5, <1>6, <1>7, <1>8, <1>9, <1>10 DEF Next, vars

-----------------------------------------------------------------------------

(* The inductive invariant of the composition.                             *)
ClientInv == TypeOK /\ HoldingHasBelief /\ StoredTokenIsBounded /\ BeliefsWereGranted

LEMMA ClientInvariant == Spec => []ClientInv
<1>1. Init => ClientInv
  BY DEF Init, CoordInit, ClientInv, TypeOK, CoordTypeOK, HoldingHasBelief,
         StoredTokenIsBounded, BeliefsWereGranted
<1>2. ClientInv /\ [Next]_vars => ClientInv'
  <2> SUFFICES ASSUME ClientInv, [Next]_vars
               PROVE  ClientInv'
    OBVIOUS
  <2>1. [CoordNext]_coordVars
    BY StepIsCoordStep DEF ClientInv
  <2>2. CoordTypeOK /\ CoordTypeOK'
    BY <2>1, CoordTypeStep DEF ClientInv, TypeOK
  <2> QED
    BY <2>1, <2>2, ClientTypeStep, TokenBoundStep, GrantedStep DEF ClientInv
<1> QED
  BY <1>1, <1>2, PTL DEF Spec

(* Every reachable state of coordinator and callers has the declared types. *)
THEOREM ClientsTypeCorrect == Spec => []TypeOK
<1>1. ClientInv => TypeOK
  BY DEF ClientInv
<1> QED
  BY <1>1, ClientInvariant, PTL

(* Whatever its callers send, and however late, the object behaves as the  *)
(* coordinator alone: what is proved of acquireLease and releaseLease      *)
(* holds with callers that retry and abandon calls.                        *)
THEOREM ClientsRunCoordinator == Spec => CoordSpec
<1>1. Init => CoordInit
  BY DEF Init
<1>2. ClientInv /\ [Next]_vars => [CoordNext]_coordVars
  BY StepIsCoordStep DEF ClientInv
<1> QED
  BY <1>1, <1>2, ClientInvariant, PTL DEF Spec, CoordSpec

(* Two callers that believe in one lease at the same time, because a       *)
(* delayed releaseLease or the clock ended it early, hold different        *)
(* fencing tokens, and a caller is outranked by the holder that acquireLease *)
(* has put in its place.                                                   *)
THEOREM BelieversFenced == Spec => []BelieversAreFenced
<1>1. ClientInv /\ FencingInv => BelieversAreFenced
  <2> SUFFICES ASSUME ClientInv, FencingInv
               PROVE  BelieversAreFenced
    OBVIOUS
  <2>0. /\ \A c \in Holder : belief[c] # NoLease => GrantOf(c, belief[c]) \in granted
        /\ granted \subseteq Grant
        /\ lease \in [Resource -> Lease \cup {NoLease}] /\ counter \in [Resource -> Nat]
    BY DEF ClientInv, BeliefsWereGranted, FencingInv, CoordTypeOK, Grant
  <2>1. ASSUME NEW c1 \in Holder, NEW c2 \in Holder, NEW r \in Resource, c1 # c2,
               Believes(c1, r), Believes(c2, r)
        PROVE  belief[c1].fencing_token # belief[c2].fencing_token
    BY <2>0, <2>1 DEF Believes, GrantOf, FencingInv, TokenNamesOneHolder
  <2>2. ASSUME NEW c \in Holder, NEW r \in Resource,
               Believes(c, r), lease[r] # NoLease, lease[r].holder # c
        PROVE  belief[c].fencing_token < lease[r].fencing_token
    <3> DEFINE g == GrantOf(c, belief[c])
    <3>1. /\ g \in granted /\ g.resource = r /\ g.holder = c
          /\ g.fencing_token = belief[c].fencing_token /\ g.fencing_token \in Nat
      BY <2>0, <2>2 DEF Believes, GrantOf, Grant
    <3>2. g.fencing_token <= counter[r] /\ counter[r] = lease[r].fencing_token
      BY <2>2, <3>1 DEF FencingInv, GrantsAreCounted, StoredLeaseIsNewest
    <3>3. g.fencing_token # lease[r].fencing_token
      <4>1. /\ Recorded(r, lease[r]) \in granted
            /\ Recorded(r, lease[r]).resource = r
            /\ Recorded(r, lease[r]).holder = lease[r].holder
            /\ Recorded(r, lease[r]).fencing_token = lease[r].fencing_token
        BY <2>2 DEF FencingInv, StoredLeaseWasGranted, Recorded
      <4> QED
        BY <2>2, <3>1, <4>1 DEF FencingInv, TokenNamesOneHolder
    <3> QED
      BY <2>0, <3>1, <3>2, <3>3
  <2> QED
    BY <2>1, <2>2 DEF BelieversAreFenced
<1> QED
  BY <1>1, ClientInvariant, ClientsRunCoordinator, Fencing, PTL
-----------------------------------------------------------------------------
(* Callers that wait.  A caller with a call out has one message under way, *)
(* and what it believes, or is about to be told, is covered by the stored  *)
(* lease for as long as it is believed.                                    *)
OneCallOut ==
  /\ \A m \in requests : m.call = calls[m.from]
       /\ phase[m.from] = IF m.op = "acquireLease" THEN "acquiring" ELSE "releasing"
  /\ \A a \in answers : Awaited(a)
  /\ \A m1, m2 \in requests : m1.from = m2.from => m1 = m2
  /\ \A a1, a2 \in answers : a1.to = a2.to => a1 = a2
  /\ \A m \in requests, a \in answers : m.from # a.to

GivenUp == \A c \in Holder : phase[c] = "releasing" => belief[c] = NoLease

Covered(c, b, leases, t) ==
  (b # NoLease /\ b.expires_at > t) =>
    /\ leases[b.resource] # NoLease
    /\ leases[b.resource].holder = c
    /\ b.expires_at <= leases[b.resource].expires_at

BeliefsAreCovered ==
  /\ \A c \in Holder : Covered(c, belief[c], lease, now)
  /\ \A a \in answers : Covered(a.to, a.got, lease, now)

(* A renewal under way leaves no belief beyond the deadline it may set.    *)
RenewalsReach ==
  \A m \in requests :
    (m.op = "acquireLease" /\ TtlIsLegal(m.ttl) /\ belief[m.from] # NoLease)
      => belief[m.from].expires_at <= now + m.ttl

WaitInv == OneCallOut /\ GivenUp /\ BeliefsAreCovered /\ RenewalsReach

LEMMA ClientFields ==
  ASSUME TypeOK
  PROVE  /\ phase \in [Holder -> {"idle", "holding", "acquiring", "releasing"}]
         /\ belief \in [Holder -> Belief \cup {NoLease}]
         /\ lease \in [Resource -> Lease \cup {NoLease}]
         /\ now \in Nat
         /\ \A a \in answers : a.to \in Holder /\ a.got \in Belief \cup {NoLease}
         /\ \A m \in requests : m.op \in {"acquireLease", "releaseLease"} /\ m.from \in Holder
  BY DEF TypeOK, CoordTypeOK, Answer, Request

(* Serving a call takes no lease away that somebody else's belief needs.   *)
LEMMA ServeAcquireCovers ==
  ASSUME TypeOK, NEW m \in requests, ServeAcquire(m),
         NEW c \in Holder, NEW b \in Belief \cup {NoLease}, Covered(c, b, lease, now),
         (c = m.from /\ b # NoLease) => b.expires_at <= now + m.ttl
  PROVE  Covered(c, b, lease', now')
<1> DEFINE r == m.resource  h == m.from  ttl == m.ttl
<1>0. /\ r \in Resource /\ h \in Holder /\ ttl \in TtlInput
      /\ lease \in [Resource -> Lease \cup {NoLease}] /\ now \in Nat
  BY ClientFields, RequestFields DEF ServeAcquire
<1> SUFFICES ASSUME b # NoLease, b.expires_at > now'
             PROVE  /\ lease'[b.resource] # NoLease
                    /\ lease'[b.resource].holder = c
                    /\ b.expires_at <= lease'[b.resource].expires_at
  BY DEF Covered
<1>1. b \in Belief /\ now' = now /\ b.resource \in Resource /\ b.expires_at \in Nat
  BY DEF ServeAcquire, AcquireLease, Refuse, Renew, Mint, coordVars, Belief
<1>2. /\ lease[b.resource] \in Lease /\ lease[b.resource] # NoLease
      /\ lease[b.resource].holder = c
      /\ b.expires_at <= lease[b.resource].expires_at
  BY <1>0, <1>1 DEF Covered
<1>3. LeaseIsLive(lease[b.resource], now)
  BY <1>0, <1>1, <1>2 DEF LeaseIsLive, Lease
<1>4. CASE Refuse(r, h, ttl)
  BY <1>2, <1>4 DEF Refuse, coordVars
<1>5. CASE Renew(r, h, ttl)
  <2>1. CASE b.resource = r
    <3>1. lease'[r] = [lease[r] EXCEPT !.expires_at = now + ttl] /\ c = h
      BY <1>0, <1>2, <1>5, <2>1 DEF Renew
    <3>2. now + ttl \in Nat
      BY <1>0, <1>5, TtlIsPositive DEF Renew
    <3>3. lease'[r] \in Lease /\ lease'[r].holder = c /\ lease'[r].expires_at = now + ttl
      BY <1>2, <2>1, <3>1, <3>2 DEF Lease
    <3> QED
      BY <2>1, <3>1, <3>3, NoLeaseAssumption
  <2>2. CASE b.resource # r
    BY <1>0, <1>1, <1>2, <1>5, <2>2 DEF Renew
  <2> QED
    BY <2>1, <2>2
<1>6. CASE Mint(r, h, ttl)
  <2>1. b.resource # r
    BY <1>3, <1>6 DEF Mint
  <2> QED
    BY <1>0, <1>1, <1>2, <1>6, <2>1 DEF Mint
<1> QED
  BY <1>4, <1>5, <1>6 DEF ServeAcquire, AcquireLease

(* The answer to an acquireLease is covered by what was stored with it.    *)
LEMMA AnswerIsCovered ==
  ASSUME TypeOK, NEW m \in requests, ServeAcquire(m)
  PROVE  \E got \in Belief \cup {NoLease} :
           /\ answers' = answers \cup {[to |-> m.from, call |-> m.call, got |-> got]}
           /\ Covered(m.from, got, lease', now')
<1> DEFINE r == m.resource  h == m.from  ttl == m.ttl
           l == AcquireAnswer(r, h, ttl).lease
<1>0. /\ r \in Resource /\ h \in Holder /\ ttl \in TtlInput
      /\ lease \in [Resource -> Lease \cup {NoLease}] /\ now \in Nat /\ CoordTypeOK
  BY ClientFields, RequestFields DEF ServeAcquire, TypeOK
<1>1. CASE ~AcquireAnswer(r, h, ttl).acquired
  <2>1. answers' = answers \cup {[to |-> m.from, call |-> m.call, got |-> NoLease]}
    BY <1>1 DEF ServeAcquire
  <2>2. Covered(m.from, NoLease, lease', now')
    BY DEF Covered
  <2> QED
    BY <2>1, <2>2
<1>2. CASE AcquireAnswer(r, h, ttl).acquired
  <2> DEFINE got == [resource |-> r, fencing_token |-> l.fencing_token, expires_at |-> l.expires_at]
  <2>1. answers' = answers \cup {[to |-> m.from, call |-> m.call, got |-> got]}
    BY <1>2 DEF ServeAcquire
  <2>2. AcquireLease(r, h, ttl)
    BY DEF ServeAcquire
  <2>3. got \in Belief
    BY <1>0, <1>2, <2>2, AnswerIsGranted DEF Belief
  <2>4. ~(LeaseIsLive(lease[r], now) /\ lease[r].holder # h) /\ l.expires_at = now + ttl
    BY <1>2 DEF AcquireAnswer
  <2>5. lease'[r] # NoLease /\ lease'[r].holder = h /\ lease'[r].expires_at = now + ttl
    <3>1. now + ttl \in Nat /\ NextToken(r) \in Nat
      BY <1>0, <2>2, TtlIsPositive, NextTokenIsNew DEF AcquireLease, Refuse, Renew, Mint
    <3>2. CASE Renew(r, h, ttl)
      <4>1. lease[r] \in Lease /\ lease[r].holder = h
        BY <1>0, <3>2 DEF Renew, LeaseIsLive
      <4>2. lease'[r] = [lease[r] EXCEPT !.expires_at = now + ttl]
        BY <1>0, <3>2 DEF Renew
      <4>3. lease'[r] \in Lease /\ lease'[r].holder = h /\ lease'[r].expires_at = now + ttl
        BY <3>1, <4>1, <4>2 DEF Lease
      <4> QED
        BY <4>3, NoLeaseAssumption
    <3>3. CASE Mint(r, h, ttl)
      <4>1. lease'[r] = [holder |-> h, fencing_token |-> NextToken(r), expires_at |-> now + ttl]
        BY <1>0, <3>3 DEF Mint
      <4>2. lease'[r] \in Lease
        BY <1>0, <3>1, <4>1 DEF Lease
      <4> QED
        BY <4>1, <4>2, NoLeaseAssumption
    <3> QED
      BY <2>2, <2>4, <3>2, <3>3 DEF AcquireLease, Refuse
  <2>6. got.resource = r /\ got.expires_at = now + ttl
    BY <2>4
  <2>7. now + ttl \in Nat
    BY <1>0, <2>2, TtlIsPositive DEF AcquireLease, Refuse, Renew, Mint
  <2> HIDE DEF got
  <2>8. Covered(m.from, got, lease', now')
    BY <2>5, <2>6, <2>7 DEF Covered
  <2> QED
    BY <2>1, <2>3, <2>8
<1> QED
  BY <1>1, <1>2
(* What a step leaves covered when it touches neither leases nor clock.    *)
LEMMA CallAcquireWaits ==
  ASSUME TypeOK, WaitInv, NEW c \in Holder, NEW r \in Resource, NEW ttl \in TtlInput,
         CallAcquire(c, r, ttl)
  PROVE  WaitInv'
<1> DEFINE call == [op |-> "acquireLease", from |-> c, call |-> calls'[c], resource |-> r, ttl |-> ttl]
<1>0. /\ requests' = requests \cup {call} /\ UNCHANGED <<answers, lease, now>>
      /\ phase[c] \in {"idle", "holding"} /\ phase' = [phase EXCEPT ![c] = "acquiring"]
      /\ calls' = [calls EXCEPT ![c] = @ + 1]
      /\ call.op = "acquireLease" /\ call.from = c /\ call.ttl = ttl /\ call.call = calls'[c]
  BY DEF CallAcquire, NextCall, coordVars
<1>1. /\ \A m \in requests : m.from # c
      /\ \A a \in answers : a.to # c
  BY <1>0 DEF WaitInv, OneCallOut, Awaited
<1>2. \A d \in Holder : d # c => belief'[d] = belief[d] /\ phase'[d] = phase[d] /\ calls'[d] = calls[d]
  BY <1>0, ClientFields DEF CallAcquire, TypeOK
<1>3. phase'[c] = "acquiring"
  BY <1>0, ClientFields
<1> HIDE DEF call
<1>4. OneCallOut'
  BY <1>0, <1>1, <1>2, <1>3, ClientFields DEF WaitInv, OneCallOut, Awaited
<1>5. GivenUp'
  BY <1>2, <1>3 DEF WaitInv, GivenUp
<1>6. /\ (belief'[c] # NoLease /\ TtlIsLegal(ttl)) => belief'[c].expires_at <= now + ttl
      /\ belief'[c] # NoLease => /\ belief[c] # NoLease
                                 /\ belief'[c].resource = belief[c].resource
                                 /\ belief'[c].expires_at <= belief[c].expires_at
                                 /\ belief[c].expires_at \in Nat /\ belief'[c].expires_at \in Nat
  <2>1. CASE belief[c] = NoLease
    BY <2>1, ClientFields DEF CallAcquire
  <2>2. CASE belief[c] # NoLease /\ ~TtlIsLegal(ttl)
    BY <2>2, ClientFields DEF CallAcquire, Belief
  <2>3. CASE belief[c] # NoLease /\ TtlIsLegal(ttl)
    <3>1. belief[c] \in Belief /\ belief[c].expires_at \in Nat /\ now + ttl \in Nat
      BY <2>3, ClientFields, TtlIsPositive DEF Belief
    <3>2. belief'[c] = [belief[c] EXCEPT !.expires_at = Earlier(@, now + ttl)]
      BY <2>3, ClientFields DEF CallAcquire
    <3>3. /\ Earlier(belief[c].expires_at, now + ttl) \in Nat
          /\ Earlier(belief[c].expires_at, now + ttl) <= now + ttl
          /\ Earlier(belief[c].expires_at, now + ttl) <= belief[c].expires_at
      BY <3>1 DEF Earlier
    <3>4. /\ belief'[c].resource = belief[c].resource
          /\ belief'[c].expires_at = Earlier(belief[c].expires_at, now + ttl)
      BY <3>1, <3>2 DEF Belief
    <3> QED
      BY <2>3, <3>1, <3>3, <3>4
  <2> QED
    BY <2>1, <2>2, <2>3
<1>7. BeliefsAreCovered'
  <2>1. Covered(c, belief'[c], lease, now)
    <3> SUFFICES ASSUME belief'[c] # NoLease, belief'[c].expires_at > now
                 PROVE  /\ lease[belief[c].resource] # NoLease
                        /\ lease[belief[c].resource].holder = c
                        /\ belief'[c].expires_at <= lease[belief[c].resource].expires_at
      BY <1>6 DEF Covered
    <3>1. /\ lease[belief[c].resource] # NoLease
          /\ lease[belief[c].resource].holder = c
          /\ belief[c].expires_at <= lease[belief[c].resource].expires_at
      BY <1>6, ClientFields DEF WaitInv, BeliefsAreCovered, Covered
    <3>2. lease[belief[c].resource].expires_at \in Nat
      BY <1>6, <3>1, ClientFields DEF Belief, Lease
    <3> QED
      BY <1>6, <3>1, <3>2
  <2> QED
    BY <1>0, <1>2, <2>1 DEF WaitInv, BeliefsAreCovered
<1>8. RenewalsReach'
  BY <1>0, <1>1, <1>2, <1>6, ClientFields DEF WaitInv, RenewalsReach
<1> QED
  BY <1>4, <1>5, <1>7, <1>8 DEF WaitInv

LEMMA CallReleaseWaits ==
  ASSUME TypeOK, WaitInv, NEW c \in Holder, CallRelease(c)
  PROVE  WaitInv'
<1> DEFINE call == [op |-> "releaseLease", from |-> c, call |-> calls'[c],
                    resource |-> belief[c].resource, token |-> belief[c].fencing_token]
<1>0. /\ requests' = requests \cup {call} /\ UNCHANGED <<answers, lease, now>>
      /\ phase[c] = "holding" /\ phase' = [phase EXCEPT ![c] = "releasing"]
      /\ calls' = [calls EXCEPT ![c] = @ + 1] /\ belief' = [belief EXCEPT ![c] = NoLease]
      /\ call.op = "releaseLease" /\ call.from = c /\ call.call = calls'[c]
  BY DEF CallRelease, NextCall, coordVars
<1>1. /\ \A m \in requests : m.from # c
      /\ \A a \in answers : a.to # c
  BY <1>0 DEF WaitInv, OneCallOut, Awaited
<1>2. \A d \in Holder : d # c => belief'[d] = belief[d] /\ phase'[d] = phase[d] /\ calls'[d] = calls[d]
  BY <1>0, ClientFields DEF TypeOK
<1>3. phase'[c] = "releasing" /\ belief'[c] = NoLease
  BY <1>0, ClientFields
<1> HIDE DEF call
<1>4. OneCallOut'
  BY <1>0, <1>1, <1>2, <1>3, ClientFields DEF WaitInv, OneCallOut, Awaited
<1>5. GivenUp'
  BY <1>2, <1>3 DEF WaitInv, GivenUp
<1>6. BeliefsAreCovered'
  BY <1>0, <1>2, <1>3, ClientFields DEF WaitInv, BeliefsAreCovered, Covered
<1>7. RenewalsReach'
  BY <1>0, <1>1, <1>2, <1>3, ClientFields DEF WaitInv, RenewalsReach
<1> QED
  BY <1>4, <1>5, <1>6, <1>7 DEF WaitInv

(* Whatever serves a call takes its request and leaves one answer.         *)
LEMMA ServedIsAnswered ==
  ASSUME TypeOK, OneCallOut, NEW m \in requests, NEW got,
         requests' = requests \ {m},
         answers' = answers \cup {[to |-> m.from, call |-> calls[m.from], got |-> got]},
         UNCHANGED <<phase, calls>>
  PROVE  OneCallOut'
<1> DEFINE new == [to |-> m.from, call |-> calls[m.from], got |-> got]
<1>1. new.to = m.from /\ new.call = calls[m.from]
  OBVIOUS
<1> HIDE DEF new
<1>2. answers' = answers \cup {new}
  BY DEF new
<1>3. \A a \in answers' : Awaited(a)'
  BY <1>1, <1>2, ClientFields DEF OneCallOut, Awaited
<1>4. /\ \A a \in answers : a.to # m.from
      /\ \A n \in requests' : n \in requests /\ n.from # m.from
  BY DEF OneCallOut
<1> QED
  BY <1>1, <1>2, <1>3, <1>4 DEF OneCallOut
LEMMA ServeAcquireWaits ==
  ASSUME TypeOK, WaitInv, NEW m \in requests, ServeAcquire(m)
  PROVE  WaitInv'
<1>0. /\ requests' = requests \ {m} /\ UNCHANGED <<phase, calls, belief>> /\ now' = now
      /\ m.op = "acquireLease" /\ TtlIsLegal(m.ttl) /\ m.call = calls[m.from]
  BY DEF ServeAcquire, AcquireLease, Refuse, Renew, Mint, coordVars, WaitInv, OneCallOut
<1>1. PICK got \in Belief \cup {NoLease} :
        /\ answers' = answers \cup {[to |-> m.from, call |-> m.call, got |-> got]}
        /\ Covered(m.from, got, lease', now')
  BY AnswerIsCovered
<1>2. OneCallOut'
  BY <1>0, <1>1, ServedIsAnswered DEF WaitInv
<1>3. GivenUp'
  BY <1>0 DEF WaitInv, GivenUp
<1>4. ASSUME NEW d \in Holder
      PROVE  Covered(d, belief[d], lease', now')
  <2>1. belief[d] \in Belief \cup {NoLease} /\ Covered(d, belief[d], lease, now)
    BY ClientFields DEF WaitInv, BeliefsAreCovered
  <2>2. (d = m.from /\ belief[d] # NoLease) => belief[d].expires_at <= now + m.ttl
    BY <1>0 DEF WaitInv, RenewalsReach
  <2> QED
    BY <2>1, <2>2, ServeAcquireCovers
<1>5. ASSUME NEW a \in answers
      PROVE  Covered(a.to, a.got, lease', now')
  <2>1. /\ a.to \in Holder /\ a.got \in Belief \cup {NoLease}
        /\ Covered(a.to, a.got, lease, now) /\ a.to # m.from
    BY ClientFields DEF WaitInv, BeliefsAreCovered, OneCallOut
  <2> QED
    BY <2>1, ServeAcquireCovers
<1>6. BeliefsAreCovered'
  <2> DEFINE new == [to |-> m.from, call |-> m.call, got |-> got]
  <2>1. answers' = answers \cup {new} /\ new.to = m.from /\ new.got = got
    BY <1>1
  <2> HIDE DEF new
  <2> QED
    BY <1>0, <1>1, <1>4, <1>5, <2>1 DEF BeliefsAreCovered
<1>7. RenewalsReach'
  BY <1>0 DEF WaitInv, RenewalsReach
<1> QED
  BY <1>2, <1>3, <1>6, <1>7 DEF WaitInv

(* A release deletes the lease of its sender, who believes in none then.   *)
LEMMA ServeReleaseWaits ==
  ASSUME TypeOK, WaitInv, NEW m \in requests, ServeRelease(m) \/ ServeRejected(m)
  PROVE  WaitInv'
<1>0. /\ requests' = requests \ {m} /\ UNCHANGED <<phase, calls, belief>> /\ now' = now
      /\ m.call = calls[m.from]
      /\ answers' = answers \cup {[to |-> m.from, call |-> calls[m.from], got |-> NoLease]}
  BY DEF ServeRelease, ServeRejected, ReleaseLease, ReleaseRejected, coordVars, WaitInv, OneCallOut
<1>1. OneCallOut'
  BY <1>0, ServedIsAnswered DEF WaitInv
<1>2. GivenUp'
  BY <1>0 DEF WaitInv, GivenUp
<1>3. \/ lease' = lease
      \/ /\ belief[m.from] = NoLease
         /\ m.resource \in Resource /\ lease' = [lease EXCEPT ![m.resource] = NoLease]
         /\ lease[m.resource] # NoLease /\ lease[m.resource].holder = m.from
  BY RequestFields
     DEF ServeRelease, ServeRejected, ReleaseLease, ReleaseMatches, ReleaseRejected, coordVars,
         WaitInv, OneCallOut, GivenUp
<1>4. ASSUME NEW d \in Holder, NEW b \in Belief \cup {NoLease}, Covered(d, b, lease, now),
             d = m.from => b = NoLease \/ lease' = lease
      PROVE  Covered(d, b, lease', now')
  <2> SUFFICES ASSUME b # NoLease, b.expires_at > now
               PROVE  lease'[b.resource] = lease[b.resource]
    BY <1>0, <1>4 DEF Covered
  <2>1. b.resource \in Resource /\ lease[b.resource].holder = d
    BY <1>4 DEF Belief, Covered
  <2> QED
    BY <1>3, <1>4, <2>1, ClientFields
<1>5. BeliefsAreCovered'
  <2> DEFINE new == [to |-> m.from, call |-> calls[m.from], got |-> NoLease]
  <2>1. answers' = answers \cup {new} /\ new.got = NoLease
    BY <1>0
  <2> HIDE DEF new
  <2>2. \A d \in Holder : Covered(d, belief[d], lease', now')
    BY <1>3, <1>4, ClientFields DEF WaitInv, BeliefsAreCovered
  <2>3. \A a \in answers : Covered(a.to, a.got, lease', now')
    BY <1>4, ClientFields DEF WaitInv, BeliefsAreCovered, OneCallOut
  <2>4. Covered(new.to, new.got, lease', now')
    BY <2>1 DEF Covered
  <2> QED
    BY <1>0, <2>1, <2>2, <2>3, <2>4 DEF BeliefsAreCovered
<1>6. RenewalsReach'
  BY <1>0 DEF WaitInv, RenewalsReach
<1> QED
  BY <1>1, <1>2, <1>5, <1>6 DEF WaitInv

LEMMA AcceptWaits ==
  ASSUME TypeOK, WaitInv, NEW a \in answers, Accept(a)
  PROVE  WaitInv'
<1>0. /\ answers' = answers \ {a} /\ UNCHANGED <<calls, requests, lease, now>>
      /\ belief' = [belief EXCEPT ![a.to] = a.got]
      /\ phase' = [phase EXCEPT ![a.to] = IF a.got = NoLease THEN "idle" ELSE "holding"]
  BY DEF Accept, coordVars
<1>1. /\ a.to \in Holder
      /\ \A m \in requests : m.from # a.to
      /\ \A x \in answers' : x \in answers /\ x.to # a.to
  BY <1>0, ClientFields DEF WaitInv, OneCallOut
<1>2. \A d \in Holder : d # a.to => belief'[d] = belief[d] /\ phase'[d] = phase[d]
  BY <1>0, ClientFields
<1>3. phase'[a.to] \in {"idle", "holding"} /\ belief'[a.to] = a.got
  BY <1>0, <1>1, ClientFields
<1>4. OneCallOut'
  <2>1. \A m \in requests' : m.call = calls'[m.from]
          /\ phase'[m.from] = IF m.op = "acquireLease" THEN "acquiring" ELSE "releasing"
    BY <1>0, <1>1, <1>2, ClientFields DEF WaitInv, OneCallOut
  <2>2. \A x \in answers' : Awaited(x)'
    BY <1>0, <1>1, <1>2, ClientFields DEF WaitInv, OneCallOut, Awaited
  <2> QED
    BY <1>0, <1>1, <2>1, <2>2 DEF WaitInv, OneCallOut
<1>5. GivenUp'
  BY <1>2, <1>3 DEF WaitInv, GivenUp
<1>6. BeliefsAreCovered'
  BY <1>0, <1>1, <1>2, <1>3 DEF WaitInv, BeliefsAreCovered
<1>7. RenewalsReach'
  BY <1>0, <1>1, <1>2, ClientFields DEF WaitInv, RenewalsReach
<1> QED
  BY <1>4, <1>5, <1>6, <1>7 DEF WaitInv

LEMMA TickWaits ==
  ASSUME TypeOK, WaitInv, Tick, UNCHANGED clientVars
  PROVE  WaitInv'
<1>0. now' = now + 1 /\ UNCHANGED <<lease, phase, calls, belief, requests, answers>> /\ now \in Nat
  BY ClientFields DEF Tick, clientVars
<1>1. OneCallOut' /\ GivenUp'
  BY <1>0 DEF WaitInv, OneCallOut, Awaited, GivenUp
<1>2. ASSUME NEW c \in Holder, NEW b \in Belief \cup {NoLease}, Covered(c, b, lease, now)
      PROVE  Covered(c, b, lease, now')
  BY <1>0, <1>2 DEF Covered, Belief
<1>3. BeliefsAreCovered'
  BY <1>0, <1>2, ClientFields DEF WaitInv, BeliefsAreCovered
<1>4. ASSUME NEW m \in requests, m.op = "acquireLease", TtlIsLegal(m.ttl), belief[m.from] # NoLease
      PROVE  belief[m.from].expires_at <= now' + m.ttl
  <2>1. belief[m.from].expires_at \in Nat /\ m.ttl \in Nat
    BY <1>4, ClientFields, RequestFields, TtlIsPositive DEF Belief
  <2>2. belief[m.from].expires_at <= now + m.ttl
    BY <1>4 DEF WaitInv, RenewalsReach
  <2> QED
    BY <1>0, <2>1, <2>2
<1>5. RenewalsReach'
  BY <1>0, <1>4 DEF RenewalsReach
<1> QED
  BY <1>1, <1>3, <1>5 DEF WaitInv

(* acquireLease and releaseLease as a lock: callers that wait for their    *)
(* answers never believe in one resource together, however long calls and  *)
(* answers take, provided that the object's clock does not go back.        *)
THEOREM WaitingCallersExcludeEachOther ==
  ASSUME ~MayAbandon, ~ClockMayRegress
  PROVE  Spec => []BelievedExclusive
<1>1. Init => WaitInv
  BY DEF Init, WaitInv, OneCallOut, GivenUp, BeliefsAreCovered, Covered, RenewalsReach
<1>2. ClientInv /\ WaitInv /\ [Next]_vars => WaitInv'
  <2> SUFFICES ASSUME TypeOK, WaitInv, [Next]_vars
               PROVE  WaitInv'
    BY DEF ClientInv
  <2>1. ASSUME NEW c \in Holder, Abandon(c)
        PROVE  FALSE
    BY <2>1 DEF Abandon
  <2>2. ASSUME NEW a \in answers, DropLate(a)
        PROVE  FALSE
    BY <2>2 DEF DropLate, WaitInv, OneCallOut
  <2>3. ~ClockSetBack
    BY DEF ClockSetBack
  <2>4. CASE UNCHANGED vars
    BY <2>4 DEF vars, coordVars, clientVars, WaitInv, OneCallOut, Awaited, GivenUp,
               BeliefsAreCovered, RenewalsReach
  <2> QED
    BY <2>1, <2>2, <2>3, <2>4, CallAcquireWaits, CallReleaseWaits, ServeAcquireWaits,
       ServeReleaseWaits, AcceptWaits, TickWaits DEF Next
<1>3. WaitInv => BelievedExclusive
  BY DEF WaitInv, BeliefsAreCovered, Covered, BelievedExclusive, Believes
<1> QED
  BY <1>1, <1>2, <1>3, ClientInvariant, PTL DEF Spec
=============================================================================
