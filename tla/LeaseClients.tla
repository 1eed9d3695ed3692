----------------------------- MODULE LeaseClients -----------------------------
(***************************************************************************)
(* The lease coordinator composed with the callers its RPC interface is    *)
(* for.  A caller is external code: it has one call outstanding, its call  *)
(* and the answer may be delayed for any time, and (MayAbandon) it may     *)
(* stop waiting and start another call while the first is still under way, *)
(* which is what a timeout followed by a retry does.  A caller believes it *)
(* holds a resource until the deadline of the last answer it accepted; it  *)
(* gives the belief up before it asks for a release, and never believes    *)
(* past the deadline that a renewal under way may set.                     *)
(***************************************************************************)
EXTENDS LeaseCoordinator

CONSTANTS
  MaxCalls,    \* bound: how many calls each caller makes, [Holder -> Nat]
  MayAbandon   \* whether a caller may stop waiting for an answer

ASSUME ClientConstantsOK == MaxCalls \in [Holder -> Nat] /\ MayAbandon \in BOOLEAN

VARIABLES
  phase,     \* [Holder -> {"idle", "holding", "acquiring", "releasing"}]
  calls,     \* [Holder -> Nat], number of the caller's latest call
  belief,    \* [Holder -> Belief \cup {NoLease}]
  requests,  \* RPC requests on their way to the object
  answers    \* answers on their way back

clientVars == <<phase, calls, belief, requests, answers>>
vars == <<coordVars, clientVars>>

Belief == [resource : Resource, fencing_token : Nat, expires_at : Nat]
Request ==
  [op : {"acquireLease"}, from : Holder, call : Nat, resource : Resource, ttl : TtlInput]
    \cup
  [op : {"releaseLease"}, from : Holder, call : Nat, resource : Resource, token : Nat]
Answer ==
  [to : Holder, call : Nat, got : Belief \cup {NoLease}]

TypeOK ==
  /\ CoordTypeOK
  /\ phase \in [Holder -> {"idle", "holding", "acquiring", "releasing"}]
  /\ calls \in [Holder -> Nat]
  /\ belief \in [Holder -> Belief \cup {NoLease}]
  /\ requests \subseteq Request
  /\ answers \subseteq Answer

Init ==
  /\ CoordInit
  /\ phase = [c \in Holder |-> "idle"]
  /\ calls = [c \in Holder |-> 0]
  /\ belief = [c \in Holder |-> NoLease]
  /\ requests = {}
  /\ answers = {}

-----------------------------------------------------------------------------

Believes(c, r) ==
  belief[c] # NoLease /\ belief[c].resource = r /\ belief[c].expires_at > now

NextCall(c) == /\ calls[c] < MaxCalls[c]
               /\ calls' = [calls EXCEPT ![c] = @ + 1]

Earlier(a, b) == IF a < b THEN a ELSE b

(* The first acquisition, or the renewal of what the caller holds.         *)
CallAcquire(c, r, ttl) ==
  /\ phase[c] = "idle" \/ (phase[c] = "holding" /\ belief[c].resource = r)
  /\ NextCall(c)
  /\ phase' = [phase EXCEPT ![c] = "acquiring"]
  /\ belief' = IF belief[c] = NoLease \/ ~TtlIsLegal(ttl) THEN belief
               ELSE [belief EXCEPT ![c].expires_at = Earlier(@, now + ttl)]
  /\ requests' = requests \cup
       {[op |-> "acquireLease", from |-> c, call |-> calls'[c], resource |-> r, ttl |-> ttl]}
  /\ UNCHANGED <<answers, coordVars>>

CallRelease(c) ==
  /\ phase[c] = "holding"
  /\ NextCall(c)
  /\ phase' = [phase EXCEPT ![c] = "releasing"]
  /\ belief' = [belief EXCEPT ![c] = NoLease]
  /\ requests' = requests \cup
       {[op |-> "releaseLease", from |-> c, call |-> calls'[c],
         resource |-> belief[c].resource, token |-> belief[c].fencing_token]}
  /\ UNCHANGED <<answers, coordVars>>

(* The object runs one request to its end and sends the answer.            *)
ServeAcquire(m) ==
  LET answer == AcquireAnswer(m.resource, m.from, m.ttl)
  IN  /\ m.op = "acquireLease"
      /\ AcquireLease(m.resource, m.from, m.ttl)
      /\ requests' = requests \ {m}
      /\ answers' = answers \cup
           {[to |-> m.from, call |-> m.call,
             got |-> IF answer.acquired
                       THEN [resource |-> m.resource,
                             fencing_token |-> answer.lease.fencing_token,
                             expires_at |-> answer.lease.expires_at]
                       ELSE NoLease]}
      /\ UNCHANGED <<phase, calls, belief>>

ServeRelease(m) ==
  /\ m.op = "releaseLease"
  /\ \/ ReleaseLease(m.resource, m.from, m.token)
     \/ ReleaseRejected(m.resource, m.from, m.token)
  /\ requests' = requests \ {m}
  /\ answers' = answers \cup {[to |-> m.from, call |-> m.call, got |-> NoLease]}
  /\ UNCHANGED <<phase, calls, belief>>

(* An illegal ttl rejects the RPC before the transaction: the caller gets  *)
(* an error, which it treats as no lease.                                  *)
ServeRejected(m) ==
  /\ m.op = "acquireLease"
  /\ ~TtlIsLegal(m.ttl)
  /\ requests' = requests \ {m}
  /\ answers' = answers \cup {[to |-> m.from, call |-> m.call, got |-> NoLease]}
  /\ UNCHANGED <<phase, calls, belief, coordVars>>

Awaited(a) == a.call = calls[a.to] /\ phase[a.to] \in {"acquiring", "releasing"}

Accept(a) ==
  /\ Awaited(a)
  /\ belief' = [belief EXCEPT ![a.to] = a.got]
  /\ phase' = [phase EXCEPT ![a.to] = IF a.got = NoLease THEN "idle" ELSE "holding"]
  /\ answers' = answers \ {a}
  /\ UNCHANGED <<calls, requests, coordVars>>

(* The answer to an abandoned call reaches nobody.                         *)
DropLate(a) ==
  /\ ~Awaited(a)
  /\ answers' = answers \ {a}
  /\ UNCHANGED <<phase, calls, belief, requests, coordVars>>

Abandon(c) ==
  /\ MayAbandon
  /\ phase[c] \in {"acquiring", "releasing"}
  /\ phase' = [phase EXCEPT ![c] = IF belief[c] = NoLease THEN "idle" ELSE "holding"]
  /\ UNCHANGED <<calls, belief, requests, answers, coordVars>>

Next ==
  \/ \E c \in Holder :
       \/ \E r \in Resource, ttl \in TtlInput : CallAcquire(c, r, ttl)
       \/ CallRelease(c)
       \/ Abandon(c)
  \/ \E m \in requests : ServeAcquire(m) \/ ServeRelease(m) \/ ServeRejected(m)
  \/ \E a \in answers : Accept(a) \/ DropLate(a)
  \/ (Tick \/ ClockSetBack) /\ UNCHANGED clientVars

Spec == Init /\ [][Next]_vars

-----------------------------------------------------------------------------
(* acquireLease/releaseLease as a lock: while callers wait for their       *)
(* answers and the object's clock does not go back, two callers never      *)
(* believe in the same resource at once, however long calls and answers    *)
(* take and whatever legal ttl each asks for.                              *)
BelievedExclusive ==
  \A c1, c2 \in Holder : c1 # c2 =>
    \A r \in Resource : ~(Believes(c1, r) /\ Believes(c2, r))

(* When callers do abandon calls, or the clock goes back, a delayed        *)
(* releaseLease can delete a renewed lease and two callers may believe at  *)
(* once; the fencing token still tells them apart, and a caller whose      *)
(* lease was given to another one is outranked by it.                      *)
BelieversAreFenced ==
  /\ \A c1, c2 \in Holder : \A r \in Resource :
       (c1 # c2 /\ Believes(c1, r) /\ Believes(c2, r))
         => belief[c1].fencing_token # belief[c2].fencing_token
  /\ \A c \in Holder, r \in Resource :
       (Believes(c, r) /\ lease[r] # NoLease /\ lease[r].holder # c)
         => belief[c].fencing_token < lease[r].fencing_token
=============================================================================
