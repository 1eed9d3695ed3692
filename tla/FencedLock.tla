------------------------------ MODULE FencedLock ------------------------------
(***************************************************************************)
(* What a lease coordinator promises, without clocks, records or RPCs: per *)
(* resource at most one owner, and an epoch that grows by one with every   *)
(* change from "nobody" to an owner.  An owner leaves before the next one  *)
(* comes in, and nothing ever lowers an epoch.                             *)
(***************************************************************************)
EXTENDS Naturals

CONSTANTS Resource, Holder, Nobody

VARIABLES owner, epoch

lockVars == <<owner, epoch>>

Init ==
  /\ owner = [r \in Resource |-> Nobody]
  /\ epoch = [r \in Resource |-> 0]

Enter(r, h) ==
  /\ owner[r] = Nobody
  /\ owner' = [owner EXCEPT ![r] = h]
  /\ epoch' = [epoch EXCEPT ![r] = @ + 1]

(* Release or expiry; one clock tick may end the leases of several.        *)
Leave(S) ==
  /\ \A r \in S : owner[r] # Nobody
  /\ owner' = [r \in Resource |-> IF r \in S THEN Nobody ELSE owner[r]]
  /\ UNCHANGED epoch

Next ==
  \/ \E r \in Resource, h \in Holder : Enter(r, h)
  \/ \E S \in SUBSET Resource : Leave(S)

Spec == Init /\ [][Next]_lockVars
=============================================================================
