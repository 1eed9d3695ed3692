--------------------------- MODULE MCEdgeRevocation ---------------------------
(* A behaviour has two keys, or a third request (it takes three for a late *)
(* answer to follow a denial and be used after it), or a clock that may be *)
(* set back.                                                               *)
EXTENDS EdgeRevocation

CONSTANTS q1, q2, q3, k1, k2

VARIABLE part

TwoKeys == {k1, k2}
ThreeRequests == {q1, q2, q3}
ShortLife == {2}

MCInit == Init /\ part \in {"two keys", "three requests", "clock set back"}

MCNext ==
  /\ Next /\ UNCHANGED part
  /\ part # "three requests" => phase'[q3] = "new"
  /\ part # "two keys" => authority'[k2] = None /\ \A q \in Request : key'[q] # k2
  /\ part # "clock set back" => ~setBack'

MCSpec == MCInit /\ [][MCNext]_<<vars, part>> /\ Fairness
=============================================================================
