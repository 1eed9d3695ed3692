----------------------------- MODULE MCCoordinator -----------------------------
(* Two callers on one lease in the impatient use and on two in the patient *)
(* one, and three writers, one of which passes null.                       *)
EXTENDS Coordinator, TLC

CONSTANTS h1, h2, r1, r2, w1, w2, w3

TwoHolders == {h1, h2}
OneResource == {r1}
TwoResources == {r1, r2}
MCTtlInput == {-1, 1, 3}

(* The first caller has time to acquire, release and acquire again.        *)
FewCalls == (h1 :> 3) @@ (h2 :> 1)
MoreCalls == (h1 :> 3) @@ (h2 :> 2)

ThreeWriters == {w1, w2, w3}
OneBlindWriter == {w3}
=============================================================================
