---------------------------- MODULE MCEdgeRequest ----------------------------
(* Requests through the whole pipeline, or the caches of credentials       *)
(* behind its authentication.  A behaviour runs one of the two; a worker   *)
(* whose own settings are unusable gets mutations only.                    *)
EXTENDS EdgePipeline, TLC

CONSTANTS q1, q2, east, west, orgA, orgB, keyA

TwoRequests == {q1, q2}
OneRequest == {q1}
TwoRegions == {east, west}
Callers ==
  { [org |-> orgA, keyId |-> keyA, kind |-> "api_key"],
    [org |-> orgA, keyId |-> None, kind |-> "jwt"],
    [org |-> orgB, keyId |-> None, kind |-> "jwt"] }
TwoDistance == (east :> 1) @@ (west :> 10)
TwoNameOrder == (east :> 2) @@ (west :> 3)
Symmetry == Permutations(TwoRequests)

VARIABLE part

MCInit ==
  /\ part \in {"requests", "credentials"}
  /\ PipelineInit
  /\ part = "requests" => crCredential = "jwt"
  /\ unusable \in {{}, {"connect_src"}, {"resource_policy"}}
  /\ unusable # {} => part = "requests" /\ \A q \in Request : method[q] = "POST"
  /\ part = "credentials" => \A q \in Request : method[q] = "POST"

MCNext ==
  /\ UNCHANGED part
  /\ \/ part = "requests" /\ Next /\ UNCHANGED crVars
     \/ part = "credentials" /\ Credentials!Next /\ UNCHANGED vars

MCSpec == MCInit /\ [][MCNext]_<<part, vars, crVars>>
=============================================================================
