----------------------------- MODULE EdgePipeline -----------------------------
(***************************************************************************)
(* The edge worker: requests on their way to a region (EdgeRequest), and   *)
(* the caches of credentials one isolate keeps for its authentication      *)
(* (EdgeCredentials, on the variables cr...).  The steps interleave; what  *)
(* the caches decide is what Boundary and Authenticate leave open.         *)
(***************************************************************************)
EXTENDS EdgeRequest

CONSTANTS JwksTtl, JwtTtl, AuthTtl, RefusalTtl, MaxFlight, Expiry, MaxTime

(* The settings are read with positiveNumber and envNumber; 0 would turn a *)
(* cache off.                                                              *)
ASSUME EdgeTimesOK ==
  /\ {JwksTtl, JwtTtl, AuthTtl, RefusalTtl} \subseteq Nat \ {0}
  /\ {MaxFlight, Expiry, MaxTime} \subseteq Nat
  /\ None \notin Nat \cup BOOLEAN
  /\ None \notin [backed : BOOLEAN \cup {None}, arrived : BOOLEAN, until : Nat \cup {None}]

VARIABLES
  crNow, crRetired, crVerified, crJwks, crAuthCache, crPhase, crCredential, crNowMs, crCall

crVars == <<crNow, crRetired, crVerified, crJwks, crAuthCache,
            crPhase, crCredential, crNowMs, crCall>>

Credentials == INSTANCE EdgeCredentials WITH
  now <- crNow, retired <- crRetired, verified <- crVerified, jwks <- crJwks,
  authCache <- crAuthCache, phase <- crPhase, credential <- crCredential,
  nowMs <- crNowMs, call <- crCall

PipelineInit == Init /\ Credentials!Init

PipelineNext ==
  \/ Next /\ UNCHANGED crVars
  \/ Credentials!Next /\ UNCHANGED vars

PipelineSpec == PipelineInit /\ [][PipelineNext]_<<vars, crVars>>

-----------------------------------------------------------------------------
(* EdgeCredentials: nothing is accepted long after it was revoked, however *)
(* late and in whatever order the answers about it arrive.                 *)
AcceptedIsBacked == Credentials!TypeOK /\ Credentials!AcceptedIsBacked
=============================================================================
