# Formal models of fiducia-infra

TLA+ specifications of the parts of this repository that act over time - the
programs that run concurrently, and the tools whose verdicts are about a world that
goes on moving - with the TLC configurations that check them on small instances and
TLAPS proofs of what matters most for every instance. Module names below are files
of this directory; paths such as `workers/fiducia-edge/src/index.mjs` are relative
to the repository.

## 1. The system

fiducia-infra deploys and fronts a Raft-replicated data plane (`fiducia-node`,
`fiducia-brain`, both in other repositories) and contains the programs around it.

```
 caller ──► edge worker (worker.mjs)                       Kubernetes API
              │ 1 jwt-revocation-boundary ─► authority        ▲      ▲
              │ 2 checkAuth ─► auth service                   │      │ status patch
              │ 3 checkRateLimit ─► RateLimiter DO         operator (observer)
              │ 4 read cache (caches.default)
              │ 5 loadEdgeConfig, pickRegions
              └ 6 forwardWithFailover ─► regions (fiducia-node)

 workers / tools ─RPC─► FiduciaLeaseCoordinator DO (leases, versioned state)
 commercial intake web ─RPC─► Postgres (submissions under idempotency keys)

 planners (migration, acceptance campaign): observation ─► plan ─► operators ─► fleet
 gates and validators: a world that moves ─► evidence read from it ─► verdict
 application ledger: senders ─► preflight ─► mails, records, quota
```

### Inventory

| Component | State | Operations | What is hard | What makes it correct |
|---|---|---|---|---|
| **Lease coordinator** `modules/cloudflare/durable-coordinator` | per resource a lease `{holder, fencing_token, expires_at}` and a counter; per key a versioned record | `acquireLease`, `releaseLease`, `getState`, `compareAndSet`; each one storage transaction of a single-threaded object | calls and answers delayed, abandoned and retried; a release overtaken by a renewal; expiry is lazy; `Date.now()` of another host after the object moves | a token names one holder; a new holder outranks all earlier ones; while clocks behave and callers wait, one believer per resource; no acknowledged versioned write is lost |
| **Edge revocation boundary** `jwt-revocation-boundary.mjs` | module globals of one isolate: decision cache, refreshes in flight, clock high-water mark | `authorizeRevocation`: look up, join or start a refresh, install or fail | every `await` interleaves other requests; answers arrive late; eviction; a silent authority; clock set back; isolate replaced | an allow rests on recent knowledge; a known denial is not forgotten; one refresh per key; every request ends |
| **Credentials of the edge** `jwt-revocation-boundary.mjs`, `index.mjs` | `authCache`, two JWKS caches, `verifiedJwtCache` | `checkApiKey`, `verifyJwt`, `verifyFiduciaJwt`, `fetchJwks` | nothing is single-flight; lives of caches add up; two layers judge by two times | nothing is accepted long after it was revoked or expired |
| **Edge rate limiter** `index.mjs` (`checkRateLimit`, `RateLimiter`) | one record `{windowId, count}` and one alarm per subject | `fetch` (transaction, then `setAlarm`), `alarm` (`deleteAll`) | the window is chosen by the caller's clock before the call travels; crash between commit and alarm; the alarm deletes whatever is stored | at most `limit` per window; where that can fail, exactly how; storage reclaimed |
| **Edge request pipeline** `worker.mjs`, `index.mjs` | the read cache; per request the checks passed and the regions tried | boundary → auth → rate → cache → config → forward → cache put | every call may throw; a region may have run a request whose answer is lost; shared cache | nothing unchecked is forwarded; a mutation runs at most once and is never reported as unserved if it ran; no cached answer crosses organisations |
| **Edge header and cookie hygiene** `security-boundary.mjs` | none | pure header rewriting | - | no spoofed identity header passes (unit-testable) |
| **Operator** `operator/src` | the watch cache's copy, one reconciliation under way, the status in the API server | list PVCs, get StatefulSets, compare, patch, requeue | torn reads between API calls; workloads are not watched; the operator's own patch wakes it up; failed calls and replaced pods | a status belongs to the generation it names; it settles on the truth; patching stops |
| **Commercial intake RPC** `supabase/*/migrations/20260902014600_*` | submissions keyed by idempotency key | one `ON CONFLICT DO NOTHING` insert, re-read and compare | the same key from several callers, transactions and answers lost, other contents under one key | one submission per key, and all answers tell of it |
| **Quote workflow database** `quote-system/db` | workflow events, idempotency records, outbox, acceptances | constraints and triggers | two writers with one expected sequence | an event history is a path of the transition rules |
| **Migration planner** `tools/plan-laptop-cloud-migration.mjs` | a plan: ordered replacements with two rollbacks, a fleet cutover | `buildMigrationPlan`, `simulateMigrationPlan` | which step fails decides which rollback applies; the observation ages; the cutover takes trust away | quorum at every step; the observed leader last; the lease released; no laptop loses trust while it may be needed |
| **Acceptance campaign** `tools/*laptop-acceptance*` | specification, preflight, plan, results, two final reports | plan, rehearse, carry out, validate | leaders move after the preflight; two operators, perhaps of different plans; attempts repeated, plans made anew; results that need not be true; durations typed in beside timestamps | two of three stay healthy; the observed leader last; truthful results show their plan carried out in its order; a launch rests on a campaign that happened |
| **Durability, bootstrap, snapshot and JetStream gates** `tools/validate-fiducia-*`, `verify-etcd-snapshot-evidence.mjs`, `validate-laptop-jetstream-evidence.mjs` | a policy and one evidence document | check, decide | keys rotate, secrets refresh, uploads are late or cut short, servers fail - between the facts, their reading and the verdict | what is accepted was true, recently and at one time |
| **Application ledger** `tools/application-operations.mjs` | a document of applications, deliveries and migration state | validate, count the quota, authorise a send | several spellings, repeated mails, bounces, a preflight that reserves nothing | no application is counted that was not received; an application on record is hardly mailed again |
| **Cluster shell operations** `scripts/*.sh` | a lock ConfigMap, fault state on hosts | take lock, inject, restore on trap, delete lock | a killed shell between two commands; deleting another run's lock | at most one fault at a time; faults undone |
| **Renderers, manifests, Terraform, generated code** | - | - | - | static data and document formatting |
| **Raft data plane** | in other repositories | - | consensus | outside this repository's source |

Components interact in few places, and the modules follow them. The lease
coordinator meets its callers (`LeaseClients`). The edge pipeline calls the boundary
and the limiter; `EdgeRequest` keeps of each only the outcomes it may give (the
boundary: pass, 401 or 503; authentication: an identity, a refusal or an exception; the
limiter: ok, limited, error), and `EdgeRevocation`, `EdgeCredentials` and
`EdgeRateLimiter` show which outcomes are given when. The operator meets the API server
and the cluster (`OperatorObserver`). A planner meets the fleet through the operators who
carry its plan out (`MigrationPlan`, `AcceptanceCampaign`); a validator meets the world
through the evidence somebody read from it (the remaining modules).

## 2. Plan

1. The lock service, its abstract promise, its callers, its versioned records. **done, proved**
2. The edge: revocation, limiter, pipeline, credentials. **done, safety proved**
3. The operator. **done, status and types proved**
4. The migration planner with rehearsal, execution, fleet cutover and time. **done, safety proved**
5. The acceptance campaign: planner, operators on a fleet, results; its reports. **done, proved**
6. The four evidence gates, the application ledger, the intake RPC. **done, proved**
7. Every safety property that a run checks is proved. What would come next: the fault lock of `run-laptop-software-fault.sh` once its trap
   checks whose lock it deletes; the quote workflow once a program writes it.

`FencedLock` is the abstract specification of the coordinator; the refinement is checked
and proved.

## 3. The modules and the code

**FencedLock** - what the coordinator promises: per resource nobody or one owner, who leaves
before another enters, and an epoch counting the entries. `LeaseCoordinator!ImplementsFencedLock`
maps `owner` to the holder of a *live* lease and `epoch` to the counter.

**LeaseCoordinator** - variables `lease` and `counter` are the storage records
`lease:<resource>` and `lease-counter:<resource>`; a missing counter is 0, a missing lease
`NoLease`. Each RPC is one action, because its body runs inside one storage transaction of a
single-threaded object: `Refuse`, `Renew` and `Mint` are the three ways through `acquireLease`,
`ReleaseLease` and `ReleaseRejected` the two through `releaseLease`. `NextToken` keeps the code's
`Math.max(counter, current?.fencing_token ?? 0) + 1`, although the maximum is never needed:
`StoredLeaseIsNewest` says so. A ttl outside `MinTtl..MaxTtl` throws before the transaction.
`granted` is history: every lease an `acquired: true` answer carried.

**LeaseClients** - coordinator and callers. A caller is external; it may acquire, renew, release,
wait for the answer or (`MayAbandon`) stop waiting and call again. Requests and answers stay in
flight for any time and overtake each other. A caller believes it holds a lease until the deadline
in the answer it accepted, gives the belief up when it asks for a release, and while a renewal with
a shorter ttl is under way trusts only the earlier deadline. The clock is shared: skew between
caller and object has the effect of `ClockSetBack`.

**VersionedState** - `getState` and `compareAndSet` on one key. A value is the set of operations
written into it, so a lost update is visible. A request may be delivered any number of times; its
answer may be lost; a blind writer passes `null`.

**EdgeRevocation** - one isolate's `revocationCache`, `refreshes` and `clockHighWater`, with one
invocation of `authorizeRevocation` per request, cut at its awaits: `Enter` (clock check, capture of
`nowMs`) - `AnswerFromCache` or `AwaitRefresh` (after the digest) - `AuthorityDecides`,
`RefreshSucceeds`, `RefreshFails`, `TimeoutFires` for the single-flight refresh. All waiters of a
refresh settle in the step that settles its promise: their continuations run in the same microtask
turn and touch nothing but their own answer. `RefreshFails` stands for every malformed, unsigned or
missing answer. `Restart` replaces the isolate.

**EdgeCredentials** - what the isolate remembers of one credential: an API key (`checkApiKey` and
`authCache`) or a JWT, which the boundary verifies by the request's `nowMs` and the edge again by the
present time, each layer with a JWKS cache, and the boundary with a cache of verified tokens. Answers
asked for earlier may arrive later. A request slot is used again when it is done.

**EdgeRateLimiter** - `SendCheck` reads the edge's clock; `Admit` or `Limited` is the transaction in
`RateLimiter.fetch`; `SetAlarm` follows it under the object's input gate unless `Crash` comes
between; `AlarmFires` deletes everything. `disturbed`, `admitted` and `lost` are history.

**EdgeRequest** - a request from `worker.mjs` to its answer; `phase` is the place in `fetch`. Every
`await` before forwarding may throw, which `FailClosed` turns into the 503 of `worker.mjs`. What
`security-boundary.mjs` does to a finished answer is part of the step that gives it (`secureResponse`): unusable
settings make every answer a 503, and a session cookie that breaks the contract makes it a 502. A worker
so misconfigured therefore answers 503 also after a region ran a mutation, and `RanIsReported` counts
such an answer as one that leaves open whether it ran.
`forwardWithFailover` is `SendToRegion`, `RegionRuns` (external), `RegionResponds` and
`RegionUnreachable`, so an exception may come before or after the region executed the request.
`PickRegions` sorts the way the comparator of `pickRegions` does.

**OperatorObserver** - one reconciliation is `StartReconcile` (the watch cache's copy), `ListPvcs`,
`GetStatefulSet` (twice with a brain), then `Unchanged` or `SendPatch` and `PatchLands`. Around it the
cluster (`SetWorkload`, `ClaimChanges`, `EditSpec`), the controller runtime (`WatchEvent`,
`TimerFires`) and faults (`ApiError`, also of a patch that was applied, and `Restart` while a patch is
on the way).

**MigrationPlan** - the planner: `Score` and `Ordered` sort the sources, `StableVoters` is the voter
set threaded through the replacements, `Actions`, `RollbackBefore`, `RollbackAfter` and `FleetCutover`
are the lists action by action, `Rehearses` is `simulateMigrationPlan` with the exercise of the first rollback
(`RollbackExercise`) and the sizes 3, 4 and 3 that the tool writes out, whatever `minimum_stable_voters` says; a
behaviour begins with a plan that passed it. Then such a plan carried out:
`Step` performs the next action with its effect on voters, learners, logs, traffic and lease; `Fail`
abandons a replacement at any action and takes the rollback of the side of the joint consensus the
group is on; `RollBackCompleted` undoes the newest completed replacement within its window; `Elect`
moves leadership; `Tick` ages rollback windows and the soak. The group refuses a joint consensus whose
old configuration is not its present one, so a plan that drifted from the cluster would be stuck
and violate `MigrationCompletes`.

**CampaignPlan** - `plan-laptop-acceptance-campaign.mjs`: what specification and preflight must
satisfy, the order of the clusters by score (`Precedes` is the comparator, `ByScore` the sorted
order), the steps and their actions, the rehearsal. The tool numbers all steps through; here a step's
place (`Places`, `At`) is its scenario's number and its own within it, and `Before` is the order of `sequence`.
**AcceptanceCampaign** carries such plans out: `Observe`, `BuildAcceptancePlan`, then the steps'
actions by two operators who share a lease but need not hold the same plan, on a fleet whose leaders move
(`Election`) and whose recovered members catch up later; steps fail and are repeated. `AcceptResults` is
`validate-laptop-acceptance-results.mjs`, which sees a typed status and strings: an entry of a document has a
status and a set of references `<<i, k>>`, read as the k-th proof of attempt i or, when i is 0, of nothing.
Documents may call a failed attempt passed, take attempts made under another plan, share or run short of
proofs, or let one attempt with several proofs vouch for two steps; `ValidResults` and `ProofList`
(three proofs a step, none used twice) refuse what the code refuses and no more.

**AcceptanceReports** - the two validators at the campaign's end. Operators run scenarios at times
of their own, by the plan or not; a document may state any duration, classification and date the
validator lets pass. The fleet's tool asks for distinct sites, networks and power supplies
(`RequireDistinct`) and for a second person (`RequireDistinctReviewer`) only where its policy says so;
the durability gate has such a switch as well. The runs take them as the committed policies do, the theorems for
any values. `spread` is what is really apart; the fleet's tool sees no times of scenarios.

**DurabilityGate**, **BootstrapSecrets**, **SnapshotEvidence**, **JetStreamEvidence** - the gates.
Each has the external facts (a keyring that rotates, backups stored after they were taken, a restore;
secrets rotated in the cloud and copied by refreshes; snapshots uploaded late, again, cut short, and
pruned; servers that fail, elect and catch up), the reading of the evidence - in parts, at several
moments, where the tool's input is collected so - and the verdict by the tool's conditions, some time later.

**ApplicationLedger** - `makeIdempotencyKey`, delivery state, qualification, `summarizeQuota`, the
validation of an edited ledger and `authorizeApplicationSend`, with senders who mail and providers who
answer. **CommercialIntake** - the RPC under one key as transactions under read committed: `Insert`
waits for an uncommitted insert of the key, `SelectStored` compares digests, `Commit`, `Answer`; `Lose`
takes a transaction or only its answer, `Retry` asks again.

Three modules put components beside each other that are checked and proved together. `Coordinator` has the
object's three uses (abandoning callers, patient callers, versioned writers) and `Evidence` the campaign, the
four gates, the reports, the ledger and the intake: they share nothing, and a variable `part` selects the one a
behaviour runs, of those in the constant `Parts`. `EdgePipeline` is the edge worker: requests (`EdgeRequest`) and the credential
caches (`EdgeCredentials`), whose steps interleave; what the caches decide is what `Boundary` and
`Authenticate` leave open. `MC...` modules give the constants finite values; in `MCEdgeRevocation`
`part` selects two keys, three requests or a clock set back.
Operators named as mutants in the comments are broken variants used to show that the properties
can fail; no specification reaches them.

## 4. Runs

| Run | Question | Properties | Bounds |
|---|---|---|---|
| `coordinator` | Is the coordinator a lock for callers that wait, what is left of it for callers that do not, and does it lose writes? | `TypeOK`, `FencingInv`, `BelieversAreFenced`, `WaitingCallersExclude`, `AcknowledgedIsKept`, `WrittenAtMostOnce`, `NewHolderOutranksAll`, `LeasesAreFencedLock` | 2 holders; abandoning: 1 resource, clock 0-2 both ways, 4 tokens, 3+1 calls; patient: 2 resources, clock 0-3 forward, 5 tokens, 3+2 calls; ttl -1, 1, 3; 3 writers, one blind, 3 versions |
| `revocation` | Can a revoked token get through, and does every request end? | `IsolateIsOrderly`, `AllowIsRecent`, `DenialSticks`, `EveryRequestEnds` | 2 keys with 2 requests, or 1 key with 3, or a clock set back; cache of 1, freshness 2, timeout 1, restarts |
| `rate_limiter` | When is the limit exact, and what does disorder cost? | `AlarmFitsRecord`, `WindowLimit`, `StorageIsReclaimed` | 3 calls, limit 2, window 2, clock 0-9, last call at 5, crashes |
| `edge_requests` | Do failures break the order of checks, single execution, the cache's separation or the age of what is accepted? | `FailoverIsOrderly`, `RunsOnlyChecked`, `CachedAnswerIsOwn`, `MutationRunsOnce`, `RanIsReported`, `AcceptedIsBacked` | 2 requests, 3 identities of 2 organisations, 2 regions with any health; credentials: ttls of 2, refusals 1, flights of 1, exp at 4 |
| `edge_limited_answer` | Is a limited caller told so? (violated) | `LimitedIsTold` | 1 request |
| `operator_observer` | Does the status become and stay true, and does patching stop? | `StatusIsOrderly`, `StatusSettles`, `PatchingStops` | 2 StatefulSets of one replica, 3 outside changes, 1 fault |
| `operator_claims` | Does `StorageReady` mean each pod's claim is bound? (violated) | `StorageReadyMeansBound` | 2 replicas, 2 outside changes, no fault |
| `migration_plan` | Can a plan be carried through after any failure, without unsafe membership or lost trust on the way? | `PlanFitsCluster`, `VotersAreCaughtUp`, `SourcesRetained`, `LeaderIsTransferredFirst`, `MigrationCompletes` | 3 sources, every observation of leaders, rollback window 1, 3 troubles |
| `migration_rollback` | Does the rollback after joint consensus spare a leading target? (violated) | `RollbackSparesLeader` | the same |
| `acceptance_campaign` | Do two operators following plans keep the quorum, and what do accepted results show where their references are true? | `FleetKeepsQuorum`, `ObservedLeaderGoesLast`, `TruthfulResultsFollowThePlan` | 3 clusters, 3 scenarios (one of each kind), a good and a bad specification, 2 operators holding any of the plans, one leader at the start, 1 election, 2 observations, 6 attempts, 1 failure |
| `evidence` | What does an accepted report, a counted application, an answered submission stand for? | `NeededKeysWereShown`, `HeldValuesAreRecent`, `BucketRestoresRecentState`, `AnyOneLossLeavesQuorum`, `LaunchIsEarned`, `QuotaIsEarned`, `RepeatedMailsAreBounded`, `RepliesAgree` | in `MCEvidence`: ages of 1-3, clocks to 2-4, 2 keys, clusters, snapshots, senders and spellings, 3 servers, calls or failure domains; policy switches as committed |
| `physical_campaign_order` | Was the soak of an accepted physical campaign its last scenario? (violated) | `SoakWasLast` | the same |

Why the bounds are enough. A property relates at most two actors and one shared record, or one
actor's two steps around another's. Two holders with two calls or more give every order of
acquire, renew and release around an expiry, which the clock leaves room for. Two keys with a cache of
one give an eviction between two requests; three requests on one key give a refresh joined, one that
ends with a denial, and a later one. Three rate-limit calls against a limit of two give a full window, a
call that overtakes and a stale alarm; a clock to 9 lets every alarm fire after the last call at 5.
Three changes and one fault let the world move between any two API calls of a reconciliation and
again after it. Three troubles let a replacement fail, its neighbour be rolled back and an election
come between. Six attempts complete a plan of three scenarios - its five steps and one that failed - or leave
one half done beside another, whose attempts then stand in for missing ones;
the election may come before the first plan, between two plans or during one, so a single leader at the start is enough.
An age limit of one tick in a clock of three or four lets a fact be fresh, be just old enough, grow too old
before the reading and again between reading and verdict. Bounds on clocks, tokens, versions, calls and
attempts are guards of actions and only cut behaviours short; the liveness properties are
stated so that stopping at the bound cannot make them true (the clock of `EdgeRevocation` may stand
still while its timers run on). In `AcceptanceReports` a document asks for seven days or one tick less
(`AskedHours`): more would only let fewer reports pass.

Symmetry is declared only in runs without liveness or action properties, over constants no cfg orders. `CHECK_DEADLOCK
FALSE` is given where the bounds or the end of all requests stop the system; the operator never
stops and is checked for deadlock.

## 5. Fairness

* `EdgeRevocation!Fairness`: weak fairness of time, of the two continuations that need nothing
  external, and of the abort timer. Neither the authority nor the network is fair, so
  `EveryRequestEnds` rests on the timeout alone.
* `EdgeRateLimiter!FairSpec`: weak fairness of time, of the end of a running event and of alarm
  delivery, which the platform retries until it succeeds.
* `OperatorObserver!FairSpec`: weak fairness of every step of the controller runtime and of the
  API server's answer; `error_policy` and `Action::requeue` are what make the timer fire.
  Faults and outside changes are bounded, so liveness says what happens once the cluster is quiet.
* `MigrationPlan!FairSpec`: the executor goes on with the list it is in, starts the next
  replacement, and time passes; troubles are bounded. The planner promises nothing about who
  executes the plan: this says only that the plan itself leads to its end.

No other specification states fairness; their properties are safety properties. In particular nobody
has to carry a campaign out, repeat a submission or renew evidence, and the JWKS fetch and the
introspection, which have no timeout in the code, are not assumed to end.

## 6. Proofs

Eight modules hold theorems, each for every value of the constants. They rest on the named assumptions
on constants of the module they are about (TLC evaluates these in every run) and, where a theorem says so,
on `NoneIsNew`: `None` is none of the values it stands in for. In the composing modules that
assumption is part of `VersionConstantsOK`, `EdgeTimesOK` and `EvidenceConstantsOK`. An argument is given where the inductive invariant is more than the property.

**`LeaseClientsProofs`**, first of the coordinator alone: `CoordTypeCorrect`; `Fencing` (`FencingInv`: one token of
a resource names one holder); `NewHolderOutranks` (a holder that replaces another, or nobody, gets a token
above all grants so far); `CounterIsMonotone`; `CoordinatorImplementsLock` (if the clock does not go back,
the coordinator implements `FencedLock`). That tokens name one holder is not inductive: nothing in it says
that the next token is new, nor that a renewal's token belongs to the renewing holder. `FencingInv`
adds `GrantsAreCounted` (granted tokens are at most the counter), `StoredLeaseIsNewest` (the stored
lease carries the counter, so `NextToken = counter + 1`, which the epochs of the refinement need) and
`StoredLeaseWasGranted` (a renewal adds no grant). `StepEffect` reduces `CoordNext` to three effects
on the records - renewed, minted, dropped - or none. A mint is an `Enter`, a release of a live lease
a `Leave` of one resource, a tick the `Leave` of all leases that end with it.

Then with callers: `ClientsTypeCorrect`; `ClientsRunCoordinator` (every step of the composition is a
step of the coordinator or leaves it alone, so the theorems above hold with callers as well);
`BelieversFenced` (callers that believe in one lease at the same time hold different tokens, and the
newer outranks the older, with abandoned calls and any clock). `ClientInv` adds that a holding caller
has a belief, that stored tokens stay within `MaxToken`, and that every belief and every answer under
way is a recorded grant. `WaitingCallersExcludeEachOther` (`BelievedExclusive`, for callers that do not
abandon calls and a clock that does not go back) needs more: a caller with a call out has one message
under way (`OneCallOut`); one that asked for a release believes nothing (`GivenUp`); whatever is believed, or
about to be told, is covered by a stored lease of that caller which lasts at least as long
(`BeliefsAreCovered`); and a renewal under way leaves no belief beyond the deadline it may set
(`RenewalsReach`), for a renewal may shorten the stored lease. A mint finds no live lease, hence ends no belief.

**`CoordinatorProofs`**, of the object in its three uses: `UsesRunClients` (the abandoning callers' variables behave
as `LeaseClients`, so all of the above holds of the specification the run checks); `PatientCallersExclude` and
`PatientLeasesAreLock`, the exclusion and the refinement for the patient callers, both from the theorems above
instantiated on the variables `pl...`; `NoUpdateIsLost` (an acknowledged versioned write stays, as long as nobody
writes blindly) and `NoRequestIsWrittenTwice`. What a writer has read is of an earlier version or is
the record (`ReadsAreOld`); a request whose expected version is still the record's has not been written
and contains the whole record, one that was written expects a version that is gone (`RequestsExtend`).

**`EdgeRevocationProofs`**: `AllowsAreRecent`, `DenialsStick`, `IsolateStaysOrderly`. Three layers. *Shape*:
a key's refresh is the flight of the request that started it, and waiters wait for a refresh of their own
key, hence one refresh per key. *Times*: as long as the clock was not set back, what was read before is not
ahead of the clock, and a "no" of the authority - in an entry, or in an answer under way - was true at the
time it will be stamped with and at the time the timer started; so an allow is at most the freshness or
the timeout old. *Denials*: a key that somebody was denied has a revocation at the authority, and while
that stands no entry and no answer says no any more. That the answers come in the authority's order, and
hence that a late answer cannot take a denial back, is exactly what one refresh per key gives; this layer
needs no clock, so denials stick also when it is set back. That the cache keeps its capacity is
an induction of its own over `InstallDecision`.

**`EdgeRateLimiterProofs`**: `WindowsAreLimited`, `AlarmsFitRecords`. Every admission is in the record or was lost with one
(`AdmissionsArePaid`); while nothing is disturbed a record is lost only when its window is over
(`LostIsOver`), for which the alarm has to outlive the window (`AlarmSparesCurrentWindow`).

**`EdgeRequestProofs`**: `MutationsRunOnce`, `WhatRanIsReported`, `OnlyCheckedReachRegions`,
`CacheKeepsOrganisationsApart`: what has been passed at each place of `fetch` (`CheckedOnTheWay`), that a
mutation is on its way once and answered when it is back (`OneTry`), and that a cached response is
under the key of the caller it was made for (`OwnAnswers`). `FailoverIsInOrder`: `Places` adds that the
order of a request lists every healthy region before any other one, which `PickRegions` establishes
for any distances and names. `RevocationReachesTheEdge` (`AcceptedIsBacked`, on the variables `cr...`): an
API key's entry, and an introspection still under way, end a fixed time after the key was retired
(`ApiKeyFades`: one flight and one life of `authCache`); a token is accepted until the lives of the
boundary's JWKS and verified-token caches have passed, and never after its `exp` (`TokenFades`). The edge's own
JWKS cache adds nothing, because the boundary has judged before it.

**`OperatorObserverProofs`**: `StatusesKeepTheirGeneration`. Every copy of the resource - in the API
server, the watch cache, the reconciliation - pairs a generation with the specification it had, a status
is made from one copy, and a status therefore lists the workloads of the generation it names, also
when a patch of a replaced process lands late.

**`EvidenceProofs`**, one inductive invariant per tool:

* `NeededKeysAreShown`: every reading lists the keys its backups and live values need (`ReadingListsKeys`), which
  are then covered by the restore the report names.
* `ReadyClustersAreRecent`: a held value was not replaced before it was refreshed (`Current`), in the clusters and in
  the reading; so whatever was replaced was replaced after the refresh, and refresh and reading are
  both bounded at the verdict. `CurrentStays` is the step: a rotation comes no earlier than any refresh so far.
* `BucketAloneRestores`: every file on the node, and in a list of the node, is as it was taken (`AsTaken`); about the
  bucket nothing is assumed, so the comparison of name, size, time and token is what the result rests on.
* `AnyOneLossIsSurvived`: the leader has every message and has just been heard of (`LeaderIsCurrent`), and what is
  captured of the followers is the state of one moment (`CaptureIsOfOneMoment`), no earlier than the
  reading began.
* `FleetStaysHealthy`, `LeaderIsFaultedLast`: the campaign, for any files, any number of operators, any
  elections, failures and new plans. Its lemmas are about the plan: the comparator is a total order, so that the
  sort is unique and has every laptop once (`PrecedesIsOrder`, `ByScoreSorts`, `ByScoreCovers`); the observed leader
  comes last or not at all (`LeaderIsLast`, `RecoverySparesLeader`, `LeaderSteps`); and of the eleven to fifteen
  actions of a step the lease is the first, the injection comes before the wait and the record is the last (`ActionsAre`).
  The invariant `CampaignInv` then says that who is past the lease action holds the lease (`LeaseIsHeld`), that
  something is unhealthy only at the target of a step between its injection and its wait (`OnlyTargetSuffers`; the
  wait for full readiness, and not the observation before the fault, is what it rests on), and that all steps
  before one under way have passed (`EarlierHavePassed`).
* `ResultsAreEarned`: if each reference of an accepted document is to a passed attempt of its own step under the
  document's plan (`Truthful`, which only reviewers can see), the plan was carried out from its first step to its last
  in its order, though the validator compares no times of two steps. It has to be the plan the document was checked
  against, which is the comparison of fingerprints (plans have different ones: `CampaignInv`); attempts of another
  plan have the same step ids but may come in another order. The rest is the history: a step that is held with the lease has no pass
  yet under its plan (`HeldStepIsOpen`), so a pass is recorded once and after those of all earlier steps (`PassedInOrder`).
  That every step is vouched for at all is the three proofs of `ProofList`.
* `LaunchesAreEarned`, for any switches of the policy: a plan is an order of the scenarios with the soak last (`PlansAreOrders`); who keeps to it
  has ended everything earlier before the next run begins (`PlanIsKept`).
* `QuotaCountsReceived`: each stored record is evidence of events of its own application, and each application has one
  key. `RecordedIsHardlyMailed`: the mails of an application never exceed those at its first record plus
  the grants still open, of which a sender has one (`MailsAreGranted`).
* `AnswersTellOfOneSubmission`, `StoredRowStays`: there is one uncommitted insert at
  a time and none beside a stored row (`OneInsert`), and a reply is of the row that is or will be stored.

**`MigrationPlanProofs`**: `PlansRehearse` - a plan the builder makes passes the planner's own rehearsal exactly when
it replaces three voters, whatever scores and observed leaders. `validateMigrationSpec` takes any odd number from three on, so
the assumptions on the constants do too, but a plan of five is never printed and has no behaviour. After `k` replacements the configuration is the sources not yet replaced and the
targets of the others (`Config`, `StableVotersAreConfig`), which has `N` members and so never loses the quorum. Then
the plan carried out: `PlanKeepsFitting`, `NoStaleVoter`, `SourcesStayThroughWindows`, `LeaderIsNeverRemoved`.
That a resting group matches the plan says nothing of the lists in between, so the invariant `IInv` follows
every list action by action: `Forward`, `Before` and `After` say which configuration the group has, who
learns, who has caught up and whose traffic is where at each `pc`; `Windows` that the soak of the cutover is at
least as long as every window has been open; `Leads` that a leader is the observed one or a cloud
member as long as nobody else was elected, and, because the observed leader is replaced last (`Score`,
`GoodOrder`) after its transfer, is never the one removed.

**Only model-checked.** All liveness - `EveryRequestEnds`, `StorageIsReclaimed`, `StatusSettles`,
`PatchingStops`, `MigrationCompletes` - because fairness and ENABLED are out of the prover's reach.

## 7. Where code and documents disagree

Each of these is shown by a run that ends in a counterexample.

* `edge_limited_answer`: `RateLimiter.fetch` answers a limited call with status 429;
  `checkRateLimit` treats every response that is not `ok` as a limiter out of order, so the
  caller gets 503 `rate_limiter_unavailable` where `fetch` has a branch for 429.
* `operator_claims`: the status is documented as counting the *expected* data PVCs that are
  bound. The code counts bound claims by name prefix, so a claim left over from a scale-down
  stands in for a missing one.
* `migration_rollback`: docs/laptop-cloud-migration.md has the rollback after joint consensus
  transfer leadership away from the target if necessary; the list the planner emits has no such
  action.
* `physical_campaign_order`: docs/laptop-physical-acceptance-campaign.md makes the soak the final
  scenario, and the plan says `soakRunsLast`; the validator of the report asks only that the soak
  and each scenario lie inside the campaign (`tools/laptop-acceptance.mjs:518`), so a soak
  that came first, or overlapped a power loss, passes.

What the tools do not compare, kept in the models as it is and worth knowing beside them:

* Campaign results: a status is as typed, and nothing ties a proof to its step, so one attempt with six proofs may vouch
  for two; the plan's and the results' `evidenceMode` are not compared; a step's times only have
  to lie in the campaign's and may contradict the plan's order; the soak's hours are not tied to its timestamps.
* Fleet report: the soak is not dated on its own, though docs/laptop-fleet-acceptance-campaign.md:267
  begins it after every disruptive scenario; recency is that of `observedAt` alone.
* Migration: `minimum_stable_voters = 5` passes `validateMigrationSpec` and fails the rehearsal, whose sizes are 3, 4
  and 3 (proved: `PlansRehearse`; the committed policy has 3). Neither rollback list takes or returns the lease beyond what its replacement held; the
  document's "current non-leader" is the lowest score in the code.
* Durability: a backup's age is that of `lastSuccessAt`; its creation may lie further back; the restore is not
  tied to a recorded artifact. Bootstrap: a refresh is not compared with `lastRotatedAt`.
* Validators take the time (`--now`) and `--allow-example` from whoever calls them; the models use
  the real time and name the flag as a constant.
* Ledger: a formal acknowledgement followed by a hard bounce still counts; references to evidence are unique
  per record only; the preflight grants without reserving.
* Edge: a JWT that cannot be verified, also because the JWKS cannot be had, is cached as a refusal
  and may overwrite a good entry; neither fetch has a timeout.
* Intake: on a replay only the request digest is compared, not the payload; rows can never be deleted, also
  not at their `retention_expires_at`.

## 8. Not modelled, and why

* Header and cookie hygiene, scopes of identities, renderers, validators of one document (inventory,
  topology, contracts): sequential functions of their input, for which unit tests are the better tool.
* Terraform, manifests, generated code: data.
* The quote workflow database: tables and triggers without a program that writes them, so no
  order of steps can be taken from the source. Its transition trigger checks each pair, not that an event
  continues the one before.
* Cluster shell operations: calls of kubectl and k3s by one operator, whose outcome hangs on those
  and on signals. `run-laptop-software-fault.sh:54-62` deletes the lock on any exit, while
  docs/laptop-acceptance-campaign.md has a failed path keep it. The fault lease of a campaign is
  modelled as the planner lists it.
* The Raft data plane and the authentication service: other repositories; they occur as external
  actions with every outcome their callers distinguish.
* Of modelled parts: posture warnings and distances of the edge; strict JSON, mail policy and
  classification of mail of the ledger; JetStream leadership in the migration (its transfer may land on
  the observed Fiducia leader, whose own list then has none) and a second executor of a plan;
  figures fixed in a policy or document, which are one Boolean of a document.
* Wall-clock units, sizes and limits of strings, digests, logging, metrics and wording of errors.
