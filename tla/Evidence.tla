-------------------------------- MODULE Evidence --------------------------------
(***************************************************************************)
(* The tools that judge what operators and systems report: the acceptance  *)
(* campaign with the check of its results, the five evidence validators,   *)
(* the ledger of applications and the intake of submissions.  They share   *)
(* nothing but the files they read, so that a behaviour runs one of them,  *)
(* while the variables of the others are idle.                             *)
(***************************************************************************)
EXTENDS Integers, FiniteSets

CONSTANTS
  None,
  Parts,                                               \* those a behaviour may run
  AllowExample,                                        \* --allow-example
  Key, Workload, MaxObservationAge, MaxBackupAge, MaxRestoreAge,
  AllowTemporaryLocalPath, RequireDistinctReviewer,
  Cluster, Object, SecretObservationAge, MaxRefreshAge, MaxRotationAge,
  SnapshotName, Size, MaxSnapshotAge, MaxSkew,
  Server, MaxActive, MaxLiveAge, MaxMessages,
  Scenario, Soak, MustPrecede, SevenDays, MaxReportAge, Tolerance,
  FailureDomain, RequireDistinct, RequireDistinctFleetReviewer,
  Name, Program, Slug, Category, Sender, Statuses, MaxEvents,
  Call, Digest, MaxTries,
  Laptop, NameOrder, Specs, MovingRoles, InitialRoles, Operator,
  PlannerAllows, ValidatorAllows, MaxObservations, MaxElections, MaxAttempts, MaxFailures,
  DurabilityTime, BootstrapTime, SnapshotTime, JetStreamTime, ReportTime   \* bounds of the clocks

VARIABLES
  part,                                       \* which of them runs
  now, evidence, accepted,                    \* of whichever validator runs
  ring, live, backups, restore,               \* durability
  cloud, held,                                \* bootstrap
  token, local, remote, taken,                \* snapshots
  up, leader, messages, has, heard, truth,    \* jetstream
  spread, plan, runs, started,                \* reports
  migrated, ledger, granted, events, known,   \* ledger
  digest, allowed, stored, pending, phase, reply, tries,  \* intake
  roles, unhealthy, faults, elections, preflight,
  plans, lease, doing, attempts, report                   \* campaign

clock == <<now, evidence, accepted>>
durability == <<ring, live, backups, restore>>
bootstrap == <<cloud, held>>
snapshots == <<token, local, remote, taken>>
jetstream == <<up, leader, messages, has, heard, truth>>
reports == <<spread, plan, runs, started>>
applications == <<migrated, ledger, granted, events, known>>
intake == <<digest, allowed, stored, pending, phase, reply, tries>>
campaign == <<roles, unhealthy, faults, elections, preflight,
              plans, lease, doing, attempts, report>>
others == <<durability, bootstrap, snapshots, jetstream, reports, applications, intake, campaign>>

D == INSTANCE DurabilityGate WITH MaxTime <- DurabilityTime
B == INSTANCE BootstrapSecrets WITH
       MaxObservationAge <- SecretObservationAge, MaxTime <- BootstrapTime
S == INSTANCE SnapshotEvidence WITH
       Name <- SnapshotName, MaxAge <- MaxSnapshotAge, MaxTime <- SnapshotTime
J == INSTANCE JetStreamEvidence WITH MaxTime <- JetStreamTime
R == INSTANCE AcceptanceReports WITH   \* a launch is not decided on an example
       AllowExample <- FALSE, MaxAge <- MaxReportAge, MaxTime <- ReportTime,
       RequireDistinctReviewer <- RequireDistinctFleetReviewer
L == INSTANCE ApplicationLedger
C == INSTANCE CommercialIntake
A == INSTANCE AcceptanceCampaign WITH Cluster <- Laptop

(* Limits and clocks are numbers, what is counted is finite, a spelling    *)
(* stands for one program; None is no number and nothing that a tool reads. *)
ASSUME EvidenceConstantsOK ==
  /\ {DurabilityTime, BootstrapTime, SnapshotTime, JetStreamTime, ReportTime} \subseteq Nat
  /\ {MaxSnapshotAge, MaxSkew, MaxActive, MaxLiveAge, MaxMessages, SevenDays, MaxReportAge,
      Tolerance, MaxTries} \subseteq Nat
  /\ Cardinality(Size) \in Nat \ {0} /\ Size = 1..Cardinality(Size)
  /\ IsFiniteSet(Scenario) /\ Soak \notin Scenario /\ MustPrecede \subseteq Scenario \X Scenario
  /\ RequireDistinct \subseteq FailureDomain
  /\ IsFiniteSet(Program) /\ IsFiniteSet(Category) /\ IsFiniteSet(Sender)
  /\ Slug \in [Name -> Program]
  /\ None \notin Nat \cup Server \cup Call
  /\ None \notin D!Backup \cup D!Restore \cup D!Reading
  /\ None \notin B!Secret \cup B!Held \cup B!Reading
  /\ None \notin S!Taken \cup S!List \cup J!Capture \cup J!Truth \cup R!Span
  /\ None \notin L!Application \cup L!Record
  /\ A!CampaignConstantsOK
  /\ None \notin [by : Call, digest : Digest] \cup [by : Call, idempotent_replay : BOOLEAN]

(* The part that runs starts as its Init says; the others hold None.       *)
EvidenceInit ==
  /\ part \in Parts
  /\ now = 0 /\ evidence = None /\ accepted = None
  /\ IF part = "durability" THEN D!Init ELSE ring = None /\ live = None /\ backups = None /\ restore = None
  /\ IF part = "bootstrap" THEN B!Init ELSE cloud = None /\ held = None
  /\ IF part = "snapshots" THEN S!Init ELSE token = None /\ local = None /\ remote = None /\ taken = None
  /\ IF part = "jetstream" THEN J!Init
     ELSE up = None /\ leader = None /\ messages = None /\ has = None /\ heard = None /\ truth = None
  /\ IF part = "reports" THEN R!Init ELSE spread = None /\ plan = None /\ runs = None /\ started = None
  /\ IF part = "ledger" THEN L!Init ELSE migrated = None /\ ledger = None /\ granted = None /\ events = None /\ known = None
  /\ IF part = "intake" THEN C!Init
     ELSE digest = None /\ allowed = None /\ stored = None /\ pending = None /\ phase = None /\ reply = None /\ tries = None
  /\ IF part = "campaign" THEN A!Init
     ELSE /\ roles = None /\ unhealthy = None /\ faults = None /\ elections = None
          /\ preflight = None /\ plans = None /\ lease = None
          /\ doing = None /\ attempts = None /\ report = None

EvidenceNext ==
  /\ UNCHANGED part
  /\ \/ /\ part = "durability" /\ D!Next
        /\ UNCHANGED <<bootstrap, snapshots, jetstream, reports, applications, intake, campaign>>
     \/ /\ part = "bootstrap" /\ B!Next
        /\ UNCHANGED <<durability, snapshots, jetstream, reports, applications, intake, campaign>>
     \/ /\ part = "snapshots" /\ S!Next
        /\ UNCHANGED <<durability, bootstrap, jetstream, reports, applications, intake, campaign>>
     \/ /\ part = "jetstream" /\ J!Next
        /\ UNCHANGED <<durability, bootstrap, snapshots, reports, applications, intake, campaign>>
     \/ /\ part = "reports" /\ R!Next
        /\ UNCHANGED <<evidence, durability, bootstrap, snapshots, jetstream, applications, intake, campaign>>
     \/ /\ part = "ledger" /\ L!Next
        /\ UNCHANGED <<clock, durability, bootstrap, snapshots, jetstream, reports, intake, campaign>>
     \/ /\ part = "intake" /\ C!Next
        /\ UNCHANGED <<clock, durability, bootstrap, snapshots, jetstream, reports, applications, campaign>>
     \/ /\ part = "campaign" /\ A!Next
        /\ UNCHANGED <<clock, durability, bootstrap, snapshots, jetstream, reports, applications, intake>>

EvidenceSpec == EvidenceInit /\ [][EvidenceNext]_<<part, clock, others>>

-----------------------------------------------------------------------------
(* DurabilityGate: keys that a report depends on were used in a restore.   *)
NeededKeysWereShown == part = "durability" => D!TypeOK /\ D!NeededKeysWereShown

(* BootstrapSecrets: no ready cluster holds a value replaced long ago.     *)
HeldValuesAreRecent == part = "bootstrap" => B!TypeOK /\ B!HeldValuesAreRecent

(* SnapshotEvidence: the bucket alone restores a recent state.             *)
BucketRestoresRecentState == part = "snapshots" => S!TypeOK /\ S!BucketRestoresRecentState

(* JetStreamEvidence: any one server could have been lost without harm.    *)
AnyOneLossLeavesQuorum == part = "jetstream" => J!TypeOK /\ J!AnyOneLossLeavesQuorum

(* AcceptanceReports: a launch rests on a real, recent campaign and soak.  *)
LaunchIsEarned == part = "reports" => R!TypeOK /\ R!LaunchIsEarned

(* AcceptanceReports, broken: the soak came after every other scenario.    *)
SoakWasLast == part = "reports" => R!SoakWasLast

(* ApplicationLedger: no more is counted than was really received.         *)
QuotaIsEarned == part = "ledger" => L!TypeOK /\ L!QuotaIsEarned

(* ApplicationLedger: a recorded application is hardly ever mailed again.  *)
RepeatedMailsAreBounded == part = "ledger" => L!RepeatedMailsAreBounded

(* CommercialIntake: all answers under one key tell of one submission.     *)
RepliesAgree == part = "intake" => C!TypeOK /\ C!RepliesAgree

(* AcceptanceCampaign: two of three voters, members, origins stay healthy. *)
FleetKeepsQuorum == part = "campaign" => A!TypeOK /\ A!TwoOfThreeStayHealthy

(* AcceptanceCampaign: a fault reaches the observed leader last.           *)
ObservedLeaderGoesLast == part = "campaign" => A!ObservedLeaderGoesLast

(* AcceptanceCampaign: results with true references follow their plan.     *)
TruthfulResultsFollowThePlan == part = "campaign" => A!TruthfulResultsFollowThePlan
=============================================================================
