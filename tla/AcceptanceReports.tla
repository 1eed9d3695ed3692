--------------------------- MODULE AcceptanceReports ---------------------------
(***************************************************************************)
(* The two validators that end an acceptance campaign on the laptops:      *)
(* tools/laptop-acceptance.mjs (physical: a plan, and every scenario and   *)
(* the soak have times of their own) and                                   *)
(* tools/validate-laptop-acceptance-evidence.mjs (fleet: only the campaign *)
(* is dated).  What operators really did, and when, is external: they keep *)
(* to the plan or they do not, and only these checks see the difference.   *)
(***************************************************************************)
EXTENDS Integers, FiniteSets

CONSTANTS
  Scenario,     \* the disruptive ones; Soak is not among them
  Soak, None,
  MustPrecede,  \* pairs of scenarios: power loss of a follower before the leader's, ...
  SevenDays,           \* the 168 hours that both tools insist on
  MaxAge, Tolerance,   \* the policies, and the hour the fleet tool allows
  FailureDomain,       \* kinds of it: sites, networks, power supplies
  RequireDistinct, RequireDistinctReviewer,   \* the fleet's policy
  AllowExample, MaxTime

VARIABLES
  now,
  spread,    \* the kinds of failure domain of which each laptop has its own
  plan,      \* the plan the operators keep to, or None
  runs,      \* [scenario -> times of its latest run that passed, or None]
  started,   \* when the campaign was declared begun, or None
  accepted   \* history: the first report that passed, or None

domains == <<spread, plan>>
vars == <<now, domains, runs, started, accepted>>
Time == 0..MaxTime
All == Scenario \cup {Soak}
Classification == {"limited-production", "beta-only", "rejected"}
Rank == 1..Cardinality(All)

(* What a spec or a policy asks for: too little, or enough.  More than     *)
(* enough would only let fewer reports pass.                               *)
AskedHours == {SevenDays - 1, SevenDays}

(* A spec numbers the scenarios from 1 on; the soak is the last of them.   *)
ValidAcceptanceSpec(order, soakHours) ==
  /\ \A i \in Rank : \E s \in All : order[s] = i
  /\ \A p \in MustPrecede : order[p[1]] < order[p[2]]
  /\ order[Soak] = Cardinality(All)
  /\ soakHours >= SevenDays

AcceptancePlan(order) == [i \in Rank |-> CHOOSE s \in All : order[s] = i]

Orders(soakHours) == {order \in [All -> Rank] : ValidAcceptanceSpec(order, soakHours)}

Plans == {AcceptancePlan(order) : order \in Orders(SevenDays)}

(* The fleet tool has a policy instead, whose soak has no place in a row.  *)
(* Nobody insists on its switches, of which each asks for a kind of        *)
(* failure domain, or for a reviewer who is not the operator.              *)
ValidFleetPolicy(soakHours) == soakHours >= SevenDays

Span == [startedAt : Time, completedAt : Time]

TypeOK ==
  /\ now \in Time /\ spread \subseteq FailureDomain
  /\ plan \in Plans \cup {None}
  /\ plan # None => {plan[i] : i \in Rank} = All
  /\ runs \in [All -> Span \cup {None}]
  /\ \A s \in All : runs[s] # None =>
       runs[s].startedAt < runs[s].completedAt /\ runs[s].completedAt <= now
  /\ started \in Time \cup {None}
  /\ accepted # None => started # None /\ accepted.completedAt <= accepted.at

Init ==
  /\ now = 0 /\ spread \in SUBSET FailureDomain /\ plan \in Plans \cup {None}
  /\ runs = [s \in All |-> None]
  /\ started = None /\ accepted = None

-----------------------------------------------------------------------------
Tick ==
  /\ accepted = None /\ now < MaxTime
  /\ now' = now + 1
  /\ UNCHANGED <<domains, runs, started, accepted>>

Declare ==
  /\ started = None
  /\ started' = now
  /\ UNCHANGED <<now, domains, runs, accepted>>

(* The plan's order, and its oneScenarioAtATime.                           *)
Due(s, from) ==
  /\ started # None /\ started <= from
  /\ \E i \in Rank : plan[i] = s /\ \A j \in Rank : (j < i) <=> (runs[plan[j]] # None)
  /\ \A t \in All : runs[t] # None => runs[t].completedAt <= from

(* A run that was begun at from ends well and is written down, for the     *)
(* first time or instead of an earlier one.                                *)
Run(s, from) ==
  /\ accepted = None /\ from < now
  /\ plan # None => Due(s, from)
  /\ runs' = [runs EXCEPT ![s] = [startedAt |-> from, completedAt |-> now]]
  /\ UNCHANGED <<now, domains, started, accepted>>

-----------------------------------------------------------------------------
(* Reports give true times; hours are typed in.  What is fixed for one -    *)
(* proofs, targets and limits of the scenarios; figures of the fleet or of *)
(* the soak; approvals before the observation or both by one person - has  *)
(* one flaw at most: with more it would not pass either.  found tells of   *)
(* findings, all of them resolved.  Only the fleet's report is approved,   *)
(* and observed later than the campaign ends.                              *)
PhysicalReports ==
  [mode : {"example", "live"}, classification : Classification, found : BOOLEAN,
   flaw : {None, "proofs", "figures"}, completedAt : 0..now, hours : Time]

FleetReports ==
  [mode : {"example", "live"}, classification : Classification,
   flaw : {None, "proofs", "figures", "early", "one person"},
   completedAt : 0..now, observedAt : 0..now, hours : Time]

InCampaign(run, doc) ==
  started <= run.startedAt /\ run.completedAt <= doc.completedAt /\ run.startedAt < run.completedAt

(* Mutant of ValidSoak: the hours are not compared with the timestamps.    *)
SoakAsStated(doc, soakHours) ==
  LET soak == runs[Soak]
  IN  soak # None /\ InCampaign(soak, doc) /\ doc.hours >= soakHours /\ doc.flaw # "figures"

ValidSoak(doc, soakHours) ==
  LET soak == runs[Soak]
  IN  /\ soak # None /\ InCampaign(soak, doc)
      /\ doc.hours = soak.completedAt - soak.startedAt /\ doc.hours >= soakHours
      /\ doc.flaw # "figures"

ScenariosPassed(doc) == doc.flaw # "proofs" /\ \A s \in Scenario : InCampaign(runs[s], doc)

ValidDecision(doc) ==
  /\ doc.classification = "limited-production" => spread = FailureDomain
  /\ doc.classification = "rejected" => doc.found   \* every gate passes

ValidPhysicalEvidence(doc, soakHours) ==
  /\ doc.mode = "example" => AllowExample
  /\ started < doc.completedAt /\ doc.completedAt <= now
  /\ doc.mode = "live" => now - doc.completedAt <= MaxAge
  /\ ScenariosPassed(doc)
  /\ ValidSoak(doc, soakHours)
  /\ ValidDecision(doc)

ValidFleetDomains(doc) ==
  doc.classification = "limited-production" => RequireDistinct \subseteq spread

ValidFleetScenarios(doc) == doc.flaw # "proofs"

ValidFleetMeasurements(doc) == doc.flaw # "figures"

ValidFleetSoak(doc, soakHours) ==
  LET elapsed == doc.completedAt - started
  IN  /\ doc.hours >= soakHours /\ elapsed >= soakHours
      /\ doc.hours - elapsed \in -Tolerance..Tolerance

ValidFleetApprovals(doc) ==
  /\ doc.flaw # "early"
  /\ RequireDistinctReviewer => doc.flaw # "one person"

ValidFleetEvidence(doc, soakHours) ==
  /\ doc.mode = "example" => AllowExample
  /\ doc.classification \in {"limited-production", "beta-only"}
  /\ started < doc.completedAt /\ doc.completedAt <= doc.observedAt
  /\ doc.mode = "live" => now - doc.observedAt <= MaxAge
  /\ ValidFleetDomains(doc)
  /\ ValidFleetScenarios(doc)
  /\ ValidFleetMeasurements(doc)
  /\ ValidFleetSoak(doc, soakHours)
  /\ ValidFleetApprovals(doc)

(* asked are the domains that limited production may not share.            *)
Accept(tool, doc, observedAt, asked) ==
  accepted' = [tool |-> tool, at |-> now, completedAt |-> doc.completedAt,
               observedAt |-> observedAt, classification |-> doc.classification, asked |-> asked]

(* Both tools refuse a report that leaves one of the scenarios out.        *)
EveryScenarioPassed == \A s \in Scenario : runs[s] # None

Validate ==
  /\ started # None /\ accepted = None
  /\ EveryScenarioPassed
  /\ \E soakHours \in AskedHours :
       \/ /\ Orders(soakHours) # {}
          /\ \E doc \in PhysicalReports :
               /\ ValidPhysicalEvidence(doc, soakHours)
               /\ Accept("physical", doc, doc.completedAt, FailureDomain)
       \/ /\ ValidFleetPolicy(soakHours)
          /\ \E doc \in FleetReports :
               /\ ValidFleetEvidence(doc, soakHours)
               /\ Accept("fleet", doc, doc.observedAt, RequireDistinct)
  /\ UNCHANGED <<now, domains, runs, started>>

Next ==
  \/ Tick \/ Declare \/ Validate
  \/ \E s \in All : \E from \in 0..now : Run(s, from)

-----------------------------------------------------------------------------
FinalSoak == \A s \in Scenario : runs[s].completedAt <= runs[Soak].startedAt

(* A launch is earned: what it rests on was seen at most MaxAge before;    *)
(* the campaign lasted seven days at least, and limited production only    *)
(* where the laptops share no failure domain that the tool, or the policy  *)
(* the fleet's tool is given, asks about (acceptance/                      *)
(* laptop-fleet-campaign.toml:15-17 asks about all).  The physical tool's  *)
(* had a soak of that length in it, and when operators kept to the plan,   *)
(* the soak was the last and every pair of scenarios came in its order.    *)
LaunchIsEarned ==
  (accepted # None /\ accepted.classification # "rejected") =>
    /\ accepted.at - accepted.observedAt <= MaxAge
    /\ accepted.completedAt - started >= SevenDays
    /\ accepted.classification = "limited-production" => accepted.asked \subseteq spread
    /\ accepted.tool = "physical" =>
         /\ runs[Soak].completedAt - runs[Soak].startedAt >= SevenDays
         /\ plan # None =>
              /\ FinalSoak
              /\ \A p \in MustPrecede : runs[p[1]].completedAt <= runs[p[2]].startedAt

(* docs/laptop-physical-acceptance-campaign.md: "The seven-day soak is the *)
(* final scenario", and the plan's soakRunsLast and oneScenarioAtATime.    *)
(* The check of the report asks only that each lies within the campaign.   *)
SoakWasLast == (accepted # None /\ accepted.tool = "physical") => FinalSoak
=============================================================================
