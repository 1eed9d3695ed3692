------------------------------ MODULE MCEvidence ------------------------------
(* A small instance of each of the tools of Evidence.                      *)
EXTENDS Evidence, TLC

CONSTANTS o1, o2, a1, a2, n1, n2, n3, x, aws, gcp, azure

TwoOperators == {o1, o2}
Pair == {a1, a2}
Servers == {n1, n2, n3}
One == {x}
TwoSizes == {1, 2}
PowerLosses == {"follower-laptop-power-loss", "fiducia-leader-power-loss"}
FollowerFirst == {<<"follower-laptop-power-loss", "fiducia-leader-power-loss">>}
Spelled == (a1 :> x) @@ (a2 :> x)
Speaking == {"speaking"}
StatusesUsed == {"discovered", "sent_provisional", "bounced", "submitted", "declined"}

-----------------------------------------------------------------------------
(* Three scenarios of laptop/acceptance/campaign.json, one of each kind.   *)
Laptops == {aws, gcp, azure}
Alphabetical == (aws :> 1) @@ (azure :> 2) @@ (gcp :> 3)
Lost(o, v, m) == ("origins" :> o) @@ ("voters" :> v) @@ ("members" :> m)
Leading(f, m, s) == ("fiducia" :> f) @@ ("meta" :> m) @@ ("stream" :> s)
OneLeader == {Leading(aws, aws, aws)}

PowerLoss ==
  [id |-> "power-loss", scope |-> "per-cluster", plane |-> "power",
   leaderSensitive |-> TRUE, lost |-> Lost(1, 1, 1),
   drain |-> FALSE, backup |-> TRUE, protected |-> TRUE]
HostRestore ==
  [id |-> "replacement-host-restore", scope |-> "fleet-once", plane |-> "recovery",
   leaderSensitive |-> FALSE, lost |-> Lost(1, 1, 1),
   drain |-> TRUE, backup |-> TRUE, protected |-> TRUE]
SevenDaySoak ==
  [id |-> "seven-day-soak", scope |-> "fleet-once", plane |-> "soak",
   leaderSensitive |-> FALSE, lost |-> Lost(0, 0, 0),
   drain |-> FALSE, backup |-> TRUE, protected |-> TRUE]

Campaign(scenarios) ==
  [maxConcurrentFaults |-> 1, soakHours |-> 168, scenarios |-> scenarios,
   minimumHealthy |-> Lost(2, 2, 2)]
GoodAndBad ==
  ("good" :> Campaign(<<PowerLoss, HostRestore, SevenDaySoak>>))
    @@ ("bad" :> Campaign(<<PowerLoss, SevenDaySoak, HostRestore>>))

-----------------------------------------------------------------------------
CampaignSymmetry == Permutations(TwoOperators)
Symmetry == Permutations(TwoOperators) \cup Permutations(Pair) \cup Permutations(Servers)
=============================================================================
