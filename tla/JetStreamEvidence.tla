---------------------------- MODULE JetStreamEvidence ----------------------------
(***************************************************************************)
(* tools/validate-laptop-jetstream-evidence.mjs, and the NATS cluster its  *)
(* evidence is captured from (external): servers that fail and return, a   *)
(* stream whose messages are acknowledged by a majority.  The servers are  *)
(* read one after the other and the stream from its leader, so that the    *)
(* capture may put together states that never were at the same time.       *)
(***************************************************************************)
EXTENDS Naturals, FiniteSets

CONSTANTS
  Server, None,
  MaxActive, MaxLiveAge,   \* 30 seconds of silence, ten minutes of age
  AllowExample,
  MaxMessages, MaxTime     \* bounds

VARIABLES
  now,
  up, leader,
  messages,   \* how many messages the leader has stored
  has,        \* [Server -> how many of them it has stored]
  heard,      \* [Server -> when the leader last heard of it]
  evidence,   \* the capture, or None
  truth,      \* history: has and heard when the stream was read
  accepted    \* history: when the capture was found good, or None

cluster == <<up, leader, messages, has, heard>>
vars == <<now, cluster, evidence, truth, accepted>>
Time == 0..MaxTime

Followers == UNION {[S -> [lag : 0..MaxMessages, silent : Time]] : S \in SUBSET Server}
Capture == [observedAt : Time, routes : [Server -> (SUBSET Server) \cup {None}], followers : Followers \cup {None}]
Truth == [at : Time, messages : 0..MaxMessages, has : [Server -> 0..MaxMessages], heard : [Server -> Time]]

TypeOK ==
  /\ now \in Time
  /\ up \subseteq Server /\ leader \in up \cup {None}
  /\ messages \in 0..MaxMessages /\ has \in [Server -> 0..messages]
  /\ heard \in [Server -> 0..now]
  /\ evidence \in Capture \cup {None} /\ truth \in Truth \cup {None}
  /\ accepted # None => truth # None /\ accepted.at \in truth.at..now

Init ==
  /\ now = 0 /\ up = Server /\ leader \in Server
  /\ messages = 0 /\ has = [s \in Server |-> 0]
  /\ heard = [s \in Server |-> 0]
  /\ evidence = None /\ truth = None /\ accepted = None

-----------------------------------------------------------------------------
Unread == truth = None

(* A tick is longer than a heartbeat.                                      *)
Tick ==
  /\ accepted = None /\ now < MaxTime
  /\ now' = now + 1
  /\ heard' = IF leader = None THEN heard
              ELSE [s \in Server |-> IF s \in up THEN now + 1 ELSE heard[s]]
  /\ UNCHANGED <<up, leader, messages, has, evidence, truth, accepted>>

Fail(s) ==
  /\ Unread /\ s \in up
  /\ up' = up \ {s}
  /\ leader' = IF leader = s THEN None ELSE leader
  /\ UNCHANGED <<now, messages, has, heard, evidence, truth, accepted>>

Return(s) ==
  /\ Unread /\ s \notin up
  /\ up' = up \cup {s}
  /\ UNCHANGED <<now, leader, messages, has, heard, evidence, truth, accepted>>

Elect(s) ==
  /\ Unread /\ leader = None /\ s \in up /\ Cardinality(up) >= 2
  /\ \A t \in up : has[t] <= has[s]
  /\ leader' = s /\ messages' = has[s]
  /\ has' = [t \in Server |-> IF has[t] > has[s] THEN has[s] ELSE has[t]]
  /\ heard' = [t \in Server |-> IF t \in up THEN now ELSE heard[t]]
  /\ UNCHANGED <<now, up, evidence, truth, accepted>>

Publish(s) ==
  /\ Unread /\ leader # None /\ s \in up \ {leader} /\ messages < MaxMessages
  /\ messages' = messages + 1
  /\ has[s] = messages
  /\ has' = [has EXCEPT ![leader] = messages + 1, ![s] = messages + 1]
  /\ UNCHANGED <<now, up, leader, heard, evidence, truth, accepted>>

CatchUp(s) ==
  /\ Unread /\ leader # None /\ s \in up /\ has[s] < messages
  /\ has' = [has EXCEPT ![s] = messages]
  /\ UNCHANGED <<now, up, leader, messages, heard, evidence, truth, accepted>>

-----------------------------------------------------------------------------
BeginCapture ==
  /\ evidence = None
  /\ evidence' = [observedAt |-> now, routes |-> [s \in Server |-> None], followers |-> None]
  /\ UNCHANGED <<now, cluster, truth, accepted>>

ReadServer(s) ==
  /\ evidence # None /\ Unread /\ s \in up /\ evidence.routes[s] = None
  /\ evidence' = [evidence EXCEPT !.routes[s] = up \ {s}]
  /\ UNCHANGED <<now, cluster, truth, accepted>>

ReadStream ==
  /\ evidence # None /\ Unread /\ leader # None
  /\ \A s \in Server : evidence.routes[s] # None
  /\ evidence' = [evidence EXCEPT !.followers =
       [s \in Server \ {leader} |-> [lag |-> messages - has[s], silent |-> now - heard[s]]]]
  /\ truth' = [at |-> now, messages |-> messages, has |-> has, heard |-> heard]
  /\ UNCHANGED <<now, cluster, accepted>>

-----------------------------------------------------------------------------
(* Fixed facts of a document - versions, certificates, stores, gates,      *)
(* proofs - are one Boolean, sound.                                        *)
Documents == [mode : {"example", "live"}, sound : BOOLEAN]

ValidServers == \A s \in Server : evidence.routes[s] = Server \ {s}

(* Mutant of ValidReplicas: how long a follower was silent is not looked at. *)
ReplicasCaughtUp ==
  evidence.followers # None /\ \A s \in DOMAIN evidence.followers : evidence.followers[s].lag = 0

ValidReplicas ==
  /\ evidence.followers # None
  /\ \A s \in DOMAIN evidence.followers :
       evidence.followers[s].lag = 0 /\ evidence.followers[s].silent <= MaxActive

ValidJetStreamEvidence(doc) ==
  /\ doc.mode = "example" => AllowExample
  /\ evidence.observedAt <= now
  /\ doc.mode = "live" => now - evidence.observedAt <= MaxLiveAge
  /\ ValidServers /\ ValidReplicas
  /\ doc.sound

Validate ==
  /\ evidence # None /\ accepted = None
  /\ \E doc \in Documents : ValidJetStreamEvidence(doc) /\ doc.mode = "live"
  /\ accepted' = [at |-> now]
  /\ UNCHANGED <<now, cluster, evidence, truth>>

Next ==
  \/ Tick \/ BeginCapture \/ ReadStream \/ Validate
  \/ \E s \in Server :
       Fail(s) \/ Return(s) \/ Elect(s) \/ Publish(s) \/ CatchUp(s) \/ ReadServer(s)

-----------------------------------------------------------------------------
(* failureTolerance.anyOneServerLossLeavesQuorum: at one moment, at most   *)
(* MaxLiveAge ago, every server held every acknowledged message and had    *)
(* been heard of MaxActive before - though the servers' own reports were   *)
(* taken earlier and each at its own time.                                 *)
AnyOneLossLeavesQuorum ==
  accepted # None =>
    /\ accepted.at - truth.at <= MaxLiveAge
    /\ \A s \in Server :
         truth.has[s] = truth.messages /\ truth.at - truth.heard[s] <= MaxActive
=============================================================================
