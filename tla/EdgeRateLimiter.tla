---------------------------- MODULE EdgeRateLimiter ----------------------------
(***************************************************************************)
(* checkRateLimit at the edge and the RateLimiter Durable Object of one    *)
(* subject (workers/fiducia-edge/src/index.mjs): a fixed window counted    *)
(* under the time the EDGE read before it called the object.               *)
(*                                                                         *)
(* The object runs the transaction and then setAlarm; its input gate lets  *)
(* no other event in between, but it may crash there.  Between the edge's  *)
(* clock reading and the object the call is under way for any time, so     *)
(* calls of a window may be overtaken by calls of the next, or come after  *)
(* the alarm of their own; `disturbed` remembers whether that, or a crash, *)
(* has happened.                                                           *)
(***************************************************************************)
EXTENDS Naturals, FiniteSets

CONSTANTS
  Check,      \* calls of checkRateLimit for the subject
  None,
  Limit,      \* FIDUCIA_RATE_LIMIT_PER_MINUTE
  Window,     \* FIDUCIA_RATE_LIMIT_WINDOW_SECONDS, in ticks
  MaxTime,    \* bound: the clock stops here
  LastSend,   \* bound: no call is sent after this time
  MayCrash    \* whether the object may die between transaction and setAlarm

ASSUME LimiterConstantsOK ==
  /\ Limit \in Nat \ {0} /\ Window \in Nat \ {0} /\ MaxTime \in Nat /\ LastSend \in Nat
  /\ MayCrash \in BOOLEAN

VARIABLES
  now,       \* the wall clock
  phase,     \* [Check -> "new", "sent", "done"]
  stamp,     \* [Check -> the edge's clock reading, sent as now]
  verdict,   \* [Check -> what the object decided: None, "ok", "limited", "error"]
  counter,   \* the stored record, or None
  alarm,     \* the scheduled alarm, or None
  serving,   \* the call whose transaction is committed and alarm not yet set
  admitted,  \* history: [window -> calls admitted]
  lost,      \* history: [window -> times its record was overwritten or deleted]
  disturbed  \* history: a call came overtaken or late, or the object crashed

objectVars == <<counter, alarm, serving>>
history == <<admitted, lost, disturbed>>
vars == <<now, phase, stamp, verdict, objectVars, history>>

WindowOf(t) == t \div Window
Windows == 0..WindowOf(MaxTime)

TypeOK ==
  /\ now \in 0..MaxTime
  /\ phase \in [Check -> {"new", "sent", "done"}]
  /\ stamp \in [Check -> 0..MaxTime]
  /\ verdict \in [Check -> {None, "ok", "limited", "error"}]
  /\ counter \in [windowId : Windows, count : 1..Limit] \cup {None}
  /\ alarm \in Nat \cup {None}
  /\ serving \in Check \cup {None}
  /\ admitted \in [Windows -> Nat]
  /\ lost \in [Windows -> Nat]
  /\ disturbed \in BOOLEAN

Init ==
  /\ now = 0
  /\ phase = [c \in Check |-> "new"]
  /\ stamp = [c \in Check |-> 0]
  /\ verdict = [c \in Check |-> None]
  /\ counter = None
  /\ alarm = None
  /\ serving = None
  /\ admitted = [w \in Windows |-> 0]
  /\ lost = [w \in Windows |-> 0]
  /\ disturbed = FALSE

-----------------------------------------------------------------------------

(* checkRateLimit reads nowSeconds(), then awaits a digest and the object. *)
SendCheck(c) ==
  /\ phase[c] = "new" /\ now <= LastSend
  /\ phase' = [phase EXCEPT ![c] = "sent"]
  /\ stamp' = [stamp EXCEPT ![c] = now]
  /\ UNCHANGED <<now, verdict, objectVars, history>>

(* const current = record?.windowId === windowId ? Number(record.count) : 0 *)
CurrentCount(w) ==
  IF counter # None /\ counter.windowId = w THEN counter.count ELSE 0

Deliverable(c) == phase[c] = "sent" /\ verdict[c] = None /\ serving = None

(* A call served after one of a later window, or when an alarm set for its *)
(* own window could have fired.                                            *)
OutOfOrder(c) ==
  \/ (WindowOf(stamp[c]) + 2) * Window <= now
  \/ \E d \in Check : verdict[d] # None /\ WindowOf(stamp[c]) < WindowOf(stamp[d])

LoseOther(w) ==
  lost' = IF counter # None /\ counter.windowId # w
            THEN [lost EXCEPT ![counter.windowId] = @ + 1] ELSE lost

(* The transaction of RateLimiter.fetch: read, compare, put.               *)
Admit(c) ==
  LET w == WindowOf(stamp[c]) IN
  /\ Deliverable(c)
  /\ CurrentCount(w) < Limit
  /\ LoseOther(w)
  /\ counter' = [windowId |-> w, count |-> CurrentCount(w) + 1]
  /\ verdict' = [verdict EXCEPT ![c] = "ok"]
  /\ admitted' = [admitted EXCEPT ![w] = @ + 1]
  /\ serving' = c
  /\ disturbed' = (disturbed \/ OutOfOrder(c))
  /\ UNCHANGED <<now, phase, stamp, alarm>>

Limited(c) ==
  /\ Deliverable(c)
  /\ CurrentCount(WindowOf(stamp[c])) >= Limit
  /\ verdict' = [verdict EXCEPT ![c] = "limited"]
  /\ serving' = c
  /\ disturbed' = (disturbed \/ OutOfOrder(c))
  /\ UNCHANGED <<now, phase, stamp, counter, alarm, admitted, lost>>

EndServing ==
  /\ phase' = [phase EXCEPT ![serving] = "done"]
  /\ serving' = None
  /\ UNCHANGED <<now, stamp, verdict, counter, history>>

(* Mutant of SetAlarm: the alarm is set for the end of the call's window.  *)
AlarmOneWindowEarly ==
  /\ serving # None
  /\ alarm' = (WindowOf(stamp[serving]) + 1) * Window
  /\ EndServing

(* Mutant of SetAlarm: a pending alarm is left as it is.                   *)
AlarmSetOnce ==
  /\ serving # None
  /\ alarm' = IF alarm = None THEN (WindowOf(stamp[serving]) + 2) * Window ELSE alarm
  /\ EndServing

(* Mutant of SetAlarm: no alarm is set.                                    *)
AlarmSkipped == serving # None /\ EndServing /\ UNCHANGED alarm

(* setAlarm((windowId + 2) * windowSeconds * 1000), then the answer.       *)
SetAlarm ==
  /\ serving # None
  /\ alarm' = (WindowOf(stamp[serving]) + 2) * Window
  /\ EndServing

(* The object dies after the commit: storage stays, the alarm set earlier  *)
(* too, and the edge reports rate_limiter_unavailable.                     *)
Crash ==
  /\ MayCrash /\ serving # None
  /\ phase' = [phase EXCEPT ![serving] = "done"]
  /\ verdict' = [verdict EXCEPT ![serving] = "error"]
  /\ serving' = None
  /\ disturbed' = TRUE
  /\ UNCHANGED <<now, stamp, counter, alarm, admitted, lost>>

(* alarm() deletes everything.                                             *)
AlarmFires ==
  /\ serving = None
  /\ alarm # None /\ now >= alarm
  /\ lost' = IF counter = None THEN lost ELSE [lost EXCEPT ![counter.windowId] = @ + 1]
  /\ counter' = None
  /\ alarm' = None
  /\ UNCHANGED <<now, phase, stamp, verdict, serving, admitted, disturbed>>

Tick ==
  /\ now < MaxTime
  /\ now' = now + 1
  /\ UNCHANGED <<phase, stamp, verdict, objectVars, history>>

Next ==
  \/ \E c \in Check : SendCheck(c) \/ Admit(c) \/ Limited(c)
  \/ SetAlarm \/ Crash \/ AlarmFires \/ Tick

Spec == Init /\ [][Next]_vars

(* Time passes, a running event ends, and the platform delivers alarms.    *)
FairSpec == Spec /\ WF_vars(Tick) /\ WF_vars(SetAlarm) /\ WF_vars(AlarmFires)

-----------------------------------------------------------------------------
(* A window admits at most Limit calls for each time its record is lost,  *)
(* across alarms and window changes: overtaken calls and an alarm left     *)
(* over by a crash are the only ways to exceed the limit, and each costs   *)
(* one full window.  Where no call was overtaken by one of a later window  *)
(* or came after the alarm of its own, and the object did not crash before *)
(* setAlarm, the limit holds.                                              *)
WindowLimit ==
  \A w \in Windows :
    /\ admitted[w] <= Limit * (1 + lost[w])
    /\ ~disturbed => admitted[w] <= Limit

(* While nothing is disturbed, the alarm outlives the window of the stored *)
(* record by a whole window: deleteAll never drops a count that matters.   *)
AlarmSparesCurrentWindow ==
  (~disturbed /\ serving = None /\ counter # None) =>
    alarm # None /\ alarm >= (counter.windowId + 2) * Window

(* The record and its alarm fit together: well typed, and the alarm comes  *)
(* a whole window after the one that is counted.                           *)
AlarmFitsRecord == TypeOK /\ AlarmSparesCurrentWindow

(* Calls stop after LastSend, so unless something was disturbed nothing is *)
(* left in storage in the end: the alarm of the last record deletes it.  (A *)
(* crash before the very first setAlarm leaves a record without an alarm.) *)
StorageIsReclaimed == counter # None ~> (counter = None \/ disturbed)
=============================================================================
