-------------------------- MODULE EdgeRateLimiterProofs --------------------------
(***************************************************************************)
(* WindowLimit of the RateLimiter object for any limit, window length and  *)
(* number of calls: what a window admits is paid for by the record, or by  *)
(* the times the record was lost; and as long as nothing is disturbed, a   *)
(* record is lost only when its window can no longer be asked for.         *)
(***************************************************************************)
EXTENDS EdgeRateLimiter, TLAPS

(* None is neither a call, nor a time, nor a record, nor a verdict.        *)
NoneIsNew ==
  /\ None \notin Nat
  /\ None \notin Check
  /\ None \notin [windowId : Windows, count : 1..Limit]
  /\ None \notin {"ok", "limited", "error"}

Started == \A c \in Check : verdict[c] # None => phase[c] # "new"

(* The call being served is of the window that is counted.                 *)
ServedIsCounted ==
  serving # None =>
    /\ verdict[serving] # None
    /\ counter # None /\ counter.windowId = WindowOf(stamp[serving])

CountedWasServed ==
  counter # None => \E d \in Check : verdict[d] # None /\ WindowOf(stamp[d]) = counter.windowId

(* Every admission of a window is in the record or was lost with one.      *)
AdmissionsArePaid ==
  \A w \in Windows : admitted[w] <= Limit * lost[w] + CurrentCount(w)

(* A window whose record was lost is over, so a call for it would be out   *)
(* of order.                                                               *)
Over(w) ==
  \/ (w + 2) * Window <= now
  \/ \E d \in Check : verdict[d] # None /\ w < WindowOf(stamp[d])

LostIsOver == ~disturbed => \A w \in Windows : lost[w] > 0 => Over(w)

LimitHolds == ~disturbed => \A w \in Windows : admitted[w] <= Limit

Inv ==
  /\ TypeOK /\ Started /\ ServedIsCounted /\ CountedWasServed
  /\ AlarmSparesCurrentWindow /\ AdmissionsArePaid /\ LostIsOver /\ LimitHolds

-----------------------------------------------------------------------------
LEMMA WindowsInRange ==
  ASSUME NEW t \in 0..MaxTime
  PROVE  WindowOf(t) \in Windows
<1>1. /\ Window \in Nat /\ Window > 0 /\ MaxTime \in Nat /\ t \in Nat /\ t <= MaxTime
  BY LimiterConstantsOK
<1>2. t \div Window \in Nat /\ t \div Window <= MaxTime \div Window /\ MaxTime \div Window \in Nat
  BY <1>1, Z3
<1> QED
  BY <1>2 DEF WindowOf, Windows

LEMMA CurrentCountBounded ==
  ASSUME NoneIsNew, TypeOK, NEW w \in Windows
  PROVE  CurrentCount(w) \in 0..Limit
BY LimiterConstantsOK DEF TypeOK, CurrentCount, NoneIsNew

LEMMA InitInv ==
  ASSUME NoneIsNew, Init
  PROVE  Inv
<1>1. TypeOK
  <2>1. 0 \in 0..MaxTime /\ 0 \in Nat
    BY LimiterConstantsOK
  <2>2. stamp \in [Check -> 0..MaxTime]
        /\ admitted \in [Windows -> Nat] /\ lost \in [Windows -> Nat]
    BY <2>1 DEF Init
  <2>3. phase \in [Check -> {"new", "sent", "done"}]
        /\ verdict \in [Check -> {None, "ok", "limited", "error"}]
    BY DEF Init
  <2> QED
    BY <2>1, <2>2, <2>3 DEF Init, TypeOK
<1>2. AdmissionsArePaid
  <2>1. \A w \in Windows : admitted[w] = 0 /\ lost[w] = 0 /\ CurrentCount(w) = 0
    BY DEF Init, CurrentCount
  <2> QED
    BY <2>1, LimiterConstantsOK DEF AdmissionsArePaid
<1>3. Started /\ ServedIsCounted /\ CountedWasServed /\ AlarmSparesCurrentWindow
  BY DEF Init, Started, ServedIsCounted, CountedWasServed, AlarmSparesCurrentWindow
<1>4. LostIsOver /\ LimitHolds
  BY LimiterConstantsOK DEF Init, LostIsOver, LimitHolds
<1> QED
  BY <1>1, <1>2, <1>3, <1>4 DEF Inv

(* The edge reads its clock; nobody looks at the stamps of calls that have *)
(* no verdict yet.                                                         *)
LEMMA SendCheckInv ==
  ASSUME NoneIsNew, Inv, NEW c \in Check, SendCheck(c)
  PROVE  Inv'
<1>1. /\ phase[c] = "new" /\ phase' = [phase EXCEPT ![c] = "sent"]
      /\ stamp' = [stamp EXCEPT ![c] = now]
      /\ UNCHANGED <<now, verdict, counter, alarm, serving, admitted, lost, disturbed>>
  BY DEF SendCheck, objectVars, history
<1>2. TypeOK'
  BY <1>1 DEF Inv, TypeOK
<1>3. \A d \in Check : verdict[d] # None => d # c /\ stamp'[d] = stamp[d]
  BY <1>1 DEF Inv, TypeOK, Started
<1>4. Started'
  BY <1>1 DEF Inv, TypeOK, Started
<1>5. ServedIsCounted' /\ CountedWasServed'
  BY <1>1, <1>3 DEF Inv, TypeOK, ServedIsCounted, CountedWasServed, WindowOf, NoneIsNew
<1>6. \A w \in Windows : Over(w) => Over(w)'
  BY <1>1, <1>3 DEF Over, WindowOf
<1>7. LostIsOver' /\ LimitHolds'
  BY <1>1, <1>6 DEF Inv, LostIsOver, LimitHolds
<1>8. AdmissionsArePaid' /\ AlarmSparesCurrentWindow'
  BY <1>1 DEF Inv, AdmissionsArePaid, CurrentCount, AlarmSparesCurrentWindow
<1> QED
  BY <1>2, <1>4, <1>5, <1>7, <1>8 DEF Inv

LEMMA AdmitInv ==
  ASSUME NoneIsNew, Inv, NEW c \in Check, Admit(c)
  PROVE  Inv'
<1> DEFINE w == WindowOf(stamp[c])
<1>1. /\ phase[c] = "sent" /\ verdict[c] = None /\ serving = None
      /\ CurrentCount(w) < Limit
      /\ LoseOther(w)
      /\ counter' = [windowId |-> w, count |-> CurrentCount(w) + 1]
      /\ verdict' = [verdict EXCEPT ![c] = "ok"]
      /\ admitted' = [admitted EXCEPT ![w] = @ + 1]
      /\ serving' = c
      /\ disturbed' = (disturbed \/ OutOfOrder(c))
      /\ UNCHANGED <<now, phase, stamp, alarm>>
  BY DEF Admit, Deliverable
<1>2. TypeOK /\ w \in Windows
  BY WindowsInRange DEF Inv, TypeOK
<1>3. CurrentCount(w) \in 0..Limit
  BY <1>2, CurrentCountBounded
<1>4. counter' \in [windowId : Windows, count : 1..Limit] /\ counter' # None
  BY <1>1, <1>2, <1>3, LimiterConstantsOK DEF NoneIsNew
<1>5. lost' \in [Windows -> Nat]
      /\ \A v \in Windows : lost'[v] = lost[v]
           \/ (counter # None /\ v = counter.windowId /\ v # w /\ lost'[v] = lost[v] + 1)
  BY <1>1, <1>2 DEF LoseOther, TypeOK
<1>6. \A v \in Windows : admitted'[v] = IF v = w THEN admitted[v] + 1 ELSE admitted[v]
  BY <1>1, <1>2 DEF TypeOK
<1>7. disturbed' \in BOOLEAN
  BY <1>1, <1>2 DEF TypeOK
<1>8. TypeOK'
  <2>1. admitted' \in [Windows -> Nat]
    BY <1>1, <1>2 DEF TypeOK
  <2>2. verdict' \in [Check -> {None, "ok", "limited", "error"}]
    BY <1>1, <1>2 DEF TypeOK
  <2> QED
    BY <1>1, <1>2, <1>4, <1>5, <1>7, <2>1, <2>2 DEF TypeOK
<1>9. \A d \in Check : verdict'[d] # None <=> d = c \/ verdict[d] # None
  BY <1>1, <1>2 DEF TypeOK, NoneIsNew
<1>10. Started'
  BY <1>1, <1>9 DEF Inv, Started
<1>11. ServedIsCounted' /\ CountedWasServed' /\ AlarmSparesCurrentWindow'
  BY <1>1, <1>4, <1>9 DEF ServedIsCounted, CountedWasServed, AlarmSparesCurrentWindow, WindowOf, NoneIsNew
<1>12. AdmissionsArePaid'
  <2> SUFFICES ASSUME NEW v \in Windows
               PROVE  admitted'[v] <= Limit * lost'[v] + CurrentCount(v)'
    BY DEF AdmissionsArePaid
  <2>1. /\ admitted[v] <= Limit * lost[v] + CurrentCount(v)
        /\ admitted[v] \in Nat /\ lost[v] \in Nat /\ Limit \in Nat
        /\ CurrentCount(v) \in 0..Limit
    BY <1>2, CurrentCountBounded, LimiterConstantsOK DEF Inv, AdmissionsArePaid, TypeOK
  <2>2. CurrentCount(v)' = IF v = w THEN CurrentCount(w) + 1 ELSE 0
    BY <1>1, <1>4 DEF CurrentCount
  <2>3. CASE v = w
    BY <1>5, <1>6, <2>1, <2>2, <2>3
  <2>4. CASE v # w /\ lost'[v] = lost[v]
    <3>1. CurrentCount(v) = 0
      <4>1. CASE counter = None \/ counter.windowId # v
        BY <4>1 DEF CurrentCount
      <4>2. CASE counter # None /\ counter.windowId = v
        <5>1. lost' = [lost EXCEPT ![counter.windowId] = @ + 1]
          BY <1>1, <2>4, <4>2 DEF LoseOther
        <5> QED
          BY <1>2, <2>1, <2>4, <4>2, <5>1 DEF TypeOK
      <4> QED
        BY <4>1, <4>2
    <3> QED
      BY <1>6, <2>1, <2>2, <2>4, <3>1
  <2>5. CASE v # w /\ lost'[v] = lost[v] + 1
    <3>1. Limit * (lost[v] + 1) = Limit * lost[v] + Limit
      BY <2>1
    <3>2. admitted[v] <= Limit * lost[v] + Limit
      BY <2>1
    <3> QED
      BY <1>6, <2>1, <2>2, <2>5, <3>1, <3>2
  <2> QED
    BY <1>5, <2>3, <2>4, <2>5
<1>13. \A v \in Windows : Over(v) => Over(v)'
  BY <1>1, <1>9 DEF Over, WindowOf
<1>14. ASSUME ~disturbed' PROVE ~disturbed /\ ~OutOfOrder(c)
  BY <1>1, <1>2, <1>14 DEF TypeOK
(* The record was of an earlier window, since someone of it was served.    *)
<1>15. LostIsOver'
  <2> SUFFICES ASSUME ~disturbed', NEW v \in Windows, lost'[v] > 0
               PROVE  Over(v)'
    BY DEF LostIsOver
  <2>1. CASE lost'[v] = lost[v]
    BY <1>13, <1>14, <2>1 DEF Inv, LostIsOver
  <2>2. CASE counter # None /\ v = counter.windowId /\ v # w
    <3>1. PICK d \in Check : verdict[d] # None /\ WindowOf(stamp[d]) = v
      BY <2>2 DEF Inv, CountedWasServed
    <3>2. ~(w < v)
      BY <1>14, <3>1 DEF OutOfOrder
    <3>3. v < w
      BY <1>2, <2>2, <3>2, LimiterConstantsOK DEF Windows
    <3>4. verdict'[c] # None /\ WindowOf(stamp[c])' = w
      BY <1>1, <1>9 DEF WindowOf
    <3> QED
      BY <3>3, <3>4 DEF Over, WindowOf
  <2> QED
    BY <1>5, <2>1, <2>2
<1>16. LimitHolds'
  <2> SUFFICES ASSUME ~disturbed', NEW v \in Windows
               PROVE  admitted'[v] <= Limit
    BY DEF LimitHolds
  <2>1. admitted[v] <= Limit
    BY <1>14 DEF Inv, LimitHolds
  <2>2. CASE v # w
    BY <1>6, <2>1, <2>2
  <2>3. CASE v = w
    <3>1. ~Over(w)
      BY <1>14 DEF Over, OutOfOrder
    <3>2. lost[w] = 0
      BY <1>2, <1>14, <3>1 DEF Inv, LostIsOver, TypeOK
    <3>3. admitted[w] <= CurrentCount(w)
      BY <1>2, <1>3, <3>2, LimiterConstantsOK DEF Inv, AdmissionsArePaid, TypeOK
    <3> QED
      BY <1>1, <1>2, <1>3, <1>6, <2>3, <3>3, LimiterConstantsOK DEF TypeOK
  <2> QED
    BY <2>2, <2>3
<1> QED
  BY <1>8, <1>10, <1>11, <1>12, <1>15, <1>16 DEF Inv

LEMMA LimitedInv ==
  ASSUME NoneIsNew, Inv, NEW c \in Check, Limited(c)
  PROVE  Inv'
<1> DEFINE w == WindowOf(stamp[c])
<1>1. /\ phase[c] = "sent" /\ verdict[c] = None /\ serving = None
      /\ CurrentCount(w) >= Limit
      /\ verdict' = [verdict EXCEPT ![c] = "limited"]
      /\ serving' = c
      /\ disturbed' = (disturbed \/ OutOfOrder(c))
      /\ UNCHANGED <<now, phase, stamp, counter, alarm, admitted, lost>>
  BY DEF Limited, Deliverable
<1>2. TypeOK
  BY DEF Inv
<1>3. counter # None /\ counter.windowId = w
  BY <1>1, LimiterConstantsOK DEF CurrentCount
<1>4. disturbed' \in BOOLEAN
  BY <1>1, <1>2 DEF TypeOK
<1>5. TypeOK'
  BY <1>1, <1>2, <1>4 DEF TypeOK
<1>6. \A d \in Check : verdict'[d] # None <=> d = c \/ verdict[d] # None
  BY <1>1, <1>2 DEF TypeOK, NoneIsNew
<1>7. Started' /\ AlarmSparesCurrentWindow'
  BY <1>1, <1>6 DEF Inv, Started, AlarmSparesCurrentWindow, NoneIsNew
<1>8. ServedIsCounted' /\ CountedWasServed'
  BY <1>1, <1>3, <1>6 DEF Inv, ServedIsCounted, CountedWasServed, WindowOf
<1>9. AdmissionsArePaid'
  BY <1>1 DEF Inv, AdmissionsArePaid, CurrentCount
<1>10. \A v \in Windows : Over(v) => Over(v)'
  BY <1>1, <1>6 DEF Over, WindowOf
<1>11. ASSUME ~disturbed' PROVE ~disturbed
  BY <1>1, <1>2, <1>11 DEF TypeOK
<1>12. LostIsOver' /\ LimitHolds'
  BY <1>1, <1>10, <1>11 DEF Inv, LostIsOver, LimitHolds
<1> QED
  BY <1>5, <1>7, <1>8, <1>9, <1>12 DEF Inv

LEMMA SetAlarmInv ==
  ASSUME NoneIsNew, Inv, SetAlarm
  PROVE  Inv'
<1>1. /\ serving # None /\ serving' = None
      /\ alarm' = (WindowOf(stamp[serving]) + 2) * Window
      /\ phase' = [phase EXCEPT ![serving] = "done"]
      /\ UNCHANGED <<now, stamp, verdict, counter, admitted, lost, disturbed>>
  BY DEF SetAlarm, EndServing, history
<1>2. TypeOK /\ serving \in Check /\ WindowOf(stamp[serving]) \in Windows
  BY <1>1, WindowsInRange DEF Inv, TypeOK
<1>3. alarm' \in Nat
  BY <1>1, <1>2, LimiterConstantsOK DEF Windows
<1>4. TypeOK'
  BY <1>1, <1>2, <1>3 DEF TypeOK
<1>5. Started' /\ ServedIsCounted' /\ CountedWasServed'
  BY <1>1, <1>2 DEF Inv, TypeOK, Started, ServedIsCounted, CountedWasServed, WindowOf
<1>6. AlarmSparesCurrentWindow'
  BY <1>1, <1>3 DEF Inv, ServedIsCounted, AlarmSparesCurrentWindow, NoneIsNew
<1>7. AdmissionsArePaid' /\ LostIsOver' /\ LimitHolds'
  BY <1>1 DEF Inv, AdmissionsArePaid, CurrentCount, LostIsOver, Over, WindowOf, LimitHolds
<1> QED
  BY <1>4, <1>5, <1>6, <1>7 DEF Inv

LEMMA CrashInv ==
  ASSUME NoneIsNew, Inv, Crash
  PROVE  Inv'
<1>1. /\ serving \in Check /\ serving' = None
      /\ phase' = [phase EXCEPT ![serving] = "done"]
      /\ verdict' = [verdict EXCEPT ![serving] = "error"]
      /\ disturbed' = TRUE
      /\ UNCHANGED <<now, stamp, counter, alarm, admitted, lost>>
  BY DEF Crash, Inv, TypeOK
<1>2. TypeOK'
  BY <1>1 DEF Inv, TypeOK
<1>3. \A d \in Check : verdict[d] # None => verdict'[d] # None
  BY <1>1 DEF Inv, TypeOK, NoneIsNew
<1>4. Started'
  BY <1>1, <1>3 DEF Inv, TypeOK, Started, ServedIsCounted, NoneIsNew
<1>5. ServedIsCounted' /\ CountedWasServed'
  BY <1>1, <1>3 DEF Inv, ServedIsCounted, CountedWasServed, WindowOf
<1>6. AdmissionsArePaid' /\ LostIsOver' /\ LimitHolds' /\ AlarmSparesCurrentWindow'
  BY <1>1 DEF Inv, AdmissionsArePaid, CurrentCount, LostIsOver, LimitHolds, AlarmSparesCurrentWindow
<1> QED
  BY <1>2, <1>4, <1>5, <1>6 DEF Inv

(* An undisturbed alarm fires when the window of the record is over.       *)
LEMMA AlarmFiresInv ==
  ASSUME NoneIsNew, Inv, AlarmFires
  PROVE  Inv'
<1>1. /\ serving = None /\ alarm # None /\ now >= alarm
      /\ counter' = None /\ alarm' = None
      /\ lost' = IF counter = None THEN lost ELSE [lost EXCEPT ![counter.windowId] = @ + 1]
      /\ UNCHANGED <<now, phase, stamp, verdict, serving, admitted, disturbed>>
  BY DEF AlarmFires
<1>2. TypeOK /\ (counter # None => counter.windowId \in Windows)
  BY DEF Inv, TypeOK
<1>3. lost' \in [Windows -> Nat]
      /\ \A v \in Windows : lost'[v] = IF counter # None /\ v = counter.windowId
                                           THEN lost[v] + 1 ELSE lost[v]
  BY <1>1, <1>2 DEF TypeOK
<1>4. TypeOK'
  BY <1>1, <1>2, <1>3 DEF TypeOK
<1>5. Started' /\ ServedIsCounted' /\ CountedWasServed' /\ AlarmSparesCurrentWindow'
  BY <1>1 DEF Inv, Started, ServedIsCounted, CountedWasServed, AlarmSparesCurrentWindow
<1>6. AdmissionsArePaid'
  <2> SUFFICES ASSUME NEW v \in Windows
               PROVE  admitted'[v] <= Limit * lost'[v] + CurrentCount(v)'
    BY DEF AdmissionsArePaid
  <2>1. /\ admitted[v] <= Limit * lost[v] + CurrentCount(v)
        /\ admitted[v] \in Nat /\ lost[v] \in Nat /\ Limit \in Nat
        /\ CurrentCount(v) \in 0..Limit
    BY <1>2, CurrentCountBounded, LimiterConstantsOK DEF Inv, AdmissionsArePaid, TypeOK
  <2>2. CurrentCount(v)' = 0
    BY <1>1 DEF CurrentCount
  <2>3. CASE counter # None /\ v = counter.windowId
    <3>1. Limit * (lost[v] + 1) = Limit * lost[v] + Limit
      BY <2>1
    <3> QED
      BY <1>1, <1>3, <2>1, <2>2, <2>3, <3>1
  <2>4. CASE ~(counter # None /\ v = counter.windowId)
    <3>1. CurrentCount(v) = 0
      BY <2>4 DEF CurrentCount
    <3> QED
      BY <1>1, <1>3, <2>1, <2>2, <2>4, <3>1
  <2> QED
    BY <2>3, <2>4
<1>7. LostIsOver'
  <2> SUFFICES ASSUME ~disturbed, NEW v \in Windows, lost'[v] > 0
               PROVE  Over(v)'
    BY <1>1 DEF LostIsOver
  <2>1. Over(v)' <=> Over(v)
    BY <1>1 DEF Over, WindowOf
  <2>2. CASE counter # None /\ v = counter.windowId
    <3>1. alarm \in Nat /\ now \in Nat /\ (v + 2) * Window \in Nat
      BY <1>1, <1>2, LimiterConstantsOK DEF TypeOK, Windows
    <3>2. alarm >= (v + 2) * Window
      BY <1>1, <2>2 DEF Inv, AlarmSparesCurrentWindow
    <3> QED
      BY <1>1, <2>1, <3>1, <3>2 DEF Over
  <2>3. CASE ~(counter # None /\ v = counter.windowId)
    BY <1>3, <2>1, <2>3 DEF Inv, LostIsOver
  <2> QED
    BY <2>2, <2>3
<1>8. LimitHolds'
  BY <1>1 DEF Inv, LimitHolds
<1> QED
  BY <1>4, <1>5, <1>6, <1>7, <1>8 DEF Inv

LEMMA TickInv ==
  ASSUME NoneIsNew, Inv, Tick
  PROVE  Inv'
<1>1. /\ now < MaxTime /\ now' = now + 1
      /\ UNCHANGED <<phase, stamp, verdict, counter, alarm, serving, admitted, lost, disturbed>>
  BY DEF Tick, objectVars, history
<1>2. TypeOK'
  BY <1>1, LimiterConstantsOK DEF Inv, TypeOK
<1>3. Started' /\ ServedIsCounted' /\ CountedWasServed' /\ AlarmSparesCurrentWindow'
  BY <1>1 DEF Inv, Started, ServedIsCounted, CountedWasServed, AlarmSparesCurrentWindow, WindowOf
<1>4. AdmissionsArePaid' /\ LimitHolds'
  BY <1>1 DEF Inv, AdmissionsArePaid, CurrentCount, LimitHolds
<1>5. \A v \in Windows : Over(v) => Over(v)'
  <2>1. \A v \in Windows : (v + 2) * Window \in Nat
    BY LimiterConstantsOK DEF Windows
  <2> QED
    BY <1>1, <2>1, LimiterConstantsOK DEF Inv, TypeOK, Over, WindowOf
<1>6. LostIsOver'
  BY <1>1, <1>5 DEF Inv, LostIsOver
<1> QED
  BY <1>2, <1>3, <1>4, <1>6 DEF Inv

LEMMA NextInv ==
  ASSUME NoneIsNew, Inv, [Next]_vars
  PROVE  Inv'
<1>1. CASE UNCHANGED vars
  <2>1. UNCHANGED <<now, phase, stamp, verdict, counter, alarm, serving, admitted, lost, disturbed>>
    BY <1>1 DEF vars, objectVars, history
  <2> QED
    BY <2>1 DEF Inv, TypeOK, Started, ServedIsCounted, CountedWasServed, AlarmSparesCurrentWindow,
                AdmissionsArePaid, CurrentCount, LostIsOver, Over, LimitHolds, WindowOf
<1>2. CASE Next
  BY <1>2, SendCheckInv, AdmitInv, LimitedInv, SetAlarmInv, CrashInv, AlarmFiresInv, TickInv
     DEF Next
<1> QED
  BY <1>1, <1>2

(* The invariant holds in every reachable state.                           *)
LEMMA LimiterInvariant ==
  ASSUME NoneIsNew
  PROVE  Spec => []Inv
<1>1. Init => Inv
  BY InitInv
<1>2. Inv /\ [Next]_vars => Inv'
  BY NextInv
<1> QED
  BY <1>1, <1>2, PTL DEF Spec

-----------------------------------------------------------------------------
(* The fixed window of the RateLimiter object: each loss of its record     *)
(* costs a window one limit more at most, and while no call is overtaken   *)
(* or late and the object does not crash, the limit itself holds.          *)
THEOREM WindowsAreLimited ==
  ASSUME NoneIsNew
  PROVE  Spec => []WindowLimit
<1>1. Inv => WindowLimit
  <2> SUFFICES ASSUME Inv, NEW w \in Windows
               PROVE  /\ admitted[w] <= Limit * (1 + lost[w])
                      /\ ~disturbed => admitted[w] <= Limit
    BY DEF WindowLimit
  <2>1. admitted[w] \in Nat /\ lost[w] \in Nat /\ Limit \in Nat /\ CurrentCount(w) \in 0..Limit
    BY CurrentCountBounded, LimiterConstantsOK DEF Inv, TypeOK
  <2>2. admitted[w] <= Limit * lost[w] + CurrentCount(w)
    BY DEF Inv, AdmissionsArePaid
  <2>3. Limit * (1 + lost[w]) = Limit + Limit * lost[w]
    BY <2>1
  <2> QED
    BY <2>1, <2>2, <2>3 DEF Inv, LimitHolds
<1> QED
  BY <1>1, LimiterInvariant, PTL

(* While nothing is disturbed, deleteAll drops no record whose window is   *)
(* still the present one, and the object keeps its types.                  *)
THEOREM AlarmsFitRecords ==
  ASSUME NoneIsNew
  PROVE  Spec => []AlarmFitsRecord
<1>1. Inv => AlarmFitsRecord
  BY DEF Inv, AlarmFitsRecord
<1> QED
  BY <1>1, LimiterInvariant, PTL
=============================================================================
