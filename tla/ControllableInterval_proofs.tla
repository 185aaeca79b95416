-------------------- MODULE ControllableInterval_proofs --------------------
(***************************************************************************)
(* No wakeup is lost and the Mutex is held exactly by a tick() that waits,  *)
(* for any number of tasks that tick and set one interval.  The two are     *)
(* inductive together: a tick() parks only after it has seen, under the     *)
(* Mutex, that there is no interval, and an interval is stored under it.    *)
(***************************************************************************)
EXTENDS ControllableInterval, TLAPS

TimerInv == TypeOK /\ NoLostWakeup /\ LockedWhileWaiting

LEMMA TimerInit == Init => TimerInv
BY TickersAssumption
DEF Init, TimerInv, TypeOK, NoLostWakeup, LockedWhileWaiting, Intervals, TickerPcs,
    SetterPcs, IdleSetter

LEMMA TimerTypes ==
  ASSUME TypeOK, Next
  PROVE  TypeOK'
<1> USE DEF TypeOK, Intervals, TickerPcs, SetterPcs, IdleSetter, StartLoop, timer_vars
<1>1. ASSUME NEW t \in Tickers, CallTick(t)
      PROVE  TypeOK'
  BY <1>1 DEF CallTick
<1>2. ASSUME NEW t \in Tickers, TickStep(t)
      PROVE  TypeOK'
  BY <1>2 DEF TickStep, Examine, Fire, WakeInSelect, WakeParked
<1>3. ASSUME NEW t \in Tickers, Drop(t)
      PROVE  TypeOK'
  BY <1>3 DEF Drop
<1>4. ASSUME NEW s \in Setters, CallSet(s)
      PROVE  TypeOK'
  BY <1>4 DEF CallSet
<1>5. ASSUME NEW s \in Setters, Store(s)
      PROVE  TypeOK'
  BY <1>5 DEF Store
<1>6. ASSUME NEW s \in Setters, NotifyWaiters(s)
      PROVE  TypeOK'
  <2>1. notified' \in [Tickers -> BOOLEAN]
    BY <1>6, Zenon DEF NotifyWaiters
  <2>2. QED
    BY <1>6, <2>1 DEF NotifyWaiters
<1>7. CASE Elapse
  BY <1>7 DEF Elapse
<1>8. QED
  BY <1>1, <1>2, <1>3, <1>4, <1>5, <1>6, <1>7 DEF Next, SetStep

\* A tick() parks on an interval only if none is set; who stores one notifies.
LEMMA WakeupStep ==
  ASSUME TypeOK, NoLostWakeup, Next
  PROVE  NoLostWakeup'
<1> SUFFICES ASSUME NEW u \in Tickers, (ticker[u] = "Parked" /\ interval # "None")'
             PROVE  (notified[u] \/ \E s \in Setters : setter[s].at = "Notifying")'
  BY DEF NoLostWakeup
<1> USE DEF TypeOK, Intervals, TickerPcs, SetterPcs, IdleSetter, StartLoop, timer_vars
<1>1. ASSUME NEW t \in Tickers, CallTick(t) \/ WakeInSelect(t) \/ WakeParked(t)
      PROVE  (notified[u] \/ \E s \in Setters : setter[s].at = "Notifying")'
  <2>1. u # t /\ ticker[u] = "Parked" /\ notified'[u] = notified[u]
    BY <1>1 DEF CallTick, WakeInSelect, WakeParked
  <2>2. interval' = interval /\ setter' = setter
    BY <1>1 DEF CallTick, WakeInSelect, WakeParked
  <2>3. QED
    BY <2>1, <2>2 DEF NoLostWakeup
<1>2. ASSUME NEW t \in Tickers, Examine(t)
      PROVE  (notified[u] \/ \E s \in Setters : setter[s].at = "Notifying")'
  <2>1. u # t /\ ticker[u] = "Parked"
    BY <1>2 DEF Examine
  <2>2. QED
    BY <1>2, <2>1 DEF NoLostWakeup, Examine
<1>3. ASSUME NEW t \in Tickers, Fire(t)
      PROVE  (notified[u] \/ \E s \in Setters : setter[s].at = "Notifying")'
  <2>1. u # t /\ ticker[u] = "Parked" /\ interval # "None"
    BY <1>3 DEF Fire
  <2>2. QED
    BY <1>3, <2>1 DEF NoLostWakeup, Fire
<1>4. ASSUME NEW t \in Tickers, Drop(t)
      PROVE  (notified[u] \/ \E s \in Setters : setter[s].at = "Notifying")'
  <2>1. u # t /\ ticker[u] = "Parked"
    BY <1>4 DEF Drop
  <2>2. QED
    BY <1>4, <2>1 DEF NoLostWakeup, Drop
<1>5. ASSUME NEW s \in Setters, CallSet(s)
      PROVE  (notified[u] \/ \E r \in Setters : setter[r].at = "Notifying")'
  <2>1. CASE notified[u]
    BY <1>5, <2>1 DEF CallSet
  <2>2. CASE ~notified[u]
    <3>1. PICK r \in Setters : setter[r].at = "Notifying"
      BY <1>5, <2>2 DEF NoLostWakeup, CallSet
    <3>2. setter'[r] = setter[r]
      BY <1>5, <3>1 DEF CallSet
    <3>3. QED
      BY <3>1, <3>2
  <2>3. QED
    BY <2>1, <2>2
<1>6. ASSUME NEW s \in Setters, Store(s)
      PROVE  (notified[u] \/ \E r \in Setters : setter[r].at = "Notifying")'
  <2>1. setter'[s].at = "Notifying"
    BY <1>6 DEF Store
  <2>2. QED
    BY <2>1
<1>7. ASSUME NEW s \in Setters, NotifyWaiters(s)
      PROVE  notified'[u]
  <2>1. ticker[u] # "Idle"
    BY <1>7 DEF NotifyWaiters
  <2>2. QED
    BY <1>7, <2>1, Zenon DEF NotifyWaiters
<1>8. CASE Elapse
  BY <1>8 DEF Elapse, NoLostWakeup
<1>9. QED
  BY <1>1, <1>2, <1>3, <1>4, <1>5, <1>6, <1>7, <1>8 DEF Next, TickStep, SetStep

\* The Mutex is taken on entering the select! and given back on leaving it; an
\* interval is stored, or cleared, only while the Mutex is free.
LEMMA MutexStep ==
  ASSUME TypeOK, LockedWhileWaiting, Next
  PROVE  LockedWhileWaiting'
<1> USE TickersAssumption DEF TypeOK, LockedWhileWaiting, TickerPcs, StartLoop, timer_vars
<1>1. ASSUME NEW t \in Tickers, CallTick(t) \/ WakeParked(t)
      PROVE  LockedWhileWaiting'
  <2>1. ticker[t] # "Waiting" /\ ticker' = [ticker EXCEPT ![t] = "Locking"]
    BY <1>1 DEF CallTick, WakeParked
  <2>2. lock' = lock /\ interval' = interval
    BY <1>1 DEF CallTick, WakeParked
  <2>3. QED
    BY <2>1, <2>2
<1>2. ASSUME NEW t \in Tickers, Examine(t)
      PROVE  LockedWhileWaiting'
  BY <1>2 DEF Examine
<1>3. ASSUME NEW t \in Tickers, Fire(t)
      PROVE  LockedWhileWaiting'
  BY <1>3 DEF Fire
<1>4. ASSUME NEW t \in Tickers, WakeInSelect(t)
      PROVE  LockedWhileWaiting'
  BY <1>4 DEF WakeInSelect
<1>5. ASSUME NEW t \in Tickers, Drop(t)
      PROVE  LockedWhileWaiting'
  BY <1>5 DEF Drop
<1>6. ASSUME NEW s \in Setters, CallSet(s) \/ Store(s) \/ NotifyWaiters(s)
      PROVE  LockedWhileWaiting'
  <2>1. ticker' = ticker /\ lock' = lock /\ (lock # "Free" => interval' = interval)
    BY <1>6 DEF CallSet, Store, NotifyWaiters
  <2>2. QED
    BY <2>1
<1>7. CASE Elapse
  BY <1>7 DEF Elapse
<1>8. QED
  BY <1>1, <1>2, <1>3, <1>4, <1>5, <1>6, <1>7 DEF Next, TickStep, SetStep

LEMMA TimerInvariant == Spec => []TimerInv
<1>1. TimerInv /\ [Next]_vars => TimerInv'
  <2>1. ASSUME TimerInv, Next
        PROVE  TimerInv'
    BY <2>1, TimerTypes, WakeupStep, MutexStep DEF TimerInv
  <2>2. ASSUME TimerInv, UNCHANGED vars
        PROVE  TimerInv'
    BY <2>2 DEF TimerInv, TypeOK, NoLostWakeup, LockedWhileWaiting, vars
  <2>3. QED
    BY <2>1, <2>2
<1>2. QED
  BY TimerInit, <1>1, PTL DEF Spec

\* A tick() that sleeps while an interval is set has been notified, or will be by
\* the call that set it, with any number of tasks (tick, lines 70-93).
THEOREM NoTickSleepsOn == Spec => []NoLostWakeup
<1>1. TimerInv => NoLostWakeup
  BY DEF TimerInv
<1>2. QED
  BY TimerInvariant, <1>1, PTL

\* The Mutex is held by the one tick() that waits for an interval, and by nothing
\* else, whatever was dropped (the guard of tick, line 75).
THEOREM MutexIsHeldByTick == Spec => []LockedWhileWaiting
<1>1. TimerInv => LockedWhileWaiting
  BY DEF TimerInv
<1>2. QED
  BY TimerInvariant, <1>1, PTL
=============================================================================
