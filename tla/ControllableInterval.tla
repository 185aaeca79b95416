----------------------- MODULE ControllableInterval -----------------------
(***************************************************************************)
(* ControllableInterval: a timer that one task waits on with tick() while  *)
(* others set and clear it.  state is behind a Mutex that tick() holds for *)
(* as long as it waits for the interval; notify wakes the ticks that wait  *)
(* for an interval to be set.                                              *)
(*                                                                         *)
(* A Notified future hears every notify_waiters from its creation on, also *)
(* before it is polled.  Time is whether the next tick is due.  A tick()   *)
(* may be dropped at any await, as the select! of network.rs does.         *)
(***************************************************************************)
EXTENDS Naturals

CONSTANTS
  Tickers,  \* tasks that call tick
  Setters   \* tasks that call set_interval, set_interval_at, clear_interval

ASSUME TickersAssumption == "Free" \notin Tickers

VARIABLES
  interval,  \* IntervalState::interval: "None", or whether its next tick is due
  lock,      \* who holds the Mutex around it, "Free" for nobody
  ticker,    \* where each tick() is
  notified,  \* whether the Notified future of each tick() was notified
  setter     \* where each set or clear is

timer_vars == << interval, lock >>
vars == << interval, lock, ticker, notified, setter >>

Intervals == {"None", "Running", "Due"}

\* Locking: waits for the Mutex; Waiting: holds it, in the select!; Parked: in
\* notified.await.
TickerPcs == {"Idle", "Locking", "Waiting", "Parked"}

\* Locking: waits for the Mutex to store the interval; Notifying: has stored it.
SetterPcs == [at : {"Idle", "Locking", "Notifying"}, new : Intervals]
IdleSetter == [at |-> "Idle", new |-> "None"]

TypeOK ==
  /\ interval \in Intervals
  /\ lock \in Tickers \cup {"Free"}
  /\ ticker \in [Tickers -> TickerPcs]
  /\ notified \in [Tickers -> BOOLEAN]
  /\ setter \in [Setters -> SetterPcs]

Init ==
  /\ interval = "None"
  /\ lock = "Free"
  /\ ticker = [t \in Tickers |-> "Idle"]
  /\ notified = [t \in Tickers |-> FALSE]
  /\ setter = [s \in Setters |-> IdleSetter]

-----------------------------------------------------------------------------
(* tick *)

\* The head of the loop: a fresh Notified future, then the lock.
StartLoop(t) ==
  /\ notified' = [notified EXCEPT ![t] = FALSE]
  /\ ticker' = [ticker EXCEPT ![t] = "Locking"]

CallTick(t) ==
  /\ ticker[t] = "Idle"
  /\ StartLoop(t)
  /\ UNCHANGED << timer_vars, setter >>

\* The Mutex is taken: kept while an interval is set, given back otherwise.
Examine(t) ==
  /\ ticker[t] = "Locking"
  /\ lock = "Free"
  /\ IF interval # "None"
     THEN /\ ticker' = [ticker EXCEPT ![t] = "Waiting"]
          /\ lock' = t
     ELSE /\ ticker' = [ticker EXCEPT ![t] = "Parked"]
          /\ UNCHANGED lock
  /\ UNCHANGED << interval, notified, setter >>

\* interval.tick() wins the biased select!: the tick is delivered and the next
\* one is a period away.
Fire(t) ==
  /\ ticker[t] = "Waiting"
  /\ interval = "Due"
  /\ interval' = "Running"
  /\ lock' = "Free"
  /\ ticker' = [ticker EXCEPT ![t] = "Idle"]
  /\ UNCHANGED << notified, setter >>

\* Mutant: continue without leaving the block of the guard.
WakeKeepingLock(t) ==
  /\ ticker[t] = "Waiting"
  /\ interval # "Due"
  /\ notified[t]
  /\ StartLoop(t)
  /\ UNCHANGED << timer_vars, setter >>

\* notified wins the select!: the loop starts over.
WakeInSelect(t) ==
  /\ ticker[t] = "Waiting"
  /\ interval # "Due"
  /\ notified[t]
  /\ lock' = "Free"
  /\ StartLoop(t)
  /\ UNCHANGED << interval, setter >>

WakeParked(t) ==
  /\ ticker[t] = "Parked"
  /\ notified[t]
  /\ StartLoop(t)
  /\ UNCHANGED << timer_vars, setter >>

\* Mutant: the guard outlives the future.
DropKeepingLock(t) ==
  /\ ticker[t] # "Idle"
  /\ ticker' = [ticker EXCEPT ![t] = "Idle"]
  /\ UNCHANGED << timer_vars, notified, setter >>

\* The future is dropped with what it holds.
Drop(t) ==
  /\ ticker[t] # "Idle"
  /\ ticker' = [ticker EXCEPT ![t] = "Idle"]
  /\ lock' = IF lock = t THEN "Free" ELSE lock
  /\ UNCHANGED << interval, notified, setter >>

-----------------------------------------------------------------------------
(* set_interval, set_interval_at and clear_interval *)

\* set_interval's first tick is due at once.
CallSet(s) ==
  /\ setter[s].at = "Idle"
  /\ \E new \in Intervals :
       setter' = [setter EXCEPT ![s] = [at |-> "Locking", new |-> new]]
  /\ UNCHANGED << timer_vars, ticker, notified >>

\* Mutant: nobody is notified of the first interval.
StoreUnannounced(s) ==
  /\ setter[s].at = "Locking"
  /\ lock = "Free"
  /\ interval' = setter[s].new
  /\ setter' = [setter EXCEPT ![s] = IF interval = "None" THEN IdleSetter
                                     ELSE [@ EXCEPT !.at = "Notifying"]]
  /\ UNCHANGED << lock, ticker, notified >>

\* Whoever waits in tick() has the Mutex, so a new interval waits for the old one
\* to fire, although lines 31, 45 and 56 promise to wake the waiting task.
Store(s) ==
  /\ setter[s].at = "Locking"
  /\ lock = "Free"
  /\ interval' = setter[s].new
  /\ setter' = [setter EXCEPT ![s].at = "Notifying"]
  /\ UNCHANGED << lock, ticker, notified >>

NotifyWaiters(s) ==
  /\ setter[s].at = "Notifying"
  /\ notified' = [t \in Tickers |-> notified[t] \/ ticker[t] # "Idle"]
  /\ setter' = [setter EXCEPT ![s] = IdleSetter]
  /\ UNCHANGED << timer_vars, ticker >>

\* Time passes (external).
Elapse ==
  /\ interval = "Running"
  /\ interval' = "Due"
  /\ UNCHANGED << lock, ticker, notified, setter >>

-----------------------------------------------------------------------------
TickStep(t) == Examine(t) \/ Fire(t) \/ WakeInSelect(t) \/ WakeParked(t)
SetStep(s) == Store(s) \/ NotifyWaiters(s)

Next ==
  \/ \E t \in Tickers : CallTick(t) \/ TickStep(t) \/ Drop(t)
  \/ \E s \in Setters : CallSet(s) \/ SetStep(s)
  \/ Elapse

Spec == Init /\ [][Next]_vars

\* Every task is polled when it can go on, the Mutex is fair (tokio's serves its
\* waiters in order), and time passes.
Fairness ==
  /\ \A t \in Tickers : /\ WF_vars(Fire(t) \/ WakeInSelect(t) \/ WakeParked(t))
                        /\ SF_vars(Examine(t))
  /\ \A s \in Setters : SF_vars(Store(s)) /\ WF_vars(NotifyWaiters(s))
  /\ WF_vars(Elapse)
FairSpec == Spec /\ Fairness

-----------------------------------------------------------------------------
(* Properties *)

\* No wakeup is lost: a tick() sleeps on although an interval is set only while
\* the call that set it still has to notify (the Notified future is created
\* before the state is looked at, lines 72-77).
NoLostWakeup ==
  \A t \in Tickers :
    ticker[t] = "Parked" /\ interval # "None" =>
      notified[t] \/ \E s \in Setters : setter[s].at = "Notifying"

\* The Mutex is held exactly by the tick() that waits for an interval, and there
\* is one: no drop or early return leaves it locked, and no interval is taken
\* away under the tick() that waits for it.
LockedWhileWaiting ==
  /\ \A t \in Tickers : ticker[t] = "Waiting" <=> lock = t
  /\ lock # "Free" => interval # "None"

\* Once a timer is set and left alone no tick() sleeps for ever, however many
\* tasks share it and whatever was dropped before.
TickIsDelivered ==
  <>[](interval # "None" /\ \A s \in Setters : setter[s].at = "Idle") =>
    \A t \in Tickers : []<>(ticker[t] = "Idle")

\* A call of set_interval, set_interval_at or clear_interval gets through, if
\* only when the interval it replaces comes due.
SettersAreServed ==
  \A s \in Setters : setter[s].at = "Locking" ~> setter[s].at = "Notifying"
=============================================================================
