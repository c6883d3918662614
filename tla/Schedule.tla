------------------------------ MODULE Schedule ------------------------------
(***************************************************************************)
(* One metric unit as the traversal thread sees it: a call of              *)
(* _run_sub_metric every RING_STEP seconds.  The call runs under unit_lock *)
(* and the rings are touched by no other thread, so it is one step here;   *)
(* Metric splits it.  What matters is the history: how often each item has *)
(* been handed to the update thread after a number of ticks, for every     *)
(* combination of intervals and run_once that a plugin can ask for.        *)
(***************************************************************************)
EXTENDS TimeRing

CONSTANT MaxTicks    \* bound on the ticks a run looks at

ASSUME MaxTicksAssumption == MaxTicks \in Nat

VARIABLES channel,   \* what the plugin asked for; never changes
          sub,       \* the unit's items
          pushed,    \* how often each item has been pushed on the action fifo
          ticks      \* calls of _run_sub_metric so far

vars == <<channel, sub, pushed, ticks>>

TypeOK ==
  /\ channel \in [Item -> SubChannel]
  /\ sub \in [Item -> SubUnit]
  /\ pushed \in [Item -> Nat]
  /\ ticks \in 0..MaxTicks

(***************************************************************************)
(* _add_metric: the unit is made from what the plugin asked for.           *)
(***************************************************************************)
Init ==
  /\ channel \in [Item -> SubChannel]
  /\ sub = [i \in Item |-> MakeSubunit(channel[i])]
  /\ pushed = [i \in Item |-> 0]
  /\ ticks = 0

(***************************************************************************)
(* _run_sub_metric: move the rings forward; on a trigger run the items.    *)
(***************************************************************************)
RunSubMetric ==
  LET moved == MoveForward(sub)
  IN  IF Trigger(moved)
      THEN /\ sub' = [i \in Item |-> AfterRun(moved[i])]
           /\ pushed' = [i \in Item |-> IF Due(moved[i]) THEN pushed[i] + 1
                                                         ELSE pushed[i]]
      ELSE /\ sub' = moved
           /\ UNCHANGED pushed

Tick ==
  /\ ticks < MaxTicks
  /\ ticks' = ticks + 1
  /\ RunSubMetric
  /\ UNCHANGED channel

Next == Tick

Spec == Init /\ [][Next]_vars
-----------------------------------------------------------------------------
\* The ring of an interval of 0 or 1 arrives at every tick.
Period(i) == IF channel[i].interval = 0 THEN 1 ELSE channel[i].interval

\* No other item of the unit arrives before item i does.
Earliest(i) == \A j \in Item : Period(i) =< Period(j)

(***************************************************************************)
(* An item without an end is pushed at exactly the ticks that are          *)
(* multiples of its period: no tick is lost or counted twice because other *)
(* items trigger the unit in between (do_run_sub_metric visits every item  *)
(* of a triggered unit).                                                   *)
(***************************************************************************)
PeriodicOnSchedule ==
  \A i \in Item :
    ~channel[i].run_once => pushed[i] = ticks \div Period(i)

(***************************************************************************)
(* What becomes of a run-once item: it is pushed once, when its ring       *)
(* arrives, if no other item of its unit arrives earlier; otherwise the    *)
(* unit's first trigger uses up its only run (metric.c:51-53 come before   *)
(* the test at line 54) and it is never pushed.                            *)
(***************************************************************************)
RunOnceOutcome ==
  \A i \in Item :
    channel[i].run_once =>
      pushed[i] = IF Earliest(i) /\ ticks >= Period(i) THEN 1 ELSE 0

(***************************************************************************)
(* What the plugin guide and the design diagram promise of a run-once      *)
(* item: the collect function is executed once.  Violated: see             *)
(* RunOnceOutcome.                                                         *)
(***************************************************************************)
RunOnceIsRun ==
  \A i \in Item :
    channel[i].run_once /\ ticks >= Period(i) => pushed[i] = 1
=============================================================================
