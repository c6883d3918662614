------------------------------ MODULE TimeRing ------------------------------
(***************************************************************************)
(* The time ring of a metric unit (core/metric.c): every item of the unit  *)
(* (a struct sub_metric_unit) counts down to its next update, the unit is  *)
(* triggered when one of them arrives at zero, and a triggered unit hands  *)
(* the items that are due to its update thread.                            *)
(*                                                                         *)
(* This module holds the operators only: Schedule studies one unit with    *)
(* them, Metric runs many units with the program's threads.  An item is    *)
(* its number in the list sub_node_head, which _add_sub_metric appends to. *)
(***************************************************************************)
EXTENDS Integers

CONSTANTS NumItem,   \* plugin_channel_t.sub_metric_num
          Interval   \* the sampling intervals that plugins ask for, in seconds

ASSUME NumItemAssumption == NumItem \in Nat \ {0}
ASSUME IntervalAssumption == Interval \subseteq Nat

Item == 1..NumItem

\* What a plugin says of one item: the fields of plugin_sub_channel_t that
\* the scheduler looks at.
SubChannel == [run_once : BOOLEAN, interval : Interval]

\* run_time is the number of runs left, -1 for an item without an end.
SubUnit == [run_time : {-1, 0, 1}, interval : Interval, time_ring_left : Nat]

(***************************************************************************)
(* make_subunit, with the run_time that _add_metric passes to it.          *)
(***************************************************************************)
MakeSubunit(c) ==
  [run_time       |-> IF c.run_once THEN 1 ELSE -1,
   interval       |-> c.interval,
   time_ring_left |-> c.interval]

\* An item whose runs are used up is skipped everywhere.
Spent(s) == s.run_time = 0

GoOneStep(s) ==
  IF s.time_ring_left # 0 THEN [s EXCEPT !.time_ring_left = @ - 1] ELSE s

\* _time_ring_move_forward: one step of every item's ring ...
MoveForward(sub) ==
  [i \in Item |-> IF Spent(sub[i]) THEN sub[i] ELSE GoOneStep(sub[i])]

\* ... and its result: some item has arrived.
Trigger(sub) == \E i \in Item : ~Spent(sub[i]) /\ sub[i].time_ring_left = 0

\* The body of do_run_sub_metric's loop for one item pushes it ...
Due(s) == ~Spent(s) /\ s.time_ring_left = 0

\* Mutant: reset_time_ring is forgotten.
AfterRunNoReset(s) ==
  IF Spent(s) THEN s
  ELSE [s EXCEPT !.run_time = IF @ = -1 THEN -1 ELSE @ - 1]

\* Mutant: a run is counted only when the item is due.
AfterRunCountDue(s) ==
  IF Spent(s) \/ s.time_ring_left # 0 THEN s
  ELSE [s EXCEPT !.run_time = IF @ = -1 THEN -1 ELSE @ - 1,
                 !.time_ring_left = s.interval]

\* ... and leaves the item like this.  A run of a run-once item is counted
\* whether or not the item is due.
AfterRun(s) ==
  IF Spent(s) THEN s
  ELSE [run_time       |-> IF s.run_time = -1 THEN -1 ELSE s.run_time - 1,
        interval       |-> s.interval,
        time_ring_left |-> IF s.time_ring_left = 0 THEN s.interval
                                                   ELSE s.time_ring_left]
=============================================================================
