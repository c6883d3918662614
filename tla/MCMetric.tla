------------------------------ MODULE MCMetric ------------------------------
(***************************************************************************)
(* Metric with two plugins.  For safety they have two items: a run-once    *)
(* and a periodic one, as mod_cpu has, or two periodic items of different  *)
(* intervals.  For liveness one periodic item.                             *)
(***************************************************************************)
EXTENDS Metric, TLC

MCInterval == 1..2

MCChannel == {<<[run_once |-> TRUE,  interval |-> 1],
                [run_once |-> FALSE, interval |-> 1]>>,
              <<[run_once |-> FALSE, interval |-> 1],
                [run_once |-> FALSE, interval |-> 2]>>}

MCLiveChannel == {<<[run_once |-> FALSE, interval |-> 1]>>}

Symmetry == Permutations(Key)
=============================================================================
