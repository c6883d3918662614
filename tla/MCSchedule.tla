----------------------------- MODULE MCSchedule -----------------------------
(***************************************************************************)
(* Schedule with every combination of three items, intervals 0..4 and      *)
(* run_once, over 13 ticks: beyond the least common multiple of 2, 3, 4.   *)
(***************************************************************************)
EXTENDS Schedule

MCInterval == 0..4
=============================================================================
