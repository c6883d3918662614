--------------------------- MODULE MCCommandPipe ---------------------------
(***************************************************************************)
(* CommandPipe with four commands of three words and a pipe that holds     *)
(* seven words: two commands fit and a third is split, where depends on    *)
(* how far the plugin thread has come; a fourth comes in between the parts *)
(* of the third, or after the pipe has come to rest.                       *)
(***************************************************************************)
EXTENDS CommandPipe
=============================================================================
