------------------------------ MODULE MCLogger ------------------------------
(***************************************************************************)
(* Logger with two clients and four messages: a walk can meet an append at *)
(* every message, and a signal can be lost at every state of the logging   *)
(* thread.                                                                 *)
(***************************************************************************)
EXTENDS Logger
=============================================================================
