------------------------------ MODULE UnitLife ------------------------------
(***************************************************************************)
(* What the watcher promises about the life of a metric unit, without      *)
(* locks, lists, rings or fifos.  A unit is made, put in the list, taken   *)
(* out of it, freed, and at last its plugin is closed.  Meanwhile reader   *)
(* threads enter and leave listed units, and the unit's update thread runs *)
(* the plugin's collect functions.  The promise is in the guards:          *)
(*   - a unit is entered only while it is listed, and taken out of the     *)
(*     list only while nobody is in it;                                    *)
(*   - a unit is freed, and its plugin closed, only after the last collect *)
(*     function has returned.                                              *)
(***************************************************************************)
CONSTANTS Key,      \* the units
          Reader    \* the threads that find units in the list

VARIABLES phase,    \* how far the life of a unit has come
          readers,  \* the readers that are in a unit
          running   \* the units that have a collect function running

vars == <<phase, readers, running>>

Phase == {"absent", "made", "listed", "stopping", "freed", "closed"}

TypeOK ==
  /\ phase \in [Key -> Phase]
  /\ readers \in [Key -> SUBSET Reader]
  /\ running \subseteq Key

Init ==
  /\ phase = [k \in Key |-> "absent"]
  /\ readers = [k \in Key |-> {}]
  /\ running = {}

Advance(k, from, to) ==
  /\ phase[k] = from
  /\ phase' = [phase EXCEPT ![k] = to]
  /\ UNCHANGED <<readers, running>>

Make(k) == Advance(k, "absent", "made")

List(k) == Advance(k, "made", "listed")

Unlist(k) == readers[k] = {} /\ Advance(k, "listed", "stopping")

Free(k) == k \notin running /\ Advance(k, "stopping", "freed")

Close(k) == Advance(k, "freed", "closed")

Enter(r, k) ==
  /\ phase[k] = "listed"
  /\ readers' = [readers EXCEPT ![k] = @ \union {r}]
  /\ UNCHANGED <<phase, running>>

Leave(r, k) ==
  /\ r \in readers[k]
  /\ readers' = [readers EXCEPT ![k] = @ \ {r}]
  /\ UNCHANGED <<phase, running>>

StartUpdate(k) ==
  /\ phase[k] \in {"made", "listed", "stopping"}
  /\ running' = running \union {k}
  /\ UNCHANGED <<phase, readers>>

EndUpdate(k) ==
  /\ k \in running
  /\ running' = running \ {k}
  /\ UNCHANGED <<phase, readers>>

Next ==
  \E k \in Key :
    \/ Make(k) \/ List(k) \/ Unlist(k) \/ Free(k) \/ Close(k)
    \/ StartUpdate(k) \/ EndUpdate(k)
    \/ \E r \in Reader : Enter(r, k) \/ Leave(r, k)

Spec == Init /\ [][Next]_vars
-----------------------------------------------------------------------------
(***************************************************************************)
(* Nobody is in the memory of a unit that is not there, and no collect     *)
(* function runs in a plugin that has been closed.                         *)
(***************************************************************************)
Safe ==
  \A k \in Key :
    /\ readers[k] # {} => phase[k] = "listed"
    /\ k \in running => phase[k] \in {"made", "listed", "stopping"}
=============================================================================
