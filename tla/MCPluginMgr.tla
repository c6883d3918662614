---------------------------- MODULE MCPluginMgr ----------------------------
(***************************************************************************)
(* PluginMgr with two files of one name and one of another, and up to four *)
(* plugin ids.                                                             *)
(***************************************************************************)
EXTENDS PluginMgr, TLC

CONSTANTS cpu, cpu2, disk

MCPath == {cpu, cpu2, disk}

MCNameOf == (cpu :> "cpu") @@ (cpu2 :> "cpu") @@ (disk :> "disk")

Symmetry == Permutations(Node)
============================================================================
