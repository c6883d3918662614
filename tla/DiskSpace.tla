----------------------------- MODULE DiskSpace -----------------------------
(***************************************************************************)
(* What the disk plugin makes of /proc/mounts (plugins/mod_disk).  A line  *)
(* of the file is a record of its device, what the name of the device      *)
(* looks like, the type and mode of the mount, and what statvfs says of    *)
(* it, in blocks.  The loop over the lines is cut at each of them.  The    *)
(* largest share of a single device, which nobody uses, is left out; a     *)
(* file that cannot be opened has the outcome of an empty one.             *)
(***************************************************************************)
EXTENDS Integers, Sequences

CONSTANTS
  MountLine,             \* what a line of the file may be
  MaxMounts              \* bounds how many there are

ASSUME DiskAssumption ==
  MaxMounts \in Nat /\ \A m \in MountLine : m.size \in Nat /\ m.avail \in Nat

Mounts == UNION {[1 .. n -> MountLine] : n \in 0 .. MaxMounts}

VARIABLES
  mounts,                \* what the last run has found in the file
  at,                    \* the line that it is at, 0 when it has ended
  seen,                  \* the devices in DFhashvector
  total_size, total_free,
  item                   \* what it has published

diskVars == <<mounts, at, seen, total_size, total_free, item>>

RemoteMount(m) ==
  \/ m.colon
  \/ m.type = "smbfs" /\ m.prefix = "//"
  \/ m.type \in {"nfs", "nfs4", "autofs", "gfs", "none"}

\* The lines that find_disk_space looks at.
IsLocal(m) == ~m.ro /\ ~RemoteMount(m) /\ m.prefix \in {"/dev/", "/dev2/"}

NoItem == [total |-> -1, free |-> -1, usage |-> -1]

DiskInit ==
  /\ mounts = <<>> /\ at = 0 /\ seen = {}
  /\ total_size = 0 /\ total_free = 0
  /\ item = NoItem

\* disk_data_collect begins, and find_disk_space opens the file.
DiskDataCollect ==
  /\ at = 0
  /\ mounts' \in Mounts
  /\ at' = 1
  /\ total_size' = 0 /\ total_free' = 0
  /\ UNCHANGED <<seen, item>>

\* device_space, with seen_before.
DeviceSpace(m) ==
  /\ seen' = seen \cup {m.device}
  /\ IF m.device \notin seen /\ m.answers
     THEN total_size' = total_size + m.size /\ total_free' = total_free + m.avail
     ELSE UNCHANGED <<total_size, total_free>>

\* The loop of find_disk_space.
FindDiskSpace ==
  /\ at \in DOMAIN mounts
  /\ at' = at + 1
  /\ IF IsLocal(mounts[at]) THEN DeviceSpace(mounts[at])
     ELSE UNCHANGED <<seen, total_size, total_free>>
  /\ UNCHANGED <<mounts, item>>

Published ==
  [total |-> total_size, free |-> total_free,
   usage |-> IF total_size = 0 THEN -1   \* not a number
             ELSE (100 * (total_size - total_free)) \div total_size]

\* Mutant: the table of the devices is not cleaned.
FoundDirty ==
  /\ at = Len(mounts) + 1
  /\ at' = 0
  /\ item' = Published
  /\ UNCHANGED <<mounts, seen, total_size, total_free>>

\* The end of the file, with DFcleanup, and of disk_data_collect.
Found ==
  /\ at = Len(mounts) + 1
  /\ seen' = {}
  /\ at' = 0
  /\ item' = Published
  /\ UNCHANGED <<mounts, total_size, total_free>>

DiskNext == DiskDataCollect \/ FindDiskSpace \/ Found
DiskSpec == DiskInit /\ [][DiskNext]_diskVars
----------------------------------------------------------------------------
DiskTypeOK ==
  /\ mounts \in Mounts
  /\ at \in 0 .. Len(mounts) + 1
  /\ seen \subseteq {mounts[p].device : p \in DOMAIN mounts}
  /\ total_size \in Nat /\ total_free \in Nat
  /\ item \in [total : Nat, free : Nat, usage : Int] \cup {NoItem}

\* The lines of m that are counted: the first of a device decides.
Counted(m) ==
  {p \in DOMAIN m :
     /\ IsLocal(m[p]) /\ m[p].answers
     /\ \A q \in 1 .. p - 1 : IsLocal(m[q]) => m[q].device # m[p].device}

SizeOf(m) == [p \in DOMAIN m |-> m[p].size]
FreeOf(m) == [p \in DOMAIN m |-> m[p].avail]

\* The sum of f[p] over those p of S that are among the first n.
Sum(f, S, n) ==
  LET sum[k \in Nat] == IF k = 0 THEN 0 ELSE sum[k - 1] + (IF k \in S THEN f[k] ELSE 0)
  IN  sum[n]

(***************************************************************************)
(* Every local device that is mounted for writing counts once, however     *)
(* often it is mounted, in this run as in the next, whatever has been      *)
(* mounted before.  A device whose first mount does not answer is not      *)
(* counted at all.                                                         *)
(***************************************************************************)
DevicesCountOnce ==
  at = 0 /\ item # NoItem =>
    /\ item.total = Sum(SizeOf(mounts), Counted(mounts), Len(mounts))
    /\ item.free = Sum(FreeOf(mounts), Counted(mounts), Len(mounts))
=============================================================================
