# syswatcher in TLA+

syswatcher watches a machine's resources. Plugins (shared objects) know how to
collect a metric; the program loads and unloads them at run time, calls their
collect functions at the intervals they ask for, and publishes the values on
two TCP ports. This directory holds TLA+ models of the program's core,
the TLC configurations that check them, and proofs for TLAPS. Line numbers
refer to `src/`.

## 1. The system

| Component | State | Operations | Source | Modelled by |
|---|---|---|---|---|
| time ring | per item: `run_time`, `interval`, `time_ring_left` | move forward, trigger, hand out due items | `core/metric.c` | `TimeRing`, `Schedule` |
| metric units and threads | `metrics_head`, `plugin_lock`, per unit `unit_lock`, items, `thread_info` | add, delete, traverse, list, update | `core/metric.c` | `Metric`, `UnitLife` |
| action fifo | list of actions, `exit_flag` | push, pop, clear | `core/fifo.c` | `Metric` (a sequence) |
| plugin manager | list of `plugin_t`, `plugins`, `plugin_id_inc`, load flags | load, unload, reload | `core/plugin_mgr.c` | `PluginMgr` |
| plugin server, client | named pipe, `cmd_data` | write a command, read and execute it | `core/plugin_server.c`, `tools/plugin_client.c` | `CommandPipe` |
| logger | `log_buffer`, file, `closed`, `thread_running` | append, signal, write, exit | `core/log.c` | `Logger` |
| data collector | `visual_data`, `json_data` | write, answer a connection | `core/collector.c`, `core/metric.c` | `Metric`, in part |
| shutdown | `clean_done`, `clean_mutex`, both lists | `cleanup()` in a signal handler | `core/cleanup.c`, `core/main.c` | `Shutdown` |
| cpu plugin, file library | last totals per core, the buffered `/proc/stat` | four usage functions, `update_file` | `plugins/mod_cpu/`, `plugins/libs/` | `CpuUsage` |
| disk plugin | devices already seen | sum over the mounts | `plugins/mod_disk/` | `DiskSpace` |
| cJSON | items linked to trees | build, change, copy, delete, parse, print, compare | `core/cJSON.c` | `JsonTree`, `CJsonTree`, `CJsonParse`, `CJsonPrint`, `CJsonMinify`, `CJsonRoundTrip`, `CJsonCompare` |
| cJSON_Utils | | pointers, patches, merge patches | `core/cJSON_Utils.c` | `CJsonPointer`, `CJsonUtils` |
| memory, temperature and sysinfo plugins, dmidecode | | read files and tables | `plugins/` | no |

How they interact:

- A client writes a `plugin_cmd_t` into a pipe. The *plugin thread* reads it
  and calls `plugin_parser`, which opens or closes the shared object and, by
  two callbacks, makes or deletes the watcher's *unit* for the plugin.
- The *traversal thread* walks the units once a second, turns their rings, and
  pushes an action for every due item on the unit's fifo. The *update thread*
  of the unit pops actions and runs the plugin's collect functions.
- The *collector thread* walks the units once a second and prints the item
  values (with cJSON), which the two response threads send to whoever connects.
- A signal, or a fault in a plugin, makes some thread run `cleanup()` in its
  handler, while all others go on.
- All of them log. A logging thread writes the messages.

What is hard: units and libraries disappear under four kinds of threads; the
locks are a rwlock that is held while a thread is joined, a mutex per unit, and
a mutex per fifo; the update threads touch units with no lock at all; loads
fail half way and leave flags behind; a pipe and a condition variable lose
things when they are used at the wrong time; the shutdown deletes without
locks; the JSON lists keep a link from their first item to their last that
every call has to maintain, with allocations that fail in between.
`PROJECT.json` lists the hazards with their lines and the properties that cover
them.

What makes each part correct:

- *Time ring*: items run on their schedule, whatever the other items do.
- *Units and threads*: nobody uses a unit or a library that is gone; actions
  are run; unloading ends; one bad plugin does not stop the others.
- *Plugin manager*: the registry, the watcher's units and the open libraries
  agree after any commands, failing ones included.
- *Command pipe*: what is executed is what one client sent, all of it, once.
- *Logger*: messages are written in order, none is lost, the exit ends.
- *Collector*: an answer is one round's data, not a mixture.
- *Shutdown*: it ends, after every thread that uses what it frees, and leaves
  nothing open.
- *cpu, disk*: what is shown is that of the time since the last run; every
  device counts once.
- *cJSON*: every call changes one list in one place and owns what it should;
  the parser takes JSON and nothing else, within its buffer; what is printed is
  parsed to the same; generated patches lead where they should.

## 2. Modules

| Module | Role |
|---|---|
| `TimeRing` | operators on items: rings and runs |
| `Schedule` (extends `TimeRing`) | one unit over time, with the history of pushes |
| `UnitLife` | abstract specification: the life of units and what protects it |
| `Metric` (extends `TimeRing`, refines `UnitLife`) | units, locks and threads |
| `PluginMgr` | registry, commands, failing loads, open libraries |
| `CommandPipe` | clients and the loop of the plugin thread |
| `Logger` | clients, logging thread, exit |
| `Shutdown` | signal handlers and `cleanup()` against all other threads |
| `JsonTree` | abstract specification: ordered trees and who owns them |
| `CJsonTree` (refines `JsonTree`) | the linked items of cJSON, and every call that changes them |
| `JsonItem` | JSON items as values, and bytes |
| `CJsonParse` (extends `JsonItem`) | the parser, one function or one turn of a loop a step |
| `CJsonPrint` (extends `JsonItem`) | the printers, into a fixed and into a growing buffer |
| `CJsonMinify` (extends `JsonItem`) | the minifier |
| `JsonValue` (extends `JsonItem`) | keys, members, the items of one set of trees and what they say |
| `CJsonRoundTrip` (extends `CJsonParse`, `CJsonPrint`, `CJsonMinify`, `JsonValue`) | an item is printed, and its text parsed or minified |
| `CJsonCompare` (extends `JsonValue`) | the comparison |
| `CJsonPointer` (extends `JsonValue`) | pointers, as they are made and as they are followed |
| `CJsonUtils` (extends `CJsonPointer`) | patches, merge patches, sorting |
| `CpuUsage`, `DiskSpace` | two plugins, run after run |
| `Calls` (extends all of these from `CJsonParse` on) | calls of cJSON on one of many inputs, with reference definitions, or the runs of a plugin |
| `MC*` | values for the constants, symmetry |
| `*_proofs` | theorems and their proofs |

In the modules, an operator marked `Mutant` is a plausible bug in the
definition that follows it. It is used in no specification; the mutants in
`PROJECT.json` put it in that definition's place to see that a property fails.

### TimeRing, Schedule

An item is a record of the three fields the scheduler looks at. `MoveForward`
and `Trigger` are `_time_ring_move_forward`; `Due` and `AfterRun` are the body
of the loop in `do_run_sub_metric`, in its order: the run of a run-once item is
counted before the ring is looked at. `Schedule` calls them once per tick for
one unit and counts the pushes of each item. It takes a call as one step, since
`_run_sub_metric` runs under `unit_lock` and no other thread reads the rings.

### Metric, UnitLife

One action per step that another thread can tell from the next. `MakeUnit` and
`AddMetric` are `_add_metric` before and under the write lock; `UnloadPlugin`,
`DelMetric`, `StopUnit`, `FreeUnit` and `ReleasePlugin` are `plugin_unload`
with `_del_metric`, cut where it waits for a lock or joins a thread. The pass
of the traversal thread is cut at each unit and each item, that of the
collector at the beginning and end of each unit. `TestRunning`, `PopAction` and
`EndUpdate` are the loop of `update_thread`, which takes none of the locks.

The memory of a unit and of a plugin are variables (`unit`, `plugin`), so that
a use after free is a state: a thread that holds a key whose memory is freed.
A thread may hold a key from the walk of the list (`trav.todo`, `coll.todo`) as
well as the unit it is at. `plugin_lock` prefers readers, as the default
pthread rwlock does. A plugin id is a `Key`, and a key is used once:
that ids are never used twice is what `PluginMgr` shows (`IdsAreNew`).

`UnitLife` states the promise in a page: a unit is entered only while listed,
unlisted only while nobody is in it, freed and closed only after the last
collect function has returned. `ImplementsUnitLife` maps the memory and the
list to its phase, the units the readers are at to its readers.

### PluginMgr

`Load` and `Unload` are functions from registry to registry, because one
command may do both and ignores the outcome in between; the actions are the
cases of `plugin_parser`. A load ends at one of four stages, and the flags it
leaves are those of the code, which clears them never. A `Node` is the memory
of a `plugin_t`; what nobody points to any more stays taken. The reference
counts of `dlopen` and the static variables of a mapped file are there because
a failed reload leaves a library open. `Collect` is a collect function written
as the plugin guide says, with a static `init_flag`. `given` is a history
variable: the ids of all units that were ever made, in their order, so that
`IdsAreNew` can say of a new unit that none before had its id, one that is
unloaded or reloaded in the same command included.

A load or reload of a name that is there loads the file and arguments of the
old node; those of the command are ignored. A command is one step: the plugin
thread alone changes the registry. What the other threads do during a command
is the subject of `Metric`.

### CommandPipe

A command of 9224 bytes is a head and some words of four bytes. `Write` puts in
all that fits: Linux does not interrupt a write that finds room, although it is
longer than `PIPE_BUF`, but splits one that does not. `ReadHead`, `ReadBody`
and `Parse` are the loop of `plugin_run`. `mixed` is a history variable: some
command was split since the pipe and the plugin thread were last at rest.

### Logger

`PutMsg` and `Signal` are the two halves of `_print_msg`. The logging thread
walks the list without the lock and looks for the next message before it takes
the one at hand out; `last` is what it saw. A signal counts only while the
thread waits. `Close` to `Clear` are `exit_logger`.

### Shutdown

The handlers run where the kernel lets them: on the main thread for a signal
from outside, on any thread for a second one of the same kind (the first is
blocked on the main thread), on the update thread or the plugin thread for a
fault in the code of a plugin. The first to take `clean_mutex` (`by`) cleans
up; the others wait for it for ever, and so does the main thread for itself if
a second, different signal interrupts it (`stuck`).

`plugin_unload` and `_do_del_metric` are written once for two actors, the
plugin thread and `cleanup`, whose `job` says where they stand: `DelMetric`,
`StopUnit`, `FreeUnit`, `ReleasePlugin`. `CleanUnits` and `CleanNodes` are the
rounds of `delete_all_metric`, without any lock, and of `plugin_mgr_des`, both
with the next entry looked up beforehand, as `list_for_each_safe` does. The
lists are sequences; a reader that stands at a unit that is unlinked finds a
null pointer and ends in its own handler (`Stray`), one that stands at a freed
one may find anything. `late` is a history variable: the plugins the plugin
thread worked on since `cleanup` began. It runs on, since the test that guards
its cancellation is the wrong way round.

### JsonTree, CJsonTree

`CJsonTree` has the memory of each item with its links, its key and its two
flags (`cJSON_IsReference`, `cJSON_StringIsConst`). An operator of the name of
the function maps a heap to a heap; the actions are the calls of `cJSON.h`,
each with an allocation that may fail at each place, and the bounds `MaxHeld`,
`MaxReferences` and `MaxConstant` in `Bounded`. The caller keeps to the
header's rules. One call may end the program (`running`): `CreateNumbers`
stands for the four functions that make an array of numbers or strings, and
all of them end with `a->child->prev = n`, whether or not there is an array `a`
and a number in it. Without memory for the array, or with a count of 0, that
follows a null pointer. What such a program leaves behind is not looked at.

`JsonTree` says what a caller may rely on: a call makes a new
tree, inserts, replaces or takes out one item at one place of one sequence, or
frees a whole tree; `Stop` is the exception, the program ends. So
`ImplementsJsonTree` says that every call that returns keeps the promise, and
not that every call returns. It reads the sequences off the links.

### CJsonParse, CJsonPrint

The recursion of the parser and of the printers is unfolded into a stack, so
that no operator calls itself and a state says where the program is.

A step of `CJsonParse` is what a function does up to the next call of
`parse_value` or `parse_string`, or one turn of one of the two loops of
`parse_string`. `parsing` says where the parser is: at a value (`value`), at the
opening quote (`string`), in the loop that looks for the closing one and counts
(`measure`), in the one that writes (`unescape`), behind what has been parsed
(`parsed`), or returned (`done`). `nest` holds the calls of `parse_array` and
`parse_object` with their items so far and the key that waits for its value;
`str` holds the locals of `parse_string`, with `room` for what it allocates. A
failure ends everything at once, as every caller passes it on. Numbers are
integers.

`CJsonPrint` prints an item into two buffers side by side: that of
`cJSON_PrintPreallocated`, which stays as it is, and that of the other printers,
which grows. A step is one call of `ensure` and what is written behind it
(`Piece`): how many bytes were asked for, what the text is, and how many bytes
were written with the terminator. `top` counts the bytes of the buffer that
have been written; `whole` is a history of what would be printed if there were
always room.

### CJsonRoundTrip

One item is printed without formatting, then with it, and the text may be
parsed again after either; `trip` holds the item and the first of its texts.
The steps in between are those of `CJsonPrint` and `CJsonParse`.

### JsonItem, JsonValue, CJsonMinify, CJsonCompare, CJsonPointer, CJsonUtils

The other functions that compute are operators on values: an item is a record,
its members a sequence, a string the sequence of its bytes. `end` in an item
keeps where the next member would be linked, since sorting leaves that link
stale.

What is proved of items is said of a set of them, `Trees`, that contains what
its items contain; `Height` is how deep each of them is, so that none contains
itself. A function that calls itself on the items inside is a recursive
function on `Trees`, or on pairs of them: `CompareWith` is one call of
`cJSON_Compare`, given what the calls inside it return, and `Compare` the
function that this defines. A loop is a recursive function on the numbers of
its turns: `FollowToken` is one turn of `get_item_from_pointer`, `MatchByte`
one of `compare_pointers`; or on the offsets in a text: `MinifyAt` is one turn
of `cJSON_Minify`, `MinifyString` one of `minify_string`, given what is made of
the rest. `CJsonCompare` and `CJsonPointer` have a variable each for a call and
what it returned, which is what their properties look at.

### CpuUsage, DiskSpace

`CpuUsage` has the file buffer with the time it was read, and for each of the
four usage functions and each core the totals of its own last call. `CpuEntry`
is the plugin's entry, `CpuDataCollect` one run, which may find any content, or
none, at any time; the history `news` keeps what has been read. `DiskSpace` has
the lines of `/proc/mounts`, the table of devices seen and the totals. A run is
`DiskDataCollect`, a step of `FindDiskSpace` for each line, and `Found`, with
the cleaning of the table.

### Calls

A behaviour of `Calls` is a call of the parser; or an item printed without
formatting, then with it, then parsed again; or a comparison; or a pointer made
and followed; or patches; or the runs of one of the two plugins. They share nothing, and each is taken alone. The
invariants compare the result with reference definitions written from scratch
(the grammar of JSON, the meaning of an item as a set, RFC 6902 on such
meanings), and look at every step of the parser and the printers. Those of the
plugins say what is published in terms of the gains of the counters and of the
first mount of each device.

## 3. Runs

Each passing run exhausts its instance. `UnitLife` and `JsonTree` have no run
of their own: `metric` and `json_tree` check every step of `Metric` and
`CJsonTree` against them.

| Run | Bounds | Shows |
|---|---|---|
| `schedule` | 3 items, intervals 0..4, 13 ticks | Periodic items are pushed exactly `ticks \div Period` times; a run-once item is pushed once if no other item of the unit arrives earlier, otherwise never |
| `metric` | 2 plugins of 2 items, fifos of 3 | `NoUseAfterFree`, `NoUseAfterClose`, `UnitLockNeverBlocks`, refinement of `UnitLife` |
| `metric_live` | 2 plugins of 1 item, fifos of 2, one collect function may hang | Actions are run, listed items are updated for ever, an unload ends; a hanging plugin stops nobody until it is unloaded |
| `plugin_mgr` | 2 files of one name and 1 other, 3 nodes, 4 ids | Registry, units, flags and libraries agree; no two units ever have one id; items stay undescribed only if a lost node holds their library |
| `command_pipe` | 4 commands of 3 words, pipe of 7 words | Unsplit commands are executed as sent, all of them; a full pipe does no lasting damage |
| `logger` | 2 clients, 4 messages | Order, nothing skipped by a walk, the exit ends |
| `shutdown` | 2 plugins, 2 handlers | Threads are joined before their unit is freed and their library closed, nothing is left open, the shutdown ends |
| `json_tree` | 4 items, 1 key, 1 reference, 1 constant key, 2 items in hand | Lists are linked both ways, nothing is owned twice, indices mean what they say, refinement of `JsonTree`, with the null pointer of the array builders as its exception |
| `calls` | 5 to 9 symbols, texts of up to 8, values and documents of depth 2 or 3, 2 cores in 3 runs, 3 mounts | The algorithms against their reference definitions |

Why the bounds are enough:

- *Schedule*: 13 ticks pass the least common multiple of 2, 3 and 4, so every
  relative position of the rings occurs. Three items allow two that arrive
  before, with or after a third.
- *Metric*: `MaxPending` bounds a fifo. A pass begins only when it cannot
  overflow a fifo (`HasRoom`), except for the fifo of a hanging collect
  function: there an action is dropped where the code would let the list grow.
  Two units let a walk stand at one while the other is deleted. Each key is
  loaded and unloaded once; a load after an unload is the other key.
- *PluginMgr*: `MaxId` stops loads after four ids: a load, a failed reload,
  another load and one more plugin fit. With three nodes, two can be lost and
  one used.
- *CommandPipe*: two commands fit, the third is split at one of its words
  (which depends on the reader) and the fourth goes between the halves or
  comes after the pipe is at rest.
- *Logger*: two threads can append at each position of the walk and signal at
  each position of the loop.
- *Shutdown*: with two plugins, the plugin thread can work on one that
  `cleanup` is at, comes to next, or has passed; a reader can stand at one
  while the other is unlinked. A second handler is enough for every wait.
- *CJsonTree*: three members in one list have a first, a middle and a last;
  the fourth item is their container, or a second list's. One key, written in
  one way, makes every lookup by key find or miss; case is the subject of
  `calls`. One reference or constant key of each kind at a time.
- *Calls*: the texts begin in the middle of an object or an array, so that
  four free bytes reach every state of the parser, at both sides of a nesting
  limit of 2. The codes are those around each change of length and each
  surrogate. The buffers end within, at and behind the texts; `IntMax` (2^31 - 1 in
  the code) is 40, so that a buffer grows twice and then meets it. Documents differ
  in members added, removed, changed, in their order and one level down
  (`Trees` has what is in them as well, and `Height` is counted). The
  counters go on, stand still, or go back, since any of 11 contents may follow
  any other, and `JiffiesRange` (2^64 in the code) is above all of them.
  `MaxRuns` bounds the runs: the third is the first with a run before it that
  published. The four values of the clock let it stand still or be set back.
  `MaxMounts` bounds the lines: three allow a device twice with another one, and
  the table of devices starts each run as the last one left it.

`CHECK_DEADLOCK FALSE` stands where all may really stop: the ticks are used up,
all clients have sent their command, the logger has been left, the program has
ended, the one call has been made, no memory for an item is left and the caller
stops calling, or a call has followed a null pointer. `Metric` and `PluginMgr` are checked for deadlock.

The type invariants of `Schedule`, `Metric`, `PluginMgr`, `CommandPipe`,
`Logger`, `Shutdown`, `CJsonParse`, `CJsonPrint`, `CpuUsage` and `DiskSpace` are
theorems and in no run.

### Disagreements with documents and comments

Runs that are expected to violate their property:

| Run | Statement | What the code does |
|---|---|---|
| `schedule_run_once` | The guide: a run-once item is executed once | An earlier trigger by another item of the unit uses up its run (`metric.c:51`) |
| `logger_exit` | A comment: at exit all messages have been written | A message whose signal was lost is thrown away (`log.c:51`) |
| `cpu_interrupts` | A comment: interrupts are counted in the system's share | `num_cpustates` is a static variable of a header, and the copy that `cpu_data.c` tests is never set (`cpu_data.h:6`) |

Other behaviour met while modelling, which the properties take as it is and
name in their premises or comments:

- Unloading a plugin whose collect function hangs stops the whole program: the
  join is under the write lock (`metric.c:100`, `362`; premise of
  `PeriodicItemsAreUpdated`).
- After a reload that failed the file stays mapped, and a later load finds
  `init_flag` set and describes no items (`plugin_mgr.c:262`;
  `UndescribedIsLost`).
- Once the pipe was full, the body of a command is a part, or somebody else's
  (`plugin_server.c:261`; premise of `UnmixedIsIntact`).
- A thread that reads the list during `cleanup` may end in a second handler
  with the read lock in hand, and `cleanup` then waits for ever
  (`cleanup.c:37`; premise of `ShutdownEnds`).
- `cJSON_CreateIntArray`, `cJSON_CreateFloatArray`, `cJSON_CreateDoubleArray`
  and `cJSON_CreateStringArray` follow a null pointer if there is no memory for
  the array, or if the count is 0, for which `include/cJSON.h:214` promises an
  array of no items (`cJSON.c:2565`, `2602`, `2639`, `2676`; the second case of
  `CreateNumbers`, `Stop` of `JsonTree`).
- `cJSON_AddItemReferenceToObject` loses the reference if the copy of its key
  fails (`cJSON.c:2070`; `OneOwner`), and `cJSON_ReplaceItemInObject` leaves an
  item without a key in an object if its copy fails.
- `cJSON_Minify` takes the quote after an escaped backslash for escaped
  (premise of `PrintedIsParsed`).
- `cJSONUtils_ApplyPatches`: a `test` sorts what it compares and leaves the
  first member's link stale, so that a later `add` to that object loses members
  (premise of `PatchesAct`). A `move` or a `copy` to the root, which RFC 6902 has
  replace the document, is refused with status 9 (`cJSON_Utils.c:973`), although
  `include/cJSON_Utils.h:37` claims the RFC; and a `move` that fails has lost
  what it was to move (`cJSON_Utils.c:918`). `PatchesAct` states both as they
  are. That a `move` may not lead into what it moves is not tested for: in an
  array the next item, which has moved up, is taken for it, and `PatchesAct`
  expects this, a removal and then an addition. Keys with `/` or `~` are
  decoded wrongly in place (`Ordinary`).
- A device whose first mount does not answer is not counted at its other
  mounts (`libdisk.c:93`; `DevicesCountOnce`).

## 4. Fairness

- *Metric*: the threads are ordinary pthreads, so each step that stays enabled
  is taken (`WF`). The write lock is contended by two readers that come back,
  so `AddMetric` and `DelMetric` get `SF`; that alone would not do, because two
  readers may overlap for ever, so `UnloadCompletes` has the premise that there
  are moments without a reader: both readers sleep a second between passes. The
  code guarantees neither; a rwlock that prefers readers may starve a writer.
  No fairness for `EndUpdate` of a plugin in `Stuck`, nor for loads and unloads.
- *CommandPipe*: the plugin thread comes back from `plugin_parser` (which is
  `UnloadCompletes`); clients that wait for room are woken in turn (`SF`).
  Nobody has to send a command.
- *Logger*: the logging thread and the thread in `exit_logger` go on. A wait
  ends by its timeout at the latest. Nobody has to log or to leave.
- *Shutdown*: readers, update threads and `cleanup` go on; collect functions
  return; the steps of `cleanup` that wait for a lock get `SF`, with the same
  premise on readers as above. Nobody has to send a signal, to crash or to
  give a command.

## 5. Proofs

The theorems hold for all values of the constants that satisfy the `ASSUME`s
of the modules. Each rests on an inductive invariant `IInv`, with
`Init => IInv` and `IInv /\ [Next]_vars => IInv'`.

- `Schedule_proofs`: `TypeCorrect`, `PeriodicCorrect`, `RunOnceCorrect`. The
  counts alone are not inductive; the invariant adds where each ring stands:
  `pushed * Period + steps since the last reset = ticks`, and, for run-once
  items, that all depends on whether the unit has been triggered yet.
- `Metric_proofs`: `TypeCorrect`, `UnitsAreSafe`, `PluginsAreSafe`,
  `UnitLocksAreFree`, `Refinement`, `LifeIsSafe`, `ThreadsAreSafe`. The invariant says who holds which lock
  as a function of where the threads stand, that what a reader has in hand is
  listed, where the plugin thread stands in the life of its plugin, and that
  memory and update threads go with these. Without the lock parts, nothing
  keeps a reader out of `StopUnit`. `Refinement` shows that each action is one
  step of `UnitLife` or a stutter. `Safe` of `UnitLife`, with its types, is
  inductive there (`LifeIsSafe`), so that it holds of the threads.
- `PluginMgr_proofs`: `TypeCorrect`, `RegistryCorrect`, `NewIds`,
  `NamesAreUnique`, `FlagsCorrect`, `HandlesCorrect`, `DescribedCorrect`. The
  invariant is stated of any registry, so that a reload can be proved as an
  unload and then a load. Its core: stale flags are harmless because a node
  that leaves the list is freed or loaded again at once, or can no longer be
  found. For `NewIds` it says that all ids in the history `given` are below the
  next one (`IdsGood`), which each load that succeeds uses up. For `DescribedCorrect` it adds that a file with `init_flag` set whose
  items are not described is held open by a node that no list has.
- `CommandPipe_proofs`: `TypeCorrect`, `UnmixedCorrect`, `OnceCorrect`, for any
  pipe and any length of a command. On an unmixed pipe every head is followed
  by its whole body, and that by a head or the end; appending a command and
  taking words from the front keep this (`WholeAppend`, `WholeShift`). A head
  is in one place only: with its client, in the pipe, in the buffer of the
  plugin thread, or parsed.
- `Schedule_proofs` also has those of the logger, `LogTypeCorrect` and
  `OrderCorrect`: what is written and what waits is what was appended. It needs that nobody but the logging thread takes
  messages out until that thread has ended.
- `Shutdown_proofs`: `TypeCorrect`, `JoinedCorrect`, `LeftCorrect`. For the
  first two, the invariant follows a plugin that leaves the list: it is joined,
  or in the hands of `cleanup`, or among those of the plugin thread
  (`GoneJoined`); and a thread that is about to release a plugin has found it
  joined (`JoinedIfReleased`). For the last, `ToCome` is what a walk with
  `list_for_each_safe` still comes to, from the entry it has looked up: all
  that lives or is mapped and undisturbed is to come. The lemmas say that a
  deletion takes nothing else out of it, that new entries at either end do no
  harm, and that a walk whose next entry is deleted never gets to an end.
  The assumption on `Key` is that an update thread is no other thread.
- `CJsonTree_proofs`: `SoundAlways`, `Refinement`,
  `ListsStayLinked`, `ItemsHaveOneOwner`, `IndexStaysMeant`, `CopiesAreEqual`,
  for any finite memory, any keys, and whatever allocations fail; a call that
  follows a null pointer (`CreateNumbersSound`) ends the program and is `Stop`
  of `JsonTree`, every other call is a `Change` of it. None of the
  four invariants of the run is inductive: that a list is linked says nothing
  of a list that a reference shows, and that each item has one owner does not
  keep a call from closing a circle. The inductive invariant `Sound` says it of
  the memory as a whole. There is a function `k` from items to sequences such
  that `next`, `prev` and `child` are what these sequences make them
  (`Shape`: `Forward`, `Backward`, `Unshared`, `Loose`, `Names`); all that is
  allocated is below what the caller holds, nothing that the caller holds is in
  a list, and only references are lost (`Rooted`); and what a reference shows
  is the head of a list that is there (`Shows`). The argument goes from the
  bottom up:
  - `Kids` and `Reached` are recursive; `Induction` and `Recursion` are proved
    once for sets and functions, and give what a walk along `next` finds and
    that a walk meets the least closed set.
  - The functions on lists (`AddItemToArray`, `DetachItemViaPointer`,
    `InsertItemInArray`, `ReplaceItemViaPointer`, `Free`) are edits of one
    sequence: `AddedShape`, `DetachedShape`, `InsertedShape`, `ReplacedShape`,
    `FreedShape`, all from `Relist`.
  - An edit moves a tree between the caller and a list: `Added`, `Taken`, `Cut`
    and `Swapped` say what can be reached afterwards, `SoundAdded` to
    `SoundReplaced` that `Sound` is kept. The caller's rules (`MayContain`,
    `MayChange`, `MayFree`) are used here and nowhere else: without the first
    a container could come below itself, without the others a reference could
    show what is gone.
  - `GrownSound` and `ChainGrows` do the same for trees that are built before
    the caller gets them: `CreateNumbers`, `Duplicate`. The loop of a copy has
    the invariant `Part`: what has been copied is a tree of its own, and its
    items are paired with those that they are copies of. `CopiesAreEqual`
    follows from that pairing.
  - Each call is one step of `JsonTree` or none: the `Abstract...` lemmas.
- `Calls_proofs`, the parser: `ParseTypeCorrect`, `ReadsCorrect`, for any text
  without a byte 0 and any limit of nesting (a number is read up to its last
  digit: what `strtod` makes of fractions and exponents is not in the model).
  `ReadsStayInside` is not inductive: that a string fits while it is written
  depends on what the first loop has counted. `ParseInv` has the invariant of
  that loop (`MeasureInv`: the end found so far is inside, and there is a
  function `k` that gives the escapes counted before each offset) and that of
  the second one (`UnescapeInv`: the bytes written, and the escapes counted so
  far, are no more than the bytes read). The two loops need not agree on where
  an escape begins, since the second passes over the four bytes after `u`
  whatever they are; so `SkipCounts` says only what holds wherever one begins:
  two bytes have one escape at the most, and a byte that is no backslash has
  none. `CountsFar` takes this to six and twelve bytes, `SequencesType` says how
  many bytes a sequence of each length writes (three and four at the most), and
  `StillFits` puts the two together.
- `Calls_proofs`, the printers: `PrintTypeCorrect`, `PreallocatedCorrect`, for
  any items, any sizes and any `INT_MAX`. `PrintInv` says of each buffer what
  `Ensure` keeps (`BufferInv`: while nothing has failed its text is `whole` and
  its end fits; once something has, there were less than two bytes more than
  `whole` needs), and of the stack that the rest of each call is made of
  printable items. `Snug` is what the pieces have in common: they ask for what
  they write, or for one byte more. For strings that is `EscapedLength`: the two
  loops of `print_string_ptr` count alike.
- `Calls_proofs`, the plugins: `CpuTypeCorrect`, `SharesCorrect`,
  `DiskTypeCorrect`, `DevicesCorrect`, for any number of cores, lines and runs.
  The assumption is that the file has a fixed number of lines and that no total of the counters
  reaches 2^64. `CpuInv` says that all four functions remember the counters of
  the file that is in the buffer, of the same read (`LastIsCurrent`), and that
  the buffer is the last of `news` (`ReadsAreNews`): without it, the shares
  could be of different periods. `UsageIs` is the arithmetic of one share,
  `SumOfShares` that of their sum. `DiskInv` is the loop's: the totals are the
  sums over the lines passed, and the table holds their devices. A sum is a
  recursive function, whose equations follow from `Recursion`.
- `Calls_proofs`, the comparison: `CompareCorrect`, for any items. The
  assumption, `TreeAssumption`, is that items are what the library makes: they
  hold what their type says and nothing else, and nothing contains itself.
  `TreeInduction` and `Descent` are induction and recursion on the height:
  they are proved for sets and for functions that only look inside
  (`KidsInside`), once each, from `LeastNatural`. `SameString` says that
  `strcmp` finds strings equal exactly if they are, and that the comparison
  without case is an equivalence; `ObjectItemIs` what a lookup finds.
  `CompareIsSymmetric` is one induction on items. In `CompareMeaning`, another,
  two objects say the same if each has the members of the other: since keys
  differ, a member that is found is the only one of its name, and the sets of
  members agree.
- `Calls_proofs`, the pointers: `PointerCorrect`, for any items with at most
  10^9 members in each (an index has at most ten digits in the model, so that
  `Decimal` is exact) and for any place in them. Three parts: a token
  says one place (`TokenFinds`): what `encode_string_as_pointer` writes is
  matched by its key (`MatchesIs`, from one turn to the next by
  `MatchByteIs`) and by no other, and what `sprintf` writes is decoded to the same
  number (`DecodeDecimal`, by `Horner`'s rule from the last digit to the first).
  A token holds no slash, so that it ends where the next one begins
  (`TokenIs`). Then the walk: from the text behind the first n tokens,
  which leads from the item n steps down, a turn goes to the next
  (`TokenLeads`, `PointerLeads`), and at the end all further turns stutter.
- `CJsonRoundTrip_proofs`: `RoundTripCorrect`, for any items, any sizes, any
  `INT_MAX` and any limit of nesting. (Its first lemmas, on texts and printing,
  are at the end of `Calls_proofs`.) The assumption, `ItemAssumption`, is that
  items are as the parser makes them, with numbers that fit in an `int`. The
  printers and the parser are stacks that step through an item, so what has to
  be said is where they are in it. `Doc` is the text of an item before a given
  rest, by recursion on its height; a way (`OnItsWay`) is the path from the item
  to the one at hand, with what comes behind each call. `Prints` says that what
  has been printed, and what the way says is still to come, are the text of the
  item; `Parses` that the parser has before it what the way says, and in `nest`
  the items that the way has passed. Each step of either keeps it: from one
  place on the way to the next. A number is read back as it was printed
  (`Decimal` and the digits of `ParseNumber`), and so is a string: `Marks` says
  where in the text each of its bytes begins, and both loops of `parse_string`
  go from mark to mark. Depth is counted along the way (`Fits`), so that a
  failure is always one of nesting. For `cJSON_Minify`, `Drops` says that it
  makes of what is formatted what is not, in front of anything; this holds of
  each piece and goes up by induction on the item (`MinifyIs`). In a string
  that does not end in a backslash no escape hides the closing quote
  (`NoEscapeLast`).

Only model-checked:

- Everything with `~>` or `[]<>` (`ActionsAreRun`, `PeriodicItemsAreUpdated`,
  `UnloadCompletes`, `UnmixedIsParsed`, `MixedEnds`, `WalkWritesAll`,
  `ExitCompletes`, `ShutdownEnds`): liveness under fairness and `ENABLED` are
  beyond the prover.
- Of `calls`, `RecognisesJson`, `PatchMovesFromTo`, `PatchesAct`. Their
  reference definitions (a grammar, the patches of RFC 6902), and the patches
  of `CJsonUtils`, call themselves on items and texts that are made on the way
  and belong to no set given beforehand, so they are RECURSIVE operators, which
  the prover cannot reason about. That the parser and the printers stay in their
  memory, that the parser takes all that the printers print, and what the
  patches use to find and to compare items, is proved.

## 6. Not modelled

- Failing `malloc` outside cJSON, failing `pthread_create` and `mkfifo`.
- The item values, and so the data races of collect functions with
  `metric_info`, values printed before the first update, and the buffers of the
  collector, which the response threads read while they are written: every
  value is possible there, so there is nothing to hold the code to.
- `Logger`: messages below the asked level (the program asks for the highest),
  and clients that log after `exit_logger` has destroyed the mutexes.
- `CommandPipe`: argument checks of the client. A client sends one command and
  ends, as the program does.
- `PluginMgr`: `find_param`, the parsing of the path, libraries without the
  expected symbols.
- `Shutdown`: `daemon()`, the file of the process id; the logger, rings and
  fifos, which other modules have.
- cJSON: fractions and exponents, raw items, `cJSON_InitHooks`, allocations
  that fail within the printers or the patches (statuses 6 and 8).
- cpu plugin: model name, frequency, the averages over the cores, and that the
  run-once item reads `/proc/stat` as well (`libcpu.c:64`), before the first run
  that publishes a usage. Disk plugin:
  the fullest partition, which is computed and not published.
- Memory, temperature and sysinfo plugin: each copies or subtracts what it has
  read and keeps no state. dmidecode: third-party tables and their printing.
- Build files, scripts.

## 7. What could come next

1. `Fifo`: the linked list of `fifo.c` and `list.h`, with `exit_flag` and
   `del_fifo`, shown to implement the sequence that `Metric` uses.
2. A composition of `PluginMgr` and `Metric` in which the ids of one are the
   keys of the other.
3. `find_param` and the plugin name from a path, against reference definitions.
4. Fractions and exponents in the parser, with what `strtod` takes of a text.
