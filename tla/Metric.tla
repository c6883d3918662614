------------------------------- MODULE Metric -------------------------------
(***************************************************************************)
(* The metric units of the watcher and the threads that work on them       *)
(* (core/metric.c, core/fifo.c and their callers in core/plugin_mgr.c):    *)
(*                                                                         *)
(*   plugin     loads and unloads plugins; adds and deletes their units    *)
(*   traversal  moves every unit's time ring once per RING_STEP            *)
(*   collector  prints every unit once a second                            *)
(*   update     one thread per unit, runs the plugin's collect functions   *)
(*                                                                         *)
(* A unit is named by its plugin's id.  Ids are never used twice, so a     *)
(* plugin that is loaded again is another key.  A unit's memory stands for *)
(* the struct metric_unit and all that is freed with it: the items, the    *)
(* thread_info and the fifo.  A plugin's memory stands for what            *)
(* plugin_unload gives back after it: the sub_channel array with the item  *)
(* values, and the shared object with the code of the collect functions.   *)
(*                                                                         *)
(* metrics_head is a set here: its order decides only in which order the   *)
(* units are visited, and the model visits them in any order.              *)
(***************************************************************************)
EXTENDS TimeRing, Sequences

CONSTANTS Key,         \* the plugin ids of a run
          NoKey,       \* none of them
          Channel,     \* what the plugins of a run ask for
          Stuck,       \* the plugins with a collect function that may hang
          MaxPending   \* bound on the actions waiting in one fifo

ASSUME NoKeyAssumption == NoKey \notin Key
ASSUME ChannelAssumption == Channel \subseteq [Item -> SubChannel]
ASSUME StuckAssumption == Stuck \subseteq Key
ASSUME MaxPendingAssumption == MaxPending \in Nat

VARIABLES
  metrics,         \* the units in metrics_head
  unit,            \* the memory of a unit
  plugin,          \* the memory of a plugin
  exiting,         \* unit->exiting
  sub,             \* the unit's items, while the unit is live
  fifo,            \* ti->action_fifo, oldest action first
  thread_running,  \* ti->thread_running
  plugin_lock,     \* the watcher's rwlock: its writer and its readers
  unit_lock,       \* unit->unit_lock: its owner
  upd,             \* the update threads: control state and current action
  plug,            \* the plugin thread: control state and current plugin
  trav,            \* the traversal thread: control state, units still to
                   \* visit, current unit, next item of it
  coll             \* the collector thread: control state, units still to
                   \* visit, current unit

unitVars  == <<metrics, unit, plugin, exiting>>
ringVars  == <<sub, fifo>>
lockVars  == <<plugin_lock, unit_lock>>
vars == <<metrics, unit, plugin, exiting, sub, fifo, thread_running,
          plugin_lock, unit_lock, upd, plug, trav, coll>>

Reader == {"traversal", "collector"}
Thread == Reader \union {"plugin"}
Nobody == "nobody"
NoItem == 0

\* The states of an update thread: executing a collect function, or not.
Running(i) == [pc |-> "run", item |-> i]
At(place)  == [pc |-> place, item |-> NoItem]

TypeOK ==
  /\ metrics \subseteq Key
  /\ unit \in [Key -> {"none", "live", "freed"}]
  /\ plugin \in [Key -> {"none", "mapped", "unmapped"}]
  /\ exiting \in [Key -> BOOLEAN]
  /\ sub \in [Key -> [Item -> SubUnit] \union {<< >>}]
  /\ \A k \in Key : unit[k] = "live" => sub[k] \in [Item -> SubUnit]
  /\ fifo \in [Key -> Seq(Item)]
  /\ thread_running \in [Key -> BOOLEAN]
  /\ plugin_lock \in [writer : {"plugin", Nobody}, readers : SUBSET Reader]
  /\ unit_lock \in [Key -> Thread \union {Nobody}]
  /\ upd \in [Key -> [pc   : {"none", "test", "pop", "run", "done"},
                      item : Item \union {NoItem}]]
  /\ plug \in [pc  : {"idle", "link", "del", "stop", "join", "release"},
               key : Key \union {NoKey}]
  /\ trav \in [pc   : {"asleep", "list", "items"},
               todo : SUBSET Key,
               key  : Key \union {NoKey},
               item : Item \union {NumItem + 1}]
  /\ coll \in [pc   : {"asleep", "list", "print"},
               todo : SUBSET Key,
               key  : Key \union {NoKey}]

Init ==
  /\ metrics = {}
  /\ unit = [k \in Key |-> "none"]
  /\ plugin = [k \in Key |-> "none"]
  /\ exiting = [k \in Key |-> FALSE]
  /\ sub = [k \in Key |-> << >>]
  /\ fifo = [k \in Key |-> << >>]
  /\ thread_running = [k \in Key |-> FALSE]
  /\ plugin_lock = [writer |-> Nobody, readers |-> {}]
  /\ unit_lock = [k \in Key |-> Nobody]
  /\ upd = [k \in Key |-> At("none")]
  /\ plug = [pc |-> "idle", key |-> NoKey]
  /\ trav = [pc |-> "asleep", todo |-> {}, key |-> NoKey, item |-> 1]
  /\ coll = [pc |-> "asleep", todo |-> {}, key |-> NoKey]

-----------------------------------------------------------------------------
(***************************************************************************)
(* plugin_lock, with the default policy of a pthread rwlock: a reader gets *)
(* in although a writer is waiting.                                        *)
(***************************************************************************)
CanRead  == plugin_lock.writer = Nobody
CanWrite == plugin_lock.writer = Nobody /\ plugin_lock.readers = {}

HeldBy(w, rs) == [writer |-> w, readers |-> rs]

RdLock(r)   == /\ CanRead
               /\ plugin_lock' = HeldBy(Nobody, plugin_lock.readers \union {r})
RdUnlock(r) == plugin_lock' = HeldBy(plugin_lock.writer,
                                     plugin_lock.readers \ {r})
WrLock      == /\ CanWrite
               /\ plugin_lock' = HeldBy("plugin", {})
WrUnlock    == plugin_lock' = HeldBy(Nobody, plugin_lock.readers)

-----------------------------------------------------------------------------
(***************************************************************************)
(* The plugin thread.                                                      *)
(*                                                                         *)
(* plugin_load reaches mgr->load, that is _add_metric: the unit and its    *)
(* items are made, and make_ti starts the update thread before the unit is *)
(* in the list.                                                            *)
(***************************************************************************)
MakeUnit(k) ==
  /\ plug.pc = "idle"
  /\ unit[k] = "none"
  /\ unit' = [unit EXCEPT ![k] = "live"]
  /\ plugin' = [plugin EXCEPT ![k] = "mapped"]
  /\ \E channel \in Channel :
       sub' = [sub EXCEPT ![k] = [i \in Item |-> MakeSubunit(channel[i])]]
  /\ thread_running' = [thread_running EXCEPT ![k] = TRUE]
  /\ upd' = [upd EXCEPT ![k] = At("test")]
  /\ plug' = [pc |-> "link", key |-> k]
  /\ UNCHANGED <<metrics, exiting, fifo, lockVars, trav, coll>>

\* ... then the unit goes into metrics_head, under the write lock.
AddMetric ==
  /\ plug.pc = "link"
  /\ CanWrite
  /\ metrics' = metrics \union {plug.key}
  /\ plug' = [pc |-> "idle", key |-> NoKey]
  /\ UNCHANGED <<unit, plugin, exiting, ringVars, thread_running, lockVars,
                 upd, trav, coll>>

\* plugin_unload reaches mgr->unload, that is _del_metric.
UnloadPlugin(k) ==
  /\ plug.pc = "idle"
  /\ k \in metrics
  /\ plug' = [pc |-> "del", key |-> k]
  /\ UNCHANGED <<unitVars, ringVars, thread_running, lockVars, upd, trav, coll>>

\* _del_metric finds the unit under the write lock and marks it.
DelMetric ==
  /\ plug.pc = "del"
  /\ WrLock
  /\ exiting' = [exiting EXCEPT ![plug.key] = TRUE]
  /\ plug' = [plug EXCEPT !.pc = "stop"]
  /\ UNCHANGED <<metrics, unit, plugin, ringVars, thread_running, unit_lock,
                 upd, trav, coll>>

\* Mutant: the update thread is joined without being told to end.
StopUnitSilently ==
  /\ plug.pc = "stop"
  /\ unit_lock[plug.key] = Nobody
  /\ unit_lock' = [unit_lock EXCEPT ![plug.key] = "plugin"]
  /\ metrics' = metrics \ {plug.key}
  /\ plug' = [plug EXCEPT !.pc = "join"]
  /\ UNCHANGED <<unit, plugin, exiting, ringVars, thread_running, plugin_lock,
                 upd, trav, coll>>

\* _do_del_metric takes the unit's lock, takes the unit off the list and, in
\* destroy_ti, tells the update thread to end.
StopUnit ==
  /\ plug.pc = "stop"
  /\ unit_lock[plug.key] = Nobody
  /\ unit_lock' = [unit_lock EXCEPT ![plug.key] = "plugin"]
  /\ metrics' = metrics \ {plug.key}
  /\ thread_running' = [thread_running EXCEPT ![plug.key] = FALSE]
  /\ plug' = [plug EXCEPT !.pc = "join"]
  /\ UNCHANGED <<unit, plugin, exiting, ringVars, plugin_lock, upd, trav, coll>>

\* Mutant: the unit is destroyed without waiting for its update thread.
NoJoin ==
  /\ plug.pc = "join"
  /\ unit' = [unit EXCEPT ![plug.key] = "freed"]
  /\ sub' = [sub EXCEPT ![plug.key] = << >>]
  /\ fifo' = [fifo EXCEPT ![plug.key] = << >>]
  /\ unit_lock' = [unit_lock EXCEPT ![plug.key] = Nobody]
  /\ WrUnlock
  /\ plug' = [plug EXCEPT !.pc = "release"]
  /\ UNCHANGED <<metrics, plugin, exiting, thread_running, upd, trav, coll>>

\* The update thread is joined; fifo, thread_info, items and unit are freed
\* and both locks given back.
FreeUnit ==
  /\ plug.pc = "join"
  /\ upd[plug.key].pc = "done"
  /\ unit' = [unit EXCEPT ![plug.key] = "freed"]
  /\ sub' = [sub EXCEPT ![plug.key] = << >>]
  /\ fifo' = [fifo EXCEPT ![plug.key] = << >>]
  /\ unit_lock' = [unit_lock EXCEPT ![plug.key] = Nobody]
  /\ WrUnlock
  /\ plug' = [plug EXCEPT !.pc = "release"]
  /\ UNCHANGED <<metrics, plugin, exiting, thread_running, upd, trav, coll>>

\* The rest of plugin_unload: the items are freed and the library is closed.
ReleasePlugin ==
  /\ plug.pc = "release"
  /\ plugin' = [plugin EXCEPT ![plug.key] = "unmapped"]
  /\ plug' = [pc |-> "idle", key |-> NoKey]
  /\ UNCHANGED <<metrics, unit, exiting, ringVars, thread_running, lockVars,
                 upd, trav, coll>>

-----------------------------------------------------------------------------
(***************************************************************************)
(* The traversal thread.                                                   *)
(***************************************************************************)

\* Only a bound: a pass begins when no fifo can exceed MaxPending during it.
\* A hanging collect function must not stop the traversal, so its fifo is cut
\* at MaxPending (in RunItem) where the code lets it grow.
HasRoom(k) ==
  Len(fifo[k]) + NumItem =< MaxPending \/ (k \in Stuck /\ upd[k].pc = "run")

\* Mutant: the list is walked without the read lock.
BeginPassUnlocked ==
  /\ trav.pc = "asleep"
  /\ \A k \in Key : HasRoom(k)
  /\ trav' = [trav EXCEPT !.pc = "list", !.todo = metrics]
  /\ UNCHANGED <<unitVars, ringVars, thread_running, lockVars, upd, plug, coll>>

\* A pass begins.
BeginPass ==
  /\ trav.pc = "asleep"
  /\ \A k \in Key : HasRoom(k)
  /\ RdLock("traversal")
  /\ trav' = [trav EXCEPT !.pc = "list", !.todo = metrics]
  /\ UNCHANGED <<unitVars, ringVars, thread_running, unit_lock, upd, plug, coll>>

\* One unit of the list: unless it is exiting, _run_sub_metric takes its lock
\* and moves its rings.  Without a trigger the lock is given back at once.
VisitUnit(k) ==
  /\ trav.pc = "list"
  /\ k \in trav.todo
  /\ exiting[k] \/ unit_lock[k] = Nobody
  /\ LET moved == MoveForward(sub[k])
         run   == ~exiting[k] /\ Trigger(moved)
     IN  /\ sub' = IF exiting[k] THEN sub ELSE [sub EXCEPT ![k] = moved]
         /\ unit_lock' = IF run THEN [unit_lock EXCEPT ![k] = "traversal"]
                                ELSE unit_lock
         /\ trav' = [pc   |-> IF run THEN "items" ELSE "list",
                     todo |-> trav.todo \ {k},
                     key  |-> IF run THEN k ELSE NoKey,
                     item |-> 1]
  /\ UNCHANGED <<unitVars, fifo, thread_running, plugin_lock, upd, plug, coll>>

\* Mutant: a push waits as long as the fifo is full.
RunItemWaits ==
  /\ trav.pc = "items"
  /\ trav.item \in Item
  /\ LET k == trav.key
         s == sub[k][trav.item]
     IN  /\ Due(s) => Len(fifo[k]) < MaxPending
         /\ sub' = [sub EXCEPT ![k][trav.item] = AfterRun(s)]
         /\ fifo' = IF Due(s) THEN [fifo EXCEPT ![k] = Append(@, trav.item)]
                              ELSE fifo
  /\ trav' = [trav EXCEPT !.item = @ + 1]
  /\ UNCHANGED <<unitVars, thread_running, lockVars, upd, plug, coll>>

\* do_run_sub_metric, one item: push it if it is due.
RunItem ==
  /\ trav.pc = "items"
  /\ trav.item \in Item
  /\ LET k == trav.key
         s == sub[k][trav.item]
     IN  /\ sub' = [sub EXCEPT ![k][trav.item] = AfterRun(s)]
         /\ fifo' = IF Due(s) /\ Len(fifo[k]) < MaxPending
                    THEN [fifo EXCEPT ![k] = Append(@, trav.item)]
                    ELSE fifo
  /\ trav' = [trav EXCEPT !.item = @ + 1]
  /\ UNCHANGED <<unitVars, thread_running, lockVars, upd, plug, coll>>

\* The last item is done, and the lock of the unit given back.
LeaveUnit ==
  /\ trav.pc = "items"
  /\ trav.item \notin Item
  /\ unit_lock' = [unit_lock EXCEPT ![trav.key] = Nobody]
  /\ trav' = [trav EXCEPT !.pc = "list", !.key = NoKey, !.item = 1]
  /\ UNCHANGED <<unitVars, ringVars, thread_running, plugin_lock, upd, plug, coll>>

\* The pass is over; the thread sleeps for RING_STEP.
EndPass ==
  /\ trav.pc = "list"
  /\ trav.todo = {}
  /\ RdUnlock("traversal")
  /\ trav' = [trav EXCEPT !.pc = "asleep"]
  /\ UNCHANGED <<unitVars, ringVars, thread_running, unit_lock, upd, plug, coll>>

-----------------------------------------------------------------------------
(***************************************************************************)
(* The collector thread (list_data): metric_info reads the unit, its items *)
(* and the plugin's item values.                                           *)
(***************************************************************************)
\* Mutant: the list is printed without the read lock.
BeginListUnlocked ==
  /\ coll.pc = "asleep"
  /\ coll' = [coll EXCEPT !.pc = "list", !.todo = metrics]
  /\ UNCHANGED <<unitVars, ringVars, thread_running, lockVars, upd, plug, trav>>

\* A listing begins.
BeginList ==
  /\ coll.pc = "asleep"
  /\ RdLock("collector")
  /\ coll' = [coll EXCEPT !.pc = "list", !.todo = metrics]
  /\ UNCHANGED <<unitVars, ringVars, thread_running, unit_lock, upd, plug, trav>>

BeginPrint(k) ==
  /\ coll.pc = "list"
  /\ k \in coll.todo
  /\ coll' = [pc |-> "print", todo |-> coll.todo \ {k}, key |-> k]
  /\ UNCHANGED <<unitVars, ringVars, thread_running, lockVars, upd, plug, trav>>

EndPrint ==
  /\ coll.pc = "print"
  /\ coll' = [coll EXCEPT !.pc = "list", !.key = NoKey]
  /\ UNCHANGED <<unitVars, ringVars, thread_running, lockVars, upd, plug, trav>>

EndList ==
  /\ coll.pc = "list"
  /\ coll.todo = {}
  /\ RdUnlock("collector")
  /\ coll' = [coll EXCEPT !.pc = "asleep"]
  /\ UNCHANGED <<unitVars, ringVars, thread_running, unit_lock, upd, plug, trav>>

-----------------------------------------------------------------------------
(***************************************************************************)
(* The update thread of unit k (update_thread).                            *)
(***************************************************************************)
TestRunning(k) ==
  /\ upd[k].pc = "test"
  /\ upd' = [upd EXCEPT ![k] = At(IF thread_running[k] THEN "pop" ELSE "done")]
  /\ UNCHANGED <<unitVars, ringVars, thread_running, lockVars, plug, trav, coll>>

\* Mutant: an empty fifo ends the thread.
PopOrEnd(k) ==
  /\ upd[k].pc = "pop"
  /\ IF fifo[k] = << >>
     THEN /\ upd' = [upd EXCEPT ![k] = At("done")]
          /\ UNCHANGED fifo
     ELSE /\ upd' = [upd EXCEPT ![k] = Running(Head(fifo[k]))]
          /\ fifo' = [fifo EXCEPT ![k] = Tail(@)]
  /\ UNCHANGED <<unitVars, sub, thread_running, lockVars, plug, trav, coll>>

\* An empty fifo makes the thread sleep and test again.
PopAction(k) ==
  /\ upd[k].pc = "pop"
  /\ IF fifo[k] = << >>
     THEN /\ upd' = [upd EXCEPT ![k] = At("test")]
          /\ UNCHANGED fifo
     ELSE /\ upd' = [upd EXCEPT ![k] = Running(Head(fifo[k]))]
          /\ fifo' = [fifo EXCEPT ![k] = Tail(@)]
  /\ UNCHANGED <<unitVars, sub, thread_running, lockVars, plug, trav, coll>>

\* The collect function returns; the action is deleted.
EndUpdate(k) ==
  /\ upd[k].pc = "run"
  /\ upd' = [upd EXCEPT ![k] = At("test")]
  /\ UNCHANGED <<unitVars, ringVars, thread_running, lockVars, plug, trav, coll>>

-----------------------------------------------------------------------------
Delete == DelMetric \/ StopUnit \/ FreeUnit \/ ReleasePlugin

PluginThread ==
  \/ \E k \in Key : MakeUnit(k) \/ UnloadPlugin(k)
  \/ AddMetric
  \/ Delete

TraversalThread ==
  \/ BeginPass
  \/ \E k \in Key : VisitUnit(k)
  \/ RunItem
  \/ LeaveUnit
  \/ EndPass

CollectorThread ==
  \/ BeginList
  \/ \E k \in Key : BeginPrint(k)
  \/ EndPrint
  \/ EndList

UpdateThread(k) == TestRunning(k) \/ PopAction(k) \/ EndUpdate(k)

Next ==
  \/ PluginThread
  \/ TraversalThread
  \/ CollectorThread
  \/ \E k \in Key : UpdateThread(k)

Spec == Init /\ [][Next]_vars

(***************************************************************************)
(* Every thread takes its next step when it can, but the collect functions *)
(* of Stuck may hang.  The plugin thread does not starve on a lock that    *)
(* becomes free again and again, and nothing makes it load or unload       *)
(* plugins.                                                                *)
(***************************************************************************)
Fairness ==
  /\ WF_vars(TraversalThread)
  /\ WF_vars(CollectorThread)
  /\ \A k \in Key : WF_vars(TestRunning(k) \/ PopAction(k))
  /\ \A k \in Key \ Stuck : WF_vars(EndUpdate(k))
  /\ SF_vars(AddMetric)
  /\ SF_vars(DelMetric)
  /\ WF_vars(StopUnit \/ FreeUnit \/ ReleasePlugin)

FairSpec == Spec /\ Fairness

-----------------------------------------------------------------------------
\* The traversal holds, or will follow, a pointer to unit k; the collector too.
Traverses(k) == k \in trav.todo \/ trav.key = k
Prints(k)    == k \in coll.todo \/ coll.key = k

\* The update thread of k has its thread_info, its fifo and its items.
Updates(k)   == upd[k].pc \in {"test", "pop", "run"}

(***************************************************************************)
(* No thread holds a pointer to a unit that has been freed: deleting a     *)
(* unit waits for the readers of the list and for its update thread.       *)
(***************************************************************************)
NoUseAfterFree ==
  \A k \in Key :
    Traverses(k) \/ Prints(k) \/ Updates(k) => unit[k] = "live"

(***************************************************************************)
(* No collect function runs in, and no item is printed from, a plugin that *)
(* plugin_unload has closed.                                               *)
(***************************************************************************)
NoUseAfterClose ==
  \A k \in Key :
    upd[k].pc = "run" \/ coll.key = k => plugin[k] = "mapped"

(***************************************************************************)
(* unit_lock never makes a thread wait: plugin_lock already keeps the      *)
(* traversal and the deletion of a unit apart.  (A wait would be for a     *)
(* thread that holds plugin_lock and joins an update thread.)              *)
(***************************************************************************)
UnitLockNeverBlocks ==
  /\ plug.pc = "stop" => unit_lock[plug.key] = Nobody
  /\ trav.pc = "list" => \A k \in trav.todo : unit_lock[k] = Nobody

-----------------------------------------------------------------------------
(***************************************************************************)
(* The life of the units, as UnitLife has it.                              *)
(***************************************************************************)
PhaseOf(k) ==
  CASE unit[k] = "none" -> "absent"
    [] unit[k] = "live" /\ k \in metrics -> "listed"
    [] unit[k] = "live" /\ k \notin metrics ->
         IF plug.pc = "link" THEN "made" ELSE "stopping"
    [] unit[k] = "freed" ->
         IF plugin[k] = "unmapped" THEN "closed" ELSE "freed"

ReadersOf(k) == {r \in Reader : \/ r = "traversal" /\ trav.key = k
                                \/ r = "collector" /\ coll.key = k}

Life == INSTANCE UnitLife WITH
          phase   <- [k \in Key |-> PhaseOf(k)],
          readers <- [k \in Key |-> ReadersOf(k)],
          running <- {k \in Key : upd[k].pc = "run"}

(***************************************************************************)
(* The threads keep UnitLife's promise.                                    *)
(***************************************************************************)
ImplementsUnitLife == Life!Spec

-----------------------------------------------------------------------------
(***************************************************************************)
(* The collect functions of k return.  Fairness says so of all but Stuck.  *)
(***************************************************************************)
Returns(k) == k \in Stuck => []<>(upd[k].pc # "run")

(***************************************************************************)
(* An action in the fifo is run by the update thread, unless the unit is   *)
(* deleted first (what is left in the fifo then is dropped).  A hanging    *)
(* plugin does not hold up the actions of the others.                      *)
(***************************************************************************)
ActionsAreRun ==
  \A k \in Key : Returns(k) =>
    \A i \in Item :
      (\E n \in 1..Len(fifo[k]) : fifo[k][n] = i)
        ~> (upd[k] = Running(i) \/ unit[k] = "freed")

KeepsUpdating(k) ==
  \A i \in Item :
    (k \in metrics /\ sub[k][i].run_time = -1)
      ~> (upd[k] = Running(i) \/ k \notin metrics)

(***************************************************************************)
(* As long as a unit is in the list, its items without an end are updated  *)
(* again and again: no thread blocks the traversal or the update thread    *)
(* for ever.  The design of version 0.2 wants a failing collector not to   *)
(* affect the whole collecting module: a collect function that hangs does  *)
(* not, as long as nobody unloads its plugin; _do_del_metric would wait    *)
(* for its update thread, with the write lock of the whole list in hand    *)
(* (metric.c:100, 362), and so stop the traversal for everybody.           *)
(***************************************************************************)
PeriodicItemsAreUpdated ==
  (\A s \in Stuck : Returns(s) \/ [](plug.key = s => plug.pc \notin {"stop", "join"}))
    => \A k \in Key : Returns(k) => KeepsUpdating(k)

(***************************************************************************)
(* An unloaded plugin gets closed: the plugin thread gets the write lock,  *)
(* and the update thread it joins while it holds that lock needs nothing   *)
(* that the lock blocks.  The premise on the readers is a fact of the      *)
(* machine, not of the code: the two readers sleep a second between        *)
(* passes, so there are moments without a reader.  A lock that prefers     *)
(* readers would otherwise starve the writer.                              *)
(***************************************************************************)
UnloadCompletes ==
  []<>(plugin_lock.readers = {}) =>
    \A k \in Key : Returns(k) =>
      ((plug.pc = "del" /\ plug.key = k) ~> plugin[k] = "unmapped")

=============================================================================
