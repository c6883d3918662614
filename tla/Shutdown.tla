------------------------------ MODULE Shutdown ------------------------------
(***************************************************************************)
(* The end of the program (core/cleanup.c, the handlers of core/main.c,    *)
(* plugin_server_finish and plugin_mgr_des): what is deleted, in which     *)
(* order, while the other threads go on.                                   *)
(*                                                                         *)
(* A signal from outside runs its handler on the main thread, which waits  *)
(* in a pthread_join and holds no lock, or on any other if the main thread *)
(* is in the handler of the same signal.  A SIGSEGV runs its handler on    *)
(* the thread that caused it.  The first handler to get clean_mutex cleans *)
(* up and exits; a thread in any other handler is lost.  Nothing stops the *)
(* other threads: stop_collector does nothing, and plugin_server_finish    *)
(* never cancels the plugin thread.                                        *)
(*                                                                         *)
(* The two lists are sequences of plugin ids, since it matters where a     *)
(* thread is in them.  A node that list_del has taken out has NULL         *)
(* pointers, until it is freed; what a thread finds in freed memory is     *)
(* undefined.  The rings and fifos, which Metric has, are left out, and so *)
(* is the logger, which Logger has.                                        *)
(***************************************************************************)
EXTENDS Integers, Sequences, FiniteSets, SequencesExt

CONSTANTS Key,    \* the plugin ids of a run
          End,    \* the head of a list, where a walk of it ends
          Null    \* no pointer

ASSUME EndAssumption == End \notin Key /\ Null \notin Key /\ End # Null

VARIABLES
  list,            \* metrics_head
  nodes,           \* mgr->head, or NULL when the manager has been freed
  unit, plugin,    \* the memory of a unit, and of a plugin, as in Metric
  thread_running,  \* ti->thread_running
  upd,             \* the update threads
  plugin_lock,     \* the watcher's rwlock
  unit_lock,       \* unit->unit_lock: its owner
  walk,            \* the traversal and the collector: control state, node
  job,             \* the plugin thread and cleanup: control state, node,
                   \* and the next one of list_for_each_safe
  handler,         \* the threads that are in a signal handler
  by,              \* the one that has clean_mutex
  stuck,           \* whether that one waits for the mutex in another handler
  late,            \* history: what the plugin thread worked on since then
  ended            \* how the process has ended, if it has

memoryVars == <<unit, plugin, thread_running, upd>>
listVars   == <<list, nodes>>
lockVars   == <<plugin_lock, unit_lock>>
endVars    == <<handler, by, stuck, ended>>
vars == <<list, nodes, unit, plugin, thread_running, upd, plugin_lock, unit_lock,
          walk, job, handler, by, stuck, late, ended>>

Reader == {"traversal", "collector"}
Actor  == {"plugin", "cleanup"}
Nobody == "nobody"
Thread == Key \cup Reader \cup {"main", "plugin"}
Place  == Key \cup {End, Null}

\* An update thread is none of the others.
ASSUME ThreadAssumption == Key \cap (Reader \cup {"main", "plugin", Nobody}) = {}

TypeOK ==
  /\ list \in Seq(Key) /\ (nodes = Null \/ nodes \in Seq(Key))
  /\ unit \in [Key -> {"none", "live", "freed"}]
  /\ plugin \in [Key -> {"none", "mapped", "unmapped"}]
  /\ thread_running \in [Key -> BOOLEAN]
  /\ upd \in [Key -> {"none", "idle", "run", "done"}]
  /\ plugin_lock \in [writer : Actor \cup {Nobody}, readers : SUBSET Reader]
  /\ unit_lock \in [Key -> Actor \cup {"traversal", Nobody}]
  /\ walk \in [Reader -> [pc : {"asleep", "list", "locked", "visited"}, pos : Place]]
  /\ job \in [Actor -> [pc : {"idle", "link", "del", "stop", "join", "release", "units", "nodes", "exit"},
                        key : Place, next : Place]]
  /\ handler \subseteq Thread /\ by \in Thread \cup {Nobody}
  /\ stuck \in BOOLEAN /\ late \subseteq Key
  /\ ended \in {"no", "exit", "aborted"}

Idle == [pc |-> "idle", key |-> Null, next |-> Null]

Init ==
  /\ list = <<>> /\ nodes = <<>>
  /\ unit = [k \in Key |-> "none"] /\ plugin = [k \in Key |-> "none"]
  /\ thread_running = [k \in Key |-> FALSE] /\ upd = [k \in Key |-> "none"]
  /\ plugin_lock = [writer |-> Nobody, readers |-> {}]
  /\ unit_lock = [k \in Key |-> Nobody]
  /\ walk = [r \in Reader |-> [pc |-> "asleep", pos |-> Null]]
  /\ job = [a \in Actor |-> Idle]
  /\ handler = {} /\ by = Nobody /\ stuck = FALSE /\ late = {} /\ ended = "no"

----------------------------------------------------------------------------
\* The next pointer of a node of l.
After(l, p) ==
  IF p = End THEN IF l = <<>> THEN End ELSE l[1]
  ELSE IF p \notin Range(l) THEN Null
  ELSE LET n == CHOOSE n \in DOMAIN l : l[n] = p
       IN  IF n = Len(l) THEN End ELSE l[n + 1]

\* list_del.
ListDel(l, k) ==
  IF k \in Range(l) THEN RemoveAt(l, CHOOSE n \in DOMAIN l : l[n] = k) ELSE l

CanRead  == plugin_lock.writer = Nobody
CanWrite == plugin_lock.writer = Nobody /\ plugin_lock.readers = {}

\* The thread goes on with the program.
Runs(t) == t \notin handler /\ ended = "no"

\* A SIGSEGV: the handler begins.
Fault(t) == handler' = handler \cup {t} /\ UNCHANGED <<by, stuck, ended>>

\* ... or glibc notices first.
Undefined(t) ==
  \/ Fault(t)
  \/ ended' = "aborted" /\ UNCHANGED <<handler, by, stuck>>

----------------------------------------------------------------------------
(***************************************************************************)
(* The traversal and the collector walk the list under the read lock.      *)
(***************************************************************************)
Step(r, pc, pos) == walk' = [walk EXCEPT ![r] = [pc |-> pc, pos |-> pos]]

BeginWalk(r) ==
  /\ Runs(r) /\ walk[r].pc = "asleep" /\ CanRead
  /\ plugin_lock' = [plugin_lock EXCEPT !.readers = @ \cup {r}]
  /\ Step(r, "list", After(list, End))
  /\ UNCHANGED <<listVars, memoryVars, unit_lock, job, endVars, late>>

EndWalk(r) ==
  /\ Runs(r) /\ walk[r].pc = "list" /\ walk[r].pos = End
  /\ plugin_lock' = [plugin_lock EXCEPT !.readers = @ \ {r}]
  /\ Step(r, "asleep", Null)
  /\ UNCHANGED <<listVars, memoryVars, unit_lock, job, endVars, late>>

\* At a unit that has been freed, or at none: the memory may be another's by
\* now, and the walk go on with that.
Stray(r) ==
  /\ Runs(r)
  /\ LET p == walk[r].pos
     IN  IF p = Null THEN Fault(r) /\ UNCHANGED walk
         ELSE /\ p # End /\ unit[p] = "freed"
              /\ \/ Undefined(r) /\ UNCHANGED walk
                 \/ (\E q \in Range(list) \cup {End} : Step(r, "list", q)) /\ UNCHANGED endVars
  /\ walk[r].pc # "asleep"
  /\ UNCHANGED <<listVars, memoryVars, lockVars, job, late>>

\* The traversal takes the lock of a unit (_run_sub_metric), the collector
\* takes none (metric_info).
Visit(r) ==
  /\ Runs(r) /\ walk[r].pc = "list"
  /\ LET p == walk[r].pos
     IN  /\ p \in Key /\ unit[p] = "live"
         /\ IF r = "traversal"
            THEN /\ unit_lock[p] = Nobody
                 /\ unit_lock' = [unit_lock EXCEPT ![p] = r]
                 /\ Step(r, "locked", p)
            ELSE Step(r, "visited", p) /\ UNCHANGED unit_lock
  /\ UNCHANGED <<listVars, memoryVars, plugin_lock, job, endVars, late>>

UnlockUnit ==
  /\ Runs("traversal") /\ walk["traversal"].pc = "locked"
  /\ unit_lock' = [unit_lock EXCEPT ![walk["traversal"].pos] = Nobody]
  /\ Step("traversal", "visited", walk["traversal"].pos)
  /\ UNCHANGED <<listVars, memoryVars, plugin_lock, job, endVars, late>>

NextUnit(r) ==
  /\ Runs(r) /\ walk[r].pc = "visited" /\ unit[walk[r].pos] = "live"
  /\ Step(r, "list", After(list, walk[r].pos))
  /\ UNCHANGED <<listVars, memoryVars, lockVars, job, endVars, late>>

----------------------------------------------------------------------------
(***************************************************************************)
(* The update threads.                                                     *)
(***************************************************************************)
Update(k) ==
  /\ Runs(k)
  /\ \/ upd[k] = "idle" /\ thread_running[k] /\ upd' = [upd EXCEPT ![k] = "run"]
     \/ upd[k] = "run" /\ upd' = [upd EXCEPT ![k] = "idle"]
     \/ upd[k] = "idle" /\ ~thread_running[k] /\ upd' = [upd EXCEPT ![k] = "done"]
  /\ UNCHANGED <<listVars, unit, plugin, thread_running, lockVars, walk, job, endVars, late>>

\* A collect function makes a fault.  (When there is a signal already, the step
\* is that of SignalAgain.)
Crash(k) ==
  /\ handler = {} /\ Runs(k) /\ upd[k] = "run"
  /\ Fault(k)
  /\ UNCHANGED <<listVars, memoryVars, lockVars, walk, job, late>>

----------------------------------------------------------------------------
(***************************************************************************)
(* plugin_unload and _do_del_metric, by the plugin thread for a command or *)
(* in cleanup.                                                             *)
(***************************************************************************)
Acts(a) == IF a = "plugin" THEN Runs("plugin") ELSE by # Nobody /\ ~stuck /\ ended = "no"

\* A fault in cleanup is one in a handler: the main thread waits for the mutex
\* that it holds; a thread whose signal is SIGSEGV already is killed.
ActorFails(a) ==
  IF a = "plugin" THEN Undefined("plugin")
  ELSE \/ ended' = "aborted" /\ UNCHANGED <<handler, by, stuck>>
       \/ by = "main" /\ stuck' = TRUE /\ UNCHANGED <<handler, by, ended>>

Goto(a, pc, key, next) == job' = [job EXCEPT ![a] = [pc |-> pc, key |-> key, next |-> next]]
GoOn(a, pc) == job' = [job EXCEPT ![a].pc = pc]

\* What the plugin thread works on while the program ends.
Note(a) == late' = IF a = "plugin" /\ by # Nobody THEN late \cup {job[a].key} ELSE late

\* _del_metric: the unit is looked for under the write lock.
DelMetric(a) ==
  /\ Acts(a) /\ job[a].pc = "del" /\ CanWrite
  /\ IF job[a].key \in Range(list)
     THEN plugin_lock' = [plugin_lock EXCEPT !.writer = a] /\ GoOn(a, "stop")
     ELSE GoOn(a, "release") /\ UNCHANGED plugin_lock
  /\ Note(a)
  /\ UNCHANGED <<listVars, memoryVars, unit_lock, walk, endVars>>

\* Mutant: the update thread is not told to end.
StopUnitSilently(a) ==
  /\ Acts(a) /\ job[a].pc = "stop"
  /\ unit[job[a].key] = "live" /\ unit_lock[job[a].key] = Nobody
  /\ unit_lock' = [unit_lock EXCEPT ![job[a].key] = a]
  /\ list' = ListDel(list, job[a].key)
  /\ GoOn(a, "join") /\ Note(a)
  /\ UNCHANGED <<nodes, unit, plugin, thread_running, upd, plugin_lock, walk, endVars>>

\* _do_del_metric: the lock of the unit, list_del, and the first step of
\* destroy_ti.
StopUnit(a) ==
  /\ Acts(a) /\ job[a].pc = "stop"
  /\ unit[job[a].key] = "live" /\ unit_lock[job[a].key] = Nobody
  /\ unit_lock' = [unit_lock EXCEPT ![job[a].key] = a]
  /\ list' = ListDel(list, job[a].key)
  /\ thread_running' = [thread_running EXCEPT ![job[a].key] = FALSE]
  /\ GoOn(a, "join") /\ Note(a)
  /\ UNCHANGED <<nodes, unit, plugin, upd, plugin_lock, walk, endVars>>

\* The other one has deleted the unit first.
StopFreedUnit(a) ==
  /\ Acts(a) /\ job[a].pc = "stop" /\ unit[job[a].key] = "freed"
  /\ ActorFails(a) /\ Note(a)
  /\ UNCHANGED <<listVars, memoryVars, lockVars, walk, job>>

\* Mutant: nobody waits for the update thread.
FreeUnitAtOnce(a) ==
  /\ Acts(a) /\ job[a].pc = "join"
  /\ unit' = [unit EXCEPT ![job[a].key] = "freed"]
  /\ unit_lock' = [unit_lock EXCEPT ![job[a].key] = Nobody]
  /\ IF plugin_lock.writer = a
     THEN plugin_lock' = [plugin_lock EXCEPT !.writer = Nobody] /\ GoOn(a, "release")
     ELSE Goto(a, "units", job[a].next, After(list, job[a].next)) /\ UNCHANGED plugin_lock
  /\ Note(a)
  /\ UNCHANGED <<listVars, plugin, thread_running, upd, walk, endVars>>

\* The update thread is joined (a thread that would join itself does not
\* wait), and the unit freed.  delete_all_metric goes on with the next one.
FreeUnit(a) ==
  /\ Acts(a) /\ job[a].pc = "join"
  /\ (upd[job[a].key] = "done") \/ (a = "cleanup" /\ by = job[a].key)
  /\ unit' = [unit EXCEPT ![job[a].key] = "freed"]
  /\ unit_lock' = [unit_lock EXCEPT ![job[a].key] = Nobody]
  /\ IF plugin_lock.writer = a
     THEN plugin_lock' = [plugin_lock EXCEPT !.writer = Nobody] /\ GoOn(a, "release")
     ELSE Goto(a, "units", job[a].next, After(list, job[a].next)) /\ UNCHANGED plugin_lock
  /\ Note(a)
  /\ UNCHANGED <<listVars, plugin, thread_running, upd, walk, endVars>>

\* The rest of plugin_unload.  plugin_mgr_des goes on with the next node.
ReleasePlugin(a) ==
  /\ Acts(a) /\ job[a].pc = "release"
  /\ LET k == job[a].key
         rest == ListDel(nodes, k)
     IN  IF nodes # Null /\ plugin[k] = "mapped"
         THEN /\ plugin' = [plugin EXCEPT ![k] = "unmapped"]
              /\ nodes' = rest
              /\ IF a = "plugin" THEN job' = [job EXCEPT ![a] = Idle]
                 ELSE Goto(a, "nodes", job[a].next, After(rest, job[a].next))
              /\ UNCHANGED endVars
         ELSE ActorFails(a) /\ UNCHANGED <<plugin, nodes, job>>
  /\ Note(a)
  /\ UNCHANGED <<list, unit, thread_running, upd, lockVars, walk>>

----------------------------------------------------------------------------
(***************************************************************************)
(* The plugin thread, at a command.  g_mgr is NULL once it has been freed. *)
(***************************************************************************)

\* The ids come in a fixed order (plugin_id_inc).
NextId == CHOOSE k \in Key : plugin[k] = "none"

LoadPlugin(k) ==
  /\ Runs("plugin") /\ job["plugin"].pc = "idle"
  /\ plugin[k] = "none" /\ k = NextId
  /\ \/ nodes = Null /\ Fault("plugin") /\ UNCHANGED <<nodes, memoryVars, job, late>>
     \/ /\ nodes # Null
        /\ nodes' = <<k>> \o nodes
        /\ plugin' = [plugin EXCEPT ![k] = "mapped"]
        /\ unit' = [unit EXCEPT ![k] = "live"]
        /\ thread_running' = [thread_running EXCEPT ![k] = TRUE]
        /\ upd' = [upd EXCEPT ![k] = "idle"]
        /\ Goto("plugin", "link", k, Null)
        /\ late' = IF by = Nobody THEN late ELSE late \cup {k}
        /\ UNCHANGED endVars
  /\ UNCHANGED <<list, lockVars, walk>>

AddMetric ==
  /\ Runs("plugin") /\ job["plugin"].pc = "link" /\ CanWrite
  /\ list' = Append(list, job["plugin"].key)
  /\ job' = [job EXCEPT !["plugin"] = Idle]
  /\ Note("plugin")
  /\ UNCHANGED <<nodes, memoryVars, lockVars, walk, endVars>>

UnloadPlugin(k) ==
  /\ Runs("plugin") /\ job["plugin"].pc = "idle"
  /\ nodes # Null /\ k \in Range(nodes)
  /\ Goto("plugin", "del", k, Null)
  /\ late' = IF by = Nobody THEN late ELSE late \cup {k}
  /\ UNCHANGED <<listVars, memoryVars, lockVars, walk, endVars>>

\* The init function of a plugin makes a fault.
CrashInit ==
  /\ handler = {} /\ Runs("plugin") /\ job["plugin"].pc = "idle"
  /\ Fault("plugin")
  /\ UNCHANGED <<listVars, memoryVars, lockVars, walk, job, late>>

----------------------------------------------------------------------------
(***************************************************************************)
(* Signals and cleanup.                                                    *)
(***************************************************************************)

\* A signal for the main thread.  A different one, while it is in the handler of
\* the first, makes it wait for the mutex that it holds.
Signal ==
  /\ ended = "no"
  /\ handler' = handler \cup {"main"}
  /\ stuck' = (stuck \/ by = "main")
  /\ UNCHANGED <<listVars, memoryVars, lockVars, walk, job, by, late, ended>>

\* The same signal again, which the main thread has blocked: any other thread
\* gets it, wherever it is.  Only a bound: this, or a fault in a plugin, makes
\* one handler more and not several.
SignalAgain(t) ==
  /\ handler = {"main"} /\ Runs(t)
  /\ t \in Key => upd[t] \notin {"none", "done"}
  /\ Fault(t)
  /\ UNCHANGED <<listVars, memoryVars, lockVars, walk, job, late>>

\* cleanup takes clean_mutex and begins delete_all_metric.
BeginCleanup(t) ==
  /\ t \in handler /\ by = Nobody /\ ended = "no"
  /\ by' = t
  /\ Goto("cleanup", "units", After(list, End), After(list, After(list, End)))
  /\ UNCHANGED <<listVars, memoryVars, lockVars, walk, handler, stuck, late, ended>>

\* One round of delete_all_metric, or plugin_server_finish.
CleanUnits ==
  /\ Acts("cleanup") /\ job["cleanup"].pc = "units"
  /\ CASE job["cleanup"].key \in Key -> GoOn("cleanup", "stop") /\ UNCHANGED endVars
       [] job["cleanup"].key = Null -> ActorFails("cleanup") /\ UNCHANGED job
       [] OTHER -> /\ Goto("cleanup", "nodes", After(nodes, End), After(nodes, After(nodes, End)))
                   /\ UNCHANGED endVars
  /\ UNCHANGED <<listVars, memoryVars, lockVars, walk, late>>

\* Mutant: plugin_mgr_des frees the list only.
CleanNodesFreeing ==
  /\ Acts("cleanup") /\ job["cleanup"].pc = "nodes"
  /\ nodes' = Null /\ GoOn("cleanup", "exit")
  /\ UNCHANGED <<list, memoryVars, lockVars, walk, late, endVars>>

\* One round of plugin_mgr_des, or the manager is freed.
CleanNodes ==
  /\ Acts("cleanup") /\ job["cleanup"].pc = "nodes"
  /\ CASE job["cleanup"].key \in Key -> GoOn("cleanup", "del") /\ UNCHANGED <<nodes, endVars>>
       [] job["cleanup"].key = Null -> ActorFails("cleanup") /\ UNCHANGED <<nodes, job>>
       [] OTHER -> nodes' = Null /\ GoOn("cleanup", "exit") /\ UNCHANGED endVars
  /\ UNCHANGED <<list, memoryVars, lockVars, walk, late>>

\* exit_syswatcher, exit_logger and exit.
Exit ==
  /\ Acts("cleanup") /\ job["cleanup"].pc = "exit"
  /\ ended' = "exit"
  /\ UNCHANGED <<listVars, memoryVars, lockVars, walk, job, late, handler, by, stuck>>

----------------------------------------------------------------------------
Walks(r) == BeginWalk(r) \/ EndWalk(r) \/ Stray(r) \/ Visit(r) \/ NextUnit(r)

Deletes(a) ==
  DelMetric(a) \/ StopUnit(a) \/ StopFreedUnit(a) \/ FreeUnit(a) \/ ReleasePlugin(a)

Cleans == CleanUnits \/ CleanNodes \/ Exit

Next ==
  \/ \E r \in Reader : Walks(r)
  \/ UnlockUnit
  \/ \E k \in Key : Update(k) \/ Crash(k) \/ LoadPlugin(k) \/ UnloadPlugin(k)
  \/ \E a \in Actor : Deletes(a)
  \/ AddMetric \/ CrashInit
  \/ Signal
  \/ \E t \in Thread : SignalAgain(t) \/ BeginCleanup(t)
  \/ Cleans

Spec == Init /\ [][Next]_vars

(***************************************************************************)
(* The threads go on, a collect function returns, and the thread that      *)
(* cleans up does not starve on a lock that becomes free again and again.  *)
(* Nothing has to crash, and nobody has to send a signal or a command.     *)
(***************************************************************************)
FairSpec ==
  /\ Spec
  /\ \A r \in Reader : WF_vars(Walks(r))
  /\ WF_vars(UnlockUnit)
  /\ \A k \in Key : WF_vars(Update(k))
  /\ WF_vars(\E t \in Thread : BeginCleanup(t))
  /\ WF_vars(Cleans)
  /\ SF_vars(Deletes("cleanup"))

----------------------------------------------------------------------------
\* The plugin thread is in the middle of something, or has been since cleanup
\* began.
Disturbed == late \cup {job["plugin"].key}

(***************************************************************************)
(* cleanup deletes units without plugin_lock and with three kinds of       *)
(* threads still running, but frees nothing that an update thread uses:    *)
(* the unit goes, and the library is closed, after the thread has ended or *)
(* in the handler of its own fault.  A plugin that the plugin thread is    *)
(* just loading or unloading is the exception.                             *)
(***************************************************************************)
JoinedBeforeFreed ==
  \A k \in Key \ Disturbed :
    unit[k] = "freed" \/ plugin[k] = "unmapped" => upd[k] = "done" \/ by = k

(***************************************************************************)
(* When the program exits, every plugin that was loaded has had its unit   *)
(* freed and its exit function called and its library closed, exactly as   *)
(* an unload would have done, unless the plugin thread was at it.          *)
(***************************************************************************)
NothingIsLeft ==
  ended = "exit" => \A k \in Key \ Disturbed : unit[k] # "live" /\ plugin[k] # "mapped"

SecondHandler == Cardinality(handler) > 1 \/ stuck
CommandAtEnd  == handler # {} /\ job["plugin"].pc # "idle"

(***************************************************************************)
(* A signal, or a fault in the code of a plugin, ends the program: cleanup *)
(* gets every lock and every thread that it waits for, whatever the        *)
(* traversal and the collector are doing.  It need not when the plugin     *)
(* thread is at work, or when a second handler begins: that is what a      *)
(* reader does that has reached the unit just taken out of the list, and   *)
(* the read lock that it holds keeps cleanup in _del_metric for ever.      *)
(* (As in Metric, there must be moments without a reader.)                 *)
(***************************************************************************)
ShutdownEnds ==
  ([]<>(plugin_lock.readers = {}) /\ [](~SecondHandler /\ ~CommandAtEnd))
    => [](handler # {} => <>(ended # "no"))
=============================================================================
