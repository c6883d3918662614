--------------------------- MODULE Shutdown_proofs ---------------------------
(***************************************************************************)
(* Proofs about Shutdown, for any number of plugins.                       *)
(***************************************************************************)
EXTENDS Shutdown, SequenceTheorems, TLAPS

USE EndAssumption, ThreadAssumption

\* The nodes of a list are plugin ids ...
LEMMA RangeType ==
  ASSUME NEW l \in Seq(Key)
  PROVE  /\ Range(l) \subseteq Key
         /\ \A n \in DOMAIN l : l[n] \in Range(l)
BY DEF Range

\* ... the next pointer leads to one of them, to the head or nowhere ...
LEMMA AfterType ==
  ASSUME NEW l \in Seq(Key), NEW p
  PROVE  /\ After(l, p) \in Range(l) \cup {End, Null}
         /\ After(l, p) \in Place
<1>1. After(l, p) \in Range(l) \cup {End, Null}
  <2>1. CASE p = End /\ l = << >>
    BY <2>1 DEF After
  <2>2. CASE p = End /\ l # << >>
    <3>1. 1 \in DOMAIN l
      BY <2>2
    <3> QED
      BY <2>2, <3>1, RangeType DEF After
  <2>3. CASE p # End /\ p \notin Range(l)
    BY <2>3 DEF After
  <2>4. CASE p # End /\ p \in Range(l)
    <3> DEFINE n == CHOOSE n \in DOMAIN l : l[n] = p
    <3>1. n \in DOMAIN l
      BY <2>4 DEF Range
    <3>2. n # Len(l) => n + 1 \in DOMAIN l
      BY <3>1
    <3>3. After(l, p) = IF n = Len(l) THEN End ELSE l[n + 1]
      BY <2>4 DEF After
    <3> HIDE DEF n
    <3> QED
      BY <3>2, <3>3, RangeType
  <2> QED
    BY <2>1, <2>2, <2>3, <2>4
<1> QED
  BY <1>1, RangeType DEF Place

\* ... and list_del takes out one node and leaves the others.
LEMMA ListDelAt ==
  ASSUME NEW l \in Seq(Key), NEW k \in Range(l)
  PROVE  \E n \in DOMAIN l :
           /\ l[n] = k
           /\ ListDel(l, k) \in Seq(Key)
           /\ Len(ListDel(l, k)) = Len(l) - 1
           /\ \A i \in 1..(Len(l) - 1) :
                ListDel(l, k)[i] = IF i < n THEN l[i] ELSE l[i + 1]
<1> DEFINE n == CHOOSE n \in DOMAIN l : l[n] = k
           f == SubSeq(l, 1, n - 1)
           b == SubSeq(l, n + 1, Len(l))
<1>1. n \in 1..Len(l) /\ l[n] = k
  BY DEF Range
<1>2. ListDel(l, k) = f \o b
  BY DEF ListDel, RemoveAt
<1> HIDE DEF n
<1>3. /\ f \in Seq(Key) /\ Len(f) = n - 1
      /\ \A i \in 1..(n - 1) : f[i] = l[i]
  BY <1>1
<1>4. /\ b \in Seq(Key) /\ Len(b) = Len(l) - n
      /\ \A i \in 1..(Len(l) - n) : b[i] = l[n + i]
  BY <1>1
<1> HIDE DEF f, b
<1>5. /\ f \o b \in Seq(Key) /\ Len(f \o b) = Len(f) + Len(b)
      /\ \A i \in 1..(Len(f) + Len(b)) :
           (f \o b)[i] = IF i <= Len(f) THEN f[i] ELSE b[i - Len(f)]
  BY <1>3, <1>4, ConcatProperties
<1>6. Len(f) + Len(b) = Len(l) - 1
  BY <1>1, <1>3, <1>4
<1>7. ASSUME NEW i \in 1..(Len(l) - 1)
      PROVE  (f \o b)[i] = IF i < n THEN l[i] ELSE l[i + 1]
  <2>1. CASE i < n
    BY <1>1, <1>3, <1>5, <1>6, <2>1
  <2>2. CASE i >= n
    <3>1. i - (n - 1) \in 1..(Len(l) - n)
      BY <1>1, <2>2
    <3>2. b[i - (n - 1)] = l[n + (i - (n - 1))] /\ n + (i - (n - 1)) = i + 1
      BY <1>1, <1>4, <3>1
    <3>3. (f \o b)[i] = b[i - (n - 1)]
      BY <1>1, <1>3, <1>5, <1>6, <2>2
    <3> QED
      BY <1>1, <2>2, <3>2, <3>3
  <2>3. i < n \/ i >= n
    BY <1>1
  <2> QED
    BY ONLY <2>1, <2>2, <2>3
<1> DEFINE d == f \o b
<1> HIDE DEF d
<1>8. /\ d \in Seq(Key) /\ Len(d) = Len(l) - 1
      /\ \A i \in 1..(Len(l) - 1) : d[i] = IF i < n THEN l[i] ELSE l[i + 1]
  BY <1>5, <1>6, <1>7 DEF d
<1>9. n \in DOMAIN l /\ ListDel(l, k) = d
  BY <1>1, <1>2 DEF d
<1> QED
  BY <1>1, <1>8, <1>9

LEMMA ListDelType ==
  ASSUME NEW l \in Seq(Key), NEW k
  PROVE  /\ ListDel(l, k) \in Seq(Key)
         /\ Range(ListDel(l, k)) \subseteq Range(l)
         /\ Range(l) \subseteq Range(ListDel(l, k)) \cup {k}
<1>1. CASE k \notin Range(l)
  BY <1>1 DEF ListDel
<1>2. CASE k \in Range(l)
  <2> DEFINE d == ListDel(l, k)
  <2>1. PICK n \in DOMAIN l :
          /\ l[n] = k /\ d \in Seq(Key) /\ Len(d) = Len(l) - 1
          /\ \A i \in 1..(Len(l) - 1) : d[i] = IF i < n THEN l[i] ELSE l[i + 1]
    BY <1>2, ListDelAt
  <2> HIDE DEF d
  <2>2. Range(d) \subseteq Range(l)
    <3> SUFFICES ASSUME NEW i \in DOMAIN d PROVE d[i] \in Range(l)
      BY DEF Range
    <3> QED
      BY <2>1 DEF Range
  <2>3. Range(l) \subseteq Range(d) \cup {k}
    <3> SUFFICES ASSUME NEW i \in DOMAIN l, l[i] # k PROVE l[i] \in Range(d)
      BY DEF Range
    <3>1. CASE i < n
      <4>1. i \in DOMAIN d /\ d[i] = l[i]
        BY <2>1, <3>1
      <4> QED
        BY <4>1 DEF Range
    <3>2. CASE i > n
      <4>1. i - 1 \in DOMAIN d /\ d[i - 1] = l[i]
        BY <2>1, <3>2
      <4> QED
        BY <4>1 DEF Range
    <3> QED
      BY <2>1, <3>1, <3>2
  <2> QED
    BY <2>1, <2>2, <2>3 DEF d
<1> QED
  BY <1>1, <1>2

----------------------------------------------------------------------------
(***************************************************************************)
(* The inductive invariant.                                                *)
(***************************************************************************)
Joined(k) == upd[k] = "done" \/ by = k
Loaded(k) == plugin[k] # "none"

\* The plugin thread works on one plugin, and under the write lock while it
\* deletes the unit.
PluginThread ==
  LET j == job["plugin"]
  IN  /\ j.pc \in {"idle", "link", "del", "stop", "join", "release"}
      /\ j.pc = "idle" <=> j.key = Null
      /\ j.pc # "idle" => j.key \in Key /\ Loaded(j.key)
      /\ j.pc \in {"stop", "join"} => plugin_lock.writer = "plugin"

\* cleanup has work when somebody has clean_mutex, has freed the manager at its
\* end only, and comes to plugins that were loaded.
CleanupThread ==
  LET j == job["cleanup"]
  IN  /\ by = Nobody => j = Idle /\ late = {}
      /\ IF j.pc = "exit" THEN nodes = Null ELSE nodes \in Seq(Key)
      /\ j.pc \in {"stop", "join", "del", "release"} => j.key \in Key
      /\ \A k \in {j.key, j.next} \cap Key : Loaded(k)

Listed ==
  /\ \A k \in Range(list) : Loaded(k)
  /\ job["cleanup"].pc # "exit" => \A k \in Range(nodes) : Loaded(k)

\* A unit that is gone or going has been joined, and so has one that is in no
\* list: it is in cleanup's hands if it still has to be.
GoneJoined(k) ==
  /\ unit[k] = "freed" => Joined(k)
  /\ plugin[k] = "unmapped" => k \in Disturbed \/ Joined(k)
  /\ Loaded(k) => \/ k \in Range(list) \/ k \in Disturbed \/ Joined(k)
                  \/ job["cleanup"].pc = "join" /\ job["cleanup"].key = k

JoinedIfGone == \A k \in Key : GoneJoined(k)

\* The same for the plugin that a thread is about to release.
JoinedIfReleased ==
  LET j == job["plugin"]
      c == job["cleanup"]
  IN  /\ by = Nobody =>
           /\ j.pc = "link" => plugin[j.key] = "mapped"
           /\ j.pc = "del" => j.key \in Range(list) \/ Joined(j.key)
           /\ j.pc = "release" => Joined(j.key)
      /\ c.pc = "release" => c.key \in Disturbed \/ Joined(c.key)

IInv == TypeOK /\ PluginThread /\ CleanupThread /\ Listed /\ JoinedIfGone /\ JoinedIfReleased

\* The program starts in the invariant.
LEMMA InitIInv == Init => IInv
<1> SUFFICES ASSUME Init PROVE IInv
  OBVIOUS
<1>1. << >> \in Seq(Key) /\ Range(<< >>) = {}
  BY DEF Range
<1>2. TypeOK
  BY <1>1 DEF Init, TypeOK, Idle, Place, Actor, Reader
<1>3. PluginThread /\ CleanupThread /\ Listed
  BY <1>1 DEF Init, PluginThread, CleanupThread, Listed, Loaded, Idle, Actor
<1>4. JoinedIfGone /\ JoinedIfReleased
  BY DEF Init, JoinedIfGone, GoneJoined, JoinedIfReleased, Loaded, Idle, Actor
<1> QED
  BY <1>2, <1>3, <1>4 DEF IInv

\* A step that leaves the lists, the memory and the jobs alone.
LEMMA QuietStep ==
  ASSUME IInv, TypeOK', UNCHANGED <<list, nodes, unit, plugin, job, by, late>>,
         plugin_lock'.writer = plugin_lock.writer,
         \A k \in Key : upd[k] = "done" => upd'[k] = "done"
  PROVE  IInv'
<1>1. PluginThread' /\ CleanupThread' /\ Listed'
  BY DEF IInv, PluginThread, CleanupThread, Listed, Loaded
<1>2. \A k \in Key : Joined(k) => Joined(k)'
  BY DEF Joined
<1>3. JoinedIfGone'
  BY <1>2 DEF IInv, JoinedIfGone, GoneJoined, Loaded, Disturbed
<1>4. JoinedIfReleased'
  BY <1>1, <1>2 DEF IInv, JoinedIfReleased, PluginThread, CleanupThread, Disturbed
<1> QED
  BY <1>1, <1>3, <1>4 DEF IInv

----------------------------------------------------------------------------
\* What a step of a walk and the handlers may change keeps its type.
LEMMA StepType ==
  ASSUME TypeOK, NEW r \in Reader, NEW q \in Place,
         NEW pc \in {"asleep", "list", "locked", "visited"}, Step(r, pc, q)
  PROVE  walk' \in [Reader -> [pc : {"asleep", "list", "locked", "visited"}, pos : Place]]
BY DEF TypeOK, Step

LEMMA FaultType ==
  ASSUME TypeOK, NEW t \in Thread, Fault(t) \/ Undefined(t) \/ UNCHANGED endVars
  PROVE  /\ handler' \subseteq Thread /\ by' \in Thread \cup {Nobody}
         /\ stuck' \in BOOLEAN /\ ended' \in {"no", "exit", "aborted"}
         /\ by' = by
BY DEF TypeOK, Fault, Undefined, endVars

LEMMA ThreadType ==
  /\ Reader \subseteq Thread /\ Key \subseteq Thread
  /\ "main" \in Thread /\ "plugin" \in Thread
  /\ Key \subseteq Place /\ End \in Place /\ Null \in Place
  /\ "traversal" \in Reader
BY DEF Thread, Reader, Place

\* The walks ...
LEMMA WalksStep ==
  ASSUME IInv, NEW r \in Reader, Walks(r)
  PROVE  IInv'
<1> USE DEF memoryVars, listVars, lockVars, endVars
<1>1. TypeOK
  BY DEF IInv
<1>2. After(list, End) \in Place /\ After(list, walk[r].pos) \in Place /\ Range(list) \subseteq Key
  BY <1>1, AfterType, RangeType DEF TypeOK
<1>3. CASE BeginWalk(r)
  <2>1. walk' \in [Reader -> [pc : {"asleep", "list", "locked", "visited"}, pos : Place]]
    BY <1>1, <1>2, <1>3, StepType DEF BeginWalk
  <2>2. plugin_lock' \in [writer : Actor \cup {Nobody}, readers : SUBSET Reader]
        /\ plugin_lock'.writer = plugin_lock.writer
    BY <1>1, <1>3 DEF BeginWalk, TypeOK
  <2>3. TypeOK'
    BY <1>1, <1>3, <2>1, <2>2 DEF BeginWalk, TypeOK
  <2> QED
    BY <1>3, <2>2, <2>3, QuietStep DEF BeginWalk
<1>4. CASE EndWalk(r)
  <2>1. walk' \in [Reader -> [pc : {"asleep", "list", "locked", "visited"}, pos : Place]]
    BY <1>1, <1>4, StepType, ThreadType DEF EndWalk
  <2>2. plugin_lock' \in [writer : Actor \cup {Nobody}, readers : SUBSET Reader]
        /\ plugin_lock'.writer = plugin_lock.writer
    BY <1>1, <1>4 DEF EndWalk, TypeOK
  <2>3. TypeOK'
    BY <1>1, <1>4, <2>1, <2>2 DEF EndWalk, TypeOK
  <2> QED
    BY <1>4, <2>2, <2>3, QuietStep DEF EndWalk
<1>5. CASE Stray(r)
  <2>1. walk' \in [Reader -> [pc : {"asleep", "list", "locked", "visited"}, pos : Place]]
    <3>1. CASE UNCHANGED walk
      BY <1>1, <3>1 DEF TypeOK
    <3>2. CASE \E q \in Range(list) \cup {End} : Step(r, "list", q)
      BY <1>1, <1>2, <3>2, StepType, ThreadType
    <3> QED
      BY <1>5, <3>1, <3>2 DEF Stray
  <2>2. Fault(r) \/ Undefined(r) \/ UNCHANGED endVars
    BY <1>5 DEF Stray
  <2>3. /\ handler' \subseteq Thread /\ by' \in Thread \cup {Nobody}
        /\ stuck' \in BOOLEAN /\ ended' \in {"no", "exit", "aborted"}
        /\ by' = by
    BY <1>1, <2>2, FaultType, ThreadType
  <2>4. TypeOK'
    BY <1>1, <1>5, <2>1, <2>3 DEF Stray, TypeOK
  <2> QED
    BY <1>5, <2>3, <2>4, QuietStep DEF Stray
<1>6. CASE Visit(r)
  <2>1. walk[r].pos \in Key
    BY <1>6 DEF Visit
  <2>2. walk' \in [Reader -> [pc : {"asleep", "list", "locked", "visited"}, pos : Place]]
    BY <1>1, <1>6, <2>1, StepType, ThreadType DEF Visit
  <2>3. unit_lock' \in [Key -> Actor \cup {"traversal", Nobody}]
    BY <1>1, <1>6, <2>1 DEF Visit, TypeOK
  <2>4. TypeOK'
    BY <1>1, <1>6, <2>2, <2>3 DEF Visit, TypeOK
  <2> QED
    BY <1>6, <2>4, QuietStep DEF Visit
<1>7. CASE NextUnit(r)
  <2>1. walk' \in [Reader -> [pc : {"asleep", "list", "locked", "visited"}, pos : Place]]
    BY <1>1, <1>2, <1>7, StepType DEF NextUnit
  <2>2. TypeOK'
    BY <1>1, <1>7, <2>1 DEF NextUnit, TypeOK
  <2> QED
    BY <1>7, <2>2, QuietStep DEF NextUnit
<1> QED
  BY <1>3, <1>4, <1>5, <1>6, <1>7 DEF Walks

LEMMA UnlockUnitStep ==
  ASSUME IInv, UnlockUnit
  PROVE  IInv'
<1> USE DEF memoryVars, listVars, lockVars, endVars
<1>1. TypeOK
  BY DEF IInv
<1>2. walk["traversal"].pos \in Place
  BY <1>1, ThreadType DEF TypeOK
<1>3. walk' \in [Reader -> [pc : {"asleep", "list", "locked", "visited"}, pos : Place]]
  BY <1>1, <1>2, StepType, ThreadType DEF UnlockUnit
<1>4. unit_lock' \in [Key -> Actor \cup {"traversal", Nobody}]
  BY <1>1 DEF UnlockUnit, TypeOK
<1>5. TypeOK'
  BY <1>1, <1>3, <1>4 DEF UnlockUnit, TypeOK
<1> QED
  BY <1>5, QuietStep DEF UnlockUnit

\* ... the update threads, a crash and a signal disturb nothing.
LEMMA UpdateStep ==
  ASSUME IInv, NEW k \in Key, Update(k)
  PROVE  IInv'
<1> USE DEF memoryVars, listVars, lockVars, endVars
<1>1. TypeOK
  BY DEF IInv
<1>2. upd' \in [Key -> {"none", "idle", "run", "done"}]
  BY <1>1 DEF Update, TypeOK
<1>3. \A h \in Key : upd[h] = "done" => upd'[h] = "done"
  BY <1>1 DEF Update, TypeOK
<1>4. TypeOK'
  BY <1>1, <1>2 DEF Update, TypeOK
<1> QED
  BY <1>3, <1>4, QuietStep DEF Update

LEMMA HandlerStep ==
  ASSUME IInv, \/ \E k \in Key : Crash(k)
               \/ CrashInit
               \/ Signal
               \/ \E t \in Thread : SignalAgain(t)
               \/ Exit
  PROVE  IInv'
<1> USE DEF memoryVars, listVars, lockVars, endVars
<1>1. TypeOK
  BY DEF IInv
<1>2. UNCHANGED <<list, nodes, unit, plugin, thread_running, upd, plugin_lock, unit_lock,
                  walk, job, by, late>>
  BY DEF Crash, CrashInit, Signal, SignalAgain, Exit, Fault
<1>3. handler' \subseteq Thread /\ stuck' \in BOOLEAN /\ ended' \in {"no", "exit", "aborted"}
  BY <1>1, ThreadType DEF TypeOK, Crash, CrashInit, Signal, SignalAgain, Exit, Fault
<1>4. TypeOK'
  BY <1>1, <1>2, <1>3 DEF TypeOK
<1> QED
  BY <1>2, <1>4, QuietStep

----------------------------------------------------------------------------
Control == {"idle", "link", "del", "stop", "join", "release", "units", "nodes", "exit"}
JobType == [Actor -> [pc : Control, key : Place, next : Place]]

\* What a step of a job does to the jobs.
LEMMA GotoType ==
  ASSUME TypeOK, NEW a \in Actor, NEW pc \in Control, NEW key \in Place, NEW next \in Place,
         Goto(a, pc, key, next)
  PROVE  /\ job' \in JobType
         /\ job'[a] = [pc |-> pc, key |-> key, next |-> next]
         /\ \A b \in Actor \ {a} : job'[b] = job[b]
<1>1. job \in JobType
  BY DEF TypeOK, JobType, Control
<1> QED
  BY <1>1 DEF Goto, JobType

LEMMA GoOnType ==
  ASSUME TypeOK, NEW a \in Actor, NEW pc \in Control, GoOn(a, pc)
  PROVE  /\ job' \in JobType
         /\ job'[a].pc = pc /\ job'[a].key = job[a].key /\ job'[a].next = job[a].next
         /\ \A b \in Actor \ {a} : job'[b] = job[b]
<1>1. job \in JobType
  BY DEF TypeOK, JobType, Control
<1> QED
  BY <1>1 DEF GoOn, JobType

LEMMA IdleType ==
  ASSUME TypeOK, NEW a \in Actor, job' = [job EXCEPT ![a] = Idle]
  PROVE  /\ job' \in JobType
         /\ job'[a] = Idle
         /\ \A b \in Actor \ {a} : job'[b] = job[b]
<1>1. job \in JobType
  BY DEF TypeOK, JobType, Control
<1>2. Idle \in [pc : Control, key : Place, next : Place]
  BY DEF Idle, Control, Place
<1> QED
  BY <1>1, <1>2 DEF JobType

\* The plugin thread begins to load a plugin ...
LEMMA LoadPluginStep ==
  ASSUME IInv, NEW k \in Key, LoadPlugin(k)
  PROVE  IInv'
<1> USE DEF memoryVars, listVars, lockVars, endVars
<1>1. TypeOK /\ "plugin" \in Actor /\ "cleanup" \in Actor /\ Actor = {"plugin", "cleanup"}
  BY DEF IInv, Actor
<1>2. CASE nodes = Null /\ Fault("plugin") /\ UNCHANGED <<nodes, memoryVars, job, late>>
  <2>1. UNCHANGED <<list, nodes, unit, plugin, thread_running, upd, plugin_lock, unit_lock,
                    walk, job, late>>
    BY <1>2 DEF LoadPlugin
  <2>2. /\ handler' \subseteq Thread /\ by' \in Thread \cup {Nobody}
        /\ stuck' \in BOOLEAN /\ ended' \in {"no", "exit", "aborted"}
        /\ by' = by
    BY <1>1, <1>2, FaultType, ThreadType
  <2>3. TypeOK'
    BY <1>1, <2>1, <2>2 DEF TypeOK
  <2> QED
    BY <2>1, <2>2, <2>3, QuietStep
<1>3. CASE nodes # Null
  <2>1. /\ nodes' = <<k>> \o nodes
        /\ plugin' = [plugin EXCEPT ![k] = "mapped"]
        /\ unit' = [unit EXCEPT ![k] = "live"]
        /\ thread_running' = [thread_running EXCEPT ![k] = TRUE]
        /\ upd' = [upd EXCEPT ![k] = "idle"]
        /\ Goto("plugin", "link", k, Null)
        /\ late' = IF by = Nobody THEN late ELSE late \cup {k}
        /\ UNCHANGED <<handler, by, stuck, ended, list, plugin_lock, unit_lock, walk>>
    BY <1>3 DEF LoadPlugin
  <2>2. plugin[k] = "none" /\ job["plugin"].pc = "idle"
    BY DEF LoadPlugin
  <2>3. /\ job' \in JobType
        /\ job'["plugin"] = [pc |-> "link", key |-> k, next |-> Null]
        /\ job'["cleanup"] = job["cleanup"]
    BY <1>1, <2>1, GotoType, ThreadType DEF Control
  <2>3a. job["cleanup"].pc # "exit"
    BY <1>3 DEF IInv, CleanupThread
  <2>4. nodes \in Seq(Key) /\ nodes' \in Seq(Key) /\ Range(nodes') = Range(nodes) \cup {k}
    <3>1. nodes \in Seq(Key)
      BY <1>1, <1>3 DEF TypeOK
    <3>2. nodes' \in Seq(Key) /\ Len(nodes') = 1 + Len(nodes)
          /\ \A i \in 1..(1 + Len(nodes)) : nodes'[i] = IF i <= 1 THEN k ELSE nodes[i - 1]
      BY <2>1, <3>1
    <3>3. Range(nodes') \subseteq Range(nodes) \cup {k}
      <4> SUFFICES ASSUME NEW i \in DOMAIN nodes' PROVE nodes'[i] \in Range(nodes) \cup {k}
        BY DEF Range
      <4>1. CASE i = 1
        BY <3>1, <3>2, <4>1
      <4>2. CASE i # 1
        <5>1. i - 1 \in DOMAIN nodes /\ nodes'[i] = nodes[i - 1]
          BY <3>1, <3>2, <4>2
        <5> QED
          BY <5>1 DEF Range
      <4> QED
        BY <4>1, <4>2
    <3>4. k \in Range(nodes')
      <4>1. 1 \in DOMAIN nodes' /\ nodes'[1] = k
        BY <3>1, <3>2
      <4> QED
        BY <4>1 DEF Range
    <3>5. ASSUME NEW i \in DOMAIN nodes PROVE nodes[i] \in Range(nodes')
      <4>1. i + 1 \in DOMAIN nodes' /\ nodes'[i + 1] = nodes[i]
        BY <3>1, <3>2
      <4> QED
        BY <4>1 DEF Range
    <3>6. Range(nodes) \subseteq Range(nodes')
      BY <3>5 DEF Range
    <3> QED
      BY <3>1, <3>2, <3>3, <3>4, <3>6
  <2>5. /\ plugin' \in [Key -> {"none", "mapped", "unmapped"}]
        /\ unit' \in [Key -> {"none", "live", "freed"}]
        /\ thread_running' \in [Key -> BOOLEAN]
        /\ upd' \in [Key -> {"none", "idle", "run", "done"}]
        /\ plugin'[k] = "mapped" /\ unit'[k] = "live"
        /\ \A h \in Key \ {k} : plugin'[h] = plugin[h] /\ unit'[h] = unit[h] /\ upd'[h] = upd[h]
    BY <1>1, <2>1 DEF TypeOK
  <2>6. late \subseteq late' /\ late' \subseteq Key /\ (by = Nobody => late' = late)
    BY <1>1, <2>1 DEF TypeOK
  <2>7. TypeOK'
    BY <1>1, <2>1, <2>3, <2>4, <2>5, <2>6 DEF TypeOK, JobType, Control
  <2>8. \A h \in Key : Loaded(h) => Loaded(h)'
    BY <2>5 DEF Loaded
  <2>9. Range(list) \subseteq Key /\ Range(nodes) \subseteq Key
    BY <1>1, <2>4, RangeType DEF TypeOK
  <2>10. PluginThread'
    BY <2>3, <2>5 DEF PluginThread, Loaded
  <2>11. CleanupThread'
    BY <2>1, <2>3, <2>4, <2>6, <2>8, <2>3a DEF IInv, CleanupThread
  <2>12. Listed'
    BY <2>1, <2>3, <2>4, <2>5, <2>8, <2>9, <2>3a DEF IInv, Listed, Loaded
  <2>13. Disturbed \cap Key \subseteq Disturbed' /\ k \in Disturbed'
    BY <2>2, <2>3, <2>6 DEF Disturbed, IInv, PluginThread
  <2>14. \A h \in Key \ {k} : Joined(h) => Joined(h)'
    BY <2>1, <2>5 DEF Joined
  <2>15. JoinedIfGone'
    <3> SUFFICES ASSUME NEW h \in Key PROVE GoneJoined(h)'
      BY DEF JoinedIfGone
    <3>1. CASE h = k
      BY <2>5, <2>13, <3>1 DEF GoneJoined
    <3>2. CASE h # k
      <4>1. GoneJoined(h)
        BY DEF IInv, JoinedIfGone
      <4> QED
        BY <2>1, <2>3, <2>5, <2>13, <2>14, <3>2, <4>1 DEF GoneJoined, Loaded
    <3> QED
      BY <3>1, <3>2
  <2>16. JoinedIfReleased'
    <3>1. job["cleanup"].pc = "release" =>
            /\ job["cleanup"].key \in Key \ {k}
            /\ job["cleanup"].key \in Disturbed \/ Joined(job["cleanup"].key)
      BY <2>2 DEF IInv, CleanupThread, JoinedIfReleased, Loaded
    <3> QED
      BY <2>3, <2>5, <2>13, <2>14, <3>1 DEF JoinedIfReleased
  <2> QED
    BY <2>7, <2>10, <2>11, <2>12, <2>15, <2>16 DEF IInv
<1> QED
  BY <1>2, <1>3 DEF LoadPlugin

\* What the history notes.
LEMMA NoteType ==
  ASSUME IInv, NEW a \in Actor, job[a].pc # "idle", Note(a)
  PROVE  /\ late \subseteq late' /\ late' \subseteq Key
         /\ by = Nobody => late' = late
         /\ a = "plugin" /\ by # Nobody => job["plugin"].key \in late'
         /\ a = "plugin" => job["plugin"].key \in Key /\ Loaded(job["plugin"].key)
BY DEF IInv, TypeOK, PluginThread, Note, Actor

\* ... links its unit into the list ...
LEMMA AddMetricStep ==
  ASSUME IInv, AddMetric
  PROVE  IInv'
<1> USE DEF memoryVars, listVars, lockVars, endVars
<1> DEFINE p == job["plugin"].key
<1>1. TypeOK /\ "plugin" \in Actor /\ "cleanup" \in Actor /\ Actor = {"plugin", "cleanup"}
  BY DEF IInv, Actor
<1>2. /\ job' \in JobType
      /\ job'["plugin"] = Idle
      /\ job'["cleanup"] = job["cleanup"]
  BY <1>1, IdleType DEF AddMetric
<1>3. /\ late \subseteq late' /\ late' \subseteq Key
      /\ by = Nobody => late' = late
      /\ by # Nobody => p \in late'
      /\ p \in Key /\ Loaded(p)
  BY <1>1, NoteType DEF AddMetric
<1> HIDE DEF p
<1>4. list' \in Seq(Key) /\ Range(list') = Range(list) \cup {p}
  <2>1. list \in Seq(Key) /\ list' = Append(list, p)
    BY <1>1 DEF TypeOK, AddMetric, p
  <2>2. /\ list' \in Seq(Key) /\ Len(list') = Len(list) + 1
        /\ list'[Len(list) + 1] = p
        /\ \A i \in 1..Len(list) : list'[i] = list[i]
    BY <1>3, <2>1
  <2>3. DOMAIN list' = DOMAIN list \cup {Len(list) + 1}
    BY <2>1, <2>2
  <2> QED
    BY <2>1, <2>2, <2>3 DEF Range
<1>5. TypeOK'
  BY <1>1, <1>2, <1>3, <1>4 DEF AddMetric, TypeOK, JobType, Control
<1>6. PluginThread' /\ CleanupThread' /\ Listed'
  BY <1>2, <1>3, <1>4 DEF IInv, AddMetric, PluginThread, CleanupThread, Listed, Loaded, Idle
<1>7. \A k \in Key : Joined(k)' <=> Joined(k)
  BY DEF AddMetric, Joined
<1>8. /\ by # Nobody => Disturbed \cap Key \subseteq Disturbed'
      /\ Disturbed \cap Key \subseteq Disturbed' \cup {p}
  BY <1>1, <1>3 DEF Disturbed, p
<1>9. by = Nobody => plugin[p] = "mapped"
  BY DEF IInv, JoinedIfReleased, AddMetric, p
<1>10. JoinedIfGone'
  <2> SUFFICES ASSUME NEW k \in Key PROVE GoneJoined(k)'
    BY DEF JoinedIfGone
  <2>1. GoneJoined(k)
    BY DEF IInv, JoinedIfGone
  <2>2. UNCHANGED <<unit, plugin, by>>
    BY DEF AddMetric
  <2> QED
    BY <1>2, <1>3, <1>4, <1>7, <1>8, <1>9, <2>1, <2>2 DEF GoneJoined, Loaded
<1>11. JoinedIfReleased'
  <2>1. job["cleanup"].pc = "release" =>
          /\ job["cleanup"].key \in Key
          /\ job["cleanup"].key \in Disturbed \/ Joined(job["cleanup"].key)
    BY DEF IInv, CleanupThread, JoinedIfReleased
  <2>2. job["cleanup"].pc = "release" => by # Nobody
    BY DEF IInv, CleanupThread, Idle
  <2> QED
    BY <1>2, <1>7, <1>8, <2>1, <2>2 DEF JoinedIfReleased, Idle
<1> QED
  BY <1>5, <1>6, <1>10, <1>11 DEF IInv

\* ... or begins to unload one.
LEMMA UnloadPluginStep ==
  ASSUME IInv, NEW k \in Key, UnloadPlugin(k)
  PROVE  IInv'
<1> USE DEF memoryVars, listVars, lockVars, endVars
<1>1. TypeOK /\ "plugin" \in Actor /\ "cleanup" \in Actor /\ Actor = {"plugin", "cleanup"}
  BY DEF IInv, Actor
<1>2. /\ job' \in JobType
      /\ job'["plugin"] = [pc |-> "del", key |-> k, next |-> Null]
      /\ job'["cleanup"] = job["cleanup"]
  BY <1>1, GotoType, ThreadType DEF UnloadPlugin, Control
<1>3. late \subseteq late' /\ late' \subseteq Key /\ (by = Nobody => late' = late)
  BY <1>1 DEF TypeOK, UnloadPlugin
<1>4. UNCHANGED <<list, nodes, unit, plugin, thread_running, upd, plugin_lock, unit_lock,
                  walk, handler, by, stuck, ended>>
  BY DEF UnloadPlugin
<1>5. TypeOK'
  BY <1>1, <1>2, <1>3, <1>4 DEF TypeOK, JobType, Control
<1>6. Loaded(k)
  <2>1. job["cleanup"].pc # "exit"
    BY DEF IInv, CleanupThread, UnloadPlugin
  <2> QED
    BY <2>1 DEF IInv, Listed, UnloadPlugin
<1>7. PluginThread' /\ CleanupThread' /\ Listed'
  BY <1>2, <1>3, <1>4, <1>6 DEF IInv, PluginThread, CleanupThread, Listed, Loaded
<1>8. job["plugin"].pc = "idle" /\ job["plugin"].key = Null
  BY DEF IInv, PluginThread, UnloadPlugin
<1>9. Disturbed \cap Key \subseteq Disturbed'
  BY <1>2, <1>3, <1>8 DEF Disturbed
<1>10. \A h \in Key : Joined(h)' <=> Joined(h)
  BY <1>4 DEF Joined
<1>11. JoinedIfGone'
  <2> SUFFICES ASSUME NEW h \in Key PROVE GoneJoined(h)'
    BY DEF JoinedIfGone
  <2>1. GoneJoined(h)
    BY DEF IInv, JoinedIfGone
  <2> QED
    BY <1>2, <1>4, <1>9, <1>10, <2>1 DEF GoneJoined, Loaded
<1>12. by = Nobody => k \in Range(list) \/ Joined(k)
  <2> SUFFICES ASSUME by = Nobody PROVE k \in Range(list) \/ Joined(k)
    OBVIOUS
  <2>1. GoneJoined(k) /\ late = {} /\ job["cleanup"] = Idle
    BY DEF IInv, JoinedIfGone, CleanupThread
  <2>2. k \notin Disturbed
    BY <1>8, <2>1 DEF Disturbed
  <2> QED
    BY <1>6, <2>1, <2>2 DEF GoneJoined, Idle
<1>13. JoinedIfReleased'
  <2>1. job["cleanup"].pc = "release" =>
          /\ job["cleanup"].key \in Key
          /\ job["cleanup"].key \in Disturbed \/ Joined(job["cleanup"].key)
    BY DEF IInv, CleanupThread, JoinedIfReleased
  <2> QED
    BY <1>2, <1>4, <1>9, <1>10, <1>12, <2>1 DEF JoinedIfReleased
<1> QED
  BY <1>5, <1>7, <1>11, <1>13 DEF IInv

----------------------------------------------------------------------------
\* A handler begins to clean up ...
LEMMA BeginCleanupStep ==
  ASSUME IInv, NEW t \in Thread, BeginCleanup(t)
  PROVE  IInv'
<1> USE DEF memoryVars, listVars, lockVars, endVars
<1>1. TypeOK /\ "plugin" \in Actor /\ "cleanup" \in Actor /\ Actor = {"plugin", "cleanup"}
  BY DEF IInv, Actor
<1> DEFINE p == After(list, End)
           q == After(list, p)
<1>2. p \in Place /\ q \in Place /\ p \in Range(list) \cup {End, Null}
      /\ q \in Range(list) \cup {End, Null}
  BY <1>1, AfterType DEF TypeOK
<1>3. Goto("cleanup", "units", p, q)
  BY DEF BeginCleanup
<1> HIDE DEF p, q
<1>4. /\ job' \in JobType
      /\ job'["cleanup"] = [pc |-> "units", key |-> p, next |-> q]
      /\ job'["plugin"] = job["plugin"]
  BY <1>1, <1>2, <1>3, GotoType DEF Control
<1>5. /\ by = Nobody /\ by' = t /\ t # Nobody
      /\ UNCHANGED <<list, nodes, unit, plugin, thread_running, upd, plugin_lock, unit_lock,
                     walk, handler, stuck, late, ended>>
  BY DEF BeginCleanup, Thread, Reader, Nobody
<1>6. TypeOK'
  BY <1>1, <1>4, <1>5 DEF TypeOK, JobType, Control
<1>7. nodes \in Seq(Key) /\ job["cleanup"].pc = "idle"
  BY <1>5 DEF IInv, CleanupThread, Idle
<1>8. PluginThread' /\ CleanupThread' /\ Listed'
  BY <1>2, <1>4, <1>5, <1>7 DEF IInv, PluginThread, CleanupThread, Listed, Loaded
<1>9. /\ \A k \in Key : Joined(k) => Joined(k)'
      /\ Disturbed' = Disturbed
  BY <1>4, <1>5 DEF Joined, Disturbed
<1>10. JoinedIfGone'
  <2> SUFFICES ASSUME NEW k \in Key PROVE GoneJoined(k)'
    BY DEF JoinedIfGone
  <2>1. GoneJoined(k) /\ job["cleanup"] = Idle
    BY <1>5 DEF IInv, JoinedIfGone, CleanupThread
  <2> QED
    BY <1>5, <1>9, <2>1 DEF GoneJoined, Loaded, Idle
<1>11. JoinedIfReleased'
  BY <1>4, <1>5 DEF JoinedIfReleased
<1> QED
  BY <1>6, <1>8, <1>10, <1>11 DEF IInv

\* ... comes to the next unit ...
LEMMA CleanUnitsStep ==
  ASSUME IInv, CleanUnits
  PROVE  IInv'
<1> USE DEF memoryVars, listVars, lockVars, endVars
<1> DEFINE c == job["cleanup"].key
           p == After(nodes, End)
           q == After(nodes, p)
<1>1. TypeOK /\ "plugin" \in Actor /\ "cleanup" \in Actor /\ Actor = {"plugin", "cleanup"}
  BY DEF IInv, Actor
<1>2. job["cleanup"].pc = "units" /\ by # Nobody /\ nodes \in Seq(Key)
      /\ UNCHANGED <<list, nodes, unit, plugin, thread_running, upd, plugin_lock, unit_lock,
                     walk, late>>
  BY DEF IInv, CleanupThread, CleanUnits, Acts
<1>3. p \in Place /\ q \in Place /\ p \in Range(nodes) \cup {End, Null}
      /\ q \in Range(nodes) \cup {End, Null}
  BY <1>2, AfterType
<1>4. \/ c \in Key /\ GoOn("cleanup", "stop") /\ UNCHANGED endVars
      \/ ActorFails("cleanup") /\ UNCHANGED job
      \/ Goto("cleanup", "nodes", p, q) /\ UNCHANGED endVars
  BY DEF CleanUnits
<1> HIDE DEF p, q
<1>5. CASE ActorFails("cleanup") /\ UNCHANGED job
  <2>1. TypeOK' /\ UNCHANGED by
    BY <1>1, <1>2, <1>5 DEF TypeOK, ActorFails
  <2> QED
    BY <1>2, <1>5, <2>1, QuietStep
<1>6. CASE \/ c \in Key /\ GoOn("cleanup", "stop") /\ UNCHANGED endVars
           \/ Goto("cleanup", "nodes", p, q) /\ UNCHANGED endVars
  <2>1. /\ job' \in JobType
        /\ job'["plugin"] = job["plugin"]
        /\ UNCHANGED <<handler, by, stuck, ended>>
        /\ \/ /\ c \in Key /\ job'["cleanup"].pc = "stop"
              /\ job'["cleanup"].key = c /\ job'["cleanup"].next = job["cleanup"].next
           \/ job'["cleanup"] = [pc |-> "nodes", key |-> p, next |-> q]
    <3>1. CASE c \in Key /\ GoOn("cleanup", "stop") /\ UNCHANGED endVars
      BY <1>1, <3>1, GoOnType DEF Control
    <3>2. CASE Goto("cleanup", "nodes", p, q) /\ UNCHANGED endVars
      BY <1>1, <1>3, <3>2, GotoType DEF Control
    <3> QED
      BY <1>6, <3>1, <3>2
  <2>2. TypeOK'
    BY <1>1, <1>2, <2>1 DEF TypeOK, JobType, Control
  <2>3. PluginThread' /\ Listed'
    BY <1>2, <2>1 DEF IInv, PluginThread, Listed, Loaded
  <2>4. CleanupThread'
    <3>1. /\ \A k \in {c, job["cleanup"].next} \cap Key : Loaded(k)
          /\ \A k \in Range(nodes) : Loaded(k)
      BY <1>2 DEF IInv, CleanupThread, Listed
    <3> QED
      BY <1>2, <1>3, <2>1, <3>1 DEF CleanupThread, Loaded
  <2>5. (\A k \in Key : Joined(k)' <=> Joined(k)) /\ Disturbed' = Disturbed
    BY <1>2, <2>1 DEF Joined, Disturbed
  <2>6. JoinedIfGone'
    <3> SUFFICES ASSUME NEW k \in Key PROVE GoneJoined(k)'
      BY DEF JoinedIfGone
    <3>1. GoneJoined(k)
      BY DEF IInv, JoinedIfGone
    <3> QED
      BY <1>2, <2>5, <3>1 DEF GoneJoined, Loaded
  <2>7. JoinedIfReleased'
    BY <1>2, <2>1 DEF JoinedIfReleased
  <2> QED
    BY <2>2, <2>3, <2>4, <2>6, <2>7 DEF IInv
<1> QED
  BY <1>4, <1>5, <1>6

\* ... and to the next node.
LEMMA CleanNodesStep ==
  ASSUME IInv, CleanNodes
  PROVE  IInv'
<1> USE DEF memoryVars, listVars, lockVars, endVars
<1> DEFINE c == job["cleanup"].key
<1>1. TypeOK /\ "plugin" \in Actor /\ "cleanup" \in Actor /\ Actor = {"plugin", "cleanup"}
  BY DEF IInv, Actor
<1>2. job["cleanup"].pc = "nodes" /\ by # Nobody /\ nodes \in Seq(Key)
      /\ UNCHANGED <<list, unit, plugin, thread_running, upd, plugin_lock, unit_lock,
                     walk, late>>
  BY DEF IInv, CleanupThread, CleanNodes, Acts
<1>3. \/ c \in Key /\ GoOn("cleanup", "del") /\ UNCHANGED <<nodes, endVars>>
      \/ ActorFails("cleanup") /\ UNCHANGED <<nodes, job>>
      \/ nodes' = Null /\ GoOn("cleanup", "exit") /\ UNCHANGED endVars
  BY DEF CleanNodes
<1>4. CASE ActorFails("cleanup") /\ UNCHANGED <<nodes, job>>
  <2>1. TypeOK' /\ UNCHANGED by
    BY <1>1, <1>2, <1>4 DEF TypeOK, ActorFails
  <2> QED
    BY <1>2, <1>4, <2>1, QuietStep
<1>5. CASE \/ c \in Key /\ GoOn("cleanup", "del") /\ UNCHANGED <<nodes, endVars>>
           \/ nodes' = Null /\ GoOn("cleanup", "exit") /\ UNCHANGED endVars
  <2>1. /\ job' \in JobType
        /\ job'["plugin"] = job["plugin"]
        /\ UNCHANGED <<handler, by, stuck, ended>>
        /\ job'["cleanup"].key = c /\ job'["cleanup"].next = job["cleanup"].next
        /\ \/ c \in Key /\ job'["cleanup"].pc = "del" /\ nodes' = nodes
           \/ job'["cleanup"].pc = "exit" /\ nodes' = Null
    BY <1>1, <1>5, GoOnType DEF Control
  <2>2. TypeOK'
    BY <1>1, <1>2, <2>1 DEF TypeOK, JobType, Control
  <2>3. PluginThread'
    BY <1>2, <2>1 DEF IInv, PluginThread, Loaded
  <2>4. \A k \in {c, job["cleanup"].next} \cap Key : Loaded(k)
    BY DEF IInv, CleanupThread
  <2>5. CleanupThread'
    BY <1>2, <2>1, <2>4 DEF CleanupThread, Loaded
  <2>6. Listed'
    BY <1>2, <2>1 DEF IInv, Listed, Loaded
  <2>7. (\A k \in Key : Joined(k)' <=> Joined(k)) /\ Disturbed' = Disturbed
    BY <1>2, <2>1 DEF Joined, Disturbed
  <2>8. JoinedIfGone'
    <3> SUFFICES ASSUME NEW k \in Key PROVE GoneJoined(k)'
      BY DEF JoinedIfGone
    <3>1. GoneJoined(k)
      BY DEF IInv, JoinedIfGone
    <3> QED
      BY <1>2, <2>7, <3>1 DEF GoneJoined, Loaded
  <2>9. JoinedIfReleased'
    BY <1>2, <2>1 DEF JoinedIfReleased
  <2> QED
    BY <2>2, <2>3, <2>5, <2>6, <2>8, <2>9 DEF IInv
<1> QED
  BY <1>3, <1>4, <1>5

----------------------------------------------------------------------------
\* A fault in a job leaves the holder of clean_mutex.
LEMMA ActorFailsType ==
  ASSUME TypeOK, NEW a \in Actor, ActorFails(a)
  PROVE  /\ handler' \subseteq Thread /\ stuck' \in BOOLEAN
         /\ ended' \in {"no", "exit", "aborted"} /\ by' = by
BY ThreadType DEF TypeOK, ActorFails, Undefined, Fault

\* The keys that a thread works on have been loaded.
LEMMA KeyType ==
  ASSUME IInv, NEW a \in Actor, job[a].pc \in {"del", "stop", "join", "release"}
  PROVE  /\ job[a].key \in Key /\ Loaded(job[a].key)
         /\ a = "cleanup" => by # Nobody
BY DEF IInv, PluginThread, CleanupThread, Actor, Idle

\* _del_metric: what is in no list has been joined.
LEMMA DelMetricStep ==
  ASSUME IInv, NEW a \in Actor, DelMetric(a)
  PROVE  IInv'
<1> USE DEF memoryVars, listVars, lockVars, endVars
<1> DEFINE d == job[a].key
<1>1. TypeOK /\ "plugin" \in Actor /\ "cleanup" \in Actor /\ Actor = {"plugin", "cleanup"}
  BY DEF IInv, Actor
<1>2. /\ job[a].pc = "del" /\ d \in Key /\ Loaded(d) /\ plugin_lock.writer = Nobody
      /\ a = "cleanup" => by # Nobody
      /\ UNCHANGED <<list, nodes, unit, plugin, thread_running, upd, unit_lock, walk,
                     handler, by, stuck, ended>>
  BY KeyType DEF DelMetric, CanWrite
<1>3. /\ late \subseteq late' /\ late' \subseteq Key
      /\ by = Nobody => late' = late
      /\ a = "plugin" /\ by # Nobody => d \in late'
  BY <1>2, NoteType DEF DelMetric
<1>4. \/ /\ d \in Range(list) /\ GoOn(a, "stop")
         /\ plugin_lock' = [plugin_lock EXCEPT !.writer = a]
      \/ d \notin Range(list) /\ GoOn(a, "release") /\ UNCHANGED plugin_lock
  BY DEF DelMetric
<1> HIDE DEF d
<1>5. /\ job' \in JobType
      /\ job'[a].key = d /\ job'[a].next = job[a].next
      /\ \A b \in Actor \ {a} : job'[b] = job[b]
      /\ \/ d \in Range(list) /\ job'[a].pc = "stop" /\ plugin_lock'.writer = a
         \/ d \notin Range(list) /\ job'[a].pc = "release"
      /\ plugin_lock' \in [writer : Actor \cup {Nobody}, readers : SUBSET Reader]
  <2>1. plugin_lock \in [writer : Actor \cup {Nobody}, readers : SUBSET Reader]
    BY <1>1 DEF TypeOK
  <2> QED
    BY <1>1, <1>4, <2>1, GoOnType DEF Control, d
<1>6. TypeOK'
  BY <1>1, <1>2, <1>3, <1>5 DEF TypeOK, JobType, Control
<1>7. d # Null
  BY <1>2
<1>8. PluginThread'
  <2>1. plugin_lock.writer # "plugin"
    BY <1>2 DEF Nobody
  <2> QED
    BY <1>1, <1>2, <1>5, <1>7, <2>1 DEF IInv, PluginThread, Loaded
<1>9. CleanupThread' /\ Listed'
  BY <1>1, <1>2, <1>3, <1>5 DEF IInv, CleanupThread, Listed, Loaded
<1>10. (\A k \in Key : Joined(k)' <=> Joined(k)) /\ Disturbed \cap Key \subseteq Disturbed'
  BY <1>1, <1>2, <1>3, <1>5 DEF Joined, Disturbed, d
<1>11. JoinedIfGone'
  <2> SUFFICES ASSUME NEW k \in Key PROVE GoneJoined(k)'
    BY DEF JoinedIfGone
  <2>1. GoneJoined(k)
    BY DEF IInv, JoinedIfGone
  <2> QED
    BY <1>1, <1>2, <1>5, <1>10, <2>1 DEF GoneJoined, Loaded
<1>12. JoinedIfReleased'
  <2>1. CASE a = "plugin"
    <3>1. by = Nobody => d \in Range(list) \/ Joined(d)
      BY <1>2, <2>1 DEF IInv, JoinedIfReleased, d
    <3>2. job["cleanup"].pc = "release" =>
            /\ job["cleanup"].key \in Key
            /\ job["cleanup"].key \in Disturbed \/ Joined(job["cleanup"].key)
      BY DEF IInv, CleanupThread, JoinedIfReleased
    <3> QED
      BY <1>1, <1>2, <1>5, <1>10, <2>1, <3>1, <3>2 DEF JoinedIfReleased
  <2>2. CASE a = "cleanup"
    <3>1. GoneJoined(d)
      BY <1>2 DEF IInv, JoinedIfGone
    <3> QED
      BY <1>1, <1>2, <1>5, <1>10, <2>2, <3>1 DEF JoinedIfReleased, GoneJoined, d
  <2> QED
    BY <1>1, <2>1, <2>2
<1> QED
  BY <1>6, <1>8, <1>9, <1>11, <1>12 DEF IInv

\* The unit leaves the list, in the hands of the one that deletes it.
LEMMA StopUnitStep ==
  ASSUME IInv, NEW a \in Actor, StopUnit(a)
  PROVE  IInv'
<1> USE DEF memoryVars, listVars, lockVars, endVars
<1> DEFINE d == job[a].key
<1>1. TypeOK /\ "plugin" \in Actor /\ "cleanup" \in Actor /\ Actor = {"plugin", "cleanup"}
  BY DEF IInv, Actor
<1>2. /\ job[a].pc = "stop" /\ d \in Key /\ Loaded(d)
      /\ a = "cleanup" => by # Nobody
      /\ UNCHANGED <<nodes, unit, plugin, upd, plugin_lock, walk, handler, by, stuck, ended>>
  BY KeyType DEF StopUnit
<1>3. /\ late \subseteq late' /\ late' \subseteq Key
      /\ by = Nobody => late' = late
  BY <1>2, NoteType DEF StopUnit
<1>4. /\ job' \in JobType
      /\ job'[a].key = d /\ job'[a].next = job[a].next /\ job'[a].pc = "join"
      /\ \A b \in Actor \ {a} : job'[b] = job[b]
  BY <1>1, GoOnType DEF StopUnit, Control
<1>5. /\ list' \in Seq(Key) /\ Range(list') \subseteq Range(list)
      /\ Range(list) \subseteq Range(list') \cup {d}
  BY <1>1, ListDelType DEF TypeOK, StopUnit
<1>6. /\ unit_lock' \in [Key -> Actor \cup {"traversal", Nobody}]
      /\ thread_running' \in [Key -> BOOLEAN]
  BY <1>1, <1>2 DEF TypeOK, StopUnit
<1>7. TypeOK'
  BY <1>1, <1>2, <1>3, <1>4, <1>5, <1>6 DEF TypeOK, JobType, Control
<1>8. PluginThread' /\ CleanupThread' /\ Listed'
  BY <1>1, <1>2, <1>3, <1>4, <1>5 DEF IInv, PluginThread, CleanupThread, Listed, Loaded
<1>9. (\A k \in Key : Joined(k)' <=> Joined(k)) /\ Disturbed \cap Key \subseteq Disturbed'
  BY <1>1, <1>2, <1>3, <1>4 DEF Joined, Disturbed
<1>10. a = "plugin" => d \in Disturbed'
  BY <1>4 DEF Disturbed
<1>11. JoinedIfGone'
  <2> SUFFICES ASSUME NEW k \in Key PROVE GoneJoined(k)'
    BY DEF JoinedIfGone
  <2>1. GoneJoined(k)
    BY DEF IInv, JoinedIfGone
  <2> HIDE DEF d
  <2>2. CASE a = "plugin"
    BY <1>1, <1>2, <1>4, <1>5, <1>9, <1>10, <2>1, <2>2 DEF GoneJoined, Loaded
  <2>3. CASE a = "cleanup"
    <3>1. job["cleanup"].pc # "join"
      BY <1>2, <2>3
    <3> QED
      BY <1>1, <1>2, <1>4, <1>5, <1>9, <2>1, <2>3, <3>1 DEF GoneJoined, Loaded
  <2> QED
    BY <1>1, <2>2, <2>3
<1>12. JoinedIfReleased'
  <2>1. CASE a = "plugin"
    <3>1. job["cleanup"].pc = "release" =>
            /\ job["cleanup"].key \in Key
            /\ job["cleanup"].key \in Disturbed \/ Joined(job["cleanup"].key)
      BY DEF IInv, CleanupThread, JoinedIfReleased
    <3> QED
      BY <1>1, <1>2, <1>4, <1>9, <2>1, <3>1 DEF JoinedIfReleased
  <2>2. CASE a = "cleanup"
    BY <1>1, <1>2, <1>4, <2>2 DEF JoinedIfReleased
  <2> QED
    BY <1>1, <2>1, <2>2
<1> QED
  BY <1>7, <1>8, <1>11, <1>12 DEF IInv

LEMMA StopFreedUnitStep ==
  ASSUME IInv, NEW a \in Actor, StopFreedUnit(a)
  PROVE  IInv'
<1> USE DEF memoryVars, listVars, lockVars, endVars
<1>1. TypeOK /\ by' = by /\ (a = "cleanup" => by # Nobody)
      /\ UNCHANGED <<list, nodes, unit, plugin, thread_running, upd, plugin_lock, unit_lock,
                     walk, job>>
  BY ActorFailsType, KeyType DEF IInv, StopFreedUnit
<1>2. /\ late \subseteq late' /\ late' \subseteq Key
      /\ by = Nobody => late' = late
  BY NoteType DEF StopFreedUnit
<1>3. /\ handler' \subseteq Thread /\ stuck' \in BOOLEAN
      /\ ended' \in {"no", "exit", "aborted"}
  BY <1>1, ActorFailsType DEF StopFreedUnit
<1>4. TypeOK'
  BY <1>1, <1>2, <1>3 DEF TypeOK
<1>5. PluginThread' /\ CleanupThread' /\ Listed'
  BY <1>1, <1>2 DEF IInv, PluginThread, CleanupThread, Listed, Loaded
<1>6. (\A k \in Key : Joined(k)' <=> Joined(k)) /\ Disturbed \subseteq Disturbed'
  BY <1>1, <1>2 DEF Joined, Disturbed
<1>7. JoinedIfGone'
  <2> SUFFICES ASSUME NEW k \in Key PROVE GoneJoined(k)'
    BY DEF JoinedIfGone
  <2>1. GoneJoined(k)
    BY DEF IInv, JoinedIfGone
  <2> QED
    BY <1>1, <1>6, <2>1 DEF GoneJoined, Loaded
<1>8. JoinedIfReleased'
  <2>1. job["cleanup"].pc = "release" => job["cleanup"].key \in Key
    BY DEF IInv, CleanupThread
  <2>2. job["plugin"].pc \in {"link", "del", "release"} => job["plugin"].key \in Key
    BY DEF IInv, PluginThread
  <2> QED
    BY <1>1, <1>6, <2>1, <2>2 DEF IInv, JoinedIfReleased
<1> QED
  BY <1>4, <1>5, <1>7, <1>8 DEF IInv

\* What the unit's thread has to be for its memory to go.
LEMMA FreeUnitStep ==
  ASSUME IInv, NEW a \in Actor, FreeUnit(a)
  PROVE  IInv'
<1> USE DEF memoryVars, listVars, lockVars, endVars
<1> DEFINE d == job[a].key
           n == job[a].next
           q == After(list, n)
<1>1. TypeOK /\ "plugin" \in Actor /\ "cleanup" \in Actor /\ Actor = {"plugin", "cleanup"}
  BY DEF IInv, Actor
<1>2. /\ job[a].pc = "join" /\ d \in Key /\ Loaded(d) /\ Joined(d)
      /\ a = "cleanup" => by # Nobody
      /\ a = "plugin" => upd[d] = "done"
      /\ unit' = [unit EXCEPT ![d] = "freed"]
      /\ unit_lock' = [unit_lock EXCEPT ![d] = Nobody]
      /\ UNCHANGED <<list, nodes, plugin, thread_running, upd, walk, handler, by, stuck, ended>>
  BY KeyType DEF FreeUnit, Joined
<1>3. /\ late \subseteq late' /\ late' \subseteq Key
      /\ by = Nobody => late' = late
  BY <1>2, NoteType DEF FreeUnit
<1>4. n \in Place /\ q \in Place /\ q \in Range(list) \cup {End, Null}
  BY <1>1, AfterType DEF TypeOK
<1>5. \/ /\ plugin_lock.writer = a /\ GoOn(a, "release")
         /\ plugin_lock' = [plugin_lock EXCEPT !.writer = Nobody]
      \/ plugin_lock.writer # a /\ Goto(a, "units", n, q) /\ UNCHANGED plugin_lock
  BY DEF FreeUnit
<1> HIDE DEF q
<1>6. /\ job' \in JobType
      /\ \A b \in Actor \ {a} : job'[b] = job[b]
      /\ plugin_lock' \in [writer : Actor \cup {Nobody}, readers : SUBSET Reader]
      /\ \/ /\ plugin_lock.writer = a
            /\ job'[a].pc = "release" /\ job'[a].key = d /\ job'[a].next = n
         \/ /\ plugin_lock.writer # a /\ plugin_lock' = plugin_lock
            /\ job'[a] = [pc |-> "units", key |-> n, next |-> q]
  <2>1. plugin_lock \in [writer : Actor \cup {Nobody}, readers : SUBSET Reader]
    BY <1>1 DEF TypeOK
  <2>2. CASE plugin_lock.writer = a
    BY <1>1, <1>5, <2>1, <2>2, GoOnType DEF Control
  <2>3. CASE plugin_lock.writer # a
    BY <1>1, <1>4, <1>5, <2>1, <2>3, GotoType DEF Control
  <2> QED
    BY <2>2, <2>3
<1>7. unit' \in [Key -> {"none", "live", "freed"}]
      /\ unit_lock' \in [Key -> Actor \cup {"traversal", Nobody}]
      /\ \A k \in Key \ {d} : unit'[k] = unit[k]
  BY <1>1, <1>2 DEF TypeOK
<1>8. TypeOK'
  BY <1>1, <1>2, <1>3, <1>6, <1>7 DEF TypeOK, JobType, Control
<1>9. a = "plugin" => plugin_lock.writer = a
  BY <1>2 DEF IInv, PluginThread
<1>10. PluginThread'
  <2>1. CASE a = "plugin"
    BY <1>1, <1>2, <1>6, <1>9, <2>1 DEF IInv, PluginThread, Loaded
  <2>2. CASE a = "cleanup"
    <3>1. plugin_lock.writer = "plugin" => plugin_lock'.writer = "plugin"
      BY <1>6, <2>2
    <3>2. job'["plugin"] = job["plugin"]
      BY <1>1, <1>6, <2>2
    <3> QED
      BY <1>2, <3>1, <3>2 DEF IInv, PluginThread, Loaded
  <2> QED
    BY <1>1, <2>1, <2>2
<1>11. Listed'
  <2>1. job'["cleanup"].pc = "exit" <=> job["cleanup"].pc = "exit"
    BY <1>1, <1>2, <1>6
  <2> QED
    BY <1>2, <2>1 DEF IInv, Listed, Loaded
<1>12. CleanupThread'
  <2>1. CASE a = "plugin"
    BY <1>1, <1>2, <1>3, <1>6, <2>1 DEF IInv, CleanupThread, Loaded
  <2>2. CASE a = "cleanup"
    <3>1. /\ \A k \in {d, n} \cap Key : Loaded(k)
          /\ \A k \in Range(list) : Loaded(k)
          /\ nodes \in Seq(Key)
      BY <1>2, <2>2 DEF IInv, CleanupThread, Listed
    <3> QED
      BY <1>2, <1>4, <1>6, <2>2, <3>1 DEF CleanupThread, Loaded
  <2> QED
    BY <1>1, <2>1, <2>2
<1>13. (\A k \in Key : Joined(k)' <=> Joined(k)) /\ Disturbed \cap Key \subseteq Disturbed'
  <2>1. Disturbed \cap Key \subseteq Disturbed'
    BY <1>1, <1>3, <1>6, <1>9 DEF Disturbed
  <2> QED
    BY <1>2, <2>1 DEF Joined
<1>14. JoinedIfGone'
  <2> SUFFICES ASSUME NEW k \in Key PROVE GoneJoined(k)'
    BY DEF JoinedIfGone
  <2>1. GoneJoined(k)
    BY DEF IInv, JoinedIfGone
  <2>2. job["cleanup"].pc = "join" /\ job["cleanup"].key = k
        => Joined(k) \/ job'["cleanup"] = job["cleanup"]
    BY <1>1, <1>2, <1>6
  <2> QED
    BY <1>2, <1>7, <1>13, <2>1, <2>2 DEF GoneJoined, Loaded
<1>15. JoinedIfReleased'
  <2>1. CASE a = "plugin"
    <3>1. job["cleanup"].pc = "release" =>
            /\ job["cleanup"].key \in Key
            /\ job["cleanup"].key \in Disturbed \/ Joined(job["cleanup"].key)
      BY DEF IInv, CleanupThread, JoinedIfReleased
    <3> QED
      BY <1>1, <1>2, <1>6, <1>9, <1>13, <2>1, <3>1 DEF JoinedIfReleased
  <2>2. CASE a = "cleanup"
    BY <1>1, <1>2, <1>6, <1>13, <2>2 DEF JoinedIfReleased
  <2> QED
    BY <1>1, <2>1, <2>2
<1> QED
  BY <1>8, <1>10, <1>11, <1>12, <1>14, <1>15 DEF IInv

\* The library goes.
LEMMA ReleasePluginStep ==
  ASSUME IInv, NEW a \in Actor, ReleasePlugin(a)
  PROVE  IInv'
<1> USE DEF memoryVars, listVars, lockVars, endVars
<1> DEFINE d == job[a].key
           n == job[a].next
           rest == ListDel(nodes, d)
           q == After(rest, n)
<1>1. TypeOK /\ "plugin" \in Actor /\ "cleanup" \in Actor /\ Actor = {"plugin", "cleanup"}
  BY DEF IInv, Actor
<1>2. /\ job[a].pc = "release" /\ d \in Key /\ Loaded(d)
      /\ a = "cleanup" => by # Nobody
      /\ UNCHANGED <<list, unit, thread_running, upd, plugin_lock, unit_lock, walk>>
  BY KeyType DEF ReleasePlugin
<1>3. /\ late \subseteq late' /\ late' \subseteq Key
      /\ by = Nobody => late' = late
      /\ a = "plugin" /\ by # Nobody => d \in late'
  BY <1>2, NoteType DEF ReleasePlugin
<1>4. CASE ActorFails(a) /\ UNCHANGED <<plugin, nodes, job>>
  <2>1. /\ handler' \subseteq Thread /\ stuck' \in BOOLEAN
        /\ ended' \in {"no", "exit", "aborted"} /\ by' = by
    BY <1>1, <1>4, ActorFailsType
  <2>2. TypeOK'
    BY <1>1, <1>2, <1>3, <1>4, <2>1 DEF TypeOK
  <2>3. PluginThread' /\ CleanupThread' /\ Listed'
    BY <1>2, <1>3, <1>4, <2>1 DEF IInv, PluginThread, CleanupThread, Listed, Loaded
  <2>4. (\A k \in Key : Joined(k)' <=> Joined(k)) /\ Disturbed \subseteq Disturbed'
    BY <1>2, <1>3, <1>4, <2>1 DEF Joined, Disturbed
  <2>5. JoinedIfGone'
    <3> SUFFICES ASSUME NEW k \in Key PROVE GoneJoined(k)'
      BY DEF JoinedIfGone
    <3>1. GoneJoined(k)
      BY DEF IInv, JoinedIfGone
    <3> QED
      BY <1>2, <1>4, <2>4, <3>1 DEF GoneJoined, Loaded
  <2>6. JoinedIfReleased'
    <3>1. job["cleanup"].pc = "release" => job["cleanup"].key \in Key
      BY DEF IInv, CleanupThread
    <3>2. job["plugin"].pc \in {"link", "del", "release"} => job["plugin"].key \in Key
      BY DEF IInv, PluginThread
    <3> QED
      BY <1>2, <1>4, <2>1, <2>4, <3>1, <3>2 DEF IInv, JoinedIfReleased
  <2> QED
    BY <2>2, <2>3, <2>5, <2>6 DEF IInv
<1>5. CASE nodes # Null /\ plugin[d] = "mapped"
  <2>1. /\ plugin' = [plugin EXCEPT ![d] = "unmapped"]
        /\ nodes' = rest
        /\ a = "plugin" => job' = [job EXCEPT ![a] = Idle]
        /\ a = "cleanup" => Goto(a, "nodes", n, q)
        /\ UNCHANGED <<handler, by, stuck, ended>>
    BY <1>1, <1>5 DEF ReleasePlugin
  <2>2. nodes \in Seq(Key) /\ job["cleanup"].pc # "exit"
    BY <1>5 DEF IInv, CleanupThread
  <2>3. rest \in Seq(Key) /\ Range(rest) \subseteq Range(nodes)
    BY <2>2, ListDelType
  <2> HIDE DEF rest
  <2>4. n \in Place /\ q \in Place /\ q \in Range(rest) \cup {End, Null}
    BY <1>1, <2>3, AfterType DEF TypeOK
  <2> HIDE DEF q
  <2>5. /\ job' \in JobType
        /\ \A b \in Actor \ {a} : job'[b] = job[b]
        /\ a = "plugin" => job'[a] = Idle
        /\ a = "cleanup" => job'[a] = [pc |-> "nodes", key |-> n, next |-> q]
    <3>1. CASE a = "plugin"
      BY <1>1, <2>1, <3>1, IdleType
    <3>2. CASE a = "cleanup"
      BY <1>1, <2>1, <2>4, <3>2, GotoType DEF Control
    <3> QED
      BY <1>1, <3>1, <3>2
  <2>6. /\ plugin' \in [Key -> {"none", "mapped", "unmapped"}] /\ plugin'[d] = "unmapped"
        /\ \A k \in Key \ {d} : plugin'[k] = plugin[k]
    BY <1>1, <1>2, <2>1 DEF TypeOK
  <2>7. TypeOK'
    BY <1>1, <1>2, <1>3, <2>1, <2>3, <2>5, <2>6 DEF TypeOK, JobType, Control
  <2>8. \A k \in Key : Loaded(k)' <=> Loaded(k)
    BY <1>2, <2>6 DEF Loaded
  <2>9. PluginThread'
    BY <1>1, <1>2, <2>5, <2>8 DEF IInv, PluginThread, Idle
  <2>10. Listed'
    <3>1. Range(list) \subseteq Key /\ Range(rest) \subseteq Key
      BY <1>1, <2>3, RangeType DEF TypeOK
    <3> QED
      BY <1>2, <2>1, <2>2, <2>3, <2>8, <3>1 DEF IInv, Listed
  <2>11. CleanupThread'
    <3>1. CASE a = "plugin"
      BY <1>1, <1>3, <2>1, <2>2, <2>3, <2>5, <2>8, <3>1 DEF IInv, CleanupThread
    <3>2. CASE a = "cleanup"
      <4>1. /\ \A k \in {d, n} \cap Key : Loaded(k)
            /\ \A k \in Range(rest) : Loaded(k)
        BY <2>2, <2>3, <3>2 DEF IInv, CleanupThread, Listed
      <4> QED
        BY <1>2, <2>1, <2>3, <2>4, <2>5, <2>8, <3>2, <4>1 DEF CleanupThread
    <3> QED
      BY <1>1, <3>1, <3>2
  <2>12. \A k \in Key : Joined(k)' <=> Joined(k)
    BY <1>2, <2>1 DEF Joined
  <2>13. /\ by # Nobody => Disturbed \cap Key \subseteq Disturbed'
         /\ Disturbed \cap Key \subseteq Disturbed' \cup {d}
    BY <1>1, <1>3, <2>5 DEF Disturbed
  <2>14. d \in Disturbed' \/ Joined(d)
    <3>1. CASE a = "plugin"
      BY <1>2, <1>3, <3>1 DEF IInv, JoinedIfReleased, Disturbed
    <3>2. CASE a = "cleanup"
      BY <1>2, <2>13, <3>2 DEF IInv, JoinedIfReleased
    <3> QED
      BY <1>1, <3>1, <3>2
  <2>15. JoinedIfGone'
    <3> SUFFICES ASSUME NEW k \in Key PROVE GoneJoined(k)'
      BY DEF JoinedIfGone
    <3>1. GoneJoined(k)
      BY DEF IInv, JoinedIfGone
    <3> HIDE DEF d
    <3>2. CASE k = d
      BY <1>2, <2>12, <2>14, <3>1, <3>2 DEF GoneJoined
    <3>3. CASE k # d
      <4>1. k \in Disturbed => k \in Disturbed'
        BY <2>13, <3>3
      <4>2. job["cleanup"].pc = "join" => job'["cleanup"] = job["cleanup"]
        BY <1>1, <1>2, <2>5
      <4> QED
        BY <1>2, <2>6, <2>12, <3>1, <3>3, <4>1, <4>2 DEF GoneJoined, Loaded
    <3> QED
      BY <3>2, <3>3
  <2>16. JoinedIfReleased'
    <3>1. CASE a = "plugin"
      <4>1. job["cleanup"].pc = "release" =>
              /\ by # Nobody /\ job["cleanup"].key \in Key
              /\ job["cleanup"].key \in Disturbed \/ Joined(job["cleanup"].key)
        BY DEF IInv, CleanupThread, JoinedIfReleased, Idle
      <4> QED
        BY <1>1, <2>5, <2>12, <2>13, <3>1, <4>1 DEF JoinedIfReleased, Idle
    <3>2. CASE a = "cleanup"
      BY <1>2, <2>1, <2>5, <3>2 DEF JoinedIfReleased
    <3> QED
      BY <1>1, <3>1, <3>2
  <2> QED
    BY <2>7, <2>9, <2>10, <2>11, <2>15, <2>16 DEF IInv
<1> QED
  BY <1>4, <1>5 DEF ReleasePlugin

----------------------------------------------------------------------------
LEMMA StepIInv == IInv /\ [Next]_vars => IInv'
<1> SUFFICES ASSUME IInv, [Next]_vars PROVE IInv'
  OBVIOUS
<1>1. ASSUME NEW r \in Reader, Walks(r) PROVE IInv'
  BY <1>1, WalksStep
<1>2. CASE UnlockUnit
  BY <1>2, UnlockUnitStep
<1>3. ASSUME NEW k \in Key, Update(k) \/ LoadPlugin(k) \/ UnloadPlugin(k) PROVE IInv'
  BY <1>3, UpdateStep, LoadPluginStep, UnloadPluginStep
<1>4. ASSUME NEW a \in Actor, Deletes(a) PROVE IInv'
  BY <1>4, DelMetricStep, StopUnitStep, StopFreedUnitStep, FreeUnitStep, ReleasePluginStep
     DEF Deletes
<1>5. CASE AddMetric
  BY <1>5, AddMetricStep
<1>6. CASE \/ \E k \in Key : Crash(k)
           \/ CrashInit
           \/ Signal
           \/ \E t \in Thread : SignalAgain(t)
           \/ Exit
  BY <1>6, HandlerStep
<1>7. ASSUME NEW t \in Thread, BeginCleanup(t) PROVE IInv'
  BY <1>7, BeginCleanupStep
<1>8. CASE CleanUnits \/ CleanNodes
  BY <1>8, CleanUnitsStep, CleanNodesStep
<1>9. CASE UNCHANGED vars
  <2>1. TypeOK' /\ UNCHANGED <<list, nodes, unit, plugin, job, by, late, plugin_lock, upd>>
    BY <1>9 DEF vars, IInv, TypeOK
  <2> QED
    BY <2>1, QuietStep
<1> QED
  BY <1>1, <1>2, <1>3, <1>4, <1>5, <1>6, <1>7, <1>8, <1>9 DEF Next, Cleans

\* In every state, whatever the signals and the faults.
THEOREM Correct == Spec => []IInv
BY InitIInv, StepIInv, PTL DEF Spec

\* Every variable keeps its type.
THEOREM TypeCorrect == Spec => []TypeOK
<1>1. IInv => TypeOK
  BY DEF IInv
<1> QED
  BY <1>1, Correct, PTL

\* No unit is freed and no library closed under an update thread that runs, but
\* in that thread's own handler or when the plugin thread was at the plugin.
THEOREM JoinedCorrect == Spec => []JoinedBeforeFreed
<1>1. IInv => JoinedBeforeFreed
  BY DEF IInv, JoinedIfGone, GoneJoined, JoinedBeforeFreed, Joined
<1> QED
  BY <1>1, Correct, PTL

----------------------------------------------------------------------------
(***************************************************************************)
(* What a walk with list_for_each_safe comes to.                           *)
(***************************************************************************)
\* Nothing is in a list twice.
NoneTwice(l) == \A i, j \in DOMAIN l : l[i] = l[j] => i = j

\* What a walk that stands before p in l still comes to: a walk that has lost the
\* list never gets to an end, so that everything is to come.
ToCome(l, p) ==
  IF p = End THEN {}
  ELSE IF p \notin Range(l) THEN Key
  ELSE {l[i] : i \in {i \in DOMAIN l : \E j \in 1..i : l[j] = p}}

\* The same for list_for_each_safe, which has its next entry already.
Coming(l, p, next) == IF p = End THEN {} ELSE {p} \cup ToCome(l, next)


\* The walk goes on ...
LEMMA Advance ==
  ASSUME NEW l \in Seq(Key), NoneTwice(l), NEW p
  PROVE  ToCome(l, p) \subseteq Coming(l, p, After(l, p))
<1>1. CASE p = End
  BY <1>1 DEF ToCome
<1>2. CASE p # End /\ p \notin Range(l)
  <2>1. After(l, p) = Null /\ Null \notin Range(l) /\ ToCome(l, p) \subseteq Key
    BY <1>2, RangeType DEF After, ToCome
  <2>2. ToCome(l, Null) = Key
    BY <2>1 DEF ToCome
  <2> QED
    BY <1>2, <2>1, <2>2 DEF Coming
<1>3. CASE p # End /\ p \in Range(l)
  <2> DEFINE n == CHOOSE n \in DOMAIN l : l[n] = p
  <2>1. n \in 1..Len(l) /\ l[n] = p
    BY <1>3 DEF Range
  <2>2. After(l, p) = IF n = Len(l) THEN End ELSE l[n + 1]
    BY <1>3 DEF After
  <2> HIDE DEF n
  <2>3. ASSUME NEW i \in DOMAIN l, NEW j \in 1..i, l[j] = p, l[i] # p
        PROVE  l[i] \in ToCome(l, After(l, p))
    <3>1. j = n /\ i # n
      BY <2>1, <2>3 DEF NoneTwice
    <3>2. n # Len(l) /\ n + 1 \in 1..i /\ n + 1 \in DOMAIN l
      BY <2>1, <3>1
    <3>3. After(l, p) = l[n + 1] /\ l[n + 1] \in Range(l) /\ l[n + 1] # End
      BY <2>2, <3>2, RangeType
    <3> QED
      BY <3>2, <3>3 DEF ToCome
  <2>4. \A k \in ToCome(l, p) : \E i \in DOMAIN l : \E j \in 1..i : l[j] = p /\ k = l[i]
    BY <1>3 DEF ToCome
  <2> QED
    BY <1>3, <2>3, <2>4 DEF Coming
<1> QED
  BY <1>1, <1>2, <1>3

\* ... and begins with everything in the list.
LEMMA Begins ==
  ASSUME NEW l \in Seq(Key), NoneTwice(l)
  PROVE  Range(l) \subseteq Coming(l, After(l, End), After(l, After(l, End)))
<1>1. CASE l = << >>
  BY <1>1 DEF Range
<1>2. CASE l # << >>
  <2>1. 1 \in DOMAIN l /\ After(l, End) = l[1]
    BY <1>2 DEF After
  <2>2. l[1] # End /\ l[1] \in Range(l)
    BY <2>1, RangeType
  <2>3. \A i \in DOMAIN l : 1 \in 1..i
    OBVIOUS
  <2>4. Range(l) \subseteq ToCome(l, l[1])
    BY <2>2, <2>3 DEF ToCome, Range
  <2> QED
    BY <2>1, <2>4, Advance
<1> QED
  BY <1>1, <1>2

\* A deletion takes nothing else from it ...
LEMMA ComesAfterDel ==
  ASSUME NEW l \in Seq(Key), NoneTwice(l), NEW x, NEW p
  PROVE  /\ NoneTwice(ListDel(l, x))
         /\ ToCome(l, p) \ {x} \subseteq ToCome(ListDel(l, x), p)
<1>1. CASE x \notin Range(l)
  BY <1>1 DEF ListDel
<1>2. CASE x \in Range(l)
  <2> DEFINE d == ListDel(l, x)
  <2>1. PICK n \in DOMAIN l :
          /\ l[n] = x /\ d \in Seq(Key) /\ Len(d) = Len(l) - 1
          /\ \A i \in 1..(Len(l) - 1) : d[i] = IF i < n THEN l[i] ELSE l[i + 1]
    BY <1>2, ListDelAt
  <2> HIDE DEF d
  <2>2. NoneTwice(d)
    <3> SUFFICES ASSUME NEW i \in DOMAIN d, NEW j \in DOMAIN d, d[i] = d[j] PROVE i = j
      BY DEF NoneTwice
    <3> DEFINE o(m) == IF m < n THEN m ELSE m + 1
    <3>1. o(i) \in DOMAIN l /\ o(j) \in DOMAIN l /\ l[o(i)] = l[o(j)]
      BY <2>1
    <3>2. o(i) = o(j)
      BY <3>1 DEF NoneTwice
    <3> QED
      BY <2>1, <3>2
  <2>3. ToCome(l, p) \ {x} \subseteq ToCome(d, p)
    <3>1. CASE p = End
      BY <3>1 DEF ToCome
    <3>2. CASE p # End /\ p \notin Range(d)
      <4>1. ToCome(l, p) \subseteq Key
        BY RangeType DEF ToCome, Range
      <4> QED
        BY <3>2, <4>1 DEF ToCome
    <3>3. CASE p # End /\ p \in Range(d)
      <4>1. Range(d) \subseteq Range(l) /\ p # x
        <5>1. Range(d) \subseteq Range(l)
          BY ListDelType DEF d
        <5>2. ASSUME NEW i \in DOMAIN d, d[i] = x PROVE FALSE
          <6> DEFINE o == IF i < n THEN i ELSE i + 1
          <6>1. o \in DOMAIN l /\ l[o] = x /\ o # n
            BY <2>1, <5>2
          <6> QED
            BY <2>1, <6>1 DEF NoneTwice
        <5>3. x \notin Range(d)
          BY <5>2 DEF Range
        <5> QED
          BY <3>3, <5>1, <5>3
      <4>2. ASSUME NEW i \in DOMAIN l, NEW j \in 1..i, l[j] = p, l[i] # x
            PROVE  l[i] \in ToCome(d, p)
        <5> DEFINE o(m) == IF m < n THEN m ELSE m - 1
        <5>1. i # n /\ j # n
          BY <2>1, <4>1, <4>2
        <5>2. /\ o(i) \in DOMAIN d /\ d[o(i)] = l[i]
              /\ o(j) \in 1..o(i) /\ d[o(j)] = l[j]
          BY <2>1, <5>1
        <5> HIDE DEF o
        <5> QED
          BY <3>3, <4>2, <5>2 DEF ToCome
      <4>3. \A k \in ToCome(l, p) : \E i \in DOMAIN l : \E j \in 1..i : l[j] = p /\ k = l[i]
        BY <3>3, <4>1 DEF ToCome
      <4> QED
        BY <4>2, <4>3
    <3> QED
      BY <3>1, <3>2, <3>3
  <2> QED
    BY <2>2, <2>3 DEF d
<1> QED
  BY <1>1, <1>2

\* ... nor does a new entry at either end.
LEMMA ComesAfterAdd ==
  ASSUME NEW l \in Seq(Key), NoneTwice(l), NEW x \in Key, x \notin Range(l), NEW p, p # x,
         NEW m \in Seq(Key), m = Append(l, x) \/ m = <<x>> \o l
  PROVE  NoneTwice(m) /\ ToCome(l, p) \subseteq ToCome(m, p)
<1> DEFINE s == IF m = Append(l, x) THEN 0 ELSE 1
           n == IF m = Append(l, x) THEN Len(l) + 1 ELSE 1
<1>1. /\ s \in {0, 1} /\ n \in 1..(Len(l) + 1) /\ Len(m) = Len(l) + 1 /\ m[n] = x
      /\ \A i \in DOMAIN l : i + s \in DOMAIN m /\ i + s # n /\ m[i + s] = l[i]
      /\ \A i \in DOMAIN m : i # n => i - s \in DOMAIN l /\ m[i] = l[i - s]
  <2>1. CASE m = Append(l, x)
    BY <2>1
  <2>2. CASE m # Append(l, x)
    <3>1. m = <<x>> \o l
      BY <2>2
    <3>2. Len(m) = 1 + Len(l) /\ \A i \in 1..(1 + Len(l)) : m[i] = IF i <= 1 THEN x ELSE l[i - 1]
      BY <3>1
    <3>3. s = 1 /\ n = 1
      BY <2>2
    <3> HIDE DEF s, n
    <3>4. \A i \in DOMAIN l : i + 1 \in DOMAIN m /\ i + 1 # 1 /\ m[i + 1] = l[i]
      BY <3>2
    <3>5. \A i \in DOMAIN m : i # 1 => i - 1 \in DOMAIN l /\ m[i] = l[i - 1]
      BY <3>2
    <3>6. 1 \in 1..(Len(l) + 1) /\ Len(m) = Len(l) + 1 /\ m[1] = x
      BY <3>2
    <3> QED
      BY <3>3, <3>4, <3>5, <3>6
  <2> QED
    BY <2>1, <2>2
<1> HIDE DEF s, n
<1>2. \A i \in DOMAIN l : l[i] # x
  BY DEF Range
<1>3. NoneTwice(m)
  <2> SUFFICES ASSUME NEW i \in DOMAIN m, NEW j \in DOMAIN m, m[i] = m[j] PROVE i = j
    BY DEF NoneTwice
  <2>1. CASE i = n \/ j = n
    BY <1>1, <1>2, <2>1
  <2>2. CASE i # n /\ j # n
    <3>1. i - s = j - s
      BY <1>1, <2>2 DEF NoneTwice
    <3> QED
      BY <1>1, <3>1
  <2> QED
    BY <2>1, <2>2
<1>4. ToCome(l, p) \subseteq ToCome(m, p)
  <2>1. ToCome(l, p) \subseteq Key
    BY RangeType DEF ToCome, Range
  <2>2. CASE p = End \/ p \notin Range(m)
    BY <2>1, <2>2 DEF ToCome
  <2>3. CASE p # End /\ p \in Range(m)
    <3>1. PICK q \in DOMAIN m : m[q] = p
      BY <2>3 DEF Range
    <3>2. p \in Range(l)
      BY <1>1, <3>1 DEF Range
    <3>3. ASSUME NEW i \in DOMAIN l, NEW j \in 1..i, l[j] = p
          PROVE  l[i] \in ToCome(m, p)
      <4>1. j \in DOMAIN l
        OBVIOUS
      <4>2. i + s \in DOMAIN m /\ m[i + s] = l[i] /\ m[j + s] = p
        BY <1>1, <3>3, <4>1
      <4>3. j + s \in 1..(i + s)
        BY <1>1, <4>1
      <4> QED
        BY <2>3, <4>2, <4>3 DEF ToCome
    <3>4. \A k \in ToCome(l, p) : \E i \in DOMAIN l : \E j \in 1..i : l[j] = p /\ k = l[i]
      BY <2>3, <3>2 DEF ToCome
    <3> QED
      BY <3>3, <3>4
  <2> QED
    BY <2>2, <2>3
<1> QED
  BY <1>3, <1>4

----------------------------------------------------------------------------
(***************************************************************************)
(* The inductive invariant for what is left when the program exits.        *)
(***************************************************************************)
\* cleanup is past delete_all_metric.
InNodes ==
  \/ job["cleanup"].pc \in {"nodes", "del", "release", "exit"}
  \/ plugin_lock.writer = "cleanup"

Phases ==
  /\ plugin_lock.writer = "cleanup" => job["cleanup"].pc \in {"stop", "join"}
  /\ ended = "exit" => job["cleanup"].pc = "exit"
  /\ by # Nobody => job["cleanup"].pc # "idle"

Lists ==
  /\ NoneTwice(list)
  /\ job["cleanup"].pc # "exit" => NoneTwice(nodes)
  /\ job["plugin"].pc = "link" =>
       /\ job["plugin"].key \notin Range(list)
       /\ InNodes \/ job["plugin"].key # job["cleanup"].next

\* A unit that lives is in the list, and cleanup has still to come to it.
LiveUnit(k) ==
  IF by = Nobody THEN k \in Range(list)
  ELSE ~InNodes /\ k \in Coming(list, job["cleanup"].key, job["cleanup"].next)

LiveUnits ==
  /\ \A k \in Key : unit[k] = "live" => k \in Disturbed \/ LiveUnit(k)
  /\ by = Nobody =>
       LET j == job["plugin"]
       IN  /\ j.pc = "del" => j.key \in Range(list) \/ unit[j.key] # "live"
           /\ j.pc = "release" => unit[j.key] # "live"

\* A plugin that is mapped is among the nodes, and cleanup has still to come to it.
MappedPlugins ==
  /\ job["cleanup"].pc # "exit" => \A k \in Key : plugin[k] = "mapped" => k \in Range(nodes)
  /\ InNodes =>
       \A k \in Key : plugin[k] = "mapped" =>
         \/ k \in Disturbed
         \/ /\ job["cleanup"].pc # "exit"
            /\ k \in Coming(nodes, job["cleanup"].key, job["cleanup"].next)

Left == Phases /\ Lists /\ LiveUnits /\ MappedPlugins

LEMMA InitLeft == Init => Left
<1> SUFFICES ASSUME Init PROVE Left
  OBVIOUS
<1>1. job["cleanup"] = Idle /\ job["plugin"] = Idle
  BY DEF Init, Actor
<1>2. Phases
  BY <1>1 DEF Init, Phases, Nobody
<1>3. Lists
  BY <1>1 DEF Init, Lists, NoneTwice, Idle
<1>4. LiveUnits
  BY <1>1 DEF Init, LiveUnits, Idle
<1>5. MappedPlugins
  BY <1>1 DEF Init, MappedPlugins
<1> QED
  BY <1>2, <1>3, <1>4, <1>5 DEF Left

LEMMA QuietLeft ==
  ASSUME Left, UNCHANGED <<list, nodes, unit, plugin, job, by>>,
         plugin_lock'.writer = plugin_lock.writer,
         Disturbed \subseteq Disturbed', by = Nobody => late' = late,
         ended' = "exit" => job["cleanup"].pc = "exit"
  PROVE  Left'
<1>1. InNodes' <=> InNodes
  BY DEF InNodes
<1>2. Phases'
  BY DEF Left, Phases
<1>3. Lists'
  BY <1>1 DEF Left, Lists
<1>4. \A k : LiveUnit(k)' <=> LiveUnit(k)
  BY <1>1 DEF LiveUnit
<1>5. LiveUnits'
  BY <1>4 DEF Left, LiveUnits
<1>6. MappedPlugins'
  BY <1>1 DEF Left, MappedPlugins
<1> QED
  BY <1>2, <1>3, <1>5, <1>6 DEF Left

\* Steps that leave the lists, the memory and the jobs alone.
LEMMA WalksLeft ==
  ASSUME IInv, Left,
         \/ \E r \in Reader : Walks(r)
         \/ UnlockUnit
         \/ \E k \in Key : Update(k)
  PROVE  Left'
<1> USE DEF memoryVars, listVars, lockVars, endVars
<1>1. UNCHANGED <<list, nodes, unit, plugin, job, by, late>>
  BY DEF Walks, BeginWalk, EndWalk, Stray, Visit, NextUnit, UnlockUnit, Update, Fault, Undefined
<1>2. plugin_lock'.writer = plugin_lock.writer
  BY DEF IInv, TypeOK, Walks, BeginWalk, EndWalk, Stray, Visit, NextUnit, UnlockUnit, Update
<1>3. ended' = "exit" => ended = "exit"
  BY DEF Walks, BeginWalk, EndWalk, Stray, Visit, NextUnit, UnlockUnit, Update, Fault, Undefined
<1>4. ended' = "exit" => job["cleanup"].pc = "exit"
  BY <1>3 DEF Left, Phases
<1> QED
  BY <1>1, <1>2, <1>4, QuietLeft DEF Disturbed

LEMMA HandlerLeft ==
  ASSUME IInv, Left,
         \/ \E k \in Key : Crash(k)
         \/ CrashInit
         \/ Signal
         \/ \E t \in Thread : SignalAgain(t)
         \/ Exit
  PROVE  Left'
<1> USE DEF memoryVars, listVars, lockVars, endVars
<1>1. UNCHANGED <<list, nodes, unit, plugin, job, by, late, plugin_lock>>
  BY DEF Crash, CrashInit, Signal, SignalAgain, Exit, Fault
<1>2. ended' = "exit" => ended = "exit" \/ job["cleanup"].pc = "exit"
  BY DEF Crash, CrashInit, Signal, SignalAgain, Exit, Fault
<1>3. ended' = "exit" => job["cleanup"].pc = "exit"
  BY <1>2 DEF Left, Phases
<1> QED
  BY <1>1, <1>3, QuietLeft DEF Disturbed

LEMMA StopFreedUnitLeft ==
  ASSUME IInv, Left, NEW a \in Actor, StopFreedUnit(a)
  PROVE  Left'
<1> USE DEF memoryVars, listVars, lockVars, endVars
<1>1. TypeOK /\ by' = by
      /\ UNCHANGED <<list, nodes, unit, plugin, plugin_lock, job>>
  BY ActorFailsType DEF IInv, StopFreedUnit
<1>2. late \subseteq late' /\ (by = Nobody => late' = late)
  BY NoteType DEF StopFreedUnit
<1>3. Disturbed \subseteq Disturbed'
  BY <1>1, <1>2 DEF Disturbed
<1>4. ended' # "exit"
  BY DEF StopFreedUnit, ActorFails, Undefined, Fault, Acts, Runs
<1> QED
  BY <1>1, <1>2, <1>3, <1>4, QuietLeft

\* The plugin thread adds at the ends of the lists, where cleanup is past ...
LEMMA LoadPluginLeft ==
  ASSUME IInv, Left, NEW k \in Key, LoadPlugin(k)
  PROVE  Left'
<1> USE DEF memoryVars, listVars, lockVars, endVars
<1>1. TypeOK /\ "plugin" \in Actor /\ "cleanup" \in Actor /\ Actor = {"plugin", "cleanup"}
  BY DEF IInv, Actor
<1>2. CASE nodes = Null /\ Fault("plugin") /\ UNCHANGED <<nodes, memoryVars, job, late>>
  <2>1. UNCHANGED <<list, nodes, unit, plugin, job, by, late, plugin_lock, ended>>
    BY <1>2 DEF LoadPlugin, Fault
  <2>2. ended' = "exit" => job["cleanup"].pc = "exit"
    BY <2>1 DEF Left, Phases
  <2> QED
    BY <2>1, <2>2, QuietLeft DEF Disturbed
<1>3. CASE nodes # Null
  <2> DEFINE c == job["cleanup"]
  <2>1. /\ nodes' = <<k>> \o nodes
        /\ plugin' = [plugin EXCEPT ![k] = "mapped"]
        /\ unit' = [unit EXCEPT ![k] = "live"]
        /\ Goto("plugin", "link", k, Null)
        /\ late' = IF by = Nobody THEN late ELSE late \cup {k}
        /\ UNCHANGED <<by, ended, list, plugin_lock>>
    BY <1>3 DEF LoadPlugin
  <2>2. plugin[k] = "none" /\ job["plugin"].pc = "idle" /\ job["plugin"].key = Null
    BY DEF LoadPlugin, IInv, PluginThread
  <2>3. /\ job'["plugin"] = [pc |-> "link", key |-> k, next |-> Null]
        /\ job'["cleanup"] = c
    BY <1>1, <2>1, GotoType, ThreadType DEF Control
  <2>4. c.pc # "exit" /\ nodes \in Seq(Key)
    BY <1>3 DEF IInv, CleanupThread
  <2>5. nodes' \in Seq(Key)
    BY <2>1, <2>4
  <2>6. /\ k \notin Range(list) /\ k \notin Range(nodes)
        /\ k # c.key /\ k # c.next
    BY <2>2, <2>4 DEF IInv, Listed, CleanupThread, Loaded
  <2>7. NoneTwice(nodes) /\ NoneTwice(list)
    BY <2>4 DEF Left, Lists
  <2>8. NoneTwice(nodes') /\ ToCome(nodes, c.next) \subseteq ToCome(nodes', c.next)
    BY <2>1, <2>4, <2>5, <2>6, <2>7, ComesAfterAdd
  <2>9. Range(nodes) \subseteq Range(nodes') /\ k \in Range(nodes')
    <3>1. /\ Len(nodes') = 1 + Len(nodes)
          /\ \A i \in 1..(1 + Len(nodes)) : nodes'[i] = IF i <= 1 THEN k ELSE nodes[i - 1]
      BY <2>1, <2>4
    <3>2. 1 \in DOMAIN nodes' /\ nodes'[1] = k
      BY <2>4, <2>5, <3>1
    <3>3. \A i \in DOMAIN nodes : i + 1 \in DOMAIN nodes' /\ nodes'[i + 1] = nodes[i]
      BY <2>4, <2>5, <3>1
    <3> QED
      BY <3>2, <3>3 DEF Range
  <2>10. (InNodes' <=> InNodes) /\ k \in Disturbed' /\ Disturbed \cap Key \subseteq Disturbed'
    BY <2>1, <2>2, <2>3 DEF InNodes, Disturbed
  <2>11. \A h \in Key \ {k} : unit'[h] = unit[h] /\ plugin'[h] = plugin[h]
    BY <1>1, <2>1 DEF TypeOK
  <2>12. Phases'
    BY <2>1, <2>3 DEF Left, Phases
  <2>13. Lists'
    BY <2>1, <2>3, <2>6, <2>7, <2>8 DEF Lists
  <2>14. LiveUnits'
    <3>1. \A h : LiveUnit(h)' <=> LiveUnit(h)
      BY <2>1, <2>3, <2>10 DEF LiveUnit
    <3> QED
      BY <2>3, <2>10, <2>11, <3>1 DEF Left, LiveUnits
  <2>15. MappedPlugins'
    BY <2>3, <2>4, <2>8, <2>9, <2>10, <2>11 DEF Left, MappedPlugins, Coming
  <2> QED
    BY <2>12, <2>13, <2>14, <2>15 DEF Left
<1> QED
  BY <1>2, <1>3 DEF LoadPlugin

LEMMA AddMetricLeft ==
  ASSUME IInv, Left, AddMetric
  PROVE  Left'
<1> USE DEF memoryVars, listVars, lockVars, endVars
<1> DEFINE p == job["plugin"].key
           c == job["cleanup"]
<1>1. TypeOK /\ "plugin" \in Actor /\ "cleanup" \in Actor /\ Actor = {"plugin", "cleanup"}
  BY DEF IInv, Actor
<1>2. job'["plugin"] = Idle /\ job'["cleanup"] = c /\ job["plugin"].pc = "link"
  BY <1>1, IdleType DEF AddMetric
<1>3. /\ late \subseteq late' /\ (by = Nobody => late' = late)
      /\ by # Nobody => p \in late'
      /\ p \in Key
  BY <1>1, NoteType DEF AddMetric
<1>4. UNCHANGED <<nodes, unit, plugin, plugin_lock, by, ended>> /\ list' = Append(list, p)
  BY DEF AddMetric
<1>5. list \in Seq(Key) /\ list' \in Seq(Key)
  BY <1>1, <1>3, <1>4 DEF TypeOK
<1>6. NoneTwice(list) /\ p \notin Range(list) /\ (InNodes \/ p # c.next)
  BY <1>2 DEF Left, Lists
<1>7. NoneTwice(list') /\ (InNodes \/ ToCome(list, c.next) \subseteq ToCome(list', c.next))
  <2> HIDE DEF p
  <2>1. ASSUME NEW q, q # p
        PROVE  NoneTwice(list') /\ ToCome(list, q) \subseteq ToCome(list', q)
    BY <1>3, <1>4, <1>5, <1>6, <2>1, ComesAfterAdd
  <2>2. NoneTwice(list')
    <3>1. End # p
      BY <1>3
    <3> QED
      BY <2>1, <3>1
  <2>3. c.next # p => ToCome(list, c.next) \subseteq ToCome(list', c.next)
    BY <2>1
  <2> QED
    BY <1>6, <2>2, <2>3
<1>8. Range(list') = Range(list) \cup {p}
  <2>1. /\ Len(list') = Len(list) + 1 /\ list'[Len(list) + 1] = p
        /\ \A i \in 1..Len(list) : list'[i] = list[i]
    BY <1>4, <1>5
  <2>2. DOMAIN list' = DOMAIN list \cup {Len(list) + 1}
    BY <1>5, <2>1
  <2> QED
    BY <1>5, <2>1, <2>2 DEF Range
<1>9. (InNodes' <=> InNodes)
      /\ (by # Nobody => Disturbed \cap Key \subseteq Disturbed')
      /\ Disturbed \cap Key \subseteq Disturbed' \cup {p}
  BY <1>2, <1>3, <1>4 DEF InNodes, Disturbed
<1>10. Phases'
  BY <1>2, <1>4 DEF Left, Phases
<1>11. Lists'
  BY <1>2, <1>4, <1>7 DEF Left, Lists, Idle
<1> HIDE DEF p
<1>12. LiveUnits'
  <2>1. ASSUME NEW k \in Key, unit'[k] = "live" PROVE k \in Disturbed' \/ LiveUnit(k)'
    <3>1. k \in Disturbed \/ LiveUnit(k)
      BY <1>4, <2>1 DEF Left, LiveUnits
    <3>2. CASE by = Nobody
      BY <1>4, <1>8, <1>9, <3>1, <3>2 DEF LiveUnit
    <3>3. CASE by # Nobody
      BY <1>2, <1>4, <1>7, <1>9, <3>1, <3>3 DEF LiveUnit, Coming
    <3> QED
      BY <3>2, <3>3
  <2> QED
    BY <1>2, <2>1 DEF LiveUnits, Idle
<1>13. MappedPlugins'
  <2>1. InNodes => by # Nobody
    <3>1. by = Nobody => c.pc = "idle"
      BY DEF IInv, CleanupThread, Idle
    <3> QED
      BY <3>1 DEF InNodes, Left, Phases
  <2> QED
    BY <1>2, <1>4, <1>9, <2>1 DEF Left, MappedPlugins
<1> QED
  BY <1>10, <1>11, <1>12, <1>13 DEF Left

\* ... and takes out what is noted as its work.
LEMMA UnloadPluginLeft ==
  ASSUME IInv, Left, NEW k \in Key, UnloadPlugin(k)
  PROVE  Left'
<1> USE DEF memoryVars, listVars, lockVars, endVars
<1>1. TypeOK /\ "plugin" \in Actor /\ "cleanup" \in Actor /\ Actor = {"plugin", "cleanup"}
  BY DEF IInv, Actor
<1>2. /\ job'["plugin"] = [pc |-> "del", key |-> k, next |-> Null]
      /\ job'["cleanup"] = job["cleanup"]
      /\ job["plugin"].pc = "idle" /\ job["plugin"].key = Null
  BY <1>1, GotoType, ThreadType DEF UnloadPlugin, Control, IInv, PluginThread
<1>3. late \subseteq late' /\ (by = Nobody => late' = late)
      /\ UNCHANGED <<list, nodes, unit, plugin, plugin_lock, by, ended>>
  BY DEF UnloadPlugin
<1>4. (InNodes' <=> InNodes) /\ Disturbed \cap Key \subseteq Disturbed'
  BY <1>2, <1>3 DEF InNodes, Disturbed
<1>5. Phases' /\ Lists'
  BY <1>2, <1>3 DEF Left, Phases, Lists
<1>6. LiveUnits'
  <2>1. \A h : LiveUnit(h)' <=> LiveUnit(h)
    BY <1>2, <1>3, <1>4 DEF LiveUnit
  <2>2. by = Nobody => k \in Range(list) \/ unit[k] # "live"
    <3> SUFFICES ASSUME by = Nobody PROVE k \in Range(list) \/ unit[k] # "live"
      OBVIOUS
    <3>1. k \notin Disturbed
      BY <1>2 DEF IInv, CleanupThread, Disturbed
    <3> QED
      BY <3>1 DEF Left, LiveUnits, LiveUnit
  <2> QED
    BY <1>2, <1>3, <1>4, <2>1, <2>2 DEF Left, LiveUnits
<1>7. MappedPlugins'
  BY <1>2, <1>3, <1>4 DEF Left, MappedPlugins
<1> QED
  BY <1>5, <1>6, <1>7 DEF Left

\* cleanup begins with every unit that lives ...
LEMMA BeginCleanupLeft ==
  ASSUME IInv, Left, NEW t \in Thread, BeginCleanup(t)
  PROVE  Left'
<1> USE DEF memoryVars, listVars, lockVars, endVars
<1> DEFINE p == After(list, End)
           q == After(list, p)
<1>1. TypeOK /\ "plugin" \in Actor /\ "cleanup" \in Actor /\ Actor = {"plugin", "cleanup"}
  BY DEF IInv, Actor
<1>2. p \in Place /\ q \in Place /\ q \in Range(list) \cup {End, Null}
  BY <1>1, AfterType DEF TypeOK
<1>3. /\ Goto("cleanup", "units", p, q)
      /\ by = Nobody /\ by' = t /\ t # Nobody
      /\ UNCHANGED <<list, nodes, unit, plugin, plugin_lock, late, ended>>
  BY DEF BeginCleanup, Thread, Reader, Nobody
<1>4. job["cleanup"] = Idle
  BY <1>3 DEF IInv, CleanupThread
<1>5. NoneTwice(list) /\ Range(list) \subseteq Coming(list, p, q)
  BY <1>1, Begins DEF Left, Lists, TypeOK
<1> HIDE DEF p, q
<1>6. /\ job'["cleanup"] = [pc |-> "units", key |-> p, next |-> q]
      /\ job'["plugin"] = job["plugin"]
  BY <1>1, <1>2, <1>3, GotoType DEF Control
<1>7. ~InNodes /\ ~InNodes' /\ Disturbed' = Disturbed
  BY <1>3, <1>4, <1>6 DEF InNodes, Left, Phases, Idle, Disturbed
<1>8. Phases'
  BY <1>3, <1>4, <1>6 DEF Left, Phases, Idle
<1>9. Lists'
  <2>1. job["plugin"].pc = "link" => job["plugin"].key \in Key
    BY DEF IInv, PluginThread
  <2> QED
    BY <1>2, <1>3, <1>4, <1>6, <2>1 DEF Left, Lists, Idle
<1>10. LiveUnits'
  BY <1>3, <1>5, <1>6, <1>7 DEF Left, LiveUnits, LiveUnit
<1>11. MappedPlugins'
  BY <1>3, <1>4, <1>6, <1>7 DEF Left, MappedPlugins, Idle
<1> QED
  BY <1>8, <1>9, <1>10, <1>11 DEF Left

\* ... comes to the next one, or to the nodes when none lives ...
LEMMA CleanUnitsLeft ==
  ASSUME IInv, Left, CleanUnits
  PROVE  Left'
<1> USE DEF memoryVars, listVars, lockVars, endVars
<1> DEFINE c == job["cleanup"]
           p == After(nodes, End)
           q == After(nodes, p)
<1>1. TypeOK /\ "plugin" \in Actor /\ "cleanup" \in Actor /\ Actor = {"plugin", "cleanup"}
  BY DEF IInv, Actor
<1>2. /\ c.pc = "units" /\ by # Nobody /\ nodes \in Seq(Key) /\ ended = "no" /\ c.key \in Place
      /\ UNCHANGED <<list, nodes, unit, plugin, plugin_lock, late>>
  BY <1>1 DEF IInv, CleanupThread, CleanUnits, Acts, TypeOK
<1>3. p \in Place /\ q \in Place
  BY <1>2, AfterType
<1>4. \/ c.key \in Key /\ GoOn("cleanup", "stop") /\ UNCHANGED endVars
      \/ ActorFails("cleanup") /\ UNCHANGED job
      \/ c.key = End /\ Goto("cleanup", "nodes", p, q) /\ UNCHANGED endVars
  BY <1>2 DEF CleanUnits, Place
<1>5. NoneTwice(nodes) /\ Range(nodes) \subseteq Coming(nodes, p, q)
  BY <1>2, Begins DEF Left, Lists
<1>6. ~InNodes
  BY <1>2 DEF InNodes, Left, Phases
<1> HIDE DEF p, q
<1>7. CASE c.key \in Key /\ GoOn("cleanup", "stop") /\ UNCHANGED endVars
  <2>1. /\ job'["cleanup"].pc = "stop" /\ job'["cleanup"].key = c.key
        /\ job'["cleanup"].next = c.next /\ job'["plugin"] = job["plugin"]
    BY <1>1, <1>7, GoOnType DEF Control
  <2>2. ~InNodes' /\ Disturbed' = Disturbed
    BY <1>2, <1>6, <2>1 DEF InNodes, Disturbed
  <2>3. Phases' /\ Lists'
    BY <1>2, <1>6, <1>7, <2>1, <2>2 DEF Left, Phases, Lists
  <2>4. LiveUnits'
    BY <1>2, <1>6, <1>7, <2>1, <2>2 DEF Left, LiveUnits, LiveUnit
  <2>5. MappedPlugins'
    BY <1>2, <2>1, <2>2 DEF Left, MappedPlugins
  <2> QED
    BY <2>3, <2>4, <2>5 DEF Left
<1>8. CASE ActorFails("cleanup") /\ UNCHANGED job
  <2>1. by' = by /\ ended' # "exit"
    BY <1>2, <1>8 DEF ActorFails
  <2> QED
    BY <1>2, <1>8, <2>1, QuietLeft DEF Disturbed
<1>9. CASE c.key = End /\ Goto("cleanup", "nodes", p, q) /\ UNCHANGED endVars
  <2>1. /\ job'["cleanup"] = [pc |-> "nodes", key |-> p, next |-> q]
        /\ job'["plugin"] = job["plugin"]
    BY <1>1, <1>3, <1>9, GotoType DEF Control
  <2>2. InNodes' /\ Disturbed' = Disturbed
    BY <1>2, <2>1 DEF InNodes, Disturbed
  <2>3. Phases'
    BY <1>2, <1>6, <1>9, <2>1 DEF Left, Phases, InNodes
  <2>4. Lists'
    BY <1>2, <1>5, <2>1, <2>2 DEF Left, Lists
  <2>5. LiveUnits'
    BY <1>2, <1>9, <2>1, <2>2 DEF Left, LiveUnits, LiveUnit, Coming
  <2>6. MappedPlugins'
    BY <1>2, <1>5, <2>1, <2>2 DEF Left, MappedPlugins
  <2> QED
    BY <2>3, <2>4, <2>5, <2>6 DEF Left
<1> QED
  BY <1>4, <1>7, <1>8, <1>9

\* ... and to the next node, or to the end when none is mapped.
LEMMA CleanNodesLeft ==
  ASSUME IInv, Left, CleanNodes
  PROVE  Left'
<1> USE DEF memoryVars, listVars, lockVars, endVars
<1> DEFINE c == job["cleanup"]
<1>1. TypeOK /\ "plugin" \in Actor /\ "cleanup" \in Actor /\ Actor = {"plugin", "cleanup"}
  BY DEF IInv, Actor
<1>2. /\ c.pc = "nodes" /\ by # Nobody /\ nodes \in Seq(Key) /\ ended = "no" /\ c.key \in Place
      /\ UNCHANGED <<list, unit, plugin, plugin_lock, late>>
  BY <1>1 DEF IInv, CleanupThread, CleanNodes, Acts, TypeOK
<1>3. \/ c.key \in Key /\ GoOn("cleanup", "del") /\ UNCHANGED <<nodes, endVars>>
      \/ ActorFails("cleanup") /\ UNCHANGED <<nodes, job>>
      \/ c.key = End /\ nodes' = Null /\ GoOn("cleanup", "exit") /\ UNCHANGED endVars
  BY <1>2 DEF CleanNodes, Place
<1>4. InNodes
  BY <1>2 DEF InNodes
<1>5. CASE ActorFails("cleanup") /\ UNCHANGED <<nodes, job>>
  <2>1. by' = by /\ ended' # "exit"
    BY <1>2, <1>5 DEF ActorFails
  <2> QED
    BY <1>2, <1>5, <2>1, QuietLeft DEF Disturbed
<1>6. CASE \/ c.key \in Key /\ GoOn("cleanup", "del") /\ UNCHANGED <<nodes, endVars>>
           \/ c.key = End /\ nodes' = Null /\ GoOn("cleanup", "exit") /\ UNCHANGED endVars
  <2>1. /\ job'["plugin"] = job["plugin"]
        /\ UNCHANGED <<by, ended>>
        /\ job'["cleanup"].key = c.key /\ job'["cleanup"].next = c.next
        /\ \/ c.key \in Key /\ job'["cleanup"].pc = "del" /\ nodes' = nodes
           \/ c.key = End /\ job'["cleanup"].pc = "exit" /\ nodes' = Null
    BY <1>1, <1>6, GoOnType DEF Control
  <2>2. InNodes' /\ Disturbed' = Disturbed
    BY <1>2, <2>1 DEF InNodes, Disturbed
  <2>3. Phases' /\ Lists'
    BY <1>2, <1>4, <2>1, <2>2 DEF Left, Phases, Lists
  <2>4. LiveUnits'
    BY <1>2, <1>4, <2>1, <2>2 DEF Left, LiveUnits, LiveUnit
  <2>5. MappedPlugins'
    BY <1>2, <1>4, <2>1, <2>2 DEF Left, MappedPlugins, Coming
  <2> QED
    BY <2>3, <2>4, <2>5 DEF Left
<1> QED
  BY <1>3, <1>5, <1>6

----------------------------------------------------------------------------
\* The two that delete: what leaves a list is in the hands of one of them.
LEMMA DelMetricLeft ==
  ASSUME IInv, Left, NEW a \in Actor, DelMetric(a)
  PROVE  Left'
<1> USE DEF memoryVars, listVars, lockVars, endVars
<1> DEFINE d == job[a].key
           c == job["cleanup"]
<1>1. TypeOK /\ "plugin" \in Actor /\ "cleanup" \in Actor /\ Actor = {"plugin", "cleanup"}
  BY DEF IInv, Actor
<1>2. /\ job[a].pc = "del" /\ d \in Key /\ plugin_lock.writer = Nobody
      /\ a = "cleanup" => by # Nobody
      /\ UNCHANGED <<list, nodes, unit, plugin, by, ended>>
  BY KeyType DEF DelMetric, CanWrite
<1>3. late \subseteq late' /\ (by = Nobody => late' = late)
  BY <1>2, NoteType DEF DelMetric
<1>4. \/ /\ d \in Range(list) /\ GoOn(a, "stop")
         /\ plugin_lock' = [plugin_lock EXCEPT !.writer = a]
      \/ d \notin Range(list) /\ GoOn(a, "release") /\ UNCHANGED plugin_lock
  BY DEF DelMetric
<1>5. /\ job'[a].key = d /\ job'[a].next = job[a].next
      /\ \A b \in Actor \ {a} : job'[b] = job[b]
      /\ \/ d \in Range(list) /\ job'[a].pc = "stop" /\ plugin_lock'.writer = a
         \/ d \notin Range(list) /\ job'[a].pc = "release" /\ plugin_lock'.writer = Nobody
  <2>1. plugin_lock \in [writer : Actor \cup {Nobody}, readers : SUBSET Reader]
    BY <1>1 DEF TypeOK
  <2> QED
    BY <1>1, <1>2, <1>4, <2>1, GoOnType DEF Control
<1>6. Nobody # "cleanup" /\ "plugin" # "cleanup"
  BY DEF Nobody
<1>7. (InNodes' <=> InNodes) /\ Disturbed \cap Key \subseteq Disturbed'
  BY <1>1, <1>2, <1>3, <1>5, <1>6 DEF InNodes, Disturbed
<1>8. Phases'
  BY <1>1, <1>2, <1>5, <1>6 DEF Left, Phases
<1>9. Lists'
  <2>1. CASE a = "plugin"
    BY <1>1, <1>2, <1>5, <1>6, <1>7, <2>1 DEF Left, Lists
  <2>2. CASE a = "cleanup"
    BY <1>1, <1>2, <1>5, <1>6, <1>7, <2>2 DEF Left, Lists
  <2> QED
    BY <1>1, <2>1, <2>2
<1>10. c.key = job'["cleanup"].key /\ c.next = job'["cleanup"].next
  BY <1>1, <1>5
<1>11. LiveUnits'
  <2>1. \A k : LiveUnit(k)' <=> LiveUnit(k)
    BY <1>2, <1>7, <1>10 DEF LiveUnit
  <2>2. by = Nobody =>
          /\ job'["plugin"].pc = "del" => job'["plugin"].key \in Range(list) \/ unit[job'["plugin"].key] # "live"
          /\ job'["plugin"].pc = "release" => unit[job'["plugin"].key] # "live"
    <3>1. CASE a = "plugin"
      BY <1>1, <1>2, <1>5, <3>1 DEF Left, LiveUnits
    <3>2. CASE a = "cleanup"
      BY <1>1, <1>2, <3>2
    <3> QED
      BY <1>1, <3>1, <3>2
  <2> QED
    BY <1>2, <1>7, <2>1, <2>2 DEF Left, LiveUnits
<1>12. MappedPlugins'
  <2>1. job'["cleanup"].pc = "exit" <=> c.pc = "exit"
    BY <1>1, <1>2, <1>5
  <2> QED
    BY <1>2, <1>7, <1>10, <2>1 DEF Left, MappedPlugins
<1> QED
  BY <1>8, <1>9, <1>11, <1>12 DEF Left

LEMMA StopUnitLeft ==
  ASSUME IInv, Left, NEW a \in Actor, StopUnit(a)
  PROVE  Left'
<1> USE DEF memoryVars, listVars, lockVars, endVars
<1> DEFINE d == job[a].key
           c == job["cleanup"]
<1>1. TypeOK /\ "plugin" \in Actor /\ "cleanup" \in Actor /\ Actor = {"plugin", "cleanup"}
  BY DEF IInv, Actor
<1>2. /\ job[a].pc = "stop" /\ d \in Key
      /\ a = "cleanup" => by # Nobody
      /\ list' = ListDel(list, d)
      /\ UNCHANGED <<nodes, unit, plugin, plugin_lock, by, ended>>
  BY KeyType DEF StopUnit
<1>3. late \subseteq late' /\ (by = Nobody => late' = late)
  BY <1>2, NoteType DEF StopUnit
<1>4. /\ job'[a].pc = "join" /\ job'[a].key = d /\ job'[a].next = job[a].next
      /\ \A b \in Actor \ {a} : job'[b] = job[b]
  BY <1>1, GoOnType DEF StopUnit, Control
<1>5. list \in Seq(Key) /\ NoneTwice(list)
  BY <1>1 DEF TypeOK, Left, Lists
<1> HIDE DEF d
<1>6. /\ Range(list') \subseteq Range(list)
      /\ Range(list) \subseteq Range(list') \cup {d}
      /\ NoneTwice(list')
      /\ ToCome(list, c.next) \ {d} \subseteq ToCome(list', c.next)
  <2> HIDE DEF c
  <2>1. Range(list') \subseteq Range(list) /\ Range(list) \subseteq Range(list') \cup {d}
    BY <1>2, <1>5, ListDelType
  <2>2. /\ NoneTwice(ListDel(list, d))
        /\ ToCome(list, c.next) \ {d} \subseteq ToCome(ListDel(list, d), c.next)
    BY <1>5, ComesAfterDel
  <2> QED
    BY <1>2, <2>1, <2>2
<1>7. (InNodes' <=> InNodes) /\ Disturbed \cap Key \subseteq Disturbed'
      /\ (a = "plugin" => d \in Disturbed')
  BY <1>1, <1>2, <1>3, <1>4 DEF InNodes, Disturbed, d
<1>8. Phases'
  BY <1>1, <1>2, <1>4 DEF Left, Phases, d
<1>9. Lists'
  <2>1. CASE a = "plugin"
    BY <1>1, <1>2, <1>4, <1>6, <1>7, <2>1 DEF Left, Lists
  <2>2. CASE a = "cleanup"
    BY <1>1, <1>2, <1>4, <1>6, <1>7, <2>2 DEF Left, Lists
  <2> QED
    BY <1>1, <2>1, <2>2
<1>10. c.key = job'["cleanup"].key /\ c.next = job'["cleanup"].next
  BY <1>1, <1>4 DEF d
<1>11. LiveUnits'
  <2>1. ASSUME NEW k \in Key, unit'[k] = "live" PROVE k \in Disturbed' \/ LiveUnit(k)'
    <3>1. k \in Disturbed \/ LiveUnit(k)
      BY <1>2, <2>1 DEF Left, LiveUnits
    <3>2. CASE a = "plugin"
      BY <1>2, <1>6, <1>7, <1>10, <3>1, <3>2 DEF LiveUnit, Coming
    <3>3. CASE a = "cleanup"
      <4>1. d = c.key
        BY <3>3 DEF d
      <4> QED
        BY <1>2, <1>6, <1>7, <1>10, <3>1, <3>3, <4>1 DEF LiveUnit, Coming
    <3> QED
      BY <1>1, <3>2, <3>3
  <2>2. by = Nobody => job'["plugin"].pc \notin {"del", "release"}
    <3>1. CASE a = "plugin"
      BY <1>4, <3>1
    <3>2. CASE a = "cleanup"
      BY <1>2, <3>2
    <3> QED
      BY <1>1, <3>1, <3>2
  <2> QED
    BY <1>2, <2>1, <2>2 DEF LiveUnits
<1>12. MappedPlugins'
  <2>1. job'["cleanup"].pc = "exit" <=> c.pc = "exit"
    BY <1>1, <1>2, <1>4
  <2> QED
    BY <1>2, <1>7, <1>10, <2>1 DEF Left, MappedPlugins
<1> QED
  BY <1>8, <1>9, <1>11, <1>12 DEF Left

LEMMA FreeUnitLeft ==
  ASSUME IInv, Left, NEW a \in Actor, FreeUnit(a)
  PROVE  Left'
<1> USE DEF memoryVars, listVars, lockVars, endVars
<1> DEFINE d == job[a].key
           n == job[a].next
           q == After(list, n)
           c == job["cleanup"]
<1>1. TypeOK /\ "plugin" \in Actor /\ "cleanup" \in Actor /\ Actor = {"plugin", "cleanup"}
  BY DEF IInv, Actor
<1>2. /\ job[a].pc = "join" /\ d \in Key
      /\ a = "cleanup" => by # Nobody
      /\ unit' = [unit EXCEPT ![d] = "freed"]
      /\ UNCHANGED <<list, nodes, plugin, by, ended>>
  BY KeyType DEF FreeUnit
<1>3. late \subseteq late' /\ (by = Nobody => late' = late)
  BY <1>2, NoteType DEF FreeUnit
<1>4. n \in Place /\ q \in Place /\ q \in Range(list) \cup {End, Null}
  BY <1>1, AfterType DEF TypeOK
<1>5. \/ /\ plugin_lock.writer = a /\ GoOn(a, "release")
         /\ plugin_lock' = [plugin_lock EXCEPT !.writer = Nobody]
      \/ plugin_lock.writer # a /\ Goto(a, "units", n, q) /\ UNCHANGED plugin_lock
  BY DEF FreeUnit
<1>6. list \in Seq(Key) /\ NoneTwice(list)
  BY <1>1 DEF TypeOK, Left, Lists
<1>7. ToCome(list, n) \subseteq Coming(list, n, q)
  BY <1>6, Advance
<1>8. a = "plugin" => plugin_lock.writer = a
  BY <1>2 DEF IInv, PluginThread
<1> HIDE DEF q
<1>9. /\ \A b \in Actor \ {a} : job'[b] = job[b]
      /\ \/ /\ plugin_lock.writer = a /\ plugin_lock'.writer = Nobody
            /\ job'[a].pc = "release" /\ job'[a].key = d /\ job'[a].next = n
         \/ /\ plugin_lock.writer # a /\ plugin_lock' = plugin_lock /\ a = "cleanup"
            /\ job'[a] = [pc |-> "units", key |-> n, next |-> q]
  <2>1. plugin_lock \in [writer : Actor \cup {Nobody}, readers : SUBSET Reader]
    BY <1>1 DEF TypeOK
  <2>2. CASE plugin_lock.writer = a
    BY <1>1, <1>5, <2>1, <2>2, GoOnType DEF Control
  <2>3. CASE plugin_lock.writer # a
    BY <1>1, <1>4, <1>5, <1>8, <2>1, <2>3, GotoType DEF Control
  <2> QED
    BY <2>2, <2>3
<1>10. unit'[d] = "freed" /\ \A k \in Key \ {d} : unit'[k] = unit[k]
  BY <1>1, <1>2 DEF TypeOK
<1>11. Nobody # "cleanup" /\ "plugin" # "cleanup"
  BY DEF Nobody
<1>12. Disturbed \cap Key \subseteq Disturbed'
  BY <1>1, <1>3, <1>8, <1>9 DEF Disturbed
<1>13. InNodes' <=> InNodes
  <2>1. CASE a = "plugin"
    BY <1>1, <1>8, <1>9, <1>11, <2>1 DEF InNodes
  <2>2. CASE a = "cleanup"
    BY <1>1, <1>2, <1>9, <2>2 DEF InNodes
  <2> QED
    BY <1>1, <2>1, <2>2
<1>14. Phases'
  <2>1. CASE a = "plugin"
    BY <1>1, <1>2, <1>8, <1>9, <1>11, <2>1 DEF Left, Phases
  <2>2. CASE a = "cleanup"
    BY <1>1, <1>2, <1>9, <1>11, <2>2 DEF Left, Phases
  <2> QED
    BY <1>1, <2>1, <2>2
<1>15. Lists'
  <2>1. CASE a = "plugin"
    BY <1>1, <1>2, <1>8, <1>9, <1>13, <2>1 DEF Left, Lists
  <2>2. CASE a = "cleanup"
    <3>1. job["plugin"].pc = "link" => job["plugin"].key \in Key
      BY DEF IInv, PluginThread
    <3>2. job'["plugin"] = job["plugin"] /\ c.pc # "exit" /\ job'["cleanup"].pc # "exit"
      BY <1>1, <1>2, <1>9, <2>2
    <3>3. job["plugin"].pc = "link" => InNodes' \/ job["plugin"].key # job'["cleanup"].next
      <4>1. CASE plugin_lock.writer = a
        BY <1>13, <2>2, <4>1 DEF InNodes
      <4>2. CASE plugin_lock.writer # a
        BY <1>4, <1>9, <2>2, <3>1, <4>2 DEF Left, Lists
      <4> QED
        BY <4>1, <4>2
    <3> QED
      BY <1>2, <3>2, <3>3 DEF Left, Lists
  <2> QED
    BY <1>1, <2>1, <2>2
<1>16. LiveUnits'
  <2>1. ASSUME NEW k \in Key, unit'[k] = "live" PROVE k \in Disturbed' \/ LiveUnit(k)'
    <3>1. k # d /\ (k \in Disturbed \/ LiveUnit(k))
      BY <1>10, <2>1 DEF Left, LiveUnits
    <3>2. CASE a = "plugin"
      BY <1>1, <1>2, <1>9, <1>12, <1>13, <3>1, <3>2 DEF LiveUnit
    <3>3. CASE a = "cleanup"
      <4>1. k \in Disturbed \/ (~InNodes /\ k \in Coming(list, d, n))
        BY <1>2, <3>1, <3>3 DEF LiveUnit
      <4>2. CASE k \in Disturbed
        BY <1>12, <4>2
      <4>3. CASE ~InNodes /\ k \in Coming(list, d, n)
        <5>1. k \in Coming(list, n, q)
          BY <1>7, <3>1, <4>3 DEF Coming
        <5>2. job'["cleanup"].key = n /\ job'["cleanup"].next = q
          BY <1>9, <3>3, <4>3 DEF InNodes
        <5> QED
          BY <1>2, <1>13, <3>3, <4>3, <5>1, <5>2 DEF LiveUnit
      <4> QED
        BY <4>1, <4>2, <4>3
    <3> QED
      BY <1>1, <3>2, <3>3
  <2>2. by = Nobody =>
          /\ job'["plugin"].pc # "del"
          /\ job'["plugin"].pc = "release" => unit'[job'["plugin"].key] # "live"
    <3>1. CASE a = "plugin"
      BY <1>8, <1>9, <1>10, <3>1
    <3>2. CASE a = "cleanup"
      BY <1>2, <3>2
    <3> QED
      BY <1>1, <3>1, <3>2
  <2> QED
    BY <1>2, <2>1, <2>2 DEF LiveUnits
<1>17. MappedPlugins'
  <2>1. CASE a = "plugin"
    BY <1>1, <1>2, <1>9, <1>12, <1>13, <2>1 DEF Left, MappedPlugins
  <2>2. CASE a = "cleanup"
    <3>1. c.pc # "exit" /\ job'["cleanup"].pc # "exit"
      BY <1>2, <1>9, <2>2
    <3>2. InNodes => job'["cleanup"].key = d /\ job'["cleanup"].next = n
      BY <1>2, <1>9, <2>2 DEF InNodes
    <3> QED
      BY <1>2, <1>12, <1>13, <2>2, <3>1, <3>2 DEF Left, MappedPlugins
  <2> QED
    BY <1>1, <2>1, <2>2
<1> QED
  BY <1>14, <1>15, <1>16, <1>17 DEF Left

LEMMA ReleasePluginLeft ==
  ASSUME IInv, Left, NEW a \in Actor, ReleasePlugin(a)
  PROVE  Left'
<1> USE DEF memoryVars, listVars, lockVars, endVars
<1> DEFINE d == job[a].key
           n == job[a].next
           rest == ListDel(nodes, d)
           q == After(rest, n)
           c == job["cleanup"]
<1>1. TypeOK /\ "plugin" \in Actor /\ "cleanup" \in Actor /\ Actor = {"plugin", "cleanup"}
  BY DEF IInv, Actor
<1>2. /\ job[a].pc = "release" /\ d \in Key
      /\ a = "cleanup" => by # Nobody
      /\ UNCHANGED <<list, unit, plugin_lock>> /\ ended = "no"
  BY KeyType DEF ReleasePlugin, Acts, Runs
<1>3. /\ late \subseteq late' /\ (by = Nobody => late' = late)
      /\ a = "plugin" /\ by # Nobody => d \in late'
  BY <1>2, NoteType DEF ReleasePlugin
<1>4. CASE ActorFails(a) /\ UNCHANGED <<plugin, nodes, job>>
  <2>1. by' = by /\ ended' # "exit"
    BY <1>1, <1>2, <1>4, ActorFailsType DEF ActorFails, Undefined, Fault
  <2>2. Disturbed \subseteq Disturbed'
    BY <1>3, <1>4 DEF Disturbed
  <2> QED
    BY <1>2, <1>3, <1>4, <2>1, <2>2, QuietLeft
<1>5. CASE nodes # Null /\ plugin[d] = "mapped"
  <2>1. /\ plugin' = [plugin EXCEPT ![d] = "unmapped"]
        /\ nodes' = rest
        /\ a = "plugin" => job' = [job EXCEPT ![a] = Idle]
        /\ a = "cleanup" => Goto(a, "nodes", n, q)
        /\ UNCHANGED <<by, ended>>
    BY <1>1, <1>5 DEF ReleasePlugin
  <2>2. nodes \in Seq(Key) /\ c.pc # "exit"
    BY <1>5 DEF IInv, CleanupThread
  <2>3. NoneTwice(nodes)
    BY <2>2 DEF Left, Lists
  <2>4. rest \in Seq(Key) /\ Range(nodes) \subseteq Range(rest) \cup {d} /\ NoneTwice(rest)
    BY <2>2, <2>3, ListDelType, ComesAfterDel
  <2>5. \A p : ToCome(nodes, p) \ {d} \subseteq ToCome(rest, p)
    BY <2>2, <2>3, ComesAfterDel
  <2> HIDE DEF rest
  <2>6. n \in Place /\ q \in Place /\ ToCome(rest, n) \subseteq Coming(rest, n, q)
    BY <1>1, <2>4, AfterType, Advance DEF TypeOK
  <2> HIDE DEF q
  <2>7. /\ \A b \in Actor \ {a} : job'[b] = job[b]
        /\ a = "plugin" => job'[a] = Idle
        /\ a = "cleanup" => job'[a] = [pc |-> "nodes", key |-> n, next |-> q]
    <3>1. CASE a = "plugin"
      BY <1>1, <2>1, <3>1, IdleType
    <3>2. CASE a = "cleanup"
      BY <1>1, <2>1, <2>6, <3>2, GotoType DEF Control
    <3> QED
      BY <1>1, <3>1, <3>2
  <2>8. plugin'[d] = "unmapped" /\ \A k \in Key \ {d} : plugin'[k] = plugin[k]
    BY <1>1, <1>2, <2>1 DEF TypeOK
  <2>9. /\ by # Nobody => Disturbed \cap Key \subseteq Disturbed'
        /\ Disturbed \cap Key \subseteq Disturbed' \cup {d}
    BY <1>1, <1>3, <2>7 DEF Disturbed
  <2>10. InNodes' <=> InNodes
    <3>1. CASE a = "plugin"
      BY <1>1, <1>2, <2>7, <3>1 DEF InNodes
    <3>2. CASE a = "cleanup"
      BY <1>2, <2>7, <3>2 DEF InNodes
    <3> QED
      BY <1>1, <3>1, <3>2
  <2>11. Phases'
    <3>1. CASE a = "plugin"
      BY <1>1, <1>2, <2>1, <2>7, <3>1 DEF Left, Phases
    <3>2. CASE a = "cleanup"
      BY <1>2, <2>1, <2>7, <3>2 DEF Left, Phases
    <3> QED
      BY <1>1, <3>1, <3>2
  <2>12. Lists'
    <3>1. CASE a = "plugin"
      BY <1>1, <1>2, <2>1, <2>4, <2>7, <3>1 DEF Left, Lists, Idle
    <3>2. CASE a = "cleanup"
      <4>1. InNodes'
        BY <1>2, <2>10, <3>2 DEF InNodes
      <4> QED
        BY <1>1, <1>2, <2>1, <2>4, <2>7, <3>2, <4>1 DEF Left, Lists
    <3> QED
      BY <1>1, <3>1, <3>2
  <2>13. LiveUnits'
    <3>1. ASSUME NEW k \in Key, unit'[k] = "live" PROVE k \in Disturbed' \/ LiveUnit(k)'
      <4>1. k \in Disturbed \/ LiveUnit(k)
        BY <1>2, <3>1 DEF Left, LiveUnits
      <4>2. CASE a = "plugin"
        <5>1. by = Nobody => unit[d] # "live"
          BY <1>2, <4>2 DEF Left, LiveUnits
        <5>2. LiveUnit(k) => LiveUnit(k)'
          BY <1>1, <1>2, <2>1, <2>7, <2>10, <4>2 DEF LiveUnit
        <5>3. k \in Disturbed => k \in Disturbed'
          BY <1>2, <2>9, <3>1, <5>1
        <5> QED
          BY <4>1, <5>2, <5>3
      <4>3. CASE a = "cleanup"
        <5>1. InNodes
          BY <1>2, <4>3 DEF InNodes
        <5> QED
          BY <1>2, <2>9, <4>1, <4>3, <5>1 DEF LiveUnit
      <4> QED
        BY <1>1, <4>2, <4>3
    <3>2. by' = Nobody => job'["plugin"].pc = "idle"
      <4>1. CASE a = "plugin"
        BY <2>7, <4>1 DEF Idle
      <4>2. CASE a = "cleanup"
        BY <1>2, <2>1, <4>2
      <4> QED
        BY <1>1, <4>1, <4>2
    <3> QED
      BY <3>1, <3>2 DEF LiveUnits
  <2>14. MappedPlugins'
    <3>1. ASSUME NEW k \in Key, plugin'[k] = "mapped"
          PROVE  k # d /\ plugin[k] = "mapped" /\ k \in Range(nodes')
      <4>1. k # d /\ plugin[k] = "mapped"
        BY <2>8, <3>1
      <4> QED
        BY <2>1, <2>2, <2>4, <4>1 DEF Left, MappedPlugins
    <3>2. ASSUME NEW k \in Key, plugin'[k] = "mapped", InNodes'
          PROVE  \/ k \in Disturbed'
                 \/ /\ job'["cleanup"].pc # "exit"
                    /\ k \in Coming(nodes', job'["cleanup"].key, job'["cleanup"].next)
      <4>1. k # d /\ (k \in Disturbed \/ k \in Coming(nodes, c.key, c.next))
        BY <2>10, <3>1, <3>2 DEF Left, MappedPlugins
      <4>2. by # Nobody
        <5>1. by = Nobody => c.pc = "idle"
          BY DEF IInv, CleanupThread, Idle
        <5> QED
          BY <2>10, <3>2, <5>1 DEF InNodes, Left, Phases
      <4>3. CASE k \in Disturbed
        BY <2>9, <4>2, <4>3
      <4>4. CASE k \in Coming(nodes, c.key, c.next) /\ a = "plugin"
        <5>1. job'["cleanup"] = c
          BY <1>1, <2>7, <4>4
        <5> HIDE DEF c
        <5>2. k = c.key \/ k \in ToCome(rest, c.next)
          BY <2>5, <4>1, <4>4 DEF Coming
        <5> QED
          BY <2>1, <2>2, <4>4, <5>1, <5>2 DEF Coming
      <4>5. CASE k \in Coming(nodes, c.key, c.next) /\ a = "cleanup"
        <5>1. k \in ToCome(nodes, n)
          BY <4>1, <4>5 DEF Coming
        <5>2. k \in Coming(rest, n, q)
          BY <2>5, <2>6, <4>1, <5>1
        <5> QED
          BY <2>1, <2>7, <4>5, <5>2
      <4> QED
        BY <1>1, <4>1, <4>3, <4>4, <4>5
    <3> QED
      BY <3>1, <3>2 DEF MappedPlugins
  <2> QED
    BY <2>11, <2>12, <2>13, <2>14 DEF Left
<1> QED
  BY <1>4, <1>5 DEF ReleasePlugin

----------------------------------------------------------------------------
LEMMA StepLeft == IInv /\ Left /\ [Next]_vars => Left'
<1> SUFFICES ASSUME IInv, Left, [Next]_vars PROVE Left'
  OBVIOUS
<1>1. CASE \/ \E r \in Reader : Walks(r)
           \/ UnlockUnit
           \/ \E k \in Key : Update(k)
  BY <1>1, WalksLeft
<1>2. ASSUME NEW k \in Key, LoadPlugin(k) \/ UnloadPlugin(k) PROVE Left'
  BY <1>2, LoadPluginLeft, UnloadPluginLeft
<1>3. ASSUME NEW a \in Actor, Deletes(a) PROVE Left'
  BY <1>3, DelMetricLeft, StopUnitLeft, StopFreedUnitLeft, FreeUnitLeft, ReleasePluginLeft
     DEF Deletes
<1>4. CASE AddMetric
  BY <1>4, AddMetricLeft
<1>5. CASE \/ \E k \in Key : Crash(k)
           \/ CrashInit
           \/ Signal
           \/ \E t \in Thread : SignalAgain(t)
           \/ Exit
  BY <1>5, HandlerLeft
<1>6. ASSUME NEW t \in Thread, BeginCleanup(t) PROVE Left'
  BY <1>6, BeginCleanupLeft
<1>7. CASE CleanUnits \/ CleanNodes
  BY <1>7, CleanUnitsLeft, CleanNodesLeft
<1>8. CASE UNCHANGED vars
  <2>1. UNCHANGED <<list, nodes, unit, plugin, job, by, late, plugin_lock, ended>>
    BY <1>8 DEF vars
  <2>2. ended' = "exit" => job["cleanup"].pc = "exit"
    BY <2>1 DEF Left, Phases
  <2> QED
    BY <2>1, <2>2, QuietLeft DEF Disturbed
<1> QED
  BY <1>1, <1>2, <1>3, <1>4, <1>5, <1>6, <1>7, <1>8 DEF Next, Cleans

\* However the plugin thread changes the lists under cleanup, nothing that it
\* did not touch is left when the program exits.
THEOREM LeftCorrect == Spec => []NothingIsLeft
<1>1. IInv /\ Left => NothingIsLeft
  <2> SUFFICES ASSUME IInv, Left, ended = "exit", NEW k \in Key \ Disturbed
               PROVE  unit[k] # "live" /\ plugin[k] # "mapped"
    BY DEF NothingIsLeft
  <2>1. job["cleanup"].pc = "exit"
    BY DEF Left, Phases
  <2>2. InNodes /\ by # Nobody
    BY <2>1 DEF InNodes, IInv, CleanupThread, Idle
  <2>3. unit[k] # "live"
    BY <2>2 DEF Left, LiveUnits, LiveUnit
  <2>4. plugin[k] # "mapped"
    BY <2>1, <2>2 DEF Left, MappedPlugins
  <2> QED
    BY <2>3, <2>4
<1> QED
  BY <1>1, InitLeft, StepLeft, Correct, PTL DEF Spec
=============================================================================
