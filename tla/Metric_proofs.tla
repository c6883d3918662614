---------------------------- MODULE Metric_proofs ----------------------------
(***************************************************************************)
(* Proofs about Metric, for every set of plugins, every number of items    *)
(* and all intervals: no thread uses the memory of a unit or of a plugin   *)
(* that is gone, and the threads implement UnitLife.                       *)
(***************************************************************************)
EXTENDS Metric, TLAPS

USE NoKeyAssumption

-----------------------------------------------------------------------------
(***************************************************************************)
(* The items of a unit stay items.                                         *)
(***************************************************************************)

\* An item that a plugin asked for is an item of the unit ...
LEMMA MakeSubunitType ==
  ASSUME NEW c \in SubChannel
  PROVE  MakeSubunit(c) \in SubUnit
BY IntervalAssumption DEF MakeSubunit, SubChannel, SubUnit

\* ... so it is when the rings of the unit have moved ...
LEMMA MoveForwardType ==
  ASSUME NEW units \in [Item -> SubUnit]
  PROVE  MoveForward(units) \in [Item -> SubUnit]
BY IntervalAssumption DEF SubUnit, MoveForward, GoOneStep, Spent

\* ... and when it has been pushed.
LEMMA AfterRunType ==
  ASSUME NEW m \in SubUnit
  PROVE  AfterRun(m) \in SubUnit
<1>1. m.interval \in Interval /\ m.interval \in Nat
  BY IntervalAssumption DEF SubUnit
<1>2. CASE m.run_time = 0
  BY <1>2 DEF AfterRun, Spent
<1>3. CASE m.run_time = -1
  BY <1>1, <1>3 DEF SubUnit, AfterRun, Spent
<1>4. CASE m.run_time = 1
  BY <1>1, <1>4 DEF SubUnit, AfterRun, Spent
<1> QED
  BY <1>2, <1>3, <1>4 DEF SubUnit

-----------------------------------------------------------------------------
(***************************************************************************)
(* The inductive invariant.                                                *)
(***************************************************************************)

\* Who holds plugin_lock follows from where the threads are.
PluginLockInv ==
  /\ "traversal" \in plugin_lock.readers <=> trav.pc # "asleep"
  /\ "collector" \in plugin_lock.readers <=> coll.pc # "asleep"
  /\ plugin_lock.writer = "plugin" <=> plug.pc \in {"stop", "join"}
  /\ plugin_lock.writer = "plugin" => plugin_lock.readers = {}

\* So does who holds the lock of a unit.
UnitLockInv ==
  \A k \in Key :
    /\ unit_lock[k] = "traversal" <=> trav.pc = "items" /\ trav.key = k
    /\ unit_lock[k] = "plugin" <=> plug.pc = "join" /\ plug.key = k
    /\ unit_lock[k] # "collector"

\* What a reader has in hand is in the list.
ReaderInv ==
  /\ trav.pc = "asleep" => trav.todo = {}
  /\ trav.key \in Key <=> trav.pc = "items"
  /\ trav.todo \subseteq metrics
  /\ trav.key \in Key => trav.key \in metrics
  /\ coll.pc = "asleep" => coll.todo = {}
  /\ coll.key \in Key <=> coll.pc = "print"
  /\ coll.todo \subseteq metrics
  /\ coll.key \in Key => coll.key \in metrics

\* Where the plugin thread stands in the life of the plugin it works on.
PlugInv ==
  /\ plug.key \in Key <=> plug.pc # "idle"
  /\ plug.pc \in {"link", "join"} => /\ unit[plug.key] = "live"
                                     /\ plug.key \notin metrics
  /\ plug.pc \in {"del", "stop"} => plug.key \in metrics
  /\ plug.pc = "release" => /\ unit[plug.key] = "freed"
                            /\ plugin[plug.key] = "mapped"

\* The memory of a unit and of its plugin, and the state of its thread.
MemoryInv ==
  \A k \in Key :
    /\ k \in metrics => unit[k] = "live"
    /\ unit[k] = "live" => plugin[k] = "mapped"
    /\ unit[k] = "live" /\ k \notin metrics =>
         plug.key = k /\ plug.pc \in {"link", "join"}
    /\ unit[k] = "freed" /\ plugin[k] # "unmapped" =>
         plug.key = k /\ plug.pc = "release"
    /\ plugin[k] = "unmapped" => unit[k] = "freed"
    /\ upd[k].pc \in {"test", "pop", "run"} => unit[k] = "live"

IInv ==
  /\ TypeOK
  /\ PluginLockInv
  /\ UnitLockInv
  /\ ReaderInv
  /\ PlugInv
  /\ MemoryInv

-----------------------------------------------------------------------------
(***************************************************************************)
(* Every action keeps the invariant: one lemma each.                       *)
(***************************************************************************)

\* The program starts in the invariant.
LEMMA InitIInv == Init => IInv
<1> SUFFICES ASSUME Init PROVE IInv
  OBVIOUS
<1>1. 1 \in Item
  BY NumItemAssumption DEF Item
<1>2. TypeOK
  BY <1>1 DEF Init, TypeOK, At, Reader, Thread
<1>3. PluginLockInv /\ UnitLockInv /\ ReaderInv /\ PlugInv /\ MemoryInv
  BY DEF Init, PluginLockInv, UnitLockInv, ReaderInv, PlugInv, MemoryInv,
         Nobody, At
<1> QED
  BY <1>2, <1>3 DEF IInv

\* MakeUnit: A new unit is live and not in the list until its key is linked.
LEMMA MakeUnitIInv ==
  ASSUME IInv, NEW k \in Key, MakeUnit(k)
  PROVE  IInv'
<1> USE DEF IInv
<1>0. PICK channel \in Channel :
        sub' = [sub EXCEPT ![k] = [i \in Item |-> MakeSubunit(channel[i])]]
  BY DEF MakeUnit
<1>a. [i \in Item |-> MakeSubunit(channel[i])] \in [Item -> SubUnit]
  BY ChannelAssumption, MakeSubunitType
<1>b. /\ sub' \in [Key -> [Item -> SubUnit] \union {<< >>}]
      /\ \A j \in Key : unit'[j] = "live" => sub'[j] \in [Item -> SubUnit]
  BY <1>0, <1>a DEF MakeUnit, TypeOK
<1>1. TypeOK'
  BY <1>b DEF MakeUnit, lockVars, At, TypeOK, PlugInv, ReaderInv, MemoryInv
<1>2. PluginLockInv'
  BY DEF MakeUnit, lockVars, At, TypeOK, PluginLockInv
<1>3. UnitLockInv'
  BY DEF MakeUnit, lockVars, At, TypeOK, UnitLockInv, PluginLockInv,
         ReaderInv, PlugInv
<1>4. ReaderInv'
  BY DEF MakeUnit, lockVars, At, TypeOK, ReaderInv, PluginLockInv
<1>5. PlugInv'
  BY DEF MakeUnit, lockVars, At, TypeOK, PlugInv, MemoryInv
<1>6. MemoryInv'
  BY DEF MakeUnit, lockVars, At, TypeOK, MemoryInv, PlugInv
<1> QED
  BY <1>1, <1>2, <1>3, <1>4, <1>5, <1>6

\* AddMetric: The unit that is being linked enters the list.
LEMMA AddMetricIInv ==
  ASSUME IInv, AddMetric
  PROVE  IInv'
<1> USE DEF IInv
<1>1. TypeOK'
  BY DEF AddMetric, ringVars, lockVars, CanWrite, TypeOK, PlugInv, ReaderInv,
         MemoryInv
<1>2. PluginLockInv'
  BY DEF AddMetric, ringVars, lockVars, CanWrite, TypeOK, PluginLockInv
<1>3. UnitLockInv'
  BY DEF AddMetric, ringVars, lockVars, CanWrite, TypeOK, UnitLockInv,
         PluginLockInv, ReaderInv, PlugInv
<1>4. ReaderInv'
  BY DEF AddMetric, ringVars, lockVars, CanWrite, TypeOK, ReaderInv,
         PluginLockInv
<1>5. PlugInv'
  BY DEF AddMetric, ringVars, lockVars, CanWrite, TypeOK, PlugInv, MemoryInv
<1>6. MemoryInv'
  BY DEF AddMetric, ringVars, lockVars, CanWrite, TypeOK, MemoryInv, PlugInv
<1> QED
  BY <1>1, <1>2, <1>3, <1>4, <1>5, <1>6

\* UnloadPlugin: Only the plugin thread's own state changes: it goes for a listed unit.
LEMMA UnloadPluginIInv ==
  ASSUME IInv, NEW k \in Key, UnloadPlugin(k)
  PROVE  IInv'
<1> USE DEF IInv
<1>1. TypeOK'
  BY DEF UnloadPlugin, unitVars, ringVars, lockVars, TypeOK, PlugInv,
         ReaderInv, MemoryInv
<1>2. PluginLockInv'
  BY DEF UnloadPlugin, unitVars, ringVars, lockVars, TypeOK, PluginLockInv
<1>3. UnitLockInv'
  BY DEF UnloadPlugin, unitVars, ringVars, lockVars, TypeOK, UnitLockInv,
         PluginLockInv, ReaderInv, PlugInv
<1>4. ReaderInv'
  BY DEF UnloadPlugin, unitVars, ringVars, lockVars, TypeOK, ReaderInv,
         PluginLockInv
<1>5. PlugInv'
  BY DEF UnloadPlugin, unitVars, ringVars, lockVars, TypeOK, PlugInv, MemoryInv
<1>6. MemoryInv'
  BY DEF UnloadPlugin, unitVars, ringVars, lockVars, TypeOK, MemoryInv, PlugInv
<1> QED
  BY <1>1, <1>2, <1>3, <1>4, <1>5, <1>6

\* DelMetric: The write lock is taken when nobody reads; the unit stays listed.
LEMMA DelMetricIInv ==
  ASSUME IInv, DelMetric
  PROVE  IInv'
<1> USE DEF IInv
<1>1. TypeOK'
  BY DEF DelMetric, ringVars, WrLock, CanWrite, HeldBy, TypeOK, PlugInv,
         ReaderInv, MemoryInv
<1>2. PluginLockInv'
  BY DEF DelMetric, ringVars, WrLock, CanWrite, HeldBy, TypeOK, PluginLockInv
<1>3. UnitLockInv'
  BY DEF DelMetric, ringVars, WrLock, CanWrite, HeldBy, TypeOK, UnitLockInv,
         PluginLockInv, ReaderInv, PlugInv
<1>4. ReaderInv'
  BY DEF DelMetric, ringVars, WrLock, CanWrite, HeldBy, TypeOK, ReaderInv,
         PluginLockInv
<1>5. PlugInv'
  BY DEF DelMetric, ringVars, WrLock, CanWrite, HeldBy, TypeOK, PlugInv,
         MemoryInv
<1>6. MemoryInv'
  BY DEF DelMetric, ringVars, WrLock, CanWrite, HeldBy, TypeOK, MemoryInv,
         PlugInv
<1> QED
  BY <1>1, <1>2, <1>3, <1>4, <1>5, <1>6

\* StopUnit: No reader has the unit, so it can leave the list.
LEMMA StopUnitIInv ==
  ASSUME IInv, StopUnit
  PROVE  IInv'
<1> USE DEF IInv
<1>0. plug.key \in Key
  BY DEF StopUnit, PlugInv
<1>1. TypeOK'
  BY <1>0 DEF StopUnit, ringVars, TypeOK, PlugInv, ReaderInv, MemoryInv,
     Nobody, Reader, Thread
<1>2. PluginLockInv'
  BY DEF StopUnit, ringVars, TypeOK, PluginLockInv, Nobody
<1>3. UnitLockInv'
  BY DEF StopUnit, ringVars, TypeOK, UnitLockInv, PluginLockInv, ReaderInv,
         PlugInv, Nobody
<1>4. ReaderInv'
  BY DEF StopUnit, ringVars, TypeOK, ReaderInv, PluginLockInv
<1>5. PlugInv'
  BY DEF StopUnit, ringVars, TypeOK, PlugInv, MemoryInv
<1>6. MemoryInv'
  BY DEF StopUnit, ringVars, TypeOK, MemoryInv, PlugInv
<1> QED
  BY <1>1, <1>2, <1>3, <1>4, <1>5, <1>6

\* FreeUnit: The update thread is done, and nobody else has the unit.
LEMMA FreeUnitIInv ==
  ASSUME IInv, FreeUnit
  PROVE  IInv'
<1> USE DEF IInv
<1>0. plug.key \in Key
  BY DEF FreeUnit, PlugInv
<1>1. TypeOK'
  <2>1. /\ sub' \in [Key -> [Item -> SubUnit] \union {<< >>}]
        /\ \A k \in Key : unit'[k] = "live" => sub'[k] \in [Item -> SubUnit]
        /\ unit' \in [Key -> {"none", "live", "freed"}]
    BY <1>0 DEF FreeUnit, TypeOK
  <2>2. fifo' \in [Key -> Seq(Item)]
    BY <1>0 DEF FreeUnit, TypeOK
  <2>3. /\ plugin_lock' \in [writer : {"plugin", Nobody}, readers : SUBSET Reader]
        /\ unit_lock' \in [Key -> Thread \union {Nobody}]
    BY <1>0 DEF FreeUnit, WrUnlock, HeldBy, TypeOK
  <2>4. plug' \in [pc  : {"idle", "link", "del", "stop", "join", "release"},
                   key : Key \union {NoKey}]
    BY <1>0 DEF FreeUnit, TypeOK
  <2> QED
    BY <2>1, <2>2, <2>3, <2>4 DEF FreeUnit, TypeOK
<1>2. PluginLockInv'
  BY DEF FreeUnit, WrUnlock, HeldBy, TypeOK, PluginLockInv, Nobody
<1>3. UnitLockInv'
  BY DEF FreeUnit, WrUnlock, HeldBy, TypeOK, UnitLockInv, PluginLockInv,
         ReaderInv, PlugInv, Nobody
<1>4. ReaderInv'
  BY DEF FreeUnit, WrUnlock, HeldBy, TypeOK, ReaderInv, PluginLockInv
<1>5. PlugInv'
  BY DEF FreeUnit, WrUnlock, HeldBy, TypeOK, PlugInv, MemoryInv
<1>6. MemoryInv'
  BY DEF FreeUnit, WrUnlock, HeldBy, TypeOK, MemoryInv, PlugInv
<1> QED
  BY <1>1, <1>2, <1>3, <1>4, <1>5, <1>6

\* ReleasePlugin: The plugin of a freed unit is closed; no other plugin changes.
LEMMA ReleasePluginIInv ==
  ASSUME IInv, ReleasePlugin
  PROVE  IInv'
<1> USE DEF IInv
<1>1. TypeOK'
  BY DEF ReleasePlugin, ringVars, lockVars, TypeOK, PlugInv, ReaderInv,
         MemoryInv
<1>2. PluginLockInv'
  BY DEF ReleasePlugin, ringVars, lockVars, TypeOK, PluginLockInv
<1>3. UnitLockInv'
  BY DEF ReleasePlugin, ringVars, lockVars, TypeOK, UnitLockInv,
         PluginLockInv, ReaderInv, PlugInv
<1>4. ReaderInv'
  BY DEF ReleasePlugin, ringVars, lockVars, TypeOK, ReaderInv, PluginLockInv
<1>5. PlugInv'
  BY DEF ReleasePlugin, ringVars, lockVars, TypeOK, PlugInv, MemoryInv
<1>6. MemoryInv'
  BY DEF ReleasePlugin, ringVars, lockVars, TypeOK, MemoryInv, PlugInv
<1> QED
  BY <1>1, <1>2, <1>3, <1>4, <1>5, <1>6

\* BeginPass: A pass starts with the listed units, under the read lock.
LEMMA BeginPassIInv ==
  ASSUME IInv, BeginPass
  PROVE  IInv'
<1> USE DEF IInv
<1>1. TypeOK'
  BY DEF BeginPass, unitVars, ringVars, RdLock, CanRead, HeldBy, TypeOK,
         PlugInv, ReaderInv, MemoryInv, Nobody, Reader, Thread
<1>2. PluginLockInv'
  BY DEF BeginPass, unitVars, ringVars, RdLock, CanRead, HeldBy, TypeOK,
         PluginLockInv, Nobody
<1>3. UnitLockInv'
  BY DEF BeginPass, unitVars, ringVars, RdLock, CanRead, HeldBy, TypeOK,
         UnitLockInv, PluginLockInv, ReaderInv, PlugInv, Nobody
<1>4. ReaderInv'
  BY DEF BeginPass, unitVars, ringVars, RdLock, CanRead, HeldBy, TypeOK,
         ReaderInv, PluginLockInv
<1>5. PlugInv'
  BY DEF BeginPass, unitVars, ringVars, RdLock, CanRead, HeldBy, TypeOK,
         PlugInv, MemoryInv
<1>6. MemoryInv'
  BY DEF BeginPass, unitVars, ringVars, RdLock, CanRead, HeldBy, TypeOK,
         MemoryInv, PlugInv
<1> QED
  BY <1>1, <1>2, <1>3, <1>4, <1>5, <1>6

\* VisitUnit: The traversal takes the lock of a listed unit, or leaves it alone.
LEMMA VisitUnitIInv ==
  ASSUME IInv, NEW k \in Key, VisitUnit(k)
  PROVE  IInv'
<1> USE DEF IInv
<1>1. TypeOK'
  <2>1. unit[k] = "live"
    BY DEF VisitUnit, ReaderInv, MemoryInv
  <2>2. MoveForward(sub[k]) \in [Item -> SubUnit]
    BY <2>1, MoveForwardType DEF TypeOK
  <2>3. /\ sub' \in [Key -> [Item -> SubUnit] \union {<< >>}]
        /\ \A j \in Key : unit'[j] = "live" => sub'[j] \in [Item -> SubUnit]
    BY <2>2 DEF VisitUnit, unitVars, TypeOK
  <2>4. unit_lock' \in [Key -> Thread \union {Nobody}]
    BY DEF VisitUnit, TypeOK, Thread, Reader
  <2>5. trav' \in [pc   : {"asleep", "list", "items"},
                   todo : SUBSET Key,
                   key  : Key \union {NoKey},
                   item : Item \union {NumItem + 1}]
    BY NumItemAssumption DEF VisitUnit, TypeOK, Item
  <2> QED
    BY <2>3, <2>4, <2>5 DEF VisitUnit, unitVars, TypeOK
<1>2. PluginLockInv'
  BY DEF VisitUnit, unitVars, TypeOK, PluginLockInv, Nobody
<1>3. UnitLockInv'
  BY DEF VisitUnit, unitVars, TypeOK, UnitLockInv, PluginLockInv, ReaderInv,
         PlugInv, Nobody
<1>4. ReaderInv'
  BY DEF VisitUnit, unitVars, TypeOK, ReaderInv, PluginLockInv
<1>5. PlugInv'
  BY DEF VisitUnit, unitVars, TypeOK, PlugInv, MemoryInv
<1>6. MemoryInv'
  BY DEF VisitUnit, unitVars, TypeOK, MemoryInv, PlugInv
<1> QED
  BY <1>1, <1>2, <1>3, <1>4, <1>5, <1>6

\* RunItem: Only items and fifo of the unit in hand change.
LEMMA RunItemIInv ==
  ASSUME IInv, RunItem
  PROVE  IInv'
<1> USE DEF IInv
<1>0. trav.key \in Key /\ unit[trav.key] = "live" /\ trav.item \in Item
  BY DEF RunItem, ReaderInv, MemoryInv
<1>1. TypeOK'
  <2>1. sub[trav.key] \in [Item -> SubUnit]
    BY <1>0 DEF TypeOK
  <2>2. AfterRun(sub[trav.key][trav.item]) \in SubUnit
    BY <1>0, <2>1, AfterRunType
  <2>3. /\ sub' \in [Key -> [Item -> SubUnit] \union {<< >>}]
        /\ \A j \in Key : unit'[j] = "live" => sub'[j] \in [Item -> SubUnit]
    BY <1>0, <2>1, <2>2 DEF RunItem, unitVars, TypeOK
  <2>4. fifo' \in [Key -> Seq(Item)]
    BY <1>0 DEF RunItem, TypeOK
  <2>5. trav' \in [pc   : {"asleep", "list", "items"},
                   todo : SUBSET Key,
                   key  : Key \union {NoKey},
                   item : Item \union {NumItem + 1}]
    <3>1. trav.item + 1 \in Item \union {NumItem + 1}
      BY <1>0, NumItemAssumption DEF Item
    <3> QED
      BY <3>1 DEF RunItem, TypeOK
  <2> QED
    BY <2>3, <2>4, <2>5 DEF RunItem, unitVars, lockVars, TypeOK
<1>2. PluginLockInv'
  BY DEF RunItem, unitVars, lockVars, TypeOK, PluginLockInv, Nobody
<1>3. UnitLockInv'
  BY DEF RunItem, unitVars, lockVars, TypeOK, UnitLockInv, PluginLockInv,
         ReaderInv, PlugInv, Nobody
<1>4. ReaderInv'
  BY DEF RunItem, unitVars, lockVars, TypeOK, ReaderInv, PluginLockInv
<1>5. PlugInv'
  BY DEF RunItem, unitVars, lockVars, TypeOK, PlugInv, MemoryInv
<1>6. MemoryInv'
  BY DEF RunItem, unitVars, lockVars, TypeOK, MemoryInv, PlugInv
<1> QED
  BY <1>1, <1>2, <1>3, <1>4, <1>5, <1>6

\* LeaveUnit: The traversal gives the lock of its unit back.
LEMMA LeaveUnitIInv ==
  ASSUME IInv, LeaveUnit
  PROVE  IInv'
<1> USE DEF IInv
<1>0. trav.key \in Key
  BY DEF LeaveUnit, ReaderInv
<1>1. TypeOK'
  <2>1. unit_lock' \in [Key -> Thread \union {Nobody}]
    BY <1>0 DEF LeaveUnit, TypeOK
  <2>2. trav' \in [pc   : {"asleep", "list", "items"},
                   todo : SUBSET Key,
                   key  : Key \union {NoKey},
                   item : Item \union {NumItem + 1}]
    <3>1. 1 \in Item
      BY NumItemAssumption DEF Item
    <3> QED
      BY <3>1 DEF LeaveUnit, TypeOK
  <2> QED
    BY <2>1, <2>2 DEF LeaveUnit, unitVars, ringVars, TypeOK
<1>2. PluginLockInv'
  BY DEF LeaveUnit, unitVars, ringVars, TypeOK, PluginLockInv, Nobody
<1>3. UnitLockInv'
  BY DEF LeaveUnit, unitVars, ringVars, TypeOK, UnitLockInv, PluginLockInv,
         ReaderInv, PlugInv, Nobody
<1>4. ReaderInv'
  BY DEF LeaveUnit, unitVars, ringVars, TypeOK, ReaderInv, PluginLockInv
<1>5. PlugInv'
  BY DEF LeaveUnit, unitVars, ringVars, TypeOK, PlugInv, MemoryInv
<1>6. MemoryInv'
  BY DEF LeaveUnit, unitVars, ringVars, TypeOK, MemoryInv, PlugInv
<1> QED
  BY <1>1, <1>2, <1>3, <1>4, <1>5, <1>6

\* EndPass: The traversal has no unit left and leaves the list.
LEMMA EndPassIInv ==
  ASSUME IInv, EndPass
  PROVE  IInv'
<1> USE DEF IInv
<1>1. TypeOK'
  BY DEF EndPass, unitVars, ringVars, RdUnlock, HeldBy, TypeOK, PlugInv,
         ReaderInv, MemoryInv
<1>2. PluginLockInv'
  BY DEF EndPass, unitVars, ringVars, RdUnlock, HeldBy, TypeOK, PluginLockInv
<1>3. UnitLockInv'
  BY DEF EndPass, unitVars, ringVars, RdUnlock, HeldBy, TypeOK, UnitLockInv,
         PluginLockInv, ReaderInv, PlugInv
<1>4. ReaderInv'
  BY DEF EndPass, unitVars, ringVars, RdUnlock, HeldBy, TypeOK, ReaderInv,
         PluginLockInv
<1>5. PlugInv'
  BY DEF EndPass, unitVars, ringVars, RdUnlock, HeldBy, TypeOK, PlugInv,
         MemoryInv
<1>6. MemoryInv'
  BY DEF EndPass, unitVars, ringVars, RdUnlock, HeldBy, TypeOK, MemoryInv,
         PlugInv
<1> QED
  BY <1>1, <1>2, <1>3, <1>4, <1>5, <1>6

\* BeginList: A listing starts with the listed units, under the read lock.
LEMMA BeginListIInv ==
  ASSUME IInv, BeginList
  PROVE  IInv'
<1> USE DEF IInv
<1>1. TypeOK'
  BY DEF BeginList, unitVars, ringVars, RdLock, CanRead, HeldBy, TypeOK,
         PlugInv, ReaderInv, MemoryInv, Nobody, Reader, Thread
<1>2. PluginLockInv'
  BY DEF BeginList, unitVars, ringVars, RdLock, CanRead, HeldBy, TypeOK,
         PluginLockInv, Nobody
<1>3. UnitLockInv'
  BY DEF BeginList, unitVars, ringVars, RdLock, CanRead, HeldBy, TypeOK,
         UnitLockInv, PluginLockInv, ReaderInv, PlugInv, Nobody
<1>4. ReaderInv'
  BY DEF BeginList, unitVars, ringVars, RdLock, CanRead, HeldBy, TypeOK,
         ReaderInv, PluginLockInv
<1>5. PlugInv'
  BY DEF BeginList, unitVars, ringVars, RdLock, CanRead, HeldBy, TypeOK,
         PlugInv, MemoryInv
<1>6. MemoryInv'
  BY DEF BeginList, unitVars, ringVars, RdLock, CanRead, HeldBy, TypeOK,
         MemoryInv, PlugInv
<1> QED
  BY <1>1, <1>2, <1>3, <1>4, <1>5, <1>6

\* BeginPrint: The collector goes to a listed unit.
LEMMA BeginPrintIInv ==
  ASSUME IInv, NEW k \in Key, BeginPrint(k)
  PROVE  IInv'
<1> USE DEF IInv
<1>1. TypeOK'
  BY DEF BeginPrint, unitVars, ringVars, lockVars, TypeOK, PlugInv, ReaderInv,
         MemoryInv
<1>2. PluginLockInv'
  BY DEF BeginPrint, unitVars, ringVars, lockVars, TypeOK, PluginLockInv
<1>3. UnitLockInv'
  BY DEF BeginPrint, unitVars, ringVars, lockVars, TypeOK, UnitLockInv,
         PluginLockInv, ReaderInv, PlugInv
<1>4. ReaderInv'
  BY DEF BeginPrint, unitVars, ringVars, lockVars, TypeOK, ReaderInv,
         PluginLockInv
<1>5. PlugInv'
  BY DEF BeginPrint, unitVars, ringVars, lockVars, TypeOK, PlugInv, MemoryInv
<1>6. MemoryInv'
  BY DEF BeginPrint, unitVars, ringVars, lockVars, TypeOK, MemoryInv, PlugInv
<1> QED
  BY <1>1, <1>2, <1>3, <1>4, <1>5, <1>6

\* EndPrint: The collector lets go of its unit.
LEMMA EndPrintIInv ==
  ASSUME IInv, EndPrint
  PROVE  IInv'
<1> USE DEF IInv
<1>1. TypeOK'
  BY DEF EndPrint, unitVars, ringVars, lockVars, TypeOK, PlugInv, ReaderInv,
         MemoryInv
<1>2. PluginLockInv'
  BY DEF EndPrint, unitVars, ringVars, lockVars, TypeOK, PluginLockInv
<1>3. UnitLockInv'
  BY DEF EndPrint, unitVars, ringVars, lockVars, TypeOK, UnitLockInv,
         PluginLockInv, ReaderInv, PlugInv
<1>4. ReaderInv'
  BY DEF EndPrint, unitVars, ringVars, lockVars, TypeOK, ReaderInv,
         PluginLockInv
<1>5. PlugInv'
  BY DEF EndPrint, unitVars, ringVars, lockVars, TypeOK, PlugInv, MemoryInv
<1>6. MemoryInv'
  BY DEF EndPrint, unitVars, ringVars, lockVars, TypeOK, MemoryInv, PlugInv
<1> QED
  BY <1>1, <1>2, <1>3, <1>4, <1>5, <1>6

\* EndList: The collector has no unit left and leaves the list.
LEMMA EndListIInv ==
  ASSUME IInv, EndList
  PROVE  IInv'
<1> USE DEF IInv
<1>1. TypeOK'
  BY DEF EndList, unitVars, ringVars, RdUnlock, HeldBy, TypeOK, PlugInv,
         ReaderInv, MemoryInv
<1>2. PluginLockInv'
  BY DEF EndList, unitVars, ringVars, RdUnlock, HeldBy, TypeOK, PluginLockInv
<1>3. UnitLockInv'
  BY DEF EndList, unitVars, ringVars, RdUnlock, HeldBy, TypeOK, UnitLockInv,
         PluginLockInv, ReaderInv, PlugInv
<1>4. ReaderInv'
  BY DEF EndList, unitVars, ringVars, RdUnlock, HeldBy, TypeOK, ReaderInv,
         PluginLockInv
<1>5. PlugInv'
  BY DEF EndList, unitVars, ringVars, RdUnlock, HeldBy, TypeOK, PlugInv,
         MemoryInv
<1>6. MemoryInv'
  BY DEF EndList, unitVars, ringVars, RdUnlock, HeldBy, TypeOK, MemoryInv,
         PlugInv
<1> QED
  BY <1>1, <1>2, <1>3, <1>4, <1>5, <1>6

\* TestRunning: An update thread goes on or ends; the unit is not touched.
LEMMA TestRunningIInv ==
  ASSUME IInv, NEW k \in Key, TestRunning(k)
  PROVE  IInv'
<1> USE DEF IInv
<1>1. TypeOK'
  BY DEF TestRunning, unitVars, ringVars, lockVars, At, TypeOK, PlugInv,
         ReaderInv, MemoryInv
<1>2. PluginLockInv'
  BY DEF TestRunning, unitVars, ringVars, lockVars, At, TypeOK, PluginLockInv
<1>3. UnitLockInv'
  BY DEF TestRunning, unitVars, ringVars, lockVars, At, TypeOK, UnitLockInv,
         PluginLockInv, ReaderInv, PlugInv
<1>4. ReaderInv'
  BY DEF TestRunning, unitVars, ringVars, lockVars, At, TypeOK, ReaderInv,
         PluginLockInv
<1>5. PlugInv'
  BY DEF TestRunning, unitVars, ringVars, lockVars, At, TypeOK, PlugInv,
         MemoryInv
<1>6. MemoryInv'
  BY DEF TestRunning, unitVars, ringVars, lockVars, At, TypeOK, MemoryInv,
         PlugInv
<1> QED
  BY <1>1, <1>2, <1>3, <1>4, <1>5, <1>6

\* PopAction: An update thread takes an item from the fifo of its live unit.
LEMMA PopActionIInv ==
  ASSUME IInv, NEW k \in Key, PopAction(k)
  PROVE  IInv'
<1> USE DEF IInv
<1>0. /\ fifo' \in [Key -> Seq(Item)]
      /\ upd' \in [Key -> [pc   : {"none", "test", "pop", "run", "done"},
                           item : Item \union {NoItem}]]
      /\ upd'[k].pc \in {"test", "run"}
      /\ \A j \in Key : j # k => upd'[j] = upd[j]
  <2>0. /\ At("test") \in [pc   : {"none", "test", "pop", "run", "done"},
                           item : Item \union {NoItem}]
        /\ At("test").pc = "test"
    BY DEF At
  <2>1. CASE fifo[k] = << >>
    <3>1. upd' = [upd EXCEPT ![k] = At("test")] /\ fifo' = fifo
      BY <2>1 DEF PopAction
    <3> QED
      BY <2>0, <3>1 DEF TypeOK
  <2>2. CASE fifo[k] # << >>
    <3>1. Head(fifo[k]) \in Item /\ Tail(fifo[k]) \in Seq(Item)
      BY <2>2 DEF TypeOK
    <3>2. /\ Running(Head(fifo[k])) \in
               [pc   : {"none", "test", "pop", "run", "done"},
                item : Item \union {NoItem}]
          /\ Running(Head(fifo[k])).pc = "run"
      BY <3>1 DEF Running
    <3>3. /\ upd' = [upd EXCEPT ![k] = Running(Head(fifo[k]))]
          /\ fifo' = [fifo EXCEPT ![k] = Tail(fifo[k])]
      BY <2>2 DEF PopAction
    <3> QED
      BY <3>1, <3>2, <3>3 DEF TypeOK
  <2> QED
    BY <2>1, <2>2
<1>1. TypeOK'
  BY <1>0 DEF PopAction, unitVars, lockVars, TypeOK
<1>2. PluginLockInv'
  BY DEF PopAction, unitVars, lockVars, At, Running, TypeOK, PluginLockInv,
         Nobody
<1>3. UnitLockInv'
  BY DEF PopAction, unitVars, lockVars, At, Running, TypeOK, UnitLockInv,
         PluginLockInv, ReaderInv, PlugInv, Nobody
<1>4. ReaderInv'
  BY DEF PopAction, unitVars, lockVars, At, Running, TypeOK, ReaderInv,
         PluginLockInv
<1>5. PlugInv'
  BY DEF PopAction, unitVars, lockVars, At, Running, TypeOK, PlugInv, MemoryInv
<1>6. MemoryInv'
  <2>1. unit[k] = "live"
    BY DEF PopAction, MemoryInv
  <2> QED
    BY <1>0, <2>1 DEF PopAction, unitVars, MemoryInv
<1> QED
  BY <1>1, <1>2, <1>3, <1>4, <1>5, <1>6

\* EndUpdate: A collect function returns.
LEMMA EndUpdateIInv ==
  ASSUME IInv, NEW k \in Key, EndUpdate(k)
  PROVE  IInv'
<1> USE DEF IInv
<1>1. TypeOK'
  BY DEF EndUpdate, unitVars, ringVars, lockVars, At, TypeOK, PlugInv,
         ReaderInv, MemoryInv
<1>2. PluginLockInv'
  BY DEF EndUpdate, unitVars, ringVars, lockVars, At, TypeOK, PluginLockInv
<1>3. UnitLockInv'
  BY DEF EndUpdate, unitVars, ringVars, lockVars, At, TypeOK, UnitLockInv,
         PluginLockInv, ReaderInv, PlugInv
<1>4. ReaderInv'
  BY DEF EndUpdate, unitVars, ringVars, lockVars, At, TypeOK, ReaderInv,
         PluginLockInv
<1>5. PlugInv'
  BY DEF EndUpdate, unitVars, ringVars, lockVars, At, TypeOK, PlugInv,
         MemoryInv
<1>6. MemoryInv'
  BY DEF EndUpdate, unitVars, ringVars, lockVars, At, TypeOK, MemoryInv,
         PlugInv
<1> QED
  BY <1>1, <1>2, <1>3, <1>4, <1>5, <1>6

\* The invariant is inductive.
LEMMA NextIInv == IInv /\ [Next]_vars => IInv'
<1> SUFFICES ASSUME IInv, [Next]_vars PROVE IInv'
  OBVIOUS
<1>1. CASE PluginThread
  BY <1>1, MakeUnitIInv, AddMetricIInv, UnloadPluginIInv, DelMetricIInv,
     StopUnitIInv, FreeUnitIInv, ReleasePluginIInv DEF PluginThread, Delete
<1>2. CASE TraversalThread
  BY <1>2, BeginPassIInv, VisitUnitIInv, RunItemIInv, LeaveUnitIInv,
     EndPassIInv DEF TraversalThread
<1>3. CASE CollectorThread
  BY <1>3, BeginListIInv, BeginPrintIInv, EndPrintIInv, EndListIInv
     DEF CollectorThread
<1>4. CASE \E k \in Key : UpdateThread(k)
  BY <1>4, TestRunningIInv, PopActionIInv, EndUpdateIInv DEF UpdateThread
<1>5. CASE UNCHANGED vars
  BY <1>5 DEF vars, IInv, TypeOK, PluginLockInv, UnitLockInv, ReaderInv,
              PlugInv, MemoryInv
<1> QED
  BY <1>1, <1>2, <1>3, <1>4, <1>5 DEF Next

\* The invariant holds in every state.
LEMMA Inductive == Spec => []IInv
BY InitIInv, NextIInv, PTL DEF Spec

-----------------------------------------------------------------------------
(***************************************************************************)
(* The state of the watcher keeps its types.                               *)
(***************************************************************************)
THEOREM TypeCorrect == Spec => []TypeOK
<1>1. IInv => TypeOK
  BY DEF IInv
<1> QED
  BY <1>1, Inductive, PTL

(***************************************************************************)
(* No thread holds a pointer to a unit that has been freed: the readers    *)
(* are kept out by plugin_lock (metric.c:211, 306, 362), the update thread *)
(* is joined before the unit is freed (metric.c:100, 287).                 *)
(***************************************************************************)
THEOREM UnitsAreSafe == Spec => []NoUseAfterFree
<1>1. IInv => NoUseAfterFree
  BY DEF IInv, NoUseAfterFree, Traverses, Prints, Updates, ReaderInv, MemoryInv
<1> QED
  BY <1>1, Inductive, PTL

(***************************************************************************)
(* No thread runs the code or prints the items of a plugin that has been   *)
(* closed: plugin_unload deletes the unit before it frees the items and    *)
(* closes the library (plugin_mgr.c:267-318).                              *)
(***************************************************************************)
THEOREM PluginsAreSafe == Spec => []NoUseAfterClose
<1>1. IInv => NoUseAfterClose
  BY DEF IInv, NoUseAfterClose, ReaderInv, MemoryInv
<1> QED
  BY <1>1, Inductive, PTL

(***************************************************************************)
(* No thread ever waits for a unit's lock, so the join under two locks in  *)
(* _do_del_metric is never reached by a thread that waits for a third.     *)
(***************************************************************************)
THEOREM UnitLocksAreFree == Spec => []UnitLockNeverBlocks
<1>1. IInv => UnitLockNeverBlocks
  <2> SUFFICES ASSUME IInv PROVE UnitLockNeverBlocks
    OBVIOUS
  <2>1. ASSUME plug.pc = "stop" PROVE unit_lock[plug.key] = Nobody
    <3>1. plug.key \in Key
      BY <2>1 DEF IInv, PlugInv
    <3>2. trav.pc = "asleep"
      BY <2>1 DEF IInv, PluginLockInv
    <3> QED
      BY <2>1, <3>1, <3>2 DEF IInv, TypeOK, UnitLockInv, Thread, Reader
  <2>2. ASSUME trav.pc = "list", NEW k \in trav.todo
        PROVE  unit_lock[k] = Nobody
    <3>1. k \in Key
      BY DEF IInv, TypeOK
    <3>2. plug.pc # "join"
      BY <2>2 DEF IInv, PluginLockInv
    <3> QED
      BY <2>2, <3>1, <3>2 DEF IInv, TypeOK, UnitLockInv, Thread, Reader
  <2> QED
    BY <2>1, <2>2 DEF UnitLockNeverBlocks
<1> QED
  BY <1>1, Inductive, PTL

-----------------------------------------------------------------------------
(***************************************************************************)
(* The refinement: what each kind of step is in UnitLife.                  *)
(***************************************************************************)
PhaseBar   == [k \in Key |-> PhaseOf(k)]
ReadersBar == [k \in Key |-> ReadersOf(k)]
RunningBar == {k \in Key : upd[k].pc = "run"}

\* The phases are those of UnitLife, and read off the invariant.
LEMMA PhaseCases ==
  ASSUME IInv, NEW k \in Key
  PROVE  /\ PhaseOf(k) = "absent" <=> unit[k] = "none"
         /\ PhaseOf(k) = "made" <=> unit[k] = "live" /\ k \notin metrics /\ plug.pc = "link"
         /\ PhaseOf(k) = "listed" <=> k \in metrics
         /\ PhaseOf(k) = "stopping" <=> unit[k] = "live" /\ k \notin metrics /\ plug.pc # "link"
         /\ PhaseOf(k) = "freed" <=> unit[k] = "freed" /\ plugin[k] # "unmapped"
         /\ PhaseOf(k) = "closed" <=> plugin[k] = "unmapped"
         /\ PhaseOf(k) \in {"absent", "made", "listed", "stopping", "freed", "closed"}
<1>1. /\ unit[k] \in {"none", "live", "freed"}
      /\ k \in metrics => unit[k] = "live"
      /\ plugin[k] = "unmapped" => unit[k] = "freed"
  BY DEF IInv, TypeOK, MemoryInv
<1>2. CASE unit[k] = "none"
  BY <1>1, <1>2 DEF PhaseOf
<1>3. CASE unit[k] = "live"
  BY <1>1, <1>3 DEF PhaseOf
<1>4. CASE unit[k] = "freed"
  BY <1>1, <1>4 DEF PhaseOf
<1> QED
  BY <1>1, <1>2, <1>3, <1>4

\* A step that leaves the memory and the list alone, and does not begin or end
\* the making of a unit, leaves every phase alone.
LEMMA PhaseStays ==
  ASSUME UNCHANGED <<metrics, unit, plugin>>,
         plug'.pc = "link" <=> plug.pc = "link"
  PROVE  UNCHANGED PhaseBar
BY DEF PhaseBar, PhaseOf

\* A step in which the readers stay where they are.
LEMMA ReadersStay ==
  ASSUME UNCHANGED <<trav, coll>>
  PROVE  UNCHANGED ReadersBar
BY DEF ReadersBar, ReadersOf

\* A step of the plugin thread moves one unit from one phase to the next.
LEMMA AdvanceBar ==
  ASSUME IInv, IInv', NEW k \in Key, NEW from, NEW to,
         PhaseOf(k) = from, PhaseOf(k)' = to,
         \A j \in Key : j # k => PhaseOf(j)' = PhaseOf(j),
         UNCHANGED <<trav, coll>>, UNCHANGED RunningBar
  PROVE  Life!Advance(k, from, to)
<1>1. PhaseBar' = [PhaseBar EXCEPT ![k] = to]
  BY DEF PhaseBar
<1>2. PhaseBar[k] = from
  BY DEF PhaseBar
<1> QED
  BY <1>1, <1>2, ReadersStay DEF Life!Advance, PhaseBar, ReadersBar, RunningBar

\* _add_metric makes a unit ...
LEMMA MakeUnitLife ==
  ASSUME IInv, IInv', NEW k \in Key, MakeUnit(k)
  PROVE  Life!Next
<1>1. PhaseOf(k) = "absent"
  BY PhaseCases DEF MakeUnit
<1>2. PhaseOf(k)' = "made"
  BY DEF MakeUnit, PhaseOf, IInv, TypeOK, MemoryInv
<1>3. ASSUME NEW j \in Key, j # k PROVE PhaseOf(j)' = PhaseOf(j)
  BY <1>3 DEF MakeUnit, PhaseOf, IInv, TypeOK, MemoryInv, PlugInv
<1>4. UNCHANGED RunningBar
  BY DEF MakeUnit, RunningBar, At, IInv, TypeOK, MemoryInv
<1>5. Life!Advance(k, "absent", "made")
  BY <1>1, <1>2, <1>3, <1>4, AdvanceBar DEF MakeUnit
<1> QED
  BY <1>5 DEF Life!Next, Life!Make

\* ... and lists it.
LEMMA AddMetricLife ==
  ASSUME IInv, IInv', AddMetric
  PROVE  Life!Next
<1>0. PICK k \in Key : k = plug.key /\ unit[k] = "live" /\ k \notin metrics
  BY DEF AddMetric, IInv, PlugInv
<1>1. PhaseOf(k) = "made"
  BY <1>0, PhaseCases DEF AddMetric
<1>2. PhaseOf(k)' = "listed"
  BY <1>0 DEF AddMetric, PhaseOf
<1>3. ASSUME NEW j \in Key, j # k PROVE PhaseOf(j)' = PhaseOf(j)
  BY <1>0, <1>3 DEF AddMetric, PhaseOf, IInv, MemoryInv
<1>4. UNCHANGED RunningBar /\ UNCHANGED <<trav, coll>>
  BY DEF AddMetric, RunningBar
<1>5. Life!Advance(k, "made", "listed")
  BY <1>0, <1>1, <1>2, <1>3, <1>4, AdvanceBar
<1> QED
  BY <1>0, <1>5 DEF Life!Next, Life!List

\* _do_del_metric takes the unit off the list, when no reader is in it ...
LEMMA StopUnitLife ==
  ASSUME IInv, IInv', StopUnit
  PROVE  Life!Next
<1>0. PICK k \in Key : k = plug.key /\ k \in metrics /\ unit[k] = "live"
  BY DEF StopUnit, IInv, PlugInv, MemoryInv
<1>1. PhaseOf(k) = "listed"
  BY <1>0, PhaseCases
<1>2. PhaseOf(k)' = "stopping"
  BY <1>0 DEF StopUnit, PhaseOf, IInv, TypeOK
<1>3. ASSUME NEW j \in Key, j # k PROVE PhaseOf(j)' = PhaseOf(j)
  BY <1>0, <1>3 DEF StopUnit, PhaseOf, IInv, TypeOK, MemoryInv
<1>4. UNCHANGED RunningBar /\ UNCHANGED <<trav, coll>>
  BY DEF StopUnit, RunningBar
<1>5. Life!Advance(k, "listed", "stopping")
  BY <1>0, <1>1, <1>2, <1>3, <1>4, AdvanceBar
<1>6. ReadersBar[k] = {}
  <2>1. trav.pc = "asleep" /\ coll.pc = "asleep"
    BY DEF StopUnit, IInv, PluginLockInv
  <2>2. trav.key # k /\ coll.key # k
    BY <1>0, <2>1 DEF IInv, ReaderInv
  <2> QED
    BY <1>0, <2>2 DEF ReadersBar, ReadersOf
<1> QED
  BY <1>0, <1>5, <1>6 DEF Life!Next, Life!Unlist, ReadersBar

\* ... and frees it when its update thread has ended.
LEMMA FreeUnitLife ==
  ASSUME IInv, IInv', FreeUnit
  PROVE  Life!Next
<1>0. PICK k \in Key : k = plug.key /\ k \notin metrics /\ unit[k] = "live" /\ plugin[k] = "mapped"
  BY DEF FreeUnit, IInv, PlugInv, MemoryInv
<1>1. PhaseOf(k) = "stopping"
  BY <1>0, PhaseCases DEF FreeUnit
<1>2. PhaseOf(k)' = "freed"
  BY <1>0 DEF FreeUnit, PhaseOf, IInv, TypeOK
<1>3. ASSUME NEW j \in Key, j # k PROVE PhaseOf(j)' = PhaseOf(j)
  BY <1>0, <1>3 DEF FreeUnit, PhaseOf, IInv, TypeOK, MemoryInv
<1>4. UNCHANGED RunningBar /\ UNCHANGED <<trav, coll>>
  BY DEF FreeUnit, RunningBar
<1>5. Life!Advance(k, "stopping", "freed")
  BY <1>0, <1>1, <1>2, <1>3, <1>4, AdvanceBar
<1>6. k \notin RunningBar
  BY <1>0 DEF FreeUnit, RunningBar
<1> QED
  BY <1>0, <1>5, <1>6 DEF Life!Next, Life!Free, RunningBar

\* plugin_unload closes the plugin.
LEMMA ReleasePluginLife ==
  ASSUME IInv, IInv', ReleasePlugin
  PROVE  Life!Next
<1>0. PICK k \in Key : k = plug.key /\ unit[k] = "freed" /\ plugin[k] = "mapped"
  BY DEF ReleasePlugin, IInv, PlugInv
<1>1. PhaseOf(k) = "freed"
  BY <1>0, PhaseCases
<1>2. PhaseOf(k)' = "closed"
  BY <1>0 DEF ReleasePlugin, PhaseOf, IInv, TypeOK
<1>3. ASSUME NEW j \in Key, j # k PROVE PhaseOf(j)' = PhaseOf(j)
  BY <1>0, <1>3 DEF ReleasePlugin, PhaseOf, IInv, TypeOK
<1>4. UNCHANGED RunningBar /\ UNCHANGED <<trav, coll>>
  BY DEF ReleasePlugin, RunningBar
<1>5. Life!Advance(k, "freed", "closed")
  BY <1>0, <1>1, <1>2, <1>3, <1>4, AdvanceBar
<1> QED
  BY <1>0, <1>5 DEF Life!Next, Life!Close

\* The traversal enters a unit it runs the items of; a visit to another unit
\* is over at once.
LEMMA VisitUnitLife ==
  ASSUME IInv, NEW k \in Key, VisitUnit(k)
  PROVE  Life!Next \/ UNCHANGED Life!vars
<1>1. UNCHANGED PhaseBar /\ UNCHANGED RunningBar
  BY PhaseStays DEF VisitUnit, unitVars, RunningBar
<1>2. trav.key = NoKey
  BY DEF VisitUnit, IInv, TypeOK, ReaderInv
<1>3. k \in metrics
  BY DEF VisitUnit, IInv, ReaderInv
<1>4. CASE trav'.key = NoKey
  <2>1. UNCHANGED ReadersBar
    BY <1>2, <1>4 DEF VisitUnit, ReadersBar, ReadersOf
  <2> QED
    BY <1>1, <2>1 DEF Life!vars, PhaseBar, ReadersBar, RunningBar
<1>5. CASE trav'.key = k
  <2>1. \A j \in Key : ReadersOf(j)' = IF j = k
                                        THEN ReadersOf(j) \union {"traversal"}
                                        ELSE ReadersOf(j)
    BY <1>2, <1>5 DEF VisitUnit, ReadersOf, Reader
  <2>2. ReadersBar' = [ReadersBar EXCEPT ![k] = @ \union {"traversal"}]
    BY <2>1 DEF ReadersBar
  <2>3. PhaseBar[k] = "listed"
    BY <1>3, PhaseCases DEF PhaseBar
  <2>4. Life!Enter("traversal", k)
    BY <1>1, <2>2, <2>3 DEF Life!Enter, PhaseBar, ReadersBar, RunningBar
  <2> QED
    BY <2>4 DEF Life!Next, Reader
<1> QED
  BY <1>4, <1>5 DEF VisitUnit

\* It leaves the unit when it has run the last item.
LEMMA LeaveUnitLife ==
  ASSUME IInv, LeaveUnit
  PROVE  Life!Next
<1>0. PICK k \in Key : k = trav.key
  BY DEF LeaveUnit, IInv, ReaderInv
<1>1. UNCHANGED PhaseBar /\ UNCHANGED RunningBar
  BY PhaseStays DEF LeaveUnit, unitVars, RunningBar
<1>2. trav'.key = NoKey
  BY DEF LeaveUnit, IInv, TypeOK
<1>3. \A j \in Key : ReadersOf(j)' = IF j = k
                                      THEN ReadersOf(j) \ {"traversal"}
                                      ELSE ReadersOf(j)
  BY <1>0, <1>2 DEF LeaveUnit, ReadersOf, Reader
<1>4. ReadersBar' = [ReadersBar EXCEPT ![k] = @ \ {"traversal"}]
  BY <1>3 DEF ReadersBar
<1>5. "traversal" \in ReadersBar[k]
  BY <1>0 DEF ReadersBar, ReadersOf, Reader
<1>6. Life!Leave("traversal", k)
  BY <1>1, <1>4, <1>5 DEF Life!Leave, PhaseBar, ReadersBar, RunningBar
<1> QED
  BY <1>0, <1>6 DEF Life!Next, Reader

\* The collector enters a unit to print it ...
LEMMA BeginPrintLife ==
  ASSUME IInv, NEW k \in Key, BeginPrint(k)
  PROVE  Life!Next
<1>1. UNCHANGED PhaseBar /\ UNCHANGED RunningBar
  BY PhaseStays DEF BeginPrint, unitVars, RunningBar
<1>2. coll.key \notin Key /\ coll'.key = k /\ k \in metrics
  BY DEF BeginPrint, IInv, ReaderInv
<1>3. \A j \in Key : ReadersOf(j)' = IF j = k
                                      THEN ReadersOf(j) \union {"collector"}
                                      ELSE ReadersOf(j)
  BY <1>2 DEF BeginPrint, ReadersOf, Reader
<1>4. ReadersBar' = [ReadersBar EXCEPT ![k] = @ \union {"collector"}]
  BY <1>3 DEF ReadersBar
<1>5. PhaseBar[k] = "listed"
  BY <1>2, PhaseCases DEF PhaseBar
<1>6. Life!Enter("collector", k)
  BY <1>1, <1>4, <1>5 DEF Life!Enter, PhaseBar, ReadersBar, RunningBar
<1> QED
  BY <1>6 DEF Life!Next, Reader

\* ... and leaves it afterwards.
LEMMA EndPrintLife ==
  ASSUME IInv, EndPrint
  PROVE  Life!Next
<1>0. PICK k \in Key : k = coll.key
  BY DEF EndPrint, IInv, ReaderInv
<1>1. UNCHANGED PhaseBar /\ UNCHANGED RunningBar
  BY PhaseStays DEF EndPrint, unitVars, RunningBar
<1>2. coll'.key = NoKey
  BY DEF EndPrint, IInv, TypeOK
<1>3. \A j \in Key : ReadersOf(j)' = IF j = k
                                      THEN ReadersOf(j) \ {"collector"}
                                      ELSE ReadersOf(j)
  BY <1>0, <1>2 DEF EndPrint, ReadersOf, Reader
<1>4. ReadersBar' = [ReadersBar EXCEPT ![k] = @ \ {"collector"}]
  BY <1>3 DEF ReadersBar
<1>5. "collector" \in ReadersBar[k]
  BY <1>0 DEF ReadersBar, ReadersOf, Reader
<1>6. Life!Leave("collector", k)
  BY <1>1, <1>4, <1>5 DEF Life!Leave, PhaseBar, ReadersBar, RunningBar
<1> QED
  BY <1>0, <1>6 DEF Life!Next, Reader

\* The update thread starts a collect function when it has an action ...
LEMMA PopActionLife ==
  ASSUME IInv, NEW k \in Key, PopAction(k)
  PROVE  Life!Next \/ UNCHANGED Life!vars
<1>1. UNCHANGED PhaseBar /\ UNCHANGED ReadersBar
  BY PhaseStays, ReadersStay DEF PopAction, unitVars
<1>2. CASE fifo[k] = << >>
  <2>1. upd' = [upd EXCEPT ![k] = At("test")]
    BY <1>2 DEF PopAction
  <2>2. UNCHANGED RunningBar
    BY <2>1 DEF PopAction, At, RunningBar, IInv, TypeOK
  <2> QED
    BY <1>1, <2>2 DEF Life!vars, PhaseBar, ReadersBar, RunningBar
<1>3. CASE fifo[k] # << >>
  <2>1. upd' = [upd EXCEPT ![k] = Running(Head(fifo[k]))]
    BY <1>3 DEF PopAction
  <2>2. RunningBar' = RunningBar \union {k}
    BY <2>1 DEF Running, RunningBar, IInv, TypeOK
  <2>3. PhaseBar[k] \in {"made", "listed", "stopping"}
    <3>1. unit[k] = "live"
      BY DEF PopAction, IInv, MemoryInv
    <3> QED
      BY <3>1 DEF PhaseBar, PhaseOf
  <2>4. Life!StartUpdate(k)
    BY <1>1, <2>2, <2>3 DEF Life!StartUpdate, PhaseBar, ReadersBar, RunningBar
  <2> QED
    BY <2>4 DEF Life!Next
<1> QED
  BY <1>2, <1>3

\* ... and the function returns.
LEMMA EndUpdateLife ==
  ASSUME IInv, NEW k \in Key, EndUpdate(k)
  PROVE  Life!Next
<1>1. UNCHANGED PhaseBar /\ UNCHANGED ReadersBar
  BY PhaseStays, ReadersStay DEF EndUpdate, unitVars
<1>2. RunningBar' = RunningBar \ {k} /\ k \in RunningBar
  BY DEF EndUpdate, At, RunningBar, IInv, TypeOK
<1>3. Life!EndUpdate(k)
  BY <1>1, <1>2 DEF Life!EndUpdate, PhaseBar, ReadersBar, RunningBar
<1> QED
  BY <1>3 DEF Life!Next

\* All other steps are inside the watcher: nothing that UnitLife speaks of.
LEMMA InnerLife ==
  ASSUME IInv, 
         \/ DelMetric \/ \E k \in Key : UnloadPlugin(k)
         \/ BeginPass \/ RunItem \/ EndPass \/ BeginList \/ EndList
         \/ \E k \in Key : TestRunning(k)
         \/ UNCHANGED vars
  PROVE  UNCHANGED Life!vars
<1>1. /\ UNCHANGED <<metrics, unit, plugin>>
      /\ plug'.pc = "link" <=> plug.pc = "link"
  BY DEF DelMetric, UnloadPlugin, BeginPass, RunItem, EndPass, BeginList,
         EndList, TestRunning, vars, unitVars, IInv, TypeOK
<1>2. trav'.key = trav.key /\ coll'.key = coll.key
  BY DEF DelMetric, UnloadPlugin, BeginPass, RunItem, EndPass, BeginList,
         EndList, TestRunning, vars, IInv, TypeOK
<1>3. UNCHANGED RunningBar
  <2>1. CASE UNCHANGED upd
    BY <2>1 DEF RunningBar
  <2>2. CASE \E k \in Key : TestRunning(k)
    BY <2>2 DEF TestRunning, At, RunningBar, IInv, TypeOK
  <2> QED
    BY <2>1, <2>2 DEF DelMetric, UnloadPlugin, BeginPass, RunItem, EndPass,
                      BeginList, EndList, vars
<1>4. UNCHANGED PhaseBar
  BY <1>1, PhaseStays
<1>5. UNCHANGED ReadersBar
  BY <1>2 DEF ReadersBar, ReadersOf
<1> QED
  BY <1>3, <1>4, <1>5 DEF Life!vars, PhaseBar, ReadersBar, RunningBar

\* Every step of the watcher is a step of UnitLife or changes nothing in it.
LEMMA StepLife == IInv /\ IInv' /\ [Next]_vars => [Life!Next]_(Life!vars)
<1> SUFFICES ASSUME IInv, IInv', [Next]_vars
             PROVE  Life!Next \/ UNCHANGED Life!vars
  OBVIOUS
<1>1. CASE PluginThread
  BY <1>1, MakeUnitLife, AddMetricLife, StopUnitLife, FreeUnitLife,
     ReleasePluginLife, InnerLife DEF PluginThread, Delete
<1>2. CASE TraversalThread
  BY <1>2, VisitUnitLife, LeaveUnitLife, InnerLife DEF TraversalThread
<1>3. CASE CollectorThread
  BY <1>3, BeginPrintLife, EndPrintLife, InnerLife DEF CollectorThread
<1>4. CASE \E k \in Key : UpdateThread(k)
  BY <1>4, PopActionLife, EndUpdateLife, InnerLife DEF UpdateThread
<1>5. CASE UNCHANGED vars
  BY <1>5, InnerLife
<1> QED
  BY <1>1, <1>2, <1>3, <1>4, <1>5 DEF Next

\* The program starts where UnitLife starts.
LEMMA InitLife == Init => Life!Init
<1> SUFFICES ASSUME Init PROVE Life!Init
  OBVIOUS
<1>1. \A k \in Key : PhaseOf(k) = "absent"
  BY DEF Init, PhaseOf
<1>2. \A k \in Key : ReadersOf(k) = {}
  BY DEF Init, ReadersOf
<1>3. {k \in Key : upd[k].pc = "run"} = {}
  BY DEF Init, At
<1> QED
  BY <1>1, <1>2, <1>3 DEF Life!Init

\* The invariant of UnitLife, of its three variables.
InLife(at, by, run) ==
  /\ at \in [Key -> Life!Phase]
  /\ by \in [Key -> SUBSET Reader]
  /\ run \subseteq Key
  /\ \A k \in Key :
       /\ by[k] # {} => at[k] = "listed"
       /\ k \in run => at[k] \in {"made", "listed", "stopping"}

LifeInv == InLife(PhaseBar, ReadersBar, RunningBar)

\* Every step of UnitLife keeps it.
LEMMA LifeStep == LifeInv /\ [Life!Next]_(Life!vars) => LifeInv'
<1> SUFFICES ASSUME LifeInv, [Life!Next]_(Life!vars)
             PROVE  LifeInv'
  OBVIOUS
<1> USE DEF LifeInv, PhaseBar, ReadersBar, RunningBar
<1>1. ASSUME NEW at, NEW by, NEW run, InLife(at, by, run),
             NEW at2, NEW by2, NEW run2, NEW k \in Key,
             \/ /\ at2 = at /\ run2 = run
                /\ \/ \E r \in Reader : by2 = [by EXCEPT ![k] = @ \union {r}] /\ at[k] = "listed"
                   \/ \E r \in Reader : by2 = [by EXCEPT ![k] = @ \ {r}]
             \/ /\ at2 = at /\ by2 = by
                /\ run2 = run \union {k} /\ at[k] \in {"made", "listed", "stopping"}
             \/ at2 = at /\ by2 = by /\ run2 = run \ {k}
      PROVE  InLife(at2, by2, run2)
  BY <1>1 DEF InLife
<1>2. ASSUME NEW k \in Key,
             Life!Make(k) \/ Life!List(k) \/ Life!Unlist(k) \/ Life!Free(k) \/ Life!Close(k)
      PROVE  LifeInv'
  BY <1>2 DEF InLife, Life!Phase, Life!Make, Life!List, Life!Unlist, Life!Free, Life!Close, Life!Advance
<1>3. ASSUME NEW k \in Key, Life!StartUpdate(k) \/ Life!EndUpdate(k)
      PROVE  LifeInv'
  BY <1>1, <1>3 DEF Life!StartUpdate, Life!EndUpdate
<1>4. ASSUME NEW k \in Key, NEW r \in Reader, Life!Enter(r, k) \/ Life!Leave(r, k)
      PROVE  LifeInv'
  <2>1. /\ PhaseBar' = PhaseBar /\ RunningBar' = RunningBar
        /\ \/ ReadersBar' = [ReadersBar EXCEPT ![k] = @ \union {r}] /\ PhaseBar[k] = "listed"
           \/ ReadersBar' = [ReadersBar EXCEPT ![k] = @ \ {r}]
    BY <1>4, Zenon DEF Life!Enter, Life!Leave
  <2>2. InLife(PhaseBar, ReadersBar, RunningBar)
    OBVIOUS
  <2> HIDE DEF PhaseBar, ReadersBar, RunningBar
  <2>3. InLife(PhaseBar', ReadersBar', RunningBar')
    BY ONLY <1>1, <2>1, <2>2, r \in Reader, k \in Key
  <2> QED
    BY <2>3
<1>5. CASE UNCHANGED Life!vars
  BY <1>5 DEF Life!vars
<1> QED
  BY <1>2, <1>3, <1>4, <1>5 DEF Life!Next

(***************************************************************************)
(* UnitLife keeps its promise: nobody is in a unit that is not listed, and *)
(* no collect function runs for a unit that has been freed.                *)
(***************************************************************************)
THEOREM LifeIsSafe == Life!Spec => []Life!Safe
<1>1. Life!Init => LifeInv
  BY DEF LifeInv, InLife, PhaseBar, ReadersBar, RunningBar, Life!Init, Life!Phase
<1>2. LifeInv => Life!Safe
  BY DEF LifeInv, InLife, PhaseBar, ReadersBar, RunningBar, Life!Safe
<1> QED
  BY <1>1, <1>2, LifeStep, PTL DEF Life!Spec

(***************************************************************************)
(* The threads of the watcher, their locks, lists and fifos implement      *)
(* UnitLife: a unit leaves the list only while no reader is in it, is      *)
(* freed and its plugin closed only after the last collect function has    *)
(* returned, for any number of plugins and items.                          *)
(***************************************************************************)
THEOREM Refinement == Spec => ImplementsUnitLife
BY InitLife, StepLife, Inductive, PTL DEF Spec, ImplementsUnitLife, Life!Spec

(***************************************************************************)
(* So the promise holds of the threads of the watcher.                     *)
(***************************************************************************)
THEOREM ThreadsAreSafe == Spec => []Life!Safe
BY Refinement, LifeIsSafe DEF ImplementsUnitLife
=============================================================================
