--------------------------- MODULE Schedule_proofs ---------------------------
(***************************************************************************)
(* Proofs about Schedule, for every number of items, every set of          *)
(* intervals and every number of ticks; and about Logger, for any clients  *)
(* and any number of messages.  The two have nothing in common but this    *)
(* module.                                                                 *)
(***************************************************************************)
EXTENDS Schedule, Logger, TLAPS

USE MaxTicksAssumption

-----------------------------------------------------------------------------
(***************************************************************************)
(* Arithmetic.                                                             *)
(***************************************************************************)

\* Division is determined by quotient and remainder.
LEMMA DivUnique ==
  ASSUME NEW q \in Nat, NEW p \in Nat \ {0}, NEW e \in 0..(p-1)
  PROVE  (q * p + e) \div p = q
OBVIOUS

\* One more push accounts for one more period.
LEMMA MulSucc ==
  ASSUME NEW q \in Nat, NEW p \in Nat
  PROVE  (q + 1) * p = q * p + p
OBVIOUS

\* Before the first period is over there has been no push.
LEMMA NoPeriodOver ==
  ASSUME NEW q \in Nat, NEW p \in Nat \ {0}, NEW e \in 0..(p-1),
         q * p + e < p
  PROVE  q = 0
<1> SUFFICES ASSUME q # 0 PROVE FALSE
  OBVIOUS
<1>1. PICK r \in Nat : q = r + 1
  <2>1. q - 1 \in Nat /\ q = (q - 1) + 1
    OBVIOUS
  <2> QED
    BY <2>1
<1>2. q * p = r * p + p /\ r * p \in Nat
  BY <1>1, MulSucc
<1> QED
  BY <1>2

-----------------------------------------------------------------------------
(***************************************************************************)
(* What the operators of TimeRing do to an item.                           *)
(***************************************************************************)

\* _time_ring_move_forward changes nothing of an item but the position of its
\* ring, and that stays a number of steps.
LEMMA MoveForwardItem ==
  ASSUME NEW units \in [Item -> SubUnit], NEW i \in Item
  PROVE  LET m == MoveForward(units)[i]
         IN  /\ m \in SubUnit
             /\ m.run_time = units[i].run_time
             /\ m.interval = units[i].interval
             /\ m.time_ring_left =
                  IF units[i].run_time = 0 \/ units[i].time_ring_left = 0
                  THEN units[i].time_ring_left
                  ELSE units[i].time_ring_left - 1
BY IntervalAssumption DEF SubUnit, MoveForward, GoOneStep, Spent

\* An item that a plugin asked for is an item of the unit.
LEMMA MakeSubunitType ==
  ASSUME NEW c \in SubChannel
  PROVE  MakeSubunit(c) \in SubUnit
BY IntervalAssumption DEF MakeSubunit, SubChannel, SubUnit

\* What do_run_sub_metric does to an item of a triggered unit.
LEMMA AfterRunItem ==
  ASSUME NEW m \in SubUnit
  PROVE  /\ AfterRun(m) \in SubUnit
         /\ AfterRun(m).interval = m.interval
         /\ AfterRun(m).run_time = IF m.run_time = 1 THEN 0 ELSE m.run_time
         /\ AfterRun(m).time_ring_left =
              IF Due(m) THEN m.interval ELSE m.time_ring_left
<1>1. m.interval \in Interval /\ m.interval \in Nat
  BY IntervalAssumption DEF SubUnit
<1>2. CASE m.run_time = 0
  BY <1>2 DEF SubUnit, AfterRun, Spent, Due
<1>3. CASE m.run_time = -1
  BY <1>1, <1>3 DEF SubUnit, AfterRun, Spent, Due
<1>4. CASE m.run_time = 1
  BY <1>1, <1>4 DEF SubUnit, AfterRun, Spent, Due
<1> QED
  BY <1>2, <1>3, <1>4 DEF SubUnit

-----------------------------------------------------------------------------
(***************************************************************************)
(* The inductive invariant.                                                *)
(***************************************************************************)

\* The ring of item i has turned this many steps since it was last reset.
Turned(i) == channel[i].interval - sub[i].time_ring_left

\* The unit has not been triggered yet.
Untriggered == \A j \in Item : ticks < Period(j)

\* Every tick that item i has seen is accounted for by a push or by the
\* position of its ring.
PeriodicInv(i) ==
  /\ sub[i].run_time = -1
  /\ Turned(i) \in 0..(Period(i) - 1)
  /\ pushed[i] * Period(i) + Turned(i) = ticks

\* The first trigger decides what becomes of a run-once item.
RunOnceInv(i) ==
  /\ Untriggered => /\ sub[i].run_time = 1
                    /\ Turned(i) = ticks
                    /\ pushed[i] = 0
  /\ ~Untriggered => /\ sub[i].run_time = 0
                     /\ pushed[i] = IF Earliest(i) THEN 1 ELSE 0

IInv ==
  /\ TypeOK
  /\ \A i \in Item : sub[i].interval = channel[i].interval
  /\ \A i \in Item : ~channel[i].run_once => PeriodicInv(i)
  /\ \A i \in Item : channel[i].run_once => RunOnceInv(i)

-----------------------------------------------------------------------------
\* Periods are positive.
LEMMA PeriodType ==
  ASSUME channel \in [Item -> SubChannel], NEW i \in Item
  PROVE  /\ Period(i) \in Nat \ {0}
         /\ channel[i].interval \in Nat
         /\ channel[i].run_once \in BOOLEAN
         /\ channel[i].interval # 0 => Period(i) = channel[i].interval
         /\ channel[i].interval = 0 => Period(i) = 1
<1>1. channel[i] \in SubChannel
  OBVIOUS
<1>2. channel[i].interval \in Nat /\ channel[i].run_once \in BOOLEAN
  BY <1>1, IntervalAssumption DEF SubChannel
<1> QED
  BY <1>2 DEF Period

\* The unit starts in the invariant.
LEMMA InitIInv == Init => IInv
<1> SUFFICES ASSUME Init PROVE IInv
  OBVIOUS
<1>1. \A i \in Item : MakeSubunit(channel[i]) \in SubUnit
  BY MakeSubunitType DEF Init
<1>2. TypeOK
  BY <1>1 DEF Init, TypeOK
<1>3. ASSUME NEW i \in Item
      PROVE  /\ sub[i].interval = channel[i].interval
             /\ Turned(i) = 0
             /\ sub[i].run_time = IF channel[i].run_once THEN 1 ELSE -1
             /\ pushed[i] = 0
  BY <1>2, PeriodType DEF Init, MakeSubunit, Turned, TypeOK
<1>4. Untriggered
  BY <1>2, PeriodType DEF Init, Untriggered, TypeOK
<1>5. ASSUME NEW i \in Item, ~channel[i].run_once
      PROVE  PeriodicInv(i)
  BY <1>2, <1>3, <1>5, PeriodType DEF PeriodicInv, Init, TypeOK
<1>6. ASSUME NEW i \in Item, channel[i].run_once
      PROVE  RunOnceInv(i)
  BY <1>2, <1>3, <1>4, <1>6 DEF RunOnceInv, Init
<1> QED
  BY <1>2, <1>3, <1>5, <1>6 DEF IInv

-----------------------------------------------------------------------------
\* A tick, seen from one item.
LEMMA TickItem ==
  ASSUME TypeOK, Tick, NEW i \in Item
  PROVE  LET moved == MoveForward(sub)
         IN  /\ sub'[i] \in SubUnit
             /\ sub'[i].interval = sub[i].interval
             /\ sub'[i].run_time = IF Trigger(moved) /\ sub[i].run_time = 1
                                   THEN 0 ELSE sub[i].run_time
             /\ sub'[i].time_ring_left =
                  IF Due(moved[i]) THEN sub[i].interval
                  ELSE moved[i].time_ring_left
             /\ pushed'[i] = IF Due(moved[i]) THEN pushed[i] + 1
                                              ELSE pushed[i]
<1> DEFINE moved == MoveForward(sub)
<1>1. /\ moved[i] \in SubUnit
      /\ moved[i].run_time = sub[i].run_time
      /\ moved[i].interval = sub[i].interval
  BY MoveForwardItem DEF TypeOK
<1>2. CASE Trigger(moved)
  <2>1. sub'[i] = AfterRun(moved[i])
    BY <1>2 DEF Tick, RunSubMetric
  <2>2. pushed'[i] = IF Due(moved[i]) THEN pushed[i] + 1 ELSE pushed[i]
    BY <1>2 DEF Tick, RunSubMetric
  <2> QED
    BY <1>1, <1>2, <2>1, <2>2, AfterRunItem
<1>3. CASE ~Trigger(moved)
  <2>1. ~Due(moved[i])
    BY <1>3 DEF Trigger, Due
  <2>2. sub'[i] = moved[i] /\ pushed'[i] = pushed[i]
    BY <1>3 DEF Tick, RunSubMetric
  <2> QED
    BY <1>1, <1>3, <2>1, <2>2
<1> QED
  BY <1>2, <1>3

\* A tick keeps the types.
LEMMA TickType ==
  ASSUME TypeOK, Tick
  PROVE  TypeOK'
<1>1. /\ DOMAIN sub' = Item /\ sub' = [i \in Item |-> sub'[i]]
      /\ pushed' = [i \in Item |-> pushed'[i]]
  BY DEF Tick, RunSubMetric, MoveForward, TypeOK
<1>2. \A i \in Item : sub'[i] \in SubUnit
  BY TickItem
<1>3. \A i \in Item : pushed'[i] \in Nat
  BY TickItem DEF TypeOK
<1> QED
  BY <1>1, <1>2, <1>3 DEF TypeOK, Tick

-----------------------------------------------------------------------------
\* A tick keeps the account of an item without an end.
LEMMA TickPeriodic ==
  ASSUME IInv, Tick, NEW i \in Item, ~channel[i].run_once
  PROVE  PeriodicInv(i)'
<1> DEFINE m == MoveForward(sub)[i]
           p == Period(i)
<1>0. /\ TypeOK /\ PeriodicInv(i)
      /\ sub[i].interval = channel[i].interval
  BY DEF IInv
<1>1. /\ p \in Nat \ {0}
      /\ channel[i].interval \in Nat
      /\ channel[i].interval # 0 => p = channel[i].interval
      /\ channel[i].interval = 0 => p = 1
  BY <1>0, PeriodType DEF TypeOK
<1>2. /\ ticks \in Nat /\ ticks' = ticks + 1 /\ channel' = channel
      /\ pushed[i] \in Nat /\ sub[i].time_ring_left \in Nat
  BY <1>0 DEF Tick, TypeOK, SubUnit
<1>3. sub[i].run_time = -1
  BY <1>0 DEF PeriodicInv
<1>4. Due(m) <=> m.time_ring_left = 0
  BY <1>0, <1>3, MoveForwardItem DEF TypeOK, Due, Spent
<1>5. /\ sub'[i].run_time = -1
      /\ sub'[i].time_ring_left = IF Due(m) THEN channel[i].interval
                                            ELSE m.time_ring_left
      /\ pushed'[i] = IF Due(m) THEN pushed[i] + 1 ELSE pushed[i]
  BY <1>0, <1>3, TickItem
<1>6. m.time_ring_left = IF sub[i].time_ring_left = 0 THEN 0
                         ELSE sub[i].time_ring_left - 1
  BY <1>0, <1>3, MoveForwardItem DEF TypeOK
<1>7. Period(i)' = p
  BY <1>2 DEF Period
<1>8. CASE Due(m)
  <2>1. Turned(i) = p - 1
    BY <1>0, <1>1, <1>2, <1>4, <1>6, <1>8 DEF Turned, PeriodicInv
  <2>2. Turned(i)' = 0
    BY <1>1, <1>2, <1>5, <1>8 DEF Turned
  <2>3. pushed'[i] * p = pushed[i] * p + p
    BY <1>1, <1>2, <1>5, <1>8, MulSucc
  <2>4. pushed[i] * p \in Nat
    BY <1>1, <1>2
  <2>5. pushed[i] * p + (p - 1) = ticks
    BY <2>1, <1>0 DEF PeriodicInv
  <2>6. pushed'[i] * p + 0 = ticks + 1
    BY <2>3, <2>4, <2>5, <1>1, <1>2
  <2> QED
    BY <1>1, <1>2, <1>5, <1>7, <2>2, <2>6 DEF PeriodicInv
<1>9. CASE ~Due(m)
  <2>1. Turned(i)' = Turned(i) + 1
    BY <1>0, <1>1, <1>2, <1>4, <1>5, <1>6, <1>9 DEF Turned
  <2>2. Turned(i)' \in 0..(p - 1)
    BY <1>0, <1>1, <1>2, <1>4, <1>5, <1>6, <1>9, <2>1 DEF Turned, PeriodicInv
  <2>3. pushed[i] * p \in Nat /\ Turned(i) \in Nat
    BY <1>0, <1>1, <1>2 DEF PeriodicInv
  <2>4. pushed[i] * p + Turned(i) = ticks
    BY <1>0 DEF PeriodicInv
  <2>5. pushed'[i] * p + Turned(i)' = ticks + 1
    BY <1>2, <1>5, <1>9, <2>1, <2>3, <2>4
  <2> QED
    BY <1>2, <1>5, <1>7, <2>2, <2>5 DEF PeriodicInv
<1> QED
  BY <1>8, <1>9

\* Before the first trigger every ring has turned once a tick.
LEMMA UntriggeredTurned ==
  ASSUME IInv, Untriggered, NEW i \in Item
  PROVE  /\ Turned(i) = ticks /\ pushed[i] = 0
         /\ sub[i].run_time = IF channel[i].run_once THEN 1 ELSE -1
<1>1. CASE channel[i].run_once
  BY <1>1 DEF IInv, RunOnceInv
<1>2. CASE ~channel[i].run_once
  <2>1. /\ Period(i) \in Nat \ {0} /\ pushed[i] \in Nat /\ ticks \in Nat
        /\ Turned(i) \in 0..(Period(i) - 1)
        /\ pushed[i] * Period(i) + Turned(i) = ticks
        /\ ticks < Period(i)
        /\ sub[i].run_time = -1
    BY <1>2, PeriodType DEF IInv, TypeOK, PeriodicInv, Untriggered
  <2>2. pushed[i] = 0
    BY <2>1, NoPeriodOver
  <2> QED
    BY <1>2, <2>1, <2>2
<1> QED
  BY <1>1, <1>2

\* The unit's first trigger comes when the shortest period is over.
LEMMA FirstTrigger ==
  ASSUME IInv, Tick, Untriggered
  PROVE  /\ Trigger(MoveForward(sub)) <=> ~Untriggered'
         /\ \A i \in Item : Due(MoveForward(sub)[i]) <=> Period(i) = ticks + 1
<1> DEFINE moved == MoveForward(sub)
<1>0. TypeOK /\ ticks \in Nat /\ ticks' = ticks + 1 /\ channel' = channel
  BY DEF IInv, TypeOK, Tick
<1>1. ASSUME NEW i \in Item
      PROVE  /\ ~Spent(moved[i])
             /\ Period(i) \in Nat /\ Period(i)' = Period(i)
             /\ moved[i].time_ring_left = 0 <=> Period(i) = ticks + 1
  <2>1. /\ channel[i].interval \in Nat
        /\ Period(i) \in Nat
        /\ channel[i].interval # 0 => Period(i) = channel[i].interval
        /\ channel[i].interval = 0 => Period(i) = 1
    BY <1>0, PeriodType DEF TypeOK
  <2>2. /\ channel[i].interval - sub[i].time_ring_left = ticks
        /\ sub[i].time_ring_left \in Nat
        /\ sub[i].run_time # 0
    BY <1>0, UntriggeredTurned DEF Turned, TypeOK, SubUnit
  <2>3. /\ moved[i].run_time = sub[i].run_time
        /\ moved[i].time_ring_left = IF sub[i].time_ring_left = 0 THEN 0
                                     ELSE sub[i].time_ring_left - 1
    BY <1>0, <2>2, MoveForwardItem DEF TypeOK
  <2>4. ticks < Period(i)
    BY DEF Untriggered
  <2>5. Period(i)' = Period(i)
    BY <1>0 DEF Period
  <2> QED
    BY <1>0, <2>1, <2>2, <2>3, <2>4, <2>5 DEF Spent
<1>2. \A i \in Item : Due(moved[i]) <=> Period(i) = ticks + 1
  BY <1>1 DEF Due
<1>3. Trigger(moved) <=> \E i \in Item : Period(i) = ticks + 1
  BY <1>1 DEF Trigger
<1>4. ~Untriggered' <=> \E i \in Item : Period(i) = ticks + 1
  BY <1>0, <1>1 DEF Untriggered
<1> QED
  BY <1>2, <1>3, <1>4

\* A tick keeps what is known of a run-once item.
LEMMA TickRunOnce ==
  ASSUME IInv, Tick, NEW i \in Item, channel[i].run_once
  PROVE  RunOnceInv(i)'
<1> DEFINE moved == MoveForward(sub)
<1>0. /\ TypeOK /\ RunOnceInv(i) /\ ticks \in Nat
      /\ ticks' = ticks + 1 /\ channel' = channel
      /\ sub[i].interval = channel[i].interval
      /\ pushed[i] \in Nat
      /\ channel[i].interval \in Nat /\ sub[i].time_ring_left \in Nat
  BY PeriodType DEF IInv, TypeOK, Tick, SubUnit
<1>1. \A j \in Item : Period(j) \in Nat /\ Period(j)' = Period(j)
  BY <1>0, PeriodType DEF Period, TypeOK
<1>2. Earliest(i)' <=> Earliest(i)
  BY <1>1 DEF Earliest
<1>3. CASE ~Untriggered
  <2>1. ~Untriggered'
    BY <1>0, <1>1, <1>3 DEF Untriggered
  <2>2. sub[i].run_time = 0 /\ pushed[i] = IF Earliest(i) THEN 1 ELSE 0
    BY <1>0, <1>3 DEF RunOnceInv
  <2>3. ~Due(moved[i])
    BY <1>0, <2>2, MoveForwardItem DEF TypeOK, Due, Spent
  <2>4. sub'[i].run_time = 0 /\ pushed'[i] = pushed[i]
    BY <1>0, <2>2, <2>3, TickItem
  <2> QED
    BY <1>2, <2>1, <2>2, <2>4 DEF RunOnceInv
<1>4. CASE Untriggered
  <2>0. /\ Turned(i) = ticks /\ pushed[i] = 0 /\ sub[i].run_time = 1
    BY <1>4, UntriggeredTurned
  <2>1. CASE ~Untriggered'
    <3>1. Trigger(moved)
      BY <1>4, <2>1, FirstTrigger
    <3>2. Due(moved[i]) <=> Period(i) = ticks + 1
      BY <1>4, FirstTrigger
    <3>3. sub'[i].run_time = 0
      BY <1>0, <2>0, <3>1, TickItem
    <3>4. pushed'[i] = IF Period(i) = ticks + 1 THEN 1 ELSE 0
      BY <1>0, <2>0, <3>2, TickItem
    <3>5. Earliest(i) <=> Period(i) = ticks + 1
      <4>1. \A j \in Item : ticks < Period(j)
        BY <1>4 DEF Untriggered
      <4>2. PICK j \in Item : ~(ticks + 1 < Period(j))
        BY <2>1, <1>0, <1>1 DEF Untriggered
      <4> QED
        BY <4>1, <4>2, <1>0, <1>1 DEF Earliest
    <3> QED
      BY <1>2, <2>1, <3>3, <3>4, <3>5 DEF RunOnceInv
  <2>2. CASE Untriggered'
    <3>1. ~Trigger(moved)
      BY <1>4, <2>2, FirstTrigger
    <3>2. ~Due(moved[i])
      BY <3>1 DEF Trigger, Due
    <3>3. /\ sub'[i].run_time = 1 /\ pushed'[i] = 0
          /\ sub'[i].time_ring_left = moved[i].time_ring_left
      BY <1>0, <2>0, <3>1, <3>2, TickItem
    <3>4. moved[i].time_ring_left # 0
      BY <1>0, <2>0, <3>2, MoveForwardItem DEF TypeOK, Due, Spent
    <3>5. moved[i].time_ring_left = sub[i].time_ring_left - 1
      BY <1>0, <2>0, <3>4, MoveForwardItem DEF TypeOK
    <3>6. Turned(i)' = ticks'
      BY <1>0, <2>0, <3>3, <3>5 DEF Turned
    <3> QED
      BY <2>2, <3>3, <3>6 DEF RunOnceInv
  <2> QED
    BY <2>1, <2>2
<1> QED
  BY <1>3, <1>4

\* The invariant is inductive.
LEMMA NextIInv == IInv /\ [Next]_vars => IInv'
<1> SUFFICES ASSUME IInv, [Next]_vars PROVE IInv'
  OBVIOUS
<1>1. CASE Tick
  <2>1. TypeOK'
    BY <1>1, TickType DEF IInv
  <2>2. \A i \in Item : sub'[i].interval = channel'[i].interval
    BY <1>1, TickItem DEF IInv, Tick
  <2>3. \A i \in Item : ~channel'[i].run_once => PeriodicInv(i)'
    BY <1>1, TickPeriodic DEF Tick
  <2>4. \A i \in Item : channel'[i].run_once => RunOnceInv(i)'
    BY <1>1, TickRunOnce DEF Tick
  <2> QED
    BY <2>1, <2>2, <2>3, <2>4 DEF IInv
<1>2. CASE UNCHANGED vars
  BY <1>2 DEF vars, IInv, TypeOK, PeriodicInv, RunOnceInv, Turned, Untriggered,
              Earliest, Period
<1> QED
  BY <1>1, <1>2 DEF Next

\* The invariant holds in every state.
LEMMA Inductive == Spec => []IInv
BY InitIInv, NextIInv, PTL DEF Spec

-----------------------------------------------------------------------------
(***************************************************************************)
(* The variables of the scheduler keep their types, for every number of    *)
(* items, every set of intervals and every number of ticks.                *)
(***************************************************************************)
THEOREM TypeCorrect == Spec => []TypeOK
<1>1. IInv => TypeOK
  BY DEF IInv
<1> QED
  BY <1>1, Inductive, PTL

(***************************************************************************)
(* An item without an end is pushed at exactly the multiples of its        *)
(* interval, whatever the other items of its unit are (metric.c:40-64,     *)
(* 377-400).                                                               *)
(***************************************************************************)
THEOREM PeriodicCorrect == Spec => []PeriodicOnSchedule
<1>1. IInv => PeriodicOnSchedule
  <2> SUFFICES ASSUME IInv, NEW i \in Item, ~channel[i].run_once
               PROVE  pushed[i] = ticks \div Period(i)
    BY DEF PeriodicOnSchedule
  <2>1. /\ Period(i) \in Nat \ {0} /\ pushed[i] \in Nat
        /\ Turned(i) \in 0..(Period(i) - 1)
        /\ pushed[i] * Period(i) + Turned(i) = ticks
    BY PeriodType DEF IInv, TypeOK, PeriodicInv
  <2> QED
    BY <2>1, DivUnique
<1> QED
  BY <1>1, Inductive, PTL

(***************************************************************************)
(* A run-once item is pushed at most once, and at all only if no other     *)
(* item of its unit has a shorter interval (metric.c:47-54).               *)
(***************************************************************************)
THEOREM RunOnceCorrect == Spec => []RunOnceOutcome
<1>1. IInv => RunOnceOutcome
  <2> SUFFICES ASSUME IInv, NEW i \in Item, channel[i].run_once
               PROVE  pushed[i] = IF Earliest(i) /\ ticks >= Period(i)
                                  THEN 1 ELSE 0
    BY DEF RunOnceOutcome
  <2>1. RunOnceInv(i) /\ ticks \in Nat
    BY DEF IInv, TypeOK
  <2>2. \A j \in Item : Period(j) \in Nat
    BY PeriodType DEF IInv, TypeOK
  <2>3. CASE Untriggered
    BY <2>1, <2>2, <2>3 DEF RunOnceInv, Untriggered
  <2>4. CASE ~Untriggered
    BY <2>1, <2>2, <2>4 DEF RunOnceInv, Untriggered, Earliest
  <2> QED
    BY <2>3, <2>4
<1> QED
  BY <1>1, Inductive, PTL

-----------------------------------------------------------------------------
(***************************************************************************)
(* The logger: what a buffer is when its ends move.                        *)
(***************************************************************************)

USE MaxMsgAssumption

\* Appending on the right commutes with concatenation ...
LEMMA AppendRight ==
  ASSUME NEW s \in Seq(Msg), NEW t \in Seq(Msg), NEW m \in Msg
  PROVE  s \o Append(t, m) = Append(s \o t, m)
OBVIOUS

\* ... what has been appended to is a sequence that is not empty ...
LEMMA AppendType ==
  ASSUME NEW s \in Seq(Msg), NEW m \in Msg
  PROVE  Append(s, m) \in Seq(Msg) /\ Append(s, m) # << >>
<1>1. Append(s, m) \in Seq(Msg)
  OBVIOUS
<1>2. Len(Append(s, m)) = Len(s) + 1 /\ Len(s) \in Nat
  OBVIOUS
<1>3. Len(<< >>) = 0
  OBVIOUS
<1>4. Len(Append(s, m)) # Len(<< >>)
  BY <1>2, <1>3
<1> QED
  BY <1>1, <1>4

\* ... and an element may move from the head of the right to the left.
LEMMA MoveHead ==
  ASSUME NEW s \in Seq(Msg), NEW t \in Seq(Msg), t # << >>
  PROVE  /\ Head(t) \in Msg
         /\ Tail(t) \in Seq(Msg)
         /\ Append(s, Head(t)) \o Tail(t) = s \o t
<1>1. Head(t) \in Msg /\ Tail(t) \in Seq(Msg)
  OBVIOUS
<1>2. Append(s, Head(t)) \o Tail(t) = s \o t
  OBVIOUS
<1> QED
  BY <1>1, <1>2

(***************************************************************************)
(* The inductive invariant: a client holds a message while it is in        *)
(* logging(), the message the logging thread is about to write is in the   *)
(* buffer, because nobody else takes one out before the thread has ended,  *)
(* and exit_logger clears the buffer only after that.                      *)
(***************************************************************************)
LogIInv ==
  /\ LogTypeOK
  /\ WrittenInOrder
  /\ \A c \in Client : logging[c].at = "append" => logging[c].msg \in Msg
  /\ leaving \in {"clear", "left"} => thread = "ended"

\* The logger starts in the invariant.
LEMMA LogInitIInv == LogInit => LogIInv
<1> SUFFICES ASSUME LogInit PROVE LogIInv
  OBVIOUS
<1> USE DEF LogInit
<1>1. << >> \in Seq(Msg)
  OBVIOUS
<1>2. LogTypeOK
  <2>1. logging \in [Client -> [at  : {"idle", "append", "signal"},
                                msg : Msg \union {NoMsg}]]
    BY DEF Idle
  <2>2. msgs \in 0..MaxMsg
    OBVIOUS
  <2> QED
    BY <1>1, <2>1, <2>2 DEF LogTypeOK
<1>3. WrittenInOrder
  BY DEF WrittenInOrder
<1>4. \A c \in Client : logging[c].at = "append" => logging[c].msg \in Msg
  BY DEF Idle
<1> QED
  BY <1>2, <1>3, <1>4 DEF LogIInv

\* Every step keeps it.
LEMMA LogNextIInv == LogIInv /\ [LogNext]_logVars => LogIInv'
<1> SUFFICES ASSUME LogIInv, [LogNext]_logVars PROVE LogIInv'
  OBVIOUS
<1> USE DEF LogIInv, LogTypeOK, WrittenInOrder
<1>1. ASSUME NEW c \in Client, Log(c) PROVE LogIInv'
  BY <1>1 DEF Log, Msg, NoMsg
<1>2. ASSUME NEW c \in Client, PutMsg(c) PROVE LogIInv'
  <2>1. /\ logging[c].msg \in Msg
        /\ log_buffer' = Append(log_buffer, logging[c].msg)
        /\ appended' = Append(appended, logging[c].msg)
        /\ log_buffer' \in Seq(Msg) /\ appended' \in Seq(Msg)
        /\ log_buffer' # << >>
    <3>1. logging[c].msg \in Msg
      BY <1>2 DEF PutMsg
    <3>2. /\ log_buffer' = Append(log_buffer, logging[c].msg)
          /\ appended' = Append(appended, logging[c].msg)
      BY <1>2 DEF PutMsg, Put
    <3>3. log_buffer \in Seq(Msg) /\ appended \in Seq(Msg)
      OBVIOUS
    <3> QED
      BY ONLY <3>1, <3>2, <3>3, AppendType
  <2>2. leaving' # "left" => logfile' \o log_buffer' = appended'
    <3>1. logfile \o Append(log_buffer, logging[c].msg)
            = Append(logfile \o log_buffer, logging[c].msg)
      BY <2>1, AppendRight
    <3>2. logfile' = logfile /\ leaving' = leaving
      BY <1>2 DEF PutMsg
    <3>3. leaving # "left" => logfile \o log_buffer = appended
      OBVIOUS
    <3> QED
      BY ONLY <2>1, <3>1, <3>2, <3>3
  <2> QED
    BY <1>2, <2>1, <2>2 DEF PutMsg
<1>3. ASSUME NEW c \in Client, Signal(c) PROVE LogIInv'
  BY <1>3 DEF Signal, Idle, NoMsg
<1>4. CASE Check \/ Open \/ TimeOut \/ SpuriousWakeUp \/ Walk
  BY <1>4 DEF Check, Open, TimeOut, SpuriousWakeUp, Walk
<1>5. CASE Write
  <2>1. /\ log_buffer' = Tail(log_buffer)
        /\ logfile' = Append(logfile, Head(log_buffer))
        /\ log_buffer' \in Seq(Msg) /\ logfile' \in Seq(Msg)
        /\ logfile' \o log_buffer' = logfile \o log_buffer
    <3>1. log_buffer \in Seq(Msg) /\ logfile \in Seq(Msg) /\ log_buffer # << >>
      BY <1>5 DEF Write
    <3>2. /\ log_buffer' = Tail(log_buffer)
          /\ logfile' = Append(logfile, Head(log_buffer))
      BY <1>5 DEF Write
    <3>3. /\ Head(log_buffer) \in Msg /\ Tail(log_buffer) \in Seq(Msg)
          /\ Append(logfile, Head(log_buffer)) \o Tail(log_buffer) = logfile \o log_buffer
      BY ONLY <3>1, MoveHead
    <3>4. Append(logfile, Head(log_buffer)) \in Seq(Msg)
      BY ONLY <3>1, <3>3
    <3> QED
      BY ONLY <3>2, <3>3, <3>4
  <2>2. LogTypeOK'
    BY <1>5, <2>1 DEF Write
  <2>3. WrittenInOrder'
    BY <1>5, <2>1 DEF Write
  <2>4. leaving' \in {"clear", "left"} => thread' = "ended"
    BY <1>5 DEF Write
  <2> QED
    BY <1>5, <2>2, <2>3, <2>4 DEF Write
<1>6. ASSUME NEW c \in Client, Close(c) PROVE LogIInv'
  BY <1>6 DEF Close
<1>7. CASE Stop \/ Join
  BY <1>7 DEF Stop, Join
<1>8. CASE Clear
  <2>1. thread' = "ended" /\ leaving' = "left" /\ log_buffer' = << >>
    BY <1>8 DEF Clear
  <2>2. << >> \in Seq(Msg)
    OBVIOUS
  <2>3. LogTypeOK'
    BY <1>8, <2>1, <2>2 DEF Clear
  <2>4. WrittenInOrder'
    BY <2>1
  <2> QED
    BY <1>8, <2>1, <2>3, <2>4 DEF Clear
<1>9. CASE UNCHANGED logVars
  BY <1>9 DEF logVars
<1> QED
  BY <1>1, <1>2, <1>3, <1>4, <1>5, <1>6, <1>7, <1>8, <1>9
     DEF LogNext, ClientStep, ThreadStep, Leave

\* The invariant holds in every state.
LEMMA LogInductive == LogSpec => []LogIInv
BY LogInitIInv, LogNextIInv, PTL DEF LogSpec

(***************************************************************************)
(* The variables of the logger keep their types, for any clients and any   *)
(* number of messages.                                                     *)
(***************************************************************************)
THEOREM LogTypeCorrect == LogSpec => []LogTypeOK
<1>1. LogIInv => LogTypeOK
  BY DEF LogIInv
<1> QED
  BY <1>1, LogInductive, PTL

(***************************************************************************)
(* No message is skipped, written twice or out of order.                   *)
(***************************************************************************)
THEOREM OrderCorrect == LogSpec => []WrittenInOrder
<1>1. LogIInv => WrittenInOrder
  BY DEF LogIInv
<1> QED
  BY <1>1, LogInductive, PTL
=============================================================================
