-------------------------- MODULE PluginMgr_proofs --------------------------
(***************************************************************************)
(* Proofs about PluginMgr, for every set of files and of nodes: whatever   *)
(* commands arrive, and however their loads end, the registry and the      *)
(* watcher agree, and plugin_unload's flags are right.                     *)
(***************************************************************************)
EXTENDS PluginMgr, FiniteSetTheorems, TLAPS

USE NodeAssumption, PathAssumption

-----------------------------------------------------------------------------
(***************************************************************************)
(* The inductive invariant, of a registry r, the nodes' paths pa and the   *)
(* allocated nodes al: an unload and a load of one command work on the     *)
(* registry one after the other.                                           *)
(***************************************************************************)
Openers(r, pa, al, p) == {n \in al : r.handler[n] /\ pa[n] = p}

\* What a listed node says of itself is so; a free node has nothing open.
NodesGood(r, pa, al) ==
  /\ r.head \subseteq al
  /\ \A n \in r.head : /\ pa[n] \in Path
                       /\ r.load_flags[n] = Flag
                       /\ r.handler[n]
  /\ \A n \in Node \ al : ~r.handler[n]

\* The units are those of the listed nodes, whose ids are old.
UnitsGood(r) ==
  /\ r.metrics = {r.id[n] : n \in r.head}
  /\ \A m, n \in r.head : r.id[m] = r.id[n] => m = n
  /\ \A n \in r.head : r.id[n] < r.plugin_id_inc
  /\ r.plugins = Cardinality(r.head)

HandlesGood(r, pa, al) ==
  \A p \in Path : r.mapped[p] = Cardinality(Openers(r, pa, al, p))

Good(r, pa, al) ==
  /\ r \in Registry
  /\ pa \in [Node -> Path \union {NoPath}]
  /\ al \subseteq Node
  /\ NodesGood(r, pa, al)
  /\ UnitsGood(r)
  /\ HandlesGood(r, pa, al)

\* The flags of node n tell plugin_unload the truth.
Sound(r, n) ==
  /\ "VERS_CHECK" \in r.load_flags[n] <=> n \in r.head
  /\ "DLOPEN" \in r.load_flags[n] <=> r.handler[n]

-----------------------------------------------------------------------------
\* A set of nodes has a number of elements ...
LEMMA CountType ==
  ASSUME NEW S \in SUBSET Node
  PROVE  IsFiniteSet(S) /\ Cardinality(S) \in Nat
BY FS_Subset, FS_CardinalityType

\* ... which grows by one when a node is added ...
LEMMA CountAdd ==
  ASSUME NEW S \in SUBSET Node, NEW n \in Node \ S
  PROVE  Cardinality(S \union {n}) = Cardinality(S) + 1
BY CountType, FS_AddElement

\* ... and shrinks by one when a node is taken away.
LEMMA CountDel ==
  ASSUME NEW S \in SUBSET Node, NEW n \in S
  PROVE  Cardinality(S \ {n}) = Cardinality(S) - 1 /\ Cardinality(S) - 1 \in Nat
<1>1. IsFiniteSet(S) /\ Cardinality(S) \in Nat /\ IsFiniteSet(S \ {n})
  BY CountType, FS_Subset
<1>2. Cardinality(S \ {n}) = Cardinality(S) - 1
  BY <1>1, FS_RemoveElement
<1>3. Cardinality(S \ {n}) \in Nat
  BY <1>1, FS_CardinalityType
<1> QED
  BY <1>2, <1>3

\* plugin_unload of a node whose flags are true leaves a good registry in
\* which the node has nothing any more.
LEMMA UnloadGood ==
  ASSUME NEW r, NEW pa, NEW al, Good(r, pa, al),
         NEW n \in al, pa[n] \in Path, Sound(r, n)
  PROVE  LET u == Unload(r, n, pa[n])
         IN  /\ Good(u, pa, al)
             /\ n \notin u.head
             /\ ~u.handler[n]
             /\ u.plugin_id_inc = r.plugin_id_inc
             /\ u.metrics \subseteq r.metrics
<1> DEFINE u == Unload(r, n, pa[n])
<1> USE DEF Good
<1>0. n \in Node /\ r \in Registry
  OBVIOUS
<1>1. /\ u.head = r.head \ {n}
      /\ u.plugin_id_inc = r.plugin_id_inc
      /\ u.load_flags = r.load_flags
      /\ u.handler = [r.handler EXCEPT ![n] = FALSE]
      /\ u.id \in [Node -> Nat]
      /\ \A m \in Node \ {n} : u.id[m] = r.id[m]
  BY <1>0 DEF Unload, Sound, ListDel, Registry, InvalidId
<1>4. UnitsGood(u) /\ u.plugins \in Nat /\ u.metrics \subseteq r.metrics
  <2>1. CASE n \in r.head
    <3>1. /\ u.plugins = r.plugins - 1
          /\ u.metrics = r.metrics \ {r.id[n]}
      BY <2>1 DEF Unload, Sound
    <3>2. u.plugins = Cardinality(u.head) /\ u.plugins \in Nat
      <4>1. r.head \in SUBSET Node /\ r.plugins = Cardinality(r.head)
        BY DEF Registry, UnitsGood
      <4>2. /\ Cardinality(r.head \ {n}) = Cardinality(r.head) - 1
            /\ Cardinality(r.head) - 1 \in Nat
        BY <2>1, <4>1, CountDel
      <4> QED
        BY <1>1, <3>1, <4>1, <4>2
    <3> QED
      BY <1>0, <1>1, <2>1, <3>1, <3>2 DEF UnitsGood, Registry
  <2>2. CASE n \notin r.head
    <3>1. /\ u.plugins = r.plugins
          /\ u.metrics = r.metrics
          /\ u.head = r.head
      BY <1>1, <2>2 DEF Unload, Sound
    <3>2. \A m \in u.head : u.id[m] = r.id[m]
      BY <1>0, <1>1, <2>2, <3>1 DEF Registry
    <3>3. u.metrics = {u.id[m] : m \in u.head}
      BY <3>1, <3>2 DEF UnitsGood
    <3> QED
      BY <1>0, <1>1, <3>1, <3>2, <3>3 DEF UnitsGood, Registry
  <2> QED
    BY <2>1, <2>2
<1>5. NodesGood(u, pa, al)
  BY <1>0, <1>1 DEF NodesGood, Registry
<1>6. HandlesGood(u, pa, al) /\ u.mapped \in [Path -> Nat]
  <2>1. ASSUME NEW p \in Path
        PROVE  u.mapped[p] = Cardinality(Openers(u, pa, al, p))
               /\ u.mapped[p] \in Nat
    <3>1. /\ Openers(r, pa, al, p) \in SUBSET Node
          /\ r.mapped[p] = Cardinality(Openers(r, pa, al, p))
      BY DEF Openers, HandlesGood
    <3>2. CASE p = pa[n] /\ r.handler[n]
      <4>1. /\ u.mapped[p] = r.mapped[p] - 1
            /\ n \in Openers(r, pa, al, p)
            /\ Openers(u, pa, al, p) = Openers(r, pa, al, p) \ {n}
        BY <1>0, <1>1, <3>2 DEF Unload, Sound, Openers, Registry
      <4>2. /\ Cardinality(Openers(r, pa, al, p) \ {n})
                 = Cardinality(Openers(r, pa, al, p)) - 1
            /\ Cardinality(Openers(r, pa, al, p)) - 1 \in Nat
        BY <3>1, <4>1, CountDel
      <4> QED
        BY <3>1, <4>1, <4>2
    <3>3. CASE ~(p = pa[n] /\ r.handler[n])
      <4>1. /\ u.mapped[p] = r.mapped[p]
            /\ Openers(u, pa, al, p) = Openers(r, pa, al, p)
        BY <1>0, <1>1, <3>3 DEF Unload, Sound, Openers, Registry
      <4> QED
        BY <3>1, <4>1, CountType
    <3> QED
      BY <3>2, <3>3
  <2>2. u.mapped = [p \in Path |-> u.mapped[p]]
    BY <1>0 DEF Unload, Registry
  <2> QED
    BY <2>1, <2>2 DEF HandlesGood
<1>7. u \in Registry
  <2>1. /\ u.head \in SUBSET Node
        /\ u.plugin_id_inc \in Nat
        /\ u.load_flags \in [Node -> SUBSET Flag]
        /\ u.handler \in [Node -> BOOLEAN]
        /\ u.metrics \in SUBSET Nat
    BY <1>0, <1>1, <1>4 DEF Registry
  <2>2. /\ u.init_flag \in SUBSET Path
        /\ u.described \in SUBSET Node
    BY <1>0 DEF Unload, Registry
  <2>3. u = [head |-> u.head, plugins |-> u.plugins,
             plugin_id_inc |-> u.plugin_id_inc, id |-> u.id,
             load_flags |-> u.load_flags, handler |-> u.handler,
             metrics |-> u.metrics, mapped |-> u.mapped,
             init_flag |-> u.init_flag, described |-> u.described]
    BY DEF Unload
  <2> QED
    BY <1>1, <1>4, <1>6, <2>1, <2>2, <2>3 DEF Registry
<1> HIDE DEF u
<1>8. Good(u, pa, al)
  BY <1>4, <1>5, <1>6, <1>7
<1>9. n \notin u.head /\ ~u.handler[n]
  BY <1>0, <1>1 DEF Registry
<1> QED
  BY <1>1, <1>4, <1>8, <1>9 DEF u

\* plugin_load of an allocated node that has nothing open leaves a good
\* registry; the node is listed if all was well, and its flags say how far
\* the load has come.
LEMMA LoadGood ==
  ASSUME NEW r, NEW pa, NEW al, Good(r, pa, al),
         NEW n \in al, pa[n] \in Path, n \notin r.head, ~r.handler[n],
         NEW outcome \in Outcome
  PROVE  LET l == Load(r, n, pa[n], outcome)
         IN  /\ Good(l, pa, al)
             /\ l.head = IF outcome = "ok" THEN r.head \union {n} ELSE r.head
             /\ l.load_flags[n] = r.load_flags[n] \union FlagsOf(outcome)
             /\ l.handler[n] <=> outcome # "noent"
             /\ l.plugin_id_inc >= r.plugin_id_inc
             /\ l.metrics \subseteq r.metrics \union {r.plugin_id_inc}
<1> DEFINE l == Load(r, n, pa[n], outcome)
<1> USE DEF Good
<1>0. n \in Node /\ r \in Registry
  OBVIOUS
<1>a. FlagsOf(outcome) \subseteq Flag /\ FlagsOf("ok") = Flag
  BY DEF FlagsOf, Flag, Outcome
<1>1. /\ l.head = IF outcome = "ok" THEN r.head \union {n} ELSE r.head
      /\ l.plugin_id_inc = IF outcome = "noent" THEN r.plugin_id_inc
                                                ELSE r.plugin_id_inc + 1
      /\ l.load_flags = [r.load_flags EXCEPT ![n] = @ \union FlagsOf(outcome)]
      /\ l.handler = [r.handler EXCEPT ![n] = (outcome # "noent")]
      /\ l.id \in [Node -> Nat]
      /\ outcome # "noent" => l.id[n] = r.plugin_id_inc
      /\ \A m \in Node \ {n} : l.id[m] = r.id[m]
  BY <1>0 DEF Load, NewId, Registry
<1>2. /\ UnitsGood(l)
      /\ l.plugins \in Nat
      /\ l.metrics \subseteq r.metrics \union {r.plugin_id_inc}
  <2>0. \A m \in r.head : l.id[m] = r.id[m] /\ m \in Node
    BY <1>0, <1>1 DEF Registry
  <2>1. CASE outcome = "ok"
    <3>1. /\ l.plugins = r.plugins + 1
          /\ l.metrics = r.metrics \union {r.plugin_id_inc}
          /\ l.head = r.head \union {n}
          /\ l.id[n] = r.plugin_id_inc
      BY <1>1, <2>1 DEF Load, NewId
    <3>2. l.plugins = Cardinality(l.head) /\ l.plugins \in Nat
      <4>1. /\ r.head \in SUBSET Node
            /\ n \in Node \ r.head
            /\ r.plugins = Cardinality(r.head)
        BY <1>0 DEF Registry, UnitsGood
      <4>2. Cardinality(r.head \union {n}) = Cardinality(r.head) + 1
        BY <4>1, CountAdd
      <4> QED
        BY <3>1, <4>1, <4>2 DEF Registry
    <3>3. l.metrics = {l.id[m] : m \in l.head}
      BY <2>0, <3>1 DEF UnitsGood
    <3>4. \A m \in l.head : l.id[m] < l.plugin_id_inc
      BY <1>0, <1>1, <2>0, <2>1, <3>1 DEF UnitsGood, Registry
    <3>5. \A j, m \in l.head : l.id[j] = l.id[m] => j = m
      BY <1>0, <2>0, <3>1 DEF UnitsGood, Registry
    <3> QED
      BY <3>1, <3>2, <3>3, <3>4, <3>5 DEF UnitsGood
  <2>2. CASE outcome # "ok"
    <3>1. /\ l.plugins = r.plugins
          /\ l.metrics = r.metrics
          /\ l.head = r.head
      BY <1>1, <2>2 DEF Load
    <3>2. l.metrics = {l.id[m] : m \in l.head}
      BY <2>0, <3>1 DEF UnitsGood
    <3>3. \A m \in l.head : l.id[m] < l.plugin_id_inc
      BY <1>0, <1>1, <2>0, <3>1 DEF UnitsGood, Registry
    <3>4. \A j, m \in l.head : l.id[j] = l.id[m] => j = m
      BY <2>0, <3>1 DEF UnitsGood
    <3> QED
      BY <3>1, <3>2, <3>3, <3>4 DEF UnitsGood, Registry
  <2> QED
    BY <2>1, <2>2
<1>3. NodesGood(l, pa, al)
  <2>1. ASSUME NEW m \in l.head
        PROVE  /\ m \in al
               /\ pa[m] \in Path
               /\ l.load_flags[m] = Flag
               /\ l.handler[m]
    <3>1. CASE m = n
      <4>1. outcome = "ok"
        BY <1>1, <3>1
      <4>2. l.load_flags[n] = r.load_flags[n] \union Flag
        BY <1>0, <1>1, <1>a, <4>1 DEF Registry
      <4> QED
        BY <1>0, <1>1, <3>1, <4>1, <4>2 DEF Registry
    <3>2. CASE m # n
      <4>1. m \in r.head /\ m \in Node
        BY <1>0, <1>1, <3>2 DEF Registry
      <4> QED
        BY <1>0, <1>1, <3>2, <4>1 DEF NodesGood, Registry
    <3> QED
      BY <3>1, <3>2
  <2>2. ASSUME NEW m \in Node \ al
        PROVE  ~l.handler[m]
    BY <1>0, <1>1 DEF NodesGood, Registry
  <2> HIDE DEF l
  <2> QED
    BY <2>1, <2>2 DEF NodesGood
<1>4. HandlesGood(l, pa, al) /\ l.mapped \in [Path -> Nat]
  <2>1. ASSUME NEW p \in Path
        PROVE  /\ l.mapped[p] = Cardinality(Openers(l, pa, al, p))
               /\ l.mapped[p] \in Nat
    <3>1. /\ Openers(r, pa, al, p) \in SUBSET Node
          /\ r.mapped[p] = Cardinality(Openers(r, pa, al, p))
      BY DEF Openers, HandlesGood
    <3>2. CASE p = pa[n] /\ outcome # "noent"
      <4>1. /\ l.mapped[p] = r.mapped[p] + 1
            /\ n \in Node \ Openers(r, pa, al, p)
            /\ Openers(l, pa, al, p) = Openers(r, pa, al, p) \union {n}
        <5>1. l.mapped[p] = r.mapped[p] + 1
          BY <1>0, <3>2 DEF Load, Registry
        <5>2. n \in Node \ Openers(r, pa, al, p)
          BY <1>0 DEF Openers
        <5>3. l.handler[n] /\ \A m \in al \ {n} : l.handler[m] = r.handler[m]
          BY <1>0, <1>1, <3>2 DEF Registry
        <5>4. Openers(l, pa, al, p) = Openers(r, pa, al, p) \union {n}
          BY <3>2, <5>3 DEF Openers
        <5> QED
          BY <5>1, <5>2, <5>4
      <4>2. Cardinality(Openers(r, pa, al, p) \union {n})
              = Cardinality(Openers(r, pa, al, p)) + 1
        BY <3>1, <4>1, CountAdd
      <4>3. Cardinality(Openers(r, pa, al, p)) \in Nat
        BY <3>1, CountType
      <4> QED
        BY <3>1, <4>1, <4>2, <4>3
    <3>3. CASE ~(p = pa[n] /\ outcome # "noent")
      <4>1. /\ l.mapped[p] = r.mapped[p]
            /\ Openers(l, pa, al, p) = Openers(r, pa, al, p)
        BY <1>0, <1>1, <3>3 DEF Load, Openers, Registry
      <4> QED
        BY <3>1, <4>1, CountType
    <3> QED
      BY <3>2, <3>3
  <2>2. l.mapped = [p \in Path |-> l.mapped[p]]
    BY <1>0 DEF Load, Registry
  <2> QED
    BY <2>1, <2>2 DEF HandlesGood
<1>5. l \in Registry
  <2>1. /\ l.head \in SUBSET Node
        /\ l.plugin_id_inc \in Nat
        /\ l.handler \in [Node -> BOOLEAN]
        /\ l.metrics \in SUBSET Nat
    BY <1>0, <1>1, <1>2 DEF Registry
  <2>2. l.load_flags \in [Node -> SUBSET Flag]
    BY <1>0, <1>1, <1>a DEF Registry
  <2>3. /\ l.init_flag \in SUBSET Path
        /\ l.described \in SUBSET Node
    BY <1>0 DEF Load, Registry
  <2>4. l = [head |-> l.head, plugins |-> l.plugins,
             plugin_id_inc |-> l.plugin_id_inc, id |-> l.id,
             load_flags |-> l.load_flags, handler |-> l.handler,
             metrics |-> l.metrics, mapped |-> l.mapped,
             init_flag |-> l.init_flag, described |-> l.described]
    BY DEF Load
  <2> QED
    BY <1>1, <1>2, <1>4, <2>1, <2>2, <2>3, <2>4 DEF Registry
<1>6. /\ l.load_flags[n] = r.load_flags[n] \union FlagsOf(outcome)
      /\ l.handler[n] <=> outcome # "noent"
      /\ l.plugin_id_inc >= r.plugin_id_inc
  <2>1. /\ r.handler \in [Node -> BOOLEAN]
        /\ r.load_flags \in [Node -> SUBSET Flag]
        /\ r.plugin_id_inc \in Nat
    BY DEF Registry
  <2>2. l.handler[n] = (outcome # "noent")
    BY <1>0, <1>1, <2>1
  <2>3. l.load_flags[n] = r.load_flags[n] \union FlagsOf(outcome)
    BY <1>0, <1>1, <2>1
  <2>4. l.plugin_id_inc >= r.plugin_id_inc
    BY <1>1, <2>1
  <2> HIDE DEF l
  <2> QED
    BY <2>2, <2>3, <2>4
<1> HIDE DEF l
<1>7. Good(l, pa, al)
  BY <1>2, <1>3, <1>4, <1>5
<1> QED
  BY <1>1, <1>2, <1>6, <1>7 DEF l

\* A node that is not listed and has nothing open need not be allocated.
LEMMA FreeGood ==
  ASSUME NEW r, NEW pa, NEW al, Good(r, pa, al),
         NEW n \in al, n \notin r.head, ~r.handler[n]
  PROVE  Good(r, pa, al \ {n})
<1>1. \A p \in Path : Openers(r, pa, al \ {n}, p) = Openers(r, pa, al, p)
  BY DEF Openers
<1> QED
  BY <1>1 DEF Good, NodesGood, HandlesGood

\* malloc'ing a node and filling it in leaves a good registry.
LEMMA FreshGood ==
  ASSUME NEW r, NEW pa, NEW al, Good(r, pa, al),
         NEW n \in Node \ al, NEW p \in Path
  PROVE  LET fresh == [r EXCEPT !.load_flags = [@ EXCEPT ![n] = {}],
                                !.id = [@ EXCEPT ![n] = InvalidId]]
         IN  /\ Good(fresh, [pa EXCEPT ![n] = p], al \union {n})
             /\ fresh.head = r.head
             /\ fresh.metrics = r.metrics
             /\ fresh.plugin_id_inc = r.plugin_id_inc
             /\ fresh.load_flags[n] = {}
             /\ ~fresh.handler[n]
             /\ n \notin fresh.head
<1> DEFINE fresh == [r EXCEPT !.load_flags = [@ EXCEPT ![n] = {}],
                              !.id = [@ EXCEPT ![n] = InvalidId]]
           pa2   == [pa EXCEPT ![n] = p]
           al2   == al \union {n}
<1>0. /\ r \in Registry
      /\ n \notin r.head
      /\ ~r.handler[n]
      /\ r.head \subseteq al
  BY DEF Good, NodesGood
<1>1. /\ fresh.head = r.head
      /\ fresh.plugins = r.plugins
      /\ fresh.plugin_id_inc = r.plugin_id_inc
      /\ fresh.handler = r.handler
      /\ fresh.metrics = r.metrics
      /\ fresh.mapped = r.mapped
      /\ fresh.init_flag = r.init_flag
      /\ fresh.described = r.described
      /\ fresh.id = [r.id EXCEPT ![n] = InvalidId]
      /\ fresh.load_flags = [r.load_flags EXCEPT ![n] = {}]
  BY <1>0 DEF Registry
<1>2. /\ fresh.id \in [Node -> Nat]
      /\ fresh.load_flags \in [Node -> SUBSET Flag]
      /\ fresh.load_flags[n] = {}
      /\ \A m \in Node \ {n} : /\ fresh.id[m] = r.id[m]
                               /\ fresh.load_flags[m] = r.load_flags[m]
  BY <1>0, <1>1 DEF Registry, InvalidId
<1>3. fresh \in Registry
  <2>1. /\ [r.load_flags EXCEPT ![n] = {}] \in [Node -> SUBSET Flag]
        /\ [r.id EXCEPT ![n] = InvalidId] \in [Node -> Nat]
    BY <1>0 DEF Registry, InvalidId
  <2> QED
    BY <1>0, <2>1 DEF Registry
<1>4. pa2 \in [Node -> Path \union {NoPath}] /\ al2 \subseteq Node
  BY DEF Good
<1>5. \A m \in Node \ {n} : pa2[m] = pa[m]
  BY DEF Good
<1> HIDE DEF fresh, pa2
<1>6. NodesGood(fresh, pa2, al2)
  BY <1>0, <1>1, <1>2, <1>5 DEF Good, NodesGood, Registry
<1>7. UnitsGood(fresh)
  <2>1. \A m \in r.head : m \in Node \ {n}
    BY <1>0 DEF Registry
  <2>2. {fresh.id[m] : m \in r.head} = {r.id[m] : m \in r.head}
    BY <1>2, <2>1
  <2> QED
    BY <1>1, <1>2, <2>1, <2>2 DEF Good, UnitsGood
<1>8. HandlesGood(fresh, pa2, al2)
  <2>1. ASSUME NEW q \in Path
        PROVE  Openers(fresh, pa2, al2, q) = Openers(r, pa, al, q)
    BY <1>0, <1>1, <1>5 DEF Openers, Good
  <2> QED
    BY <1>1, <2>1 DEF Good, HandlesGood
<1>9. Good(fresh, pa2, al2)
  BY <1>3, <1>4, <1>6, <1>7, <1>8 DEF Good
<1> QED
  BY <1>0, <1>1, <1>2, <1>9 DEF fresh, pa2

-----------------------------------------------------------------------------
(***************************************************************************)
(* Every command keeps the invariant.  The next id is above all that units *)
(* were made with, which is why it is a new one.                           *)
(***************************************************************************)
IdsGood ==
  /\ given \in Seq(Nat)
  /\ \A i \in DOMAIN given : given[i] < reg.plugin_id_inc
  /\ IdsAreNew

IInv ==
  /\ TypeOK
  /\ Good(reg, path, allocated)
  /\ OneNodePerName
  /\ IdsGood

\* A load that succeeds uses up the next id; no load gives one back.
LEMMA LoadIds ==
  ASSUME NEW r, r \in Registry, NEW n \in Node, NEW p, NEW outcome
  PROVE  LET l == Load(r, n, p, outcome)
         IN  /\ l.plugin_id_inc \in {r.plugin_id_inc, r.plugin_id_inc + 1}
             /\ outcome = "ok" => /\ l.plugin_id_inc = r.plugin_id_inc + 1
                                  /\ l.id[n] = r.plugin_id_inc
BY DEF Load, NewId, Registry

\* The unit of a load is recorded with a new id.
LEMMA GivenGrows ==
  ASSUME IInv, NEW n, NEW outcome, Recorded(n, outcome),
         reg'.plugin_id_inc \in {reg.plugin_id_inc, reg.plugin_id_inc + 1},
         outcome = "ok" => /\ reg'.plugin_id_inc = reg.plugin_id_inc + 1
                           /\ reg'.id[n] = reg.plugin_id_inc
  PROVE  IdsGood'
<1>0. /\ reg.plugin_id_inc \in Nat
      /\ given \in Seq(Nat) /\ Len(given) \in Nat /\ DOMAIN given = 1 .. Len(given)
      /\ \A i \in DOMAIN given : given[i] \in Nat /\ given[i] < reg.plugin_id_inc
      /\ IdsAreNew
  BY DEF IInv, IdsGood, Good, Registry
<1>1. CASE outcome # "ok"
  BY <1>0, <1>1 DEF Recorded, IdsGood, IdsAreNew
<1>2. CASE outcome = "ok"
  <2> DEFINE id == reg.plugin_id_inc
  <2>1. given' = Append(given, id) /\ reg'.plugin_id_inc = id + 1
    BY <1>2 DEF Recorded
  <2>2. /\ given' \in Seq(Nat) /\ DOMAIN given' = 1 .. Len(given) + 1
        /\ \A i \in 1 .. Len(given) : given'[i] = given[i]
        /\ given'[Len(given) + 1] = id
    BY <1>0, <2>1
  <2>3. \A i \in DOMAIN given' : given'[i] < reg'.plugin_id_inc
    BY <1>0, <2>1, <2>2
  <2>4. IdsAreNew'
    BY <1>0, <2>2 DEF IdsAreNew
  <2> QED
    BY <2>2, <2>3, <2>4 DEF IdsGood
<1> QED
  BY <1>1, <1>2

\* The manager starts in the invariant.
LEMMA InitIInv == Init => IInv
<1> SUFFICES ASSUME Init PROVE IInv
  OBVIOUS
<1>1. reg \in Registry
  BY DEF Init, Registry, InvalidId
<1>2. TypeOK
  BY <1>1 DEF Init, TypeOK
<1>3. Cardinality({}) = 0
  BY FS_EmptySet
<1>4. NodesGood(reg, path, allocated)
  BY DEF Init, NodesGood
<1>5. UnitsGood(reg)
  BY <1>3 DEF Init, UnitsGood
<1>6. HandlesGood(reg, path, allocated)
  <2>1. \A p \in Path : Openers(reg, path, allocated, p) = {}
    BY DEF Init, Openers
  <2> QED
    BY <1>3, <2>1 DEF Init, HandlesGood
<1>7. Good(reg, path, allocated)
  BY <1>2, <1>4, <1>5, <1>6 DEF Good, TypeOK
<1>8. OneNodePerName
  BY DEF Init, OneNodePerName
<1>9. IdsGood
  BY DEF Init, IdsGood, IdsAreNew
<1> QED
  BY <1>2, <1>7, <1>8, <1>9 DEF IInv

\* A load of a new name: the node is listed, or freed again.
LEMMA InstallIInv ==
  ASSUME IInv, NEW p \in Path, NEW n \in Node, NEW outcome \in Outcome,
         Install(p, n, outcome)
  PROVE  IInv'
<1> DEFINE fresh  == [reg EXCEPT !.load_flags = [@ EXCEPT ![n] = {}],
                                 !.id = [@ EXCEPT ![n] = InvalidId]]
           loaded == Load(fresh, n, p, outcome)
           al     == allocated \union {n}
<1>p. PICK pa : pa = path'
  OBVIOUS
<1>0. /\ n \in Node \ allocated
      /\ path' = [path EXCEPT ![n] = p]
      /\ pa = path'
      /\ pa[n] \in Path
      /\ n \in al
      /\ al = allocated \union {n}
      /\ path' \in [Node -> Path \union {NoPath}]
      /\ path'[n] = p
      /\ reg.head \subseteq allocated
      /\ allocated \subseteq Node
      /\ \A m \in Node \ {n} : path'[m] = path[m]
  BY <1>p DEF Install, IInv, TypeOK, Good, NodesGood
<1>1. /\ Good(fresh, pa, al)
      /\ fresh.head = reg.head
      /\ fresh.metrics = reg.metrics
      /\ fresh.plugin_id_inc = reg.plugin_id_inc
      /\ fresh.load_flags[n] = {}
      /\ ~fresh.handler[n]
      /\ n \notin fresh.head
  <2>1. LET new == [reg EXCEPT !.load_flags = [@ EXCEPT ![n] = {}],
                               !.id = [@ EXCEPT ![n] = InvalidId]]
        IN  /\ Good(new, [path EXCEPT ![n] = p], allocated \union {n})
            /\ new.head = reg.head
            /\ new.metrics = reg.metrics
            /\ new.plugin_id_inc = reg.plugin_id_inc
            /\ new.load_flags[n] = {}
            /\ ~new.handler[n]
            /\ n \notin new.head
    BY <1>0, FreshGood DEF IInv
  <2> QED
    BY <1>0, <2>1
<1> HIDE DEF fresh, al
<1>2. /\ Good(loaded, pa, al)
      /\ loaded.head = IF outcome = "ok" THEN reg.head \union {n} ELSE reg.head
      /\ loaded.load_flags[n] = FlagsOf(outcome)
      /\ loaded.handler[n] <=> outcome # "noent"
      /\ loaded.plugin_id_inc \in {reg.plugin_id_inc, reg.plugin_id_inc + 1}
      /\ outcome = "ok" => /\ loaded.plugin_id_inc = reg.plugin_id_inc + 1
                           /\ loaded.id[n] = reg.plugin_id_inc
  <2>1. LET l == Load(fresh, n, pa[n], outcome)
        IN  /\ Good(l, pa, al)
            /\ l.head = IF outcome = "ok" THEN fresh.head \union {n}
                                          ELSE fresh.head
            /\ l.load_flags[n] = fresh.load_flags[n] \union FlagsOf(outcome)
            /\ l.handler[n] <=> outcome # "noent"
    <3>1. Good(fresh, pa, al) /\ n \in al /\ pa[n] \in Path
      BY <1>0, <1>1
    <3>2. n \notin fresh.head /\ ~fresh.handler[n]
      BY <1>1
    <3> QED
      BY <3>1, <3>2, LoadGood
  <2>2. LET l == Load(fresh, n, pa[n], outcome)
        IN  /\ l.plugin_id_inc \in {fresh.plugin_id_inc, fresh.plugin_id_inc + 1}
            /\ outcome = "ok" => /\ l.plugin_id_inc = fresh.plugin_id_inc + 1
                                 /\ l.id[n] = fresh.plugin_id_inc
    BY <1>0, <1>1, LoadIds DEF Good
  <2> QED
    BY <1>0, <1>1, <2>1, <2>2
<1> HIDE DEF loaded
<1>3. /\ Good(reg, path, allocated)'
      /\ reg'.plugin_id_inc \in {reg.plugin_id_inc, reg.plugin_id_inc + 1}
      /\ outcome = "ok" => /\ reg'.plugin_id_inc = reg.plugin_id_inc + 1
                           /\ reg'.id[n] = reg.plugin_id_inc
      /\ reg'.head \subseteq reg.head \union {n}
  <2>1. CASE outcome = "ok"
    <3>1. reg' = loaded /\ allocated' = al
      BY <1>0, <2>1 DEF Install, fresh, loaded
    <3> QED
      BY <1>0, <1>1, <1>2, <2>1, <3>1 DEF IInv, Good, Registry
  <2>2. CASE outcome # "ok"
    <3>1. reg' = Unload(loaded, n, pa[n]) /\ allocated' = al \ {n}
      BY <1>0, <2>2 DEF Install, fresh, loaded
    <3>2. Sound(loaded, n)
      BY <1>1, <1>2, <2>2 DEF Sound, FlagsOf, Outcome, Flag
    <3>3. /\ Good(reg', pa, al)
          /\ n \notin reg'.head
          /\ ~reg'.handler[n]
          /\ reg'.plugin_id_inc = loaded.plugin_id_inc
      <4>1. LET u == Unload(loaded, n, pa[n])
            IN  /\ Good(u, pa, al)
                /\ n \notin u.head
                /\ ~u.handler[n]
                /\ u.plugin_id_inc = loaded.plugin_id_inc
        <5>1. Good(loaded, pa, al) /\ n \in al /\ pa[n] \in Path
          BY <1>0, <1>2
        <5> QED
          BY <3>2, <5>1, UnloadGood
      <4> QED
        BY <3>1, <4>1
    <3>4. Good(reg', pa, al \ {n})
      BY <3>3, FreeGood
    <3>5. reg'.head \subseteq loaded.head
      BY <3>1 DEF Unload, ListDel
    <3> QED
      BY <1>0, <1>1, <1>2, <2>2, <3>1, <3>3, <3>4, <3>5
         DEF IInv, Good, Registry
  <2> QED
    BY <2>1, <2>2
<1>4. IdsGood'
  BY <1>3, GivenGrows DEF Install
<1>5. TypeOK'
  BY <1>0, <1>3, <1>4 DEF Install, IInv, TypeOK, Good, IdsGood
<1>6. OneNodePerName'
  <2>1. Found(p) = {}
    BY DEF Install
  <2>2. \A m \in reg'.head \ {n} : /\ m \in reg.head
                                   /\ path'[m] = path[m]
                                   /\ NameOf[path[m]] # NameOf[p]
    BY <1>0, <1>3, <2>1 DEF Found
  <2> QED
    BY <1>0, <1>3, <2>2 DEF IInv, OneNodePerName
<1> QED
  BY <1>3, <1>4, <1>5, <1>6 DEF IInv

\* A reload unloads a listed node, whose flags are true, and loads it.
LEMMA ReloadIInv ==
  ASSUME IInv, NEW p \in Path, NEW n \in Node, NEW outcome \in Outcome,
         Reload(p, n, outcome)
  PROVE  IInv'
<1> DEFINE unloaded == Unload(reg, n, path[n])
<1>0. /\ n \in reg.head
      /\ n \in allocated
      /\ path[n] \in Path
      /\ path' = path
      /\ allocated' = allocated
      /\ Sound(reg, n)
  BY DEF Reload, Found, IInv, Good, NodesGood, Sound, Flag
<1>1. /\ Good(unloaded, path, allocated)
      /\ n \notin unloaded.head
      /\ ~unloaded.handler[n]
      /\ unloaded.plugin_id_inc = reg.plugin_id_inc
      /\ unloaded.metrics \subseteq reg.metrics
  BY <1>0, UnloadGood DEF IInv
<1>2. unloaded.head \subseteq reg.head
  BY DEF Unload, ListDel
<1> HIDE DEF unloaded
<1>3. reg' = Load(unloaded, n, path[n], outcome)
  BY DEF Reload, unloaded
<1>4. /\ Good(reg', path, allocated)
      /\ reg'.head \subseteq unloaded.head \union {n}
      /\ reg'.plugin_id_inc \in {reg.plugin_id_inc, reg.plugin_id_inc + 1}
      /\ outcome = "ok" => /\ reg'.plugin_id_inc = reg.plugin_id_inc + 1
                           /\ reg'.id[n] = reg.plugin_id_inc
  <2>1. LET l == Load(unloaded, n, path[n], outcome)
        IN  /\ Good(l, path, allocated)
            /\ l.head = IF outcome = "ok" THEN unloaded.head \union {n}
                                          ELSE unloaded.head
    BY <1>0, <1>1, LoadGood
  <2>2. LET l == Load(unloaded, n, path[n], outcome)
        IN  /\ l.plugin_id_inc \in {unloaded.plugin_id_inc, unloaded.plugin_id_inc + 1}
            /\ outcome = "ok" => /\ l.plugin_id_inc = unloaded.plugin_id_inc + 1
                                 /\ l.id[n] = unloaded.plugin_id_inc
    BY <1>0, <1>1, LoadIds DEF Good
  <2> QED
    BY <1>1, <1>3, <2>1, <2>2
<1>5. IdsGood'
  BY <1>4, GivenGrows DEF Reload
<1>6. TypeOK'
  BY <1>0, <1>4, <1>5 DEF Reload, IInv, TypeOK, Good, IdsGood
<1>7. OneNodePerName'
  BY <1>0, <1>2, <1>4 DEF IInv, OneNodePerName
<1> QED
  BY <1>0, <1>4, <1>5, <1>6, <1>7 DEF IInv

\* An unload takes a listed node away, whose flags are true, and frees it.
LEMMA UninstallIInv ==
  ASSUME IInv, NEW p \in Path, NEW n \in Node, Uninstall(p, n)
  PROVE  IInv'
<1>0. /\ n \in reg.head
      /\ n \in allocated
      /\ path[n] \in Path
      /\ path' = path
      /\ allocated' = allocated \ {n}
      /\ reg' = Unload(reg, n, path[n])
      /\ given' = given
      /\ Sound(reg, n)
  BY DEF Uninstall, Found, IInv, Good, NodesGood, Sound, Flag
<1>1. /\ Good(reg', path, allocated)
      /\ n \notin reg'.head
      /\ ~reg'.handler[n]
      /\ reg'.plugin_id_inc = reg.plugin_id_inc
  BY <1>0, UnloadGood DEF IInv
<1>2. Good(reg', path, allocated \ {n})
  BY <1>0, <1>1, FreeGood
<1>3. reg'.head \subseteq reg.head
  BY <1>0 DEF Unload, ListDel
<1>4. TypeOK' /\ IdsGood'
  BY <1>0, <1>1 DEF Uninstall, IInv, TypeOK, Good, IdsGood, IdsAreNew
<1>5. OneNodePerName'
  BY <1>0, <1>3 DEF IInv, OneNodePerName
<1> QED
  BY <1>0, <1>2, <1>4, <1>5 DEF IInv

\* A collect function changes nothing the invariant speaks of.
LEMMA CollectIInv ==
  ASSUME IInv, NEW n \in Node, Collect(n)
  PROVE  IInv'
<1>0. /\ n \in reg.head
      /\ path' = path
      /\ allocated' = allocated
      /\ given' = given
      /\ path[n] \in Path
      /\ reg \in Registry
  BY DEF Collect, IInv, Good, NodesGood
<1>1. /\ reg' \in Registry
      /\ reg'.head = reg.head
      /\ reg'.plugins = reg.plugins
      /\ reg'.plugin_id_inc = reg.plugin_id_inc
      /\ reg'.id = reg.id
      /\ reg'.load_flags = reg.load_flags
      /\ reg'.handler = reg.handler
      /\ reg'.metrics = reg.metrics
      /\ reg'.mapped = reg.mapped
  BY <1>0 DEF Collect, Registry
<1>2. Good(reg, path, allocated)'
  BY <1>0, <1>1
     DEF IInv, Good, NodesGood, UnitsGood, HandlesGood, Openers
<1>3. TypeOK' /\ OneNodePerName' /\ IdsGood'
  BY <1>0, <1>1 DEF Collect, IInv, TypeOK, OneNodePerName, IdsGood, IdsAreNew
<1> QED
  BY <1>2, <1>3 DEF IInv

\* The invariant is inductive.
LEMMA NextIInv == IInv /\ [Next]_vars => IInv'
<1> SUFFICES ASSUME IInv, [Next]_vars
             PROVE  IInv'
  OBVIOUS
<1>1. ASSUME NEW p \in Path, NEW n \in Node, NEW outcome \in Outcome,
             Install(p, n, outcome)
      PROVE  IInv'
  BY <1>1, InstallIInv
<1>2. ASSUME NEW p \in Path, NEW n \in Node, NEW outcome \in Outcome,
             Reload(p, n, outcome)
      PROVE  IInv'
  BY <1>2, ReloadIInv
<1>3. ASSUME NEW p \in Path, NEW n \in Node, Uninstall(p, n)
      PROVE  IInv'
  BY <1>3, UninstallIInv
<1>4. ASSUME NEW p \in Path, Refuse(p)
      PROVE  IInv'
  BY <1>4 DEF Refuse, vars, IInv, TypeOK, Good, OneNodePerName, IdsGood, IdsAreNew
<1>5. ASSUME NEW n \in Node, Collect(n)
      PROVE  IInv'
  BY <1>5, CollectIInv
<1>6. CASE UNCHANGED vars
  BY <1>6 DEF vars, IInv, TypeOK, Good, OneNodePerName, IdsGood, IdsAreNew
<1> QED
  BY <1>1, <1>2, <1>3, <1>4, <1>5, <1>6 DEF Next

\* The invariant holds in every state.
LEMMA Invariance == Spec => []IInv
BY InitIInv, NextIInv, PTL DEF Spec

-----------------------------------------------------------------------------
(***************************************************************************)
(* Type correctness.                                                       *)
(***************************************************************************)
THEOREM TypeCorrect == Spec => []TypeOK
<1>1. IInv => TypeOK
  BY DEF IInv
<1> QED
  BY <1>1, Invariance, PTL

(***************************************************************************)
(* The watcher has one unit for every listed plugin and no other, although *)
(* a reload that fails drops its node.                                     *)
(***************************************************************************)
THEOREM RegistryCorrect == Spec => []RegistryMatchesWatcher
<1>1. IInv => RegistryMatchesWatcher
  BY DEF IInv, Good, UnitsGood, RegistryMatchesWatcher
<1> QED
  BY <1>1, Invariance, PTL

(***************************************************************************)
(* No two units are made with one id, in any sequence of commands: the     *)
(* ids of all units so far are kept, and plugin_load takes one above them. *)
(***************************************************************************)
THEOREM NewIds == Spec => []IdsAreNew
<1>1. IInv => IdsAreNew
  BY DEF IInv, IdsGood
<1> QED
  BY <1>1, Invariance, PTL

(***************************************************************************)
(* A name finds at most one plugin.                                        *)
(***************************************************************************)
THEOREM NamesAreUnique == Spec => []OneNodePerName
<1>1. IInv => OneNodePerName
  BY DEF IInv
<1> QED
  BY <1>1, Invariance, PTL

(***************************************************************************)
(* What plugin_unload trusts of a plugin it is called for is true.         *)
(***************************************************************************)
THEOREM FlagsCorrect == Spec => []FlagsAreTrue
<1>1. IInv => FlagsAreTrue
  BY DEF IInv, Good, NodesGood, FlagsAreTrue
<1> QED
  BY <1>1, Invariance, PTL

(***************************************************************************)
(* dlopen's counts are those of the nodes' open handles.                   *)
(***************************************************************************)
THEOREM HandlesCorrect == Spec => []HandlesAreCounted
<1>1. IInv => HandlesAreCounted
  BY DEF IInv, Good, HandlesGood, Openers, HandlesAreCounted, HasOpen
<1> QED
  BY <1>1, Invariance, PTL

-----------------------------------------------------------------------------
(***************************************************************************)
(* Descriptions.  The static variables of a file live while some node has  *)
(* it open; a listed node that finds init_flag set has set it itself, or   *)
(* shares the file with a node that is not listed.                         *)
(***************************************************************************)
Shared(r, pa, al, m) == \E k \in Openers(r, pa, al, pa[m]) : k \notin r.head

Desc(r, pa, al) ==
  /\ \A p \in r.init_flag : Openers(r, pa, al, p) # {}
  /\ \A m \in r.head : pa[m] \in r.init_flag
                         => m \in r.described \/ Shared(r, pa, al, m)

CollectedInits == \A m \in reg.head \intersect collected : path[m] \in reg.init_flag

DInv == IInv /\ Desc(reg, path, allocated) /\ CollectedInits

\* No other listed node has the file of node n.
Alone(r, pa, n) == \A m \in r.head \ {n} : pa[m] # pa[n]

\* A file that is mapped more than once has another opener.
LEMMA OtherOpener ==
  ASSUME NEW S \in SUBSET Node, NEW n \in S, Cardinality(S) # 1
  PROVE  \E m \in S : m # n
<1>1. S = {n} => Cardinality(S) = 1
  BY FS_Singleton
<1> QED
  BY <1>1

\* plugin_unload takes init_flag away with the last opener only.
LEMMA UnloadDesc ==
  ASSUME NEW r, NEW pa, NEW al, Good(r, pa, al), Desc(r, pa, al),
         NEW n \in al, pa[n] \in Path, Sound(r, n), Alone(r, pa, n)
  PROVE  LET u == Unload(r, n, pa[n])
         IN  /\ Desc(u, pa, al)
             /\ u.head = r.head \ {n}
             /\ r.init_flag \ {pa[n]} \subseteq u.init_flag
<1> DEFINE u == Unload(r, n, pa[n])
<1>0. n \in Node /\ al \subseteq Node /\ r \in Registry /\ r.head \subseteq al
  BY DEF Good, NodesGood
<1>1. /\ u.head = r.head \ {n}
      /\ u.handler = [r.handler EXCEPT ![n] = FALSE]
      /\ r.init_flag \ {pa[n]} \subseteq u.init_flag
      /\ u.init_flag \subseteq r.init_flag
      /\ r.described \ {n} \subseteq u.described
  BY <1>0 DEF Unload, Sound, ListDel, Registry
<1>2. r.handler[n] /\ pa[n] \in u.init_flag => r.mapped[pa[n]] # 1
  BY <1>0 DEF Unload, Sound
<1> HIDE DEF u
<1>3. ASSUME NEW p, NEW k \in Openers(r, pa, al, p), k # n
      PROVE  k \in Openers(u, pa, al, p)
  BY <1>0, <1>1, <1>3 DEF Openers, Registry
<1>4. ASSUME NEW p \in u.init_flag
      PROVE  Openers(u, pa, al, p) # {}
  <2>1. PICK k \in Openers(r, pa, al, p) : TRUE
    BY <1>1 DEF Desc
  <2>2. CASE k # n
    BY <1>3, <2>2
  <2>3. CASE k = n
    <3>1. p = pa[n] /\ r.handler[n]
      BY <2>3 DEF Openers
    <3>2. Cardinality(Openers(r, pa, al, p)) # 1
      BY <1>2, <3>1 DEF Good, HandlesGood
    <3>3. Openers(r, pa, al, p) \in SUBSET Node
      BY <1>0 DEF Openers
    <3>4. \E m \in Openers(r, pa, al, p) : m # n
      BY <2>3, <3>2, <3>3, OtherOpener
    <3> QED
      BY <1>3, <3>4
  <2> QED
    BY <2>2, <2>3
<1>5. ASSUME NEW m \in u.head, pa[m] \in u.init_flag
      PROVE  m \in u.described \/ Shared(u, pa, al, m)
  <2>1. m \in r.head /\ m # n /\ pa[m] # pa[n]
    BY <1>1 DEF Alone
  <2>2. m \in r.described \/ Shared(r, pa, al, m)
    BY <1>1, <1>5, <2>1 DEF Desc
  <2>3. ASSUME NEW k \in Openers(r, pa, al, pa[m]), k \notin r.head
        PROVE  Shared(u, pa, al, m)
    <3>1. k # n
      BY <2>1 DEF Openers
    <3> QED
      BY <1>1, <1>3, <2>3, <3>1 DEF Shared
  <2> QED
    BY <1>1, <2>1, <2>2, <2>3 DEF Shared
<1>6. Desc(u, pa, al)
  BY <1>4, <1>5 DEF Desc
<1> QED
  BY <1>1, <1>6 DEF u

\* plugin_load lists a node for a file that nobody else, or a node that is
\* not listed, has open.
LEMMA LoadDesc ==
  ASSUME NEW r, NEW pa, NEW al, Good(r, pa, al), Desc(r, pa, al),
         NEW n \in al, n \notin r.head, ~r.handler[n], Alone(r, pa, n),
         NEW outcome \in Outcome
  PROVE  LET l == Load(r, n, pa[n], outcome)
         IN  Desc(l, pa, al) /\ l.init_flag = r.init_flag
<1> DEFINE l == Load(r, n, pa[n], outcome)
<1>0. n \in Node /\ al \subseteq Node /\ r \in Registry /\ r.head \subseteq al
  BY DEF Good, NodesGood
<1>1. /\ l.head \subseteq r.head \union {n}
      /\ \A k \in Node : r.handler[k] => l.handler[k]
      /\ l.init_flag = r.init_flag
      /\ l.described = r.described
  BY <1>0 DEF Load, Registry
<1> HIDE DEF l
<1>2. ASSUME NEW p, NEW k \in Openers(r, pa, al, p)
      PROVE  k \in Openers(l, pa, al, p) /\ k # n
  BY <1>0, <1>1 DEF Openers
<1>3. ASSUME NEW m \in l.head, pa[m] \in l.init_flag
      PROVE  m \in l.described \/ Shared(l, pa, al, m)
  <2>1. CASE m = n
    <3>1. PICK k \in Openers(r, pa, al, pa[n]) : TRUE
      BY <1>1, <1>3, <2>1 DEF Desc
    <3>2. k # n /\ pa[k] = pa[n] /\ k \in Openers(l, pa, al, pa[n])
      BY <1>2 DEF Openers
    <3>3. k \notin l.head
      BY <1>1, <3>2 DEF Alone
    <3> QED
      BY <2>1, <3>2, <3>3 DEF Shared
  <2>2. CASE m # n
    <3>1. m \in r.described \/ Shared(r, pa, al, m)
      BY <1>1, <1>3, <2>2 DEF Desc
    <3>2. Shared(r, pa, al, m) => Shared(l, pa, al, m)
      BY <1>1, <1>2 DEF Shared
    <3> QED
      BY <1>1, <3>1, <3>2
  <2> QED
    BY <2>1, <2>2
<1>4. Desc(l, pa, al)
  BY <1>1, <1>2, <1>3 DEF Desc
<1> QED
  BY <1>1, <1>4 DEF l

\* A node that has nothing open may be freed.
LEMMA FreeDesc ==
  ASSUME NEW r, NEW pa, NEW al, Desc(r, pa, al), NEW n \in al, ~r.handler[n]
  PROVE  Desc(r, pa, al \ {n})
<1>1. \A p : Openers(r, pa, al \ {n}, p) = Openers(r, pa, al, p)
  BY DEF Openers
<1> QED
  BY <1>1 DEF Desc, Shared

\* A new node has nothing open.
LEMMA FreshDesc ==
  ASSUME NEW r, NEW pa, NEW al, Good(r, pa, al), Desc(r, pa, al),
         NEW n \in Node \ al, NEW p \in Path
  PROVE  LET fresh == [r EXCEPT !.load_flags = [@ EXCEPT ![n] = {}],
                                !.id = [@ EXCEPT ![n] = InvalidId]]
         IN  /\ Desc(fresh, [pa EXCEPT ![n] = p], al \union {n})
             /\ fresh.init_flag = r.init_flag
<1> DEFINE fresh == [r EXCEPT !.load_flags = [@ EXCEPT ![n] = {}],
                              !.id = [@ EXCEPT ![n] = InvalidId]]
           pa2   == [pa EXCEPT ![n] = p]
           al2   == al \union {n}
<1>0. /\ r \in Registry
      /\ n \notin r.head
      /\ ~r.handler[n]
      /\ r.head \subseteq al
      /\ al \subseteq Node
      /\ \A m \in Node \ {n} : pa2[m] = pa[m]
  BY DEF Good, NodesGood
<1>1. /\ fresh.head = r.head
      /\ fresh.handler = r.handler
      /\ fresh.init_flag = r.init_flag
      /\ fresh.described = r.described
  BY <1>0 DEF Registry
<1> HIDE DEF fresh, pa2
<1>2. \A q : Openers(fresh, pa2, al2, q) = Openers(r, pa, al, q)
  BY <1>0, <1>1 DEF Openers
<1>3. \A m \in r.head : pa2[m] = pa[m]
  BY <1>0
<1>4. Desc(fresh, pa2, al2)
  BY <1>1, <1>2, <1>3 DEF Desc, Shared
<1> QED
  BY <1>1, <1>4 DEF fresh, pa2

\* The registry starts with nothing mapped.
LEMMA InitDInv == Init => DInv
<1> SUFFICES ASSUME Init PROVE DInv
  OBVIOUS
<1>1. Desc(reg, path, allocated) /\ CollectedInits
  BY DEF Init, Desc, CollectedInits
<1> QED
  BY <1>1, InitIInv DEF DInv

\* A load of a new name: no listed node has its file.
LEMMA InstallDInv ==
  ASSUME DInv, NEW p \in Path, NEW n \in Node, NEW outcome \in Outcome,
         Install(p, n, outcome)
  PROVE  DInv'
<1> DEFINE fresh  == [reg EXCEPT !.load_flags = [@ EXCEPT ![n] = {}],
                                 !.id = [@ EXCEPT ![n] = InvalidId]]
           pa     == [path EXCEPT ![n] = p]
           al     == allocated \union {n}
           loaded == Load(fresh, n, p, outcome)
<1>0. /\ n \in Node \ allocated
      /\ path' = pa
      /\ pa[n] = p
      /\ n \in al
      /\ al \ {n} = allocated
      /\ \A m \in Node \ {n} : pa[m] = path[m]
      /\ reg.head \subseteq allocated
      /\ allocated \subseteq Node
      /\ collected' = collected \ {n}
  BY DEF Install, DInv, IInv, TypeOK, Good, NodesGood
<1>1. /\ Good(fresh, pa, al)
      /\ Desc(fresh, pa, al)
      /\ fresh.head = reg.head
      /\ fresh.init_flag = reg.init_flag
      /\ fresh.load_flags[n] = {}
      /\ ~fresh.handler[n]
      /\ n \notin fresh.head
  <2>1. Good(reg, path, allocated) /\ Desc(reg, path, allocated)
    BY DEF DInv, IInv
  <2>2. LET new == [reg EXCEPT !.load_flags = [@ EXCEPT ![n] = {}],
                               !.id = [@ EXCEPT ![n] = InvalidId]]
        IN  /\ Good(new, [path EXCEPT ![n] = p], allocated \union {n})
            /\ new.head = reg.head
            /\ new.metrics = reg.metrics
            /\ new.plugin_id_inc = reg.plugin_id_inc
            /\ new.load_flags[n] = {}
            /\ ~new.handler[n]
            /\ n \notin new.head
    BY <1>0, <2>1, FreshGood
  <2>3. LET new == [reg EXCEPT !.load_flags = [@ EXCEPT ![n] = {}],
                               !.id = [@ EXCEPT ![n] = InvalidId]]
        IN  /\ Desc(new, [path EXCEPT ![n] = p], allocated \union {n})
            /\ new.init_flag = reg.init_flag
    BY <1>0, <2>1, FreshDesc
  <2> QED
    BY <2>2, <2>3
<1>2. \A m \in reg.head : m # n /\ pa[m] = path[m] /\ pa[m] # p
  BY <1>0 DEF Install, Found
<1>3. reg' = (IF outcome = "ok" THEN loaded ELSE Unload(loaded, n, p))
      /\ allocated' = (IF outcome = "ok" THEN al ELSE allocated)
  BY DEF Install
<1> HIDE DEF fresh, pa, al
<1>4. Alone(fresh, pa, n)
  BY <1>0, <1>1, <1>2 DEF Alone
<1>5. /\ Good(loaded, pa, al)
      /\ loaded.head = IF outcome = "ok" THEN reg.head \union {n} ELSE reg.head
      /\ loaded.load_flags[n] = FlagsOf(outcome)
      /\ loaded.handler[n] <=> outcome # "noent"
      /\ Desc(loaded, pa, al)
      /\ loaded.init_flag = reg.init_flag
  <2>1. pa[n] \in Path /\ n \in al
    BY <1>0
  <2>2. LET l == Load(fresh, n, pa[n], outcome)
        IN  /\ Good(l, pa, al)
            /\ l.head = IF outcome = "ok" THEN fresh.head \union {n}
                                          ELSE fresh.head
            /\ l.load_flags[n] = fresh.load_flags[n] \union FlagsOf(outcome)
            /\ l.handler[n] <=> outcome # "noent"
    <3>1. Good(fresh, pa, al) /\ n \notin fresh.head /\ ~fresh.handler[n]
      BY <1>1
    <3> QED
      BY <2>1, <3>1, LoadGood
  <2>3. LET l == Load(fresh, n, pa[n], outcome)
        IN  Desc(l, pa, al) /\ l.init_flag = fresh.init_flag
    BY <1>1, <1>4, <2>1, LoadDesc
  <2> QED
    BY <1>0, <1>1, <2>2, <2>3
<1> HIDE DEF loaded
<1>6. /\ Desc(reg', pa, allocated')
      /\ reg'.head \subseteq reg.head \union {n}
      /\ reg.init_flag \ {p} \subseteq reg'.init_flag
  <2>1. CASE outcome = "ok"
    BY <1>3, <1>5, <2>1
  <2>2. CASE outcome # "ok"
    <3>1. Sound(loaded, n)
      BY <1>1, <1>5, <2>2 DEF Sound, FlagsOf, Outcome, Flag
    <3>2. Alone(loaded, pa, n)
      BY <1>2, <1>0, <1>5, <2>2 DEF Alone
    <3>3. n \in al /\ pa[n] \in Path /\ reg' = Unload(loaded, n, pa[n])
      BY <1>0, <1>3, <2>2
    <3>4. LET u == Unload(loaded, n, pa[n])
          IN  /\ Desc(u, pa, al)
              /\ u.head = loaded.head \ {n}
              /\ loaded.init_flag \ {pa[n]} \subseteq u.init_flag
      BY <1>5, <3>1, <3>2, <3>3, UnloadDesc
    <3>5. LET u == Unload(loaded, n, pa[n]) IN ~u.handler[n]
      BY <1>5, <3>1, <3>3, UnloadGood
    <3>6. Desc(reg', pa, al \ {n})
      BY <3>3, <3>4, <3>5, FreeDesc
    <3> QED
      BY <1>0, <1>3, <1>5, <2>2, <3>3, <3>4, <3>6
  <2> QED
    BY <2>1, <2>2
<1>7. CollectedInits'
  <2>1. ASSUME NEW m \in reg'.head \intersect collected'
        PROVE  path'[m] \in reg'.init_flag
    <3>1. m \in reg.head \intersect collected
      BY <1>0, <1>6
    <3>2. path[m] \in reg.init_flag /\ path'[m] = path[m] /\ path[m] # p
      BY <1>0, <1>2, <3>1 DEF DInv, CollectedInits
    <3> QED
      BY <1>6, <3>2
  <2> QED
    BY <2>1 DEF CollectedInits
<1>8. IInv'
  BY InstallIInv DEF DInv
<1> QED
  BY <1>0, <1>6, <1>7, <1>8 DEF DInv

\* What a listed node's flags and the names say in the invariant.
LEMMA ListedNode ==
  ASSUME IInv, NEW n \in reg.head
  PROVE  /\ n \in allocated
         /\ path[n] \in Path
         /\ Sound(reg, n)
         /\ Alone(reg, path, n)
BY DEF IInv, Good, NodesGood, Sound, Flag, OneNodePerName, Alone

\* A reload.
LEMMA ReloadDInv ==
  ASSUME DInv, NEW p \in Path, NEW n \in Node, NEW outcome \in Outcome,
         Reload(p, n, outcome)
  PROVE  DInv'
<1> DEFINE unloaded == Unload(reg, n, path[n])
<1>0. /\ n \in reg.head
      /\ path' = path
      /\ allocated' = allocated
      /\ collected' = collected \ {n}
      /\ reg' = Load(unloaded, n, path[n], outcome)
  BY DEF Reload, Found
<1>1. /\ n \in allocated
      /\ path[n] \in Path
      /\ Sound(reg, n)
      /\ Alone(reg, path, n)
  BY <1>0, ListedNode DEF DInv
<1>2. Good(unloaded, path, allocated) /\ ~unloaded.handler[n]
  BY <1>1, UnloadGood DEF DInv, IInv
<1>3. /\ Desc(unloaded, path, allocated)
      /\ unloaded.head = reg.head \ {n}
      /\ reg.init_flag \ {path[n]} \subseteq unloaded.init_flag
  BY <1>1, UnloadDesc DEF DInv, IInv
<1> HIDE DEF unloaded
<1>4. n \notin unloaded.head /\ Alone(unloaded, path, n)
  BY <1>1, <1>3 DEF Alone
<1>5. Desc(reg', path, allocated) /\ reg'.init_flag = unloaded.init_flag
  <2>1. LET l == Load(unloaded, n, path[n], outcome)
        IN  Desc(l, path, allocated) /\ l.init_flag = unloaded.init_flag
    BY <1>1, <1>2, <1>3, <1>4, LoadDesc
  <2> QED
    BY <1>0, <2>1
<1>6. reg'.head \subseteq reg.head
  <2>1. reg'.head \subseteq unloaded.head \union {n}
    BY <1>0 DEF Load
  <2> QED
    BY <1>0, <1>3, <2>1
<1>7. CollectedInits'
  BY <1>0, <1>1, <1>3, <1>5, <1>6 DEF DInv, CollectedInits, Alone
<1>8. IInv'
  BY ReloadIInv DEF DInv
<1> QED
  BY <1>0, <1>5, <1>7, <1>8 DEF DInv

\* An unload.
LEMMA UninstallDInv ==
  ASSUME DInv, NEW p \in Path, NEW n \in Node, Uninstall(p, n)
  PROVE  DInv'
<1>0. /\ n \in reg.head
      /\ path' = path
      /\ allocated' = allocated \ {n}
      /\ collected' = collected
      /\ reg' = Unload(reg, n, path[n])
  BY DEF Uninstall, Found
<1>1. /\ n \in allocated
      /\ path[n] \in Path
      /\ Sound(reg, n)
      /\ Alone(reg, path, n)
  BY <1>0, ListedNode DEF DInv
<1>2. ~reg'.handler[n]
  BY <1>0, <1>1, UnloadGood DEF DInv, IInv
<1>3. /\ Desc(reg', path, allocated)
      /\ reg'.head = reg.head \ {n}
      /\ reg.init_flag \ {path[n]} \subseteq reg'.init_flag
  BY <1>0, <1>1, UnloadDesc DEF DInv, IInv
<1>4. Desc(reg', path, allocated \ {n})
  BY <1>1, <1>2, <1>3, FreeDesc
<1>5. CollectedInits'
  BY <1>0, <1>1, <1>3 DEF DInv, CollectedInits, Alone
<1>6. IInv'
  BY UninstallIInv DEF DInv
<1> QED
  BY <1>0, <1>4, <1>5, <1>6 DEF DInv

\* A collect function that finds init_flag clear sets it and describes.
LEMMA CollectDInv ==
  ASSUME DInv, NEW n \in Node, Collect(n)
  PROVE  DInv'
<1>0. /\ n \in reg.head
      /\ path' = path
      /\ allocated' = allocated
      /\ collected' = collected \union {n}
      /\ reg \in Registry
  BY DEF Collect, DInv, IInv, TypeOK
<1>1. /\ n \in allocated
      /\ reg.handler[n]
      /\ Alone(reg, path, n)
  BY <1>0, ListedNode DEF DInv, IInv, Good, NodesGood
<1>2. /\ reg'.head = reg.head
      /\ reg'.handler = reg.handler
      /\ reg'.init_flag = reg.init_flag \union {path[n]}
      /\ \/ path[n] \in reg.init_flag /\ reg'.described = reg.described
         \/ path[n] \notin reg.init_flag
              /\ reg'.described = reg.described \union {n}
  BY <1>0 DEF Collect, Registry
<1>3. \A q : Openers(reg', path, allocated, q) = Openers(reg, path, allocated, q)
  BY <1>2 DEF Openers
<1>4. n \in Openers(reg, path, allocated, path[n])
  BY <1>1 DEF Openers
<1>5. \A q \in reg'.init_flag : Openers(reg', path, allocated, q) # {}
  BY <1>2, <1>3, <1>4 DEF DInv, Desc
<1>6. ASSUME NEW m \in reg'.head, path[m] \in reg'.init_flag
      PROVE  m \in reg'.described \/ Shared(reg', path, allocated, m)
  <2>1. Shared(reg', path, allocated, m) <=> Shared(reg, path, allocated, m)
    BY <1>2, <1>3 DEF Shared
  <2>2. path[m] \in reg.init_flag
          => m \in reg.described \/ Shared(reg, path, allocated, m)
    BY <1>2 DEF DInv, Desc
  <2>3. m # n => path[m] \in reg.init_flag
    BY <1>1, <1>2, <1>6 DEF Alone
  <2> QED
    BY <1>2, <2>1, <2>2, <2>3
<1>7. Desc(reg', path, allocated)
  BY <1>5, <1>6 DEF Desc
<1>8. CollectedInits'
  BY <1>0, <1>2 DEF DInv, CollectedInits
<1>9. IInv'
  BY CollectIInv DEF DInv
<1> QED
  BY <1>0, <1>7, <1>8, <1>9 DEF DInv

\* The strengthened invariant is inductive.
LEMMA NextDInv == DInv /\ [Next]_vars => DInv'
<1> SUFFICES ASSUME DInv, [Next]_vars PROVE DInv'
  OBVIOUS
<1>1. ASSUME NEW p \in Path, Refuse(p) PROVE DInv'
  BY <1>1, NextIInv DEF Refuse, vars, DInv, Desc, CollectedInits
<1>2. CASE UNCHANGED vars
  BY <1>2, NextIInv DEF vars, DInv, Desc, CollectedInits
<1> QED
  BY <1>1, <1>2, InstallDInv, ReloadDInv, UninstallDInv, CollectDInv DEF Next

(***************************************************************************)
(* A plugin that describes its items once publishes undescribed items only *)
(* while a node nobody can find has its file open.                         *)
(***************************************************************************)
THEOREM DescribedCorrect == Spec => []UndescribedIsLost
<1>1. Spec => []DInv
  BY InitDInv, NextDInv, PTL DEF Spec
<1>2. DInv => UndescribedIsLost
  BY DEF DInv, IInv, Good, Desc, Shared, Openers, CollectedInits,
         UndescribedIsLost, Lost, HasOpen
<1> QED
  BY <1>1, <1>2, PTL
=============================================================================
