----------------------------- MODULE PluginMgr -----------------------------
(***************************************************************************)
(* The plugin manager (core/plugin_mgr.c): the registry of plugins, and    *)
(* the commands of the client that the plugin thread executes one after    *)
(* the other with plugin_parser.  Beside the registry the commands change  *)
(* the watcher's units (Metric has the threads that work on these) and the *)
(* shared objects that dlopen maps into the process.                       *)
(*                                                                         *)
(* A Path stands for the file with the argv that plugin_parser stores next *)
(* to it (lines 133-135).  A Node is the memory of a plugin_t; malloc may  *)
(* return any free one, and what nobody points to any more stays taken.    *)
(*                                                                         *)
(* A plugin's item values are malloc'ed at every load.  The plugin guide   *)
(* (doc, 2.1 and 2.3) has the collect functions fill in the names, types   *)
(* and units of the items once only, with a static init_flag; the plugins  *)
(* here do as the guide says.                                              *)
(***************************************************************************)
EXTENDS Integers, FiniteSets, Sequences

CONSTANTS Path,       \* the plugin files that clients name
          NameOf,     \* the plugin name in a path: libXXXX.so is XXXX
          NoPath,
          Node,       \* the plugin_t's there is memory for
          MaxId       \* bound on the plugin ids a run gives out

ASSUME PathAssumption == NoPath \notin Path
ASSUME NodeAssumption == IsFiniteSet(Node)
ASSUME MaxIdAssumption == MaxId \in Nat

VARIABLES
  reg,         \* the registry and what it has changed outside (see Registry)
  path,        \* plugin_t.path; what a node had is kept when it is freed
  allocated,   \* the nodes malloc has given out and nobody has freed
  collected,   \* the nodes a collect function has run for since their load
  given        \* history: the ids that units were made with, in their order

vars == <<reg, path, allocated, collected, given>>

Flag == {"DLOPEN", "INIT", "VERS_CHECK"}
InvalidId == 0

Registry == [
  head          : SUBSET Node,           \* the nodes in mgr->head
  plugins       : Nat,
  plugin_id_inc : Nat,
  id            : [Node -> Nat],
  load_flags    : [Node -> SUBSET Flag],
  handler       : [Node -> BOOLEAN],     \* plugin_t.handler is not NULL
  metrics       : SUBSET Nat,            \* the ids of the watcher's units
  mapped        : [Path -> Nat],         \* dlopen's reference counts
  init_flag     : SUBSET Path,           \* mapped files with init_flag set
  described     : SUBSET Node            \* nodes whose items have names
]

\* How plugin_load can end: the file cannot be opened, the plugin's init
\* function fails, the plugin is of another release, or all is well.
Outcome == {"noent", "init", "version", "ok"}

TypeOK ==
  /\ reg \in Registry
  /\ path \in [Node -> Path \union {NoPath}]
  /\ allocated \subseteq Node
  /\ collected \subseteq Node
  /\ given \in Seq(Nat)

Init ==
  /\ reg = [head |-> {}, plugins |-> 0, plugin_id_inc |-> 1,
            id |-> [n \in Node |-> InvalidId],
            load_flags |-> [n \in Node |-> {}],
            handler |-> [n \in Node |-> FALSE],
            metrics |-> {},
            mapped |-> [p \in Path |-> 0],
            init_flag |-> {},
            described |-> {}]
  /\ path = [n \in Node |-> NoPath]
  /\ allocated = {}
  /\ collected = {}
  /\ given = <<>>

-----------------------------------------------------------------------------
(***************************************************************************)
(* plugin_load of node n with file p.  Each stage that is passed sets its  *)
(* flag; the last one puts the node in the list and makes the unit.        *)
(***************************************************************************)
FlagsOf(outcome) ==
  CASE outcome = "noent"   -> {}
    [] outcome = "init"    -> {"DLOPEN"}
    [] outcome = "version" -> {"DLOPEN", "INIT"}
    [] outcome = "ok"      -> Flag

\* Mutant: ids are taken from the number of plugins.
IdFromCount(r) == r.plugins + 1

\* The id of the next plugin.
NewId(r) == r.plugin_id_inc

Load(r, n, p, outcome) ==
  LET opened == outcome # "noent"
      ok     == outcome = "ok"
      id     == NewId(r)
  IN  [head          |-> IF ok THEN r.head \union {n} ELSE r.head,
       plugins       |-> IF ok THEN r.plugins + 1 ELSE r.plugins,
       plugin_id_inc |-> IF opened THEN r.plugin_id_inc + 1
                                   ELSE r.plugin_id_inc,
       id            |-> IF opened THEN [r.id EXCEPT ![n] = id] ELSE r.id,
       load_flags    |-> [r.load_flags EXCEPT
                            ![n] = @ \union FlagsOf(outcome)],
       handler       |-> [r.handler EXCEPT ![n] = opened],
       metrics       |-> IF ok THEN r.metrics \union {id} ELSE r.metrics,
       mapped        |-> IF opened THEN [r.mapped EXCEPT ![p] = @ + 1]
                                   ELSE r.mapped,
       init_flag     |-> r.init_flag,
       described     |-> r.described]

\* Mutant: the node stays in the list.
ListKeep(head, n) == head

ListDel(head, n) == head \ {n}

(***************************************************************************)
(* plugin_unload of node n with file p does what the flags say.  It leaves *)
(* the flags as they are.  dlclose unmaps a file, and its static variables *)
(* with it, when nobody else has it open.                                  *)
(***************************************************************************)
Unload(r, n, p) ==
  LET listed == "VERS_CHECK" \in r.load_flags[n]
      closes == "DLOPEN" \in r.load_flags[n]
  IN  [head          |-> IF listed THEN ListDel(r.head, n) ELSE r.head,
       plugins       |-> IF listed THEN r.plugins - 1 ELSE r.plugins,
       plugin_id_inc |-> r.plugin_id_inc,
       id            |-> IF listed THEN [r.id EXCEPT ![n] = InvalidId]
                                   ELSE r.id,
       load_flags    |-> r.load_flags,
       handler       |-> [r.handler EXCEPT ![n] = FALSE],
       metrics       |-> IF listed THEN r.metrics \ {r.id[n]} ELSE r.metrics,
       mapped        |-> IF closes THEN [r.mapped EXCEPT ![p] = @ - 1]
                                   ELSE r.mapped,
       init_flag     |-> IF closes /\ r.mapped[p] = 1 THEN r.init_flag \ {p}
                                                      ELSE r.init_flag,
       described     |-> IF listed THEN r.described \ {n} ELSE r.described]

-----------------------------------------------------------------------------
(***************************************************************************)
(* plugin_parser: a command finds its plugin by name.                      *)
(***************************************************************************)
\* Mutant: plugins are told apart by their paths.
FoundByPath(p) == {n \in reg.head : path[n] = p}

Found(p) == {n \in reg.head : NameOf[path[n]] = NameOf[p]}

HasIds == reg.plugin_id_inc =< MaxId

\* A load of node n that succeeds has made a unit.
Recorded(n, outcome) ==
  given' = IF outcome = "ok" THEN Append(given, reg'.id[n]) ELSE given

\* Mutant: a node whose load has failed is freed without an unload.
InstallForgets(p, n, outcome) ==
  /\ HasIds
  /\ Found(p) = {}
  /\ n \notin allocated
  /\ path' = [path EXCEPT ![n] = p]
  /\ LET fresh  == [reg EXCEPT !.load_flags = [@ EXCEPT ![n] = {}],
                               !.id = [@ EXCEPT ![n] = InvalidId]]
     IN  reg' = Load(fresh, n, p, outcome)
  /\ allocated' = IF outcome = "ok" THEN allocated \union {n} ELSE allocated
  /\ Recorded(n, outcome)
  /\ collected' = collected \ {n}

\* "load" of a name that is not there: a new node, thrown away when the load
\* fails.
Install(p, n, outcome) ==
  /\ HasIds
  /\ Found(p) = {}
  /\ n \notin allocated
  /\ path' = [path EXCEPT ![n] = p]
  /\ LET fresh  == [reg EXCEPT !.load_flags = [@ EXCEPT ![n] = {}],
                               !.id = [@ EXCEPT ![n] = InvalidId]]
         loaded == Load(fresh, n, p, outcome)
     IN  IF outcome = "ok"
         THEN /\ reg' = loaded
              /\ allocated' = allocated \union {n}
         ELSE /\ reg' = Unload(loaded, n, p)
              /\ UNCHANGED allocated
  /\ Recorded(n, outcome)
  /\ collected' = collected \ {n}

\* Mutant: a reload that fails is cleaned up like a load that fails.
ReloadCleaned(p, n, outcome) ==
  /\ HasIds
  /\ n \in Found(p)
  /\ LET loaded == Load(Unload(reg, n, path[n]), n, path[n], outcome)
     IN  IF outcome = "ok"
         THEN reg' = loaded /\ UNCHANGED allocated
         ELSE /\ reg' = Unload(loaded, n, path[n])
              /\ allocated' = allocated \ {n}
  /\ Recorded(n, outcome)
  /\ collected' = collected \ {n}
  /\ UNCHANGED path

\* "reload" of a plugin, and "load" of one that is there already: both load
\* the file and argv the node has, not those of the command, and nobody looks
\* at the outcome.
Reload(p, n, outcome) ==
  /\ HasIds
  /\ n \in Found(p)
  /\ reg' = Load(Unload(reg, n, path[n]), n, path[n], outcome)
  /\ Recorded(n, outcome)
  /\ collected' = collected \ {n}
  /\ UNCHANGED <<path, allocated>>

\* "unload" of a plugin.
Uninstall(p, n) ==
  /\ n \in Found(p)
  /\ reg' = Unload(reg, n, path[n])
  /\ allocated' = allocated \ {n}
  /\ UNCHANGED <<path, collected, given>>

\* "unload" and "reload" of a name that is not there are refused.
Refuse(p) == Found(p) = {} /\ UNCHANGED vars

(***************************************************************************)
(* The update thread runs a collect function of a plugin with a unit.      *)
(***************************************************************************)
Collect(n) ==
  /\ n \in reg.head
  /\ reg.id[n] \in reg.metrics
  /\ reg' = IF path[n] \in reg.init_flag THEN reg
            ELSE [reg EXCEPT !.init_flag = @ \union {path[n]},
                             !.described = @ \union {n}]
  /\ collected' = collected \union {n}
  /\ UNCHANGED <<path, allocated, given>>

Next ==
  \/ \E p \in Path, n \in Node :
       \/ \E outcome \in Outcome :
            \/ Install(p, n, outcome)
            \/ Reload(p, n, outcome)
       \/ Uninstall(p, n)
  \/ \E p \in Path : Refuse(p)
  \/ \E n \in Node : Collect(n)

Spec == Init /\ [][Next]_vars

-----------------------------------------------------------------------------
(***************************************************************************)
(* The registry and the watcher agree: the watcher has exactly one unit    *)
(* for every listed plugin, and plugins counts them.  Unloading one plugin *)
(* never takes the unit of another with it.                                *)
(***************************************************************************)
RegistryMatchesWatcher ==
  /\ reg.metrics = {reg.id[n] : n \in reg.head}
  /\ \A m, n \in reg.head : reg.id[m] = reg.id[n] => m = n
  /\ reg.plugins = Cardinality(reg.head)

(***************************************************************************)
(* No two units are ever made with one id, not the units of one plugin     *)
(* before and after a reload either, however many loads fail in between.   *)
(* Metric takes that for granted: _del_metric finds units by their id, and *)
(* a reader of the list could take a new unit for the old one.             *)
(***************************************************************************)
IdsAreNew ==
  \A i, j \in DOMAIN given : given[i] = given[j] => i = j

(***************************************************************************)
(* plugin_search_by_name never has a choice.                               *)
(***************************************************************************)
OneNodePerName ==
  \A m, n \in reg.head : NameOf[path[m]] = NameOf[path[n]] => m = n

(***************************************************************************)
(* load_flags, which plugin_unload trusts and never clears, are right for  *)
(* every node a command can still find: the node is in the list, was       *)
(* initialised, and has its library open.  Otherwise plugin_unload would   *)
(* delete it from the list twice or close a library twice.                 *)
(***************************************************************************)
FlagsAreTrue ==
  \A n \in reg.head :
    n \in allocated /\ reg.load_flags[n] = Flag /\ reg.handler[n]

(***************************************************************************)
(* A file is mapped as often as nodes have it open: the collect functions  *)
(* of a listed plugin are there, whatever happened to other plugins.       *)
(***************************************************************************)
HasOpen(n, p) == reg.handler[n] /\ path[n] = p

HandlesAreCounted ==
  \A p \in Path :
    reg.mapped[p] = Cardinality({n \in allocated : HasOpen(n, p)})

-----------------------------------------------------------------------------
(***************************************************************************)
(* The guide advises to fill in the description of the items once, under a *)
(* static init_flag.  A plugin that does so publishes items without a      *)
(* description in one case only: a reload that failed has left its file    *)
(* mapped by a node that nobody can find any more, so that init_flag       *)
(* outlives the next unload.                                               *)
(***************************************************************************)
Lost(p) == \E n \in allocated \ reg.head : HasOpen(n, p)

UndescribedIsLost ==
  \A n \in (reg.head \intersect collected) \ reg.described : Lost(path[n])
============================================================================
