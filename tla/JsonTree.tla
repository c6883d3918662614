------------------------------ MODULE JsonTree ------------------------------
(***************************************************************************)
(* What the tree functions of cJSON (core/cJSON.c, include/cJSON.h)        *)
(* promise their caller: every array and every object is a sequence of     *)
(* items, an item is in one sequence or in the caller's hands, and a call  *)
(* changes one sequence in one place.  CJsonTree, the linked lists of the  *)
(* code, is shown to implement this.                                       *)
(***************************************************************************)
EXTENDS Naturals, Sequences, SequencesExt

CONSTANT Item           \* the memory there is for items

VARIABLES
  live,                 \* the items that have been allocated and not freed
  kids,                 \* the items of an array or an object, in their order
  held,                 \* the items that the caller has to add or to delete
  running               \* the program has not stopped in a call

tree == <<live, kids, held>>
vars == <<live, kids, held, running>>

\* i and the items below it.
Tree(k, i) ==
  LET to == [j \in Item |-> ToSet(k[j])]
      Below[n \in Nat] ==
        IF n = 0 THEN {i} ELSE UNION {{j} \cup to[j] : j \in Below[n - 1]}
  IN  Below[Cardinality(Item)]

Init == live = {} /\ kids = [i \in Item |-> <<>>] /\ held = {} /\ running = TRUE

(***************************************************************************)
(* The caller gets a new tree (a single item, an array of numbers, a       *)
(* copy): memory that was free, and nothing else is touched.               *)
(***************************************************************************)
Make(r) ==
  /\ held' = held \cup {r}
  /\ LET new == Tree(kids', r)
     IN  /\ new \cap live = {}
         /\ live' = live \cup new
         /\ \A i \in Item \ new : kids'[i] = kids[i]

\* The caller's item i, or a new one, becomes the p-th of c.
Insert(c, p, i) ==
  /\ i \in held \/ i \notin live
  /\ held' = held \ {i} /\ live' = live \cup {i}
  /\ p \in 1 .. Len(kids[c]) + 1 /\ c \in live \ Tree(kids, i)
  /\ kids' = [kids EXCEPT ![c] = InsertAt(@, p, i)]

\* The caller takes the p-th item out of c.
TakeOut(c, p) ==
  /\ p \in DOMAIN kids[c]
  /\ held' = held \cup {kids[c][p]} /\ UNCHANGED live
  /\ kids' = [kids EXCEPT ![c] = RemoveAt(@, p)]

\* i and all below it is freed; what is left of the sequences is k.
Forget(k, i) ==
  LET old == Tree(kids, i)
  IN  /\ live' = live \ old
      /\ kids' = [j \in Item |-> IF j \in old THEN <<>> ELSE k[j]]

\* The p-th item of c is deleted.
DeleteAt(c, p) ==
  /\ p \in DOMAIN kids[c]
  /\ UNCHANGED held
  /\ Forget([kids EXCEPT ![c] = RemoveAt(@, p)], kids[c][p])

\* The caller's item i takes the place of the p-th item of c, which is deleted.
Replace(c, p, i) ==
  /\ i \in held /\ held' = held \ {i}
  /\ p \in DOMAIN kids[c] /\ c \notin Tree(kids, i)
  /\ Forget([kids EXCEPT ![c] = ReplaceAt(@, p, i)], kids[c][p])

\* The caller deletes its item i.
Delete(i) ==
  /\ i \in held
  /\ held' = held \ {i}
  /\ Forget(kids, i)

\* Memory is lost: i is nobody's.
Leak(i) ==
  /\ i \notin live
  /\ live' = live \cup {i}
  /\ UNCHANGED <<kids, held>>

\* What a call does that returns.
Change ==
  \/ \E i \in Item : Make(i) \/ Delete(i) \/ Leak(i)
  \/ \E c \in live, p \in 1 .. Cardinality(Item) :
       \/ TakeOut(c, p) \/ DeleteAt(c, p)
       \/ \E i \in Item : Insert(c, p, i) \/ Replace(c, p, i)

(***************************************************************************)
(* The exception to all that: a call to make an array of numbers or of     *)
(* strings may stop the program, and that is the end.                      *)
(***************************************************************************)
Stop == running' = FALSE /\ UNCHANGED tree

Next ==
  /\ running
  /\ \/ Change /\ UNCHANGED running
     \/ Stop

Spec == Init /\ [][Next]_vars
=============================================================================
