----------------------------- MODULE CJsonTree -----------------------------
(***************************************************************************)
(* The trees of core/cJSON.c as they lie in memory, and the calls that     *)
(* change them.  The items of a container are a list: the container points *)
(* at the first, next leads to the last, and prev leads back, with the     *)
(* exception that prev of the first item is the last one.  A reference is  *)
(* an item that shows another container's list and does not own it.        *)
(*                                                                         *)
(* Any memory allocation may fail.  One call does not survive that: an     *)
(* array of numbers or strings without memory for the array itself, or of  *)
(* none of them, follows a null pointer, and the program stops (running).  *)
(*                                                                         *)
(* The caller keeps to the rules of include/cJSON.h: it adds what it holds, *)
(* it deletes what it holds, and it neither frees nor moves the head of a  *)
(* list that a reference shows.                                            *)
(***************************************************************************)
EXTENDS Naturals, Sequences, FiniteSets, SequencesExt

CONSTANTS Item,         \* the memory there is for items
          NoItem,       \* the null pointer
          Name, NoName, \* keys of objects
          Fold,         \* a name in lower case
          MaxHeld,      \* bound: the items that the caller holds at a time
          MaxReferences,        \* bound: the references
          MaxConstant           \* bound: the items with a constant key

ASSUME ItemAssumption == IsFiniteSet(Item) /\ NoItem \notin Item
ASSUME NameAssumption == NoName \notin Name

VARIABLES heap,         \* what is in the memory of each item
          held,         \* the items that the caller has to add or to delete
          running       \* no call has followed a null pointer

vars == <<heap, held, running>>

(***************************************************************************)
(* The fields of an item.  A leaf is an array that stays empty: no call    *)
(* below looks at the type.  ref and constant are cJSON_IsReference and    *)
(* cJSON_StringIsConst; copied says that cJSON allocated the name.         *)
(***************************************************************************)
Cell == [type : {"free", "array", "object"}, ref : BOOLEAN,
         name : Name \cup {NoName}, constant : BOOLEAN, copied : BOOLEAN,
         next : Item \cup {NoItem}, prev : Item \cup {NoItem},
         child : Item \cup {NoItem}]

NewItem(t) ==
  [type |-> t, ref |-> FALSE, name |-> NoName, constant |-> FALSE,
   copied |-> FALSE, next |-> NoItem, prev |-> NoItem, child |-> NoItem]

Live == {i \in Item : heap[i].type # "free"}
Unused == Item \ Live

Init == /\ heap = [i \in Item |-> NewItem("free")]
        /\ held = {}
        /\ running = TRUE
----------------------------------------------------------------------------
(* Walks. *)

\* The list of c, as far as next leads (none is longer than the memory).
Kids(h, c) ==
  LET from[x \in Nat \X (Item \cup {NoItem})] ==
        IF x[1] = 0 \/ x[2] = NoItem THEN <<>>
        ELSE <<x[2]>> \o from[<<x[1] - 1, h[x[2]].next>>]
  IN  from[<<Cardinality(Item) + 1, h[c].child>>]

\* All that a walk from the items s meets that goes on from i to the items to[i].
Reached(to, s) ==
  LET met[n \in Nat] ==
        IF n = 0 THEN s ELSE UNION {{i} \cup to[i] : i \in met[n - 1]}
  IN  met[Cardinality(Item)]

\* The items that each item owns, and those that it shows.
Owned(h) == [c \in Item |-> IF h[c].ref THEN <<>> ELSE Kids(h, c)]
Below(h, s) == LET own == Owned(h) IN Reached([c \in Item |-> ToSet(own[c])], s)
Visible(h, s) == Reached([c \in Item |-> ToSet(Kids(h, c))], s)

Tree(i) == Below(heap, {i})
Attached == Below(heap, held)

GetArraySize(h, c) == Len(Kids(h, c))

GetArrayItem(h, c, p) == IF p \in DOMAIN Kids(h, c) THEN Kids(h, c)[p] ELSE NoItem

\* A search with case ends at an item without a name, one without case goes on.
GetObjectItem(h, c, n, case) ==
  LET s == Kids(h, c)
      found == {p \in DOMAIN s :
                  IF case THEN h[s[p]].name \in {n, NoName}
                  ELSE h[s[p]].name # NoName /\ Fold[h[s[p]].name] = Fold[n]}
  IN  IF found = {} \/ h[s[Min(found)]].name = NoName THEN NoItem
      ELSE s[Min(found)]
----------------------------------------------------------------------------
(* The functions on the lists, as functions of the memory. *)

SuffixObject(h, p, i) == [h EXCEPT ![p].next = i, ![i].prev = p]

\* Mutant: the head does not learn the new end.
AddItemToArrayStale(h, c, i) ==
  LET first == h[c].child
  IN  IF first = NoItem
      THEN [h EXCEPT ![c].child = i, ![i].prev = i, ![i].next = NoItem]
      ELSE SuffixObject(h, h[first].prev, i)

AddItemToArray(h, c, i) ==
  LET first == h[c].child
  IN  IF first = NoItem
      THEN [h EXCEPT ![c].child = i, ![i].prev = i, ![i].next = NoItem]
      ELSE IF h[first].prev = NoItem THEN h
      ELSE [SuffixObject(h, h[first].prev, i) EXCEPT ![first].prev = i]

SetKey(h, i, n, const) ==
  [h EXCEPT ![i].name = n, ![i].constant = const, ![i].copied = ~const]

\* Mutant: the head does not learn that the last item is another one.
DetachStale(h, c, i) ==
  LET first == h[c].child = i
      h1 == IF first THEN h ELSE [h EXCEPT ![h[i].prev].next = h[i].next]
      h2 == IF h1[i].next = NoItem THEN h1
            ELSE [h1 EXCEPT ![h1[i].next].prev = h1[i].prev]
      h3 == IF first THEN [h2 EXCEPT ![c].child = h2[i].next] ELSE h2
  IN  [h3 EXCEPT ![i].prev = NoItem, ![i].next = NoItem]

DetachItemViaPointer(h, c, i) ==
  LET first == h[c].child = i
      h1 == IF first THEN h ELSE [h EXCEPT ![h[i].prev].next = h[i].next]
      h2 == IF h1[i].next = NoItem THEN h1
            ELSE [h1 EXCEPT ![h1[i].next].prev = h1[i].prev]
      h3 == IF first THEN [h2 EXCEPT ![c].child = h2[i].next]
            ELSE IF h2[i].next # NoItem THEN h2
            ELSE [h2 EXCEPT ![h2[c].child].prev = h2[i].prev]
  IN  [h3 EXCEPT ![i].prev = NoItem, ![i].next = NoItem]

\* Mutant: one place too far.
InsertAfter(h, c, p, i) ==
  LET after == GetArrayItem(h, c, p + 1)
      h1 == [h EXCEPT ![i].next = after, ![i].prev = h[after].prev,
                      ![after].prev = i]
  IN  IF after = NoItem THEN AddItemToArray(h, c, i)
      ELSE [h1 EXCEPT ![h1[i].prev].next = i]

InsertItemInArray(h, c, p, i) ==
  LET after == GetArrayItem(h, c, p)
      h1 == [h EXCEPT ![i].next = after, ![i].prev = h[after].prev,
                      ![after].prev = i]
  IN  IF after = NoItem THEN AddItemToArray(h, c, i)
      ELSE IF after = h[c].child THEN [h1 EXCEPT ![c].child = i]
      ELSE [h1 EXCEPT ![h1[i].prev].next = i]

\* Mutant: what a reference shows is freed with it.
FreeAll(h, i) ==
  LET to == [j \in Item |-> {h[j].next, h[j].child} \ {NoItem}]
  IN  [j \in Item |-> IF j \in Reached(to, {i}) THEN NewItem("free") ELSE h[j]]

\* cJSON_Delete: i, the items that follow it, and all that they own.
Freed(h, i) ==
  Reached([j \in Item |-> {h[j].next, IF h[j].ref THEN NoItem ELSE h[j].child} \ {NoItem}], {i})

Free(h, i) == [j \in Item |-> IF j \in Freed(h, i) THEN NewItem("free") ELSE h[j]]

\* i gets the neighbours of old, and the one behind gets i.
StandIn(h, old, i) ==
  LET h1 == [h EXCEPT ![i].next = h[old].next, ![i].prev = h[old].prev]
  IN  IF h1[i].next = NoItem THEN h1 ELSE [h1 EXCEPT ![h1[i].next].prev = i]

ReplaceItemViaPointer(h, c, old, i) ==
  LET h2 == StandIn(h, old, i)
      first == h2[c].child = old
      h3 == IF first /\ h2[old].prev = old THEN [h2 EXCEPT ![i].prev = i] ELSE h2
      h4 == IF first THEN [h3 EXCEPT ![c].child = i]
            ELSE IF h3[i].prev = NoItem THEN h3
            ELSE [h3 EXCEPT ![h3[i].prev].next = i]
      h5 == IF ~first /\ h4[i].next = NoItem THEN [h4 EXCEPT ![h4[c].child].prev = i]
            ELSE h4
  IN  Free([h5 EXCEPT ![old].next = NoItem, ![old].prev = NoItem], old)

\* The new items s are linked to a list of n, the p-th with the contents cells[p].
\* The head learns the end last, in Close.
Chain(h, n, s, cells) ==
  [j \in Item |->
     IF j = n /\ s # <<>> THEN [h[n] EXCEPT !.child = s[1]]
     ELSE IF j \notin ToSet(s) THEN h[j]
     ELSE LET p == CHOOSE p \in DOMAIN s : s[p] = j
          IN  [cells[p] EXCEPT !.next = IF p = Len(s) THEN NoItem ELSE s[p + 1],
                               !.prev = IF p = 1 THEN NoItem ELSE s[p - 1]]]

Close(h, s) == IF s = <<>> THEN h ELSE [h EXCEPT ![s[1]].prev = Last(s)]

\* What is copied of an item itself.
CopyOf(h, j) ==
  [NewItem(h[j].type) EXCEPT !.name = h[j].name, !.constant = h[j].constant,
                             !.copied = h[j].name # NoName /\ ~h[j].constant]

\* Mutant: references are copied without what they show.
CopyOwned(h, s, m, n) ==
  LET kids == Owned(h)[m.of[n]]
      new == SubSeq(s, Len(m.of) + 1, Min({Len(s), Len(m.of) + Len(kids)}))
      chain == Chain(m.h, s[n], new, [p \in DOMAIN new |-> CopyOf(h, kids[p])])
  IN  IF ~m.ok \/ n > Len(m.of) THEN m
      ELSE IF Len(new) = Len(kids)
      THEN [m EXCEPT !.h = Close(chain, new), !.of = @ \o kids]
      ELSE [m EXCEPT !.h = Free(chain, s[1]), !.ok = FALSE]

\* The kids of the n-th item that has been copied are copied to a list of the copy.
\* When there is no memory for all, everything is freed.
CopyKids(h, s, m, n) ==
  LET kids == Kids(h, m.of[n])
      new == SubSeq(s, Len(m.of) + 1, Min({Len(s), Len(m.of) + Len(kids)}))
      chain == Chain(m.h, s[n], new, [p \in DOMAIN new |-> CopyOf(h, kids[p])])
  IN  IF ~m.ok \/ n > Len(m.of) THEN m
      ELSE IF Len(new) = Len(kids)
      THEN [m EXCEPT !.h = Close(chain, new), !.of = @ \o kids]
      ELSE [m EXCEPT !.h = Free(chain, s[1]), !.ok = FALSE]

(***************************************************************************)
(* cJSON_Duplicate of i, if malloc has the items s to give: [h, of, ok] is *)
(* the memory, the items that the first items of s are copies of, and      *)
(* whether there was enough.  The code copies what is below a kid before   *)
(* the next kid; it takes the same memory and gives it back in any order.  *)
(***************************************************************************)
Copy(h, i, recurse, s) ==
  LET one == [h |-> [h EXCEPT ![s[1]] = CopyOf(h, i)], of |-> <<i>>, ok |-> TRUE]
      all[n \in Nat] == IF n = 0 THEN one ELSE CopyKids(h, s, all[n - 1], n)
  IN  IF s = <<>> THEN [h |-> h, of |-> <<>>, ok |-> FALSE]
      ELSE IF recurse THEN all[Len(s)] ELSE one
----------------------------------------------------------------------------
(* What the caller may do. *)

\* The heads of the lists that references show.
Shown == {heap[r].child : r \in {j \in Attached : heap[j].ref}} \ {NoItem}

\* Items may be put in front of, or taken from, the list of c.
MayChange(c) == c \in Attached /\ ~heap[c].ref /\ heap[c].child \notin Shown

\* i may come into c: c would not contain itself, not through a reference either.
MayContain(c, i) ==
  /\ c \in Attached /\ ~heap[c].ref
  /\ {c, heap[c].child} \cap Visible(heap, {i}) = {}

\* i may be freed: only references that are freed with it show what is below it.
MayFree(i) ==
  \A r \in Attached \ Tree(i) : heap[r].ref => heap[r].child \notin Tree(i)

Is(c, t) == heap[c].type = t
----------------------------------------------------------------------------
(* The calls. *)

\* cJSON_CreateNull and its like.
Create(i, t) ==
  /\ /\ i \in Unused
  /\ heap' = [heap EXCEPT ![i] = NewItem(t)]
  /\ held' = held \cup {i}

\* cJSON_CreateArrayReference, cJSON_CreateObjectReference.
CreateReference(r, c) ==
  /\ /\ r \in Unused /\ c \in Attached /\ heap[c].child # NoItem
  /\ heap' = [heap EXCEPT ![r] = [NewItem(heap[c].type) EXCEPT
                                    !.ref = TRUE, !.child = heap[c].child]]
  /\ held' = held \cup {r}

(***************************************************************************)
(* cJSON_CreateIntArray and its like, with the memory s: the numbers are   *)
(* linked by hand, and at the end the head of the list learns the last,    *)
(* a->child->prev = n.  There may be no array a, or no number in it: then  *)
(* this follows a null pointer.  What a program that stops leaves behind   *)
(* is not looked at.                                                       *)
(***************************************************************************)
CreateNumbers(s) ==
  /\ ToSet(s) \subseteq Unused
  /\ \/ /\ s # <<>>
        /\ LET a == Head(s)
               numbers == Tail(s)
               chain == Chain([heap EXCEPT ![a] = NewItem("array")], a, numbers,
                              [p \in DOMAIN numbers |-> NewItem("array")])
           IN  \/ /\ numbers # <<>>
                  /\ heap' = Close(chain, numbers)
                  /\ held' = held \cup {a}
               \/ /\ heap' = Free(chain, a)        \* no memory for one more
                  /\ UNCHANGED held
        /\ UNCHANGED running
     \/ /\ Len(s) <= 1                 \* no memory for a, or a count of 0
        /\ running' = FALSE
        /\ UNCHANGED <<heap, held>>

\* cJSON_AddItemToArray.
AddToArray(c, i) ==
  /\ i \in held /\ Is(c, "array") /\ MayContain(c, i)
  /\ heap' = AddItemToArray(heap, c, i)
  /\ held' = held \ {i}

\* cJSON_AddItemToObject, cJSON_AddItemToObjectCS (const).
AddToObject(c, n, i, const) ==
  /\ i \in held /\ Is(c, "object") /\ MayContain(c, i)
  /\ \/ /\ heap' = AddItemToArray(SetKey(heap, i, n, const), c, i)
        /\ held' = held \ {i}
     \/ /\ ~const                         \* no memory for the key
        /\ UNCHANGED <<heap, held>>

\* cJSON_AddNullToObject and its like.
AddNewToObject(c, n, i, t) ==
  LET h1 == [heap EXCEPT ![i] = NewItem(t)]
  IN  /\ i \in Unused /\ c \in Attached /\ ~heap[c].ref /\ Is(c, "object")
      /\ \/ heap' = AddItemToArray(SetKey(h1, i, n, FALSE), c, i)
         \/ heap' = Free(h1, i)              \* no memory for the key
      /\ UNCHANGED held

\* What create_reference makes of the item j.
Reference(j) == [heap[j] EXCEPT !.ref = TRUE, !.name = NoName, !.copied = FALSE,
                                !.next = NoItem, !.prev = NoItem]

\* cJSON_AddItemReferenceToArray.
AddReferenceToArray(c, j, r) ==
  /\ r \in Unused /\ Is(c, "array") /\ j \in Attached /\ MayContain(c, j)
  /\ \/ heap' = AddItemToArray([heap EXCEPT ![r] = Reference(j)], c, r)
     \/ UNCHANGED heap
  /\ UNCHANGED held

\* cJSON_AddItemReferenceToObject: without memory for the key, the reference stays.
AddReferenceToObject(c, n, j, r) ==
  LET h1 == [heap EXCEPT ![r] = Reference(j)]
  IN  /\ r \in Unused /\ Is(c, "object") /\ j \in Attached /\ MayContain(c, j)
      /\ \/ heap' = AddItemToArray(SetKey(h1, r, n, FALSE), c, r)
         \/ heap' \in {heap, h1}
      /\ UNCHANGED held

\* cJSON_DetachItemFromArray, cJSON_DetachItemFromObject: i is what was found.
Detach(c, i) ==
  /\ /\ MayChange(c) /\ i # NoItem
  /\ heap' = DetachItemViaPointer(heap, c, i)
  /\ held' = held \cup {i}

\* cJSON_DeleteItemFromArray, cJSON_DeleteItemFromObject.
DeleteItem(c, i) ==
  /\ MayChange(c) /\ i # NoItem /\ MayFree(i)
  /\ heap' = Free(DetachItemViaPointer(heap, c, i), i)
  /\ UNCHANGED held

\* cJSON_InsertItemInArray.
InsertInArray(c, p, i) ==
  /\ i \in held /\ MayContain(c, i) /\ MayChange(c) /\ Is(c, "array")
  /\ heap' = InsertItemInArray(heap, c, p, i)
  /\ held' = held \ {i}

\* cJSON_ReplaceItemInArray.
ReplaceInArray(c, p, i) ==
  LET old == GetArrayItem(heap, c, p)
  IN  /\ i \in held /\ MayContain(c, i) /\ MayChange(c) /\ Is(c, "array")
      /\ old # NoItem /\ MayFree(old)
      /\ heap' = ReplaceItemViaPointer(heap, c, old, i)
      /\ held' = held \ {i}

\* replace_item_in_object: i is renamed first, then the old item is looked for.
ReplaceInObject(c, n, i, case, ok) ==
  LET h1 == [heap EXCEPT ![i].name = IF ok THEN n ELSE NoName,
                         ![i].constant = FALSE, ![i].copied = ok]
      old == GetObjectItem(h1, c, n, case)
  IN  /\ i \in held /\ MayContain(c, i) /\ MayChange(c) /\ Is(c, "object")
      /\ \/ /\ old = NoItem
            /\ heap' = h1
            /\ UNCHANGED held
         \/ /\ old # NoItem /\ MayFree(old)
            /\ heap' = ReplaceItemViaPointer(h1, c, old, i)
            /\ held' = held \ {i}

\* cJSON_Delete.
Delete(i) ==
  /\ i \in held /\ MayFree(i)
  /\ heap' = Free(heap, i)
  /\ held' = held \ {i}

\* cJSON_Duplicate, with the memory s.
Duplicate(i, recurse, s) ==
  LET m == Copy(heap, i, recurse, s)
  IN  /\ /\ i \in Attached /\ ToSet(s) \subseteq Unused
      /\ heap' = m.h
      /\ held' = IF m.ok THEN held \cup {s[1]} ELSE held

(***************************************************************************)
(* What malloc gives: memory that is free is all alike, so one order of it *)
(* stands for every order.  First has the first item, Some the first few. *)
(***************************************************************************)
Some == {SubSeq(SetToSeq(Unused), 1, n) : n \in 0 .. Cardinality(Unused)}
First == {Head(s) : s \in Some \ {<<>>}}

Call ==
  \/ \E i \in First, t \in {"array", "object"} : Create(i, t)
  \/ \E i \in held : Delete(i)
  \/ \E i \in Attached, s \in Some, recurse \in BOOLEAN : Duplicate(i, recurse, s)
  \/ \E c \in Attached :
       \/ \E i \in held : AddToArray(c, i)
       \/ \E r \in First : \/ CreateReference(r, c)
                           \/ \E j \in Attached : AddReferenceToArray(c, j, r)
       \/ \E n \in Name :
            \/ \E i \in held, const \in BOOLEAN : AddToObject(c, n, i, const)
            \/ \E i \in First, t \in {"array", "object"} : AddNewToObject(c, n, i, t)
            \/ \E r \in First, j \in Attached : AddReferenceToObject(c, n, j, r)
  \/ \E c \in {a \in Attached : Is(a, "array")}, p \in 1 .. Cardinality(Item) :
       \/ Detach(c, GetArrayItem(heap, c, p))
       \/ DeleteItem(c, GetArrayItem(heap, c, p))
       \/ \E i \in held : InsertInArray(c, p, i) \/ ReplaceInArray(c, p, i)
  \/ \E c \in {o \in Attached : Is(o, "object")}, n \in Name, case \in BOOLEAN :
       \/ Detach(c, GetObjectItem(heap, c, n, case))
       \/ DeleteItem(c, GetObjectItem(heap, c, n, case))
       \/ \E i \in held, ok \in BOOLEAN : ReplaceInObject(c, n, i, case, ok)

Bounded ==
  /\ Cardinality(held) <= MaxHeld
  /\ Cardinality({i \in Item : heap[i].ref}) <= MaxReferences
  /\ Cardinality({i \in Item : heap[i].constant}) <= MaxConstant

Next ==
  /\ running
  /\ \/ Call /\ UNCHANGED running
     \/ \E s \in Some : CreateNumbers(s)
  /\ Bounded'

Spec == Init /\ [][Next]_vars
----------------------------------------------------------------------------
(***************************************************************************)
(* The lists stay as the next call needs them: prev leads back along next, *)
(* from the first item to the last; what the caller holds is in no list;   *)
(* and no pointer of an item that can be reached leads to freed memory.    *)
(***************************************************************************)
ListsAreLinked ==
  /\ \A c \in Live : ~heap[c].ref /\ heap[c].child # NoItem =>
       LET s == Kids(heap, c)
       IN  \A p \in DOMAIN s : heap[s[p]].prev = s[IF p = 1 THEN Len(s) ELSE p - 1]
  /\ \A i \in held : heap[i].next = NoItem /\ heap[i].prev = NoItem
  /\ \A i \in Attached : {heap[i].next, heap[i].prev, heap[i].child} \subseteq
                           Live \cup {NoItem}

(***************************************************************************)
(* An item that is allocated has an owner, the caller or one container, so *)
(* that it is freed once.  The exception: a reference for which there was  *)
(* no memory for the key is lost (cJSON_AddItemReferenceToObject).  The    *)
(* memory of a key is freed with its item if cJSON allocated it, and never *)
(* if it is the caller's.                                                  *)
(***************************************************************************)
OneOwner ==
  /\ \A i \in Attached :
       Cardinality({c \in Live : ~heap[c].ref /\ i \in ToSet(Kids(heap, c))}) =
         IF i \in held THEN 0 ELSE 1
  /\ \A i \in Live \ Attached : heap[i].ref /\ heap[i].name = NoName
  /\ \A i \in Live : heap[i].copied = (heap[i].name # NoName /\ ~heap[i].constant)

\* The pairs of an item below i in g and the one in the same place below j in h,
\* n levels down, where there are both.
SamePlace(g, i, h, j) ==
  LET pairs[n \in Nat] ==
        IF n = 0 THEN {<<i, j>>}
        ELSE UNION {{<<Kids(g, e[1])[p], Kids(h, e[2])[p]>> :
                       p \in DOMAIN Kids(g, e[1]) \cap DOMAIN Kids(h, e[2])} : e \in pairs[n - 1]}
  IN  pairs

\* The two look alike to the caller, who need not tell references from copies.
Alike(g, i, h, j) ==
  \A n \in 0 .. Cardinality(Item) : \A e \in SamePlace(g, i, h, j)[n] :
    /\ g[e[1]].type = h[e[2]].type /\ g[e[1]].name = h[e[2]].name
    /\ Len(Kids(g, e[1])) = Len(Kids(h, e[2]))

(* A duplicate looks like its original, whatever references that contains. *)
DuplicateIsEqual ==
  \A i \in Attached :
    LET s == SetToSeq(Unused)
        m == Copy(heap, i, TRUE, s)
    IN  m.ok => Alike(m.h, s[1], heap, i)

(***************************************************************************)
(* A call with an index acts where the index says: an insertion shifts the *)
(* items from there on to the right, and behind the end it appends; a      *)
(* replacement and a removal leave the others where they were.             *)
(***************************************************************************)
IndexIsMeant ==
  \A c \in {a \in Attached : MayChange(a)}, i \in held :
    MayContain(c, i) =>
      LET s == Kids(heap, c)
      IN  /\ \A p \in 1 .. Len(s) + 2 :
               Kids(InsertItemInArray(heap, c, p, i), c) =
                 InsertAt(s, IF p > Len(s) THEN Len(s) + 1 ELSE p, i)
          /\ \A p \in DOMAIN s : MayFree(s[p]) =>
               Kids(ReplaceItemViaPointer(heap, c, s[p], i), c) = ReplaceAt(s, p, i)
          /\ \A p \in DOMAIN s :
               Kids(DetachItemViaPointer(heap, c, s[p]), c) = RemoveAt(s, p)

(* The linked lists do to the sequences what the calls promise. *)
Abstract == INSTANCE JsonTree WITH
  live <- Live,
  kids <- Owned(heap)

ImplementsJsonTree == Abstract!Spec
=============================================================================
