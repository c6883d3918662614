----------------------------- MODULE CJsonUtils -----------------------------
(***************************************************************************)
(* JSON patches and merge patches: core/cJSON_Utils.c.  A function that    *)
(* changes its arguments returns what they become.  What matters is where  *)
(* a list of items ends, for this is where the next item goes (the field   *)
(* end of JsonItem): sorting a list leaves it as it was.                   *)
(***************************************************************************)
EXTENDS CJsonPointer

Dash == 45

\* A patch; a member that it does not have is NoName or Invalid.
Patch(op, path, from, value) == [op |-> op, path |-> path, from |-> from, value |-> value]
Operations == {"add", "remove", "replace", "move", "copy", "test"}
----------------------------------------------------------------------------
(* Lists of items: v is an array or an object.                             *)

\* add_item_to_array: after the item at end, whatever was linked behind it.  If that
\* is gone (-1), the code writes to freed memory: no call that is checked comes here.
AddItem(v, x) ==
  IF v.kids = <<>> THEN [v EXCEPT !.kids = <<x>>, !.end = 1]
  ELSE IF v.end <= 0 THEN v
  ELSE [v EXCEPT !.kids = Append(SubSeq(@, 1, v.end), x), !.end = @ + 1]

AddItemToObject(v, n, x) == AddItem(v, Named(n, x))

\* cJSON_DetachItemViaPointer and detach_item_from_array, for the item at k.
DetachItem(v, k) ==
  LET end == CASE Len(v.kids) = 1 -> 0
               [] k = Len(v.kids) /\ k > 1 -> k - 1
               [] OTHER -> IF v.end = k THEN -1 ELSE IF v.end > k THEN v.end - 1 ELSE v.end
  IN  [v EXCEPT !.kids = RemoveAt(@, k), !.end = end]

\* Mutant: the new item goes behind the one at k.
InsertItemAfter(v, k, x) ==
  IF k >= Len(v.kids) THEN AddItem(v, x)
  ELSE [v EXCEPT !.kids = InsertAt(@, k + 1, x), !.end = IF @ > k THEN @ + 1 ELSE @]

\* insert_item_in_array, for k at most one past the last item.
InsertItem(v, k, x) ==
  IF k > Len(v.kids) THEN AddItem(v, x)
  ELSE [v EXCEPT !.kids = InsertAt(@, k, x),
                 !.end = IF @ >= k THEN @ + 1 ELSE @]

\* cJSON_DeleteItemFromObject and cJSON_DeleteItemFromObjectCaseSensitive.
DeleteFromObject(v, n, case) ==
  LET k == GetObjectItem(v, n, case) IN IF k = 0 THEN v ELSE DetachItem(v, k)

RECURSIVE Duplicate(_)
\* cJSON_Duplicate.
Duplicate(v) ==
  [v EXCEPT !.kids = [p \in DOMAIN @ |-> Duplicate(@[p])], !.end = Len(v.kids)]
----------------------------------------------------------------------------
(* Sorting.                                                                *)

RECURSIVE MergeLists(_, _, _), SortList(_, _)
\* Of two equal keys the one of the second list comes first.
MergeLists(s, t, case) ==
  IF s = <<>> THEN t ELSE IF t = <<>> THEN s
  ELSE IF CompareStrings(Head(s).name, Head(t).name, case) < 0
  THEN <<Head(s)>> \o MergeLists(Tail(s), t, case)
  ELSE <<Head(t)>> \o MergeLists(s, Tail(t), case)

Ascending(s, case) ==
  \A p \in 1 .. Len(s) - 1 : CompareStrings(s[p].name, s[p + 1].name, case) < 0

SortList(s, case) ==
  LET half == (Len(s) + 1) \div 2
  IN  IF Len(s) < 2 \/ Ascending(s, case) THEN s
      ELSE MergeLists(SortList(SubSeq(s, 1, half), case),
                      SortList(SubSeq(s, half + 1, Len(s)), case), case)

(***************************************************************************)
(* sort_object.  Nobody sets prev of the item that becomes the first one:  *)
(* it led to the last item before, if it was the first one then, and is    *)
(* null if it was not, for it was split off its list.                      *)
(***************************************************************************)
SortObject(v, case) ==
  LET places == SortList([p \in DOMAIN v.kids |-> [name |-> v.kids[p].name, was |-> p]], case)
      order == [p \in DOMAIN v.kids |-> places[p].was]
      sorted == [p \in DOMAIN v.kids |-> v.kids[order[p]]]
  IN  IF Ascending(v.kids, case) THEN v
      ELSE [v EXCEPT !.kids = sorted,
                     !.end = IF order[1] # 1 \/ @ <= 0 THEN Min({@, 0})
                             ELSE CHOOSE p \in DOMAIN order : order[p] = @]
----------------------------------------------------------------------------
(* Pointers.                                                               *)

RECURSIVE ItemAt(_, _), SetAt(_, _, _)
ItemAt(v, place) ==
  IF place = <<>> THEN v ELSE ItemAt(v.kids[Head(place)], Tail(place))
SetAt(v, place, x) ==
  IF place = <<>> THEN x
  ELSE [v EXCEPT !.kids[Head(place)] = SetAt(@, Tail(place), x)]

RECURSIVE DecodeFrom(_, _, _, _)
\* From the byte r of s on, to the byte w of what becomes of it: only the bytes
\* that stand for an escape sequence are written.
DecodeFrom(s, r, w, out) ==
  LET next == IF r < Len(s) THEN s[r + 1] ELSE 0
  IN  IF r > Len(s) THEN SubSeq(out, 1, w - 1)
      ELSE IF s[r] # Tilde THEN DecodeFrom(s, r + 1, w + 1, out)
      ELSE IF next = Zero THEN DecodeFrom(s, r + 2, w + 1, [out EXCEPT ![w] = Tilde])
      ELSE IF next = One THEN DecodeFrom(s, r + 2, w + 1, [out EXCEPT ![w + 1] = Slash])
      ELSE out

DecodePointer(s) == DecodeFrom(s, 1, 1, s)

\* The place of the parent that a path names, NoPlace for a path of no slash, and
\* the name or index of the child.
LastSlash(path) == Max({0} \cup {p \in DOMAIN path : path[p] = Slash})
Parent(v, path, case) ==
  IF LastSlash(path) = 0 THEN NoPlace
  ELSE GetPlace(v, SubSeq(path, 1, LastSlash(path) - 1), case)
Child(path) == DecodePointer(SubSeq(path, LastSlash(path) + 1, Len(path)))
----------------------------------------------------------------------------
(* Comparison: every object that is looked at is sorted.                   *)

RECURSIVE CompareJson(_, _, _), CompareKids(_, _, _, _)
Compared(same, a, b) == [same |-> same, a |-> a, b |-> b]
SameScalar(a, b) == CASE a.type = "number" -> a.num = b.num
                      [] a.type = "string" -> a.str = b.str
                      [] OTHER -> TRUE
Sorted(v, case) == IF v.type = "object" THEN SortObject(v, case) ELSE v

\* compare_json.
CompareJson(a, b, case) ==
  IF a.type # b.type THEN Compared(FALSE, a, b)
  ELSE IF a.type \in {"array", "object"} THEN CompareKids(Sorted(a, case), Sorted(b, case), 1, case)
  ELSE Compared(SameScalar(a, b), a, b)

\* Two lists, when r has been found of the items at k.
CompareRest(a, b, k, r, case) ==
  LET a1 == [a EXCEPT !.kids[k] = r.a]
      b1 == [b EXCEPT !.kids[k] = r.b]
  IN  IF r.same THEN CompareKids(a1, b1, k + 1, case) ELSE Compared(FALSE, a1, b1)

\* Two lists whose keys are in order, from the items at k on.
CompareKids(a, b, k, case) ==
  IF k > Min({Len(a.kids), Len(b.kids)}) THEN Compared(Len(a.kids) = Len(b.kids), a, b)
  ELSE IF a.type = "object" /\ CompareStrings(a.kids[k].name, b.kids[k].name, case) # 0
  THEN Compared(FALSE, a, b)
  ELSE CompareRest(a, b, k, CompareJson(a.kids[k], b.kids[k], case), case)
----------------------------------------------------------------------------
(* Applying patches.                                                       *)

\* What v becomes and the child that is taken out, Invalid if there is none.  A
\* member is looked for whatever the case of its name.
DetachAt(v, place, child) ==
  LET parent == ItemAt(v, place)
      k == CASE parent.type = "array" -> DecodeIndex(child) + 1
             [] parent.type = "object" -> GetObjectItem(parent, child, FALSE)
             [] OTHER -> 0
  IN  IF place = NoPlace THEN [v |-> v, item |-> Invalid]
      ELSE IF k \notin DOMAIN parent.kids THEN [v |-> v, item |-> Invalid]
      ELSE [v |-> SetAt(v, place, DetachItem(parent, k)), item |-> parent.kids[k]]

\* detach_path.
DetachPath(v, path, case) == DetachAt(v, Parent(v, path, case), Child(path))

Applied(v, n) == [v |-> v, status |-> n]

\* x is added to the item at place.
PutIn(v, place, child, x, case) ==
  LET parent == ItemAt(v, place)
      k == DecodeIndex(child) + 1
      Done(w) == Applied(SetAt(v, place, w), 0)
  IN  IF place = NoPlace THEN Applied(v, 9)
      ELSE CASE parent.type = "array" /\ child = <<Dash>> -> Done(AddItem(parent, x))
             [] parent.type = "array" /\ child # <<Dash>> ->
                  IF k = 0 THEN Applied(v, 11)
                  ELSE IF k > Len(parent.kids) + 1 THEN Applied(v, 10)
                  ELSE Done(InsertItem(parent, k, x))
             [] parent.type = "object" ->
                  Done(AddItemToObject(DeleteFromObject(parent, child, case), child, x))
             [] OTHER -> Applied(v, 9)

\* The end of apply_patch: x is put at path.
PutAt(v, path, x, case) == PutIn(v, Parent(v, path, case), Child(path), x, case)

\* The operation test, of the item at place.
ApplyTest(v, place, p, case) ==
  LET r == CompareJson(ItemAt(v, place), p.value, case)
  IN  IF place = NoPlace \/ p.value = Invalid THEN Applied(v, 1)
      ELSE Applied(SetAt(v, place, r.a), IF r.same THEN 0 ELSE 1)

\* The value of the patch is put at its path.
PutValue(v, p, case) ==
  IF p.value = Invalid THEN Applied(v, 7) ELSE PutAt(v, p.path, Duplicate(p.value), case)

\* remove, and the first half of replace, with what has been detached.
ApplyRemove(v, old, p, case) ==
  IF old.item = Invalid THEN Applied(v, 13)
  ELSE IF p.op = "remove" THEN Applied(old.v, 0) ELSE PutValue(old.v, p, case)

\* move and copy: the item from the path p.from is put at p.path.
ApplyFrom(v, found, p, case) ==
  IF p.from = NoName THEN Applied(v, 4)
  ELSE IF found.item = Invalid THEN Applied(v, 5)
  ELSE PutAt(found.v, p.path, found.item, case)

\* What a copy finds at the place that its path leads to.
CopyOf(v, place) ==
  IF place = NoPlace THEN [v |-> v, item |-> Invalid]
  ELSE [v |-> v, item |-> Duplicate(ItemAt(v, place))]

ApplyPatch(v, p, case) ==
  CASE p.path = NoName -> Applied(v, 2)
    [] p.path # NoName /\ p.op \notin Operations -> Applied(v, 3)
    [] p.path # NoName /\ p.op = "test" -> ApplyTest(v, GetPlace(v, p.path, case), p, case)
    [] p.path = <<>> /\ p.op = "remove" -> Applied(Invalid, 0)
    [] p.path = <<>> /\ p.op \in {"add", "replace"} ->
         IF p.value = Invalid THEN Applied(v, 7) ELSE Applied(Named(NoName, Duplicate(p.value)), 0)
    [] p.path \notin {NoName, <<>>} /\ p.op \in {"remove", "replace"} ->
         ApplyRemove(v, DetachPath(v, p.path, case), p, case)
    [] p.path \notin {NoName, <<>>} /\ p.op = "add" -> PutValue(v, p, case)
    [] p.path # NoName /\ p.op = "move" -> ApplyFrom(v, DetachPath(v, p.from, case), p, case)
    [] p.path # NoName /\ p.op = "copy" -> ApplyFrom(v, CopyOf(v, GetPlace(v, p.from, case)), p, case)

\* cJSONUtils_ApplyPatches: up to the first patch that fails.
ApplyPatches(v, patches, case) ==
  FoldLeft(LAMBDA r, p : IF r.status = 0 THEN ApplyPatch(r.v, p, case) ELSE r,
           [v |-> v, status |-> 0], patches)
----------------------------------------------------------------------------
(* Generating patches.  The objects that are compared are sorted.          *)

\* compose_patch; suffix is NoName for the path itself.
ComposePatch(op, path, suffix, value) ==
  Patch(op, IF suffix = NoName THEN path ELSE path \o <<Slash>> \o EncodeString(suffix),
        NoName, Duplicate(value))

\* Mutant: each item by the index that it had.
RemoveEach(path, from, k) ==
  [p \in 1 .. Len(from.kids) - k + 1 |-> ComposePatch("remove", path, Decimal(k + p - 2), Invalid)]

\* The items of an array that are too many, from the item k on: always the index
\* of the first one, for the items behind it move up.
RemoveRest(path, from, k) ==
  [p \in 1 .. Len(from.kids) - k + 1 |-> ComposePatch("remove", path, Decimal(k - 1), Invalid)]

RECURSIVE CreatePatches(_, _, _, _), PatchItems(_, _, _, _, _), PatchMembers(_, _, _, _, _, _)
Patches(out, from, to) == [out |-> out, from |-> from, to |-> to]

CreatePatches(path, from, to, case) ==
  IF from.type # to.type \/ ~SameScalar(from, to)
  THEN Patches(<<ComposePatch("replace", path, NoName, to)>>, from, to)
  ELSE CASE from.type = "array" -> PatchItems(path, from, to, 1, case)
         [] from.type = "object" ->
              PatchMembers(path, SortObject(from, case), SortObject(to, case), 1, 1, case)
         [] OTHER -> Patches(<<>>, from, to)

\* Two arrays, from the items at k on.
PatchItems(path, from, to, k, case) ==
  LET r == CreatePatches(path \o <<Slash>> \o Decimal(k - 1), from.kids[k], to.kids[k], case)
      more == PatchItems(path, [from EXCEPT !.kids[k] = r.from],
                               [to EXCEPT !.kids[k] = r.to], k + 1, case)
      added == [p \in 1 .. Len(to.kids) - k + 1 |->
                  ComposePatch("add", path, <<Dash>>, to.kids[k + p - 1])]
  IN  IF k > Min({Len(from.kids), Len(to.kids)})
      THEN Patches(RemoveRest(path, from, k) \o added, from, to)
      ELSE [more EXCEPT !.out = r.out \o @]

\* Two objects, from the member i of the one and j of the other on.
PatchMembers(path, from, to, i, j, case) ==
  LET x == from.kids[i]
      y == to.kids[j]
      diff == IF i > Len(from.kids) THEN 1 ELSE IF j > Len(to.kids) THEN -1
              ELSE CompareStrings(x.name, y.name, case)
      r == CreatePatches(path \o <<Slash>> \o EncodeString(x.name), x, y, case)
      Then(out, f, t, m, n) ==
        LET more == PatchMembers(path, f, t, m, n, case) IN [more EXCEPT !.out = out \o @]
  IN  IF i > Len(from.kids) /\ j > Len(to.kids) THEN Patches(<<>>, from, to)
      ELSE IF diff = 0
      THEN Then(r.out, [from EXCEPT !.kids[i] = r.from], [to EXCEPT !.kids[j] = r.to], i + 1, j + 1)
      ELSE IF diff < 0
      THEN Then(<<ComposePatch("remove", path, x.name, Invalid)>>, from, to, i + 1, j)
      ELSE Then(<<ComposePatch("add", path, y.name, y)>>, from, to, i, j + 1)

GeneratePatches(from, to, case) == CreatePatches(<<>>, from, to, case)
----------------------------------------------------------------------------
(* Merge patches.                                                          *)

RECURSIVE MergePatch(_, _, _)
\* A target that there is not is Invalid.
MergePatch(target, patch, case) ==
  LET Merge(v, p) ==
        LET k == GetObjectItem(v, p.name, case)
            old == IF k = 0 THEN Invalid ELSE v.kids[k]
            rest == IF k = 0 THEN v ELSE DetachItem(v, k)
        IN  IF p.type = "null" THEN DeleteFromObject(v, p.name, case)
            ELSE AddItemToObject(rest, p.name, MergePatch(old, p, case))
  IN  IF patch.type # "object" THEN Duplicate(patch)
      ELSE FoldLeft(Merge, IF target.type = "object" THEN target ELSE Object(<<>>), patch.kids)

RECURSIVE GenerateMergePatch(_, _, _), MergeMembers(_, _, _, _, _, _)
\* The patch, Invalid if there is none, and what from and to become.
GenerateMergePatch(from, to, case) ==
  IF from.type # "object" \/ to.type # "object" THEN Patches(Duplicate(to), from, to)
  ELSE MergeMembers(SortObject(from, case), SortObject(to, case), 1, 1, Object(<<>>), case)

\* A member that both have, when it is known whether they are the same: what is
\* nested is patched whatever its case.
MergeCompared(c) ==
  IF c.same THEN Patches(Invalid, c.a, c.b) ELSE GenerateMergePatch(c.a, c.b, FALSE)

\* ... and when the patch r of it is known.
MergeCommon(from, to, i, j, patch, r, case) ==
  MergeMembers([from EXCEPT !.kids[i] = r.from], [to EXCEPT !.kids[j] = r.to], i + 1, j + 1,
               IF r.out = Invalid THEN patch
               ELSE AddItemToObject(patch, to.kids[j].name, r.out), case)

\* Keys are put in order by strcmp.
MergeMembers(from, to, i, j, patch, case) ==
  LET x == from.kids[i]
      y == to.kids[j]
      diff == IF i > Len(from.kids) THEN 1 ELSE IF j > Len(to.kids) THEN -1
              ELSE CompareStrings(x.name, y.name, TRUE)
  IN  IF i > Len(from.kids) /\ j > Len(to.kids)
      THEN Patches(IF patch.kids = <<>> THEN Invalid ELSE patch, from, to)
      ELSE IF diff < 0
      THEN MergeMembers(from, to, i + 1, j, AddItemToObject(patch, x.name, Null), case)
      ELSE IF diff > 0
      THEN MergeMembers(from, to, i, j + 1, AddItemToObject(patch, y.name, Duplicate(y)), case)
      ELSE MergeCommon(from, to, i, j, patch, MergeCompared(CompareJson(x, y, case)), case)
=============================================================================
