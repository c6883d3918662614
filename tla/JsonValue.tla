----------------------------- MODULE JsonValue -----------------------------
(***************************************************************************)
(* What can be said of JSON items: how keys are compared, how a member is  *)
(* found, where the items inside are, and what an item means.              *)
(***************************************************************************)
EXTENDS JsonItem, SequencesExt

CONSTANTS
  Trees,      \* the items that are compared and searched, and all that they contain
  Height      \* how deep each of them is

\* An item holds what its type says and nothing else, and no more items than a
\* number of ten digits can count.
ASSUME TreeAssumption ==
  /\ Height \in [Trees -> Nat]
  /\ \A v \in Trees :
       /\ v.type \in Printable
       /\ v.name \in Seq(Byte) \cup {NoName}
       /\ v.str \in Seq(Byte) /\ (v.type # "string" => v.str = <<>>)
       /\ v.num \in Int /\ (v.type # "number" => v.num = 0)
       /\ v.kids \in Seq(Trees) /\ (v.type \notin {"array", "object"} => v.kids = <<>>)
       /\ Len(v.kids) <= Powers[10]
       /\ \A p \in DOMAIN v.kids : Height[v.kids[p]] < Height[v]

Fold(s) == [p \in DOMAIN s |-> IF s[p] \in 65 .. 90 THEN s[p] + 32 ELSE s[p]]

\* strcmp, or the comparison that ignores case: negative, 0 or positive.
CompareStrings(a, b, case) ==
  LET x == IF case THEN a ELSE Fold(a)
      y == IF case THEN b ELSE Fold(b)
      At(s, p) == IF p \in DOMAIN s THEN s[p] ELSE 0
      differ == {p \in 1 .. Len(x) + Len(y) : At(x, p) # At(y, p)}
  IN  IF a = NoName \/ b = NoName THEN 1
      ELSE IF differ = {} THEN 0 ELSE At(x, Min(differ)) - At(y, Min(differ))

\* The place of the member n of v, 0 if there is none.
GetObjectItem(v, n, case) ==
  LET s == v.kids
      found == {p \in DOMAIN s : \/ CompareStrings(n, s[p].name, case) = 0
                                 \/ case /\ s[p].name = NoName}
  IN  IF found = {} \/ s[Min(found)].name = NoName THEN 0 ELSE Min(found)
----------------------------------------------------------------------------
\* The members of every object in v have keys, and they differ, in more than their
\* case if ~case.
KeysDiffer(v, case) ==
  LET differ[x \in Trees] ==
        /\ \A p \in DOMAIN x.kids : differ[x.kids[p]]
        /\ x.type = "object" =>
             \A p, q \in DOMAIN x.kids :
               /\ x.kids[p].name # NoName
               /\ p # q => CompareStrings(x.kids[p].name, x.kids[q].name, case) # 0
  IN  differ[v]

\* All the places in v.
Places(v) ==
  LET places[x \in Trees] ==
        {<<>>} \cup UNION {{<<p>> \o q : q \in places[x.kids[p]]} : p \in DOMAIN x.kids}
  IN  places[v]

(***************************************************************************)
(* What v says, whatever the order of its members (its keys differ) and    *)
(* wherever its lists end: inside is what the items say that it contains.  *)
(***************************************************************************)
Describe(v, inside) ==
  [type |-> v.type, str |-> v.str, num |-> v.num,
   kids |-> {<<IF v.type = "object" THEN v.kids[p].name ELSE <<p>>, inside[v.kids[p]]>> :
               p \in DOMAIN v.kids}]

Meaning(v) == LET meaning[x \in Trees] == Describe(x, meaning) IN meaning[v]
=============================================================================
