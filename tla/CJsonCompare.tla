---------------------------- MODULE CJsonCompare ----------------------------
(***************************************************************************)
(* cJSON_Compare of core/cJSON.c, for two items that are not the same      *)
(* memory.                                                                 *)
(***************************************************************************)
EXTENDS JsonValue

VARIABLE compared       \* the last call, if any, with what it returned

\* Every member of a is found in b, and same[<<x, y>>] for what is found.
HasMembers(a, b, case, same) ==
  \A p \in DOMAIN a.kids :
    LET q == GetObjectItem(b, a.kids[p].name, case)
    IN  q # 0 /\ same[<<a.kids[p], b.kids[q]>>]

\* Mutant: members of b alone are not looked for.
SameMembersOnce(a, b, case, same) == HasMembers(a, b, case, same)

SameMembers(a, b, case, same) == HasMembers(a, b, case, same) /\ HasMembers(b, a, case, same)

SameElements(a, b, same) ==
  /\ Len(a.kids) = Len(b.kids)
  /\ \A p \in DOMAIN a.kids : same[<<a.kids[p], b.kids[p]>>]

\* One call, when same[<<x, y>>] is what it finds of the items inside.
CompareWith(a, b, case, same) ==
  /\ a.type = b.type /\ a.type # "invalid"
  /\ a.type = "number" => a.num = b.num
  /\ a.type \in {"string", "raw"} => a.str = b.str
  /\ a.type = "array" => SameElements(a, b, same)
  /\ a.type = "object" => SameMembers(a, b, case, same)

Compare(a, b, case) ==
  LET same[x \in Trees \X Trees] == CompareWith(x[1], x[2], case, same)
  IN  same[<<a, b>>]

CompareItems(a, b, case) ==
  compared' = {[a |-> a, b |-> b, case |-> case, same |-> Compare(a, b, case)]}

CompareInit == compared = {}
CompareNext == \E a, b \in Trees, case \in BOOLEAN : CompareItems(a, b, case)
CompareSpec == CompareInit /\ [][CompareNext]_compared

(***************************************************************************)
(* cJSON_Compare finds the same whichever item comes first, and that is    *)
(* whether the two say the same, when no two keys of an object are the     *)
(* same; a member that only one of them has is found on either side.       *)
(***************************************************************************)
CompareIsEquality ==
  \A c \in compared :
    /\ c.same <=> Compare(c.b, c.a, c.case)
    /\ c.case /\ KeysDiffer(c.a, TRUE) /\ KeysDiffer(c.b, TRUE) =>
         (c.same <=> Meaning(c.a) = Meaning(c.b))
=============================================================================
