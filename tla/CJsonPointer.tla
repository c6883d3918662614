---------------------------- MODULE CJsonPointer ----------------------------
(***************************************************************************)
(* JSON pointers: what core/cJSON_Utils.c makes for an item, and how it    *)
(* finds the item that one leads to.                                       *)
(***************************************************************************)
EXTENDS JsonValue

VARIABLE pointed        \* the last call, if any, with what it returned

Tilde == 126
Zero == 48
One == 49
Nine == 57

NoPlace == <<0>>        \* nothing is found
----------------------------------------------------------------------------
\* Mutant: tildes are left as they are.
EncodedByteButTilde(c) == IF c = Slash THEN <<Tilde, One>> ELSE <<c>>

EncodedByte(c) ==
  IF c = Slash THEN <<Tilde, One>> ELSE IF c = Tilde THEN <<Tilde, Zero>> ELSE <<c>>

EncodeString(s) ==
  LET text[n \in 0 .. Len(s)] == IF n = 0 THEN <<>> ELSE text[n - 1] \o EncodedByte(s[n])
  IN  text[Len(s)]

\* What a pointer says to get from v to the item at p.
TokenFor(v, p) ==
  IF v.type = "array" THEN Decimal(p - 1) ELSE EncodeString(v.kids[p].name)

\* cJSONUtils_FindPointerFromObjectTo, for the item at the place that is given: from
\* the innermost token out.
FindPointer(v, place) ==
  LET x[n \in 0 .. Len(place)] == IF n = 0 THEN v ELSE x[n - 1].kids[place[n]]
      text[n \in 0 .. Len(place)] ==
        IF n = Len(place) THEN <<>>
        ELSE <<Slash>> \o TokenFor(x[n], place[n + 1]) \o text[n + 1]
  IN  text[0]
----------------------------------------------------------------------------
\* The first token of what follows a slash.
Token(s) == SubSeq(s, 1, Min({Len(s)} \cup {p - 1 : p \in {q \in DOMAIN s : s[q] = Slash}}))

\* The place in the token t behind what stands for the byte c at place k, 0 if it is
\* another byte.
MatchByte(c, t, k, case) ==
  IF k \notin DOMAIN t THEN 0
  ELSE IF t[k] = Tilde
  THEN IF k < Len(t) /\ <<t[k + 1], c>> \in {<<Zero, Tilde>>, <<One, Slash>>} THEN k + 2 ELSE 0
  ELSE IF CompareStrings(<<c>>, <<t[k]>>, case) = 0 THEN k + 1 ELSE 0

\* compare_pointers, for the token t.
Matches(s, t, case) ==
  LET next[n \in 0 .. Len(s)] == IF n = 0 THEN 1 ELSE MatchByte(s[n], t, next[n - 1], case)
  IN  s # NoName /\ next[Len(s)] = Len(t) + 1

\* decode_array_index_from_pointer: -1 for no index.  The test for the end of the
\* digits looks at the first one.
DecodeIndex(t) ==
  LET end == Max({p \in 0 .. Len(t) : \A q \in 1 .. p : t[q] >= Zero /\ t[1] <= Nine})
      index[n \in 0 .. Len(t)] == IF n = 0 THEN 0 ELSE 10 * index[n - 1] + t[n] - Zero
  IN  IF (Len(t) > 1 /\ t[1] = Zero) \/ end # Len(t) THEN -1 ELSE index[Len(t)]

\* One token of the pointer: w is where it has led to and what is left of it.
FollowToken(w, case) ==
  LET t == Token(Tail(w.rest))
      kids == w.item.kids
      found == {k \in DOMAIN kids : \/ w.item.type = "array" /\ k = DecodeIndex(t) + 1
                                    \/ w.item.type = "object" /\ Matches(kids[k].name, t, case)}
  IN  IF w.rest = <<>> \/ w.place = NoPlace THEN w
      ELSE IF w.rest[1] # Slash THEN w
      ELSE IF found = {} THEN [w EXCEPT !.place = NoPlace]
      ELSE [place |-> Append(w.place, Min(found)), item |-> kids[Min(found)],
            rest |-> SubSeq(w.rest, Len(t) + 2, Len(w.rest))]

\* get_item_from_pointer: the place of the item in v, or NoPlace.
GetPlace(v, pointer, case) ==
  LET walk[n \in 0 .. Len(pointer)] ==
        IF n = 0 THEN [place |-> <<>>, item |-> v, rest |-> pointer]
        ELSE FollowToken(walk[n - 1], case)
  IN  walk[Len(pointer)].place

\* A pointer is made for the item at a place in v, and followed.
PointTo(v, place, case) ==
  pointed' = {[v |-> v, place |-> place, case |-> case,
               got |-> GetPlace(v, FindPointer(v, place), case)]}

PointerInit == pointed = {}
PointerNext == \E v \in Trees, case \in BOOLEAN : \E place \in Places(v) : PointTo(v, place, case)
PointerSpec == PointerInit /\ [][PointerNext]_pointed

(***************************************************************************)
(* The pointer that cJSONUtils_FindPointerFromObjectTo makes for an item   *)
(* leads to this item, in whatever way its keys have to be escaped.        *)
(***************************************************************************)
PointerFindsItem == \A c \in pointed : KeysDiffer(c.v, c.case) => c.got = c.place
=============================================================================
