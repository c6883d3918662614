------------------------------- MODULE Calls -------------------------------
(***************************************************************************)
(* What computes without anybody's help: the functions of core/cJSON.c and *)
(* core/cJSON_Utils.c, one call of one of them on one of the inputs of a   *)
(* small set, with what is expected of its result, and the collect         *)
(* functions of the cpu and the disk plugin, run after run.                *)
(***************************************************************************)
EXTENDS CJsonRoundTrip, CJsonCompare, CJsonUtils, CpuUsage, DiskSpace

CONSTANTS
  Codes,        \* pairs of numbers to write as \uXXXX\uXXXX
  Documents,    \* items to compare, to patch and to merge, among Trees
  Changes       \* sequences of patches; each path is a sequence of tokens

ASSUME DocumentAssumption == Documents \subseteq Trees

VARIABLE call

NoCall == [kind |-> "none"]
Init ==
  call = NoCall /\ TripInit /\ CompareInit /\ PointerInit /\ CpuInit /\ DiskInit

HexDigit(n) == IF n < 10 THEN 48 + n ELSE 55 + n
Escape(c) == <<Backslash, 117, HexDigit(c \div 4096), HexDigit((c \div 256) % 16),
               HexDigit((c \div 16) % 16), HexDigit(c % 16)>>

\* Calls of the parser.
DoParse ==
  \/ \E t \in Texts, require \in BOOLEAN :
       Parse(t, require) /\ call' = [kind |-> "parse", text |-> t]
  \/ \E c \in Codes :
       /\ Parse(<<Quote>> \o Escape(c[1]) \o Escape(c[2]) \o <<Quote>>, TRUE)
       /\ call' = [kind |-> "decode", codes |-> c]

\* Calls of the functions on items.
DoPair == \E a, b \in Documents, case \in BOOLEAN :
            /\ CompareItems(a, b, case)
            /\ call' = [kind |-> "pair", a |-> a, b |-> b, case |-> case]
DoPoint == \E v \in Documents, case \in BOOLEAN : \E place \in Places(v) :
             PointTo(v, place, case) /\ call' = [kind |-> "point"]
DoPatch == \E v \in Documents, c \in Changes :
             call' = [kind |-> "patch", v |-> v, changes |-> c]

\* A call of cJSON, a run of the cpu plugin, a run of the disk plugin: they
\* share nothing, and each is taken alone.
First ==
  /\ call = NoCall /\ CpuInit /\ DiskInit
  /\ \/ DoParse /\ UNCHANGED <<printVars, trip, compared, pointed>>
     \/ PrintPlain /\ call' = [kind |-> "print"] /\ UNCHANGED <<compared, pointed>>
     \/ DoPair /\ UNCHANGED <<tripVars, pointed>>
     \/ DoPoint /\ UNCHANGED <<tripVars, compared>>
     \/ DoPatch /\ UNCHANGED <<tripVars, compared, pointed>>
Further ==
  /\ \/ ParseStep /\ UNCHANGED <<printVars, trip>>
     \/ PrintStep /\ UNCHANGED <<parseVars, trip>>
     \/ PrintFormatted
     \/ ParseAgain
  /\ UNCHANGED <<call, compared, pointed>>
callVars == <<call, tripVars, compared, pointed>>
Next ==
  \/ (First \/ Further) /\ UNCHANGED <<cpuVars, diskVars>>
  \/ call = NoCall /\ DiskInit /\ CpuNext /\ UNCHANGED <<callVars, diskVars>>
  \/ call = NoCall /\ CpuInit /\ DiskNext /\ UNCHANGED <<callVars, cpuVars>>

vars == <<callVars, cpuVars, diskVars>>
Spec == Init /\ [][Next]_vars
----------------------------------------------------------------------------
(* What a text of JSON is.  The parser is lenient: every byte up to the    *)
(* blank is white space, a string may hold any byte and a number may       *)
(* begin with zeros.                                                       *)

White(t) == \A p \in DOMAIN t : t[p] <= Space

IsNumber(t) == LET n == IF t # <<>> /\ t[1] = Minus THEN Tail(t) ELSE t
               IN  n # <<>> /\ Range(n) \subseteq Digit

RECURSIVE IsChars(_)
IsChars(t) ==
  \/ t = <<>>
  \/ t[1] \notin {Quote, Backslash} /\ IsChars(Tail(t))
  \/ /\ Len(t) > 1 /\ t[1] = Backslash
     /\ t[2] \in {e[1] : e \in Escapes} \cup {Slash}
     /\ IsChars(Tail(Tail(t)))

IsString(t) ==
  Len(t) > 1 /\ t[1] = Quote /\ t[Len(t)] = Quote /\ IsChars(SubSeq(t, 2, Len(t) - 1))

Trim(t) == LET ink == {p \in DOMAIN t : t[p] > Space}
           IN  IF ink = {} THEN <<>> ELSE SubSeq(t, Min(ink), Max(ink))

RECURSIVE IsValue(_, _), IsElements(_, _), IsMembers(_, _)
\* t is a value, in d arrays and objects.
IsValue(t, d) ==
  LET inner == SubSeq(t, 2, Len(t) - 1)
  IN  \/ t \in {NullText, TrueText, FalseText} \/ IsNumber(t) \/ IsString(t)
      \/ /\ Len(t) > 1 /\ d < NestingLimit
         /\ \/ /\ t[1] = LBracket /\ t[Len(t)] = RBracket
               /\ White(inner) \/ IsElements(inner, d + 1)
            \/ /\ t[1] = LBrace /\ t[Len(t)] = RBrace
               /\ White(inner) \/ IsMembers(inner, d + 1)

IsElements(t, d) ==
  \/ IsValue(Trim(t), d)
  \/ \E p \in DOMAIN t : /\ t[p] = Comma /\ IsValue(Trim(SubSeq(t, 1, p - 1)), d)
                         /\ IsElements(SubSeq(t, p + 1, Len(t)), d)

IsMember(t, d) ==
  \E p \in DOMAIN t : /\ t[p] = Colon /\ IsString(Trim(SubSeq(t, 1, p - 1)))
                      /\ IsValue(Trim(SubSeq(t, p + 1, Len(t))), d)

IsMembers(t, d) ==
  \/ IsMember(t, d)
  \/ \E p \in DOMAIN t : /\ t[p] = Comma /\ IsMember(SubSeq(t, 1, p - 1), d)
                         /\ IsMembers(SubSeq(t, p + 1, Len(t)), d)

ByteOrderMark == <<239, 187, 191>>
WithoutMark(t) == IF IsPrefix(ByteOrderMark, t) THEN SubSeq(t, 4, Len(t)) ELSE t

\* The code points of a text in UTF-8.
RECURSIVE FromUtf8(_)
FromUtf8(s) ==
  LET n == CASE s[1] < 128 -> 1 [] s[1] \in 192 .. 223 -> 2 [] s[1] \in 224 .. 239 -> 3 [] OTHER -> 4
      first == CASE n = 1 -> s[1] [] n = 2 -> s[1] - 192 [] n = 3 -> s[1] - 224 [] OTHER -> s[1] - 240
  IN  IF s = <<>> THEN <<>>
      ELSE <<FoldLeft(LAMBDA a, c : 64 * a + c - 128, first, SubSeq(s, 2, n))>>
           \o FromUtf8(SubSeq(s, n + 1, Len(s)))

\* What the escape sequences of a and b stand for: one character that they encode
\* together, or the one of each; nothing if there is half a pair.
Encoded(a, b) ==
  LET High(c) == c \in 55296 .. 56319
      Low(c) == c \in 56320 .. 57343
  IN  IF High(a) /\ Low(b) THEN {<<(a - 55296) * 1024 + (b - 56320) + 65536>>}
      ELSE IF High(a) \/ Low(a) \/ High(b) \/ Low(b) THEN {} ELSE {<<a, b>>}

Decoded == IF value = Invalid THEN {} ELSE {FromUtf8(value.str)}

(***************************************************************************)
(* cJSON_ParseWithOpts with a null terminator required takes exactly the   *)
(* texts that are a value and white space around it, nested to the limit   *)
(* at most: no truncated text, no comma too many, nothing behind.  A byte  *)
(* order mark may come first.  Characters written as \uXXXX become UTF-8,  *)
(* in pairs where they are pairs.                                          *)
(***************************************************************************)
RecognisesJson ==
  parsing = "done" =>
    /\ call.kind = "parse" /\ requireNull =>
         (value # Invalid <=> IsValue(Trim(WithoutMark(call.text)), 0))
    /\ call.kind = "decode" => Decoded = Encoded(call.codes[1], call.codes[2])
----------------------------------------------------------------------------
\* No key needs an escape sequence in a pointer, and none has a capital letter.
RECURSIVE Plain(_)
Plain(v) == \A p \in DOMAIN v.kids :
              LET n == v.kids[p].name
              IN  Plain(v.kids[p]) /\ Range(n) \cap {Slash, Tilde} = {} /\ Fold(n) = n

Ordinary(v) == KeysDiffer(v, FALSE) /\ Plain(v)

RECURSIVE HasNull(_)
HasNull(v) == v.type = "object" /\ \E p \in DOMAIN v.kids :
                                      v.kids[p].type = "null" \/ HasNull(v.kids[p])

RECURSIVE MeaningOf(_)
\* What any item says, one among Trees or one that has been made of them.
MeaningOf(v) == Describe(v, [x \in Range(v.kids) |-> MeaningOf(x)])

Patched(from, to, case) == ApplyPatches(from, GeneratePatches(from, to, case).out, case)
Merged(from, to, case) ==
  LET patch == GenerateMergePatch(from, to, case).out
  IN  IF patch = Invalid THEN from ELSE MergePatch(from, patch, case)

(***************************************************************************)
(* The patches that cJSONUtils_GeneratePatches makes, all applied to a     *)
(* copy of from, make it say what to says: elements that are inserted,     *)
(* removed or changed at any depth, in the order in which the patches are  *)
(* applied.  So does the one that cJSONUtils_GenerateMergePatch makes,     *)
(* unless to has a member that is null, which a merge patch cannot say.    *)
(* Keys that only differ in their case, or that have a slash or a tilde,   *)
(* are left out: what is done with them is not this.                       *)
(***************************************************************************)
PatchMovesFromTo ==
  call.kind = "pair" /\ Ordinary(call.a) /\ Ordinary(call.b) =>
    LET r == Patched(call.a, call.b, call.case)
    IN  /\ r.status = 0 /\ MeaningOf(r.v) = MeaningOf(call.b)
        /\ ~HasNull(call.b) => MeaningOf(Merged(call.a, call.b, call.case)) = MeaningOf(call.b)
----------------------------------------------------------------------------
(* What RFC 6902 says of a patch, on the meaning of an item: the set of    *)
(* what it may become, which is empty if the patch fails.                  *)

\* The key of the kid that the token t names.
KeyOf(m, t) ==
  CASE m.type = "object" -> t
    [] m.type = "array" /\ t = <<Dash>> -> <<Cardinality(m.kids) + 1>>
    [] m.type = "array" /\ t \in {<<c>> : c \in Zero .. Nine} -> <<t[1] - Zero + 1>>
    [] OTHER -> <<0>>

Moved(kids, k, by) ==
  {<<IF e[1][1] >= k[1] THEN <<e[1][1] + by>> ELSE e[1], e[2]>> : e \in kids}

RECURSIVE Get(_, _), Put(_, _, _), Cut(_, _)
Get(m, path) ==
  IF path = <<>> THEN {m}
  ELSE UNION {Get(e[2], Tail(path)) : e \in {e \in m.kids : e[1] = KeyOf(m, Head(path))}}

Put(m, path, x) ==
  LET k == KeyOf(m, Head(path))
      others == {e \in m.kids : e[1] # k}
  IN  CASE path = <<>> -> {x}
        [] Len(path) = 1 /\ m.type = "object" -> {[m EXCEPT !.kids = others \cup {<<k, x>>}]}
        [] Len(path) = 1 /\ m.type = "array" ->
             IF k[1] \notin 1 .. Cardinality(m.kids) + 1 THEN {}
             ELSE {[m EXCEPT !.kids = Moved(@, k, 1) \cup {<<k, x>>}]}
        [] Len(path) > 1 -> {[m EXCEPT !.kids = others \cup {<<k, y>>}] :
                               y \in UNION {Put(e[2], Tail(path), x) : e \in m.kids \ others}}
        [] OTHER -> {}

Cut(m, path) ==
  LET k == KeyOf(m, Head(path))
      others == {e \in m.kids : e[1] # k}
  IN  IF path = <<>> \/ others = m.kids THEN {}
      ELSE IF Len(path) > 1
      THEN {[m EXCEPT !.kids = others \cup {<<k, y>>}] :
              y \in UNION {Cut(e[2], Tail(path)) : e \in m.kids \ others}}
      ELSE {[m EXCEPT !.kids = IF m.type = "array" THEN Moved(others, k, -1) ELSE others]}

Expected(m, c) ==
  LET x == MeaningOf(c.value)
  IN  CASE c.op = "add" -> Put(m, c.path, x)
        [] c.op = "remove" -> Cut(m, c.path)
        [] c.op = "replace" -> IF c.path = <<>> THEN {x}
                               ELSE UNION {Put(n, c.path, x) : n \in Cut(m, c.path)}
        [] c.op = "move" -> IF c.from = <<>> /\ c.path = <<>> THEN {m}
                            ELSE UNION {UNION {Put(n, c.path, y) : y \in Get(m, c.from)} :
                                          n \in Cut(m, c.from)}
        [] c.op = "copy" -> UNION {Put(m, c.path, y) : y \in Get(m, c.from)}
        [] c.op = "test" -> {m} \cap {n \in {m} : Get(m, c.path) = {x}}

Pointer(path) == FlattenSeq([p \in DOMAIN path |-> <<Slash>> \o EncodeString(path[p])])
AsPatch(c) == Patch(c.op, Pointer(c.path), Pointer(c.from), c.value)

InTurn(m, changes) ==
  FoldLeft(LAMBDA ms, c : UNION {Expected(n, c) : n \in ms}, {m}, changes)

Result(v, changes) == ApplyPatches(v, [p \in DOMAIN changes |-> AsPatch(changes[p])], TRUE)

\* What follows is about the result r of changes, or of the one change c, of v.
Conforms(r, v, changes) ==
  LET expected == InTurn(MeaningOf(v), changes)
  IN  IF r.status = 0 THEN expected = {MeaningOf(r.v)} ELSE expected = {}

ToRoot(c) == c.op \in {"move", "copy"} /\ c.path = <<>>

\* A move or a copy that fails puts nothing; what was to be moved may be gone.
NothingPut(r, v, c) ==
  LET m == MeaningOf(v)
      taken == IF c.op = "move" THEN Cut(m, c.from) ELSE {m}
  IN  IF taken = {} \/ Get(m, c.from) = {}
      THEN r.status = 5 /\ MeaningOf(r.v) = m
      ELSE r.status \in {9, 10, 11} /\ MeaningOf(r.v) \in taken

(***************************************************************************)
(* cJSONUtils_ApplyPatches fails when RFC 6902 says that the patches fail, *)
(* and otherwise makes of an item what it says.  There are exceptions to   *)
(* what include/cJSON_Utils.h:37 claims.  A move or a copy to the root is  *)
(* refused, although the RFC has the item replace the document.  A move    *)
(* into what it moves, which the RFC forbids, is the removal and then the  *)
(* addition that any move is.  And a test sorts the objects that it        *)
(* compares, and a sorted object loses members when it grows again: here a *)
(* test is the last operation.  A move or a copy that fails changes        *)
(* nothing, but for the item to be moved: it is lost if it was found.      *)
(* Keys with a slash or a tilde are left out.                              *)
(***************************************************************************)
PatchesAct ==
  LET c == call.changes
      r == Result(call.v, c)
  IN  call.kind = "patch" /\ Ordinary(call.v) /\ (Len(c) > 1 => c[1].op # "test") =>
        /\ IF \E p \in DOMAIN c : ToRoot(c[p]) THEN r.status # 0 ELSE Conforms(r, call.v, c)
        /\ Len(c) = 1 /\ c[1].op \in {"move", "copy"} /\ r.status # 0 => NothingPut(r, call.v, c[1])
=============================================================================
