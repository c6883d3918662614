----------------------------- MODULE CJsonPrint -----------------------------
(***************************************************************************)
(* The printers of core/cJSON.c: cJSON_PrintPreallocated, which writes to  *)
(* a buffer of its caller, and cJSON_Print, cJSON_PrintUnformatted and     *)
(* cJSON_PrintBuffered, whose buffer grows.  Both kinds print the same     *)
(* item here, side by side; one that has failed has returned, and its      *)
(* buffer changes no more.                                                 *)
(***************************************************************************)
EXTENDS JsonItem

CONSTANTS
  Items,      \* the items that may be printed, and all that they contain
  Sizes,      \* the sizes of a buffer; cJSON_Print begins with 256 bytes
  IntMax      \* INT_MAX, above which no buffer grows

ASSUME PrintAssumption ==
  /\ IntMax \in Nat /\ Sizes \subseteq 0 .. IntMax
  /\ \A v \in Items :
       /\ v.type \in Printable
       /\ v.name \in Seq(Byte) \cup {NoName} /\ v.str \in Seq(Byte)
       /\ v.num \in Int /\ v.kids \in Seq(Items)

VARIABLES
  bufs,       \* the two buffers
  size,       \* what they had at first
  format,
  whole,      \* history: the text, if there were room for all of it
  printing,   \* where the printers are
  current,    \* the item that print_value gets, or had
  open        \* the calls of print_array and print_object, the innermost last,
              \* each with the items from current_element or current_item on

printVars == <<bufs, size, format, whole, printing, current, open>>

\* A buffer holds text, has memory for cap bytes, and top is the number of
\* bytes that have been written to at least once.
Buffer(cap) == [ok |-> TRUE, text |-> <<>>, cap |-> cap, top |-> 0]
Kinds == {"preallocated", "grown"}

\* ensure: room for n more bytes and the end of the string.
Ensure(b, n, kind) ==
  LET needed == n + Len(b.text) + 1
  IN  IF ~b.ok \/ needed <= b.cap THEN b
      ELSE IF b.cap \in 1 .. Len(b.text) \/ kind = "preallocated" \/ needed > IntMax
      THEN [b EXCEPT !.ok = FALSE]
      ELSE [b EXCEPT !.cap = IF needed > IntMax \div 2 THEN IntMax ELSE 2 * needed]

\* A piece of text: room for n bytes is made, then s is written, with the end
\* of the string if that counts among the written bytes.
Piece(n, s, written) == [n |-> n, s |-> s, written |-> written]

Write(b, p, kind) ==
  LET b1 == Ensure(b, p.n, kind)
  IN  IF ~b1.ok THEN b1
      ELSE [b1 EXCEPT !.text = @ \o p.s,
                      !.top = IF Len(b1.text) + p.written > @ THEN Len(b1.text) + p.written ELSE @]

Emit(p) ==
  /\ bufs' = [k \in Kinds |-> Write(bufs[k], p, k)]
  /\ whole' = whole \o p.s

Hex(n) == IF n < 10 THEN 48 + n ELSE 87 + n

\* Mutant: a backslash is taken for an ordinary byte.
EscapedByteButBackslash(c) ==
  IF c \in {Quote, LF} THEN <<Backslash, IF c = LF THEN 110 ELSE c>>
  ELSE IF c < 32 THEN <<Backslash, 117, 48, 48, Hex(c \div 16), Hex(c % 16)>>
  ELSE <<c>>

EscapedByte(c) ==
  IF \E e \in Escapes : e[2] = c
  THEN <<Backslash, (CHOOSE e \in Escapes : e[2] = c)[1]>>
  ELSE IF c < 32 THEN <<Backslash, 117, 48, 48, Hex(c \div 16), Hex(c % 16)>>
  ELSE <<c>>

\* Mutant: only one byte for every escape sequence.
ExtraBytesShort(c) == IF c < 32 \/ \E e \in Escapes : e[2] = c THEN 1 ELSE 0

\* The bytes that escaping adds for a byte.
ExtraBytes(c) == IF \E e \in Escapes : e[2] = c THEN 1 ELSE IF c < 32 THEN 5 ELSE 0

\* What the first loop of print_string_ptr counts, before anything is written.
EscapeCharacters(s) ==
  LET count[n \in 0 .. Len(s)] == IF n = 0 THEN 0 ELSE count[n - 1] + ExtraBytes(s[n])
  IN  count[Len(s)]

\* What the second loop writes.
Escaped(s) ==
  LET text[n \in 0 .. Len(s)] == IF n = 0 THEN <<>> ELSE text[n - 1] \o EscapedByte(s[n])
  IN  text[Len(s)]

\* print_string_ptr.
StringPiece(s) ==
  IF s = NoName THEN Piece(3, <<Quote, Quote>>, 3)
  ELSE Piece(Len(s) + EscapeCharacters(s) + 3, <<Quote>> \o Escaped(s) \o <<Quote>>,
             Len(Escaped(s)) + 3)

\* print_value for an item without others, and print_number.
ScalarPiece(v) ==
  CASE v.type = "null" -> Piece(5, NullText, 5)
    [] v.type = "false" -> Piece(6, FalseText, 6)
    [] v.type = "true" -> Piece(5, TrueText, 5)
    [] v.type = "number" -> Piece(Len(Decimal(v.num)) + 1, Decimal(v.num), Len(Decimal(v.num)) + 1)
    [] v.type = "string" -> StringPiece(v.str)

Tabs(n) == [p \in 1 .. n |-> Tab]
Level == Len(open)
Top == open[Len(open)]
Below == SubSeq(open, 1, Len(open) - 1)
InArray == open # <<>> /\ Top.type = "array"
InObject == open # <<>> /\ Top.type = "object"

PrintScalar ==
  /\ printing = "value" /\ current.type \notin {"array", "object"}
  /\ Emit(ScalarPiece(current))
  /\ printing' = "printed"
  /\ UNCHANGED <<size, format, current, open>>

\* The beginning of print_array and of print_object.
PrintOpen ==
  /\ printing = "value" /\ current.type \in {"array", "object"}
  /\ LET brace == IF format THEN <<LBrace, LF>> ELSE <<LBrace>>
     IN  Emit(IF current.type = "array" THEN Piece(1, <<LBracket>>, 1)
              ELSE Piece(Len(brace) + 1, brace, Len(brace)))
  /\ open' = Append(open, [type |-> current.type, rest |-> current.kids])
  /\ printing' = "loop"
  /\ UNCHANGED <<size, format, current>>

\* The loop of print_array, up to the call of print_value.
PrintElement ==
  /\ printing = "loop" /\ InArray /\ Top.rest # <<>>
  /\ current' = Head(Top.rest)
  /\ printing' = "value"
  /\ UNCHANGED <<bufs, size, format, whole, open>>

\* The loop of print_object, up to the call of print_value.
PrintIndent ==
  /\ printing = "loop" /\ InObject /\ Top.rest # <<>>
  /\ IF format THEN Emit(Piece(Level, Tabs(Level), Level)) ELSE UNCHANGED <<bufs, whole>>
  /\ printing' = "key"
  /\ UNCHANGED <<size, format, current, open>>

PrintKey ==
  /\ printing = "key"
  /\ Emit(StringPiece(Head(Top.rest).name))
  /\ printing' = "colon"
  /\ UNCHANGED <<size, format, current, open>>

PrintColon ==
  /\ printing = "colon"
  /\ LET colon == IF format THEN <<Colon, Tab>> ELSE <<Colon>>
     IN  Emit(Piece(Len(colon), colon, Len(colon)))
  /\ current' = Head(Top.rest)
  /\ printing' = "value"
  /\ UNCHANGED <<size, format, open>>

\* The loops after print_value: the comma, and the next item.
PrintComma ==
  /\ printing = "printed" /\ open # <<>>
  /\ LET more == Len(Top.rest) > 1
         comma == (IF more THEN <<Comma>> ELSE <<>>)
                  \o CASE ~format -> <<>>
                       [] format /\ InArray -> IF more THEN <<Space>> ELSE <<>>
                       [] format /\ InObject -> <<LF>>
     IN  IF InArray /\ ~more THEN UNCHANGED <<bufs, whole>>
         ELSE Emit(Piece(Len(comma) + 1, comma, Len(comma) + 1))
  /\ open' = [open EXCEPT ![Len(open)].rest = Tail(@)]
  /\ printing' = "loop"
  /\ UNCHANGED <<size, format, current>>

\* The end of print_array and of print_object.
PrintClose ==
  /\ printing = "loop" /\ Top.rest = <<>>
  /\ Emit(CASE InArray -> Piece(2, <<RBracket>>, 2)
            [] InObject /\ format -> Piece(Level + 1, Tabs(Level - 1) \o <<RBrace>>, Level + 1)
            [] InObject /\ ~format -> Piece(2, <<RBrace>>, 2))
  /\ open' = Below
  /\ printing' = "printed"
  /\ UNCHANGED <<size, format, current>>

PrintEnd ==
  /\ printing = "printed" /\ open = <<>>
  /\ printing' = "done"
  /\ UNCHANGED <<bufs, size, format, whole, current, open>>

\* No call yet.
PrintInit ==
  /\ bufs = [k \in Kinds |-> Buffer(0)] /\ size = 0 /\ whole = <<>>
  /\ format = FALSE
  /\ printing = "idle"
  /\ current = Null
  /\ open = <<>>

\* cJSON_PrintPreallocated, cJSON_PrintBuffered and print are called.
PrintItem(v, n, fmt) ==
  /\ printing \in {"idle", "done"}
  /\ bufs' = [k \in Kinds |-> Buffer(n)] /\ size' = n /\ whole' = <<>>
  /\ format' = fmt
  /\ printing' = "value"
  /\ current' = v
  /\ open' = <<>>

PrintStep ==
  \/ PrintScalar \/ PrintOpen \/ PrintElement \/ PrintIndent \/ PrintKey
  \/ PrintColon \/ PrintComma \/ PrintClose \/ PrintEnd
PrintNext == PrintStep \/ \E v \in Items, n \in Sizes, fmt \in BOOLEAN : PrintItem(v, n, fmt)
PrintSpec == PrintInit /\ [][PrintNext]_printVars
----------------------------------------------------------------------------
PrintTypeOK ==
  /\ bufs \in [Kinds -> [ok : BOOLEAN, text : Seq(Byte), cap : 0 .. IntMax, top : 0 .. IntMax]]
  /\ size \in 0 .. IntMax
  /\ format \in BOOLEAN
  /\ whole \in Seq(Byte)
  /\ printing \in {"idle", "value", "loop", "key", "colon", "printed", "done"}
  /\ current \in Items \cup {Null}
  /\ open \in Seq([type : {"array", "object"}, rest : Seq(Items)])

(***************************************************************************)
(* cJSON_PrintPreallocated writes nothing behind the end of the buffer of  *)
(* the caller, prints all of the text or says that it cannot, and can when *)
(* the buffer has one byte more than the text and its end need (the five   *)
(* that the header asks for are more than enough).  A buffer that grows    *)
(* gets the same text, whatever size it has at first, and no write to it   *)
(* goes behind its end; only INT_MAX stops it.                             *)
(***************************************************************************)
PreallocatedFits ==
  LET fixed == bufs["preallocated"]
      grown == bufs["grown"]
  IN  /\ fixed.cap = size /\ fixed.top <= size
      /\ grown.top <= grown.cap
      /\ printing = "done" =>
           /\ fixed.ok => fixed.text = whole
           /\ size >= Len(whole) + 2 => fixed.ok
           /\ grown.ok => grown.text = whole
           /\ IntMax >= Len(whole) + 2 => grown.ok
=============================================================================
