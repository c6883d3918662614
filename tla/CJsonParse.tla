----------------------------- MODULE CJsonParse -----------------------------
(***************************************************************************)
(* The parser of core/cJSON.c, for a C string: cJSON_Parse and             *)
(* cJSON_ParseWithOpts.  One step is a function's work up to the next call *)
(* of parse_value or parse_string, or one turn of a loop of parse_string.  *)
(* An offset counts from 0, as in the code.  Numbers are integers:         *)
(* fractions and exponents, which strtod deals with, are left out.         *)
(***************************************************************************)
EXTENDS JsonItem, SequencesExt, FiniteSetsExt

CONSTANTS
  Texts,          \* what may be parsed, without the byte 0 that ends it
  NestingLimit    \* CJSON_NESTING_LIMIT

ASSUME ParseAssumption ==
  /\ \A text \in Texts : text \in Seq(1 .. 255)
  /\ NestingLimit \in Nat

VARIABLES
  content,        \* what may be read: the text and the byte 0
  requireNull,    \* require_null_terminated
  offset,         \* that of the parse_buffer; at the end, *return_parse_end
  parsing,        \* where the parser is
  str,            \* the locals of parse_string
  value,          \* the item that has been parsed
  nest            \* the calls of parse_array and parse_object, the innermost
                  \* last, each with its items and the key of the next one

parseVars == <<content, requireNull, offset, parsing, str, value, nest>>

Can(o) == o < Len(content)
Is(o, c) == Can(o) /\ content[o + 1] = c
Reads(o, text) == o + Len(text) <= Len(content) /\ SubSeq(content, o + 1, o + Len(text)) = text

\* Mutant: the last byte is passed like any other.
SkipAll(t, o) ==
  LET rest == {p \in o .. Len(t) - 1 : t[p + 1] > Space}
  IN  IF o >= Len(t) THEN o ELSE IF rest = {} THEN Len(t) ELSE Min(rest)

\* buffer_skip_whitespace in the buffer t: the last byte is never passed.
SkipIn(t, o) ==
  LET rest == {p \in o .. Len(t) - 1 : t[p + 1] > Space}
  IN  IF o >= Len(t) THEN o ELSE IF rest = {} THEN Len(t) - 1 ELSE Min(rest)
Skip(o) == SkipIn(content, o)

NoString == [first |-> 0, in |-> 0, skipped |-> 0, end |-> 0, room |-> 0, out |-> <<>>]

\* Everything fails, with the offset o, up to the end of cJSON_ParseWithLengthOpts.
Fail(o) ==
  /\ parsing' = "done"
  /\ value' = Invalid
  /\ offset' = IF Can(o) THEN o ELSE Len(content) - 1
  /\ nest' = <<>>
  /\ str' = NoString
  /\ UNCHANGED <<content, requireNull>>

\* The item v has been parsed, with the offset o behind it.
Parsed(v, o) ==
  /\ parsing' = "parsed"
  /\ value' = v
  /\ offset' = o
  /\ UNCHANGED <<content, requireNull>>

\* parse_value is called with the offset o, in the calls s.
CallValue(o, s) ==
  /\ parsing' = "value"
  /\ offset' = o
  /\ nest' = s
  /\ UNCHANGED <<content, requireNull, str, value>>

CallString(o, s) ==
  /\ parsing' = "string"
  /\ offset' = o
  /\ nest' = s
  /\ UNCHANGED <<content, requireNull, str, value>>

Depth == Len(nest)
Inner == nest[Len(nest)]
Outer == SubSeq(nest, 1, Len(nest) - 1)
Call(type, kids, key) == [type |-> type, kids |-> kids, key |-> key]
----------------------------------------------------------------------------
(* parse_value, parse_number, and the beginnings of parse_array and        *)
(* parse_object.                                                           *)

Literals == {<<NullText, Null>>, <<FalseText, Bool(FALSE)>>, <<TrueText, Bool(TRUE)>>}

ParseLiteral ==
  /\ parsing = "value"
  /\ \E l \in Literals : Reads(offset, l[1]) /\ Parsed(l[2], offset + Len(l[1]))
  /\ UNCHANGED <<str, nest>>

StringBegins ==
  /\ parsing = "value" /\ Is(offset, Quote)
  /\ CallString(offset, nest)

ParseNumber ==
  /\ parsing = "value" /\ Can(offset) /\ content[offset + 1] \in Digit \cup {Minus}
  /\ LET first == IF Is(offset, Minus) THEN offset + 1 ELSE offset
         limit == IF offset + 63 < Len(content) THEN offset + 63 ELSE Len(content)
         end == Min({limit} \cup {p \in first .. limit - 1 : content[p + 1] \notin Digit})
         n[p \in first .. end] == IF p = first THEN 0 ELSE 10 * n[p - 1] + content[p] - 48
     IN  IF end = first THEN Fail(offset)
         ELSE /\ Parsed(Number(IF first = offset THEN n[end] ELSE -n[end]), end)
              /\ UNCHANGED <<str, nest>>

\* Mutant: no limit for what is nested.
ParseArrayDeep ==
  /\ parsing = "value" /\ Is(offset, LBracket)
  /\ LET first == Skip(offset + 1)
     IN  IF Is(first, RBracket) THEN Parsed(Array(<<>>), first + 1) /\ UNCHANGED <<str, nest>>
         ELSE IF ~Can(first) THEN Fail(first - 1)
         ELSE CallValue(first, Append(nest, Call("array", <<>>, NoName)))

ParseArray ==
  /\ parsing = "value" /\ Is(offset, LBracket)
  /\ LET first == Skip(offset + 1)
     IN  IF Depth >= NestingLimit THEN Fail(offset)
         ELSE IF Is(first, RBracket) THEN Parsed(Array(<<>>), first + 1) /\ UNCHANGED <<str, nest>>
         ELSE IF ~Can(first) THEN Fail(first - 1)
         ELSE CallValue(first, Append(nest, Call("array", <<>>, NoName)))

ParseObject ==
  /\ parsing = "value" /\ Is(offset, LBrace)
  /\ LET first == Skip(offset + 1)
     IN  IF Depth >= NestingLimit THEN Fail(offset)
         ELSE IF Is(first, RBrace) THEN Parsed(Object(<<>>), first + 1) /\ UNCHANGED <<str, nest>>
         ELSE IF ~Can(first) THEN Fail(first - 1)
         ELSE CallString(first, Append(nest, Call("object", <<>>, NoName)))

NoValue ==
  /\ parsing = "value"
  /\ \A l \in Literals : ~Reads(offset, l[1])
  /\ Can(offset) => content[offset + 1] \notin Digit \cup {Minus, Quote, LBracket, LBrace}
  /\ Fail(offset)
----------------------------------------------------------------------------
(* parse_string.                                                           *)

\* The byte at the offset is read before anything is known of the offset.
ParseString ==
  /\ parsing = "string"
  /\ IF content[offset + 1] # Quote THEN Fail(offset + 1)
     ELSE /\ parsing' = "measure"
          /\ str' = [NoString EXCEPT !.first = offset + 1, !.end = offset + 1]
          /\ UNCHANGED <<content, requireNull, offset, value, nest>>

\* The loop that looks for the quote at the end and counts what is skipped.
Measure ==
  /\ parsing = "measure"
  /\ Can(str.end) /\ ~Is(str.end, Quote)
  /\ IF ~Is(str.end, Backslash)
     THEN str' = [str EXCEPT !.end = @ + 1] /\ UNCHANGED <<content, requireNull, offset, parsing, value, nest>>
     ELSE IF ~Can(str.end + 1) THEN Fail(str.first)
     ELSE /\ str' = [str EXCEPT !.end = @ + 2, !.skipped = @ + 1]
          /\ UNCHANGED <<content, requireNull, offset, parsing, value, nest>>

\* The memory for the output is taken.
Measured ==
  /\ parsing = "measure"
  /\ ~Can(str.end) \/ Is(str.end, Quote)
  /\ IF ~Can(str.end) THEN Fail(str.first)
     ELSE /\ parsing' = "unescape"
          /\ str' = [str EXCEPT !.in = str.first, !.room = str.end - offset - str.skipped + 1]
          /\ UNCHANGED <<content, requireNull, offset, value, nest>>

\* The value of four digits from the offset p on, 0 if one of them is none.
ParseHex4(p) ==
  LET Value(c) == IF c \in Digit THEN c - 48
                  ELSE IF c \in 65 .. 70 THEN c - 55
                  ELSE IF c \in 97 .. 102 THEN c - 87 ELSE -1
      d == [q \in 1 .. 4 |-> Value(content[p + q])]
  IN  IF \E q \in 1 .. 4 : d[q] = -1 THEN 0
      ELSE 4096 * d[1] + 256 * d[2] + 16 * d[3] + d[4]

Utf8(c) ==
  IF c < 128 THEN <<c>>
  ELSE IF c < 2048 THEN <<192 + (c \div 64), 128 + (c % 64)>>
  ELSE IF c < 65536 THEN <<224 + (c \div 4096), 128 + ((c \div 64) % 64), 128 + (c % 64)>>
  ELSE <<240 + (c \div 262144), 128 + ((c \div 4096) % 64), 128 + ((c \div 64) % 64),
         128 + (c % 64)>>

\* The two halves of a code point above 65535.
HighHalf(c) == c \in 55296 .. 56319
LowHalf(c) == c \in 56320 .. 57343
CodePoint(first, second) == 65536 + (first % 1024) * 1024 + (second % 1024)

\* utf16_literal_to_utf8: how many bytes from the offset p on are read and what
\* is written for them; the set is empty for a failure.
Utf16ToUtf8(p, end) ==
  LET first == ParseHex4(p + 2)
      second == ParseHex4(p + 8)
  IN  IF end - p < 6 \/ LowHalf(first) THEN {}
      ELSE IF ~HighHalf(first) THEN {<<6, Utf8(first)>>}
      ELSE IF end - p < 12 \/ ~Is(p + 6, Backslash) \/ ~Is(p + 7, 117) \/ ~LowHalf(second) THEN {}
      ELSE {<<12, Utf8(CodePoint(first, second))>>}

\* What the loop may do at the offset p.
Sequences(p, end) ==
  IF content[p + 1] # Backslash THEN {<<1, <<content[p + 1]>>>>}
  ELSE IF content[p + 2] = 117 THEN Utf16ToUtf8(p, end)
  ELSE {<<2, <<e[2]>>>> : e \in {e \in Escapes \cup {<<Slash, Slash>>} : e[1] = content[p + 2]}}

\* One turn of the loop that writes the output.
Unescape ==
  /\ parsing = "unescape" /\ str.in < str.end
  /\ IF Sequences(str.in, str.end) = {} THEN Fail(str.in)
     ELSE \E s \in Sequences(str.in, str.end) :
            /\ str' = [str EXCEPT !.in = @ + s[1], !.out = @ \o s[2]]
            /\ UNCHANGED <<content, requireNull, offset, parsing, value, nest>>

\* The part of s that C sees: what comes before the first byte 0.
CString(s) == SubSeq(s, 1, Min({Len(s)} \cup {p - 1 : p \in {q \in DOMAIN s : s[q] = 0}}))

Unescaped ==
  /\ parsing = "unescape" /\ str.in >= str.end
  /\ Parsed(String(CString(str.out)), str.end + 1)
  /\ str' = NoString
  /\ UNCHANGED nest
----------------------------------------------------------------------------
(* The rest of parse_array and parse_object, and of                        *)
(* cJSON_ParseWithLengthOpts.                                              *)

\* An element has been parsed.
NextElement ==
  /\ parsing = "parsed" /\ nest # <<>> /\ Inner.type = "array"
  /\ LET next == Skip(offset)
         kids == Append(Inner.kids, value)
     IN  IF Is(next, Comma) THEN CallValue(Skip(next + 1), Append(Outer, Call("array", kids, NoName)))
         ELSE IF Is(next, RBracket)
         THEN Parsed(Array(kids), next + 1) /\ nest' = Outer /\ UNCHANGED str
         ELSE Fail(next)

\* The key of a member has been parsed.
MemberValue ==
  /\ parsing = "parsed" /\ nest # <<>> /\ Inner.type = "object" /\ Inner.key = NoName
  /\ LET colon == Skip(offset)
     IN  IF Is(colon, Colon)
         THEN CallValue(Skip(colon + 1), Append(Outer, Call("object", Inner.kids, value.str)))
         ELSE Fail(colon)

\* A member has been parsed.
NextMember ==
  /\ parsing = "parsed" /\ nest # <<>> /\ Inner.type = "object" /\ Inner.key # NoName
  /\ LET next == Skip(offset)
         kids == Append(Inner.kids, Named(Inner.key, value))
     IN  IF Is(next, Comma) THEN CallString(Skip(next + 1), Append(Outer, Call("object", kids, NoName)))
         ELSE IF Is(next, RBrace)
         THEN Parsed(Object(kids), next + 1) /\ nest' = Outer /\ UNCHANGED str
         ELSE Fail(next)

ParseEnd ==
  /\ parsing = "parsed" /\ nest = <<>>
  /\ LET end == IF requireNull THEN Skip(offset) ELSE offset
     IN  IF requireNull /\ ~Is(end, 0) THEN Fail(end)
         ELSE /\ parsing' = "done" /\ offset' = end
              /\ UNCHANGED <<content, requireNull, str, value, nest>>

\* No call yet.
ParseInit ==
  /\ content = <<0>> /\ requireNull = FALSE
  /\ offset = 0
  /\ parsing = "idle"
  /\ str = NoString
  /\ value = Invalid
  /\ nest = <<>>

\* cJSON_ParseWithOpts is called; skip_utf8_bom and buffer_skip_whitespace.
Parse(text, require) ==
  /\ parsing \in {"idle", "done"}
  /\ content' = Append(text, 0) /\ requireNull' = require
  /\ LET t == Append(text, 0)
         mark == Len(t) > 4 /\ SubSeq(t, 1, 3) = <<239, 187, 191>>
     IN  offset' = SkipIn(t, IF mark THEN 3 ELSE 0)
  /\ parsing' = "value"
  /\ str' = NoString
  /\ value' = Invalid
  /\ nest' = <<>>

ParseStep ==
  \/ ParseLiteral \/ StringBegins \/ ParseNumber \/ ParseArray \/ ParseObject \/ NoValue
  \/ ParseString \/ Measure \/ Measured \/ Unescape \/ Unescaped
  \/ NextElement \/ MemberValue \/ NextMember \/ ParseEnd
ParseNext == ParseStep \/ \E text \in Texts, require \in BOOLEAN : Parse(text, require)
ParseSpec == ParseInit /\ [][ParseNext]_parseVars
----------------------------------------------------------------------------
\* The items in value and nest are not typed: their set would be recursive.
ParseTypeOK ==
  /\ content \in Seq(0 .. 255) /\ content # <<>>
  /\ requireNull \in BOOLEAN
  /\ offset \in Nat
  /\ parsing \in {"idle", "value", "string", "measure", "unescape", "parsed", "done"}
  /\ str \in [first : Nat, in : Nat, skipped : Nat, end : Nat, room : Int, out : Seq(0 .. 255)]
  /\ Len(nest) \in 0 .. NestingLimit

(***************************************************************************)
(* Parsing a C string reads no byte behind its end and writes no byte      *)
(* behind the memory that it has taken for a string, whatever the text and *)
(* its escape sequences: parse_string reads its first byte, and unescapes, *)
(* without looking at the end, and counts on what its caller and its first *)
(* loop have seen.  Where the parser says that it stopped, for its caller  *)
(* to read on, is in the text.                                             *)
(***************************************************************************)
ReadsStayInside ==
  /\ parsing = "string" => Can(offset)
  /\ parsing = "unescape" => /\ str.in <= str.end + 1 /\ Can(str.end)
                             /\ Len(str.out) < str.room
  /\ parsing = "done" => offset \in 0 .. Len(content) - 1
=============================================================================
