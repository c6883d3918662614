------------------------------ MODULE JsonItem ------------------------------
(***************************************************************************)
(* What the functions of core/cJSON.c and core/cJSON_Utils.c that compute  *)
(* and do not share work on: JSON items as values, and bytes.  A string is *)
(* the sequence of its bytes; numbers are integers of ten digits at most.  *)
(***************************************************************************)
EXTENDS Integers, Sequences, FiniteSets

NoName == <<-1>>        \* the null pointer for a key

Byte == 1 .. 255        \* in a string, before the null byte at its end

\* Raw items, and items of no type, are left out.
Printable == {"null", "false", "true", "number", "string", "array", "object"}

(***************************************************************************)
(* An item: kids are the items of an array or an object.  end is the place *)
(* among them that prev of the first one leads to, where the next item     *)
(* will be appended: 0 for a null pointer, -1 for an item that is gone.    *)
(***************************************************************************)
NewItem(t, k) ==
  [type |-> t, name |-> NoName, str |-> <<>>, num |-> 0, kids |-> k, end |-> Len(k)]

Null == NewItem("null", <<>>)
Bool(b) == NewItem(IF b THEN "true" ELSE "false", <<>>)
String(s) == [NewItem("string", <<>>) EXCEPT !.str = s]
Number(n) == [NewItem("number", <<>>) EXCEPT !.num = n]
Array(k) == NewItem("array", k)
Object(k) == NewItem("object", k)
Invalid == NewItem("invalid", <<>>)
Named(n, v) == [v EXCEPT !.name = n]
----------------------------------------------------------------------------
\* The bytes that have a meaning.
Tab == 9
LF == 10
Space == 32
Quote == 34
Star == 42
Comma == 44
Minus == 45
Slash == 47
Colon == 58
Backslash == 92
LBracket == 91
RBracket == 93
LBrace == 123
RBrace == 125
Digit == 48 .. 57
TrueText == <<116, 114, 117, 101>>
FalseText == <<102, 97, 108, 115, 101>>
NullText == <<110, 117, 108, 108>>

\* The second byte of a short escape sequence, and the byte that it stands for.
Escapes == {<<98, 8>>, <<102, 12>>, <<110, LF>>, <<114, 13>>, <<116, Tab>>,
            <<Quote, Quote>>, <<Backslash, Backslash>>}

Powers == <<1, 10, 100, 1000, 10000, 100000, 1000000, 10000000, 100000000, 1000000000>>

\* The text of a number.
Decimal(n) ==
  LET m == IF n < 0 THEN -n ELSE n
      count == 1 + Cardinality({k \in 2 .. 10 : m >= Powers[k]})
  IN  (IF n < 0 THEN <<Minus>> ELSE <<>>)
      \o [p \in 1 .. count |-> 48 + ((m \div Powers[count - p + 1]) % 10)]
=============================================================================
