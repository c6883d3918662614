----------------------- MODULE CJsonRoundTrip_proofs -----------------------
(***************************************************************************)
(* Proofs about CJsonRoundTrip, for any items, buffers of any size and any *)
(* limit of nesting.  Doc is the text of an item.  The printers print it   *)
(* (PrintsAtFirst, StepPrints and PrintedIs in Calls_proofs); the parser   *)
(* parses the item from it (ParsesAtFirst, StepParses, ParsedIs); and      *)
(* cJSON_Minify makes of the formatted text the unformatted one: MinifyIs. *)
(***************************************************************************)
EXTENDS Calls_proofs

----------------------------------------------------------------------------
(* Numbers are read back.                                                  *)

\* Where digits end that begin at o.
RunEnd(t, o, limit) == Min({limit} \cup {p \in o .. limit - 1 : t[p + 1] \notin Digit})

LEMMA DigitRun ==
  ASSUME NEW t \in Text, NEW o \in Nat, NEW d \in Text, NEW r \in Text,
         Stands(t, o, d), Holds(t, o + Len(d), r), r # <<>>, r[1] \notin Digit,
         \A p \in 1 .. Len(d) : d[p] \in Digit,
         NEW limit \in Nat, o + Len(d) < limit
  PROVE  RunEnd(t, o, limit) = o + Len(d)
<1> DEFINE T == {limit} \cup {p \in o .. limit - 1 : t[p + 1] \notin Digit}
           e == o + Len(d)
<1>1. Len(d) \in Nat /\ Len(r) \in Nat /\ Len(r) # 0
  BY EmptySeq DEF Text
<1>2. e \in T
  <2>1. 1 \in 1 .. Len(r)
    BY <1>1
  <2>2. t[e + 1] = r[1]
    BY <2>1 DEF Holds
  <2>3. e \in o .. limit - 1
    BY <1>1
  <2> QED BY <2>2, <2>3
<1>3. ASSUME NEW p \in T PROVE e <= p
  <2>1. CASE p = limit
    BY <1>1, <2>1
  <2>2. CASE p \in o .. limit - 1 /\ t[p + 1] \notin Digit
    <3>1. CASE p < e
      <4>1. p + 1 - o \in 1 .. Len(d) /\ o + (p + 1 - o) = p + 1
        BY <1>1, <2>2, <3>1
      <4>2. t[p + 1] = d[p + 1 - o] /\ d[p + 1 - o] \in Digit
        BY <4>1 DEF Stands
      <4> QED BY <2>2, <4>2
    <3> QED BY <1>1, <2>2, <3>1
  <2> QED BY <2>1, <2>2
<1>4. T \subseteq Nat
  OBVIOUS
<1>5. Min(T) \in T /\ (\A n \in T : Min(T) <= n) /\ Min(T) \in Nat
  <2> HIDE DEF T
  <2> QED BY <1>2, <1>4, MinType
<1>6. e \in Nat
  BY <1>1
<1> HIDE DEF T, e
<1>7. Min(T) = e
  BY <1>2, <1>3, <1>5, <1>6
<1> QED BY <1>7 DEF T, e, RunEnd

\* The value of the first digits.
Solution(n, t, first, end) ==
  n = [p \in first .. end |-> IF p = first THEN 0 ELSE 10 * n[p - 1] + t[p] - 48]

LEMMA DigitsValue ==
  ASSUME NEW t \in Text, NEW first \in Nat, NEW c \in 1 .. 10, NEW m \in Nat, NEW d \in Text,
         Len(d) = c, Stands(t, first, d), m \div Powers[c] \in 0 .. 9,
         \A p \in 1 .. c : d[p] = 48 + DigitAt(m, c, p)
  PROVE  (CHOOSE n : Solution(n, t, first, first + c))[first + c] = m
<1> DEFINE end == first + c
           F == [i \in 0 .. c |-> IF i = 0 THEN 0 ELSE m \div Powers[c - i + 1]]
           f == [p \in first .. end |-> F[p - first]]
           n == CHOOSE k : Solution(k, t, first, end)
<1>1. ASSUME NEW i \in 1 .. c PROVE F[i] = 10 * F[i - 1] + t[first + i] - 48
  <2> DEFINE j == c - i + 1
  <2>1. j \in 1 .. 10 /\ i - 1 \in 0 .. c /\ i # 0 /\ (i # 1 => j \in 1 .. 9 /\ c - (i - 1) + 1 = j + 1 /\ i - 1 # 0)
        /\ (i = 1 => j = c)
    OBVIOUS
  <2>2. F[i] = m \div Powers[j]
    BY <2>1
  <2>3. t[first + i] = 48 + ((m \div Powers[j]) % 10)
    <3>1. t[first + i] = d[i] /\ d[i] = 48 + DigitAt(m, c, i)
      BY DEF Stands
    <3> QED BY <3>1 DEF DigitAt
  <2>4. m \div Powers[j] \in Int
    <3> HIDE DEF j
    <3>1. Powers[j] \in Nat /\ Powers[j] > 0
      BY <2>1, PowersType
    <3> QED BY <3>1
  <2>5. CASE i = 1
    <3> DEFINE u == m \div Powers[j]
    <3>1. F[i - 1] = 0 /\ u \in 0 .. 9
      BY <2>1, <2>5
    <3>2. F[i] = u /\ t[first + i] = 48 + (u % 10)
      BY <2>2, <2>3
    <3> HIDE DEF F, u
    <3> QED BY <3>1, <3>2
  <2>6. CASE i # 1
    <3> DEFINE u == m \div Powers[j]
               w == m \div Powers[j + 1]
    <3>1. F[i - 1] = w
      <4>1. F[i - 1] = m \div Powers[c - (i - 1) + 1]
        BY <2>1, <2>6
      <4> HIDE DEF F
      <4> QED BY <2>1, <2>6, <4>1
    <3>2. 10 * w + (u % 10) = u
      <4> HIDE DEF j
      <4> QED BY <2>1, <2>6, Horner
    <3>3. w \in Int
      <4> HIDE DEF j
      <4>1. j + 1 \in 1 .. 10
        BY <2>1, <2>6
      <4>2. Powers[j + 1] \in Nat /\ Powers[j + 1] > 0
        BY <4>1, PowersType
      <4> QED BY <4>2
    <3>4. F[i] = u /\ t[first + i] = 48 + (u % 10) /\ u \in Int
      BY <2>2, <2>3, <2>4
    <3> HIDE DEF F, u, w
    <3> QED BY <3>1, <3>2, <3>3, <3>4
  <2> QED BY <2>5, <2>6
<1>2. F[0] = 0 /\ F[c] = m
  <2>1. c \in 0 .. c /\ c # 0 /\ c - c + 1 = 1
    OBVIOUS
  <2>2. F[c] = m \div Powers[c - c + 1]
    BY <2>1
  <2>3. m \div 1 = m
    OBVIOUS
  <2> QED BY <2>1, <2>2, <2>3, PowersAre
<1> HIDE DEF F
<1>3. Solution(f, t, first, end)
  <2>1. ASSUME NEW p \in first .. end
        PROVE  f[p] = IF p = first THEN 0 ELSE 10 * f[p - 1] + t[p] - 48
    <3>1. CASE p = first
      <4>1. p - first = 0
        BY <3>1
      <4> QED BY <1>2, <3>1, <4>1
    <3>2. CASE p # first
      <4>1. p - first \in 1 .. c /\ first + (p - first) = p /\ p - 1 \in first .. end
            /\ (p - 1) - first = (p - first) - 1
        BY <3>2
      <4>2. F[p - first] = 10 * F[(p - first) - 1] + t[p] - 48
        BY <1>1, <4>1
      <4>3. f[p] = F[p - first] /\ f[p - 1] = F[(p - 1) - first]
        BY <4>1
      <4> HIDE DEF f
      <4> QED BY <3>2, <4>1, <4>2, <4>3
    <3> QED BY <3>1, <3>2
  <2>2. f = [p \in first .. end |-> f[p]]
    OBVIOUS
  <2> HIDE DEF f
  <2>3. f = [p \in first .. end |-> IF p = first THEN 0 ELSE 10 * f[p - 1] + t[p] - 48]
    BY <2>1, <2>2
  <2> QED BY <2>3 DEF Solution
<1>4. Solution(n, t, first, end)
  <2> HIDE DEF f
  <2> QED BY <1>3
<1> HIDE DEF n
<1>5. ASSUME NEW p \in first .. end PROVE n[p] = IF p = first THEN 0 ELSE 10 * n[p - 1] + t[p] - 48
  BY <1>4 DEF Solution
<1> DEFINE S == {i \in Nat : i <= c => n[first + i] = F[i]}
<1>6. 0 \in S
  <2>1. first \in first .. end /\ first + 0 = first
    OBVIOUS
  <2>2. n[first + 0] = 0
    BY <1>5, <2>1
  <2> QED BY <1>2, <2>2
<1>7. ASSUME NEW i \in Nat, i \in S PROVE i + 1 \in S
  <2> SUFFICES ASSUME i + 1 <= c PROVE n[first + (i + 1)] = F[i + 1]
    OBVIOUS
  <2> DEFINE p == first + (i + 1)
  <2>1. p \in first .. end /\ p # first /\ p - 1 = first + i /\ i + 1 \in 1 .. c /\ (i + 1) - 1 = i /\ i <= c
    OBVIOUS
  <2>2. n[first + i] = F[i]
    BY <1>7, <2>1
  <2>3. n[p] = 10 * n[p - 1] + t[p] - 48
    BY <1>5, <2>1
  <2>4. F[i + 1] = 10 * F[(i + 1) - 1] + t[p] - 48
    BY <1>1, <2>1
  <2> HIDE DEF S, p
  <2>5. n[p] = F[i + 1]
    BY <2>1, <2>2, <2>3, <2>4
  <2> QED BY <2>5 DEF p
<1>8. Nat \subseteq S
  <2> HIDE DEF S
  <2> QED BY <1>6, <1>7, Induction
<1>9. n[first + c] = m
  <2>1. c \in S /\ c <= c
    BY <1>8
  <2> QED BY <1>2, <2>1
<1> QED BY <1>9 DEF n

LEMMA NumberIs ==
  ASSUME content \in Text, offset \in Nat, NEW num \in -LargestInt .. LargestInt, NEW r \in Text,
         r # <<>>, r[1] \notin Digit, Holds(content, offset, Decimal(num) \o r), ParseNumber
  PROVE  Parsed(Number(num), offset + Len(Decimal(num))) /\ UNCHANGED <<str, nest>>
         /\ Holds(content, offset + Len(Decimal(num)), r)
<1>1. PICK c, d : DigitsAre(num, c, d)
  BY DecimalParts
<1> DEFINE a == SignText(num)
           u == Decimal(num)
           m == Size(num)
<1>2. /\ c \in 1 .. 10 /\ m \in Nat /\ m \div Powers[c] \in 0 .. 9
      /\ u = a \o d /\ d \in Text /\ Len(d) = c
      /\ \A p \in 1 .. c : d[p] \in Digit /\ d[p] = 48 + DigitAt(m, c, p)
  BY <1>1 DEF DigitsAre
<1>3. a \in Text /\ u \in Text /\ Len(u) # 0 /\ (u[1] = Minus <=> num < 0) /\ Len(u) <= 11
  BY <1>1, DecimalBegins
<1>4. Len(a) = IF num < 0 THEN 1 ELSE 0
  BY DEF SignText
<1> HIDE DEF a, u, m
<1>5. Stands(content, offset, u) /\ Holds(content, offset + Len(u), r)
  BY <1>3, HoldsNext DEF u
<1>6. Len(u) = Len(a) + c /\ Len(u) \in Nat /\ Len(content) \in Nat /\ Len(r) \in Nat /\ Len(r) # 0
  BY <1>2, <1>3, ConcatIs, EmptySeq DEF Text
<1>7. Stands(content, offset + Len(a), d) /\ Holds(content, (offset + Len(a)) + c, r)
  <2>1. (a \o d) \o r = a \o (d \o r)
    <3>1. a \in Seq(Octet) /\ d \in Seq(Octet) /\ r \in Seq(Octet)
      BY <1>2, <1>3 DEF Text
    <3> QED BY <3>1, ConcatAssociative
  <2>4. d \o r \in Text
    BY <1>2, TextConcat
  <2>2. Holds(content, offset, a \o (d \o r))
    BY <1>2, <2>1 DEF u
  <2>3. Holds(content, offset + Len(a), d \o r)
    BY <1>3, <2>2, <2>4, HoldsNext
  <2> QED BY <1>2, <2>3, HoldsNext
<1> DEFINE first == IF Is(offset, Minus) THEN offset + 1 ELSE offset
           limit == IF offset + 63 < Len(content) THEN offset + 63 ELSE Len(content)
           end == Min({limit} \cup {p \in first .. limit - 1 : content[p + 1] \notin Digit})
           n == CHOOSE k : k = [p \in first .. end |-> IF p = first THEN 0 ELSE 10 * k[p - 1] + content[p] - 48]
<1>8. IF end = first THEN Fail(offset)
      ELSE /\ Parsed(Number(IF first = offset THEN n[end] ELSE -n[end]), end)
           /\ UNCHANGED <<str, nest>>
  BY DEF ParseNumber
<1>9. first = offset + Len(a) /\ first \in Nat /\ (first = offset <=> ~(num < 0))
  <2>1. 1 \in 1 .. Len(u) /\ content[offset + 1] = u[1] /\ offset < Len(content)
    BY <1>3, <1>5, <1>6 DEF Stands
  <2>2. Is(offset, Minus) <=> num < 0
    BY <1>3, <2>1 DEF Is, Can
  <2> QED BY <1>4, <2>2
<1>10. limit \in Nat /\ first + c < limit
  <2>1. Len(content) = (offset + Len(u)) + Len(r)
    BY <1>5 DEF Holds
  <2>2. first + c = offset + Len(u)
    BY <1>2, <1>4, <1>6, <1>9
  <2> HIDE DEF first
  <2> QED BY <1>3, <1>6, <2>1, <2>2
<1> HIDE DEF first, limit
<1>11. end = first + c
  <2> DEFINE j == first
             l == limit
  <2>1. Stands(content, j, d) /\ Holds(content, j + Len(d), r) /\ j \in Nat /\ l \in Nat /\ j + Len(d) < l
    BY <1>2, <1>7, <1>9, <1>10
  <2>2. \A p \in 1 .. Len(d) : d[p] \in Digit
    BY <1>2
  <2> HIDE DEF j, l
  <2>3. RunEnd(content, j, l) = j + Len(d)
    <3>1. content \in Text /\ d \in Text /\ r \in Text /\ r # <<>> /\ r[1] \notin Digit
      BY <1>2
    <3> HIDE DEF end
    <3> QED BY <2>1, <2>2, <3>1, DigitRun
  <2>4. end = RunEnd(content, first, limit)
    BY DEF RunEnd
  <2> HIDE DEF end
  <2> QED BY <1>2, <2>3, <2>4 DEF j, l
<1>12. n[first + c] = m
  <2>1. (CHOOSE k : Solution(k, content, first, first + c))[first + c] = m
    <3> DEFINE j == first
    <3>1. Stands(content, j, d) /\ j \in Nat
      BY <1>7, <1>9
    <3>2. \A p \in 1 .. c : d[p] = 48 + DigitAt(m, c, p)
      BY <1>2
    <3> HIDE DEF j
    <3>3. (CHOOSE k : Solution(k, content, j, j + c))[j + c] = m
      BY <1>2, <3>1, <3>2, DigitsValue
    <3> QED BY <3>3 DEF j
  <2> HIDE DEF end
  <2> QED BY <1>11, <2>1 DEF Solution
<1> HIDE DEF end, n
<1>13. end # first /\ end = offset + Len(u)
  BY <1>2, <1>4, <1>6, <1>9, <1>11
<1>14. (IF first = offset THEN n[end] ELSE -n[end]) = num
  <2>1. n[end] = m
    BY <1>11, <1>12
  <2> QED BY <1>9, <2>1, LargestIs DEF m, Size
<1>15. Parsed(Number(num), offset + Len(u)) /\ UNCHANGED <<str, nest>>
  BY <1>8, <1>13, <1>14
<1> QED BY <1>5, <1>15 DEF u

----------------------------------------------------------------------------
(* Strings are read back.                                                  *)

LEMMA StandsConcat ==
  ASSUME NEW t \in Text, NEW a \in Text, NEW b \in Text, NEW o \in Nat, Stands(t, o, a \o b)
  PROVE  Stands(t, o, a) /\ Stands(t, o + Len(a), b)
<1>1. /\ Len(a \o b) = Len(a) + Len(b)
      /\ \A p \in 1 .. Len(a) : (a \o b)[p] = a[p]
      /\ \A p \in 1 .. Len(b) : (a \o b)[Len(a) + p] = b[p]
  BY ConcatIs DEF Text
<1>2. Len(a) \in Nat /\ Len(b) \in Nat /\ Len(t) \in Nat
  BY DEF Text
<1> DEFINE u == a \o b
<1> HIDE DEF u
<1>3. o + Len(u) <= Len(t) /\ \A p \in 1 .. Len(u) : t[o + p] = u[p]
  BY DEF Stands, u
<1>4. o + (Len(a) + Len(b)) <= Len(t)
  BY <1>1, <1>3 DEF u
<1>5. ASSUME NEW p \in 1 .. Len(a) PROVE t[o + p] = a[p]
  <2>1. p \in 1 .. Len(u)
    BY <1>1, <1>2 DEF u
  <2> QED BY <1>1, <1>3, <2>1 DEF u
<1>6. ASSUME NEW p \in 1 .. Len(b) PROVE t[(o + Len(a)) + p] = b[p]
  <2>1. Len(a) + p \in 1 .. Len(u) /\ (o + Len(a)) + p = o + (Len(a) + p)
    BY <1>1, <1>2 DEF u
  <2> QED BY <1>1, <1>3, <2>1 DEF u
<1> QED BY <1>2, <1>4, <1>5, <1>6 DEF Stands

\* f has the texts of the first bytes of s.
EscapedTexts(f, s) ==
  /\ f \in [0 .. Len(s) -> Text] /\ f[0] = <<>> /\ f[Len(s)] = Escaped(s)
  /\ \A n \in 1 .. Len(s) : f[n] = f[n - 1] \o EscapedByte(s[n])

LEMMA EscapedByteIsText == ASSUME NEW c \in Byte PROVE EscapedByte(c) \in Text
BY EscapedByteType, BytesAreText

LEMMA EscapedTextsExist ==
  ASSUME NEW s \in Seq(Byte)
  PROVE  \E f : EscapedTexts(f, s)
<1> DEFINE h == [z \in Text \X Byte |-> z[1] \o EscapedByte(z[2])]
           Solved(f) == f = [n \in 0 .. Len(s) |-> IF n = 0 THEN <<>> ELSE f[n - 1] \o EscapedByte(s[n])]
           d == CHOOSE f : Solved(f)
<1>1. <<>> \in Text /\ h \in [Text \X Byte -> Text]
  <2>1. ASSUME NEW z \in Text \X Byte PROVE z[1] \o EscapedByte(z[2]) \in Text
    <3>1. z[1] \in Text /\ z[2] \in Byte
      OBVIOUS
    <3>2. EscapedByte(z[2]) \in Text
      BY <3>1, EscapedByteIsText
    <3> QED BY <3>1, <3>2, TextConcat
  <2> QED BY <2>1, MarksAreText
<1>2. PICK f \in [0 .. Len(s) -> Text] : Along(f, s, <<>>, h)
  <2> HIDE DEF h
  <2> QED BY <1>1, RecursionAlong
<1>3. f = [n \in 0 .. Len(s) |-> IF n = 0 THEN <<>> ELSE h[<<f[n - 1], s[n]>>]]
  BY <1>2 DEF Along
<1>4. ASSUME NEW n \in 1 .. Len(s) PROVE h[<<f[n - 1], s[n]>>] = f[n - 1] \o EscapedByte(s[n])
  <2>1. n - 1 \in 0 .. Len(s) /\ s[n] \in Byte
    OBVIOUS
  <2>2. f[n - 1] \in Text
    BY <2>1
  <2> QED BY <2>1, <2>2
<1>5. Solved(f)
  <2> HIDE DEF h
  <2>1. \A n \in 0 .. Len(s) : n # 0 => n \in 1 .. Len(s)
    OBVIOUS
  <2>2. [n \in 0 .. Len(s) |-> IF n = 0 THEN <<>> ELSE h[<<f[n - 1], s[n]>>]] =
        [n \in 0 .. Len(s) |-> IF n = 0 THEN <<>> ELSE f[n - 1] \o EscapedByte(s[n])]
    BY <1>4, <2>1
  <2> QED BY <1>3, <2>2
<1>6. d = [n \in 0 .. Len(s) |-> IF n = 0 THEN <<>> ELSE d[n - 1] \o EscapedByte(s[n])]
  <2> HIDE DEF Solved
  <2>1. Solved(d)
    BY <1>5
  <2> HIDE DEF d
  <2> QED BY <2>1 DEF Solved
<1>7. Escaped(s) = d[Len(s)]
  BY DEF Escaped
<1> HIDE DEF d
<1>8. /\ d[0] = <<>>
      /\ \A n \in 1 .. Len(s) : d[n] = d[n - 1] \o EscapedByte(s[n])
      /\ DOMAIN d = 0 .. Len(s)
      /\ d = [n \in 0 .. Len(s) |-> d[n]]
  <2>1. 0 \in 0 .. Len(s) /\ \A n \in 1 .. Len(s) : n \in 0 .. Len(s) /\ n # 0
    OBVIOUS
  <2> QED BY <1>6, <2>1
<1> DEFINE S == {n \in Nat : n <= Len(s) => d[n] \in Text}
<1>9. 0 \in S
  BY <1>1, <1>8
<1>10. ASSUME NEW n \in Nat, n \in S PROVE n + 1 \in S
  <2>1. CASE n + 1 <= Len(s)
    <3>1. n + 1 \in 1 .. Len(s) /\ (n + 1) - 1 = n /\ s[n + 1] \in Byte /\ n <= Len(s)
      BY <2>1
    <3>2. d[n + 1] = d[(n + 1) - 1] \o EscapedByte(s[n + 1])
      BY <1>8, <3>1
    <3>3. d[n] \in Text /\ EscapedByte(s[n + 1]) \in Text
      BY <1>10, <3>1, EscapedByteIsText
    <3>4. d[n + 1] \in Text
      BY <3>1, <3>2, <3>3, TextConcat
    <3> QED BY <3>4
  <2> QED BY <2>1
<1>11. Nat \subseteq S
  <2> HIDE DEF S
  <2> QED BY <1>9, <1>10, Induction
<1>12. d \in [0 .. Len(s) -> Text]
  <2>1. \A n \in 0 .. Len(s) : d[n] \in Text
    BY <1>11
  <2> HIDE DEF S
  <2> QED BY <1>8, <2>1
<1> QED BY <1>7, <1>8, <1>12 DEF EscapedTexts

\* In t the bytes of s stand at the offsets g, and then a quote and q.
Marks(t, s, g, q) ==
  /\ s \in Seq(Byte) /\ g \in [0 .. Len(s) -> Nat]
  /\ \A n \in 1 .. Len(s) : /\ g[n] = g[n - 1] + Len(EscapedByte(s[n]))
                            /\ Stands(t, g[n - 1], EscapedByte(s[n]))
  /\ g[Len(s)] < Len(t) /\ t[g[Len(s)] + 1] = Quote /\ Holds(t, g[Len(s)] + 1, q)

LEMMA MarksExist ==
  ASSUME NEW t \in Text, NEW o \in Nat, NEW s \in Seq(Byte), NEW q \in Text,
         Holds(t, o, Escaped(s) \o (<<Quote>> \o q))
  PROVE  \E g : Marks(t, s, g, q) /\ g[0] = o
<1>1. PICK f : EscapedTexts(f, s)
  BY EscapedTextsExist
<1>2. Escaped(s) \in Text /\ <<Quote>> \o q \in Text /\ Quote \in Octet
  <2>1. <<Quote>> \in Text /\ Quote \in Octet
    BY MarksAreText
  <2> QED BY <2>1, StringText, TextConcat
<1>3. Stands(t, o, Escaped(s)) /\ Holds(t, o + Len(Escaped(s)), <<Quote>> \o q)
  BY <1>2, HoldsNext
<1>4. o + Len(Escaped(s)) < Len(t) /\ t[(o + Len(Escaped(s))) + 1] = Quote
      /\ Holds(t, (o + Len(Escaped(s))) + 1, q)
  BY <1>2, <1>3, HoldsByte
<1>5. \A n \in 0 .. Len(s) : f[n] \in Text /\ Len(f[n]) \in Nat
  BY <1>1 DEF EscapedTexts, Text
<1>6. \A n \in 1 .. Len(s) : f[n] = f[n - 1] \o EscapedByte(s[n]) /\ n - 1 \in 0 .. Len(s) /\ EscapedByte(s[n]) \in Text
  <2>1. \A n \in 1 .. Len(s) : s[n] \in Byte /\ n - 1 \in 0 .. Len(s)
    OBVIOUS
  <2> QED BY <1>1, <2>1, EscapedByteIsText DEF EscapedTexts
<1>7. Len(s) \in Nat
  OBVIOUS
<1> DEFINE S == {m \in Nat : m <= Len(s) => Stands(t, o, f[Len(s) - m])}
<1>8. 0 \in S
  <2>1. f[Len(s)] = Escaped(s) /\ Len(s) - 0 = Len(s)
    BY <1>1, <1>7 DEF EscapedTexts
  <2> QED BY <1>3, <2>1
<1>9. ASSUME NEW m \in Nat, m \in S PROVE m + 1 \in S
  <2>1. CASE m + 1 <= Len(s)
    <3> DEFINE n == Len(s) - m
    <3>1. n \in 1 .. Len(s) /\ n - 1 = Len(s) - (m + 1) /\ m <= Len(s)
      BY <1>7, <2>1
    <3>2. Stands(t, o, f[n])
      BY <1>9, <3>1
    <3> HIDE DEF n
    <3>3. f[n] = f[n - 1] \o EscapedByte(s[n]) /\ f[n - 1] \in Text /\ EscapedByte(s[n]) \in Text
      BY <1>5, <1>6, <3>1
    <3>4. Stands(t, o, f[n - 1])
      BY <3>2, <3>3, StandsConcat
    <3> QED BY <3>1, <3>4
  <2> QED BY <2>1
<1>10. Nat \subseteq S
  <2> HIDE DEF S
  <2> QED BY <1>8, <1>9, Induction
<1>11. ASSUME NEW n \in 0 .. Len(s) PROVE Stands(t, o, f[n])
  <2>1. Len(s) - n \in Nat /\ Len(s) - n <= Len(s) /\ Len(s) - (Len(s) - n) = n
    BY <1>7
  <2>2. Len(s) - n \in S
    BY <1>10, <2>1
  <2> QED BY <2>1, <2>2
<1> DEFINE g == [n \in 0 .. Len(s) |-> o + Len(f[n])]
<1>12. g \in [0 .. Len(s) -> Nat]
  BY <1>5
<1>13. ASSUME NEW n \in 1 .. Len(s)
       PROVE  g[n] = g[n - 1] + Len(EscapedByte(s[n])) /\ Stands(t, g[n - 1], EscapedByte(s[n]))
  <2> DEFINE a == f[n - 1]
             b == EscapedByte(s[n])
  <2>1. f[n] = a \o b /\ n - 1 \in 0 .. Len(s) /\ b \in Text /\ a \in Text /\ n \in 0 .. Len(s)
    <3>1. f[n] = a \o b /\ n - 1 \in 0 .. Len(s) /\ b \in Text
      BY <1>6
    <3>2. n \in 0 .. Len(s)
      OBVIOUS
    <3> HIDE DEF b
    <3> QED BY <1>5, <3>1, <3>2
  <2>2. Stands(t, o, f[n])
    BY <1>11, <2>1
  <2>3. g[n] = o + Len(f[n]) /\ g[n - 1] = o + Len(a)
    BY <2>1
  <2> HIDE DEF a, b, g
  <2>4. Stands(t, o + Len(a), b)
    BY <2>1, <2>2, StandsConcat
  <2>5. Len(a \o b) = Len(a) + Len(b) /\ Len(a) \in Nat /\ Len(b) \in Nat
    BY <2>1, ConcatIs DEF Text
  <2>6. g[n] = g[n - 1] + Len(b) /\ Stands(t, g[n - 1], b)
    BY <2>1, <2>3, <2>4, <2>5
  <2> QED BY <2>6 DEF b
<1>14. g[0] = o /\ g[Len(s)] = o + Len(Escaped(s))
  <2>1. f[0] = <<>> /\ f[Len(s)] = Escaped(s) /\ 0 \in 0 .. Len(s) /\ Len(s) \in 0 .. Len(s) /\ Len(<<>>) = 0
    BY <1>1, <1>7 DEF EscapedTexts
  <2> QED BY <2>1
<1> HIDE DEF g
<1>15. Marks(t, s, g, q)
  BY <1>4, <1>12, <1>13, <1>14 DEF Marks
<1> QED BY <1>14, <1>15

\* What a byte is printed as: itself, or two bytes, or six.
Short(c, e) == Len(e) = 2 /\ e[1] = Backslash /\ <<e[2], c>> \in Escapes
Long(c, e) ==
  /\ Len(e) = 6 /\ e[1] = Backslash /\ e[2] = 117 /\ e[3] = 48 /\ e[4] = 48
  /\ c < 32 /\ e[5] = Hex(c \div 16) /\ e[6] = Hex(c % 16)
Same(c, e) == Len(e) = 1 /\ e[1] = c /\ c # Quote /\ c # Backslash

LEMMA EscapedIs ==
  ASSUME NEW c \in Byte
  PROVE  LET e == EscapedByte(c) IN Short(c, e) \/ Long(c, e) \/ Same(c, e)
<1> DEFINE e == EscapedByte(c)
<1>1. CASE \E x \in Escapes : x[2] = c
  <2> DEFINE x == CHOOSE x \in Escapes : x[2] = c
  <2>1. x \in Escapes /\ x[2] = c
    BY <1>1
  <2>2. e = <<Backslash, x[1]>>
    BY <1>1 DEF EscapedByte
  <2> HIDE DEF x
  <2>3. x = <<x[1], x[2]>>
    BY <2>1 DEF Escapes
  <2> QED BY <2>1, <2>2, <2>3 DEF Short
<1>2. CASE ~(\E x \in Escapes : x[2] = c) /\ c < 32
  <2>1. e = <<Backslash, 117, 48, 48, Hex(c \div 16), Hex(c % 16)>>
    BY <1>2 DEF EscapedByte
  <2> QED BY <1>2, <2>1 DEF Long
<1>3. CASE ~(\E x \in Escapes : x[2] = c) /\ ~(c < 32)
  <2>1. e = <<c>>
    BY <1>3 DEF EscapedByte
  <2>2. <<Quote, Quote>> \in Escapes /\ <<Backslash, Backslash>> \in Escapes
    BY DEF Escapes
  <2>3. c # Quote /\ c # Backslash
    BY <1>3, <2>2
  <2> QED BY <2>1, <2>3 DEF Same
<1> QED BY <1>1, <1>2, <1>3

LEMMA HexIs ==
  ASSUME NEW n \in 0 .. 15
  PROVE  /\ Hex(n) # Quote /\ Hex(n) # Backslash
         /\ IF Hex(n) \in Digit THEN Hex(n) - 48 = n
            ELSE Hex(n) \notin 65 .. 70 /\ Hex(n) \in 97 .. 102 /\ Hex(n) - 87 = n
BY DEF Hex, Quote, Backslash, Digit

\* What parse_string reads of each of them.
LEMMA HexRead ==
  ASSUME NEW p \in Nat, NEW c \in Byte, NEW e, Long(c, e), Stands(content, p, e)
  PROVE  ParseHex4(p + 2) = c
<1>1. c \div 16 \in 0 .. 15 /\ c % 16 \in 0 .. 15 /\ 16 * (c \div 16) + (c % 16) = c
  BY SMT DEF Long, Byte
<1> DEFINE Value(x) == IF x \in Digit THEN x - 48
                      ELSE IF x \in 65 .. 70 THEN x - 55
                      ELSE IF x \in 97 .. 102 THEN x - 87 ELSE -1
           d == [q \in 1 .. 4 |-> Value(content[(p + 2) + q])]
           a == c \div 16
           b == c % 16
<1>2. ParseHex4(p + 2) = IF \E q \in 1 .. 4 : d[q] = -1 THEN 0
                         ELSE 4096 * d[1] + 256 * d[2] + 16 * d[3] + d[4]
  BY Zenon DEF ParseHex4
<1>3. Value(48) = 0 /\ Value(Hex(a)) = a /\ Value(Hex(b)) = b
  <2>1. a \in 0 .. 15 /\ b \in 0 .. 15
    BY <1>1
  <2> HIDE DEF a, b
  <2>2. Value(Hex(a)) = a
    BY <2>1, HexIs
  <2>3. Value(Hex(b)) = b
    BY <2>1, HexIs
  <2>4. Value(48) = 0
    BY DEF Digit
  <2> QED BY <2>2, <2>3, <2>4
<1>4. /\ content[(p + 2) + 1] = 48 /\ content[(p + 2) + 2] = 48
      /\ content[(p + 2) + 3] = Hex(a) /\ content[(p + 2) + 4] = Hex(b)
  <2>1. \A q \in 1 .. 6 : content[p + q] = e[q]
    BY DEF Stands, Long
  <2>2. 3 \in 1 .. 6 /\ 4 \in 1 .. 6 /\ 5 \in 1 .. 6 /\ 6 \in 1 .. 6
        /\ p + 3 = (p + 2) + 1 /\ p + 4 = (p + 2) + 2 /\ p + 5 = (p + 2) + 3 /\ p + 6 = (p + 2) + 4
    OBVIOUS
  <2>3. e[3] = 48 /\ e[4] = 48 /\ e[5] = Hex(a) /\ e[6] = Hex(b)
    BY DEF Long
  <2> HIDE DEF a, b
  <2> QED BY <2>1, <2>2, <2>3
<1>5. d[1] = 0 /\ d[2] = 0 /\ d[3] = a /\ d[4] = b /\ \A q \in 1 .. 4 : q = 1 \/ q = 2 \/ q = 3 \/ q = 4
  <2> HIDE DEF Value, a, b
  <2> QED BY <1>3, <1>4
<1> HIDE DEF d, Value
<1>6. a \in 0 .. 15 /\ b \in 0 .. 15 /\ 16 * a + b = c
  BY <1>1
<1> HIDE DEF a, b
<1> QED BY <1>2, <1>5, <1>6

LEMMA SequenceIs ==
  ASSUME content \in Text, NEW p \in Nat, NEW c \in Byte, Stands(content, p, EscapedByte(c)),
         NEW end \in Nat, p + Len(EscapedByte(c)) <= end
  PROVE  Sequences(p, end) = {<<Len(EscapedByte(c)), <<c>>>>}
<1> DEFINE e == EscapedByte(c)
<1>1. Short(c, e) \/ Long(c, e) \/ Same(c, e)
  BY EscapedIs
<1>2. \A q \in 1 .. Len(e) : content[p + q] = e[q]
  BY DEF Stands
<1> HIDE DEF e
<1>3. CASE Same(c, e)
  <2>1. content[p + 1] = c /\ c # Backslash /\ Len(e) = 1
    BY <1>2, <1>3 DEF Same
  <2> QED BY <2>1 DEF Sequences, e
<1>4. CASE Short(c, e)
  <2>1. content[p + 1] = Backslash /\ content[p + 2] = e[2] /\ Len(e) = 2 /\ <<e[2], c>> \in Escapes
    BY <1>2, <1>4 DEF Short
  <2> DEFINE b == e[2]
             E == {x \in Escapes \cup {<<Slash, Slash>>} : x[1] = b}
  <2>2. b # 117
    BY <2>1 DEF Escapes, Quote, Backslash, LF, Tab
  <2>3. E = {<<b, c>>}
    <3> HIDE DEF b
    <3>1. <<b, c>> \in Escapes
      BY <2>1 DEF b
    <3> QED BY <3>1 DEF Escapes, Quote, Backslash, LF, Tab, Slash
  <2>4. Sequences(p, end) = {<<2, <<x[2]>>>> : x \in E}
    BY <2>1, <2>2 DEF Sequences
  <2> HIDE DEF E, b
  <2>5. Sequences(p, end) = {<<2, <<c>>>>}
    BY <2>3, <2>4
  <2> QED BY <2>1, <2>5 DEF e
<1>5. CASE Long(c, e)
  <2>1. content[p + 1] = Backslash /\ content[p + 2] = 117 /\ Len(e) = 6
    BY <1>2, <1>5 DEF Long
  <2>2. ParseHex4(p + 2) = c
    BY <1>5, HexRead DEF e
  <2>3. c \in Nat /\ c < 128 /\ ~LowHalf(c) /\ ~HighHalf(c)
    <3>1. c < 32 /\ c \in Nat
      BY <1>5 DEF Long, Byte
    <3> QED BY <3>1 DEF LowHalf, HighHalf
  <2>4. ~(end - p < 6)
    BY <2>1 DEF e
  <2>5. Utf8(c) = <<c>>
    BY <2>3 DEF Utf8
  <2>6. Utf16ToUtf8(p, end) = {<<6, <<c>>>>}
    BY <2>2, <2>3, <2>4, <2>5 DEF Utf16ToUtf8
  <2>7. Sequences(p, end) = Utf16ToUtf8(p, end)
    BY <2>1 DEF Sequences, Backslash
  <2> QED BY <2>1, <2>6, <2>7 DEF e
<1> QED BY <1>1, <1>3, <1>4, <1>5

LEMMA CStringIs ==
  ASSUME NEW s \in Seq(Byte)
  PROVE  CString(s) = s
<1> DEFINE T == {p - 1 : p \in {q \in DOMAIN s : s[q] = 0}}
<1>1. \A q \in DOMAIN s : s[q] # 0
  <2>1. \A q \in DOMAIN s : s[q] \in Byte
    OBVIOUS
  <2>2. 0 \notin Byte
    BY DEF Byte
  <2> QED BY <2>1, <2>2
<1>2. {Len(s)} \cup T = {Len(s)}
  BY <1>1
<1>3. Min({Len(s)}) = Len(s)
  <2>1. Len(s) \in Nat
    OBVIOUS
  <2>2. Min({Len(s)}) \in {Len(s)}
    BY <2>1, MinType
  <2> QED BY <2>2
<1>4. CString(s) = SubSeq(s, 1, Len(s))
  BY <1>2, <1>3 DEF CString
<1> QED BY <1>4

LEMMA MarkIs ==
  ASSUME NEW t \in Text, NEW s, NEW g, NEW q, Marks(t, s, g, q), NEW j \in 0 .. Len(s), j < Len(s)
  PROVE  LET c == s[j + 1]
             e == EscapedByte(c)
         IN  /\ c \in Byte /\ Stands(t, g[j], e) /\ j + 1 \in 0 .. Len(s) /\ g[j] \in Nat
             /\ Short(c, e) \/ Long(c, e) \/ Same(c, e)
             /\ Len(e) \in Nat \ {0} /\ g[j + 1] = g[j] + Len(e) /\ g[j] < Len(t)
             /\ t[g[j] + 1] = e[1]
<1> DEFINE n == j + 1
           c == s[n]
           e == EscapedByte(c)
<1>1. n \in 1 .. Len(s) /\ n - 1 = j /\ n \in 0 .. Len(s) /\ s \in Seq(Byte)
  BY DEF Marks
<1> HIDE DEF n
<1>2. c \in Byte
  BY <1>1
<1>3. g[n] = g[n - 1] + Len(e) /\ Stands(t, g[n - 1], e) /\ g[j] \in Nat
  BY <1>1 DEF Marks
<1>4. Short(c, e) \/ Long(c, e) \/ Same(c, e)
  BY <1>2, EscapedIs
<1> HIDE DEF e, c
<1>5. Len(e) \in Nat \ {0}
  BY <1>4 DEF Short, Long, Same
<1>6. g[j] < Len(t) /\ t[g[j] + 1] = e[1]
  <2>1. Len(t) \in Nat /\ 1 \in 1 .. Len(e)
    BY <1>5 DEF Text
  <2> QED BY <1>1, <1>3, <1>5, <2>1 DEF Stands
<1> QED BY <1>1, <1>2, <1>3, <1>4, <1>5, <1>6 DEF n, c, e

LEMMA MarksGrow ==
  ASSUME NEW t \in Text, NEW s, NEW g, NEW q, Marks(t, s, g, q), NEW j \in 0 .. Len(s)
  PROVE  /\ g[j] <= g[Len(s)] /\ g[j] \in Nat /\ g[Len(s)] \in Nat
         /\ j < Len(s) => g[j] + Len(EscapedByte(s[j + 1])) <= g[Len(s)] /\ g[j] < g[Len(s)]
<1>1. Len(s) \in Nat /\ g \in [0 .. Len(s) -> Nat]
  BY DEF Marks
<1> DEFINE S == {m \in Nat : m <= Len(s) => g[Len(s) - m] <= g[Len(s)]}
<1>2. 0 \in S
  <2>1. Len(s) \in 0 .. Len(s) /\ Len(s) - 0 = Len(s)
    BY <1>1
  <2>2. g[Len(s)] \in Nat
    BY <1>1, <2>1
  <2> QED BY <2>1, <2>2
<1>3. ASSUME NEW m \in Nat, m \in S PROVE m + 1 \in S
  <2>1. CASE m + 1 <= Len(s)
    <3> DEFINE i == Len(s) - (m + 1)
    <3>1. i \in 0 .. Len(s) /\ i < Len(s) /\ i + 1 = Len(s) - m /\ m <= Len(s) /\ i + 1 \in 0 .. Len(s)
      BY <1>1, <2>1
    <3>2. g[i + 1] <= g[Len(s)]
      BY <1>3, <3>1
    <3> HIDE DEF i
    <3> DEFINE b == Len(EscapedByte(s[i + 1]))
    <3>3. b \in Nat \ {0} /\ g[i + 1] = g[i] + b /\ g[i] \in Nat
      BY <3>1, MarkIs
    <3>4. g[Len(s)] \in Nat
      BY <1>1
    <3> HIDE DEF b
    <3>5. g[i] <= g[Len(s)]
      BY <3>2, <3>3, <3>4
    <3> QED BY <3>5 DEF i
  <2> QED BY <2>1
<1>4. Nat \subseteq S
  <2> HIDE DEF S
  <2> QED BY <1>2, <1>3, Induction
<1>5. \A i \in 0 .. Len(s) : g[i] <= g[Len(s)] /\ g[i] \in Nat
  <2>1. ASSUME NEW i \in 0 .. Len(s) PROVE g[i] <= g[Len(s)] /\ g[i] \in Nat
    <3>1. Len(s) - i \in Nat /\ Len(s) - i <= Len(s) /\ Len(s) - (Len(s) - i) = i
      BY <1>1
    <3>2. Len(s) - i \in S
      BY <1>4, <3>1
    <3> QED BY <1>1, <3>1, <3>2
  <2> QED BY <2>1
<1>6. Len(s) \in 0 .. Len(s)
  BY <1>1
<1>7. ASSUME j < Len(s) PROVE g[j] + Len(EscapedByte(s[j + 1])) <= g[Len(s)] /\ g[j] < g[Len(s)]
  <2> DEFINE b == Len(EscapedByte(s[j + 1]))
  <2>1. b \in Nat \ {0} /\ g[j + 1] = g[j] + b /\ j + 1 \in 0 .. Len(s) /\ g[j] \in Nat
    BY <1>7, MarkIs
  <2>2. g[j + 1] <= g[Len(s)] /\ g[Len(s)] \in Nat
    BY <1>5, <1>6, <2>1
  <2> HIDE DEF b
  <2>3. g[j] + b <= g[Len(s)] /\ g[j] < g[Len(s)]
    BY <2>1, <2>2
  <2> QED BY <2>3 DEF b
<1> QED BY <1>5, <1>6, <1>7

\* parse_string reads the string s, which q follows: its first loop has come to a byte of
\* s, or into an escape sequence of six bytes, and its second loop to a byte of s.
MeasuredTo(s, g, q) ==
  /\ Marks(content, s, g, q) /\ g[0] = str.first /\ str.out = <<>>
  /\ \E j \in 0 .. Len(s), d \in {0, 2, 3, 4, 5} :
       /\ str.end = g[j] + d
       /\ d # 0 => j < Len(s) /\ Long(s[j + 1], EscapedByte(s[j + 1]))
UnescapedTo(s, g, q) ==
  /\ Marks(content, s, g, q) /\ str.end = g[Len(s)]
  /\ \E j \in 0 .. Len(s) : str.in = g[j] /\ str.out = SubSeq(s, 1, j)
ReadsString(s, q) ==
  /\ parsing = "string" => Holds(content, offset, StringPiece(s).s \o q)
  /\ parsing = "measure" => \E g : MeasuredTo(s, g, q)
  /\ parsing = "unescape" => \E g : UnescapedTo(s, g, q)

LEMMA ParseStringReads ==
  ASSUME ParseInv, ParseString, NEW s \in Seq(Byte), NEW q \in Text, ReadsString(s, q)
  PROVE  ReadsString(s, q)' /\ parsing' = "measure" /\ UNCHANGED <<content, requireNull, offset, value, nest>>
<1>1. content \in Text /\ offset \in Nat
  BY Here
<1>2. Holds(content, offset, StringPiece(s).s \o q)
  BY DEF ParseString, ReadsString
<1> DEFINE u == Escaped(s)
           m == <<Quote>>
<1>3. StringPiece(s).s = m \o (u \o m) /\ u \in Text /\ u \o m \in Text /\ m \in Text /\ Quote \in Octet
  BY StringText, MarksAreText
<1>4. (m \o (u \o m)) \o q = m \o (u \o (m \o q)) /\ u \o (m \o q) \in Text
  <2> HIDE DEF u, m
  <2>1. u \in Seq(Octet) /\ m \in Seq(Octet) /\ q \in Seq(Octet) /\ u \o m \in Seq(Octet)
    BY <1>3 DEF Text
  <2>2. (m \o (u \o m)) \o q = m \o ((u \o m) \o q)
    BY <2>1, ConcatAssociative
  <2>3. (u \o m) \o q = u \o (m \o q)
    BY <2>1, ConcatAssociative
  <2>4. m \o q \in Text
    BY <1>3, TextConcat
  <2> QED BY <1>3, <2>2, <2>3, <2>4, TextConcat
<1>5. content[offset + 1] = Quote /\ Holds(content, offset + 1, u \o (m \o q))
  <2>1. Holds(content, offset, m \o (u \o (m \o q)))
    BY <1>2, <1>3, <1>4
  <2> DEFINE x == u \o (m \o q)
  <2>2. x \in Text /\ Holds(content, offset, <<Quote>> \o x)
    BY <1>4, <2>1
  <2> HIDE DEF x
  <2>3. content[offset + 1] = Quote /\ Holds(content, offset + 1, x)
    BY <1>1, <1>3, <2>2, HoldsByte
  <2> QED BY <2>3 DEF x
<1>6. PICK g : Marks(content, s, g, q) /\ g[0] = offset + 1
  BY <1>1, <1>5, MarksExist
<1>7. /\ parsing' = "measure" /\ str' = [NoString EXCEPT !.first = offset + 1, !.end = offset + 1]
      /\ UNCHANGED <<content, requireNull, offset, value, nest>>
  BY <1>5 DEF ParseString
<1>8. str'.first = offset + 1 /\ str'.end = offset + 1 /\ str'.out = <<>>
  BY <1>7 DEF NoString
<1>9. MeasuredTo(s, g, q)'
  <2>1. 0 \in 0 .. Len(s) /\ str'.end = g[0] + 0
    BY <1>1, <1>6, <1>8
  <2> QED BY <1>6, <1>7, <1>8, <2>1 DEF MeasuredTo
<1> QED BY <1>7, <1>9 DEF ReadsString

\* Of the bytes that a string is printed as, the first is no quote, nor are those behind
\* the second one of a long escape sequence, which are no backslashes either.
LEMMA LongBytes ==
  ASSUME NEW c \in Byte, NEW e, Long(c, e), NEW d \in {2, 3, 4, 5}
  PROVE  e[d + 1] # Quote /\ e[d + 1] # Backslash
<1>1. c \div 16 \in 0 .. 15 /\ c % 16 \in 0 .. 15
  BY SMT DEF Long, Byte
<1>2. /\ Hex(c \div 16) # Quote /\ Hex(c \div 16) # Backslash
      /\ Hex(c % 16) # Quote /\ Hex(c % 16) # Backslash
  BY <1>1, HexIs
<1>3. e[3] = 48 /\ e[4] = 48 /\ e[5] = Hex(c \div 16) /\ e[6] = Hex(c % 16)
  BY DEF Long
<1>4. \A x \in {3, 4, 5, 6} : e[x] # Quote /\ e[x] # Backslash
  BY <1>2, <1>3 DEF Quote, Backslash
<1>5. d + 1 \in {3, 4, 5, 6}
  OBVIOUS
<1> QED BY <1>4, <1>5

LEMMA MeasureReads ==
  ASSUME ParseInv, Measure, NEW s \in Seq(Byte), NEW q \in Text, ReadsString(s, q)
  PROVE  ReadsString(s, q)' /\ parsing' = parsing /\ UNCHANGED <<content, requireNull, offset, value, nest>>
<1>1. content \in Text /\ str \in StrType /\ Len(content) \in Nat
  BY Here
<1>2. PICK g : MeasuredTo(s, g, q)
  BY DEF Measure, ReadsString
<1>3. PICK j \in 0 .. Len(s), d \in {0, 2, 3, 4, 5} :
        /\ str.end = g[j] + d
        /\ d # 0 => j < Len(s) /\ Long(s[j + 1], EscapedByte(s[j + 1]))
  BY <1>2 DEF MeasuredTo
<1>4. Marks(content, s, g, q) /\ g[0] = str.first /\ str.out = <<>>
  BY <1>2 DEF MeasuredTo
<1>5. j < Len(s)
  <2>1. CASE ~(j < Len(s))
    <3>1. j = Len(s) /\ d = 0
      BY <1>3, <2>1
    <3>2. str.end = g[Len(s)]
      <4>1. g[j] \in Nat
        BY <1>4 DEF Marks
      <4> QED BY <1>3, <3>1, <4>1
    <3>3. Is(str.end, Quote)
      BY <1>4, <3>2 DEF Marks, Is, Can
    <3> QED BY <3>3 DEF Measure
  <2> QED BY <2>1
<1> DEFINE c == s[j + 1]
           e == EscapedByte(c)
           n == str.end
<1>6. /\ c \in Byte /\ Stands(content, g[j], e) /\ j + 1 \in 0 .. Len(s) /\ g[j] \in Nat
      /\ Short(c, e) \/ Long(c, e) \/ Same(c, e)
      /\ Len(e) \in Nat \ {0} /\ g[j + 1] = g[j] + Len(e)
      /\ content[g[j] + 1] = e[1]
  BY <1>1, <1>4, <1>5, MarkIs
<1>7. n = g[j] + d /\ n \in Nat /\ (d # 0 => Long(c, e))
  BY <1>3, <1>6
<1>8. ASSUME NEW i \in 0 .. Len(s), NEW b \in {0, 2, 3, 4, 5}, str'.end = g[i] + b,
             b # 0 => i < Len(s) /\ Long(s[i + 1], EscapedByte(s[i + 1])),
             str'.first = str.first, str'.out = str.out, parsing' = parsing,
             UNCHANGED <<content, requireNull, offset, value, nest>>
      PROVE  ReadsString(s, q)' /\ parsing' = parsing /\ UNCHANGED <<content, requireNull, offset, value, nest>>
  <2>1. MeasuredTo(s, g, q)'
    <3>1. Marks(content', s, g, q)
      BY <1>4, <1>8
    <3> QED BY <1>4, <1>8, <3>1 DEF MeasuredTo
  <2>2. parsing' = "measure"
    BY <1>8 DEF Measure
  <2> QED BY <1>8, <2>1, <2>2 DEF ReadsString
<1>9. g[j] + Len(e) < Len(content)
  <2>1. g[j] + Len(EscapedByte(s[j + 1])) <= g[Len(s)] /\ g[Len(s)] \in Nat
    BY <1>1, <1>4, <1>5, MarksGrow
  <2>2. g[Len(s)] < Len(content)
    BY <1>4 DEF Marks
  <2> HIDE DEF e
  <2>3. g[j] + Len(e) <= g[Len(s)]
    BY <2>1 DEF e
  <2> QED BY <1>1, <1>6, <2>1, <2>2, <2>3
<1> HIDE DEF c, e
<1>10. CASE d = 0 /\ Same(c, e)
  <2>1. content[n + 1] # Backslash /\ Len(e) = 1
    BY <1>6, <1>7, <1>10 DEF Same
  <2>2. str' = [str EXCEPT !.end = @ + 1] /\ parsing' = parsing
        /\ UNCHANGED <<content, requireNull, offset, value, nest>>
    BY <2>1 DEF Measure, Is
  <2>3. str'.end = g[j + 1] + 0 /\ str'.first = str.first /\ str'.out = str.out
    BY <1>1, <1>6, <1>7, <1>10, <2>1, <2>2 DEF StrType
  <2> QED BY <1>6, <1>8, <2>2, <2>3
<1>11. CASE d = 0 /\ (Short(c, e) \/ Long(c, e))
  <2>1. content[n + 1] = Backslash /\ Len(e) \in {2, 6}
    BY <1>6, <1>7, <1>11 DEF Short, Long
  <2>2. Can(n + 1) /\ Is(n, Backslash)
    <3>1. n + 1 < Len(content) /\ n < Len(content)
      BY <1>1, <1>6, <1>7, <1>9, <1>11, <2>1
    <3> QED BY <2>1, <3>1 DEF Can, Is
  <2>3. str' = [str EXCEPT !.end = @ + 2, !.skipped = @ + 1] /\ parsing' = parsing
        /\ UNCHANGED <<content, requireNull, offset, value, nest>>
    BY <2>2 DEF Measure
  <2>4. str'.end = n + 2 /\ str'.first = str.first /\ str'.out = str.out
    BY <1>1, <2>3 DEF StrType
  <2>5. CASE Short(c, e)
    <3>1. str'.end = g[j + 1] + 0
      BY <1>6, <1>7, <1>11, <2>4, <2>5 DEF Short
    <3> QED BY <1>6, <1>8, <2>3, <2>4, <3>1
  <2>6. CASE Long(c, e)
    <3>1. str'.end = g[j] + 2
      BY <1>6, <1>7, <1>11, <2>4
    <3>2. Long(s[j + 1], EscapedByte(s[j + 1]))
      BY <2>6 DEF c, e
    <3> QED BY <1>5, <1>8, <2>3, <2>4, <3>1, <3>2
  <2> QED BY <1>11, <2>5, <2>6
<1>12. CASE d # 0
  <2>1. Long(c, e) /\ d \in {2, 3, 4, 5} /\ Len(e) = 6
    BY <1>7, <1>12 DEF Long
  <2>2. content[n + 1] = e[d + 1]
    <3>1. d + 1 \in 1 .. Len(e) /\ n + 1 = g[j] + (d + 1)
      BY <1>6, <1>7, <2>1
    <3> QED BY <1>6, <3>1 DEF Stands
  <2>3. content[n + 1] # Backslash
    BY <1>6, <2>1, <2>2, LongBytes
  <2>4. str' = [str EXCEPT !.end = @ + 1] /\ parsing' = parsing
        /\ UNCHANGED <<content, requireNull, offset, value, nest>>
    BY <2>3 DEF Measure, Is
  <2>5. str'.end = n + 1 /\ str'.first = str.first /\ str'.out = str.out
    BY <1>1, <2>4 DEF StrType
  <2>6. CASE d = 5
    <3>1. str'.end = g[j + 1] + 0
      BY <1>6, <1>7, <2>1, <2>5, <2>6
    <3> QED BY <1>6, <1>8, <2>4, <2>5, <3>1
  <2>7. CASE d # 5
    <3>1. d + 1 \in {0, 2, 3, 4, 5} /\ str'.end = g[j] + (d + 1)
      BY <1>6, <1>7, <2>1, <2>5, <2>7
    <3>2. Long(s[j + 1], EscapedByte(s[j + 1]))
      BY <2>1 DEF c, e
    <3> QED BY <1>5, <1>8, <2>4, <2>5, <3>1, <3>2
  <2> QED BY <2>6, <2>7
<1> QED BY <1>6, <1>10, <1>11, <1>12

LEMMA MeasuredReads ==
  ASSUME ParseInv, Measured, NEW s \in Seq(Byte), NEW q \in Text, ReadsString(s, q)
  PROVE  ReadsString(s, q)' /\ parsing' = "unescape" /\ UNCHANGED <<content, requireNull, offset, value, nest>>
<1>1. content \in Text /\ str \in StrType /\ Len(content) \in Nat
  BY Here
<1>2. PICK g : MeasuredTo(s, g, q)
  BY DEF Measured, ReadsString
<1>3. PICK j \in 0 .. Len(s), d \in {0, 2, 3, 4, 5} :
        /\ str.end = g[j] + d
        /\ d # 0 => j < Len(s) /\ Long(s[j + 1], EscapedByte(s[j + 1]))
  BY <1>2 DEF MeasuredTo
<1>4. Marks(content, s, g, q) /\ g[0] = str.first /\ str.out = <<>>
  BY <1>2 DEF MeasuredTo
<1> DEFINE c == s[j + 1]
           e == EscapedByte(c)
           n == str.end
<1>5. CASE j < Len(s)
  <2>1. /\ c \in Byte /\ Stands(content, g[j], e) /\ g[j] \in Nat
        /\ Short(c, e) \/ Long(c, e) \/ Same(c, e)
        /\ content[g[j] + 1] = e[1] /\ g[j] < Len(content)
    BY <1>1, <1>4, <1>5, MarkIs
  <2>2. n = g[j] + d /\ n \in Nat /\ (d # 0 => Long(c, e))
    BY <1>3, <2>1
  <2> HIDE DEF c, e
  <2>3. CASE d = 0
    <3>1. content[n + 1] # Quote
      <4>1. e[1] # Quote
        BY <2>1 DEF Short, Long, Same, Quote, Backslash
      <4> QED BY <2>1, <2>2, <2>3, <4>1
    <3>2. Can(n)
      BY <2>1, <2>2, <2>3 DEF Can
    <3> QED BY <3>1, <3>2 DEF Measured, Is
  <2>4. CASE d # 0
    <3>1. Long(c, e) /\ d \in {2, 3, 4, 5} /\ Len(e) = 6
      BY <2>2, <2>4 DEF Long
    <3>2. content[n + 1] = e[d + 1] /\ n < Len(content)
      <4>1. d + 1 \in 1 .. Len(e) /\ n + 1 = g[j] + (d + 1)
        BY <2>1, <2>2, <3>1
      <4>2. g[j] + Len(e) <= Len(content) /\ content[g[j] + (d + 1)] = e[d + 1]
        BY <2>1, <4>1 DEF Stands
      <4>3. content[n + 1] = e[d + 1]
        BY <4>1, <4>2
      <4>4. /\ g[j] \in Nat /\ Len(content) \in Nat /\ d \in {2, 3, 4, 5} /\ n = g[j] + d
            /\ g[j] + 6 <= Len(content)
        BY <1>1, <2>1, <2>2, <3>1, <4>2
      <4> HIDE DEF n
      <4>5. n < Len(content)
        BY ONLY <4>4
      <4> QED BY <4>3, <4>5
    <3>3. content[n + 1] # Quote
      BY <2>1, <3>1, <3>2, LongBytes
    <3> QED BY <3>2, <3>3 DEF Measured, Is, Can
  <2> QED BY <2>3, <2>4
<1>6. CASE ~(j < Len(s))
  <2>1. str.end = g[Len(s)]
    <3>1. j = Len(s) /\ d = 0
      BY <1>3, <1>6
    <3>2. g[j] \in Nat
      BY <1>4 DEF Marks
    <3> QED BY <1>3, <3>1, <3>2
  <2>2. Can(str.end)
    BY <1>4, <2>1 DEF Marks, Can
  <2>3. /\ parsing' = "unescape"
        /\ str' = [str EXCEPT !.in = str.first, !.room = str.end - offset - str.skipped + 1]
        /\ UNCHANGED <<content, requireNull, offset, value, nest>>
    BY <2>2 DEF Measured
  <2>4. str'.in = g[0] /\ str'.out = <<>> /\ str'.end = g[Len(s)]
    BY <1>1, <1>4, <2>1, <2>3 DEF StrType
  <2>5. SubSeq(s, 1, 0) = <<>> /\ 0 \in 0 .. Len(s)
    OBVIOUS
  <2>6. UnescapedTo(s, g, q)'
    <3>1. Marks(content', s, g, q)
      BY <1>4, <2>3
    <3> QED BY <2>4, <2>5, <3>1 DEF UnescapedTo
  <2> QED BY <2>3, <2>6 DEF ReadsString
<1> QED BY <1>5, <1>6

LEMMA UnescapeReads ==
  ASSUME ParseInv, Unescape, NEW s \in Seq(Byte), NEW q \in Text, ReadsString(s, q)
  PROVE  ReadsString(s, q)' /\ parsing' = parsing /\ UNCHANGED <<content, requireNull, offset, value, nest>>
<1>1. content \in Text /\ str \in StrType /\ Len(content) \in Nat
  BY Here
<1>2. PICK g : UnescapedTo(s, g, q)
  BY DEF Unescape, ReadsString
<1>3. PICK j \in 0 .. Len(s) : str.in = g[j] /\ str.out = SubSeq(s, 1, j)
  BY <1>2 DEF UnescapedTo
<1>4. Marks(content, s, g, q) /\ str.end = g[Len(s)] /\ str.in < str.end
  BY <1>2 DEF UnescapedTo, Unescape
<1>5. j < Len(s)
  <2>1. g[Len(s)] \in Nat
    BY <1>4 DEF Marks
  <2> QED BY <1>3, <1>4, <2>1
<1> DEFINE c == s[j + 1]
           e == EscapedByte(c)
<1>6. /\ c \in Byte /\ Stands(content, g[j], e) /\ j + 1 \in 0 .. Len(s) /\ g[j] \in Nat
      /\ Len(e) \in Nat \ {0} /\ g[j + 1] = g[j] + Len(e)
  BY <1>1, <1>4, <1>5, MarkIs
<1>7. g[j] + Len(e) <= g[Len(s)] /\ g[Len(s)] \in Nat
  BY <1>1, <1>4, <1>5, MarksGrow
<1>8. Sequences(g[j], g[Len(s)]) = {<<Len(e), <<c>>>>}
  BY <1>1, <1>6, <1>7, SequenceIs
<1> HIDE DEF e
<1>9. /\ str' = [str EXCEPT !.in = @ + Len(e), !.out = @ \o <<c>>]
      /\ UNCHANGED <<content, requireNull, offset, parsing, value, nest>>
  <2>1. PICK x \in Sequences(str.in, str.end) :
          /\ str' = [str EXCEPT !.in = @ + x[1], !.out = @ \o x[2]]
          /\ UNCHANGED <<content, requireNull, offset, parsing, value, nest>>
    <3>1. Sequences(str.in, str.end) # {}
      BY <1>3, <1>4, <1>8
    <3> QED BY <3>1 DEF Unescape
  <2>2. x = <<Len(e), <<c>>>>
    BY <1>3, <1>4, <1>8, <2>1
  <2> QED BY <2>1, <2>2
<1>10. str'.in = g[j + 1] /\ str'.out = SubSeq(s, 1, j) \o <<c>> /\ str'.end = g[Len(s)]
  BY <1>1, <1>3, <1>4, <1>6, <1>9 DEF StrType
<1>11. SubSeq(s, 1, j) \o <<c>> = SubSeq(s, 1, j + 1)
  OBVIOUS
<1>12. UnescapedTo(s, g, q)'
  <2>1. Marks(content', s, g, q)
    BY <1>4, <1>9
  <2> QED BY <1>6, <1>10, <1>11, <2>1 DEF UnescapedTo
<1> QED BY <1>9, <1>12 DEF ReadsString, Unescape

LEMMA UnescapedReads ==
  ASSUME ParseInv, Unescaped, NEW s \in Seq(Byte), NEW q \in Text, ReadsString(s, q)
  PROVE  /\ parsing' = "parsed" /\ value' = String(s) /\ Holds(content, offset', q) /\ offset' \in Nat
         /\ UNCHANGED <<content, requireNull, nest>>
<1>1. content \in Text /\ str \in StrType /\ Len(content) \in Nat
  BY Here
<1>2. PICK g : UnescapedTo(s, g, q)
  BY DEF Unescaped, ReadsString
<1>3. PICK j \in 0 .. Len(s) : str.in = g[j] /\ str.out = SubSeq(s, 1, j)
  BY <1>2 DEF UnescapedTo
<1>4. Marks(content, s, g, q) /\ str.end = g[Len(s)] /\ str.in >= str.end
  BY <1>2 DEF UnescapedTo, Unescaped
<1>5. j = Len(s)
  <2>1. CASE j < Len(s)
    <3>1. g[j] < g[Len(s)] /\ g[j] \in Nat /\ g[Len(s)] \in Nat
      BY <1>1, <1>4, <2>1, MarksGrow
    <3> QED BY <1>3, <1>4, <3>1
  <2> QED BY <2>1
<1>6. str.out = s
  BY <1>3, <1>5
<1>7. g[Len(s)] \in Nat /\ Holds(content, g[Len(s)] + 1, q)
  BY <1>4 DEF Marks
<1>8. /\ parsing' = "parsed" /\ value' = String(CString(str.out)) /\ offset' = str.end + 1
      /\ UNCHANGED <<content, requireNull, nest>>
  BY DEF Unescaped, Parsed
<1> QED BY <1>4, <1>6, <1>7, <1>8, CStringIs

----------------------------------------------------------------------------
(* What the parser finds between the values.                               *)

LEMMA Associates ==
  ASSUME NEW a \in Text, NEW b \in Text, NEW s \in Text
  PROVE  a \o (b \o s) = (a \o b) \o s
<1>1. a \in Seq(Octet) /\ b \in Seq(Octet) /\ s \in Seq(Octet)
  BY DEF Text
<1> QED BY <1>1, ConcatAssociative

LEMMA Regroup ==
  ASSUME NEW a \in Text, NEW b \in Text, NEW s \in Text
  PROVE  /\ a \o (b \o s) = (a \o b) \o s
         /\ a \o b \in Text /\ b \o s \in Text /\ a \o (b \o s) \in Text
<1>2. a \o (b \o s) = (a \o b) \o s
  BY Associates
<1>3. a \o b \in Text /\ b \o s \in Text
  BY TextConcat
<1>4. a \o (b \o s) \in Text
  BY <1>3, TextConcat
<1> QED BY <1>2, <1>3, <1>4

LEMMA BlankConcat ==
  ASSUME NEW a \in Text, NEW b \in Text, Blank(a), Blank(b)
  PROVE  Blank(a \o b)
<1>1. /\ Len(a \o b) = Len(a) + Len(b)
      /\ \A p \in 1 .. Len(a) : (a \o b)[p] = a[p]
      /\ \A p \in 1 .. Len(b) : (a \o b)[Len(a) + p] = b[p]
  BY ConcatIs DEF Text
<1>2. Len(a) \in Nat /\ Len(b) \in Nat
  BY DEF Text
<1>3. ASSUME NEW p \in 1 .. Len(a \o b) PROVE (a \o b)[p] <= Space
  <2>1. CASE p <= Len(a)
    <3>1. p \in 1 .. Len(a)
      BY <2>1, <1>2
    <3> QED BY <1>1, <3>1 DEF Blank
  <2>2. CASE ~(p <= Len(a))
    <3>1. p - Len(a) \in 1 .. Len(b) /\ Len(a) + (p - Len(a)) = p
      BY <1>1, <1>2, <2>2
    <3>2. (a \o b)[p] = b[p - Len(a)]
      BY <1>1, <3>1
    <3> QED BY <3>1, <3>2 DEF Blank
  <2> QED BY <2>1, <2>2
<1> QED BY <1>3 DEF Blank

LEMMA BlanksAre ==
  ASSUME NEW n \in Nat, NEW fmt \in BOOLEAN
  PROVE  /\ Blank(<<>>) /\ Blank(<<LF>>) /\ Blank(<<Space>>) /\ Blank(<<Tab>>)
         /\ Indent(n, fmt) \in Text /\ Blank(Indent(n, fmt))
<1>1. Blank(<<>>) /\ Blank(<<LF>>) /\ Blank(<<Space>>) /\ Blank(<<Tab>>)
  BY DEF Blank, LF, Space, Tab
<1>2. Tabs(n) \in Text /\ Blank(Tabs(n))
  <2>1. Tabs(n) \in Text
    BY TabsType, BytesAreText
  <2>2. Blank(Tabs(n))
    BY DEF Tabs, Blank, Tab, Space
  <2> QED BY <2>1, <2>2
<1> QED BY <1>1, <1>2, MarksAreText DEF Indent

\* What Skip finds at o: an element, a member or the end.
ElementFound(w, v, e, fmt, o) ==
  \E q \in Text : /\ AtValue(w, v, e, fmt, q) /\ Holds(content, Skip(o), q)
                  /\ Can(Skip(o)) /\ ~Is(Skip(o), RBracket)
MemberFound(w, v, e, fmt, o) ==
  \E q \in Text : /\ AtKey(w, v, e, fmt, q) /\ Holds(content, Skip(o), q)
                  /\ Can(Skip(o)) /\ ~Is(Skip(o), RBrace)
WayLeft(w, d, v, e, fmt) ==
  /\ OnItsWay(v, e, fmt, d) /\ Len(d) = Len(w) - 1 /\ Len(w) \in Nat \ {0}
  /\ \A i \in 1 .. Len(w) - 1 : d[i] = w[i]
  /\ HereAt(d, Len(w) - 1, v) = w[Len(w)].x
CloseFound(w, v, e, fmt, o) ==
  /\ WayLeft(w, Left(w), v, e, fmt)
  /\ \E q \in Text :
       /\ AtRest(Left(w), e, fmt, q) /\ Holds(content, Skip(o) + 1, q)
       /\ Is(Skip(o), IF w[Len(w)].x.type = "array" THEN RBracket ELSE RBrace)
IsFound(w, v, e, fmt, o) ==
  IF ~InsideAt(w, Len(w)) THEN CloseFound(w, v, e, fmt, o)
  ELSE IF w[Len(w)].x.type = "array" THEN ElementFound(w, v, e, fmt, o) ELSE MemberFound(w, v, e, fmt, o)

\* The mark c comes after blanks.
LEMMA MarkFound ==
  ASSUME content \in Text, NEW b \in Text, Blank(b), NEW c \in Octet, c > Space, NEW q \in Text, NEW o,
         Holds(content, o, b \o (<<c>> \o q))
  PROVE  /\ Skip(o) \in Nat /\ Is(Skip(o), c) /\ content[Skip(o) + 1] = c
         /\ Holds(content, Skip(o) + 1, q) /\ Holds(content, Skip(o), <<c>> \o q)
<1> DEFINE m == <<c>>
           p == m \o q
<1>1. m \in Text /\ Len(m) = 1 /\ m[1] = c
  BY OneByte
<1>2. p \in Text /\ Inked(p)
  <2> HIDE DEF m
  <2>1. p \in Text
    BY <1>1, TextConcat
  <2>2. p # <<>> /\ p[1] = c
    BY <1>1, ConcatBegins
  <2> QED BY <2>1, <2>2 DEF Inked
<1>3. Holds(content, Skip(o), p)
  <2>1. Holds(content, o, b \o p)
    OBVIOUS
  <2> HIDE DEF p
  <2>2. Holds(content, SkipIn(content, o), p)
    BY <1>2, <2>1, SkipTo
  <2> QED BY <2>2 DEF Skip
<1> DEFINE i == Skip(o)
<1>4. Holds(content, i, <<c>> \o q)
  BY <1>3
<1> HIDE DEF i
<1>5. i \in Nat /\ i < Len(content) /\ content[i + 1] = c /\ Holds(content, i + 1, q)
  BY <1>4, HoldsByte
<1>6. i \in Nat /\ Is(i, c) /\ content[i + 1] = c /\ Holds(content, i + 1, q) /\ Holds(content, i, <<c>> \o q)
  BY <1>4, <1>5 DEF Is, Can
<1> QED BY <1>6 DEF i

LEMMA ValueFound ==
  ASSUME content \in Text, NEW v, NEW e, NEW fmt, NEW w, OnItsWay(v, e, fmt, w), NEW p, AtValue(w, v, e, fmt, p),
         NEW b \in Text, Blank(b), NEW o, Holds(content, o, b \o p)
  PROVE  ElementFound(w, v, e, fmt, o)
<1> DEFINE n == Len(w)
           y == HereAt(w, n, v)
           s == RestAt(w, n, e, fmt)
<1>1. n \in Nat /\ y \in Items /\ s \in Text /\ fmt \in BOOLEAN
  BY TopIs DEF OnItsWay, AtValue
<1>2. p = Doc(y, n, s, fmt)
  BY DEF AtValue
<1> HIDE DEF n, y, s
<1>3. p # <<>> /\ p[1] \in FirstBytes(y) /\ Inked(p) /\ p \in Text
  BY <1>1, <1>2, DocBegins, DocIs
<1>4. Holds(content, Skip(o), p)
  BY <1>3, SkipTo DEF Skip
<1>5. p[1] # RBracket
  BY <1>3 DEF FirstBytes, RBracket, Digit, Minus, Quote, LBracket, LBrace
<1> DEFINE i == Skip(o)
<1>6. Can(i) /\ ~Is(i, RBracket)
  <2>1. Holds(content, i, p)
    BY <1>4
  <2> HIDE DEF i
  <2>2. Len(p) \in Nat \ {0} /\ Len(content) \in Nat
    BY <1>3, EmptySeq DEF Text
  <2>3. i < Len(content) /\ content[i + 1] = p[1]
    BY <2>1, <2>2 DEF Holds
  <2> QED BY <1>5, <2>3 DEF Can, Is
<1> QED BY <1>3, <1>4, <1>6 DEF ElementFound

LEMMA KeyIs ==
  ASSUME NEW x \in Items, x.type = "object", NEW k \in 1 .. Len(x.kids)
  PROVE  /\ x.kids[k] \in Items /\ x.kids[k].name \in Seq(Byte) /\ x.kids[k].name # NoName
         /\ KeyText(x, k) \in Text /\ Len(KeyText(x, k)) # 0 /\ KeyText(x, k)[1] = Quote
<1>1. x.kids[k] \in Items
  BY ItemIs
<1>2. x.kids[k].name # NoName
  <2>1. k \in DOMAIN x.kids
    <3>1. x.kids \in Seq(Items)
      BY ItemIs
    <3> QED BY <3>1
  <2>2. x.type # "array"
    OBVIOUS
  <2> QED BY <2>1, <2>2, ItemAssumption
<1> DEFINE s == x.kids[k].name
<1>3. s \in Seq(Byte)
  BY <1>1, <1>2, ItemIs
<1> HIDE DEF s
<1> DEFINE u == Escaped(s) \o <<Quote>>
<1>4. StringPiece(s).s = <<Quote>> \o u /\ u \in Text
  BY <1>3, StringText
<1> HIDE DEF u
<1>5. <<Quote>> \in Text /\ Len(<<Quote>>) = 1 /\ <<Quote>>[1] = Quote
  BY MarksAreText
<1> DEFINE m == <<Quote>>
<1>6. m \o u \in Text /\ (m \o u) # <<>> /\ (m \o u)[1] = Quote
  <2>1. m \in Text /\ Len(m) = 1 /\ m[1] = Quote
    BY <1>5
  <2>2. u \in Text
    BY <1>4
  <2> HIDE DEF m
  <2>3. (m \o u) # <<>> /\ (m \o u)[1] = m[1]
    <3>1. Len(m) # 0
      BY <2>1
    <3> QED BY <2>1, <2>2, <3>1, ConcatBegins
  <2>4. m \o u \in Text
    BY <2>1, <2>2, TextConcat
  <2> QED BY <2>1, <2>3, <2>4
<1>7. KeyText(x, k) = m \o u
  BY <1>4 DEF KeyText, s
<1> HIDE DEF m
<1>8. Len(m \o u) # 0
  BY <1>6, EmptySeq DEF Text
<1> QED BY <1>1, <1>2, <1>3, <1>6, <1>7, <1>8 DEF s

LEMMA KeyFound ==
  ASSUME content \in Text, NEW v, NEW e, NEW fmt, NEW w, OnItsWay(v, e, fmt, w), w # <<>>,
         NEW q, AtKey(w, v, e, fmt, q),
         NEW b \in Text, Blank(b), NEW o, Holds(content, o, b \o q)
  PROVE  MemberFound(w, v, e, fmt, o)
<1> DEFINE c == w[Len(w)]
<1>1. PICK d \in Text : AtColon(w, v, e, fmt, d) /\ q = KeyText(c.x, c.k) \o d
  BY DEF AtKey
<1>2. c.x \in Items /\ c.k \in 1 .. Len(c.x.kids) /\ c.x.type = "object"
  <2>1. c.x \in Items /\ c.k \in Nat \ {0} /\ Len(c.x.kids) \in Nat /\ (InsideAt(w, Len(w)) => c.k <= Len(c.x.kids))
    BY TopIs
  <2>2. c.x.type = "object" /\ InsideAt(w, Len(w))
    BY <1>1 DEF AtColon, AtValue
  <2> HIDE DEF c
  <2> QED BY <2>1, <2>2
<1> DEFINE a == KeyText(c.x, c.k)
<1>3. a \in Text /\ Len(a) # 0 /\ a[1] = Quote
  <2> DEFINE x == c.x
             k == c.k
  <2> HIDE DEF c
  <2>1. x \in Items /\ k \in 1 .. Len(x.kids) /\ x.type = "object"
    BY <1>2
  <2> HIDE DEF x, k
  <2>2. KeyText(x, k) \in Text /\ Len(KeyText(x, k)) # 0 /\ KeyText(x, k)[1] = Quote
    BY <2>1, KeyIs
  <2> QED BY <2>2 DEF x, k
<1> HIDE DEF a
<1>4. q \in Text /\ q # <<>> /\ q[1] = Quote
  <2>1. q = a \o d
    BY <1>1 DEF a
  <2> QED BY <1>3, <2>1, ConcatBegins, TextConcat
<1>5. Inked(q)
  BY <1>4 DEF Inked, Quote, Space
<1>6. Holds(content, Skip(o), q)
  BY <1>4, <1>5, SkipTo DEF Skip
<1> DEFINE i == Skip(o)
<1>7. Can(i) /\ ~Is(i, RBrace)
  <2>1. Holds(content, i, q)
    BY <1>6
  <2> HIDE DEF i
  <2>2. Len(q) \in Nat \ {0} /\ Len(content) \in Nat
    BY <1>4, EmptySeq DEF Text
  <2>3. i < Len(content) /\ content[i + 1] = q[1]
    BY <2>1, <2>2 DEF Holds
  <2> QED BY <1>4, <2>3 DEF Can, Is, Quote, RBrace
<1> QED BY <1>4, <1>6, <1>7 DEF MemberFound

LEMMA LoopFound ==
  ASSUME content \in Text, NEW v, NEW e, NEW fmt, NEW w, OnItsWay(v, e, fmt, w), NEW p, AtLoop(w, fmt, p),
         NEW b \in Text, Blank(b), NEW o, Holds(content, o, b \o p)
  PROVE  IsFound(w, v, e, fmt, o)
<1> DEFINE n == Len(w)
           x == w[n].x
<1>1. n \in Nat \ {0} /\ x.type \in {"array", "object"} /\ fmt \in BOOLEAN /\ w # <<>>
  BY TopIs DEF AtLoop, Container, OnItsWay
<1>2. CASE ~InsideAt(w, Len(w))
  <2>1. IsLeft(w, Left(w), v, e, fmt, p)
    BY <1>2, CloseNext
  <2>2. WayLeft(w, Left(w), v, e, fmt)
    BY <2>1 DEF IsLeft, WayLeft
  <2>3. PICK q \in Text : AtRest(Left(w), e, fmt, q) /\ p = CloseText(x, n, fmt) \o q
    BY <2>1 DEF IsLeft
  <2> DEFINE c == IF x.type = "array" THEN RBracket ELSE RBrace
             a == IF x.type = "array" THEN <<>> ELSE Indent(n - 1, fmt)
             m == <<c>>
  <2>4. c \in Octet /\ c > Space /\ m \in Text
    BY MarksAreText DEF RBracket, RBrace, Space
  <2>5. a \in Text /\ Blank(a)
    <3>1. n - 1 \in Nat
      BY <1>1
    <3>2. Blank(<<>>) /\ Indent(n - 1, fmt) \in Text /\ Blank(Indent(n - 1, fmt))
      BY <1>1, <3>1, BlanksAre
    <3> QED BY <3>2, MarksAreText
  <2>6. CloseText(x, n, fmt) = a \o m
    <3>1. \A u \in Text : <<>> \o u = u
      BY DEF Text
    <3> QED BY <2>4, <3>1 DEF CloseText
  <2> HIDE DEF a
  <2>7. b \o p = (b \o a) \o (m \o q)
    <3> HIDE DEF m, x, n, c
    <3>1. p = (a \o m) \o q
      BY <2>3, <2>6
    <3>2. a \o (m \o q) = (a \o m) \o q
      BY <2>4, <2>5, Associates
    <3>3. m \o q \in Text
      BY <2>4, TextConcat
    <3>4. b \o (a \o (m \o q)) = (b \o a) \o (m \o q)
      <4> DEFINE r == m \o q
      <4>1. r \in Text
        BY <3>3
      <4> HIDE DEF r
      <4>2. b \o (a \o r) = (b \o a) \o r
        BY <2>5, <4>1, Associates
      <4> QED BY <4>2 DEF r
    <3> QED BY <3>1, <3>2, <3>4
  <2>8. b \o a \in Text /\ Blank(b \o a)
    BY <2>5, BlankConcat, TextConcat
  <2> DEFINE u == b \o a
  <2>9. Holds(content, o, u \o (<<c>> \o q)) /\ u \in Text /\ Blank(u)
    BY <2>7, <2>8
  <2> HIDE DEF u, c
  <2>10. Is(Skip(o), c) /\ Holds(content, Skip(o) + 1, q)
    BY <2>4, <2>9, MarkFound
  <2> QED BY <1>2, <2>2, <2>3, <2>10 DEF IsFound, CloseFound, c
<1>3. CASE InsideAt(w, Len(w)) /\ x.type = "array"
  <2>1. AtValue(w, v, e, fmt, p)
    BY <1>3, ElementNext
  <2>2. ElementFound(w, v, e, fmt, o)
    BY <2>1, ValueFound
  <2> QED BY <1>3, <2>2 DEF IsFound
<1>4. CASE InsideAt(w, Len(w)) /\ x.type = "object"
  <2>1. PICK q \in Text : AtKey(w, v, e, fmt, q) /\ p = Indent(Len(w), fmt) \o q
    BY <1>4, MemberNext
  <2> DEFINE a == Indent(Len(w), fmt)
  <2>2. a \in Text /\ Blank(a)
    BY <1>1, BlanksAre
  <2> HIDE DEF a
  <2>3. b \o p = (b \o a) \o q /\ b \o a \in Text /\ Blank(b \o a)
    <3>1. p = a \o q
      BY <2>1 DEF a
    <3> QED BY <2>2, <3>1, Regroup, BlankConcat
  <2> DEFINE u == b \o a
  <2>4. Holds(content, o, u \o q) /\ u \in Text /\ Blank(u)
    BY <2>3
  <2> HIDE DEF u
  <2>5. MemberFound(w, v, e, fmt, o)
    BY <1>1, <2>1, <2>4, KeyFound
  <2> QED BY <1>4, <2>5 DEF IsFound
<1> QED BY <1>1, <1>2, <1>3, <1>4

----------------------------------------------------------------------------
(* The parser parses the text of an item.                                  *)

\* The calls of the parser are those of w; keyed: the key of the innermost is known.
Nested(w, keyed) ==
  /\ Len(nest) = Len(w)
  /\ \A i \in 1 .. Len(w) :
       /\ nest[i].type = w[i].x.type
       /\ nest[i].kids = SubSeq(w[i].x.kids, 1, w[i].k - 1)
       /\ nest[i].key = IF keyed \/ i < Len(w) THEN w[i].x.kids[w[i].k].name ELSE NoName

\* Nothing on the way is deeper than it may be in v, nor what has been parsed than
\* the parser allows.
Fits(w, v) ==
  \A i \in 1 .. Len(w) :
    /\ DepthOf(w[i].x) + i <= DepthOf(v) + 1
    /\ \A p \in 1 .. w[i].k - 1 : DepthOf(w[i].x.kids[p]) + i <= NestingLimit

\* The innermost call.
LEMMA InnerIs ==
  ASSUME ParseInv, NEW v, NEW e, NEW fmt, NEW w, OnItsWay(v, e, fmt, w), NEW keyed \in BOOLEAN,
         Nested(w, keyed), w # <<>> \/ nest # <<>>
  PROVE  LET c == w[Len(w)]
         IN  /\ w # <<>> /\ nest # <<>> /\ Len(w) \in Nat \ {0}
             /\ Inner.type = c.x.type /\ c.x.type \in {"array", "object"} /\ c.x \in Items
             /\ c.k \in Nat \ {0} /\ Len(c.x.kids) \in Nat
             /\ Inner.kids = SubSeq(c.x.kids, 1, c.k - 1)
             /\ Inner.key = IF keyed THEN c.x.kids[c.k].name ELSE NoName
             /\ InsideAt(w, Len(w)) <=> c.k <= Len(c.x.kids)
             /\ HereAt(w, Len(w), v) = c.x.kids[c.k]
<1>1. PICK S : nest \in Seq(S)
  BY DEF ParseInv, NestInv
<1>2. Len(nest) = Len(w) /\ Len(w) \in Nat /\ (w # <<>> <=> Len(w) # 0)
  BY TopIs DEF Nested
<1>3. nest # <<>> <=> Len(nest) # 0
  BY <1>1, EmptySeq
<1>4. w # <<>> /\ nest # <<>> /\ Len(w) \in 1 .. Len(w)
  BY <1>2, <1>3
<1> DEFINE c == w[Len(w)]
<1>5. /\ c.x \in Items /\ Container(c.x) /\ c.k \in Nat \ {0} /\ Len(c.x.kids) \in Nat
      /\ InsideAt(w, Len(w)) <=> c.k <= Len(c.x.kids)
      /\ HereAt(w, Len(w), v) = c.x.kids[c.k]
  BY <1>4, TopIs
<1>6. Inner = nest[Len(w)]
  BY <1>2 DEF Inner
<1>7. /\ Inner.type = c.x.type /\ Inner.kids = SubSeq(c.x.kids, 1, c.k - 1)
      /\ Inner.key = IF keyed \/ Len(w) < Len(w) THEN c.x.kids[c.k].name ELSE NoName
  <2> HIDE DEF Inner
  <2> QED BY <1>4, <1>6 DEF Nested
<1>8. ~(Len(w) < Len(w))
  BY <1>2
<1> HIDE DEF c
<1>9. /\ w # <<>> /\ nest # <<>> /\ Len(w) \in Nat \ {0}
      /\ Inner.type = c.x.type /\ c.x.type \in {"array", "object"} /\ c.x \in Items
      /\ c.k \in Nat \ {0} /\ Len(c.x.kids) \in Nat
      /\ Inner.kids = SubSeq(c.x.kids, 1, c.k - 1)
      /\ Inner.key = IF keyed THEN c.x.kids[c.k].name ELSE NoName
  BY <1>2, <1>4, <1>5, <1>7, <1>8 DEF Container
<1> QED BY <1>5, <1>9 DEF c

\* A call of parse_array or parse_object.
LEMMA NestedDeeper ==
  ASSUME ParseInv, NEW v, NEW e, NEW fmt, NEW w, OnItsWay(v, e, fmt, w), Nested(w, TRUE),
         NEW d, Len(d) = Len(w) + 1, \A i \in 1 .. Len(w) : d[i] = w[i], d[Len(d)].k = 1,
         NEW keyed \in BOOLEAN, NoName = IF keyed THEN d[Len(d)].x.kids[1].name ELSE NoName,
         nest' = Append(nest, Call(d[Len(d)].x.type, <<>>, NoName))
  PROVE  Nested(d, keyed)'
<1>1. PICK S : nest \in Seq(S)
  BY DEF ParseInv, NestInv
<1>2. Len(nest) = Len(w) /\ Len(w) \in Nat
  BY TopIs DEF Nested
<1> DEFINE n == Len(w) + 1
           y == d[n].x
           a == Call(y.type, <<>>, NoName)
<1>3. Len(d) = n /\ n \in Nat
  BY <1>2
<1>4. nest' = Append(nest, a)
  BY <1>3
<1> HIDE DEF a, y
<1>5. Len(nest') = n /\ nest'[n] = a /\ \A i \in 1 .. Len(w) : nest'[i] = nest[i]
  BY <1>1, <1>2, <1>4
<1>6. ASSUME NEW i \in 1 .. n
      PROVE  /\ nest'[i].type = d[i].x.type
             /\ nest'[i].kids = SubSeq(d[i].x.kids, 1, d[i].k - 1)
             /\ nest'[i].key = IF keyed \/ i < n THEN d[i].x.kids[d[i].k].name ELSE NoName
  <2>1. CASE i = n
    <3>1. a.type = y.type /\ a.kids = <<>> /\ a.key = NoName
      BY DEF a, Call
    <3>2. d[n].k = 1 /\ d[n].x = y /\ ~(n < n)
      BY <1>3 DEF y
    <3>3. SubSeq(y.kids, 1, 1 - 1) = <<>>
      OBVIOUS
    <3>4. NoName = IF keyed THEN d[n].x.kids[1].name ELSE NoName
      BY <1>3
    <3> QED BY <1>5, <2>1, <3>1, <3>2, <3>3, <3>4
  <2>2. CASE i # n
    <3>1. i \in 1 .. Len(w) /\ i < n
      BY <1>2, <2>2
    <3>2. d[i] = w[i] /\ nest'[i] = nest[i]
      BY <1>5, <3>1
    <3>3. /\ nest[i].type = w[i].x.type
          /\ nest[i].kids = SubSeq(w[i].x.kids, 1, w[i].k - 1)
          /\ nest[i].key = w[i].x.kids[w[i].k].name
      BY <3>1 DEF Nested
    <3> QED BY <3>1, <3>2, <3>3
  <2> QED BY <2>1, <2>2
<1>7. Len(nest') = Len(d)
  BY <1>3, <1>5
<1> HIDE DEF n
<1> QED BY <1>3, <1>6, <1>7 DEF Nested

\* The innermost call goes on.
LEMMA NestedStepped ==
  ASSUME ParseInv, NEW v, NEW e, NEW fmt, NEW w, OnItsWay(v, e, fmt, w), NEW before \in BOOLEAN,
         Nested(w, before), w # <<>>,
         NEW d, Len(d) = Len(w), \A i \in 1 .. Len(w) : i # Len(w) => d[i] = w[i],
         NEW keyed \in BOOLEAN, NEW ks, NEW key,
         ks = SubSeq(d[Len(w)].x.kids, 1, d[Len(w)].k - 1),
         key = IF keyed THEN d[Len(w)].x.kids[d[Len(w)].k].name ELSE NoName,
         nest' = Append(Outer, Call(d[Len(w)].x.type, ks, key))
  PROVE  Nested(d, keyed)'
<1>1. PICK S : nest \in Seq(S)
  BY DEF ParseInv, NestInv
<1>2. Len(nest) = Len(w) /\ Len(w) \in Nat \ {0}
  BY TopIs DEF Nested
<1> DEFINE n == Len(w)
           m == n - 1
           a == Call(d[n].x.type, ks, key)
<1>3. m \in Nat /\ n \in Nat /\ n = m + 1 /\ m <= n
  BY <1>2
<1>4. Outer = SubSeq(nest, 1, m)
  BY <1>2 DEF Outer
<1>5. nest' = Append(Outer, a)
  OBVIOUS
<1> HIDE DEF a
<1>6. Outer \in Seq(S) /\ Len(Outer) = m /\ \A i \in 1 .. m : Outer[i] = nest[i]
  <2> HIDE DEF m
  <2>1. /\ SubSeq(nest, 1, m) \in Seq(S)
        /\ Len(SubSeq(nest, 1, m)) = IF 1 <= m THEN m - 1 + 1 ELSE 0
        /\ \A i \in 1 .. m - 1 + 1 : SubSeq(nest, 1, m)[i] = nest[1 + i - 1]
    BY <1>1, <1>2, <1>3, SubSeqProperties
  <2>2. m - 1 + 1 = m /\ \A i \in 1 .. m : 1 + i - 1 = i
    BY <1>3
  <2> QED BY <1>3, <1>4, <2>1, <2>2
<1>7. Len(nest') = n /\ nest'[n] = a /\ \A i \in 1 .. m : nest'[i] = nest[i]
  <2> HIDE DEF m, n
  <2>1. /\ Len(Append(Outer, a)) = m + 1 /\ Append(Outer, a)[m + 1] = a
        /\ \A i \in 1 .. m : Append(Outer, a)[i] = Outer[i]
    BY <1>6
  <2> QED BY <1>3, <1>5, <1>6, <2>1
<1>8. ASSUME NEW i \in 1 .. n
      PROVE  /\ nest'[i].type = d[i].x.type
             /\ nest'[i].kids = SubSeq(d[i].x.kids, 1, d[i].k - 1)
             /\ nest'[i].key = IF keyed \/ i < n THEN d[i].x.kids[d[i].k].name ELSE NoName
  <2>1. CASE i = n
    <3>1. a.type = d[n].x.type /\ a.kids = ks /\ a.key = key
      BY DEF a, Call
    <3>2. ~(n < n)
      BY <1>3
    <3> QED BY <1>7, <2>1, <3>1, <3>2
  <2>2. CASE i # n
    <3>1. i \in 1 .. m /\ i < n
      BY <1>3, <2>2
    <3>2. d[i] = w[i] /\ nest'[i] = nest[i]
      BY <1>7, <2>2, <3>1
    <3>3. /\ nest[i].type = w[i].x.type
          /\ nest[i].kids = SubSeq(w[i].x.kids, 1, w[i].k - 1)
          /\ nest[i].key = w[i].x.kids[w[i].k].name
      BY <3>1 DEF Nested
    <3> QED BY <3>1, <3>2, <3>3
  <2> QED BY <2>1, <2>2
<1>9. Len(nest') = Len(d) /\ Len(d) = n
  BY <1>7
<1> HIDE DEF n
<1> QED BY <1>8, <1>9 DEF Nested

\* The innermost call returns.
LEMMA NestedLeft ==
  ASSUME ParseInv, NEW v, NEW e, NEW fmt, NEW w, OnItsWay(v, e, fmt, w), NEW before \in BOOLEAN,
         Nested(w, before), NEW d, WayLeft(w, d, v, e, fmt), nest' = Outer
  PROVE  Nested(d, TRUE)'
<1>1. PICK S : nest \in Seq(S)
  BY DEF ParseInv, NestInv
<1>2. Len(nest) = Len(w) /\ Len(w) \in Nat \ {0}
  BY DEF Nested, WayLeft
<1> DEFINE n == Len(w)
           m == n - 1
<1>3. m \in Nat /\ n \in Nat /\ n = m + 1 /\ m <= n
  BY <1>2
<1>4. Outer = SubSeq(nest, 1, m)
  BY <1>2 DEF Outer
<1>5. Len(Outer) = m /\ \A i \in 1 .. m : Outer[i] = nest[i]
  <2> HIDE DEF m
  <2>1. /\ Len(SubSeq(nest, 1, m)) = IF 1 <= m THEN m - 1 + 1 ELSE 0
        /\ \A i \in 1 .. m - 1 + 1 : SubSeq(nest, 1, m)[i] = nest[1 + i - 1]
    BY <1>1, <1>2, <1>3, SubSeqProperties
  <2>2. m - 1 + 1 = m /\ \A i \in 1 .. m : 1 + i - 1 = i
    BY <1>3
  <2> QED BY <1>3, <1>4, <2>1, <2>2
<1>6. Len(d) = m /\ \A i \in 1 .. m : d[i] = w[i]
  BY DEF WayLeft
<1>7. ASSUME NEW i \in 1 .. m
      PROVE  /\ nest'[i].type = d[i].x.type
             /\ nest'[i].kids = SubSeq(d[i].x.kids, 1, d[i].k - 1)
             /\ nest'[i].key = d[i].x.kids[d[i].k].name
  <2>1. i \in 1 .. n /\ i < n
    BY <1>3
  <2>2. /\ nest[i].type = w[i].x.type
        /\ nest[i].kids = SubSeq(w[i].x.kids, 1, w[i].k - 1)
        /\ nest[i].key = w[i].x.kids[w[i].k].name
    BY <2>1 DEF Nested
  <2>3. d[i] = w[i] /\ nest'[i] = nest[i]
    BY <1>5, <1>6
  <2> QED BY <2>2, <2>3
<1>8. Len(nest') = Len(d)
  BY <1>5, <1>6
<1> HIDE DEF m
<1> QED BY <1>6, <1>7, <1>8 DEF Nested

\* How deep the item is to which w leads.
LEMMA DepthHere ==
  ASSUME NEW v, NEW e, NEW fmt, NEW w, OnItsWay(v, e, fmt, w), Fits(w, v), InsideAt(w, Len(w))
  PROVE  DepthOf(HereAt(w, Len(w), v)) + Len(w) <= DepthOf(v)
<1> DEFINE n == Len(w)
<1>1. v \in Items /\ n \in Nat /\ DepthOf(v) \in Nat
  BY TopIs, DepthIs DEF OnItsWay
<1>2. CASE n = 0
  BY <1>1, <1>2 DEF HereAt
<1>3. CASE n # 0
  <2> DEFINE x == w[n].x
             k == w[n].k
             y == x.kids[k]
  <2>1. w # <<>> /\ n \in 1 .. n
    BY <1>1, <1>3, TopIs
  <2>2. x \in Items /\ Container(x) /\ k \in Nat \ {0} /\ Len(x.kids) \in Nat /\ k <= Len(x.kids)
        /\ HereAt(w, n, v) = y
    BY <2>1, TopIs
  <2>3. DepthOf(x) + n <= DepthOf(v) + 1
    BY <2>1 DEF Fits
  <2>4. HereAt(w, n, v) = y
    BY <2>2
  <2> HIDE DEF x, k
  <2>5. k \in 1 .. Len(x.kids)
    BY <2>2
  <2>6. y \in Items /\ DepthOf(x) \in Nat /\ DepthOf(y) + 1 <= DepthOf(x)
    BY <2>2, <2>5, DepthIs, ItemIs
  <2>7. DepthOf(y) \in Nat
    BY <2>6, DepthIs
  <2> HIDE DEF y, n
  <2>8. DepthOf(y) + n <= DepthOf(v)
    BY <1>1, <2>3, <2>6, <2>7
  <2> QED BY <2>4, <2>8 DEF n
<1> QED BY <1>2, <1>3

LEMMA FitsDeeper ==
  ASSUME NEW v, NEW e, NEW fmt, NEW w, OnItsWay(v, e, fmt, w), Fits(w, v), InsideAt(w, Len(w)),
         NEW d, Len(d) = Len(w) + 1, \A i \in 1 .. Len(w) : d[i] = w[i],
         d[Len(d)].x = HereAt(w, Len(w), v), d[Len(d)].k = 1
  PROVE  Fits(d, v)
<1> DEFINE n == Len(w)
           y == HereAt(w, n, v)
<1>1. v \in Items /\ n \in Nat /\ DepthOf(v) \in Nat /\ y \in Items /\ DepthOf(y) \in Nat
  BY TopIs, DepthIs DEF OnItsWay
<1>2. DepthOf(y) + n <= DepthOf(v)
  BY DepthHere
<1>3. d[n + 1].x = y /\ d[n + 1].k = 1 /\ Len(d) = n + 1
  OBVIOUS
<1> HIDE DEF y
<1>4. ASSUME NEW i \in 1 .. n + 1
      PROVE  /\ DepthOf(d[i].x) + i <= DepthOf(v) + 1
             /\ \A p \in 1 .. d[i].k - 1 : DepthOf(d[i].x.kids[p]) + i <= NestingLimit
  <2>1. CASE i = n + 1
    <3>1. DepthOf(y) + (n + 1) <= DepthOf(v) + 1
      <4> HIDE DEF n
      <4> QED BY <1>1, <1>2
    <3>2. 1 .. d[i].k - 1 = {}
      BY <1>3, <2>1
    <3> QED BY <1>3, <2>1, <3>1, <3>2
  <2>2. CASE i # n + 1
    <3>1. i \in 1 .. n
      BY <1>1, <2>2
    <3> QED BY <3>1 DEF Fits
  <2> QED BY <2>1, <2>2
<1> HIDE DEF n
<1> QED BY <1>3, <1>4 DEF Fits

LEMMA FitsStepped ==
  ASSUME NEW v, NEW e, NEW fmt, NEW w, OnItsWay(v, e, fmt, w), Fits(w, v), w # <<>>,
         NEW d, Len(d) = Len(w), \A i \in 1 .. Len(w) : i # Len(w) => d[i] = w[i],
         d[Len(w)].x = w[Len(w)].x, d[Len(w)].k = w[Len(w)].k + 1,
         DepthOf(w[Len(w)].x.kids[w[Len(w)].k]) + Len(w) <= NestingLimit
  PROVE  Fits(d, v)
<1> DEFINE n == Len(w)
           x == w[n].x
           k == w[n].k
<1>1. n \in Nat \ {0} /\ k \in Nat \ {0}
  BY TopIs
<1>2. d[n].x = x /\ d[n].k = k + 1 /\ Len(d) = n /\ DepthOf(x.kids[k]) + n <= NestingLimit
  OBVIOUS
<1>3. /\ DepthOf(x) + n <= DepthOf(v) + 1
      /\ \A p \in 1 .. k - 1 : DepthOf(x.kids[p]) + n <= NestingLimit
  BY <1>1 DEF Fits
<1> HIDE DEF x, k
<1>4. ASSUME NEW i \in 1 .. n
      PROVE  /\ DepthOf(d[i].x) + i <= DepthOf(v) + 1
             /\ \A p \in 1 .. d[i].k - 1 : DepthOf(d[i].x.kids[p]) + i <= NestingLimit
  <2>1. CASE i = n
    <3>1. ASSUME NEW p \in 1 .. k PROVE DepthOf(x.kids[p]) + n <= NestingLimit
      <4>1. p = k \/ p \in 1 .. k - 1
        BY <1>1
      <4> QED BY <1>2, <1>3, <4>1
    <3>2. d[i].k - 1 = k
      BY <1>1, <1>2, <2>1
    <3> QED BY <1>2, <1>3, <2>1, <3>1, <3>2
  <2>2. CASE i # n
    BY <2>2 DEF Fits
  <2> QED BY <2>1, <2>2
<1> HIDE DEF n
<1> QED BY <1>2, <1>4 DEF Fits

LEMMA FitsLeft ==
  ASSUME NEW v, NEW e, NEW fmt, NEW w, Fits(w, v), NEW d, WayLeft(w, d, v, e, fmt)
  PROVE  Fits(d, v)
<1>1. Len(d) = Len(w) - 1 /\ Len(w) \in Nat \ {0} /\ \A i \in 1 .. Len(w) - 1 : d[i] = w[i]
  BY DEF WayLeft
<1>2. \A i \in 1 .. Len(w) - 1 : i \in 1 .. Len(w)
  BY <1>1
<1> QED BY <1>1, <1>2 DEF Fits

\* What is parsed at the end of a call is not too deep.
LEMMA FitsClosed ==
  ASSUME NEW v, NEW e, NEW fmt, NEW w, OnItsWay(v, e, fmt, w), Fits(w, v), w # <<>>, ~InsideAt(w, Len(w)),
         Len(w) <= NestingLimit
  PROVE  DepthOf(w[Len(w)].x) + (Len(w) - 1) <= NestingLimit
<1> DEFINE n == Len(w)
           x == w[n].x
           k == w[n].k
<1>1. /\ n \in Nat \ {0} /\ x \in Items /\ Container(x) /\ k \in Nat \ {0} /\ Len(x.kids) \in Nat
      /\ k <= Len(x.kids) + 1 /\ ~(k <= Len(x.kids))
  BY TopIs
<1>2. \A p \in 1 .. k - 1 : DepthOf(x.kids[p]) + n <= NestingLimit
  BY <1>1 DEF Fits
<1>3. NestingLimit \in Nat /\ n <= NestingLimit
  BY ParseAssumption
<1> HIDE DEF x, k, n
<1> DEFINE m == NestingLimit + 1 - n
<1>4. m \in Nat \ {0} /\ k - 1 = Len(x.kids)
  BY <1>1, <1>3
<1>5. ASSUME NEW p \in 1 .. Len(x.kids) PROVE DepthOf(x.kids[p]) + 1 <= m
  <2>1. x.kids[p] \in Items /\ DepthOf(x.kids[p]) + n <= NestingLimit
    BY <1>1, <1>2, <1>4, ItemIs
  <2>2. DepthOf(x.kids[p]) \in Nat
    BY <2>1, DepthIs
  <2> QED BY <1>1, <1>3, <2>1, <2>2
<1> HIDE DEF m
<1>6. DepthOf(x) <= m /\ DepthOf(x) \in Nat
  BY <1>1, <1>4, <1>5, DepthIs
<1>7. DepthOf(x) + (n - 1) <= NestingLimit
  BY <1>1, <1>3, <1>6 DEF m
<1> QED BY <1>7 DEF x, n

\* Behind the text of an item there is nothing but the byte 0.
Nul == <<0>>

ValueAt(v, fmt, w, p) == Nested(w, TRUE) /\ AtValue(w, v, Nul, fmt, p) /\ Holds(content, offset, p)
StringAt(v, fmt, w, p) ==
  /\ Nested(w, TRUE) /\ AtRest(w, Nul, fmt, p)
  /\ HereAt(w, Len(w), v).type = "string" /\ ReadsString(HereAt(w, Len(w), v).str, p)
KeyAt(v, fmt, w, p) ==
  /\ Nested(w, FALSE) /\ AtColon(w, v, Nul, fmt, p)
  /\ ReadsString(HereAt(w, Len(w), v).name, p)
ValueDone(v, fmt, w, p) ==
  /\ Nested(w, TRUE) /\ AtRest(w, Nul, fmt, p) /\ Holds(content, offset, p)
  /\ value = Bare(HereAt(w, Len(w), v)) /\ DepthOf(HereAt(w, Len(w), v)) + Len(w) <= NestingLimit
KeyDone(v, fmt, w, p) ==
  /\ Nested(w, FALSE) /\ AtColon(w, v, Nul, fmt, p) /\ Holds(content, offset, p)
  /\ value = String(HereAt(w, Len(w), v).name)

InString == parsing \in {"string", "measure", "unescape"}
ParsesAt(v, fmt, w, p) ==
  /\ OnItsWay(v, Nul, fmt, w) /\ v.name = NoName /\ Fits(w, v)
  /\ p \in Text /\ requireNull /\ parsing # "idle"
  /\ parsing = "value" => ValueAt(v, fmt, w, p)
  /\ InString => StringAt(v, fmt, w, p) \/ KeyAt(v, fmt, w, p)
  /\ parsing = "parsed" => ValueDone(v, fmt, w, p) \/ KeyDone(v, fmt, w, p)
  /\ parsing = "done" => value = IF DepthOf(v) <= NestingLimit THEN v ELSE Invalid
Parses(v) == \E fmt, w, p : ParsesAt(v, fmt, w, p)

\* What is known of the way.
LEMMA WayKnown ==
  ASSUME NEW v, NEW fmt, NEW w, NEW p, ParsesAt(v, fmt, w, p)
  PROVE  /\ OnItsWay(v, Nul, fmt, w) /\ Fits(w, v) /\ v \in Items /\ v.name = NoName
         /\ p \in Text /\ requireNull /\ Len(w) \in Nat /\ NestingLimit \in Nat
         /\ (w # <<>> <=> Len(w) # 0)
<1>1. OnItsWay(v, Nul, fmt, w) /\ Fits(w, v) /\ p \in Text /\ requireNull /\ v.name = NoName
  BY DEF ParsesAt
<1> QED BY <1>1, TopIs, ParseAssumption DEF OnItsWay

\* A failure is one of depth.
LEMMA FailParses ==
  ASSUME NEW v, NEW fmt, NEW w, NEW p, ParsesAt(v, fmt, w, p), NEW o, Fail(o), ~(DepthOf(v) <= NestingLimit)
  PROVE  Parses(v)'
<1>1. parsing' = "done" /\ value' = Invalid /\ requireNull' = requireNull
  BY DEF Fail
<1>2. ParsesAt(v, fmt, w, p)'
  BY <1>1 DEF ParsesAt, InString
<1> QED BY <1>2 DEF Parses

LEMMA ParsedParses ==
  ASSUME NEW v, NEW fmt, NEW w, OnItsWay(v, Nul, fmt, w), v.name = NoName, Fits(w, v), requireNull,
         NEW p \in Text, AtRest(w, Nul, fmt, p), Nested(w, TRUE)', NEW x, NEW o, Parsed(x, o),
         Holds(content, o, p), x = Bare(HereAt(w, Len(w), v)),
         DepthOf(HereAt(w, Len(w), v)) + Len(w) <= NestingLimit
  PROVE  Parses(v)'
<1>1. parsing' = "parsed" /\ value' = x /\ offset' = o /\ requireNull' = requireNull /\ content' = content
  BY DEF Parsed
<1>2. ValueDone(v, fmt, w, p)'
  BY <1>1 DEF ValueDone
<1>3. ParsesAt(v, fmt, w, p)'
  BY <1>1, <1>2 DEF ParsesAt, InString
<1> QED BY <1>3 DEF Parses

LEMMA CallValueParses ==
  ASSUME NEW v, NEW fmt, NEW w, OnItsWay(v, Nul, fmt, w), v.name = NoName, Fits(w, v), requireNull,
         NEW p \in Text, AtValue(w, v, Nul, fmt, p), Nested(w, TRUE)', NEW o, NEW s, CallValue(o, s),
         Holds(content, o, p)
  PROVE  Parses(v)'
<1>1. parsing' = "value" /\ offset' = o /\ requireNull' = requireNull /\ content' = content
  BY DEF CallValue
<1>2. ValueAt(v, fmt, w, p)'
  BY <1>1 DEF ValueAt
<1>3. ParsesAt(v, fmt, w, p)'
  BY <1>1, <1>2 DEF ParsesAt, InString
<1> QED BY <1>3 DEF Parses

LEMMA CallKeyParses ==
  ASSUME NEW v, NEW fmt, NEW w, OnItsWay(v, Nul, fmt, w), v.name = NoName, Fits(w, v), requireNull,
         NEW q, AtKey(w, v, Nul, fmt, q), Nested(w, FALSE)', NEW o, NEW s, CallString(o, s),
         Holds(content, o, q)
  PROVE  Parses(v)'
<1>1. parsing' = "string" /\ offset' = o /\ requireNull' = requireNull /\ content' = content
  BY DEF CallString
<1>2. PICK p \in Text : AtColon(w, v, Nul, fmt, p) /\ q = KeyText(w[Len(w)].x, w[Len(w)].k) \o p
  BY DEF AtKey
<1>3. w # <<>>
  BY <1>2 DEF AtColon
<1>4. HereAt(w, Len(w), v) = w[Len(w)].x.kids[w[Len(w)].k]
  BY <1>3, TopIs
<1>5. KeyText(w[Len(w)].x, w[Len(w)].k) = StringPiece(HereAt(w, Len(w), v).name).s
  BY <1>4 DEF KeyText
<1>6. Holds(content', offset', StringPiece(HereAt(w, Len(w), v).name).s \o p)
  BY <1>1, <1>2, <1>5
<1>7. KeyAt(v, fmt, w, p)'
  <2>1. ReadsString(HereAt(w, Len(w), v).name, p)'
    BY <1>1, <1>6 DEF ReadsString
  <2> QED BY <1>2, <2>1 DEF KeyAt
<1>8. ParsesAt(v, fmt, w, p)'
  BY <1>1, <1>2, <1>7 DEF ParsesAt, InString
<1> QED BY <1>8 DEF Parses

\* The item that is parsed, and its first byte.
LEMMA ValueIs ==
  ASSUME ParseInv, NEW v, NEW fmt, NEW w, NEW p, ParsesAt(v, fmt, w, p), parsing = "value"
  PROVE  LET y == HereAt(w, Len(w), v)
         IN  /\ y \in Items /\ InsideAt(w, Len(w)) /\ ValueAt(v, fmt, w, p)
             /\ Can(offset) /\ content[offset + 1] \in FirstBytes(y)
             /\ content \in Text /\ offset \in Nat
             /\ DepthOf(y) \in Nat /\ DepthOf(y) + Len(w) <= DepthOf(v) /\ DepthOf(v) \in Nat
             /\ Len(w) <= NestingLimit
             /\ (y.type = "null" => y.type = "null")
<1> DEFINE y == HereAt(w, Len(w), v)
           s == RestAt(w, Len(w), Nul, fmt)
<1>1. ValueAt(v, fmt, w, p)
  BY DEF ParsesAt
<1>2. /\ OnItsWay(v, Nul, fmt, w) /\ Fits(w, v) /\ v \in Items /\ Len(w) \in Nat
  BY WayKnown
<1>3. InsideAt(w, Len(w)) /\ p = Doc(y, Len(w), s, fmt) /\ Holds(content, offset, p) /\ Nested(w, TRUE)
  BY <1>1 DEF ValueAt, AtValue
<1>4. y \in Items /\ s \in Text /\ fmt \in BOOLEAN
  BY <1>2, <1>3, TopIs DEF OnItsWay
<1>5. DepthOf(y) + Len(w) <= DepthOf(v)
  BY <1>2, <1>3, DepthHere
<1> HIDE DEF y, s
<1>6. DepthOf(y) \in Nat /\ DepthOf(v) \in Nat
  BY <1>2, <1>4, DepthIs
<1>7. p # <<>> /\ p[1] \in FirstBytes(y) /\ p \in Text
  BY <1>2, <1>3, <1>4, DocBegins, DocIs
<1>8. content \in Text /\ offset \in Nat
  BY Here
<1>9. Can(offset) /\ content[offset + 1] = p[1]
  <2>1. Len(p) \in Nat \ {0} /\ Len(content) \in Nat
    BY <1>7, <1>8, EmptySeq DEF Text
  <2> QED BY <1>3, <1>8, <2>1 DEF Holds, Can
<1>10. Len(w) <= NestingLimit
  <2>1. Len(nest) = Len(w)
    BY <1>3 DEF Nested
  <2> QED BY <2>1 DEF ParseInv, NestInv
<1> QED BY <1>1, <1>3, <1>4, <1>5, <1>6, <1>7, <1>8, <1>9, <1>10 DEF y

LEMMA ScalarFound ==
  ASSUME ParseInv, NEW v, NEW fmt, NEW w, NEW p, ParsesAt(v, fmt, w, p), parsing = "value",
         ~Container(HereAt(w, Len(w), v))
  PROVE  \E q \in Text : /\ AtRest(w, Nul, fmt, q)
                         /\ p = ScalarPiece(HereAt(w, Len(w), v)).s \o q
                         /\ Holds(content, offset, ScalarPiece(HereAt(w, Len(w), v)).s \o q)
<1>1. AtValue(w, v, Nul, fmt, p) /\ Holds(content, offset, p)
  BY DEF ParsesAt, ValueAt
<1>2. OnItsWay(v, Nul, fmt, w)
  BY WayKnown
<1> DEFINE y == HereAt(w, Len(w), v)
           a == ScalarPiece(y).s
<1>3. \E q \in Text : AtRest(w, Nul, fmt, q) /\ p = a \o q
  BY <1>1, <1>2, ScalarNext
<1>4. PICK q \in Text : AtRest(w, Nul, fmt, q) /\ p = a \o q
  BY <1>3
<1> HIDE DEF a
<1>5. Holds(content, offset, a \o q)
  BY <1>1, <1>4
<1>6. \E r \in Text : AtRest(w, Nul, fmt, r) /\ p = a \o r /\ Holds(content, offset, a \o r)
  BY <1>4, <1>5
<1> QED BY <1>6 DEF a

\* The types by the first byte.
LEMMA TypeByByte ==
  ASSUME NEW y \in Items
  PROVE  /\ y.type \in Printable
         /\ 110 \in FirstBytes(y) => y.type = "null"
         /\ 102 \in FirstBytes(y) => y.type = "false"
         /\ 116 \in FirstBytes(y) => y.type = "true"
         /\ Quote \in FirstBytes(y) => y.type = "string"
         /\ LBracket \in FirstBytes(y) => y.type = "array"
         /\ LBrace \in FirstBytes(y) => y.type = "object"
         /\ \A c \in Digit \cup {Minus} : c \in FirstBytes(y) => y.type = "number"
<1>1. y.type \in Printable
  BY ItemIs
<1> QED BY <1>1 DEF FirstBytes, Printable, Digit, Minus, Quote, LBracket, LBrace

LEMMA ParseLiteralParses ==
  ASSUME ParseInv, ParseLiteral, NEW v, NEW fmt, NEW w, NEW p, ParsesAt(v, fmt, w, p)
  PROVE  Parses(v)'
<1> DEFINE y == HereAt(w, Len(w), v)
<1>1. parsing = "value" /\ UNCHANGED <<str, nest>>
  BY DEF ParseLiteral
<1>2. /\ y \in Items /\ ValueAt(v, fmt, w, p) /\ Can(offset) /\ content[offset + 1] \in FirstBytes(y)
      /\ content \in Text /\ offset \in Nat /\ Len(w) <= NestingLimit
  BY <1>1, ValueIs
<1>3. PICK l \in Literals : Reads(offset, l[1]) /\ Parsed(l[2], offset + Len(l[1]))
  BY DEF ParseLiteral
<1>4. \E t, x : l = <<t, x>> /\ l[1] = t /\ l[2] = x
      /\ ((t = NullText /\ x = Null) \/ (t = FalseText /\ x = Bool(FALSE)) \/ (t = TrueText /\ x = Bool(TRUE)))
  <2>1. l = <<NullText, Null>> \/ l = <<FalseText, Bool(FALSE)>> \/ l = <<TrueText, Bool(TRUE)>>
    BY Zenon DEF Literals
  <2>2. \A a, b : l = <<a, b>> => l[1] = a /\ l[2] = b
    OBVIOUS
  <2> QED BY <2>1, <2>2, Zenon
<1>5. PICK t, x : l[1] = t /\ l[2] = x
      /\ ((t = NullText /\ x = Null) \/ (t = FalseText /\ x = Bool(FALSE)) \/ (t = TrueText /\ x = Bool(TRUE)))
  BY <1>4
<1>6. Reads(offset, t) /\ Parsed(x, offset + Len(t))
  BY <1>3, <1>5
<1>7. content[offset + 1] = t[1]
  <2>1. Len(t) \in Nat \ {0} /\ Len(content) \in Nat
    <3>1. Len(NullText) = 4 /\ Len(FalseText) = 5 /\ Len(TrueText) = 4
      BY DEF NullText, FalseText, TrueText
    <3>2. Len(t) = 4 \/ Len(t) = 5
      BY <1>5, <3>1
    <3>3. Len(content) \in Nat
      BY <1>2 DEF Text
    <3> QED BY <3>2, <3>3
  <2>2. offset + Len(t) <= Len(content) /\ SubSeq(content, offset + 1, offset + Len(t)) = t
    BY <1>6 DEF Reads
  <2>3. SubSeq(content, offset + 1, offset + Len(t))[1] = content[offset + 1]
    <3> DEFINE n == offset + Len(t)
    <3>1. content \in Seq(Octet) /\ offset + 1 \in 1 .. Len(content) + 1 /\ n \in (offset + 1) - 1 .. Len(content) /\ offset + 1 <= n
      BY <1>2, <2>1, <2>2 DEF Text
    <3> HIDE DEF n
    <3>2. 1 \in 1 .. n - (offset + 1) + 1
      BY <1>2, <2>1 DEF n
    <3>3. SubSeq(content, offset + 1, n)[1] = content[(offset + 1) + 1 - 1]
      BY <3>1, <3>2, SubSeqProperties
    <3>4. (offset + 1) + 1 - 1 = offset + 1
      BY <1>2
    <3> QED BY <3>3, <3>4 DEF n
  <2> QED BY <2>2, <2>3
<1>8. \/ t = NullText /\ x = Null /\ y.type = "null"
      \/ t = FalseText /\ x = Bool(FALSE) /\ y.type = "false"
      \/ t = TrueText /\ x = Bool(TRUE) /\ y.type = "true"
  <2>1. NullText[1] = 110 /\ FalseText[1] = 102 /\ TrueText[1] = 116
    BY DEF NullText, FalseText, TrueText
  <2> HIDE DEF y
  <2> DEFINE c == content[offset + 1]
  <2>2. c \in FirstBytes(y) /\ c = t[1] /\ y \in Items
    BY <1>2, <1>7
  <2> HIDE DEF c
  <2>3. CASE t = NullText /\ x = Null
    <3>1. 110 \in FirstBytes(y)
      BY <2>1, <2>2, <2>3
    <3> QED BY <2>2, <2>3, <3>1, TypeByByte
  <2>4. CASE t = FalseText /\ x = Bool(FALSE)
    <3>1. 102 \in FirstBytes(y)
      BY <2>1, <2>2, <2>4
    <3> QED BY <2>2, <2>4, <3>1, TypeByByte
  <2>5. CASE t = TrueText /\ x = Bool(TRUE)
    <3>1. 116 \in FirstBytes(y)
      BY <2>1, <2>2, <2>5
    <3> QED BY <2>2, <2>5, <3>1, TypeByByte
  <2> QED BY <1>5, <2>3, <2>4, <2>5
<1>9. ~Container(y) /\ ScalarPiece(y).s = t /\ x = Bare(y)
  <2> HIDE DEF y
  <2>1. ~Container(y)
    BY <1>8 DEF Container
  <2>2. ScalarPiece(y).s = t
    BY <1>8 DEF ScalarPiece, Piece
  <2>3. x = Bare(y)
    BY <1>2, <1>8, BareIs
  <2> QED BY <2>1, <2>2, <2>3
<1>10. PICK q \in Text : AtRest(w, Nul, fmt, q) /\ Holds(content, offset, t \o q)
  BY <1>1, <1>9, ScalarFound
<1>11. Holds(content, offset + Len(t), q)
  <2>1. NullText \in Text /\ FalseText \in Text /\ TrueText \in Text
    BY DEF NullText, FalseText, TrueText, Text, Octet
  <2>2. t \in Text
    BY <1>5, <2>1
  <2> QED BY <1>2, <1>10, <2>2, HoldsNext
<1>12. Nested(w, TRUE)'
  <2>1. Nested(w, TRUE)
    BY <1>2 DEF ValueAt
  <2> QED BY <1>1, <2>1 DEF Nested
<1>13. DepthOf(y) + Len(w) <= NestingLimit
  <2>1. DepthOf(y) = 0
    BY <1>2, <1>9, DepthIs
  <2> QED BY <1>2, <2>1, WayKnown
<1>14. OnItsWay(v, Nul, fmt, w) /\ v.name = NoName /\ Fits(w, v) /\ requireNull
  BY WayKnown
<1> QED BY <1>6, <1>9, <1>10, <1>11, <1>12, <1>13, <1>14, ParsedParses

LEMMA StringBeginsParses ==
  ASSUME ParseInv, StringBegins, NEW v, NEW fmt, NEW w, NEW p, ParsesAt(v, fmt, w, p)
  PROVE  Parses(v)'
<1> DEFINE y == HereAt(w, Len(w), v)
<1>1. /\ parsing = "value" /\ Is(offset, Quote) /\ parsing' = "string"
      /\ UNCHANGED <<content, requireNull, offset, nest>>
  BY DEF StringBegins, CallString
<1>2. y \in Items /\ ValueAt(v, fmt, w, p) /\ content[offset + 1] \in FirstBytes(y)
  BY <1>1, ValueIs
<1>3. y.type = "string"
  <2>1. Quote \in FirstBytes(y)
    BY <1>1, <1>2 DEF Is
  <2> HIDE DEF y
  <2> QED BY <1>2, <2>1, TypeByByte
<1>4. ~Container(y) /\ ScalarPiece(y).s = StringPiece(y.str).s
  <2> HIDE DEF y
  <2> QED BY <1>3 DEF Container, ScalarPiece
<1>5. PICK q \in Text : AtRest(w, Nul, fmt, q) /\ Holds(content, offset, StringPiece(y.str).s \o q)
  BY <1>1, <1>4, ScalarFound
<1>6. Nested(w, TRUE)'
  <2>1. Nested(w, TRUE)
    BY <1>2 DEF ValueAt
  <2> QED BY <1>1, <2>1 DEF Nested
<1>7. StringAt(v, fmt, w, q)'
  <2>1. ReadsString(y.str, q)'
    BY <1>1, <1>5 DEF ReadsString
  <2> QED BY <1>3, <1>5, <1>6, <2>1 DEF StringAt
<1>8. ParsesAt(v, fmt, w, q)'
  BY <1>1, <1>5, <1>7 DEF ParsesAt, InString
<1> QED BY <1>8 DEF Parses

LEMMA ParseNumberParses ==
  ASSUME ParseInv, ParseNumber, NEW v, NEW fmt, NEW w, NEW p, ParsesAt(v, fmt, w, p)
  PROVE  Parses(v)'
<1> DEFINE y == HereAt(w, Len(w), v)
<1>1. parsing = "value" /\ content[offset + 1] \in Digit \cup {Minus}
  BY DEF ParseNumber
<1>2. /\ y \in Items /\ ValueAt(v, fmt, w, p) /\ content[offset + 1] \in FirstBytes(y)
      /\ content \in Text /\ offset \in Nat /\ Len(w) <= NestingLimit
  BY <1>1, ValueIs
<1>3. y.type = "number"
  <2> HIDE DEF y
  <2> QED BY <1>1, <1>2, TypeByByte
<1>4. ~Container(y) /\ ScalarPiece(y).s = Decimal(y.num) /\ Bare(y) = Number(y.num)
      /\ y.num \in -LargestInt .. LargestInt
  <2> HIDE DEF y
  <2>1. ScalarPiece(y).s = Decimal(y.num)
    BY <1>3 DEF ScalarPiece, Piece
  <2>2. Bare(y) = Number(y.num)
    BY <1>2, <1>3, BareIs
  <2>3. y.num \in -LargestInt .. LargestInt
    BY <1>2, ItemIs
  <2>4. ~Container(y)
    BY <1>3 DEF Container
  <2> QED BY <2>1, <2>2, <2>3, <2>4
<1>5. PICK q \in Text : AtRest(w, Nul, fmt, q) /\ Holds(content, offset, Decimal(y.num) \o q)
  BY <1>1, <1>4, ScalarFound
<1>6. OnItsWay(v, Nul, fmt, w) /\ v.name = NoName /\ Fits(w, v) /\ requireNull /\ Len(w) \in Nat
      /\ (w # <<>> <=> Len(w) # 0)
  BY WayKnown
<1>7. q # <<>> /\ q[1] \notin Digit
  <2>1. CASE Len(w) = 0
    <3>1. q = Nul
      BY <1>5, <2>1 DEF AtRest, RestAt
    <3>2. Nul # <<>> /\ Nul[1] = 0
      BY DEF Nul
    <3> QED BY <3>1, <3>2 DEF Digit
  <2>2. CASE Len(w) # 0
    <3> DEFINE c == w[Len(w)]
               x == c.x
               k == c.k
               s == c.s
               n == Len(w)
    <3>1. /\ x \in Items /\ k \in Nat \ {0} /\ s \in Text /\ Container(x)
          /\ Len(x.kids) \in Nat
          /\ InsideAt(w, Len(w)) <=> k <= Len(x.kids)
          /\ RestAt(w, Len(w), Nul, fmt) = After(x, k, n, s, fmt)
      BY <1>6, <2>2, TopIs
    <3>2. InsideAt(w, Len(w)) /\ q = RestAt(w, Len(w), Nul, fmt) /\ n \in Nat \ {0} /\ fmt \in BOOLEAN
      BY <1>5, <1>6, <2>2 DEF AtRest, OnItsWay
    <3> HIDE DEF x, k, s, n
    <3>3. k \in 1 .. Len(x.kids) /\ q = After(x, k, n, s, fmt)
      BY <3>1, <3>2
    <3> QED BY <3>1, <3>2, <3>3, LoopRests
  <2> QED BY <2>1, <2>2
<1> DEFINE num == y.num
<1>8. /\ Parsed(Number(num), offset + Len(Decimal(num))) /\ UNCHANGED <<str, nest>>
      /\ Holds(content, offset + Len(Decimal(num)), q)
  <2>1. num \in -LargestInt .. LargestInt /\ Holds(content, offset, Decimal(num) \o q)
    BY <1>4, <1>5
  <2> HIDE DEF num
  <2> QED BY <1>2, <1>5, <1>7, <2>1, NumberIs
<1>9. Nested(w, TRUE)'
  <2>1. Nested(w, TRUE)
    BY <1>2 DEF ValueAt
  <2> QED BY <1>8, <2>1 DEF Nested
<1>10. DepthOf(y) + Len(w) <= NestingLimit
  <2>1. DepthOf(y) = 0
    BY <1>2, <1>4, DepthIs
  <2> QED BY <1>2, <1>6, <2>1
<1>11. Number(num) = Bare(y)
  BY <1>4
<1> HIDE DEF num
<1> QED BY <1>5, <1>6, <1>8, <1>9, <1>10, <1>11, ParsedParses

\* w is one call deeper in d.
IsDeeper(w, d, v, fmt) ==
  /\ OnItsWay(v, Nul, fmt, d) /\ Len(d) = Len(w) + 1
  /\ \A i \in 1 .. Len(w) : d[i] = w[i]
  /\ d[Len(d)].x = HereAt(w, Len(w), v) /\ d[Len(d)].k = 1

LEMMA TwoBytes == ASSUME NEW a \in Octet, NEW b \in Octet PROVE <<a>> \o <<b>> = <<a, b>>
<1> DEFINE s == <<a>>
           t == <<b>>
           u == <<a, b>>
<1>1. s \in Seq(Octet) /\ t \in Seq(Octet) /\ u \in Seq(Octet)
      /\ Len(s) = 1 /\ Len(t) = 1 /\ Len(u) = 2 /\ s[1] = a /\ t[1] = b /\ u[1] = a /\ u[2] = b
  OBVIOUS
<1> HIDE DEF s, t, u
<1>2. /\ s \o t \in Seq(Octet) /\ Len(s \o t) = Len(s) + Len(t)
      /\ \A p \in 1 .. Len(s) : (s \o t)[p] = s[p]
      /\ \A p \in 1 .. Len(t) : (s \o t)[Len(s) + p] = t[p]
  <2>1. s \in Seq(Octet) /\ t \in Seq(Octet)
    BY <1>1
  <2> QED BY <2>1, ConcatIs
<1> DEFINE r == s \o t
<1>3. r \in Seq(Octet) /\ Len(r) = 2 /\ r[1] = a /\ r[2] = b
  <2>1. 1 + 1 = 2 /\ 1 \in 1 .. 1
    OBVIOUS
  <2>2. r[1] = s[1] /\ r[1 + 1] = t[1]
    BY <1>1, <1>2, <2>1
  <2> QED BY <1>1, <1>2, <2>1, <2>2
<1> HIDE DEF r
<1>4. \A i \in 1 .. Len(r) : r[i] = u[i]
  <2>1. \A i \in 1 .. 2 : i = 1 \/ i = 2
    OBVIOUS
  <2> QED BY <1>1, <1>3, <2>1
<1>5. r = u
  BY <1>1, <1>3, <1>4, SeqEqual
<1> QED BY <1>5 DEF r, s, t, u

LEMMA OpenFound ==
  ASSUME ParseInv, NEW v, NEW fmt, NEW w, NEW p, ParsesAt(v, fmt, w, p), parsing = "value",
         Container(HereAt(w, Len(w), v))
  PROVE  \E d : IsDeeper(w, d, v, fmt) /\ IsFound(d, v, Nul, fmt, offset + 1)
<1> DEFINE y == HereAt(w, Len(w), v)
<1>1. AtValue(w, v, Nul, fmt, p) /\ Holds(content, offset, p)
  BY DEF ParsesAt, ValueAt
<1>2. OnItsWay(v, Nul, fmt, w) /\ content \in Text
  BY WayKnown, Here
<1>3. PICK d : d = Deeper(w, y, RestAt(w, Len(w), Nul, fmt))
  OBVIOUS
<1>4. /\ OnItsWay(v, Nul, fmt, d) /\ Len(d) = Len(w) + 1
      /\ \A i \in 1 .. Len(w) : d[i] = w[i]
      /\ d[Len(d)].x = y /\ d[Len(d)].k = 1
      /\ \E q \in Text : AtLoop(d, fmt, q) /\ p = OpenText(y, fmt) \o q
  <2> DEFINE g == Deeper(w, y, RestAt(w, Len(w), Nul, fmt))
  <2>1. /\ OnItsWay(v, Nul, fmt, g) /\ Len(g) = Len(w) + 1
        /\ \A i \in 1 .. Len(w) : g[i] = w[i]
        /\ g[Len(g)].x = y /\ g[Len(g)].k = 1
        /\ \E q \in Text : AtLoop(g, fmt, q) /\ p = OpenText(y, fmt) \o q
    BY <1>1, <1>2, OpenNext
  <2>2. g = d
    BY <1>3
  <2> HIDE DEF g, y
  <2> QED BY <2>1, <2>2
<1>5. PICK q \in Text : AtLoop(d, fmt, q) /\ p = OpenText(y, fmt) \o q
  BY <1>4
<1> DEFINE c == IF y.type = "array" THEN LBracket ELSE LBrace
           b == IF y.type # "array" /\ fmt THEN <<LF>> ELSE <<>>
           m == <<c>>
<1>6. OpenText(y, fmt) = m \o b
  <2>1. <<LBrace>> \o <<LF>> = <<LBrace, LF>>
    BY TwoBytes, MarksAreText
  <2>2. <<LBrace>> \o <<>> = <<LBrace>> /\ <<LBracket>> \o <<>> = <<LBracket>>
    BY ConcatEmptySeq, MarksAreText DEF Text
  <2> HIDE DEF y
  <2> QED BY <2>1, <2>2 DEF OpenText
<1>7. c \in Octet /\ b \in Text /\ Blank(b) /\ m \in Text
  BY MarksAreText, BlanksAre
<1> HIDE DEF b, c, y
<1>8. p = m \o (b \o q) /\ b \o q \in Text
  <2> HIDE DEF m
  <2>1. m \o (b \o q) = (m \o b) \o q
    BY <1>7, Associates
  <2> QED BY <1>5, <1>6, <1>7, <2>1, TextConcat
<1> DEFINE r == b \o q
<1>9. Holds(content, offset, <<c>> \o r) /\ r \in Text
  BY <1>1, <1>8
<1> HIDE DEF r
<1>10. Holds(content, offset + 1, r)
  BY <1>2, <1>7, <1>9, HoldsByte
<1>11. IsFound(d, v, Nul, fmt, offset + 1)
  <2>1. Holds(content, offset + 1, b \o q)
    BY <1>10 DEF r
  <2> DEFINE o == offset + 1
  <2> HIDE DEF o
  <2>2. Holds(content, o, b \o q)
    BY <2>1 DEF o
  <2>3. OnItsWay(v, Nul, fmt, d) /\ AtLoop(d, fmt, q)
    BY <1>4, <1>5
  <2>4. IsFound(d, v, Nul, fmt, o)
    BY <1>2, <1>7, <2>2, <2>3, LoopFound
  <2> QED BY <2>4 DEF o
<1>12. IsDeeper(w, d, v, fmt)
  BY <1>4 DEF IsDeeper, y
<1> QED BY <1>11, <1>12

\* An array or object has nothing in it.
LEMMA EmptyParses ==
  ASSUME ParseInv, NEW v, NEW fmt, NEW w, NEW p, ParsesAt(v, fmt, w, p), parsing = "value",
         NEW d, IsDeeper(w, d, v, fmt), NEW o, CloseFound(d, v, Nul, fmt, o), ~InsideAt(d, Len(d)),
         NEW x, Parsed(x, Skip(o) + 1), UNCHANGED <<str, nest>>, Len(w) < NestingLimit,
         x = IF HereAt(w, Len(w), v).type = "array" THEN Array(<<>>) ELSE Object(<<>>)
  PROVE  Parses(v)'
<1> DEFINE y == HereAt(w, Len(w), v)
<1>1. /\ OnItsWay(v, Nul, fmt, w) /\ Fits(w, v) /\ requireNull /\ v.name = NoName
      /\ Len(w) \in Nat /\ NestingLimit \in Nat
  BY WayKnown
<1>2. y \in Items /\ Nested(w, TRUE)
  BY ValueIs DEF ValueAt
<1>3. /\ OnItsWay(v, Nul, fmt, d) /\ Len(d) = Len(w) + 1
      /\ \A i \in 1 .. Len(w) : d[i] = w[i]
      /\ d[Len(d)].x = y /\ d[Len(d)].k = 1
  BY DEF IsDeeper
<1>4. PICK g : g = Left(d)
  OBVIOUS
<1>5. /\ OnItsWay(v, Nul, fmt, g) /\ Len(g) = Len(d) - 1
      /\ \A i \in 1 .. Len(d) - 1 : g[i] = d[i]
      /\ HereAt(g, Len(d) - 1, v) = d[Len(d)].x
      /\ \E q \in Text : AtRest(g, Nul, fmt, q) /\ Holds(content, Skip(o) + 1, q)
  <2>1. WayLeft(d, Left(d), v, Nul, fmt)
        /\ \E q \in Text : AtRest(Left(d), Nul, fmt, q) /\ Holds(content, Skip(o) + 1, q)
    BY DEF CloseFound
  <2>2. WayLeft(d, g, v, Nul, fmt)
        /\ \E q \in Text : AtRest(g, Nul, fmt, q) /\ Holds(content, Skip(o) + 1, q)
    BY <1>4, <2>1
  <2> QED BY <2>2 DEF WayLeft
<1>6. PICK q \in Text : AtRest(g, Nul, fmt, q) /\ Holds(content, Skip(o) + 1, q)
  BY <1>5
<1> DEFINE n == Len(w)
<1>7. n \in Nat /\ Len(g) = n /\ (\A i \in 1 .. n : g[i] = w[i]) /\ HereAt(g, Len(g), v) = y
  <2>1. n \in Nat /\ Len(d) = n + 1 /\ Len(d) - 1 = n
    BY <1>1, <1>3
  <2> HIDE DEF n, y
  <2>2. \A i \in 1 .. n : g[i] = d[i] /\ d[i] = w[i]
    BY <1>3, <1>5, <2>1 DEF n
  <2> QED BY <1>3, <1>5, <2>1, <2>2
<1> HIDE DEF y
<1>8. Fits(g, v)
  <2> HIDE DEF n
  <2>1. \A i \in 1 .. n : /\ DepthOf(w[i].x) + i <= DepthOf(v) + 1
                          /\ \A k \in 1 .. w[i].k - 1 : DepthOf(w[i].x.kids[k]) + i <= NestingLimit
    BY <1>1 DEF Fits, n
  <2> QED BY <1>7, <2>1 DEF Fits
<1>9. Nested(g, TRUE)'
  <2>1. nest' = nest
    OBVIOUS
  <2>2. Len(nest) = n
    BY <1>2 DEF Nested
  <2>3. \A i \in 1 .. n : /\ nest[i].type = w[i].x.type
                          /\ nest[i].kids = SubSeq(w[i].x.kids, 1, w[i].k - 1)
                          /\ nest[i].key = w[i].x.kids[w[i].k].name
    BY <1>2 DEF Nested
  <2> HIDE DEF n
  <2>4. Len(g) = n /\ \A i \in 1 .. n : g[i] = w[i]
    BY <1>7
  <2>5. Nested(g, TRUE)
    BY <2>2, <2>3, <2>4 DEF Nested
  <2> QED BY <2>1, <2>5 DEF Nested
<1>10. y.kids = <<>> /\ Container(y) /\ Len(y.kids) = 0
  <2>1. d # <<>>
    BY <1>1, <1>3, TopIs
  <2> DEFINE c == d[Len(d)]
  <2>2. /\ Container(c.x) /\ Len(c.x.kids) \in Nat /\ c.x.kids \in Seq(Items)
        /\ ~(c.k <= Len(c.x.kids))
    BY <1>3, <2>1, TopIs
  <2>3. c.x = y /\ c.k = 1
    BY <1>3
  <2> HIDE DEF c
  <2>4. y.kids \in Seq(Items) /\ Len(y.kids) = 0 /\ Container(y)
    BY <2>2, <2>3
  <2> QED BY <2>4, EmptySeq
<1>11. x = Bare(y)
  <2>1. x = IF y.type = "array" THEN Array(<<>>) ELSE Object(<<>>)
    BY DEF y
  <2>2. y.type = "array" => Bare(y) = Array(y.kids)
    BY <1>2, BareIs DEF y
  <2>3. y.type = "object" => Bare(y) = Object(y.kids)
    BY <1>2, BareIs DEF y
  <2> QED BY <1>10, <2>1, <2>2, <2>3 DEF Container
<1>12. DepthOf(y) + n <= NestingLimit
  <2>1. y \in Items
    BY <1>2 DEF y
  <2>2. DepthOf(y) <= 1 /\ DepthOf(y) \in Nat
    <3>1. 1 \in Nat \ {0} /\ \A k \in 1 .. Len(y.kids) : DepthOf(y.kids[k]) + 1 <= 1
      BY <1>10
    <3> QED BY <1>10, <2>1, <3>1, DepthIs
  <2> QED BY <1>1, <2>2
<1>13. DepthOf(HereAt(g, Len(g), v)) + Len(g) <= NestingLimit /\ x = Bare(HereAt(g, Len(g), v))
  <2> HIDE DEF n
  <2> QED BY <1>7, <1>11, <1>12
<1>14. OnItsWay(v, Nul, fmt, g) /\ v.name = NoName /\ requireNull
  BY <1>1, <1>5
<1> DEFINE end == Skip(o) + 1
<1>15. Parsed(x, end) /\ Holds(content, end, q)
  BY <1>6
<1> HIDE DEF end
<1> QED BY <1>6, <1>8, <1>9, <1>13, <1>14, <1>15, ParsedParses

LEMMA ParseArrayParses ==
  ASSUME ParseInv, ParseArray, NEW v, NEW fmt, NEW w, NEW p, ParsesAt(v, fmt, w, p)
  PROVE  Parses(v)'
<1> DEFINE y == HereAt(w, Len(w), v)
           first == Skip(offset + 1)
<1>1. parsing = "value" /\ Is(offset, LBracket)
  BY DEF ParseArray
<1>2. IF Depth >= NestingLimit THEN Fail(offset)
      ELSE IF Is(first, RBracket) THEN Parsed(Array(<<>>), first + 1) /\ UNCHANGED <<str, nest>>
      ELSE IF ~Can(first) THEN Fail(first - 1)
      ELSE CallValue(first, Append(nest, Call("array", <<>>, NoName)))
  BY DEF ParseArray
<1>3. /\ y \in Items /\ Nested(w, TRUE) /\ content[offset + 1] \in FirstBytes(y) /\ InsideAt(w, Len(w))
      /\ DepthOf(y) \in Nat /\ DepthOf(y) + Len(w) <= DepthOf(v) /\ DepthOf(v) \in Nat
      /\ offset \in Nat
  BY <1>1, ValueIs DEF ValueAt
<1>4. /\ OnItsWay(v, Nul, fmt, w) /\ Fits(w, v) /\ requireNull /\ v.name = NoName
      /\ Len(w) \in Nat /\ NestingLimit \in Nat
  BY WayKnown
<1>5. y.type = "array" /\ Container(y)
  <2>1. LBracket \in FirstBytes(y)
    BY <1>1, <1>3 DEF Is
  <2> HIDE DEF y
  <2> QED BY <1>3, <2>1, TypeByByte DEF Container
<1>6. Depth = Len(w)
  BY <1>3 DEF Depth, Nested
<1>7. CASE Depth >= NestingLimit
  <2>1. Fail(offset)
    BY <1>2, <1>7
  <2>2. ~(DepthOf(v) <= NestingLimit)
    <3>1. 1 <= DepthOf(y)
      BY <1>3, <1>5, DepthIs
    <3> HIDE DEF y
    <3> QED BY <1>3, <1>4, <1>6, <1>7, <3>1
  <2> QED BY <2>1, <2>2, FailParses
<1>8. CASE ~(Depth >= NestingLimit)
  <2>1. PICK d : IsDeeper(w, d, v, fmt) /\ IsFound(d, v, Nul, fmt, offset + 1)
    BY <1>1, <1>5, OpenFound
  <2>2. Len(w) < NestingLimit
    BY <1>4, <1>6, <1>8
  <2>3. d[Len(d)].x = y /\ d[Len(d)].k = 1 /\ OnItsWay(v, Nul, fmt, d) /\ Len(d) = Len(w) + 1
    BY <2>1 DEF IsDeeper
  <2>4. CASE ~InsideAt(d, Len(d))
    <3>1. CloseFound(d, v, Nul, fmt, offset + 1)
      BY <2>1, <2>4 DEF IsFound
    <3>2. Is(first, RBracket)
      BY <1>5, <2>3, <3>1 DEF CloseFound
    <3>3. Parsed(Array(<<>>), first + 1) /\ UNCHANGED <<str, nest>>
      BY <1>2, <1>8, <3>2
    <3> DEFINE x == Array(<<>>)
               o == offset + 1
    <3>4. x = IF HereAt(w, Len(w), v).type = "array" THEN Array(<<>>) ELSE Object(<<>>)
      BY <1>5
    <3>5. Parsed(x, Skip(o) + 1) /\ CloseFound(d, v, Nul, fmt, o)
      BY <3>1, <3>3
    <3> HIDE DEF x, o
    <3> QED BY <1>1, <2>1, <2>2, <2>4, <3>3, <3>4, <3>5, EmptyParses
  <2>5. CASE InsideAt(d, Len(d))
    <3>1. ElementFound(d, v, Nul, fmt, offset + 1)
      BY <1>5, <2>1, <2>3, <2>5 DEF IsFound
    <3>2. PICK q \in Text : /\ AtValue(d, v, Nul, fmt, q) /\ Holds(content, first, q)
                            /\ Can(first) /\ ~Is(first, RBracket)
      BY <3>1 DEF ElementFound
    <3>3. CallValue(first, Append(nest, Call("array", <<>>, NoName)))
      BY <1>2, <1>8, <3>2
    <3>4. nest' = Append(nest, Call(d[Len(d)].x.type, <<>>, NoName))
      BY <1>5, <2>3, <3>3 DEF CallValue
    <3>5. d[Len(d)].x.kids[1].name = NoName
      <4>1. 1 \in DOMAIN y.kids
        <5>1. d # <<>>
          BY <1>4, <2>3, TopIs
        <5>2. d[Len(d)].k <= Len(d[Len(d)].x.kids) /\ Len(d[Len(d)].x.kids) \in Nat /\ d[Len(d)].x.kids \in Seq(Items)
          BY <2>3, <2>5, <5>1, TopIs
        <5>3. 1 <= Len(y.kids) /\ Len(y.kids) \in Nat /\ y.kids \in Seq(Items)
          BY <2>3, <5>2
        <5> HIDE DEF y
        <5> QED BY <5>3
      <4>2. y.kids[1].name = NoName <=> y.type = "array"
        BY <1>3, <4>1, ItemAssumption
      <4> QED BY <1>5, <2>3, <4>2
    <3>6. \A i \in 1 .. Len(w) : d[i] = w[i]
      BY <2>1 DEF IsDeeper
    <3>7. PICK keyed \in BOOLEAN : keyed = TRUE
      OBVIOUS
    <3>10. NoName = IF keyed THEN d[Len(d)].x.kids[1].name ELSE NoName
      BY <3>5, <3>7
    <3>8. Nested(d, TRUE)'
      <4>1. Nested(d, keyed)'
        BY <1>3, <1>4, <2>3, <3>4, <3>6, <3>10, NestedDeeper
      <4> QED BY <3>7, <4>1
    <3>9. Fits(d, v)
      BY <1>3, <1>4, <2>3, <3>6, FitsDeeper
    <3> HIDE DEF first
    <3> QED BY <1>4, <2>3, <3>2, <3>3, <3>8, <3>9, CallValueParses
  <2> QED BY <2>4, <2>5
<1> QED BY <1>7, <1>8

LEMMA ParseObjectParses ==
  ASSUME ParseInv, ParseObject, NEW v, NEW fmt, NEW w, NEW p, ParsesAt(v, fmt, w, p)
  PROVE  Parses(v)'
<1> DEFINE y == HereAt(w, Len(w), v)
           first == Skip(offset + 1)
<1>1. parsing = "value" /\ Is(offset, LBrace)
  BY DEF ParseObject
<1>2. IF Depth >= NestingLimit THEN Fail(offset)
      ELSE IF Is(first, RBrace) THEN Parsed(Object(<<>>), first + 1) /\ UNCHANGED <<str, nest>>
      ELSE IF ~Can(first) THEN Fail(first - 1)
      ELSE CallString(first, Append(nest, Call("object", <<>>, NoName)))
  BY DEF ParseObject
<1>3. /\ y \in Items /\ Nested(w, TRUE) /\ content[offset + 1] \in FirstBytes(y) /\ InsideAt(w, Len(w))
      /\ DepthOf(y) \in Nat /\ DepthOf(y) + Len(w) <= DepthOf(v) /\ DepthOf(v) \in Nat
      /\ offset \in Nat
  BY <1>1, ValueIs DEF ValueAt
<1>4. /\ OnItsWay(v, Nul, fmt, w) /\ Fits(w, v) /\ requireNull /\ v.name = NoName
      /\ Len(w) \in Nat /\ NestingLimit \in Nat
  BY WayKnown
<1>5. y.type = "object" /\ Container(y)
  <2>1. LBrace \in FirstBytes(y)
    BY <1>1, <1>3 DEF Is
  <2> HIDE DEF y
  <2> QED BY <1>3, <2>1, TypeByByte DEF Container
<1>6. Depth = Len(w)
  BY <1>3 DEF Depth, Nested
<1>7. CASE Depth >= NestingLimit
  <2>1. Fail(offset)
    BY <1>2, <1>7
  <2>2. ~(DepthOf(v) <= NestingLimit)
    <3>1. 1 <= DepthOf(y)
      BY <1>3, <1>5, DepthIs
    <3> HIDE DEF y
    <3> QED BY <1>3, <1>4, <1>6, <1>7, <3>1
  <2> QED BY <2>1, <2>2, FailParses
<1>8. CASE ~(Depth >= NestingLimit)
  <2>1. PICK d : IsDeeper(w, d, v, fmt) /\ IsFound(d, v, Nul, fmt, offset + 1)
    BY <1>1, <1>5, OpenFound
  <2>2. Len(w) < NestingLimit
    BY <1>4, <1>6, <1>8
  <2>3. d[Len(d)].x = y /\ d[Len(d)].k = 1 /\ OnItsWay(v, Nul, fmt, d) /\ Len(d) = Len(w) + 1
    BY <2>1 DEF IsDeeper
  <2>4. CASE ~InsideAt(d, Len(d))
    <3>1. CloseFound(d, v, Nul, fmt, offset + 1)
      BY <2>1, <2>4 DEF IsFound
    <3>2. Is(first, RBrace)
      BY <1>5, <2>3, <3>1 DEF CloseFound
    <3>3. Parsed(Object(<<>>), first + 1) /\ UNCHANGED <<str, nest>>
      BY <1>2, <1>8, <3>2
    <3> DEFINE x == Object(<<>>)
               o == offset + 1
    <3>4. x = IF HereAt(w, Len(w), v).type = "array" THEN Array(<<>>) ELSE Object(<<>>)
      BY <1>5
    <3>5. Parsed(x, Skip(o) + 1) /\ CloseFound(d, v, Nul, fmt, o)
      BY <3>1, <3>3
    <3> HIDE DEF x, o
    <3> QED BY <1>1, <2>1, <2>2, <2>4, <3>3, <3>4, <3>5, EmptyParses
  <2>5. CASE InsideAt(d, Len(d))
    <3>1. MemberFound(d, v, Nul, fmt, offset + 1)
      BY <1>5, <2>1, <2>3, <2>5 DEF IsFound
    <3>2. PICK q \in Text : /\ AtKey(d, v, Nul, fmt, q) /\ Holds(content, first, q)
                            /\ Can(first) /\ ~Is(first, RBrace)
      BY <3>1 DEF MemberFound
    <3>3. CallString(first, Append(nest, Call("object", <<>>, NoName)))
      BY <1>2, <1>8, <3>2
    <3>4. nest' = Append(nest, Call(d[Len(d)].x.type, <<>>, NoName))
      BY <1>5, <2>3, <3>3 DEF CallString
    <3>6. \A i \in 1 .. Len(w) : d[i] = w[i]
      BY <2>1 DEF IsDeeper
    <3>7. NoName = IF FALSE THEN d[Len(d)].x.kids[1].name ELSE NoName
      OBVIOUS
    <3>8. Nested(d, FALSE)'
      <4>1. FALSE \in BOOLEAN
        OBVIOUS
      <4> QED BY <1>3, <1>4, <2>3, <3>4, <3>6, <3>7, <4>1, NestedDeeper
    <3>9. Fits(d, v)
      BY <1>3, <1>4, <2>3, <3>6, FitsDeeper
    <3> HIDE DEF first
    <3> QED BY <1>4, <2>3, <3>2, <3>3, <3>8, <3>9, CallKeyParses
  <2> QED BY <2>4, <2>5
<1> QED BY <1>7, <1>8

LEMMA StandsReads ==
  ASSUME NEW t \in Text, NEW a \in Text, NEW o \in Nat, Stands(t, o, a)
  PROVE  o + Len(a) <= Len(t) /\ SubSeq(t, o + 1, o + Len(a)) = a
<1> DEFINE n == Len(a)
<1>1. n \in Nat /\ Len(t) \in Nat /\ o + n <= Len(t) /\ t \in Seq(Octet) /\ a \in Seq(Octet)
  BY DEF Stands, Text
<1> DEFINE u == SubSeq(t, o + 1, o + n)
<1>2. u \in Seq(Octet) /\ Len(u) = n /\ \A i \in 1 .. n : u[i] = t[o + i]
  <2> HIDE DEF n
  <2>1. \A i \in o + 1 .. o + n : t[i] \in Octet
    BY <1>1, ElementOfSeq
  <2>2. /\ u \in Seq(Octet)
        /\ Len(u) = IF o + 1 <= o + n THEN (o + n) - (o + 1) + 1 ELSE 0
        /\ \A i \in 1 .. (o + n) - (o + 1) + 1 : u[i] = t[(o + 1) + i - 1]
    <3>1. o + 1 \in Int /\ o + n \in Int
      BY <1>1
    <3> QED BY <2>1, <3>1, SubSeqProperties
  <2> HIDE DEF u
  <2>3. Len(u) = n
    BY <1>1, <2>2
  <2>4. ASSUME NEW i \in 1 .. n PROVE u[i] = t[o + i]
    <3>1. i \in 1 .. (o + n) - (o + 1) + 1 /\ (o + 1) + i - 1 = o + i
      BY <1>1
    <3> QED BY <2>2, <3>1
  <2> QED BY <2>2, <2>3, <2>4
<1>3. \A i \in 1 .. n : u[i] = a[i]
  BY <1>2 DEF Stands
<1> HIDE DEF u
<1>4. u = a
  BY <1>1, <1>2, <1>3, SeqEqual
<1> QED BY <1>1, <1>4 DEF u

\* The text of an item begins with a value.
LEMMA NoValueParses ==
  ASSUME ParseInv, NoValue, NEW v, NEW fmt, NEW w, NEW p, ParsesAt(v, fmt, w, p)
  PROVE  FALSE
<1> DEFINE y == HereAt(w, Len(w), v)
<1>1. parsing = "value" /\ \A l \in Literals : ~Reads(offset, l[1])
  BY DEF NoValue
<1>2. y \in Items /\ Can(offset) /\ content[offset + 1] \in FirstBytes(y) /\ content \in Text /\ offset \in Nat
  BY <1>1, ValueIs
<1>3. content[offset + 1] \notin Digit \cup {Minus, Quote, LBracket, LBrace}
  BY <1>2 DEF NoValue
<1>4. y.type \in {"null", "false", "true"}
  <2> HIDE DEF y
  <2>1. y.type \in Printable
    BY <1>2, ItemIs
  <2> QED BY <1>2, <1>3, <2>1 DEF FirstBytes, Printable
<1>5. ~Container(y)
  BY <1>4 DEF Container
<1> DEFINE a == ScalarPiece(y).s
<1>6. PICK q \in Text : Holds(content, offset, a \o q)
  BY <1>1, <1>5, ScalarFound
<1>7. a \in {NullText, FalseText, TrueText}
  <2> HIDE DEF y
  <2> QED BY <1>4 DEF ScalarPiece, Piece
<1> HIDE DEF a
<1>8. a \in Text
  <2>1. NullText \in Text /\ FalseText \in Text /\ TrueText \in Text
    BY DEF NullText, FalseText, TrueText, Text, Octet
  <2> QED BY <1>7, <2>1
<1>9. Stands(content, offset, a)
  BY <1>2, <1>6, <1>8, HoldsNext
<1>10. Reads(offset, a)
  BY <1>2, <1>8, <1>9, StandsReads DEF Reads
<1>11. \E l \in Literals : l[1] = a
  <2>1. <<NullText, Null>>[1] = NullText /\ <<FalseText, Bool(FALSE)>>[1] = FalseText /\ <<TrueText, Bool(TRUE)>>[1] = TrueText
    OBVIOUS
  <2> QED BY <1>7, <2>1, Zenon DEF Literals
<1> QED BY <1>1, <1>10, <1>11

\* A step in a string goes on reading it.
ReadsOn(s, q) ==
  /\ ReadsString(s, q)' /\ parsing' \in {"measure", "unescape"}
  /\ UNCHANGED <<content, requireNull, offset, value, nest>>

\* The innermost item, when a key or a string is read.
LEMMA StringHere ==
  ASSUME NEW v, NEW fmt, NEW w, NEW p, ParsesAt(v, fmt, w, p), StringAt(v, fmt, w, p)
  PROVE  HereAt(w, Len(w), v) \in Items /\ HereAt(w, Len(w), v).str \in Seq(Byte)
<1>1. InsideAt(w, Len(w)) /\ OnItsWay(v, Nul, fmt, w)
  BY WayKnown DEF StringAt, AtRest
<1>2. HereAt(w, Len(w), v) \in Items
  BY <1>1, TopIs
<1> DEFINE y == HereAt(w, Len(w), v)
<1> HIDE DEF y
<1>3. y \in Items
  BY <1>2 DEF y
<1>4. y.str \in Seq(Byte)
  BY <1>3, ItemIs
<1> QED BY <1>3, <1>4 DEF y

LEMMA KeyHere ==
  ASSUME NEW v, NEW fmt, NEW w, NEW p, OnItsWay(v, Nul, fmt, w), AtColon(w, v, Nul, fmt, p)
  PROVE  /\ HereAt(w, Len(w), v) \in Items /\ HereAt(w, Len(w), v).name \in Seq(Byte)
         /\ HereAt(w, Len(w), v).name # NoName
         /\ w # <<>> /\ InsideAt(w, Len(w)) /\ w[Len(w)].x.type = "object"
<1>1. w # <<>> /\ w[Len(w)].x.type = "object" /\ InsideAt(w, Len(w))
  BY DEF AtColon, AtValue
<1> DEFINE x == w[Len(w)].x
           k == w[Len(w)].k
<1>2. x \in Items /\ k \in Nat \ {0} /\ Len(x.kids) \in Nat /\ k <= Len(x.kids) /\ HereAt(w, Len(w), v) = x.kids[k]
  BY <1>1, TopIs
<1>3. x.type = "object"
  BY <1>1
<1> HIDE DEF x, k
<1>4. k \in 1 .. Len(x.kids)
  BY <1>2
<1>5. x.kids[k] \in Items /\ x.kids[k].name \in Seq(Byte) /\ x.kids[k].name # NoName
  BY <1>2, <1>3, <1>4, KeyIs
<1> DEFINE y == HereAt(w, Len(w), v)
<1>6. y = x.kids[k]
  BY <1>2
<1> HIDE DEF y
<1>7. y \in Items /\ y.name \in Seq(Byte) /\ y.name # NoName
  BY <1>5, <1>6
<1> QED BY <1>1, <1>7 DEF y

LEMMA StringOn ==
  ASSUME NEW v, NEW fmt, NEW w, NEW p, ParsesAt(v, fmt, w, p), InString,
         \A s \in Seq(Byte), q \in Text : ReadsString(s, q) => ReadsOn(s, q)
  PROVE  Parses(v)'
<1> DEFINE y == HereAt(w, Len(w), v)
<1>1. p \in Text /\ OnItsWay(v, Nul, fmt, w) /\ Fits(w, v) /\ v.name = NoName /\ requireNull
  BY WayKnown
<1>2. CASE StringAt(v, fmt, w, p)
  <2>1. ReadsString(y.str, p) /\ y.str \in Seq(Byte)
    BY <1>2, StringHere DEF StringAt
  <2>2. ReadsOn(y.str, p)
    BY <1>1, <2>1
  <2>3. ReadsString(y.str, p)' /\ parsing' \in {"measure", "unescape"} /\ requireNull' = requireNull /\ nest' = nest
    BY <2>2 DEF ReadsOn
  <2>4. StringAt(v, fmt, w, p)'
    <3>1. Nested(w, TRUE) /\ AtRest(w, Nul, fmt, p) /\ y.type = "string"
      BY <1>2 DEF StringAt
    <3>2. Nested(w, TRUE)'
      BY <2>3, <3>1 DEF Nested
    <3> QED BY <2>3, <3>1, <3>2 DEF StringAt
  <2>5. ParsesAt(v, fmt, w, p)'
    BY <1>1, <2>3, <2>4 DEF ParsesAt, InString
  <2> QED BY <2>5 DEF Parses
<1>3. CASE KeyAt(v, fmt, w, p)
  <2>1. ReadsString(y.name, p) /\ y.name \in Seq(Byte)
    BY <1>1, <1>3, KeyHere DEF KeyAt
  <2>2. ReadsOn(y.name, p)
    BY <1>1, <2>1
  <2>3. ReadsString(y.name, p)' /\ parsing' \in {"measure", "unescape"} /\ requireNull' = requireNull /\ nest' = nest
    BY <2>2 DEF ReadsOn
  <2>4. KeyAt(v, fmt, w, p)'
    <3>1. Nested(w, FALSE) /\ AtColon(w, v, Nul, fmt, p)
      BY <1>3 DEF KeyAt
    <3>2. Nested(w, FALSE)'
      BY <2>3, <3>1 DEF Nested
    <3> QED BY <2>3, <3>1, <3>2 DEF KeyAt
  <2>5. ParsesAt(v, fmt, w, p)'
    BY <1>1, <2>3, <2>4 DEF ParsesAt, InString
  <2> QED BY <2>5 DEF Parses
<1> QED BY <1>2, <1>3 DEF ParsesAt

LEMMA InStringParses ==
  ASSUME ParseInv, ParseString \/ Measure \/ Measured \/ Unescape,
         NEW v, NEW fmt, NEW w, NEW p, ParsesAt(v, fmt, w, p)
  PROVE  Parses(v)'
<1>1. InString
  BY DEF InString, ParseString, Measure, Measured, Unescape
<1>2. ASSUME NEW s \in Seq(Byte), NEW q \in Text, ReadsString(s, q) PROVE ReadsOn(s, q)
  <2>1. CASE ParseString
    BY <1>2, <2>1, ParseStringReads DEF ReadsOn
  <2>2. CASE Measure
    <3>1. parsing = "measure"
      BY <2>2 DEF Measure
    <3> QED BY <1>2, <2>2, <3>1, MeasureReads DEF ReadsOn
  <2>3. CASE Measured
    BY <1>2, <2>3, MeasuredReads DEF ReadsOn
  <2>4. CASE Unescape
    <3>1. parsing = "unescape"
      BY <2>4 DEF Unescape
    <3> QED BY <1>2, <2>4, <3>1, UnescapeReads DEF ReadsOn
  <2> QED BY <2>1, <2>2, <2>3, <2>4
<1> QED BY <1>1, <1>2, StringOn

LEMMA UnescapedParses ==
  ASSUME ParseInv, Unescaped, NEW v, NEW fmt, NEW w, NEW p, ParsesAt(v, fmt, w, p)
  PROVE  Parses(v)'
<1> DEFINE y == HereAt(w, Len(w), v)
<1>1. p \in Text /\ OnItsWay(v, Nul, fmt, w) /\ Fits(w, v) /\ v.name = NoName /\ requireNull
      /\ Len(w) \in Nat /\ NestingLimit \in Nat
  BY WayKnown
<1>2. InString
  BY DEF InString, Unescaped
<1>3. CASE StringAt(v, fmt, w, p)
  <2>1. ReadsString(y.str, p) /\ y.str \in Seq(Byte) /\ y \in Items
    BY <1>3, StringHere DEF StringAt
  <2>2. parsing' = "parsed" /\ value' = String(y.str) /\ Holds(content, offset', p)
        /\ UNCHANGED <<content, requireNull, nest>>
    BY <1>1, <2>1, UnescapedReads
  <2>3. Nested(w, TRUE) /\ AtRest(w, Nul, fmt, p) /\ y.type = "string"
    BY <1>3 DEF StringAt
  <2>4. Bare(y) = String(y.str)
    <3> HIDE DEF y
    <3> QED BY <2>1, <2>3, BareIs
  <2>5. DepthOf(y) + Len(w) <= NestingLimit
    <3>1. DepthOf(y) = 0
      <4> HIDE DEF y
      <4> QED BY <2>1, <2>3, DepthIs DEF Container
    <3>2. Len(nest) = Len(w) /\ Len(nest) <= NestingLimit
      BY <2>3, Here DEF Nested, NestInv
    <3> HIDE DEF y
    <3> QED BY <1>1, <3>1, <3>2
  <2>6. Nested(w, TRUE)'
    BY <2>2, <2>3 DEF Nested
  <2>7. ValueDone(v, fmt, w, p)'
    BY <2>2, <2>3, <2>4, <2>5, <2>6 DEF ValueDone
  <2>8. ParsesAt(v, fmt, w, p)'
    BY <1>1, <2>2, <2>7 DEF ParsesAt, InString
  <2> QED BY <2>8 DEF Parses
<1>4. CASE KeyAt(v, fmt, w, p)
  <2>1. ReadsString(y.name, p) /\ y.name \in Seq(Byte)
    BY <1>1, <1>4, KeyHere DEF KeyAt
  <2>2. parsing' = "parsed" /\ value' = String(y.name) /\ Holds(content, offset', p)
        /\ UNCHANGED <<content, requireNull, nest>>
    BY <1>1, <2>1, UnescapedReads
  <2>3. Nested(w, FALSE) /\ AtColon(w, v, Nul, fmt, p)
    BY <1>4 DEF KeyAt
  <2>4. Nested(w, FALSE)'
    BY <2>2, <2>3 DEF Nested
  <2>5. KeyDone(v, fmt, w, p)'
    BY <2>2, <2>3, <2>4 DEF KeyDone
  <2>6. ParsesAt(v, fmt, w, p)'
    BY <1>1, <2>2, <2>5 DEF ParsesAt, InString
  <2> QED BY <2>6 DEF Parses
<1> QED BY <1>2, <1>3, <1>4 DEF ParsesAt

\* w has gone on to the next item in d.
IsNext(w, d, v, fmt) ==
  /\ OnItsWay(v, Nul, fmt, d) /\ Len(d) = Len(w)
  /\ \A i \in 1 .. Len(w) : i # Len(w) => d[i] = w[i]
  /\ d[Len(w)].x = w[Len(w)].x /\ d[Len(w)].k = w[Len(w)].k + 1

\* What follows an item: a comma and the next one, or the end.
LEMMA RestFound ==
  ASSUME ParseInv, NEW v, NEW fmt, NEW w, NEW p, ParsesAt(v, fmt, w, p), ValueDone(v, fmt, w, p), w # <<>>
  PROVE  \E d : /\ IsNext(w, d, v, fmt)
                /\ IF InsideAt(d, Len(d))
                   THEN Is(Skip(offset), Comma) /\ IsFound(d, v, Nul, fmt, Skip(offset) + 1)
                   ELSE IsFound(d, v, Nul, fmt, offset)
<1> DEFINE n == Len(w)
           x == w[n].x
           k == w[n].k
<1>1. OnItsWay(v, Nul, fmt, w) /\ content \in Text /\ p \in Text /\ n \in Nat /\ fmt \in BOOLEAN
  BY WayKnown, Here DEF OnItsWay
<1>2. AtRest(w, Nul, fmt, p) /\ Holds(content, offset, p)
  BY DEF ValueDone
<1>3. PICK d : d = Stepped(w)
  OBVIOUS
<1>4. IsStepped(w, d, v, Nul, fmt, p)
  <2>1. IsStepped(w, Stepped(w), v, Nul, fmt, p)
    BY <1>1, <1>2, RestNext
  <2> QED BY <1>3, <2>1
<1>5. /\ OnItsWay(v, Nul, fmt, d) /\ Len(d) = n
      /\ \A i \in 1 .. n : i # n => d[i] = w[i]
      /\ d[n].x = x /\ d[n].k = k + 1
      /\ \E q \in Text : AtLoop(d, fmt, q) /\ p = Separator(x, k, fmt) \o q
  BY <1>4 DEF IsStepped
<1>6. IsNext(w, d, v, fmt)
  BY <1>5 DEF IsNext
<1>7. PICK q \in Text : AtLoop(d, fmt, q) /\ p = Separator(x, k, fmt) \o q
  BY <1>5
<1>8. InsideAt(d, Len(d)) <=> k < Len(x.kids)
  <2>1. d # <<>>
    BY <1>7 DEF AtLoop
  <2>2. InsideAt(d, Len(d)) <=> d[n].k <= Len(d[n].x.kids)
    BY <1>5, <2>1, TopIs
  <2>3. k \in Nat /\ Len(x.kids) \in Nat
    BY <1>1, TopIs
  <2> HIDE DEF n, x, k
  <2> QED BY <1>5, <2>2, <2>3
<1> DEFINE b == BreakText(x, k, fmt)
           a == CommaText(x, k)
<1>9. b \in Text /\ Blank(b)
  BY BlanksAre, MarksAreText DEF BreakText
<1>10. p = (a \o b) \o q
  BY <1>7 DEF Separator
<1>11. CASE k < Len(x.kids)
  <2> DEFINE c == Comma
             m == <<c>>
  <2>1. a = m /\ m \in Text /\ c \in Octet /\ c > Space
    <3>1. a = m
      BY <1>11 DEF CommaText
    <3>2. <<Comma>> \in Text /\ Comma \in Octet
      BY MarksAreText
    <3>3. Comma > Space
      BY DEF Comma, Space
    <3> QED BY <3>1, <3>2, <3>3
  <2> HIDE DEF c, n, x, k, b, a
  <2>2. p = <<>> \o (m \o (b \o q)) /\ b \o q \in Text
    <3> HIDE DEF m
    <3>1. m \o (b \o q) = (m \o b) \o q
      BY <1>9, <2>1, Associates
    <3>2. b \o q \in Text
      BY <1>9, TextConcat
    <3>3. <<>> \o p = p
      BY <1>1, ConcatEmptySeq DEF Text
    <3> QED BY <1>10, <2>1, <3>1, <3>2, <3>3
  <2> DEFINE r == b \o q
             e == <<>>
  <2>3. Holds(content, offset, e \o (<<c>> \o r)) /\ r \in Text /\ e \in Text /\ Blank(e)
    BY <1>2, <2>2, MarksAreText, BlanksAre
  <2> HIDE DEF r, e
  <2>4. Is(Skip(offset), c) /\ Holds(content, Skip(offset) + 1, r)
    BY <1>1, <2>1, <2>3, MarkFound
  <2> DEFINE o == Skip(offset) + 1
  <2>5. Holds(content, o, b \o q)
    BY <2>4 DEF r
  <2> HIDE DEF o
  <2>6. OnItsWay(v, Nul, fmt, d) /\ AtLoop(d, fmt, q)
    BY <1>5, <1>7
  <2>7. IsFound(d, v, Nul, fmt, o)
    BY <1>1, <1>9, <2>5, <2>6, LoopFound
  <2>8. Is(Skip(offset), Comma) /\ IsFound(d, v, Nul, fmt, Skip(offset) + 1)
    BY <2>4, <2>7 DEF c, o
  <2>9. InsideAt(d, Len(d))
    BY <1>8, <1>11
  <2> QED BY <1>6, <2>8, <2>9
<1>12. CASE ~(k < Len(x.kids))
  <2>1. a = <<>>
    BY <1>12 DEF CommaText
  <2> HIDE DEF n, x, k, b, a
  <2>2. p = b \o q
    <3>1. <<>> \o b = b
      BY <1>9, ConcatEmptySeq DEF Text
    <3> QED BY <1>10, <2>1, <3>1
  <2>3. Holds(content, offset, b \o q)
    BY <1>2, <2>2
  <2>4. OnItsWay(v, Nul, fmt, d) /\ AtLoop(d, fmt, q)
    BY <1>5, <1>7
  <2>5. IsFound(d, v, Nul, fmt, offset)
    BY <1>1, <1>9, <2>3, <2>4, LoopFound
  <2>6. ~InsideAt(d, Len(d))
    BY <1>8, <1>12
  <2> QED BY <1>6, <2>5, <2>6
<1> QED BY <1>11, <1>12

\* The kids that have been parsed, with the next one.
LEMMA KidsGrow ==
  ASSUME NEW s \in Seq(Items), NEW k \in 1 .. Len(s)
  PROVE  Append(SubSeq(s, 1, k - 1), s[k]) = SubSeq(s, 1, (k + 1) - 1)
<1>1. k \in Nat /\ Len(s) \in Nat /\ (k + 1) - 1 = k /\ s[k] \in Items
  BY ElementOfSeq
<1> DEFINE a == SubSeq(s, 1, k - 1)
           b == SubSeq(s, 1, k)
           c == Append(a, s[k])
<1>2. a \in Seq(Items) /\ Len(a) = k - 1 /\ \A i \in 1 .. k - 1 : a[i] = s[i]
  <2>1. \A i \in 1 .. k - 1 : s[i] \in Items
    BY <1>1, ElementOfSeq
  <2> QED BY <1>1, <2>1, SMT
<1>3. b \in Seq(Items) /\ Len(b) = k /\ \A i \in 1 .. k : b[i] = s[i]
  <2>1. \A i \in 1 .. k : s[i] \in Items
    BY <1>1, ElementOfSeq
  <2> QED BY <1>1, <2>1, SMT
<1> HIDE DEF a, b
<1>4. c \in Seq(Items) /\ Len(c) = Len(a) + 1 /\ c[Len(a) + 1] = s[k] /\ \A i \in 1 .. Len(a) : c[i] = a[i]
  BY <1>1, <1>2, AppendProperties
<1> HIDE DEF c
<1>5. Len(c) = Len(b) /\ \A i \in 1 .. Len(c) : c[i] = b[i]
  <2>1. Len(a) + 1 = k
    BY <1>1, <1>2
  <2>2. ASSUME NEW i \in 1 .. k PROVE c[i] = b[i]
    <3>1. i = k \/ i \in 1 .. k - 1
      BY <1>1
    <3> QED BY <1>2, <1>3, <1>4, <2>1, <3>1
  <2> QED BY <1>3, <1>4, <2>1, <2>2
<1>6. c = b
  BY <1>3, <1>4, <1>5, SeqEqual
<1> QED BY <1>1, <1>6 DEF a, b, c

\* An item in an array or an object has been parsed: the kid k of x.
Done(w, x, k) ==
  /\ w # <<>> /\ Len(w) \in Nat \ {0} /\ Len(w) <= NestingLimit
  /\ x \in Items /\ x.kids \in Seq(Items) /\ k \in 1 .. Len(x.kids)
  /\ Inner.type = x.type /\ x.type \in {"array", "object"}
  /\ Named(Inner.key, value) = x.kids[k]
  /\ x.type = "array" => Inner.key = NoName /\ value = x.kids[k]
  /\ x.type = "object" => Inner.key # NoName
  /\ Append(Inner.kids, x.kids[k]) = SubSeq(x.kids, 1, (k + 1) - 1)
  /\ DepthOf(x.kids[k]) + Len(w) <= NestingLimit

LEMMA DoneHere ==
  ASSUME ParseInv, NEW v, NEW fmt, NEW w, NEW p, ParsesAt(v, fmt, w, p), ValueDone(v, fmt, w, p), nest # <<>>,
         NEW x, NEW k, x = w[Len(w)].x, k = w[Len(w)].k
  PROVE  Done(w, x, k)
<1>1. OnItsWay(v, Nul, fmt, w)
  BY WayKnown
<1>2. /\ Nested(w, TRUE) /\ InsideAt(w, Len(w)) /\ value = Bare(HereAt(w, Len(w), v))
      /\ DepthOf(HereAt(w, Len(w), v)) + Len(w) <= NestingLimit
  BY DEF ValueDone, AtRest
<1>3. PICK keyed \in BOOLEAN : keyed = TRUE
  OBVIOUS
<1>4. Nested(w, keyed)
  BY <1>2, <1>3
<1>5. /\ w # <<>> /\ Len(w) \in Nat \ {0}
      /\ Inner.type = x.type /\ x.type \in {"array", "object"} /\ x \in Items
      /\ k \in Nat \ {0} /\ Len(x.kids) \in Nat
      /\ Inner.kids = SubSeq(x.kids, 1, k - 1)
      /\ Inner.key = (IF keyed THEN x.kids[k].name ELSE NoName)
      /\ InsideAt(w, Len(w)) <=> k <= Len(x.kids)
      /\ HereAt(w, Len(w), v) = x.kids[k]
  BY <1>1, <1>4, InnerIs
<1>6. k \in 1 .. Len(x.kids) /\ x.kids \in Seq(Items) /\ x.kids[k] \in Items
  <2>1. k \in 1 .. Len(x.kids)
    BY <1>2, <1>5
  <2> QED BY <1>5, <2>1, ItemIs
<1> DEFINE y == x.kids[k]
<1>7. value = Bare(y) /\ DepthOf(y) + Len(w) <= NestingLimit /\ Inner.key = y.name /\ y \in Items
  <2>1. y = HereAt(w, Len(w), v)
    BY <1>5
  <2>2. Inner.key = y.name
    BY <1>3, <1>5
  <2> HIDE DEF y
  <2> QED BY <1>2, <1>6, <2>1, <2>2 DEF y
<1>8. y.name = NoName <=> x.type = "array"
  <2>1. k \in DOMAIN x.kids
    BY <1>6
  <2> QED BY <1>5, <2>1, ItemAssumption
<1> HIDE DEF y
<1>9. Named(Inner.key, value) = y /\ (y.name = NoName => value = y)
  BY <1>7, BareIs
<1>10. Append(Inner.kids, y) = SubSeq(x.kids, 1, (k + 1) - 1)
  BY <1>5, <1>6, KidsGrow DEF y
<1>11. Len(w) <= NestingLimit
  BY <1>2, Here DEF Nested, NestInv
<1>12. x.type = "object" => x.type # "array"
  OBVIOUS
<1> QED BY <1>5, <1>6, <1>7, <1>8, <1>9, <1>10, <1>11, <1>12 DEF y, Done

\* An array or an object ends.
LEMMA CloseParses ==
  ASSUME ParseInv, NEW v, NEW fmt, NEW w, NEW p, ParsesAt(v, fmt, w, p), ValueDone(v, fmt, w, p), nest # <<>>,
         NEW d, IsNext(w, d, v, fmt), ~InsideAt(d, Len(d)), CloseFound(d, v, Nul, fmt, offset),
         NEW y, Parsed(y, Skip(offset) + 1), nest' = Outer,
         NEW ks, ks = SubSeq(w[Len(w)].x.kids, 1, (w[Len(w)].k + 1) - 1),
         y = IF w[Len(w)].x.type = "array" THEN Array(ks) ELSE Object(ks)
  PROVE  Parses(v)'
<1>1. PICK x, k : x = w[Len(w)].x /\ k = w[Len(w)].k
  OBVIOUS
<1>2. /\ w # <<>> /\ Len(w) \in Nat \ {0} /\ Len(w) <= NestingLimit
      /\ x \in Items /\ x.kids \in Seq(Items) /\ k \in 1 .. Len(x.kids)
      /\ x.type \in {"array", "object"} /\ DepthOf(x.kids[k]) + Len(w) <= NestingLimit
  BY <1>1, DoneHere DEF Done
<1>3. /\ OnItsWay(v, Nul, fmt, d) /\ Len(d) = Len(w)
      /\ \A i \in 1 .. Len(w) : i # Len(w) => d[i] = w[i]
      /\ d[Len(w)].x = x /\ d[Len(w)].k = k + 1
  BY <1>1 DEF IsNext
<1>4. OnItsWay(v, Nul, fmt, w) /\ Fits(w, v) /\ v.name = NoName /\ requireNull
  BY WayKnown
<1>5. Fits(d, v)
  <2>1. d[Len(w)].x = w[Len(w)].x /\ d[Len(w)].k = w[Len(w)].k + 1
        /\ DepthOf(w[Len(w)].x.kids[w[Len(w)].k]) + Len(w) <= NestingLimit
    BY <1>1, <1>2, <1>3
  <2> QED BY <1>2, <1>3, <1>4, <2>1, FitsStepped
<1>6. DepthOf(x) + (Len(w) - 1) <= NestingLimit
  <2>1. d # <<>> /\ Len(d) <= NestingLimit
    BY <1>2, <1>3, TopIs
  <2>2. DepthOf(d[Len(d)].x) + (Len(d) - 1) <= NestingLimit
    BY <1>3, <1>5, <2>1, FitsClosed
  <2>3. d[Len(d)].x = x /\ Len(d) = Len(w)
    BY <1>3
  <2> QED BY <2>2, <2>3
<1>7. k = Len(x.kids)
  <2>1. d # <<>>
    BY <1>2, <1>3, TopIs
  <2>2. InsideAt(d, Len(d)) <=> d[Len(d)].k <= Len(d[Len(d)].x.kids)
    BY <1>3, <2>1, TopIs
  <2>3. InsideAt(d, Len(d)) <=> k + 1 <= Len(x.kids)
    BY <1>3, <2>2
  <2> QED BY <1>2, <2>3
<1>8. y = Bare(x)
  <2>1. ks = x.kids
    <3>1. (k + 1) - 1 = Len(x.kids)
      BY <1>2, <1>7
    <3>2. ks = SubSeq(x.kids, 1, (k + 1) - 1)
      BY <1>1
    <3> QED BY <1>2, <3>1, <3>2, SubSeqFull
  <2>2. y = IF x.type = "array" THEN Array(x.kids) ELSE Object(x.kids)
    BY <1>1, <2>1
  <2>3. (x.type = "array" => Bare(x) = Array(x.kids)) /\ (x.type = "object" => Bare(x) = Object(x.kids))
    BY <1>2, BareIs
  <2> QED BY <1>2, <2>2, <2>3
<1>9. PICK g : g = Left(d)
  OBVIOUS
<1>10. /\ WayLeft(d, g, v, Nul, fmt)
       /\ \E q \in Text : AtRest(g, Nul, fmt, q) /\ Holds(content, Skip(offset) + 1, q)
  <2>1. /\ WayLeft(d, Left(d), v, Nul, fmt)
        /\ \E q \in Text : AtRest(Left(d), Nul, fmt, q) /\ Holds(content, Skip(offset) + 1, q)
    BY DEF CloseFound
  <2> QED BY <1>9, <2>1
<1>11. PICK q \in Text : AtRest(g, Nul, fmt, q) /\ Holds(content, Skip(offset) + 1, q)
  BY <1>10
<1>12. WayLeft(w, g, v, Nul, fmt)
  <2> DEFINE n == Len(w)
  <2>1. /\ OnItsWay(v, Nul, fmt, g) /\ Len(g) = n - 1 /\ (\A i \in 1 .. n - 1 : g[i] = d[i])
        /\ HereAt(g, n - 1, v) = d[n].x
    BY <1>3, <1>10 DEF WayLeft
  <2>2. \A i \in 1 .. n - 1 : d[i] = w[i]
    <3>1. \A i \in 1 .. n - 1 : i \in 1 .. n /\ i # n
      BY <1>2
    <3> QED BY <1>3, <3>1
  <2>3. n \in Nat \ {0} /\ d[n].x = w[n].x
    BY <1>1, <1>2, <1>3
  <2> HIDE DEF n
  <2>4. (\A i \in 1 .. n - 1 : g[i] = w[i]) /\ HereAt(g, n - 1, v) = w[n].x
    BY <2>1, <2>2, <2>3
  <2> QED BY <2>1, <2>3, <2>4 DEF WayLeft, n
<1>13. Nested(g, TRUE)'
  <2>1. PICK before \in BOOLEAN : before = TRUE
    OBVIOUS
  <2>2. Nested(w, before)
    BY <2>1 DEF ValueDone
  <2> QED BY <1>4, <1>12, <2>2, NestedLeft
<1>14. Fits(g, v)
  BY <1>4, <1>12, FitsLeft
<1>15. OnItsWay(v, Nul, fmt, g) /\ HereAt(g, Len(g), v) = x /\ Len(g) = Len(w) - 1
  BY <1>1, <1>12 DEF WayLeft
<1>16. DepthOf(HereAt(g, Len(g), v)) + Len(g) <= NestingLimit /\ y = Bare(HereAt(g, Len(g), v))
  BY <1>6, <1>8, <1>15
<1> DEFINE end == Skip(offset) + 1
<1>17. Parsed(y, end) /\ Holds(content, end, q)
  BY <1>11
<1> HIDE DEF end
<1> QED BY <1>4, <1>11, <1>13, <1>14, <1>15, <1>16, <1>17, ParsedParses

\* The next item comes.
LEMMA NextParses ==
  ASSUME ParseInv, NEW v, NEW fmt, NEW w, NEW p, ParsesAt(v, fmt, w, p), ValueDone(v, fmt, w, p), nest # <<>>,
         NEW d, IsNext(w, d, v, fmt), InsideAt(d, Len(d)), NEW keyed \in BOOLEAN,
         NEW ks, NEW key, key = NoName, ks = SubSeq(d[Len(w)].x.kids, 1, d[Len(w)].k - 1),
         keyed => w[Len(w)].x.type = "array",
         nest' = Append(Outer, Call(d[Len(w)].x.type, ks, key))
  PROVE  Nested(d, keyed)' /\ Fits(d, v) /\ OnItsWay(v, Nul, fmt, d)
<1>1. PICK x, k : x = w[Len(w)].x /\ k = w[Len(w)].k
  OBVIOUS
<1>2. /\ w # <<>> /\ Len(w) \in Nat \ {0} /\ Len(w) <= NestingLimit
      /\ x \in Items /\ x.kids \in Seq(Items) /\ k \in 1 .. Len(x.kids)
      /\ x.type \in {"array", "object"} /\ DepthOf(x.kids[k]) + Len(w) <= NestingLimit
  BY <1>1, DoneHere DEF Done
<1>3. /\ OnItsWay(v, Nul, fmt, d) /\ Len(d) = Len(w)
      /\ \A i \in 1 .. Len(w) : i # Len(w) => d[i] = w[i]
      /\ d[Len(w)].x = x /\ d[Len(w)].k = k + 1
  BY <1>1 DEF IsNext
<1>4. OnItsWay(v, Nul, fmt, w) /\ Fits(w, v)
  BY WayKnown
<1>5. Fits(d, v)
  <2>1. d[Len(w)].x = w[Len(w)].x /\ d[Len(w)].k = w[Len(w)].k + 1
        /\ DepthOf(w[Len(w)].x.kids[w[Len(w)].k]) + Len(w) <= NestingLimit
    BY <1>1, <1>2, <1>3
  <2> QED BY <1>2, <1>3, <1>4, <2>1, FitsStepped
<1>6. k + 1 \in DOMAIN x.kids
  <2>1. d # <<>>
    BY <1>2, <1>3, TopIs
  <2>2. InsideAt(d, Len(d)) <=> d[Len(d)].k <= Len(d[Len(d)].x.kids)
    BY <1>3, <2>1, TopIs
  <2>3. k + 1 <= Len(x.kids)
    BY <1>3, <2>2
  <2> QED BY <1>2, <2>3
<1>7. keyed => x.kids[k + 1].name = NoName
  BY <1>1, <1>2, <1>6, ItemAssumption
<1>9. key = IF keyed THEN d[Len(w)].x.kids[d[Len(w)].k].name ELSE NoName
  BY <1>3, <1>7
<1>10. PICK before \in BOOLEAN : before = TRUE
  OBVIOUS
<1>11. Nested(w, before)
  BY <1>10 DEF ValueDone
<1>14. Nested(d, keyed)'
  <2>1. OnItsWay(v, Nul, fmt, w) /\ w # <<>> /\ Len(d) = Len(w)
    BY <1>2, <1>3, <1>4
  <2>2. \A i \in 1 .. Len(w) : i # Len(w) => d[i] = w[i]
    BY <1>3
  <2>3. keyed \in BOOLEAN /\ before \in BOOLEAN
    BY <1>10
  <2> QED BY <1>9, <1>11, <2>1, <2>2, <2>3, NestedStepped
<1> QED BY <1>3, <1>5, <1>14

LEMMA NextElementParses ==
  ASSUME ParseInv, NextElement, NEW v, NEW fmt, NEW w, NEW p, ParsesAt(v, fmt, w, p)
  PROVE  Parses(v)'
<1> DEFINE next == Skip(offset)
           ks == Append(Inner.kids, value)
<1>1. parsing = "parsed" /\ nest # <<>> /\ Inner.type = "array"
  BY DEF NextElement
<1>2. IF Is(next, Comma) THEN CallValue(Skip(next + 1), Append(Outer, Call("array", ks, NoName)))
      ELSE IF Is(next, RBracket)
      THEN Parsed(Array(ks), next + 1) /\ nest' = Outer /\ UNCHANGED str
      ELSE Fail(next)
  BY DEF NextElement
<1>3. OnItsWay(v, Nul, fmt, w) /\ requireNull /\ v.name = NoName
  BY WayKnown
<1>4. ValueDone(v, fmt, w, p)
  <2>1. CASE KeyDone(v, fmt, w, p)
    <3>1. PICK keyed \in BOOLEAN : keyed = FALSE
      OBVIOUS
    <3>2. Nested(w, keyed) /\ w[Len(w)].x.type = "object"
      BY <2>1, <3>1 DEF KeyDone, AtColon
    <3>3. Inner.type = w[Len(w)].x.type
      BY <1>1, <1>3, <3>2, InnerIs
    <3> QED BY <1>1, <3>2, <3>3
  <2> QED BY <1>1, <2>1 DEF ParsesAt
<1>5. PICK x, k : x = w[Len(w)].x /\ k = w[Len(w)].k
  OBVIOUS
<1>6. /\ w # <<>> /\ x.type = "array" /\ value = x.kids[k]
      /\ ks = SubSeq(x.kids, 1, (k + 1) - 1)
  BY <1>1, <1>4, <1>5, DoneHere DEF Done
<1>7. PICK d : /\ IsNext(w, d, v, fmt)
               /\ IF InsideAt(d, Len(d))
                  THEN Is(next, Comma) /\ IsFound(d, v, Nul, fmt, next + 1)
                  ELSE IsFound(d, v, Nul, fmt, offset)
  BY <1>4, <1>6, RestFound
<1>8. d[Len(d)].x = x
  BY <1>5, <1>7 DEF IsNext
<1> HIDE DEF ks
<1>9. CASE InsideAt(d, Len(d))
  <2>1. CallValue(Skip(next + 1), Append(Outer, Call("array", ks, NoName)))
    BY <1>2, <1>7, <1>9
  <2>2. ElementFound(d, v, Nul, fmt, next + 1)
    BY <1>6, <1>7, <1>8, <1>9 DEF IsFound
  <2>3. PICK q \in Text : AtValue(d, v, Nul, fmt, q) /\ Holds(content, Skip(next + 1), q)
    BY <2>2 DEF ElementFound
  <2>4. Nested(d, TRUE)' /\ Fits(d, v) /\ OnItsWay(v, Nul, fmt, d)
    <3>1. PICK keyed \in BOOLEAN : keyed = TRUE
      OBVIOUS
    <3>2. ks = SubSeq(d[Len(w)].x.kids, 1, d[Len(w)].k - 1)
      BY <1>5, <1>6, <1>7 DEF IsNext
    <3>6. PICK key : key = NoName
      OBVIOUS
    <3>3. nest' = Append(Outer, Call(d[Len(w)].x.type, ks, key))
      BY <1>5, <1>6, <1>7, <2>1, <3>6 DEF CallValue, IsNext
    <3>4. keyed => w[Len(w)].x.type = "array"
      BY <1>5, <1>6, <3>1
    <3>5. Nested(d, keyed)' /\ Fits(d, v) /\ OnItsWay(v, Nul, fmt, d)
      BY <1>1, <1>4, <1>7, <1>9, <3>2, <3>3, <3>4, <3>6, NextParses
    <3> QED BY <3>1, <3>5
  <2> DEFINE o == Skip(next + 1)
             s == Append(Outer, Call("array", ks, NoName))
  <2>5. CallValue(o, s) /\ Holds(content, o, q)
    BY <2>1, <2>3
  <2> HIDE DEF o, s, next
  <2> QED BY <1>3, <2>3, <2>4, <2>5, CallValueParses
<1>10. CASE ~InsideAt(d, Len(d))
  <2>1. CloseFound(d, v, Nul, fmt, offset)
    BY <1>7, <1>10 DEF IsFound
  <2>2. Is(next, RBracket)
    BY <1>6, <1>8, <2>1 DEF CloseFound
  <2>3. ~Is(next, Comma)
    BY <2>2 DEF Is, RBracket, Comma
  <2>4. Parsed(Array(ks), next + 1) /\ nest' = Outer
    BY <1>2, <2>2, <2>3
  <2>5. ks = SubSeq(w[Len(w)].x.kids, 1, (w[Len(w)].k + 1) - 1)
    BY <1>5, <1>6
  <2>6. PICK y : y = Array(ks)
    OBVIOUS
  <2>7. y = IF w[Len(w)].x.type = "array" THEN Array(ks) ELSE Object(ks)
    BY <1>5, <1>6, <2>6
  <2>8. Parsed(y, Skip(offset) + 1)
    BY <2>4, <2>6
  <2> QED BY <1>1, <1>4, <1>7, <1>10, <2>1, <2>4, <2>5, <2>7, <2>8, CloseParses
<1> QED BY <1>9, <1>10

LEMMA NextMemberParses ==
  ASSUME ParseInv, NextMember, NEW v, NEW fmt, NEW w, NEW p, ParsesAt(v, fmt, w, p)
  PROVE  Parses(v)'
<1> DEFINE next == Skip(offset)
           ks == Append(Inner.kids, Named(Inner.key, value))
<1>1. parsing = "parsed" /\ nest # <<>> /\ Inner.type = "object" /\ Inner.key # NoName
  BY DEF NextMember
<1>2. IF Is(next, Comma) THEN CallString(Skip(next + 1), Append(Outer, Call("object", ks, NoName)))
      ELSE IF Is(next, RBrace)
      THEN Parsed(Object(ks), next + 1) /\ nest' = Outer /\ UNCHANGED str
      ELSE Fail(next)
  BY DEF NextMember
<1>3. OnItsWay(v, Nul, fmt, w) /\ requireNull /\ v.name = NoName
  BY WayKnown
<1>4. ValueDone(v, fmt, w, p)
  <2>1. CASE KeyDone(v, fmt, w, p)
    <3>1. PICK keyed \in BOOLEAN : keyed = FALSE
      OBVIOUS
    <3>2. Nested(w, keyed)
      BY <2>1, <3>1 DEF KeyDone
    <3>3. Inner.key = IF keyed THEN w[Len(w)].x.kids[w[Len(w)].k].name ELSE NoName
      BY <1>1, <1>3, <3>2, InnerIs
    <3> QED BY <1>1, <3>1, <3>3
  <2> QED BY <1>1, <2>1 DEF ParsesAt
<1>5. PICK x, k : x = w[Len(w)].x /\ k = w[Len(w)].k
  OBVIOUS
<1>6. /\ w # <<>> /\ x.type = "object" /\ Named(Inner.key, value) = x.kids[k]
      /\ Append(Inner.kids, x.kids[k]) = SubSeq(x.kids, 1, (k + 1) - 1)
  <2>1. /\ w # <<>> /\ Inner.type = x.type /\ Named(Inner.key, value) = x.kids[k]
        /\ Append(Inner.kids, x.kids[k]) = SubSeq(x.kids, 1, (k + 1) - 1)
    <3>1. nest # <<>>
      BY <1>1
    <3>2. Done(w, x, k)
      BY <1>4, <1>5, <3>1, DoneHere
    <3> QED BY <3>2 DEF Done
  <2> QED BY <1>1, <2>1
<1>11. ks = SubSeq(x.kids, 1, (k + 1) - 1)
  BY <1>6
<1>7. PICK d : /\ IsNext(w, d, v, fmt)
               /\ IF InsideAt(d, Len(d))
                  THEN Is(next, Comma) /\ IsFound(d, v, Nul, fmt, next + 1)
                  ELSE IsFound(d, v, Nul, fmt, offset)
  BY <1>4, <1>6, RestFound
<1>8. d[Len(d)].x = x
  BY <1>5, <1>7 DEF IsNext
<1> HIDE DEF ks
<1>9. CASE InsideAt(d, Len(d))
  <2>1. CallString(Skip(next + 1), Append(Outer, Call("object", ks, NoName)))
    BY <1>2, <1>7, <1>9
  <2>2. MemberFound(d, v, Nul, fmt, next + 1)
    BY <1>6, <1>7, <1>8, <1>9 DEF IsFound
  <2>3. PICK q \in Text : AtKey(d, v, Nul, fmt, q) /\ Holds(content, Skip(next + 1), q)
    BY <2>2 DEF MemberFound
  <2>4. Nested(d, FALSE)' /\ Fits(d, v) /\ OnItsWay(v, Nul, fmt, d)
    <3>1. PICK keyed \in BOOLEAN : keyed = FALSE
      OBVIOUS
    <3>2. ks = SubSeq(d[Len(w)].x.kids, 1, d[Len(w)].k - 1)
      BY <1>5, <1>7, <1>11 DEF IsNext
    <3>6. PICK key : key = NoName
      OBVIOUS
    <3>3. nest' = Append(Outer, Call(d[Len(w)].x.type, ks, key))
      BY <1>5, <1>6, <1>7, <2>1, <3>6 DEF CallString, IsNext
    <3>4. keyed => w[Len(w)].x.type = "array"
      BY <1>5, <1>6, <3>1
    <3>5. Nested(d, keyed)' /\ Fits(d, v) /\ OnItsWay(v, Nul, fmt, d)
      BY <1>1, <1>4, <1>7, <1>9, <3>2, <3>3, <3>4, <3>6, NextParses
    <3> QED BY <3>1, <3>5
  <2> DEFINE o == Skip(next + 1)
             s == Append(Outer, Call("object", ks, NoName))
  <2>5. CallString(o, s) /\ Holds(content, o, q)
    BY <2>1, <2>3
  <2> HIDE DEF o, s, next
  <2> QED BY <1>3, <2>3, <2>4, <2>5, CallKeyParses
<1>10. CASE ~InsideAt(d, Len(d))
  <2>1. CloseFound(d, v, Nul, fmt, offset)
    BY <1>7, <1>10 DEF IsFound
  <2>2. Is(next, RBrace)
    BY <1>6, <1>8, <2>1 DEF CloseFound
  <2>3. ~Is(next, Comma)
    BY <2>2 DEF Is, RBrace, Comma
  <2>4. Parsed(Object(ks), next + 1) /\ nest' = Outer
    BY <1>2, <2>2, <2>3
  <2>5. ks = SubSeq(w[Len(w)].x.kids, 1, (w[Len(w)].k + 1) - 1)
    BY <1>5, <1>11
  <2>6. PICK y : y = Object(ks)
    OBVIOUS
  <2>7. y = IF w[Len(w)].x.type = "array" THEN Array(ks) ELSE Object(ks)
    BY <1>5, <1>6, <2>6
  <2>8. Parsed(y, Skip(offset) + 1)
    BY <2>4, <2>6
  <2> QED BY <1>1, <1>4, <1>7, <1>10, <2>1, <2>4, <2>5, <2>7, <2>8, CloseParses
<1> QED BY <1>9, <1>10

LEMMA MemberValueParses ==
  ASSUME ParseInv, MemberValue, NEW v, NEW fmt, NEW w, NEW p, ParsesAt(v, fmt, w, p)
  PROVE  Parses(v)'
<1> DEFINE colon == Skip(offset)
<1>1. parsing = "parsed" /\ nest # <<>> /\ Inner.type = "object" /\ Inner.key = NoName
  BY DEF MemberValue
<1>2. IF Is(colon, Colon)
      THEN CallValue(Skip(colon + 1), Append(Outer, Call("object", Inner.kids, value.str)))
      ELSE Fail(colon)
  BY DEF MemberValue
<1>3. OnItsWay(v, Nul, fmt, w) /\ Fits(w, v) /\ requireNull /\ v.name = NoName /\ p \in Text /\ content \in Text
  BY WayKnown, Here
<1>4. KeyDone(v, fmt, w, p)
  <2>1. CASE ValueDone(v, fmt, w, p)
    <3>1. PICK x, k : x = w[Len(w)].x /\ k = w[Len(w)].k
      OBVIOUS
    <3>2. Done(w, x, k)
      BY <1>1, <2>1, <3>1, DoneHere
    <3> QED BY <1>1, <3>2 DEF Done
  <2> QED BY <1>1, <2>1 DEF ParsesAt
<1>5. AtColon(w, v, Nul, fmt, p) /\ Nested(w, FALSE) /\ Holds(content, offset, p)
      /\ value = String(HereAt(w, Len(w), v).name)
  BY <1>4 DEF KeyDone
<1>6. w # <<>> /\ w[Len(w)].x.type = "object" /\ fmt \in BOOLEAN
  BY <1>3, <1>5 DEF AtColon, OnItsWay
<1>7. PICK q \in Text : AtValue(w, v, Nul, fmt, q) /\ p = ColonText(fmt) \o q
  BY <1>5 DEF AtColon
<1> DEFINE c == Colon
           b == IF fmt THEN <<Tab>> ELSE <<>>
           m == <<c>>
           e == <<>>
<1>8. ColonText(fmt) = m \o b
  <2>1. <<Colon>> \o <<Tab>> = <<Colon, Tab>>
    BY TwoBytes, MarksAreText
  <2>2. <<Colon>> \o <<>> = <<Colon>>
    BY ConcatEmptySeq, MarksAreText DEF Text
  <2> QED BY <2>1, <2>2 DEF ColonText
<1>9. c \in Octet /\ b \in Text /\ Blank(b) /\ m \in Text /\ c > Space
  <2>1. Colon > Space
    BY DEF Colon, Space
  <2> QED BY <2>1, MarksAreText, BlanksAre
<1> HIDE DEF b, c
<1>10. p = m \o (b \o q) /\ b \o q \in Text
  <2> HIDE DEF m
  <2>1. m \o (b \o q) = (m \o b) \o q
    BY <1>9, Associates
  <2> QED BY <1>7, <1>8, <1>9, <2>1, TextConcat
<1> DEFINE r == b \o q
<1>11. Holds(content, offset, e \o (<<c>> \o r)) /\ r \in Text /\ e \in Text /\ Blank(e)
  <2>1. e \o p = p
    BY <1>3, ConcatEmptySeq DEF Text
  <2>2. p = <<c>> \o r
    BY <1>10
  <2> HIDE DEF r, m
  <2> QED BY <1>5, <1>10, <2>1, <2>2, MarksAreText, BlanksAre DEF r
<1> HIDE DEF r, e
<1>12. Is(colon, c) /\ Holds(content, colon + 1, r)
  BY <1>3, <1>9, <1>11, MarkFound
<1> DEFINE o == colon + 1
<1>13. Holds(content, o, b \o q)
  BY <1>12 DEF r
<1> HIDE DEF o
<1>14. ElementFound(w, v, Nul, fmt, o)
  BY <1>3, <1>7, <1>9, <1>13, ValueFound
<1>15. PICK s \in Text : AtValue(w, v, Nul, fmt, s) /\ Holds(content, Skip(o), s)
  BY <1>14 DEF ElementFound
<1>16. CallValue(Skip(o), Append(Outer, Call("object", Inner.kids, value.str)))
  BY <1>2, <1>12 DEF c, o
<1>17. Nested(w, TRUE)'
  <2>1. PICK before \in BOOLEAN, keyed \in BOOLEAN : before = FALSE /\ keyed = TRUE
    OBVIOUS
  <2>2. Nested(w, before)
    BY <1>5, <2>1
  <2> DEFINE x == w[Len(w)].x
             k == w[Len(w)].k
  <2>3. Inner.kids = SubSeq(x.kids, 1, k - 1) /\ HereAt(w, Len(w), v) = x.kids[k]
    BY <1>1, <1>3, <2>2, InnerIs
  <2>4. value.str = x.kids[k].name
    <3>1. value = String(x.kids[k].name)
      BY <1>5, <2>3
    <3> HIDE DEF x, k
    <3> QED BY <3>1 DEF String, NewItem
  <2>5. PICK ks, key : ks = SubSeq(x.kids, 1, k - 1) /\ key = IF keyed THEN x.kids[k].name ELSE NoName
    OBVIOUS
  <2>6. nest' = Append(Outer, Call(w[Len(w)].x.type, ks, key))
    <3>1. nest' = Append(Outer, Call("object", Inner.kids, value.str))
      BY <1>16 DEF CallValue
    <3>2. Inner.kids = ks /\ value.str = key
      BY <2>1, <2>3, <2>4, <2>5
    <3> QED BY <1>6, <3>1, <3>2
  <2>7. ks = SubSeq(w[Len(w)].x.kids, 1, w[Len(w)].k - 1)
        /\ key = IF keyed THEN w[Len(w)].x.kids[w[Len(w)].k].name ELSE NoName
    BY <2>5
  <2>8. Nested(w, keyed)'
    <3>1. keyed \in BOOLEAN /\ before \in BOOLEAN /\ w # <<>> /\ OnItsWay(v, Nul, fmt, w)
      BY <1>3, <1>6
    <3> QED BY <2>2, <2>6, <2>7, <3>1, NestedStepped
  <2> QED BY <2>1, <2>8
<1> DEFINE f == Append(Outer, Call("object", Inner.kids, value.str))
           g == Skip(o)
<1>18. CallValue(g, f) /\ Holds(content, g, s)
  BY <1>15, <1>16
<1> HIDE DEF f, g
<1> QED BY <1>3, <1>15, <1>17, <1>18, CallValueParses

LEMMA ParseEndParses ==
  ASSUME ParseInv, ParseEnd, NEW v, NEW fmt, NEW w, NEW p, ParsesAt(v, fmt, w, p)
  PROVE  Parses(v)'
<1>1. parsing = "parsed" /\ nest = <<>>
  BY DEF ParseEnd
<1>2. /\ OnItsWay(v, Nul, fmt, w) /\ Fits(w, v) /\ requireNull /\ v.name = NoName /\ v \in Items
      /\ content \in Text /\ p \in Text
      /\ Len(w) \in Nat /\ (w # <<>> <=> Len(w) # 0)
  BY WayKnown, Here
<1>3. Len(nest) = 0
  BY <1>1
<1>4. ValueDone(v, fmt, w, p) /\ Len(w) = 0
  <2>1. Len(w) = 0
    BY <1>1, <1>3 DEF ParsesAt, ValueDone, KeyDone, Nested
  <2>2. ~KeyDone(v, fmt, w, p)
    BY <1>2, <2>1 DEF KeyDone, AtColon
  <2> QED BY <1>1, <2>1, <2>2 DEF ParsesAt
<1>5. p = Nul /\ Holds(content, offset, p) /\ value = Bare(v) /\ DepthOf(v) <= NestingLimit
  <2>1. HereAt(w, Len(w), v) = v /\ RestAt(w, Len(w), Nul, fmt) = Nul
    BY <1>4 DEF HereAt, RestAt
  <2>2. DepthOf(v) + 0 <= NestingLimit
    BY <1>4, <2>1 DEF ValueDone
  <2>3. DepthOf(v) \in Nat
    BY <1>2, DepthIs
  <2>4. p = Nul /\ Holds(content, offset, p) /\ value = Bare(v)
    BY <1>4, <2>1 DEF ValueDone, AtRest
  <2> QED BY <2>2, <2>3, <2>4
<1>6. Len(content) = offset + 1 /\ content[offset + 1] = 0 /\ offset \in Nat
  <2>1. Len(Nul) = 1 /\ Nul[1] = 0
    BY DEF Nul
  <2>2. Holds(content, offset, Nul)
    BY <1>5
  <2> QED BY <2>1, <2>2 DEF Holds
<1>7. Skip(offset) = offset
  <2>1. {i \in offset .. Len(content) - 1 : content[i + 1] > Space} = {}
    <3>1. \A i \in offset .. Len(content) - 1 : i = offset
      BY <1>6
    <3>2. ~(content[offset + 1] > Space)
      BY <1>6 DEF Space
    <3> QED BY <3>1, <3>2
  <2>2. ~(offset >= Len(content)) /\ Len(content) - 1 = offset
    BY <1>6
  <2> QED BY <2>1, <2>2 DEF Skip, SkipIn
<1>8. Is(Skip(offset), 0)
  BY <1>6, <1>7 DEF Is, Can
<1>9. parsing' = "done" /\ UNCHANGED <<content, requireNull, value, nest>>
  BY <1>2, <1>8 DEF ParseEnd
<1>10. value' = v
  <2>1. Bare(v) = v
    BY <1>2, BareIs
  <2> QED BY <1>5, <1>9, <2>1
<1>11. ParsesAt(v, fmt, w, p)'
  BY <1>2, <1>5, <1>9, <1>10 DEF ParsesAt, InString
<1> QED BY <1>11 DEF Parses

LEMMA StepParses ==
  ASSUME ParseInv, ParseStep, NEW v, Parses(v)
  PROVE  Parses(v)'
<1>1. PICK fmt, w, p : ParsesAt(v, fmt, w, p)
  BY DEF Parses
<1>2. CASE ParseLiteral BY <1>1, <1>2, ParseLiteralParses
<1>3. CASE StringBegins BY <1>1, <1>3, StringBeginsParses
<1>4. CASE ParseNumber BY <1>1, <1>4, ParseNumberParses
<1>5. CASE ParseArray BY <1>1, <1>5, ParseArrayParses
<1>6. CASE ParseObject BY <1>1, <1>6, ParseObjectParses
<1>7. CASE NoValue BY <1>1, <1>7, NoValueParses
<1>8. CASE ParseString \/ Measure \/ Measured \/ Unescape
  BY <1>1, <1>8, InStringParses
<1>9. CASE Unescaped BY <1>1, <1>9, UnescapedParses
<1>10. CASE NextElement BY <1>1, <1>10, NextElementParses
<1>11. CASE MemberValue BY <1>1, <1>11, MemberValueParses
<1>12. CASE NextMember BY <1>1, <1>12, NextMemberParses
<1>13. CASE ParseEnd BY <1>1, <1>13, ParseEndParses
<1> QED BY <1>2, <1>3, <1>4, <1>5, <1>6, <1>7, <1>8, <1>9, <1>10, <1>11, <1>12, <1>13 DEF ParseStep

\* A text without the mark of UTF-8, and no blank at its beginning.
LEMMA ParsesAtFirst ==
  ASSUME NEW v \in Items, v.name = NoName, NEW fmt \in BOOLEAN, NEW text, Parse(text, TRUE),
         Append(text, 0) = Doc(v, 0, Nul, fmt)
  PROVE  Parses(v)'
<1> DEFINE t == Append(text, 0)
           p == Doc(v, 0, Nul, fmt)
           w == <<>>
<1>1. Nul \in Text /\ 0 \in Nat
  BY MarksAreText DEF Nul
<1>2. p \in Text /\ p # <<>> /\ p[1] \in FirstBytes(v) /\ Inked(p)
  BY <1>1, DocIs, DocBegins
<1>3. /\ content' = t /\ requireNull' = TRUE /\ parsing' = "value" /\ nest' = <<>>
      /\ offset' = SkipIn(t, IF Len(t) > 4 /\ SubSeq(t, 1, 3) = <<239, 187, 191>> THEN 3 ELSE 0)
  BY DEF Parse
<1>4. t = p
  OBVIOUS
<1> HIDE DEF t, p
<1>5. ~(Len(p) > 4 /\ SubSeq(p, 1, 3) = <<239, 187, 191>>)
  <2>1. ASSUME Len(p) > 4, SubSeq(p, 1, 3) = <<239, 187, 191>> PROVE FALSE
    <3>1. p \in Seq(Octet) /\ Len(p) \in Nat
      BY <1>2 DEF Text
    <3>2. SubSeq(p, 1, 3)[1] = p[1]
      BY <2>1, <3>1
    <3>3. p[1] = 239
      <4> DEFINE a == SubSeq(p, 1, 3)
                 b == <<239, 187, 191>>
      <4>1. b[1] = 239
        OBVIOUS
      <4>2. a = b /\ a[1] = p[1]
        BY <2>1, <3>2
      <4> HIDE DEF a, b
      <4> QED BY <4>1, <4>2
    <3> QED BY <1>2, <3>3 DEF FirstBytes, Digit, Minus, Quote, LBracket, LBrace
  <2> QED BY <2>1
<1>6. Holds(p, 0, p)
  <2>1. Len(p) \in Nat
    BY <1>2 DEF Text
  <2>2. Len(p) = 0 + Len(p) /\ \A i \in 1 .. Len(p) : p[0 + i] = p[i]
    BY <2>1
  <2> QED BY <2>2 DEF Holds
<1>7. SkipIn(p, 0) = 0
  <2> DEFINE b == <<>>
  <2>1. b \in Text /\ Blank(b) /\ b \o p = p /\ Len(b) = 0
    BY <1>2, MarksAreText, BlanksAre, ConcatEmptySeq DEF Text
  <2> HIDE DEF b
  <2>2. Holds(p, 0, b \o p)
    BY <1>6, <2>1
  <2>3. SkipIn(p, 0) = 0 + Len(b)
    BY <1>2, <2>1, <2>2, SkipTo
  <2> QED BY <2>1, <2>3
<1>8. content' = p /\ offset' = 0
  BY <1>3, <1>4, <1>5, <1>7
<1>9. w \in Way /\ Len(w) = 0
  BY DEF Way
<1>10. OnItsWay(v, Nul, fmt, w)
  BY <1>1, <1>9 DEF OnItsWay, IsWay
<1>11. AtValue(w, v, Nul, fmt, p)
  BY <1>9 DEF AtValue, InsideAt, HereAt, RestAt, p
<1>12. PICK u, q : u = w /\ q = p
  OBVIOUS
<1> HIDE DEF w
<1>13. OnItsWay(v, Nul, fmt, u) /\ AtValue(u, v, Nul, fmt, q) /\ Len(u) = 0 /\ q \in Text
  BY <1>2, <1>9, <1>10, <1>11, <1>12
<1>14. Nested(u, TRUE)'
  BY <1>3, <1>13 DEF Nested
<1>15. Fits(u, v)
  BY <1>13 DEF Fits
<1>16. Holds(content', offset', q)
  BY <1>6, <1>8, <1>12
<1>17. ValueAt(v, fmt, u, q)'
  BY <1>13, <1>14, <1>16 DEF ValueAt
<1>18. ParsesAt(v, fmt, u, q)'
  BY <1>3, <1>13, <1>15, <1>17 DEF ParsesAt, InString
<1> QED BY <1>18 DEF Parses

\* What has been parsed is the item that was printed.
LEMMA ParsedIs ==
  ASSUME NEW v, Parses(v), parsing = "done"
  PROVE  value = IF DepthOf(v) <= NestingLimit THEN v ELSE Invalid
BY DEF Parses, ParsesAt

----------------------------------------------------------------------------
(* What cJSON_Minify makes of a text.                                      *)

\* One turn of its loops at x, an offset and whether that is in a string: r has what is
\* made of the rest.
MinifyWith(t, x, r) == IF x[2] THEN MinifyString(t, x[1], r) ELSE MinifyAt(t, x[1], r)
Ended(t) == t \in Text /\ Len(t) # 0 /\ t[Len(t)] = 0
Ahead(t) == (0 .. Len(t) - 1) \X BOOLEAN
Away(t, x) == 2 * (Len(t) - x[1]) + (IF x[2] THEN 1 ELSE 0)

\* A turn writes a, goes on at y, and y is closer to the end.
Turns(t, x, a, y) ==
  /\ a \in Text /\ y \in Ahead(t) /\ Away(t, y) < Away(t, x)
  /\ \A r : MinifyWith(t, x, r) = IF a = <<>> THEN r[y] ELSE a \o r[y]

LEMMA LeftIs ==
  ASSUME NEW t, NEW p \in 0 .. Len(t) - 1
  PROVE  /\ <<p, TRUE>> \in Ahead(t) /\ Away(t, <<p, TRUE>>) = 2 * (Len(t) - p) + 1
         /\ <<p, FALSE>> \in Ahead(t) /\ Away(t, <<p, FALSE>>) = 2 * (Len(t) - p)
<1>1. Away(t, <<p, TRUE>>) = 2 * (Len(t) - p) + 1
  BY DEF Away
<1>2. Away(t, <<p, FALSE>>) = 2 * (Len(t) - p) + 0
  BY DEF Away
<1>3. <<p, TRUE>> \in Ahead(t) /\ <<p, FALSE>> \in Ahead(t)
  BY DEF Ahead
<1>4. Len(t) \in Int => 2 * (Len(t) - p) + 0 = 2 * (Len(t) - p)
  OBVIOUS
<1> QED BY <1>1, <1>2, <1>3, <1>4

LEMMA CommentEndIs ==
  ASSUME NEW t, Ended(t), NEW o \in Nat, NEW ends, ends \subseteq 1 .. Len(t), o <= Len(t) - 1,
         NEW d \in Nat
  PROVE  o <= CommentEnd(t, o + d, ends) /\ CommentEnd(t, o + d, ends) \in 0 .. Len(t) - 1
<1> DEFINE T == {Len(t) - 1} \cup {p \in ends : p >= o + d}
<1>1. Len(t) \in Nat /\ Len(t) - 1 \in Nat
  BY DEF Ended, Text
<1>2. T \subseteq Nat /\ Len(t) - 1 \in T
  <2>1. ends \subseteq Nat
    BY <1>1
  <2> QED BY <1>1, <2>1
<1>3. \A p \in T : o <= p
  BY <1>1
<1>4. CommentEnd(t, o + d, ends) = Min(T)
  BY DEF CommentEnd
<1> HIDE DEF T
<1>5. Min(T) \in T /\ Min(T) <= Len(t) - 1
  BY <1>2, MinType
<1> DEFINE m == Min(T)
<1>6. m \in Nat /\ m <= Len(t) - 1 /\ o <= m
  BY <1>2, <1>3, <1>5
<1> HIDE DEF m
<1>7. o <= m /\ m \in 0 .. Len(t) - 1
  BY <1>1, <1>6
<1> QED BY <1>4, <1>7 DEF m

LEMMA TurnInString ==
  ASSUME NEW t, Ended(t), NEW o \in 0 .. Len(t) - 1
  PROVE  \E a, y : Turns(t, <<o, TRUE>>, a, y)
<1>1. t \in Text /\ Len(t) \in Nat /\ t \in Seq(Octet) /\ o \in Nat /\ o < Len(t) /\ t[Len(t)] = 0
  BY DEF Ended, Text
<1>2. o + 1 \in 1 .. Len(t) /\ t[o + 1] \in Octet
  <2>1. o + 1 \in 1 .. Len(t)
    BY <1>1
  <2> QED BY <1>1, <2>1, ElementOfSeq
<1> DEFINE x == <<o, TRUE>>
<1>3. \A r : MinifyWith(t, x, r) = MinifyString(t, o, r)
  BY DEF MinifyWith
<1>4. Away(t, x) = 2 * (Len(t) - o) + 1
  BY DEF Away
<1>5. CASE t[o + 1] = 0
  <2> DEFINE y == <<o, FALSE>>
  <2>1. y \in Ahead(t) /\ Away(t, y) = 2 * (Len(t) - o)
    BY <1>1, LeftIs
  <2>2. \A r : MinifyWith(t, x, r) = r[y]
    BY <1>1, <1>3, <1>5 DEF MinifyString, HasByte
  <2>3. Away(t, y) < Away(t, x)
    BY <1>1, <1>4, <2>1
  <2> HIDE DEF x, y
  <2>4. Turns(t, x, <<>>, y)
    BY <2>1, <2>2, <2>3, MarksAreText DEF Turns
  <2> QED BY <2>4 DEF x
<1>6. CASE t[o + 1] # 0
  <2>1. o + 1 \in 0 .. Len(t) - 1 /\ o + 1 < Len(t)
    BY <1>1, <1>2, <1>6
  <2>2. CASE t[o + 1] = Quote
    <3> DEFINE y == <<o + 1, FALSE>>
               a == <<Quote>>
    <3>1. y \in Ahead(t) /\ Away(t, y) = 2 * (Len(t) - (o + 1))
      BY <2>1, LeftIs
    <3>2. \A r : MinifyWith(t, x, r) = a \o r[y]
      BY <1>1, <1>3, <1>6, <2>2 DEF MinifyString, HasByte
    <3>3. Away(t, y) < Away(t, x)
      BY <1>1, <1>4, <3>1
    <3>4. a \in Text /\ a # <<>>
      BY MarksAreText
    <3> HIDE DEF x, y, a
    <3>5. Turns(t, x, a, y)
      BY <3>1, <3>2, <3>3, <3>4 DEF Turns
    <3> QED BY <3>5 DEF x
  <2>3. CASE t[o + 1] = Backslash /\ HasByte(t, o + 1, Quote)
    <3> DEFINE y == <<o + 2, TRUE>>
               a == <<Backslash, Quote>>
    <3>0. o + 2 \in 0 .. Len(t) - 1
      <4>1. o + 1 < Len(t) /\ t[(o + 1) + 1] = Quote /\ (o + 1) + 1 = o + 2
        BY <1>1, <2>3 DEF HasByte
      <4>2. o + 2 # Len(t)
        BY <1>1, <4>1 DEF Quote
      <4> QED BY <1>1, <4>1, <4>2
    <3>1. y \in Ahead(t) /\ Away(t, y) = 2 * (Len(t) - (o + 2)) + 1
      BY <3>0, LeftIs
    <3>2. \A r : MinifyWith(t, x, r) = a \o r[y]
      <4>1. HasByte(t, o, Backslash) /\ ~HasByte(t, o, 0) /\ ~HasByte(t, o, Quote)
        BY <1>1, <2>3 DEF HasByte, Backslash, Quote
      <4> QED BY <1>3, <2>3, <4>1 DEF MinifyString
    <3>3. Away(t, y) < Away(t, x)
      BY <1>1, <1>4, <3>1
    <3>4. a \in Text /\ a # <<>>
      BY DEF Text, Octet, Backslash, Quote
    <3> HIDE DEF x, y, a
    <3>5. Turns(t, x, a, y)
      BY <3>1, <3>2, <3>3, <3>4 DEF Turns
    <3> QED BY <3>5 DEF x
  <2>4. CASE t[o + 1] # Quote /\ ~(t[o + 1] = Backslash /\ HasByte(t, o + 1, Quote))
    <3> DEFINE y == <<o + 1, TRUE>>
               a == <<t[o + 1]>>
    <3>1. y \in Ahead(t) /\ Away(t, y) = 2 * (Len(t) - (o + 1)) + 1
      BY <2>1, LeftIs
    <3>2. \A r : MinifyWith(t, x, r) = a \o r[y]
      BY <1>3, <1>6, <2>4 DEF MinifyString, HasByte
    <3>3. Away(t, y) < Away(t, x)
      BY <1>1, <1>4, <3>1
    <3>4. a \in Text /\ a # <<>>
      BY <1>2, OneByte
    <3> HIDE DEF x, y, a
    <3>5. Turns(t, x, a, y)
      BY <3>1, <3>2, <3>3, <3>4 DEF Turns
    <3> QED BY <3>5 DEF x
  <2> QED BY <1>6, <2>2, <2>3, <2>4
<1> QED BY <1>5, <1>6

LEMMA TurnOutside ==
  ASSUME NEW t, Ended(t), NEW o \in 0 .. Len(t) - 1, t[o + 1] # 0
  PROVE  \E a, y : Turns(t, <<o, FALSE>>, a, y)
<1>1. t \in Text /\ Len(t) \in Nat /\ t \in Seq(Octet) /\ o \in Nat /\ o < Len(t) /\ t[Len(t)] = 0
  BY DEF Ended, Text
<1>2. o + 1 \in 1 .. Len(t) /\ t[o + 1] \in Octet
  <2>1. o + 1 \in 1 .. Len(t)
    BY <1>1
  <2> QED BY <1>1, <2>1, ElementOfSeq
<1> DEFINE x == <<o, FALSE>>
           b == t[o + 1]
<1>3. \A r : MinifyWith(t, x, r) = MinifyAt(t, o, r)
  BY DEF MinifyWith
<1>4. Away(t, x) = 2 * (Len(t) - o)
  BY DEF Away
<1>5. o + 1 \in 0 .. Len(t) - 1
  BY <1>1, <1>2
<1>6. ~HasByte(t, o, 0) /\ \A c : HasByte(t, o, c) <=> b = c
  BY <1>1 DEF HasByte
<1> DEFINE slash == b = Slash /\ HasByte(t, o + 1, Slash)
           star == b = Slash /\ HasByte(t, o + 1, Star)
<1>7. ASSUME NEW e \in 0 .. Len(t) - 1, o < e, \A r : MinifyWith(t, x, r) = r[<<e, FALSE>>]
      PROVE  \E a, y : Turns(t, <<o, FALSE>>, a, y)
  <2> DEFINE y == <<e, FALSE>>
  <2>1. y \in Ahead(t) /\ Away(t, y) = 2 * (Len(t) - e)
    BY <1>7, LeftIs
  <2>2. Away(t, y) < Away(t, x)
    BY <1>1, <1>4, <1>7, <2>1
  <2>3. \A r : MinifyWith(t, x, r) = r[y]
    BY <1>7
  <2> HIDE DEF x, y
  <2>4. Turns(t, x, <<>>, y)
    BY <2>1, <2>2, <2>3, MarksAreText DEF Turns
  <2> QED BY <2>4 DEF x
<1>8. CASE b \in {Space, Tab, 13, LF}
  <2>1. \A r : MinifyAt(t, o, r) = r[<<o + 1, FALSE>>]
    <3>1. b # Slash /\ b # Quote
      BY <1>8 DEF Space, Tab, LF, Slash, Quote
    <3> QED BY <1>6, <1>8, <3>1 DEF MinifyAt
  <2>2. \A r : MinifyWith(t, x, r) = r[<<o + 1, FALSE>>]
    BY <1>3, <2>1, Zenon
  <2>3. o < o + 1
    BY <1>1
  <2> HIDE DEF x
  <2> QED BY <1>5, <1>7, <2>2, <2>3, Zenon
<1>9. CASE slash
  <2> DEFINE ends == {p \in 1 .. Len(t) : t[p] = LF}
             e == CommentEnd(t, o + 3, ends)
  <2>1. (o + 1) + 2 = o + 3 /\ o + 1 \in Nat /\ 2 \in Nat /\ o + 1 <= Len(t) - 1 /\ ends \subseteq 1 .. Len(t)
    BY <1>1, <1>5
  <2>2. o + 1 <= e /\ e \in 0 .. Len(t) - 1
    <3> HIDE DEF ends
    <3>1. o + 1 <= CommentEnd(t, (o + 1) + 2, ends) /\ CommentEnd(t, (o + 1) + 2, ends) \in 0 .. Len(t) - 1
      BY <2>1, CommentEndIs
    <3> QED BY <2>1, <3>1
  <2>3. \A r : MinifyAt(t, o, r) = r[<<e, FALSE>>]
    <3>1. b \notin {Space, Tab, 13, LF} /\ ~HasByte(t, o + 1, Star) /\ b # Quote
      BY <1>9 DEF Space, Tab, LF, Slash, Quote, HasByte, Star
    <3> QED BY <1>6, <1>9, <3>1 DEF MinifyAt
  <2> HIDE DEF e
  <2>4. o < e
    BY <1>1, <2>2
  <2> QED BY <1>3, <1>7, <2>2, <2>3, <2>4
<1>10. CASE star
  <2> DEFINE ends == {p \in 2 .. Len(t) : t[p - 1] = Star /\ t[p] = Slash}
             e == CommentEnd(t, o + 4, ends)
  <2>1. (o + 1) + 3 = o + 4 /\ o + 1 \in Nat /\ 3 \in Nat /\ o + 1 <= Len(t) - 1 /\ ends \subseteq 1 .. Len(t)
    BY <1>1, <1>5
  <2>2. o + 1 <= e /\ e \in 0 .. Len(t) - 1
    <3> HIDE DEF ends
    <3>1. o + 1 <= CommentEnd(t, (o + 1) + 3, ends) /\ CommentEnd(t, (o + 1) + 3, ends) \in 0 .. Len(t) - 1
      BY <2>1, CommentEndIs
    <3> QED BY <2>1, <3>1
  <2>3. \A r : MinifyAt(t, o, r) = r[<<e, FALSE>>]
    <3>1. b \notin {Space, Tab, 13, LF} /\ ~HasByte(t, o + 1, Slash) /\ b # Quote
      BY <1>10 DEF Space, Tab, LF, Slash, Quote, HasByte, Star
    <3> QED BY <1>6, <1>10, <3>1 DEF MinifyAt
  <2> HIDE DEF e
  <2>4. o < e
    BY <1>1, <2>2
  <2> QED BY <1>3, <1>7, <2>2, <2>3, <2>4
<1>11. CASE b = Slash /\ ~slash /\ ~star
  <2>1. \A r : MinifyAt(t, o, r) = r[<<o + 1, FALSE>>]
    <3>1. b \notin {Space, Tab, 13, LF} /\ b # Quote
      BY <1>11 DEF Space, Tab, LF, Slash, Quote
    <3> QED BY <1>6, <1>11, <3>1 DEF MinifyAt
  <2>2. \A r : MinifyWith(t, x, r) = r[<<o + 1, FALSE>>]
    BY <1>3, <2>1, Zenon
  <2>3. o < o + 1
    BY <1>1
  <2> HIDE DEF x
  <2> QED BY <1>5, <1>7, <2>2, <2>3, Zenon
<1>12. ASSUME NEW in \in BOOLEAN, \A r : MinifyWith(t, x, r) = <<b>> \o r[<<o + 1, in>>]
       PROVE  \E a, y : Turns(t, <<o, FALSE>>, a, y)
  <2> DEFINE y == <<o + 1, in>>
             a == <<b>>
  <2>1. y \in Ahead(t) /\ Away(t, y) \in {2 * (Len(t) - (o + 1)), 2 * (Len(t) - (o + 1)) + 1}
    <3>1. y = <<o + 1, TRUE>> \/ y = <<o + 1, FALSE>>
      OBVIOUS
    <3> HIDE DEF y
    <3> QED BY <1>5, <3>1, LeftIs
  <2>2. Away(t, y) < Away(t, x)
    BY <1>1, <1>4, <2>1
  <2>3. \A r : MinifyWith(t, x, r) = a \o r[y]
    BY <1>12
  <2>4. a \in Text /\ a # <<>>
    BY <1>2, OneByte
  <2> HIDE DEF x, y, a
  <2>5. Turns(t, x, a, y)
    BY <2>1, <2>2, <2>3, <2>4 DEF Turns
  <2> QED BY <2>5 DEF x
<1>13. CASE b = Quote
  <2>1. \A r : MinifyAt(t, o, r) = <<b>> \o r[<<o + 1, TRUE>>]
    <3>1. b \notin {Space, Tab, 13, LF} /\ b # Slash
      BY <1>13 DEF Space, Tab, LF, Slash, Quote
    <3> QED BY <1>6, <1>13, <3>1 DEF MinifyAt
  <2> QED BY <1>3, <1>12, <2>1
<1>14. CASE b \notin {Space, Tab, 13, LF} /\ b # Slash /\ b # Quote
  <2>1. \A r : MinifyAt(t, o, r) = <<b>> \o r[<<o + 1, FALSE>>]
    BY <1>6, <1>14 DEF MinifyAt
  <2> QED BY <1>3, <1>12, <2>1
<1> QED BY <1>8, <1>9, <1>10, <1>11, <1>13, <1>14

LEMMA TurnEnds ==
  ASSUME NEW t, Ended(t), NEW o \in 0 .. Len(t) - 1, t[o + 1] = 0
  PROVE  \A r : MinifyWith(t, <<o, FALSE>>, r) = <<>>
<1>1. HasByte(t, o, 0) /\ \A c : HasByte(t, o, c) <=> c = 0
  BY DEF HasByte, Ended, Text
<1>2. t[o + 1] \notin {Space, Tab, 13, LF} /\ Slash # 0 /\ Quote # 0
  BY DEF Space, Tab, LF, Slash, Quote
<1>3. \A r : MinifyAt(t, o, r) = <<>>
  BY <1>1, <1>2 DEF MinifyAt
<1> QED BY <1>3 DEF MinifyWith

\* r solves the equations of the loops.
Remains(t, r) == \A o \in 0 .. Len(t) - 1, in \in BOOLEAN : r[<<o, in>>] = MinifyWith(t, <<o, in>>, r)

LEMMA MinifyExists ==
  ASSUME NEW text \in Text
  PROVE  LET t == Append(text, 0)
         IN  Ended(t) /\ \E r : Remains(t, r) /\ Minify(text) = r[<<0, FALSE>>]
<1> DEFINE t == Append(text, 0)
           T == Ahead(t)
           h == [x \in T |-> Away(t, x)]
           g == [z \in T \X [T -> Text] |-> MinifyWith(t, z[1], z[2])]
           Solved(r) == r = [x \in T |-> MinifyWith(t, x, r)]
           d == CHOOSE r : Solved(r)
<1>1. Ended(t) /\ Len(t) - 1 = Len(text)
  <2>1. 0 \in Octet /\ text \in Seq(Octet)
    BY DEF Octet, Text
  <2>2. t \in Seq(Octet) /\ Len(t) = Len(text) + 1 /\ t[Len(text) + 1] = 0
    BY <2>1
  <2> HIDE DEF t
  <2> QED BY <2>1, <2>2 DEF Ended, Text
<1>2. Minify(text) = d[<<0, FALSE>>]
  BY <1>1 DEF Minify, MinifyWith, Ahead
<1> HIDE DEF t
<1>3. h \in [T -> Nat]
  <2>1. ASSUME NEW x \in T PROVE Away(t, x) \in Nat
    <3>1. x[1] \in 0 .. Len(t) - 1 /\ Len(t) \in Nat
      BY <1>1 DEF Ahead, Ended, Text
    <3> QED BY <3>1 DEF Away
  <2> QED BY <2>1
<1>4. ASSUME NEW x \in T
      PROVE  (\A r : MinifyWith(t, x, r) = <<>>) \/ (\E a, y : Turns(t, x, a, y))
  <2>1. x[1] \in 0 .. Len(t) - 1 /\ (x = <<x[1], TRUE>> \/ x = <<x[1], FALSE>>)
    <3>1. x[1] \in 0 .. Len(t) - 1 /\ x[2] \in BOOLEAN /\ x = <<x[1], x[2]>>
      BY DEF Ahead
    <3> QED BY <3>1, Zenon
  <2>2. \E a, y : Turns(t, <<x[1], TRUE>>, a, y)
    BY <1>1, <2>1, TurnInString
  <2>3. (\A r : MinifyWith(t, <<x[1], FALSE>>, r) = <<>>) \/ (\E a, y : Turns(t, <<x[1], FALSE>>, a, y))
    BY <1>1, <2>1, TurnOutside, TurnEnds
  <2> QED BY <2>1, <2>2, <2>3, Zenon
<1>5. ASSUME NEW x \in T, NEW f \in [T -> Text] PROVE MinifyWith(t, x, f) \in Text
  <2>1. CASE \A r : MinifyWith(t, x, r) = <<>>
    BY <2>1, MarksAreText
  <2>2. CASE \E a, y : Turns(t, x, a, y)
    <3>1. PICK a, y : Turns(t, x, a, y)
      BY <2>2
    <3>2. a \in Text /\ f[y] \in Text /\ MinifyWith(t, x, f) = IF a = <<>> THEN f[y] ELSE a \o f[y]
      BY <3>1 DEF Turns
    <3> QED BY <3>2, TextConcat
  <2> QED BY <1>4, <2>1, <2>2
<1>6. g \in [T \X [T -> Text] -> Text]
  <2> HIDE DEF T
  <2> QED BY <1>5
<1>7. DependsBelow(g, T, Text, h)
  <2>1. ASSUME NEW x \in T, NEW f \in [T -> Text], NEW k \in [T -> Text],
               \A y \in T : h[y] < h[x] => f[y] = k[y]
        PROVE  g[<<x, f>>] = g[<<x, k>>]
    <3>1. CASE \A r : MinifyWith(t, x, r) = <<>>
      <4> HIDE DEF T
      <4> QED BY <3>1
    <3>2. CASE \E a, y : Turns(t, x, a, y)
      <4>1. PICK a, y : Turns(t, x, a, y)
        BY <3>2
      <4>2. y \in T /\ h[y] < h[x]
        BY <4>1 DEF Turns
      <4>3. f[y] = k[y]
        BY <2>1, <4>2
      <4>4. MinifyWith(t, x, f) = MinifyWith(t, x, k)
        BY <4>1, <4>3 DEF Turns
      <4> HIDE DEF T
      <4> QED BY <4>4
    <3> QED BY <1>4, <3>1, <3>2
  <2> HIDE DEF g, h, T
  <2> QED BY <2>1 DEF DependsBelow
<1>8. PICK f : Solves(f, g, T, Text)
  <2> HIDE DEF g, h, T
  <2> QED BY <1>3, <1>6, <1>7, MarksAreText, Descent
<1>9. Solved(f)
  <2>1. f \in [T -> Text] /\ \A x \in T : f[x] = MinifyWith(t, x, f)
    <3> HIDE DEF T
    <3> QED BY <1>8 DEF Solves
  <2>2. f = [x \in T |-> f[x]]
    BY <2>1
  <2> HIDE DEF T
  <2>3. f = [x \in T |-> MinifyWith(t, x, f)]
    BY <2>1, <2>2
  <2> QED BY <2>3
<1>10. d = [x \in T |-> MinifyWith(t, x, d)]
  <2> HIDE DEF Solved
  <2>1. Solved(d)
    BY <1>9
  <2> HIDE DEF d
  <2> QED BY <2>1 DEF Solved
<1> HIDE DEF d
<1>11. Remains(t, d)
  BY <1>10 DEF Remains, Ahead
<1> QED BY <1>1, <1>2, <1>11 DEF t

\* What is made of s, wherever it stands outside strings at the end of t, is m.
Makes(t, r, s, m) == \A o : Holds(t, o, s) => r[<<o, FALSE>>] = m

\* In front of anything b is made of a.
Drops(t, r, a, b) == \A s, m \in Text : Makes(t, r, s, m) => Makes(t, r, a \o s, b \o m)

Rests(t, r) == Ended(t) /\ Remains(t, r)

LEMMA MakesNul ==
  ASSUME NEW t, NEW r, Rests(t, r)
  PROVE  Makes(t, r, Nul, <<>>)
<1> SUFFICES ASSUME NEW o, Holds(t, o, Nul) PROVE r[<<o, FALSE>>] = <<>>
  BY DEF Makes
<1>1. o \in Nat /\ Len(t) = o + 1 /\ t[o + 1] = 0
  BY DEF Holds, Nul
<1>2. o \in 0 .. Len(t) - 1
  BY <1>1
<1>3. MinifyWith(t, <<o, FALSE>>, r) = <<>>
  BY <1>1, <1>2, TurnEnds DEF Rests
<1> QED BY <1>2, <1>3 DEF Rests, Remains

LEMMA DropsNothing ==
  ASSUME NEW t, NEW r
  PROVE  Drops(t, r, <<>>, <<>>)
<1>1. \A s \in Text : <<>> \o s = s
  BY ConcatEmptySeq DEF Text
<1> QED BY <1>1 DEF Drops

LEMMA DropsBoth ==
  ASSUME NEW t, NEW r, NEW a \in Text, NEW b \in Text, NEW c \in Text, NEW d \in Text,
         Drops(t, r, a, b), Drops(t, r, c, d)
  PROVE  Drops(t, r, a \o c, b \o d)
<1> SUFFICES ASSUME NEW s \in Text, NEW m \in Text, Makes(t, r, s, m)
             PROVE  Makes(t, r, (a \o c) \o s, (b \o d) \o m)
  BY DEF Drops
<1>1. c \o s \in Text /\ d \o m \in Text
  BY TextConcat
<1>2. Makes(t, r, c \o s, d \o m)
  BY DEF Drops
<1>3. Makes(t, r, a \o (c \o s), b \o (d \o m))
  BY <1>1, <1>2 DEF Drops
<1>4. a \o (c \o s) = (a \o c) \o s
  BY Associates
<1>5. b \o (d \o m) = (b \o d) \o m
  BY Associates
<1> QED BY <1>3, <1>4, <1>5

\* One byte outside strings.
PlainByte(c) == c \in Octet /\ c \notin {0, Space, Tab, 13, LF, Slash, Quote}

LEMMA BlankAt ==
  ASSUME NEW t, NEW r, Rests(t, r), NEW o \in Nat, o < Len(t), t[o + 1] \in {Space, Tab, LF}
  PROVE  r[<<o, FALSE>>] = r[<<o + 1, FALSE>>]
<1>1. o \in 0 .. Len(t) - 1 /\ t[o + 1] # 0 /\ t[o + 1] # Slash /\ t[o + 1] # Quote
  BY DEF Space, Tab, LF, Slash, Quote, Rests, Ended, Text
<1>2. r[<<o, FALSE>>] = MinifyWith(t, <<o, FALSE>>, r)
  BY <1>1 DEF Rests, Remains
<1>3. MinifyWith(t, <<o, FALSE>>, r) = MinifyAt(t, o, r)
  BY DEF MinifyWith
<1>4. ~HasByte(t, o, 0) /\ ~HasByte(t, o, Slash) /\ ~HasByte(t, o, Quote)
  BY <1>1 DEF HasByte
<1>5. MinifyAt(t, o, r) = r[<<o + 1, FALSE>>]
  BY <1>4 DEF MinifyAt
<1> QED BY <1>2, <1>3, <1>5

LEMMA PlainAt ==
  ASSUME NEW t, NEW r, Rests(t, r), NEW o \in Nat, o < Len(t), PlainByte(t[o + 1])
  PROVE  r[<<o, FALSE>>] = <<t[o + 1]>> \o r[<<o + 1, FALSE>>]
<1>1. o \in 0 .. Len(t) - 1 /\ t[o + 1] \notin {0, Space, Tab, 13, LF, Slash, Quote}
  BY DEF PlainByte, Rests, Ended, Text
<1>2. r[<<o, FALSE>>] = MinifyWith(t, <<o, FALSE>>, r)
  BY <1>1 DEF Rests, Remains
<1>3. MinifyWith(t, <<o, FALSE>>, r) = MinifyAt(t, o, r)
  BY DEF MinifyWith
<1>4. ~HasByte(t, o, 0) /\ ~HasByte(t, o, Slash) /\ ~HasByte(t, o, Quote)
  BY <1>1 DEF HasByte
<1>5. MinifyAt(t, o, r) = <<t[o + 1]>> \o r[<<o + 1, FALSE>>]
  BY <1>1, <1>4 DEF MinifyAt
<1> QED BY <1>2, <1>3, <1>5

LEMMA BeginAt ==
  ASSUME NEW t, NEW r, Rests(t, r), NEW o \in Nat, o < Len(t), t[o + 1] = Quote
  PROVE  r[<<o, FALSE>>] = <<Quote>> \o r[<<o + 1, TRUE>>]
<1>1. o \in 0 .. Len(t) - 1 /\ t[o + 1] \notin {0, Space, Tab, 13, LF, Slash}
  BY DEF Space, Tab, LF, Slash, Quote, Rests, Ended, Text
<1>2. r[<<o, FALSE>>] = MinifyWith(t, <<o, FALSE>>, r)
  BY <1>1 DEF Rests, Remains
<1>3. MinifyWith(t, <<o, FALSE>>, r) = MinifyAt(t, o, r)
  BY DEF MinifyWith
<1>4. ~HasByte(t, o, 0) /\ ~HasByte(t, o, Slash) /\ HasByte(t, o, Quote)
  BY <1>1 DEF HasByte
<1>5. MinifyAt(t, o, r) = <<Quote>> \o r[<<o + 1, TRUE>>]
  BY <1>1, <1>4 DEF MinifyAt
<1> QED BY <1>2, <1>3, <1>5

LEMMA EndAt ==
  ASSUME NEW t, NEW r, Rests(t, r), NEW o \in Nat, o < Len(t), t[o + 1] = Quote
  PROVE  r[<<o, TRUE>>] = <<Quote>> \o r[<<o + 1, FALSE>>]
<1>1. o \in 0 .. Len(t) - 1 /\ t[o + 1] # 0
  BY DEF Quote, Rests, Ended, Text
<1>2. r[<<o, TRUE>>] = MinifyWith(t, <<o, TRUE>>, r)
  BY <1>1 DEF Rests, Remains
<1>3. MinifyWith(t, <<o, TRUE>>, r) = MinifyString(t, o, r)
  BY DEF MinifyWith
<1>4. MinifyString(t, o, r) = <<Quote>> \o r[<<o + 1, FALSE>>]
  BY <1>1 DEF MinifyString, HasByte
<1> QED BY <1>2, <1>3, <1>4

\* A byte in a string that hides nothing, and a backslash that hides a quote.
LEMMA SameAt ==
  ASSUME NEW t, NEW r, Rests(t, r), NEW o \in Nat, o < Len(t), t[o + 1] # 0, t[o + 1] # Quote,
         t[o + 1] = Backslash => ~HasByte(t, o + 1, Quote)
  PROVE  r[<<o, TRUE>>] = <<t[o + 1]>> \o r[<<o + 1, TRUE>>]
<1>1. o \in 0 .. Len(t) - 1
  BY DEF Rests, Ended, Text
<1>2. r[<<o, TRUE>>] = MinifyWith(t, <<o, TRUE>>, r)
  BY <1>1 DEF Rests, Remains
<1>3. MinifyWith(t, <<o, TRUE>>, r) = MinifyString(t, o, r)
  BY DEF MinifyWith
<1>4. MinifyString(t, o, r) = <<t[o + 1]>> \o r[<<o + 1, TRUE>>]
  BY DEF MinifyString, HasByte
<1> QED BY <1>2, <1>3, <1>4

LEMMA HiddenAt ==
  ASSUME NEW t, NEW r, Rests(t, r), NEW o \in Nat, o < Len(t), t[o + 1] = Backslash,
         HasByte(t, o + 1, Quote)
  PROVE  r[<<o, TRUE>>] = <<Backslash, Quote>> \o r[<<o + 2, TRUE>>]
<1>1. o \in 0 .. Len(t) - 1
  BY DEF Rests, Ended, Text
<1>2. r[<<o, TRUE>>] = MinifyWith(t, <<o, TRUE>>, r)
  BY <1>1 DEF Rests, Remains
<1>3. MinifyWith(t, <<o, TRUE>>, r) = MinifyString(t, o, r)
  BY DEF MinifyWith
<1>5. HasByte(t, o, Backslash) /\ ~HasByte(t, o, 0) /\ ~HasByte(t, o, Quote)
  BY DEF HasByte, Backslash, Quote
<1>4. MinifyString(t, o, r) = <<Backslash, Quote>> \o r[<<o + 2, TRUE>>]
  BY <1>5 DEF MinifyString
<1> QED BY <1>2, <1>3, <1>4

\* A part of a text, byte by byte.
LEMMA SliceIs ==
  ASSUME NEW t \in Text, NEW p \in Nat, NEW e \in Nat, p < e, e <= Len(t)
  PROVE  /\ SubSeq(t, p + 1, e) = <<t[p + 1]>> \o SubSeq(t, p + 2, e)
         /\ SubSeq(t, p + 2, e) \in Text /\ t[p + 1] \in Octet
<1> DEFINE a == <<t[p + 1]>>
           b == SubSeq(t, p + 2, e)
           c == SubSeq(t, p + 1, e)
<1>1. t \in Seq(Octet) /\ Len(t) \in Nat
  BY DEF Text
<1>2. p + 1 \in 1 .. Len(t) /\ p + 2 \in 1 .. Len(t) + 1 /\ e \in 0 .. Len(t)
  BY <1>1
<1>3. t[p + 1] \in Octet
  BY <1>1, <1>2, ElementOfSeq
<1>4. /\ b \in Seq(Octet) /\ Len(b) = e - (p + 1)
      /\ \A i \in 1 .. e - (p + 1) : b[i] = t[(p + 2) + i - 1]
  <2>1. \A i \in p + 2 .. e : t[i] \in Octet
    BY <1>1, ElementOfSeq
  <2>2. Len(b) = IF p + 2 <= e THEN e - (p + 2) + 1 ELSE 0
    BY <1>1
  <2> QED BY <1>1, <2>1, <2>2
<1>5. /\ c \in Seq(Octet) /\ Len(c) = e - p
      /\ \A i \in 1 .. e - p : c[i] = t[(p + 1) + i - 1]
  <2>1. \A i \in p + 1 .. e : t[i] \in Octet
    BY <1>1, ElementOfSeq
  <2> QED BY <1>1, <2>1
<1>6. a \in Seq(Octet) /\ Len(a) = 1 /\ a[1] = t[p + 1]
  BY <1>3
<1> HIDE DEF a, b, c
<1>7. /\ a \o b \in Seq(Octet) /\ Len(a \o b) = Len(a) + Len(b)
      /\ \A i \in 1 .. Len(a) : (a \o b)[i] = a[i]
      /\ \A i \in 1 .. Len(b) : (a \o b)[Len(a) + i] = b[i]
  <2>1. a \in Seq(Octet) /\ b \in Seq(Octet)
    BY <1>4, <1>6
  <2> QED BY <2>1, ConcatIs
<1> DEFINE d == a \o b
<1> HIDE DEF d
<1>8. Len(d) = e - p
  BY <1>4, <1>6, <1>7 DEF d
<1>9. ASSUME NEW i \in 1 .. e - p PROVE c[i] = d[i]
  <2>1. CASE i = 1
    <3>1. c[1] = t[p + 1]
      <4>1. (p + 1) + 1 - 1 = p + 1
        OBVIOUS
      <4> QED BY <1>5, <1>9, <2>1, <4>1
    <3>2. 1 \in 1 .. Len(a)
      BY <1>6
    <3> QED BY <1>6, <1>7, <2>1, <3>1, <3>2 DEF d
  <2>2. CASE i # 1
    <3>1. i - 1 \in 1 .. e - (p + 1) /\ Len(a) + (i - 1) = i /\ i - 1 \in 1 .. Len(b)
          /\ (p + 2) + (i - 1) - 1 = (p + 1) + i - 1
      BY <1>4, <1>6, <2>2
    <3>2. d[i] = b[i - 1]
      BY <1>7, <3>1 DEF d
    <3>3. b[i - 1] = t[(p + 1) + i - 1]
      BY <1>4, <3>1
    <3> QED BY <1>5, <3>2, <3>3
  <2> QED BY <2>1, <2>2
<1>10. c = d
  <2>1. d \in Seq(Octet) /\ Len(c) = Len(d) /\ \A i \in 1 .. Len(c) : c[i] = d[i]
    BY <1>5, <1>7, <1>8, <1>9 DEF d
  <2> QED BY <1>5, <2>1, SeqEqual
<1> QED BY <1>3, <1>4, <1>10 DEF a, b, c, d, Text

LEMMA SliceStands ==
  ASSUME NEW t \in Text, NEW o \in Nat, NEW a \in Text, Stands(t, o, a)
  PROVE  SubSeq(t, o + 1, o + Len(a)) = a
<1> DEFINE c == SubSeq(t, o + 1, o + Len(a))
<1>1. t \in Seq(Octet) /\ Len(t) \in Nat /\ a \in Seq(Octet) /\ Len(a) \in Nat
  BY DEF Text
<1>2. o + Len(a) <= Len(t) /\ \A p \in 1 .. Len(a) : t[o + p] = a[p]
  BY DEF Stands
<1>3. /\ c \in Seq(Octet) /\ Len(c) = Len(a)
      /\ \A i \in 1 .. Len(a) : c[i] = t[(o + 1) + i - 1]
  <2>1. \A i \in o + 1 .. o + Len(a) : t[i] \in Octet
    BY <1>1, <1>2, ElementOfSeq
  <2>2. Len(c) = IF o + 1 <= o + Len(a) THEN o + Len(a) - (o + 1) + 1 ELSE 0
    BY <1>1
  <2> QED BY <1>1, <2>1, <2>2
<1> HIDE DEF c
<1>4. \A i \in 1 .. Len(a) : c[i] = a[i]
  <2>1. ASSUME NEW i \in 1 .. Len(a) PROVE c[i] = a[i]
    <3>1. (o + 1) + i - 1 = o + i
      OBVIOUS
    <3> QED BY <1>2, <1>3, <3>1
  <2> QED BY <2>1
<1>5. c = a
  BY <1>1, <1>3, <1>4, SeqEqual
<1> QED BY <1>5 DEF c

\* From p to e all is copied, and z is made of what follows.
Copied(t, r, in, p, e, z) == r[<<p, in>>] = SubSeq(t, p + 1, e) \o z

LEMMA CopiedNothing ==
  ASSUME NEW t \in Text, NEW r, NEW in, NEW e \in Nat, NEW z \in Text, r[<<e, in>>] = z
  PROVE  Copied(t, r, in, e, e, z)
<1>1. SubSeq(t, e + 1, e) = <<>>
  BY DEF Text
<1>2. <<>> \o z = z
  BY ConcatEmptySeq DEF Text
<1> QED BY <1>1, <1>2 DEF Copied

LEMMA CopiedMore ==
  ASSUME NEW t \in Text, NEW r, NEW in, NEW p \in Nat, NEW e \in Nat, p < e, e <= Len(t), NEW z \in Text,
         r[<<p, in>>] = <<t[p + 1]>> \o r[<<p + 1, in>>], Copied(t, r, in, p + 1, e, z)
  PROVE  Copied(t, r, in, p, e, z)
<1> DEFINE a == <<t[p + 1]>>
           b == SubSeq(t, p + 2, e)
<1>1. SubSeq(t, p + 1, e) = a \o b
  BY SliceIs
<1>2. b \in Text /\ t[p + 1] \in Octet
  BY SliceIs
<1>3. a \in Text
  BY <1>2, OneByte
<1>4. r[<<p + 1, in>>] = b \o z
  <2>1. (p + 1) + 1 = p + 2
    OBVIOUS
  <2> QED BY <2>1 DEF Copied
<1>5. r[<<p, in>>] = a \o (b \o z)
  BY <1>4
<1> HIDE DEF a, b
<1>6. a \o (b \o z) = (a \o b) \o z
  BY <1>2, <1>3, Associates
<1> QED BY <1>1, <1>5, <1>6 DEF Copied

LEMMA DropsPlain ==
  ASSUME NEW t, NEW r, Rests(t, r), NEW a \in Text, \A p \in 1 .. Len(a) : PlainByte(a[p])
  PROVE  Drops(t, r, a, a)
<1> SUFFICES ASSUME NEW s \in Text, NEW m \in Text, Makes(t, r, s, m), NEW o, Holds(t, o, a \o s)
             PROVE  r[<<o, FALSE>>] = a \o m
  BY DEF Drops, Makes
<1>1. t \in Text /\ Len(t) \in Nat /\ Len(a) \in Nat /\ o \in Nat
  BY DEF Rests, Ended, Text, Holds
<1>2. Stands(t, o, a) /\ Holds(t, o + Len(a), s)
  BY <1>1, HoldsNext
<1> DEFINE e == o + Len(a)
<1>3. e \in Nat /\ e <= Len(t) /\ \A p \in 1 .. Len(a) : t[o + p] = a[p]
  BY <1>1, <1>2 DEF Stands
<1>4. r[<<e, FALSE>>] = m
  BY <1>2 DEF Makes
<1>5. SubSeq(t, o + 1, e) = a
  BY <1>1, <1>2, SliceStands
<1> HIDE DEF e
<1> DEFINE S == {n \in Nat : \A p \in o .. e : p + n = e => Copied(t, r, FALSE, p, e, m)}
<1>6. 0 \in S
  <2>1. Copied(t, r, FALSE, e, e, m)
    BY <1>1, <1>3, <1>4, CopiedNothing
  <2>2. \A p \in o .. e : p + 0 = e => p = e
    BY <1>1
  <2> QED BY <2>1, <2>2
<1>7. ASSUME NEW n \in Nat, n \in S PROVE n + 1 \in S
  <2>1. ASSUME NEW p \in o .. e, p + (n + 1) = e PROVE Copied(t, r, FALSE, p, e, m)
    <3>1. p \in Nat /\ p < e /\ p + 1 \in o .. e /\ (p + 1) + n = e /\ p < Len(t)
      BY <1>1, <1>3, <2>1
    <3>2. (p + 1) - o \in 1 .. Len(a) /\ o + ((p + 1) - o) = p + 1
      BY <1>1, <3>1 DEF e
    <3>3. Copied(t, r, FALSE, p + 1, e, m)
      BY <1>7, <3>1
    <3>4. t[p + 1] = a[(p + 1) - o]
      BY <1>3, <3>2
    <3>5. PlainByte(t[p + 1])
      BY <3>2, <3>4
    <3>6. r[<<p, FALSE>>] = <<t[p + 1]>> \o r[<<p + 1, FALSE>>]
      BY <3>1, <3>5, PlainAt
    <3> QED BY <1>1, <1>3, <3>1, <3>3, <3>6, CopiedMore
  <2>2. n + 1 \in Nat
    OBVIOUS
  <2> QED BY <2>1, <2>2
<1>8. Nat \subseteq S
  <2> HIDE DEF S
  <2> QED BY <1>6, <1>7, Induction
<1>9. Copied(t, r, FALSE, o, e, m)
  <2>1. o \in o .. e /\ o + Len(a) = e
    BY <1>1 DEF e
  <2>2. Len(a) \in S
    BY <1>1, <1>8
  <2> QED BY <2>1, <2>2
<1> QED BY <1>5, <1>9 DEF Copied

LEMMA DropsBlanks ==
  ASSUME NEW t, NEW r, Rests(t, r), NEW a \in Text, \A p \in 1 .. Len(a) : a[p] \in {Space, Tab, LF}
  PROVE  Drops(t, r, a, <<>>)
<1> SUFFICES ASSUME NEW s \in Text, NEW m \in Text, Makes(t, r, s, m), NEW o, Holds(t, o, a \o s)
             PROVE  r[<<o, FALSE>>] = m
  <2>1. \A m \in Text : <<>> \o m = m
    BY ConcatEmptySeq DEF Text
  <2> QED BY <2>1 DEF Drops, Makes
<1>1. t \in Text /\ Len(t) \in Nat /\ Len(a) \in Nat /\ o \in Nat
  BY DEF Rests, Ended, Text, Holds
<1>2. Stands(t, o, a) /\ Holds(t, o + Len(a), s)
  BY <1>1, HoldsNext
<1> DEFINE e == o + Len(a)
<1>3. e \in Nat /\ e <= Len(t) /\ \A p \in 1 .. Len(a) : t[o + p] = a[p]
  BY <1>1, <1>2 DEF Stands
<1>4. r[<<e, FALSE>>] = m
  BY <1>2 DEF Makes
<1> HIDE DEF e
<1> DEFINE S == {n \in Nat : \A p \in o .. e : p + n = e => r[<<p, FALSE>>] = m}
<1>6. 0 \in S
  <2>2. \A p \in o .. e : p + 0 = e => p = e
    BY <1>1
  <2> QED BY <1>4, <2>2
<1>7. ASSUME NEW n \in Nat, n \in S PROVE n + 1 \in S
  <2>1. ASSUME NEW p \in o .. e, p + (n + 1) = e PROVE r[<<p, FALSE>>] = m
    <3>1. p \in Nat /\ p + 1 \in o .. e /\ (p + 1) + n = e /\ p < Len(t)
      BY <1>1, <1>3, <2>1
    <3>2. (p + 1) - o \in 1 .. Len(a) /\ o + ((p + 1) - o) = p + 1
      BY <1>1, <2>1, <3>1 DEF e
    <3>3. r[<<p + 1, FALSE>>] = m
      BY <1>7, <3>1
    <3>4. t[p + 1] = a[(p + 1) - o]
      BY <1>3, <3>2
    <3>5. t[p + 1] \in {Space, Tab, LF}
      BY <3>2, <3>4
    <3>6. r[<<p, FALSE>>] = r[<<p + 1, FALSE>>]
      BY <3>1, <3>5, BlankAt
    <3> QED BY <3>3, <3>6
  <2>2. n + 1 \in Nat
    OBVIOUS
  <2> QED BY <2>1, <2>2
<1>8. Nat \subseteq S
  <2> HIDE DEF S
  <2> QED BY <1>6, <1>7, Induction
<1>9. o \in o .. e /\ o + Len(a) = e
  BY <1>1 DEF e
<1>10. Len(a) \in S
  BY <1>1, <1>8
<1> QED BY <1>9, <1>10

LEMMA CopiedSame ==
  ASSUME NEW t, NEW r, Rests(t, r), NEW p \in Nat, NEW e \in Nat, p < e, e < Len(t), NEW z \in Text,
         t[p + 1] # 0, t[p + 1] # Quote, t[p + 1] = Backslash => ~HasByte(t, p + 1, Quote),
         Copied(t, r, TRUE, p + 1, e, z)
  PROVE  Copied(t, r, TRUE, p, e, z)
<1>1. t \in Text /\ Len(t) \in Nat
  BY DEF Rests, Ended, Text
<1>2. p < Len(t) /\ e <= Len(t)
  BY <1>1
<1>3. r[<<p, TRUE>>] = <<t[p + 1]>> \o r[<<p + 1, TRUE>>]
  BY <1>2, SameAt
<1> QED BY <1>1, <1>2, <1>3, CopiedMore

LEMMA CopiedHidden ==
  ASSUME NEW t, NEW r, Rests(t, r), NEW p \in Nat, NEW e \in Nat, p + 1 < e, e < Len(t), NEW z \in Text,
         t[p + 1] = Backslash, t[p + 2] = Quote, Copied(t, r, TRUE, p + 2, e, z)
  PROVE  Copied(t, r, TRUE, p, e, z)
<1> DEFINE a == <<Backslash>>
           b == <<Quote>>
           u == SubSeq(t, p + 3, e)
           v == SubSeq(t, p + 2, e)
<1>1. t \in Text /\ Len(t) \in Nat
  BY DEF Rests, Ended, Text
<1>2. p < Len(t) /\ e <= Len(t) /\ p < e /\ p + 1 \in Nat /\ p + 1 < Len(t)
      /\ (p + 1) + 1 = p + 2 /\ (p + 1) + 2 = p + 3 /\ (p + 2) + 1 = p + 3
  BY <1>1
<1>3. HasByte(t, p + 1, Quote)
  BY <1>2 DEF HasByte
<1>4. r[<<p, TRUE>>] = <<Backslash, Quote>> \o r[<<p + 2, TRUE>>]
  BY <1>2, <1>3, HiddenAt
<1>5. r[<<p + 2, TRUE>>] = u \o z
  BY <1>2 DEF Copied
<1>6. SubSeq(t, p + 1, e) = a \o v /\ v \in Text
  BY <1>1, <1>2, SliceIs
<1>7. v = b \o u /\ u \in Text
  <2>1. SubSeq(t, (p + 1) + 1, e) = <<t[(p + 1) + 1]>> \o SubSeq(t, (p + 1) + 2, e)
        /\ SubSeq(t, (p + 1) + 2, e) \in Text
    BY <1>1, <1>2, SliceIs
  <2> QED BY <1>2, <2>1
<1>8. a \in Text /\ b \in Text /\ a \o b = <<Backslash, Quote>>
  <2>1. Backslash \in Octet /\ Quote \in Octet
    BY DEF Octet, Backslash, Quote
  <2> QED BY <2>1, OneByte, TwoBytes
<1>9. r[<<p, TRUE>>] = (a \o b) \o (u \o z)
  BY <1>4, <1>5, <1>8
<1> HIDE DEF a, b, u, v
<1>10. a \o (b \o u) = (a \o b) \o u
  BY <1>7, <1>8, Associates
<1>11. a \o b \in Text
  BY <1>8, TextConcat
<1>12. (a \o b) \o (u \o z) = ((a \o b) \o u) \o z
  BY <1>7, <1>11, Associates
<1>13. r[<<p, TRUE>>] = (a \o v) \o z
  BY <1>7, <1>9, <1>10, <1>12
<1> QED BY <1>6, <1>13 DEF Copied

NoEscapeLast(s) == s # <<>> => s[Len(s)] # Backslash

LEMMA CopiedByte ==
  ASSUME NEW t, NEW r, Rests(t, r), NEW s, NEW g, NEW q, Marks(t, s, g, q), NoEscapeLast(s), NEW z \in Text,
         NEW j \in 0 .. Len(s), j < Len(s), Copied(t, r, TRUE, g[j + 1], g[Len(s)], z)
  PROVE  Copied(t, r, TRUE, g[j], g[Len(s)], z)
<1> DEFINE c == s[j + 1]
           b == EscapedByte(c)
           p == g[j]
           e == g[Len(s)]
<1>1. t \in Text /\ Len(t) \in Nat
  BY DEF Rests, Ended, Text
<1>2. /\ c \in Byte /\ Stands(t, p, b) /\ p \in Nat /\ g[j + 1] = p + Len(b)
      /\ Short(c, b) \/ Long(c, b) \/ Same(c, b)
  BY <1>1, MarkIs
<1>3. e \in Nat /\ e < Len(t) /\ t[e + 1] = Quote /\ p + Len(b) <= e
  <2>1. p + Len(b) <= e /\ e \in Nat
    BY <1>1, MarksGrow
  <2> QED BY <2>1 DEF Marks
<1>4. p + Len(b) <= Len(t) /\ \A i \in 1 .. Len(b) : t[p + i] = b[i]
  BY <1>2 DEF Stands
<1>5. Copied(t, r, TRUE, p + Len(b), e, z)
  BY <1>2
<1>6. ASSUME c = Backslash PROVE t[(p + Len(b)) + 1] # Quote
  <2>1. j + 1 # Len(s) /\ j + 1 \in 0 .. Len(s) /\ j + 1 < Len(s)
    <3>1. Len(s) \in Nat /\ Len(s) # 0
      BY DEF Marks
    <3>2. s # <<>>
      BY <3>1
    <3>3. j + 1 # Len(s)
      BY <1>6, <3>2 DEF NoEscapeLast
    <3> QED BY <3>1, <3>3
  <2> DEFINE k == j + 1
             d == s[k + 1]
             f == EscapedByte(d)
  <2>2. (Short(d, f) \/ Long(d, f) \/ Same(d, f)) /\ t[g[k] + 1] = f[1]
    BY <1>1, <2>1, MarkIs
  <2> HIDE DEF d, f, k
  <2>3. f[1] # Quote
    BY <2>2 DEF Short, Long, Same, Backslash, Quote
  <2>4. g[k] = p + Len(b)
    BY <1>2 DEF k
  <2> QED BY <2>2, <2>3, <2>4
<1>7. c \in 1 .. 255
  BY <1>2 DEF Byte
<1>20. Copied(t, r, TRUE, p, e, z)
  <2> HIDE DEF b, c, p, e
  <2>1. CASE Same(c, b)
    <3>1. Len(b) = 1 /\ t[p + 1] = c /\ c # 0 /\ c # Quote /\ c # Backslash /\ p < e
      <4>1. Len(b) = 1 /\ b[1] = c /\ c # Quote /\ c # Backslash
        BY <2>1 DEF Same
      <4>2. 1 \in 1 .. Len(b)
        BY <4>1
      <4>3. p < e
        BY <1>2, <1>3, <4>1
      <4> QED BY <1>4, <1>7, <4>1, <4>2, <4>3
    <3>2. Copied(t, r, TRUE, p + 1, e, z)
      BY <1>5, <3>1
    <3> QED BY <1>2, <1>3, <3>1, <3>2, CopiedSame
  <2>2. CASE Short(c, b)
    <3>1. Len(b) = 2 /\ t[p + 1] = Backslash /\ t[p + 2] = b[2] /\ <<b[2], c>> \in Escapes
      BY <1>4, <2>2 DEF Short
    <3>2. Copied(t, r, TRUE, p + 2, e, z) /\ p + 1 < e
      <4>1. p + 2 <= e
        BY <1>3, <3>1
      <4>2. p + 1 < e
        BY <1>2, <1>3, <4>1
      <4> QED BY <1>5, <3>1, <4>2
    <3>3. CASE b[2] = Quote
      BY <1>2, <1>3, <3>1, <3>2, <3>3, CopiedHidden
    <3>4. CASE b[2] # Quote
      <4>1. p + 1 \in Nat /\ (p + 1) + 1 = p + 2 /\ p < e
        BY <1>2, <1>3, <3>2
      <4>2. b[2] # 0 /\ (b[2] = Backslash => c = Backslash)
        BY <3>1 DEF Escapes, Quote, Backslash, LF, Tab
      <4>3. t[(p + 1) + 1] = Backslash => ~HasByte(t, (p + 1) + 1, Quote)
        BY <1>6, <3>1, <4>1, <4>2 DEF HasByte, c, b, p
      <4>4. Copied(t, r, TRUE, (p + 1) + 1, e, z)
        BY <3>2, <4>1
      <4>5. t[(p + 1) + 1] # 0 /\ t[(p + 1) + 1] # Quote
        BY <3>1, <3>4, <4>1, <4>2
      <4>6. Copied(t, r, TRUE, p + 1, e, z)
        BY <1>3, <3>2, <4>1, <4>3, <4>4, <4>5, CopiedSame
      <4>7. ~HasByte(t, p + 1, Quote)
        BY <4>5 DEF HasByte
      <4>8. t[p + 1] # 0 /\ t[p + 1] # Quote
        BY <3>1 DEF Backslash, Quote
      <4> QED BY <1>2, <1>3, <4>1, <4>6, <4>7, <4>8, CopiedSame
    <3> QED BY <3>3, <3>4
  <2>3. CASE Long(c, b)
    <3>1. Len(b) = 6 /\ \A i \in 1 .. 6 : t[p + i] = b[i]
      BY <1>4, <2>3 DEF Long
    <3>2. /\ t[p + 1] = Backslash
          /\ \A i \in 2 .. 6 : t[p + i] # 0 /\ t[p + i] # Quote /\ t[p + i] # Backslash
      <4>1. c \div 16 \in 0 .. 15 /\ c % 16 \in 0 .. 15
        BY <1>7, <2>3, SMT DEF Long
      <4>2. \A n \in 0 .. 15 : Hex(n) # Quote /\ Hex(n) # Backslash /\ Hex(n) # 0
        BY DEF Hex, Quote, Backslash
      <4>3. Hex(c \div 16) # Quote /\ Hex(c \div 16) # Backslash /\ Hex(c \div 16) # 0
            /\ Hex(c % 16) # Quote /\ Hex(c % 16) # Backslash /\ Hex(c % 16) # 0
        BY <4>1, <4>2
      <4>4. b[1] = Backslash /\ b[2] = 117 /\ b[3] = 48 /\ b[4] = 48 /\ b[5] = Hex(c \div 16) /\ b[6] = Hex(c % 16)
        BY <2>3 DEF Long
      <4>5. \A i \in 2 .. 6 : b[i] # 0 /\ b[i] # Quote /\ b[i] # Backslash
        <5>1. \A i \in 2 .. 6 : i = 2 \/ i = 3 \/ i = 4 \/ i = 5 \/ i = 6
          OBVIOUS
        <5>2. 117 # Quote /\ 117 # Backslash /\ 48 # Quote /\ 48 # Backslash
          BY DEF Quote, Backslash
        <5> QED BY <4>3, <4>4, <5>1, <5>2
      <4>6. 1 \in 1 .. 6 /\ \A i \in 2 .. 6 : i \in 1 .. 6
        OBVIOUS
      <4> QED BY <3>1, <4>4, <4>5, <4>6
    <3>3. p + 6 <= e /\ Copied(t, r, TRUE, p + 6, e, z)
      BY <1>3, <1>5, <3>1
    <3>4. ASSUME NEW x, x \in p + 1 .. p + 5, Copied(t, r, TRUE, x + 1, e, z)
          PROVE  Copied(t, r, TRUE, x, e, z)
      <4>1. x \in Nat /\ x < e /\ (x + 1) - p \in 2 .. 6 /\ p + ((x + 1) - p) = x + 1
        BY <1>2, <1>3, <3>3, <3>4
      <4>2. t[x + 1] # 0 /\ t[x + 1] # Quote /\ t[x + 1] # Backslash
        BY <3>2, <4>1
      <4> QED BY <1>3, <3>4, <4>1, <4>2, CopiedSame
    <3>5. /\ p + 1 \in p + 1 .. p + 5 /\ p + 2 \in p + 1 .. p + 5 /\ p + 3 \in p + 1 .. p + 5
          /\ p + 4 \in p + 1 .. p + 5 /\ p + 5 \in p + 1 .. p + 5
          /\ (p + 1) + 1 = p + 2 /\ (p + 2) + 1 = p + 3 /\ (p + 3) + 1 = p + 4
          /\ (p + 4) + 1 = p + 5 /\ (p + 5) + 1 = p + 6
      BY <1>2
    <3>6. Copied(t, r, TRUE, p + 5, e, z)
      BY <3>3, <3>4, <3>5, Zenon
    <3>7. Copied(t, r, TRUE, p + 4, e, z)
      BY <3>6, <3>4, <3>5, Zenon
    <3>8. Copied(t, r, TRUE, p + 3, e, z)
      BY <3>7, <3>4, <3>5, Zenon
    <3>11. Copied(t, r, TRUE, p + 2, e, z)
      BY <3>8, <3>4, <3>5, Zenon
    <3>9. Copied(t, r, TRUE, p + 1, e, z)
      BY <3>11, <3>4, <3>5, Zenon
    <3>10. ~HasByte(t, p + 1, Quote) /\ t[p + 1] # 0 /\ t[p + 1] # Quote /\ p < e
      <4>1. t[p + 2] # Quote /\ (p + 1) + 1 = p + 2
        BY <1>2, <3>2
      <4>2. p < e
        BY <1>2, <1>3, <3>3
      <4> QED BY <3>2, <4>1, <4>2 DEF HasByte, Backslash, Quote
    <3> QED BY <1>2, <1>3, <3>9, <3>10, CopiedSame
  <2> QED BY <1>2, <2>1, <2>2, <2>3
<1> QED BY <1>20

LEMMA CopiedString ==
  ASSUME NEW t, NEW r, Rests(t, r), NEW s, NEW g, NEW q, Marks(t, s, g, q), NoEscapeLast(s), NEW z \in Text,
         r[<<g[Len(s)], TRUE>>] = z
  PROVE  Copied(t, r, TRUE, g[0], g[Len(s)], z)
<1> DEFINE e == g[Len(s)]
           S == {n \in Nat : \A j \in 0 .. Len(s) : j + n = Len(s) => Copied(t, r, TRUE, g[j], e, z)}
<1>1. t \in Text /\ Len(s) \in Nat
  BY DEF Rests, Ended, Text, Marks
<1>2. 0 \in S
  <2>0. Len(s) \in 0 .. Len(s)
    BY <1>1
  <2>1. e \in Nat
    BY <1>1, <2>0, MarksGrow
  <2>2. Copied(t, r, TRUE, e, e, z)
    <3> HIDE DEF e
    <3>1. r[<<e, TRUE>>] = z
      BY DEF e
    <3> QED BY <1>1, <2>1, <3>1, CopiedNothing
  <2>3. \A j \in 0 .. Len(s) : j + 0 = Len(s) => j = Len(s)
    BY <1>1
  <2> QED BY <2>2, <2>3
<1>3. ASSUME NEW n \in Nat, n \in S PROVE n + 1 \in S
  <2>1. ASSUME NEW j \in 0 .. Len(s), j + (n + 1) = Len(s) PROVE Copied(t, r, TRUE, g[j], e, z)
    <3>1. j < Len(s) /\ j + 1 \in 0 .. Len(s) /\ (j + 1) + n = Len(s)
      BY <1>1, <2>1
    <3>2. Copied(t, r, TRUE, g[j + 1], g[Len(s)], z)
      BY <1>3, <3>1
    <3> QED BY <3>1, <3>2, CopiedByte
  <2>2. n + 1 \in Nat
    OBVIOUS
  <2> QED BY <2>1, <2>2
<1>4. Nat \subseteq S
  <2> HIDE DEF S
  <2> QED BY <1>2, <1>3, Induction
<1>5. 0 \in 0 .. Len(s) /\ 0 + Len(s) = Len(s)
  BY <1>1
<1>6. Len(s) \in S
  BY <1>1, <1>4
<1> QED BY <1>5, <1>6

\* In a string nothing is dropped, if it does not end in a backslash.
LEMMA DropsString ==
  ASSUME NEW t, NEW r, Rests(t, r), NEW s \in Seq(Byte), NoEscapeLast(s)
  PROVE  Drops(t, r, StringPiece(s).s, StringPiece(s).s)
<1> DEFINE a == <<Quote>>
           b == Escaped(s)
<1>1. StringPiece(s).s = a \o (b \o a) /\ b \in Text /\ a \in Text /\ b \o a \in Text /\ Quote \in Octet
  BY StringText, MarksAreText
<1> SUFFICES ASSUME NEW q \in Text, NEW m \in Text, Makes(t, r, q, m), NEW o, Holds(t, o, StringPiece(s).s \o q)
             PROVE  r[<<o, FALSE>>] = StringPiece(s).s \o m
  BY DEF Drops, Makes
<1>2. t \in Text /\ Len(t) \in Nat
  BY DEF Rests, Ended, Text
<1>3. Holds(t, o, (a \o (b \o a)) \o q)
  BY <1>1
<1> HIDE DEF b
<1>4. ASSUME NEW z \in Text PROVE (a \o (b \o a)) \o z = a \o (b \o (a \o z)) /\ a \o z \in Text /\ b \o (a \o z) \in Text
  <2> HIDE DEF a
  <2>1. a \o ((b \o a) \o z) = (a \o (b \o a)) \o z
    BY <1>1, Associates
  <2>2. b \o (a \o z) = (b \o a) \o z
    BY <1>1, Associates
  <2>3. a \o z \in Text /\ b \o (a \o z) \in Text
    <3>1. a \o z \in Text
      BY <1>1, TextConcat
    <3> QED BY <1>1, <3>1, TextConcat
  <2> QED BY <2>1, <2>2, <2>3
<1>5. Holds(t, o, <<Quote>> \o (b \o (a \o q)))
  BY <1>3, <1>4
<1> DEFINE x == b \o (a \o q)
<1>6. x \in Text
  BY <1>4
<1> HIDE DEF x
<1>7. o \in Nat /\ o < Len(t) /\ t[o + 1] = Quote /\ Holds(t, o + 1, x)
  <2>1. Holds(t, o, <<Quote>> \o x)
    BY <1>5 DEF x
  <2> QED BY <1>1, <1>2, <1>6, <2>1, HoldsByte
<1>8. o + 1 \in Nat /\ Holds(t, o + 1, Escaped(s) \o (<<Quote>> \o q))
  BY <1>7 DEF x, b
<1>9. PICK g : Marks(t, s, g, q) /\ g[0] = o + 1
  BY <1>2, <1>8, MarksExist
<1> DEFINE e == g[Len(s)]
<1>10. e < Len(t) /\ t[e + 1] = Quote /\ Holds(t, e + 1, q) /\ e \in Nat
  <2>1. Len(s) \in 0 .. Len(s)
    OBVIOUS
  <2>2. g[Len(s)] \in Nat
    BY <1>9, <2>1 DEF Marks
  <2> QED BY <1>9, <2>2 DEF Marks
<1>11. r[<<e, TRUE>>] = a \o m
  <2>1. r[<<e + 1, FALSE>>] = m
    BY <1>10 DEF Makes
  <2> HIDE DEF e
  <2>2. r[<<e, TRUE>>] = <<Quote>> \o r[<<e + 1, FALSE>>]
    BY <1>10, EndAt
  <2> QED BY <2>1, <2>2
<1>12. Copied(t, r, TRUE, o + 1, e, a \o m)
  <2> DEFINE z == a \o m
  <2>1. z \in Text
    BY <1>4
  <2>2. r[<<g[Len(s)], TRUE>>] = z
    BY <1>11
  <2> HIDE DEF z
  <2>3. Copied(t, r, TRUE, g[0], g[Len(s)], z)
    BY <1>9, <2>1, <2>2, CopiedString
  <2> QED BY <1>9, <2>3 DEF z
<1>13. SubSeq(t, (o + 1) + 1, e) = b
  <2>1. Stands(t, o + 1, b) /\ Holds(t, (o + 1) + Len(b), a \o q)
    <3>1. a \o q \in Text /\ Holds(t, o + 1, b \o (a \o q))
      BY <1>4, <1>7 DEF x
    <3> HIDE DEF a
    <3> QED BY <1>1, <1>2, <3>1, HoldsNext
  <2>2. (o + 1) + Len(b) = e
    <3>1. Len(a \o q) = 1 + Len(q) /\ Len(q) \in Nat /\ Len(b) \in Nat
      BY <1>1 DEF Text
    <3>2. Len(t) = ((o + 1) + Len(b)) + Len(a \o q) /\ Len(t) = (e + 1) + Len(q)
      BY <1>10, <2>1 DEF Holds
    <3> HIDE DEF e, a
    <3> QED BY <1>7, <1>10, <3>1, <3>2
  <2>3. SubSeq(t, (o + 1) + 1, (o + 1) + Len(b)) = b
    BY <1>1, <1>2, <1>8, <2>1, SliceStands
  <2> QED BY <2>2, <2>3
<1>14. r[<<o + 1, TRUE>>] = b \o (a \o m)
  BY <1>12, <1>13 DEF Copied
<1>15. r[<<o, FALSE>>] = a \o r[<<o + 1, TRUE>>]
  BY <1>7, BeginAt
<1>16. r[<<o, FALSE>>] = a \o (b \o (a \o m))
  BY <1>14, <1>15
<1> QED BY <1>1, <1>4, <1>16

EndsWith(x, f) ==
  \/ \E s \in {x.str, x.name} : s # <<>> /\ s[Len(s)] = Backslash
  \/ \E p \in DOMAIN x.kids : f[x.kids[p]]

LEMMA EndsIs ==
  ASSUME NEW x \in Trees, ~EndsInBackslash(x)
  PROVE  /\ NoEscapeLast(x.str) /\ NoEscapeLast(x.name)
         /\ \A p \in DOMAIN x.kids : ~EndsInBackslash(x.kids[p])
<1> DEFINE g == [z \in Trees \X [Trees -> BOOLEAN] |-> EndsWith(z[1], z[2])]
           Solved(f) == f = [y \in Trees |-> EndsWith(y, f)]
           d == CHOOSE f : Solved(f)
<1>1. Height \in [Trees -> Nat]
  BY TreeAssumption
<1>2. g \in [Trees \X [Trees -> BOOLEAN] -> BOOLEAN]
  <2>1. \A y, f : EndsWith(y, f) \in BOOLEAN
    BY DEF EndsWith
  <2> QED BY <2>1
<1>3. DependsBelow(g, Trees, BOOLEAN, Height)
  <2>1. ASSUME NEW y \in Trees, NEW f \in [Trees -> BOOLEAN], NEW k \in [Trees -> BOOLEAN],
               \A z \in Trees : Height[z] < Height[y] => f[z] = k[z]
        PROVE  g[<<y, f>>] = g[<<y, k>>]
    <3>1. \A p \in DOMAIN y.kids : f[y.kids[p]] = k[y.kids[p]]
      BY <2>1, KidsInside
    <3>2. EndsWith(y, f) = EndsWith(y, k)
      BY <3>1 DEF EndsWith
    <3> QED BY <3>2
  <2> HIDE DEF g
  <2> QED BY <2>1 DEF DependsBelow
<1>4. PICK f : Solves(f, g, Trees, BOOLEAN)
  <2>1. FALSE \in BOOLEAN
    OBVIOUS
  <2> HIDE DEF g
  <2> QED BY <1>1, <1>2, <1>3, <2>1, Descent
<1>5. Solved(f)
  <2>2. f \in [Trees -> BOOLEAN] /\ \A y \in Trees : f[y] = EndsWith(y, f)
    BY <1>4 DEF Solves
  <2>3. f = [y \in Trees |-> f[y]]
    BY <2>2
  <2>4. f = [y \in Trees |-> EndsWith(y, f)]
    BY <2>2, <2>3
  <2> QED BY <2>4
<1>6. d = [y \in Trees |-> EndsWith(y, d)]
  <2> HIDE DEF Solved
  <2>1. Solved(d)
    BY <1>5
  <2> HIDE DEF d
  <2> QED BY <2>1 DEF Solved
<1>7. \A y : EndsInBackslash(y) = d[y]
  BY DEF EndsInBackslash, EndsWith
<1> HIDE DEF d
<1>8. ~EndsWith(x, d)
  BY <1>6, <1>7
<1>9. /\ \A s \in {x.str, x.name} : ~(s # <<>> /\ s[Len(s)] = Backslash)
      /\ \A p \in DOMAIN x.kids : ~d[x.kids[p]]
  BY <1>8 DEF EndsWith
<1> QED BY <1>7, <1>9 DEF NoEscapeLast

----------------------------------------------------------------------------
LEMMA PlainBytes ==
  /\ PlainByte(LBracket) /\ PlainByte(RBracket) /\ PlainByte(LBrace) /\ PlainByte(RBrace)
  /\ PlainByte(Comma) /\ PlainByte(Colon) /\ PlainByte(Minus) /\ \A c \in Digit : PlainByte(c)
  /\ \A c \in 97 .. 122 : PlainByte(c)
BY DEF PlainByte, Octet, LBracket, RBracket, LBrace, RBrace, Comma, Colon, Minus, Digit,
       Space, Tab, LF, Slash, Quote

LEMMA DropsByte ==
  ASSUME NEW t, NEW r, Rests(t, r), NEW c, PlainByte(c)
  PROVE  Drops(t, r, <<c>>, <<c>>)
<1> DEFINE a == <<c>>
<1>1. a \in Text /\ Len(a) = 1 /\ a[1] = c
  BY OneByte DEF PlainByte
<1> HIDE DEF a
<1>2. \A p \in 1 .. Len(a) : PlainByte(a[p])
  BY <1>1
<1>3. Drops(t, r, a, a)
  BY <1>1, <1>2, DropsPlain
<1> QED BY <1>3 DEF a

LEMMA DropsBlank ==
  ASSUME NEW t, NEW r, Rests(t, r), NEW c \in {Space, Tab, LF}
  PROVE  Drops(t, r, <<c>>, <<>>)
<1> DEFINE a == <<c>>
<1>1. a \in Text /\ Len(a) = 1 /\ a[1] = c
  <2>1. c \in Octet
    BY DEF Octet, Space, Tab, LF
  <2> QED BY <2>1, OneByte
<1> HIDE DEF a
<1>2. \A p \in 1 .. Len(a) : a[p] \in {Space, Tab, LF}
  BY <1>1
<1>3. Drops(t, r, a, <<>>)
  BY <1>1, <1>2, DropsBlanks
<1> QED BY <1>3 DEF a

LEMMA DropsIndent ==
  ASSUME NEW t, NEW r, Rests(t, r), NEW n \in Nat
  PROVE  Drops(t, r, Indent(n, TRUE), Indent(n, FALSE)) /\ Tabs(n) \in Text
<1>1. Tabs(n) \in Text
  BY TabsType, BytesAreText
<1>2. \A p \in 1 .. Len(Tabs(n)) : Tabs(n)[p] \in {Space, Tab, LF}
  BY DEF Tabs
<1>3. Drops(t, r, Tabs(n), <<>>)
  BY <1>1, <1>2, DropsBlanks
<1>4. Indent(n, TRUE) = Tabs(n) /\ Indent(n, FALSE) = <<>>
  BY DEF Indent
<1> QED BY <1>1, <1>3, <1>4

\* The text of a number, of null, true and false.
LEMMA DropsNumber ==
  ASSUME NEW t, NEW r, Rests(t, r), NEW n \in -LargestInt .. LargestInt
  PROVE  Drops(t, r, Decimal(n), Decimal(n))
<1>1. PICK c, d : DigitsAre(n, c, d)
  BY DecimalParts
<1>2. /\ Decimal(n) = SignText(n) \o d /\ d \in Text
      /\ \A p \in 1 .. Len(d) : PlainByte(d[p])
  BY <1>1, PlainBytes DEF DigitsAre
<1>3. Drops(t, r, d, d)
  BY <1>2, DropsPlain
<1>4. Drops(t, r, SignText(n), SignText(n)) /\ SignText(n) \in Text
  <2>1. Drops(t, r, <<Minus>>, <<Minus>>)
    BY PlainBytes, DropsByte
  <2>2. Drops(t, r, <<>>, <<>>)
    BY DropsNothing
  <2>3. SignText(n) \in Text
    BY <1>1, DecimalBegins
  <2> QED BY <2>1, <2>2, <2>3 DEF SignText
<1>5. Drops(t, r, SignText(n) \o d, SignText(n) \o d)
  BY <1>2, <1>3, <1>4, DropsBoth
<1> QED BY <1>2, <1>5

LEMMA DropsWord ==
  ASSUME NEW t, NEW r, Rests(t, r), NEW a \in {NullText, TrueText, FalseText}
  PROVE  Drops(t, r, a, a)
<1>1. \A p \in 1 .. Len(a) : a[p] \in 97 .. 122
  <2>1. CASE a = NullText
    <3>1. Len(a) = 4 /\ a[1] \in 97 .. 122 /\ a[2] \in 97 .. 122 /\ a[3] \in 97 .. 122 /\ a[4] \in 97 .. 122
      BY <2>1 DEF NullText
    <3>2. \A p \in 1 .. 4 : p = 1 \/ p = 2 \/ p = 3 \/ p = 4
      OBVIOUS
    <3> QED BY <3>1, <3>2
  <2>2. CASE a = TrueText
    <3>1. Len(a) = 4 /\ a[1] \in 97 .. 122 /\ a[2] \in 97 .. 122 /\ a[3] \in 97 .. 122 /\ a[4] \in 97 .. 122
      BY <2>2 DEF TrueText
    <3>2. \A p \in 1 .. 4 : p = 1 \/ p = 2 \/ p = 3 \/ p = 4
      OBVIOUS
    <3> QED BY <3>1, <3>2
  <2>3. CASE a = FalseText
    <3>1. Len(a) = 5 /\ a[1] \in 97 .. 122 /\ a[2] \in 97 .. 122 /\ a[3] \in 97 .. 122 /\ a[4] \in 97 .. 122
          /\ a[5] \in 97 .. 122
      BY <2>3 DEF FalseText
    <3>2. \A p \in 1 .. 5 : p = 1 \/ p = 2 \/ p = 3 \/ p = 4 \/ p = 5
      OBVIOUS
    <3> QED BY <3>1, <3>2
  <2> QED BY <2>1, <2>2, <2>3
<1>2. a \in Text
  <2>1. NullText \in Text
    BY DEF NullText, Text, Octet
  <2>2. TrueText \in Text
    BY DEF TrueText, Text, Octet
  <2>3. FalseText \in Text
    BY DEF FalseText, Text, Octet
  <2> QED BY <2>1, <2>2, <2>3
<1>3. \A p \in 1 .. Len(a) : PlainByte(a[p])
  BY <1>1, PlainBytes
<1> QED BY <1>2, <1>3, DropsPlain

LEMMA DropsScalar ==
  ASSUME NEW t, NEW r, Rests(t, r), NEW y \in Items, ~Container(y), ~EndsInBackslash(y)
  PROVE  Drops(t, r, ScalarPiece(y).s, ScalarPiece(y).s)
<1>1. y.type \in {"null", "false", "true", "number", "string"} /\ y.str \in Seq(Byte)
      /\ y.num \in -LargestInt .. LargestInt
  BY ItemIs DEF Printable, Container
<1>2. CASE y.type \in {"null", "false", "true"}
  <2>1. ScalarPiece(y).s \in {NullText, TrueText, FalseText}
    BY <1>2 DEF ScalarPiece, Piece
  <2> QED BY <2>1, DropsWord
<1>3. CASE y.type = "number"
  <2>1. ScalarPiece(y).s = Decimal(y.num)
    BY <1>3 DEF ScalarPiece, Piece
  <2> QED BY <1>1, <2>1, DropsNumber
<1>4. CASE y.type = "string"
  <2>1. ScalarPiece(y).s = StringPiece(y.str).s
    BY <1>4 DEF ScalarPiece, Piece
  <2>2. NoEscapeLast(y.str)
    BY ItemIs, EndsIs
  <2>3. Drops(t, r, StringPiece(y.str).s, StringPiece(y.str).s)
    BY <1>1, <2>2, DropsString
  <2> QED BY <2>1, <2>3
<1> QED BY <1>1, <1>2, <1>3, <1>4

\* The pieces around the kids of an array or an object.
LEMMA DropsOpen ==
  ASSUME NEW t, NEW r, Rests(t, r), NEW x \in Items
  PROVE  Drops(t, r, OpenText(x, TRUE), OpenText(x, FALSE))
<1>1. Drops(t, r, <<LBracket>>, <<LBracket>>) /\ Drops(t, r, <<LBrace>>, <<LBrace>>)
  BY PlainBytes, DropsByte
<1>2. Drops(t, r, <<LF>>, <<>>)
  BY DropsBlank
<1>3. <<LBrace>> \in Text /\ <<LF>> \in Text /\ <<>> \in Text /\ LBrace \in Octet /\ LF \in Octet
  BY MarksAreText
<1>4. Drops(t, r, <<LBrace>> \o <<LF>>, <<LBrace>> \o <<>>)
  BY <1>1, <1>2, <1>3, DropsBoth
<1>5. <<LBrace>> \o <<LF>> = <<LBrace, LF>>
  BY <1>3, TwoBytes
<1>6. <<LBrace>> \o <<>> = <<LBrace>>
  BY <1>3, ConcatEmptySeq DEF Text
<1>7. Drops(t, r, <<LBrace, LF>>, <<LBrace>>)
  BY <1>4, <1>5, <1>6
<1> QED BY <1>1, <1>7 DEF OpenText

LEMMA DropsColon ==
  ASSUME NEW t, NEW r, Rests(t, r)
  PROVE  Drops(t, r, ColonText(TRUE), ColonText(FALSE))
<1>1. Drops(t, r, <<Colon>>, <<Colon>>)
  BY PlainBytes, DropsByte
<1>2. Drops(t, r, <<Tab>>, <<>>)
  BY DropsBlank
<1>3. <<Colon>> \in Text /\ <<Tab>> \in Text /\ <<>> \in Text /\ Colon \in Octet /\ Tab \in Octet
  BY MarksAreText
<1>4. Drops(t, r, <<Colon>> \o <<Tab>>, <<Colon>> \o <<>>)
  BY <1>1, <1>2, <1>3, DropsBoth
<1>5. <<Colon>> \o <<Tab>> = <<Colon, Tab>>
  BY <1>3, TwoBytes
<1>6. <<Colon>> \o <<>> = <<Colon>>
  BY <1>3, ConcatEmptySeq DEF Text
<1>7. Drops(t, r, <<Colon, Tab>>, <<Colon>>)
  BY <1>4, <1>5, <1>6
<1> QED BY <1>7 DEF ColonText

LEMMA DropsClose ==
  ASSUME NEW t, NEW r, Rests(t, r), NEW x \in Items, NEW l \in Nat \ {0}
  PROVE  Drops(t, r, CloseText(x, l, TRUE), CloseText(x, l, FALSE))
<1>1. Drops(t, r, <<RBracket>>, <<RBracket>>) /\ Drops(t, r, <<RBrace>>, <<RBrace>>)
  BY PlainBytes, DropsByte
<1>2. l - 1 \in Nat
  OBVIOUS
<1>3. Drops(t, r, Indent(l - 1, TRUE), Indent(l - 1, FALSE))
  BY <1>2, DropsIndent
<1>4. Indent(l - 1, TRUE) \in Text /\ Indent(l - 1, FALSE) \in Text /\ <<RBrace>> \in Text
  <2>1. Tabs(l - 1) \in Text
    BY <1>2, TabsType, BytesAreText
  <2> QED BY <2>1, MarksAreText DEF Indent
<1>5. Drops(t, r, Indent(l - 1, TRUE) \o <<RBrace>>, Indent(l - 1, FALSE) \o <<RBrace>>)
  BY <1>1, <1>3, <1>4, DropsBoth
<1> QED BY <1>1, <1>5 DEF CloseText

LEMMA DropsSeparator ==
  ASSUME NEW t, NEW r, Rests(t, r), NEW x \in Items, NEW k \in Nat
  PROVE  Drops(t, r, Separator(x, k, TRUE), Separator(x, k, FALSE))
<1> DEFINE a == CommaText(x, k)
           b == BreakText(x, k, TRUE)
           c == BreakText(x, k, FALSE)
<1>1. Drops(t, r, <<Comma>>, <<Comma>>)
  BY PlainBytes, DropsByte
<1>2. Drops(t, r, <<>>, <<>>)
  BY DropsNothing
<1>3. Drops(t, r, a, a)
  BY <1>1, <1>2 DEF CommaText
<1>4. Drops(t, r, <<LF>>, <<>>) /\ Drops(t, r, <<Space>>, <<>>)
  BY DropsBlank
<1>5. c = <<>>
  BY DEF BreakText
<1>6. b \in {<<LF>>, <<Space>>, <<>>}
  BY DEF BreakText
<1>7. a \in Text /\ b \in Text /\ c \in Text
  BY MarksAreText DEF CommaText, BreakText
<1> HIDE DEF a, b, c
<1>8. Drops(t, r, b, c)
  BY <1>2, <1>4, <1>5, <1>6
<1>9. Drops(t, r, a \o b, a \o c)
  BY <1>3, <1>7, <1>8, DropsBoth
<1> QED BY <1>9 DEF a, b, c, Separator

\* The text of an item with formatting is made to the text without.
Shrinks(t, r, y) ==
  \A l \in Nat, s, m \in Text :
    Makes(t, r, s, m) => Makes(t, r, Doc(y, l, s, TRUE), Doc(y, l, m, FALSE))

LEMMA MemberShrinks ==
  ASSUME NEW t, NEW r, Rests(t, r), NEW x \in Items, ~EndsInBackslash(x), NEW k \in 1 .. Len(x.kids),
         NEW l \in Nat, NEW d \in Text, NEW f \in Text, Makes(t, r, d, f)
  PROVE  Makes(t, r, Member(x, k, l, d, TRUE), Member(x, k, l, f, FALSE))
<1>1. CASE x.type = "object"
  <2> DEFINE a == Indent(l, TRUE)
             b == Indent(l, FALSE)
             c == KeyText(x, k)
             g == ColonText(TRUE)
             h == ColonText(FALSE)
  <2>1. k \in Nat /\ x \in Trees /\ x.kids[k] \in Items /\ k \in DOMAIN x.kids
    <3>1. x.kids \in Seq(Items)
      BY ItemIs
    <3> QED BY <3>1, ItemIs
  <2>2. a \in Text /\ b \in Text
    <3>1. Tabs(l) \in Text
      BY TabsType, BytesAreText
    <3> QED BY <3>1, MarksAreText DEF Indent
  <2>3. c \in Text /\ g \in Text /\ h \in Text
    <3>1. 1 \in Nat \ {0}
      OBVIOUS
    <3> QED BY <2>1, <3>1, PiecesAreText
  <2>4. Drops(t, r, a, b)
    BY DropsIndent
  <2>5. Drops(t, r, c, c)
    <3> DEFINE n == x.kids[k].name
    <3>1. n \in Seq(Byte)
      <4>1. n \in Seq(Byte) \cup {NoName} /\ n # NoName
        BY <1>1, <2>1, ItemIs, ItemAssumption
      <4> QED BY <4>1
    <3>2. NoEscapeLast(n)
      <4>1. ~EndsInBackslash(x.kids[k])
        BY <2>1, EndsIs
      <4>2. x.kids[k] \in Trees
        BY <2>1, ItemIs
      <4> QED BY <4>1, <4>2, EndsIs
    <3>3. Drops(t, r, StringPiece(n).s, StringPiece(n).s)
      BY <3>1, <3>2, DropsString
    <3> QED BY <3>3 DEF KeyText
  <2>6. Drops(t, r, g, h)
    BY DropsColon
  <2>7. /\ Member(x, k, l, d, TRUE) = a \o (c \o (g \o d))
        /\ Member(x, k, l, f, FALSE) = b \o (c \o (h \o f))
    BY <1>1 DEF Member
  <2> HIDE DEF a, b, c, g, h
  <2>8. g \o d \in Text /\ h \o f \in Text /\ Makes(t, r, g \o d, h \o f)
    BY <2>3, <2>6, TextConcat DEF Drops
  <2>9. c \o (g \o d) \in Text /\ c \o (h \o f) \in Text /\ Makes(t, r, c \o (g \o d), c \o (h \o f))
    BY <2>3, <2>5, <2>8, TextConcat DEF Drops
  <2>10. Makes(t, r, a \o (c \o (g \o d)), b \o (c \o (h \o f)))
    BY <2>4, <2>9 DEF Drops
  <2> QED BY <2>7, <2>10
<1>2. CASE x.type # "object"
  <2>1. Member(x, k, l, d, TRUE) = d /\ Member(x, k, l, f, FALSE) = f
    BY <1>2 DEF Member
  <2> QED BY <2>1
<1> QED BY <1>1, <1>2

LEMMA LoopShrinks ==
  ASSUME NEW t, NEW r, Rests(t, r), NEW x \in Items, ~EndsInBackslash(x),
         \A p \in DOMAIN x.kids : Shrinks(t, r, x.kids[p]),
         NEW l \in Nat \ {0}, NEW s \in Text, NEW m \in Text, Makes(t, r, s, m)
  PROVE  Makes(t, r, Loop(x, 1, l, s, TRUE), Loop(x, 1, l, m, FALSE))
<1> DEFINE S == {n \in Nat : \A k \in Nat \ {0} : k + n = Len(x.kids) + 1 =>
                    Makes(t, r, Loop(x, k, l, s, TRUE), Loop(x, k, l, m, FALSE))}
<1>1. Len(x.kids) \in Nat /\ l \in Nat
  BY ItemIs
<1>2. 0 \in S
  <2>1. ASSUME NEW k \in Nat \ {0}, k + 0 = Len(x.kids) + 1
        PROVE  Makes(t, r, Loop(x, k, l, s, TRUE), Loop(x, k, l, m, FALSE))
    <3>1. ~(k <= Len(x.kids))
      BY <1>1, <2>1
    <3>2. Loop(x, k, l, s, TRUE) = CloseText(x, l, TRUE) \o s
      BY <1>1, <3>1, LoopEnds
    <3>3. Loop(x, k, l, m, FALSE) = CloseText(x, l, FALSE) \o m
      BY <1>1, <3>1, LoopEnds
    <3>4. Drops(t, r, CloseText(x, l, TRUE), CloseText(x, l, FALSE))
      BY DropsClose
    <3>5. Makes(t, r, CloseText(x, l, TRUE) \o s, CloseText(x, l, FALSE) \o m)
      BY <3>4 DEF Drops
    <3> QED BY <3>2, <3>3, <3>5
  <2> QED BY <2>1
<1>3. ASSUME NEW n \in Nat, n \in S PROVE n + 1 \in S
  <2>1. ASSUME NEW k \in Nat \ {0}, k + (n + 1) = Len(x.kids) + 1
        PROVE  Makes(t, r, Loop(x, k, l, s, TRUE), Loop(x, k, l, m, FALSE))
    <3> DEFINE y == x.kids[k]
               a == Loop(x, k + 1, l, s, TRUE)
               b == Loop(x, k + 1, l, m, FALSE)
               c == Separator(x, k, TRUE)
               d == Separator(x, k, FALSE)
               u == Doc(y, l, c \o a, TRUE)
               v == Doc(y, l, d \o b, FALSE)
    <3>1. k <= Len(x.kids) /\ k \in 1 .. Len(x.kids) /\ k + 1 \in Nat \ {0} /\ (k + 1) + n = Len(x.kids) + 1
      BY <1>1, <2>1
    <3>2. Makes(t, r, a, b)
      BY <1>3, <3>1
    <3>3. a \in Text /\ b \in Text
      BY <1>1, <3>1, LoopMade
    <3>4. c \in Text /\ d \in Text
      <4>1. 1 \in Nat \ {0} /\ k \in Nat
        OBVIOUS
      <4> QED BY <4>1, PiecesAreText
    <3>5. Drops(t, r, c, d)
      BY DropsSeparator
    <3>6. y \in Items /\ Shrinks(t, r, y)
      <4>1. x.kids \in Seq(Items)
        BY ItemIs
      <4>2. k \in DOMAIN x.kids
        BY <3>1, <4>1
      <4> QED BY <3>1, <4>2, ItemIs
    <3>7. Loop(x, k, l, s, TRUE) = Member(x, k, l, u, TRUE)
      BY <1>1, <3>1, LoopGoesOn
    <3>8. Loop(x, k, l, m, FALSE) = Member(x, k, l, v, FALSE)
      BY <1>1, <3>1, LoopGoesOn
    <3> HIDE DEF a, b, c, d, y
    <3>9. c \o a \in Text /\ d \o b \in Text /\ Makes(t, r, c \o a, d \o b)
      BY <3>2, <3>3, <3>4, <3>5, TextConcat DEF Drops
    <3>10. Makes(t, r, u, v)
      BY <1>1, <3>6, <3>9 DEF Shrinks
    <3>11. u \in Text /\ v \in Text
      BY <1>1, <3>6, <3>9, DocIs
    <3> HIDE DEF u, v
    <3>12. Makes(t, r, Member(x, k, l, u, TRUE), Member(x, k, l, v, FALSE))
      BY <1>1, <3>1, <3>10, <3>11, MemberShrinks
    <3> QED BY <3>7, <3>8, <3>12
  <2>2. n + 1 \in Nat
    OBVIOUS
  <2> QED BY <2>1, <2>2
<1>4. Nat \subseteq S
  <2> HIDE DEF S
  <2> QED BY <1>2, <1>3, Induction
<1>5. 1 + Len(x.kids) = Len(x.kids) + 1 /\ 1 \in Nat \ {0}
  BY <1>1
<1>6. Len(x.kids) \in S
  BY <1>1, <1>4
<1> QED BY <1>5, <1>6

LEMMA ItemsShrink ==
  ASSUME NEW t, NEW r, Rests(t, r), NEW v \in Items, ~EndsInBackslash(v)
  PROVE  Shrinks(t, r, v)
<1> DEFINE S == {y \in Trees : y \in Items /\ ~EndsInBackslash(y) => Shrinks(t, r, y)}
<1>1. ASSUME NEW y \in Trees, \A p \in DOMAIN y.kids : y.kids[p] \in S PROVE y \in S
  <2> SUFFICES ASSUME y \in Items, ~EndsInBackslash(y) PROVE Shrinks(t, r, y)
    OBVIOUS
  <2>1. ASSUME NEW l \in Nat, NEW s \in Text, NEW m \in Text, Makes(t, r, s, m)
        PROVE  Makes(t, r, Doc(y, l, s, TRUE), Doc(y, l, m, FALSE))
    <3>1. CASE Container(y)
      <4> DEFINE a == Loop(y, 1, l + 1, s, TRUE)
                 b == Loop(y, 1, l + 1, m, FALSE)
      <4>1. l + 1 \in Nat \ {0} /\ 1 \in Nat \ {0} /\ l + 1 \in Nat
        OBVIOUS
      <4>2. \A p \in DOMAIN y.kids : Shrinks(t, r, y.kids[p])
        <5>1. ASSUME NEW p \in DOMAIN y.kids PROVE Shrinks(t, r, y.kids[p])
          <6>1. p \in 1 .. Len(y.kids)
            BY KidsInside
          <6>2. y.kids[p] \in Items
            BY <6>1, ItemIs
          <6>3. ~EndsInBackslash(y.kids[p])
            BY EndsIs
          <6> QED BY <1>1, <6>2, <6>3
        <5> QED BY <5>1
      <4>3. Makes(t, r, a, b)
        BY <2>1, <4>1, <4>2, LoopShrinks
      <4>4. Doc(y, l, s, TRUE) = OpenText(y, TRUE) \o a
        BY <3>1, DocIs
      <4>5. Doc(y, l, m, FALSE) = OpenText(y, FALSE) \o b
        BY <3>1, DocIs
      <4>6. a \in Text /\ b \in Text
        BY <4>1, LoopMade
      <4>7. Drops(t, r, OpenText(y, TRUE), OpenText(y, FALSE))
        BY DropsOpen
      <4> HIDE DEF a, b
      <4>8. Makes(t, r, OpenText(y, TRUE) \o a, OpenText(y, FALSE) \o b)
        BY <4>3, <4>6, <4>7 DEF Drops
      <4> QED BY <4>4, <4>5, <4>8
    <3>2. CASE ~Container(y)
      <4>1. Doc(y, l, s, TRUE) = ScalarPiece(y).s \o s
        BY <3>2, DocIs
      <4>2. Doc(y, l, m, FALSE) = ScalarPiece(y).s \o m
        BY <3>2, DocIs
      <4>3. Drops(t, r, ScalarPiece(y).s, ScalarPiece(y).s)
        BY <3>2, DropsScalar
      <4>4. Makes(t, r, ScalarPiece(y).s \o s, ScalarPiece(y).s \o m)
        BY <2>1, <4>3 DEF Drops
      <4> QED BY <4>1, <4>2, <4>4
    <3> QED BY <3>1, <3>2
  <2> QED BY <2>1 DEF Shrinks
<1>2. Trees \subseteq S
  <2> HIDE DEF S
  <2> QED BY <1>1, TreeInduction
<1> QED BY <1>2, ItemIs

\* cJSON_Minify makes the text without formatting of the text with it.
LEMMA MinifyIs ==
  ASSUME NEW v \in Items, ~EndsInBackslash(v), NEW text \in Text, Append(text, 0) = Doc(v, 0, Nul, TRUE)
  PROVE  Minify(text) = Doc(v, 0, <<>>, FALSE)
<1> DEFINE t == Append(text, 0)
<1>1. Ended(t) /\ \E r : Remains(t, r) /\ Minify(text) = r[<<0, FALSE>>]
  BY MinifyExists
<1>2. t = Doc(v, 0, Nul, TRUE)
  OBVIOUS
<1> HIDE DEF t
<1>3. PICK r : Remains(t, r) /\ Minify(text) = r[<<0, FALSE>>]
  BY <1>1
<1>4. Rests(t, r)
  BY <1>1, <1>3 DEF Rests
<1>5. Nul \in Text /\ <<>> \in Text
  BY MarksAreText DEF Nul
<1>6. Makes(t, r, Nul, <<>>)
  BY <1>4, MakesNul
<1>7. Shrinks(t, r, v)
  BY <1>4, ItemsShrink
<1>8. Makes(t, r, Doc(v, 0, Nul, TRUE), Doc(v, 0, <<>>, FALSE))
  BY <1>5, <1>6, <1>7 DEF Shrinks
<1>9. Makes(t, r, t, Doc(v, 0, <<>>, FALSE))
  BY <1>2, <1>8
<1>10. Holds(t, 0, t)
  <2>1. Len(t) \in Nat /\ \A p \in 1 .. Len(t) : 0 + p = p
    BY <1>1 DEF Ended, Text
  <2> QED BY <2>1 DEF Holds
<1> QED BY <1>3, <1>9, <1>10 DEF Makes

\* A call of the parser with a text that may not be one of Texts.
LEMMA ParseTextInv ==
  ASSUME NEW text \in Seq(Byte), Parse(text, TRUE)
  PROVE  ParseInv'
<1> DEFINE t == Append(text, 0)
           mark == Len(t) > 4 /\ SubSeq(t, 1, 3) = <<239, 187, 191>>
           o == IF mark THEN 3 ELSE 0
<1>1. t \in Text /\ t # <<>> /\ t[Len(t)] = 0 /\ Len(t) \in Nat \ {0}
  <2>1. text \in Seq(Octet) /\ 0 \in Octet
    BY BytesAreText, OctetIs DEF Text
  <2>2. Append(text, 0) \in Seq(Octet) /\ Len(Append(text, 0)) = Len(text) + 1 /\ Len(text) \in Nat
    BY <2>1
  <2>3. Append(text, 0)[Len(text) + 1] = 0
    BY <2>1
  <2> QED BY <2>2, <2>3 DEF Text
<1>2. /\ content' = t /\ requireNull' = TRUE /\ offset' = SkipIn(t, o)
      /\ parsing' = "value" /\ str' = NoString /\ nest' = <<>>
  BY DEF Parse
<1> HIDE DEF t
<1>3. o \in 0 .. Len(t) - 1
  <2>1. mark => Len(t) > 4
    OBVIOUS
  <2> HIDE DEF mark
  <2> QED BY <1>1, <2>1
<1> HIDE DEF o
<1>4. SkipIn(t, o) \in 0 .. Len(t) - 1
  <2>1. SkipIn(t, o) \in o .. Len(t) - 1
    BY <1>1, <1>3, SkipInside
  <2> QED BY <1>1, <1>3, <2>1
<1>5. TextInv'
  BY <1>1, <1>2, <1>4 DEF TextInv
<1>6. NestInv'
  BY <1>2, EmptyNest DEF NestInv
<1> QED BY <1>2, <1>5, <1>6, NoStringType DEF ParseInv, MeasureInv, UnescapeInv

LEMMA PrintStepInv == ASSUME PrintInv, PrintStep PROVE PrintInv'
BY PrintScalarInv, PrintOpenInv, PrintElementInv, PrintIndentInv, PrintKeyInv,
   PrintColonInv, PrintCommaInv, PrintCloseInv, PrintEndInv DEF PrintStep

LEMMA ParseStepInv == ASSUME ParseInv, ParseStep PROVE ParseInv'
BY ParseLiteralInv, StringBeginsInv, ParseNumberInv, ParseArrayInv, ParseObjectInv,
   NoValueInv, ParseStringInv, MeasureStepInv, MeasuredInv, UnescapeStepInv, UnescapedInv,
   NextElementInv, MemberValueInv, NextMemberInv, ParseEndInv DEF ParseStep

LEMMA PrintStays ==
  ASSUME UNCHANGED printVars
  PROVE  /\ PrintInv => PrintInv'
         /\ \A v, e : Prints(v, e) => Prints(v, e)'
<1>1. UNCHANGED <<bufs, size, format, whole, printing, current, open>>
  BY DEF printVars
<1>2. PrintInv => PrintInv'
  BY <1>1 DEF PrintInv, BufsInv, ControlInv
<1>3. ASSUME NEW v, NEW e, NEW w, NEW p, PrintsAt(v, e, w, p) PROVE PrintsAt(v, e, w, p)'
  BY <1>1, <1>3 DEF PrintsAt, Frames
<1> QED BY <1>2, <1>3 DEF Prints

LEMMA ParseStays ==
  ASSUME UNCHANGED parseVars
  PROVE  /\ ParseInv => ParseInv'
         /\ \A v : Parses(v) => Parses(v)'
<1>1. UNCHANGED <<content, requireNull, offset, parsing, str, value, nest>>
  BY DEF parseVars
<1>2. ASSUME ParseInv PROVE ParseInv'
  <2>1. TextInv' /\ NestInv' /\ str' \in StrType
    BY <1>1, <1>2 DEF ParseInv, TextInv, NestInv
  <2>2. MeasureInv'
    BY <1>1, <1>2 DEF ParseInv, MeasureInv, SkipCounts
  <2>3. UnescapeInv'
    BY <1>1, <1>2 DEF ParseInv, UnescapeInv, SkipCounts, Is, Can
  <2> QED BY <2>1, <2>2, <2>3 DEF ParseInv
<1>3. ASSUME NEW v, NEW fmt, NEW w, NEW p, ParsesAt(v, fmt, w, p) PROVE ParsesAt(v, fmt, w, p)'
  <2>1. \A keyed \in BOOLEAN : Nested(w, keyed) => Nested(w, keyed)'
    BY <1>1 DEF Nested
  <2>2. \A s, g : MeasuredTo(s, g, p) => MeasuredTo(s, g, p)'
    BY <1>1 DEF MeasuredTo
  <2>3. \A s, g : UnescapedTo(s, g, p) => UnescapedTo(s, g, p)'
    BY <1>1 DEF UnescapedTo
  <2>4. \A s : ReadsString(s, p) => ReadsString(s, p)'
    BY <1>1, <2>2, <2>3 DEF ReadsString
  <2>5. ValueAt(v, fmt, w, p) => ValueAt(v, fmt, w, p)'
    BY <1>1, <2>1 DEF ValueAt
  <2>6. StringAt(v, fmt, w, p) \/ KeyAt(v, fmt, w, p) => StringAt(v, fmt, w, p)' \/ KeyAt(v, fmt, w, p)'
    BY <2>1, <2>4 DEF StringAt, KeyAt
  <2>7. ValueDone(v, fmt, w, p) \/ KeyDone(v, fmt, w, p) => ValueDone(v, fmt, w, p)' \/ KeyDone(v, fmt, w, p)'
    BY <1>1, <2>1 DEF ValueDone, KeyDone
  <2> QED BY <1>1, <1>3, <2>5, <2>6, <2>7 DEF ParsesAt, InString
<1> QED BY <1>2, <1>3 DEF Parses

(***************************************************************************)
(* What the printers print and the parser reads is the text of one item,   *)
(* and what has been kept of the first text is all of it.                  *)
(***************************************************************************)
TripOf(c) ==
  /\ c = [v |-> c.v, plain |-> c.plain] /\ c.v \in Values /\ size \in Sizes
  /\ Prints(c.v, <<>>) /\ Prints(c.v, Nul)
  /\ \A text \in c.plain : text = Doc(c.v, 0, <<>>, FALSE)
  /\ parsing # "idle" => Parses(c.v)

TripInv ==
  /\ PrintInv /\ ParseInv
  /\ trip = {} => parsing = "idle" /\ printing = "idle"
  /\ \A c \in trip : TripOf(c)

LEMMA ValuesAre == ASSUME NEW v \in Values PROVE v \in Items /\ v.name = NoName
BY ItemAssumption

\* The text so far, in the buffer and as a whole.
LEMMA WholeIs ==
  ASSUME PrintInv
  PROVE  /\ format \in BOOLEAN /\ whole \in Seq(Byte) /\ whole \in Text /\ size \in Int
         /\ bufs["grown"].ok => bufs["grown"].text = whole
<1>1. whole \in Seq(Byte) /\ format \in BOOLEAN /\ size \in Int
  BY PrintAssumption DEF PrintInv, BufsInv, ControlInv
<1>2. BufferInv(bufs["grown"], "grown", whole, size)
  BY DEF PrintInv, BufsInv, Kinds
<1> QED BY <1>1, <1>2, BytesAreText DEF BufferInv

LEMMA EndsAre == <<>> \in Text /\ Nul \in Text
BY MarksAreText DEF Nul

\* When all is printed.
LEMMA WholeText ==
  ASSUME PrintInv, printing = "done", NEW v, Prints(v, <<>>), Prints(v, Nul)
  PROVE  /\ Doc(v, 0, <<>>, format) = whole
         /\ Doc(v, 0, Nul, format) = Append(whole, 0)
<1>1. whole \in Seq(Octet) /\ 0 \in Octet
  BY WholeIs, OctetIs DEF Text
<1>2. whole \o <<>> = whole
  BY <1>1, ConcatEmptySeq
<1>3. Append(whole, 0) = whole \o <<0>>
  BY <1>1, AppendIsConcat
<1>4. Doc(v, 0, <<>>, format) = whole \o <<>>
  BY PrintedIs
<1>5. Doc(v, 0, Nul, format) = whole \o Nul
  BY PrintedIs
<1> QED BY <1>2, <1>3, <1>4, <1>5 DEF Nul

LEMMA TripInitInv == TripInit => TripInv
BY PrintInitInv, ParseInitInv DEF TripInit, TripInv, ParseInit, PrintInit

LEMMA PrintPlainTrips ==
  ASSUME TripInv, PrintPlain
  PROVE  TripInv'
<1>1. PICK v \in Values, n \in Sizes : PrintItem(v, n, FALSE) /\ trip' = {[v |-> v, plain |-> {}]}
  BY DEF PrintPlain
<1>2. UNCHANGED parseVars /\ parsing = "idle"
  BY DEF PrintPlain, TripInv
<1>3. parsing' = "idle"
  BY <1>2 DEF parseVars
<1>4. ParseInv'
  BY <1>2, ParseStays DEF TripInv
<1>5. PrintInv'
  BY <1>1, ValuesAre, PrintItemInv
<1>6. Prints(v, <<>>)' /\ Prints(v, Nul)'
  BY <1>1, ValuesAre, EndsAre, PrintsAtFirst
<1>7. ASSUME NEW c \in trip' PROVE TripOf(c)'
  <2>1. c = [v |-> v, plain |-> {}]
    BY <1>1, <1>7
  <2>2. c.v = v /\ c.plain = {}
    BY <2>1
  <2>3. size' \in Sizes
    BY <1>1 DEF PrintItem
  <2> QED BY <1>3, <1>6, <2>1, <2>2, <2>3 DEF TripOf
<1> QED BY <1>1, <1>3, <1>4, <1>5, <1>7 DEF TripInv

LEMMA PrintFormattedTrips ==
  ASSUME TripInv, PrintFormatted
  PROVE  TripInv'
<1>1. PICK c \in trip : /\ PrintItem(c.v, size, TRUE)
                       /\ trip' = {[c EXCEPT !.plain = IF bufs["grown"].ok THEN {bufs["grown"].text} ELSE {}]}
  BY DEF PrintFormatted
<1>2. UNCHANGED parseVars /\ parsing = "idle" /\ printing = "done" /\ ~format
  BY DEF PrintFormatted
<1>3. parsing' = "idle"
  BY <1>2 DEF parseVars
<1>4. ParseInv'
  BY <1>2, ParseStays DEF TripInv
<1>5. TripOf(c) /\ PrintInv /\ c.v \in Values
  BY DEF TripInv, TripOf
<1>6. PrintInv'
  BY <1>1, <1>5, ValuesAre, PrintItemInv DEF TripOf
<1>7. Prints(c.v, <<>>)' /\ Prints(c.v, Nul)'
  BY <1>1, <1>5, ValuesAre, EndsAre, PrintsAtFirst
<1>8. bufs["grown"].ok => bufs["grown"].text = Doc(c.v, 0, <<>>, FALSE)
  <2>1. format = FALSE
    BY <1>2, <1>5, WholeIs
  <2>2. Doc(c.v, 0, <<>>, format) = whole
    BY <1>2, <1>5, WholeText DEF TripOf
  <2> QED BY <1>5, <2>1, <2>2, WholeIs
<1>9. PICK plain : plain = IF bufs["grown"].ok THEN {bufs["grown"].text} ELSE {}
  OBVIOUS
<1>10. \A text \in plain : text = Doc(c.v, 0, <<>>, FALSE)
  BY <1>8, <1>9
<1>11. ASSUME NEW d \in trip' PROVE TripOf(d)'
  <2>1. d = [c EXCEPT !.plain = plain]
    BY <1>1, <1>9, <1>11
  <2>2. d = [v |-> c.v, plain |-> plain] /\ d.v = c.v /\ d.plain = plain
    BY <1>5, <2>1 DEF TripOf
  <2>3. size' \in Sizes
    BY <1>1, <1>5 DEF PrintItem, TripOf
  <2> QED BY <1>3, <1>5, <1>7, <1>10, <2>2, <2>3 DEF TripOf
<1> QED BY <1>1, <1>3, <1>4, <1>6, <1>11 DEF TripInv

LEMMA ParseAgainTrips ==
  ASSUME TripInv, ParseAgain
  PROVE  TripInv'
<1>1. /\ UNCHANGED printVars /\ trip' = trip /\ printing = "done" /\ parsing = "idle"
      /\ bufs["grown"].ok /\ Parse(bufs["grown"].text, TRUE)
  BY DEF ParseAgain
<1>2. PrintInv /\ trip # {} /\ bufs["grown"].text = whole /\ whole \in Seq(Byte)
  <2>1. PrintInv
    BY DEF TripInv
  <2>2. trip # {}
    BY <1>1 DEF TripInv
  <2> QED BY <1>1, <2>1, <2>2, WholeIs
<1>3. PrintInv'
  BY <1>1, <1>2, PrintStays
<1>4. ParseInv'
  BY <1>1, <1>2, ParseTextInv
<1>5. ASSUME NEW c \in trip' PROVE TripOf(c)'
  <2>1. TripOf(c)
    BY <1>1, <1>5 DEF TripInv
  <2>2. Prints(c.v, <<>>)' /\ Prints(c.v, Nul)'
    BY <1>1, <2>1, PrintStays DEF TripOf
  <2>3. Append(whole, 0) = Doc(c.v, 0, Nul, format) /\ format \in BOOLEAN
    BY <1>1, <1>2, <2>1, WholeText, WholeIs DEF TripOf
  <2>4. c.v \in Items /\ c.v.name = NoName
    BY <2>1, ValuesAre DEF TripOf
  <2>5. Parse(whole, TRUE)
    BY <1>1, <1>2
  <2>6. Parses(c.v)'
    BY <2>3, <2>4, <2>5, ParsesAtFirst
  <2>7. size' = size
    BY <1>1 DEF printVars
  <2> QED BY <2>1, <2>2, <2>6, <2>7 DEF TripOf
<1> QED BY <1>1, <1>2, <1>3, <1>4, <1>5 DEF TripInv

LEMMA PrintStepTrips ==
  ASSUME TripInv, PrintStep, UNCHANGED <<parseVars, trip>>
  PROVE  TripInv'
<1>1. UNCHANGED parseVars /\ trip' = trip
  OBVIOUS
<1>2. parsing' = parsing
  BY <1>1 DEF parseVars
<1>3. PrintInv'
  BY PrintStepInv DEF TripInv
<1>4. ParseInv'
  BY <1>1, ParseStays DEF TripInv
<1>5. size' = size
  BY DEF PrintStep, PrintScalar, PrintOpen, PrintElement, PrintIndent, PrintKey, PrintColon,
         PrintComma, PrintClose, PrintEnd
<1>6. printing # "idle"
  BY DEF PrintStep, PrintScalar, PrintOpen, PrintElement, PrintIndent, PrintKey, PrintColon,
         PrintComma, PrintClose, PrintEnd
<1>7. trip # {}
  BY <1>6 DEF TripInv
<1>8. ASSUME NEW c \in trip' PROVE TripOf(c)'
  <2>1. TripOf(c) /\ PrintInv
    BY <1>1, <1>8 DEF TripInv
  <2>2. Prints(c.v, <<>>)' /\ Prints(c.v, Nul)'
    BY <2>1, StepPrints DEF TripOf
  <2>3. parsing # "idle" => Parses(c.v)'
    BY <1>1, <2>1, ParseStays DEF TripOf
  <2> QED BY <1>2, <1>5, <2>1, <2>2, <2>3 DEF TripOf
<1> QED BY <1>1, <1>3, <1>4, <1>7, <1>8 DEF TripInv

LEMMA ParseStepTrips ==
  ASSUME TripInv, ParseStep, UNCHANGED <<printVars, trip>>
  PROVE  TripInv'
<1>1. UNCHANGED printVars /\ trip' = trip
  OBVIOUS
<1>2. parsing # "idle"
  BY DEF ParseStep, ParseLiteral, StringBegins, ParseNumber, ParseArray, ParseObject, NoValue,
         ParseString, Measure, Measured, Unescape, Unescaped, NextElement, MemberValue, NextMember,
         ParseEnd
<1>3. PrintInv'
  BY <1>1, PrintStays DEF TripInv
<1>4. ParseInv'
  BY ParseStepInv DEF TripInv
<1>5. trip # {}
  BY <1>2 DEF TripInv
<1>6. ASSUME NEW c \in trip' PROVE TripOf(c)'
  <2>1. TripOf(c) /\ ParseInv
    BY <1>1, <1>6 DEF TripInv
  <2>2. Prints(c.v, <<>>)' /\ Prints(c.v, Nul)'
    BY <1>1, <2>1, PrintStays DEF TripOf
  <2>3. Parses(c.v)'
    BY <1>2, <2>1, StepParses DEF TripOf
  <2>4. size' = size
    BY <1>1 DEF printVars
  <2> QED BY <2>1, <2>2, <2>3, <2>4 DEF TripOf
<1> QED BY <1>1, <1>3, <1>4, <1>5, <1>6 DEF TripInv

LEMMA TripInvCorrect == TripSpec => []TripInv
<1>1. TripInit => TripInv
  BY TripInitInv
<1>2. TripInv /\ [TripNext]_tripVars => TripInv'
  <2> SUFFICES ASSUME TripInv, [TripNext]_tripVars PROVE TripInv'
    OBVIOUS
  <2>1. CASE UNCHANGED tripVars
    <3>1. UNCHANGED parseVars /\ UNCHANGED printVars /\ trip' = trip
      BY <2>1 DEF tripVars
    <3>2. parsing' = parsing /\ printing' = printing /\ size' = size
      BY <3>1 DEF parseVars, printVars
    <3>3. PrintInv' /\ ParseInv'
      BY <3>1, PrintStays, ParseStays DEF TripInv
    <3>4. ASSUME NEW c \in trip' PROVE TripOf(c)'
      <4>1. TripOf(c)
        BY <3>1, <3>4 DEF TripInv
      <4> QED BY <3>1, <3>2, <4>1, PrintStays, ParseStays DEF TripOf
    <3> QED BY <3>1, <3>2, <3>3, <3>4 DEF TripInv
  <2>2. CASE PrintPlain BY <2>2, PrintPlainTrips
  <2>3. CASE PrintFormatted BY <2>3, PrintFormattedTrips
  <2>4. CASE ParseAgain BY <2>4, ParseAgainTrips
  <2>5. CASE PrintStep /\ UNCHANGED <<parseVars, trip>> BY <2>5, PrintStepTrips
  <2>6. CASE ParseStep /\ UNCHANGED <<printVars, trip>> BY <2>6, ParseStepTrips
  <2> QED BY <2>1, <2>2, <2>3, <2>4, <2>5, <2>6 DEF TripNext
<1> QED BY <1>1, <1>2, PTL DEF TripSpec

(***************************************************************************)
(* Whatever item is printed, with or without formatting, through a buffer  *)
(* of any size: the parser makes of the text the same item again, and      *)
(* cJSON_Minify makes of the formatted text the unformatted one.           *)
(***************************************************************************)
THEOREM RoundTripCorrect == TripSpec => []PrintedIsParsed
<1>1. TripInv => PrintedIsParsed
  <2> SUFFICES ASSUME TripInv, NEW c \in trip
               PROVE  /\ parsing = "done" => value = IF DepthOf(c.v) <= NestingLimit THEN c.v ELSE Invalid
                      /\ printing = "done" /\ format /\ bufs["grown"].ok /\ ~EndsInBackslash(c.v) =>
                           \A text \in c.plain : Minify(bufs["grown"].text) = text
    BY DEF PrintedIsParsed
  <2>1. TripOf(c) /\ PrintInv
    BY DEF TripInv
  <2>2. ASSUME parsing = "done"
        PROVE  value = IF DepthOf(c.v) <= NestingLimit THEN c.v ELSE Invalid
    <3>1. Parses(c.v)
      BY <2>1, <2>2 DEF TripOf
    <3> QED BY <2>2, <3>1, ParsedIs
  <2>3. ASSUME printing = "done", format, bufs["grown"].ok, ~EndsInBackslash(c.v),
               NEW text \in c.plain
        PROVE  Minify(bufs["grown"].text) = text
    <3>1. bufs["grown"].text = whole /\ whole \in Text /\ format = TRUE
      BY <2>1, <2>3, WholeIs
    <3>2. c.v \in Items
      BY <2>1, ValuesAre DEF TripOf
    <3>3. Append(whole, 0) = Doc(c.v, 0, Nul, format)
      BY <2>1, <2>3, WholeText DEF TripOf
    <3>4. Append(whole, 0) = Doc(c.v, 0, Nul, TRUE)
      BY <3>1, <3>3
    <3>5. Minify(whole) = Doc(c.v, 0, <<>>, FALSE)
      BY <2>3, <3>1, <3>2, <3>4, MinifyIs
    <3>6. text = Doc(c.v, 0, <<>>, FALSE)
      BY <2>1, <2>3 DEF TripOf
    <3> QED BY <3>1, <3>5, <3>6
  <2> QED BY <2>2, <2>3
<1> QED BY <1>1, TripInvCorrect, PTL
=============================================================================
