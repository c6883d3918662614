---------------------------- MODULE Calls_proofs ----------------------------
(***************************************************************************)
(* Proofs about the functions of one call, the parser, the printers, the   *)
(* comparison and the pointers of cJSON, for any text, any items and a     *)
(* buffer of any size, and about the cpu and the disk plugin, for any      *)
(* number of cores, any counters, any mounts and any number of runs.  At   *)
(* the end is what CJsonRoundTrip_proofs needs of texts and of printing.   *)
(***************************************************************************)
EXTENDS CJsonRoundTrip, CJsonCompare, CJsonPointer, CpuUsage, DiskSpace,
        SequenceTheorems, FiniteSetTheorems, WellFoundedInduction, TLAPS

----------------------------------------------------------------------------
(* The natural numbers, and recursion.                                     *)

\* A set of natural numbers that is not empty has a least one.
LEMMA LeastNatural ==
  ASSUME NEW T, T \subseteq Nat, T # {}
  PROVE  \E m \in T : \A n \in T : m <= n
<1> DEFINE R == OpToRel(<, Nat)
<1>1. IsWellFoundedOn(R, Nat)
  BY NatLessThanWellFounded, Zenon
<1>2. \A x, y \in Nat : <<y, x>> \in R <=> y < x
  BY DEF OpToRel
<1> HIDE DEF R
<1>3. \E x \in T : \A y \in T : <<y, x>> \notin R
  BY <1>1, WFMin
<1>4. \E x \in T : \A y \in T : ~(y < x)
  BY <1>2, <1>3
<1> QED BY <1>4

\* The natural numbers are the only set of them that has 0 and all successors.
LEMMA Induction ==
  ASSUME NEW S, 0 \in S, \A n \in Nat : n \in S => n + 1 \in S
  PROVE  Nat \subseteq S
<1> DEFINE T == Nat \ S
<1> SUFFICES ASSUME T # {} PROVE FALSE
  OBVIOUS
<1>1. PICK m \in T : \A n \in T : m <= n
  <2>1. T \subseteq Nat
    OBVIOUS
  <2> HIDE DEF T
  <2> QED BY <2>1, LeastNatural
<1>2. m # 0
  OBVIOUS
<1>3. m - 1 \in Nat /\ m - 1 \notin T
  BY <1>1, <1>2
<1> QED BY <1>3

\* f[n + 1] is what g makes of f[n].
Iterates(f, a, g) == f[0] = a /\ \A n \in Nat : f[n + 1] = g[<<f[n], n + 1>>]

\* A function on the naturals may be defined by recursion, as in Sum.
LEMMA Recursion ==
  ASSUME NEW S, NEW a \in S, NEW g \in [S \X Nat -> S]
  PROVE  \E f \in [Nat -> S] : Iterates(f, a, g)
<1> DEFINE A(n) == {f \in [0 .. n -> S] : \A m \in 0 .. n : f[m] = IF m = 0 THEN a ELSE g[<<f[m - 1], m>>]}
           Good == {n \in Nat : A(n) # {}}
           Same == {m \in Nat : \A n, k \in Nat : m <= n /\ m <= k =>
                      \A f \in A(n), h \in A(k) : f[m] = h[m]}
<1>1. Nat \subseteq Good
  <2>1. 0 \in Good
    <3>1. [m \in 0 .. 0 |-> a] \in A(0)
      OBVIOUS
    <3> QED BY <3>1
  <2>2. ASSUME NEW n \in Nat, n \in Good PROVE n + 1 \in Good
    <3>1. PICK f \in A(n) : TRUE
      BY <2>2
    <3> DEFINE h == [m \in 0 .. n + 1 |-> IF m = n + 1 THEN g[<<f[n], n + 1>>] ELSE f[m]]
    <3>2. f \in [0 .. n -> S] /\ \A m \in 0 .. n : f[m] = IF m = 0 THEN a ELSE g[<<f[m - 1], m>>]
      OBVIOUS
    <3>3. f[n] \in S /\ g[<<f[n], n + 1>>] \in S
      BY <3>2
    <3>4. h \in [0 .. n + 1 -> S]
      BY <3>2, <3>3
    <3>5. ASSUME NEW m \in 0 .. n + 1 PROVE h[m] = IF m = 0 THEN a ELSE g[<<h[m - 1], m>>]
      <4>1. h[n + 1] = g[<<f[n], n + 1>>] /\ \A k \in 0 .. n : h[k] = f[k]
        OBVIOUS
      <4> HIDE DEF h
      <4>2. CASE m = n + 1
        <5>1. m # 0 /\ m - 1 = n /\ n \in 0 .. n
          BY <4>2
        <5> QED BY <4>1, <4>2, <5>1
      <4>3. CASE m \in 1 .. n
        <5>1. m \in 0 .. n /\ m - 1 \in 0 .. n /\ m # 0
          BY <4>3
        <5> QED BY <4>1, <5>1, <3>2
      <4>4. CASE m = 0
        <5>1. 0 \in 0 .. n
          OBVIOUS
        <5> QED BY <4>1, <4>4, <5>1, <3>2
      <4> QED BY <4>2, <4>3, <4>4
    <3>6. h \in A(n + 1)
      BY <3>4, <3>5
    <3>7. A(n + 1) # {}
      <4> HIDE DEF h, A
      <4> QED BY <3>6
    <3> HIDE DEF A
    <3> QED BY <3>7
  <2> HIDE DEF Good
  <2> QED BY <2>1, <2>2, Induction
<1>0. ASSUME NEW n \in Nat, NEW f \in A(n)
      PROVE  \A m \in 0 .. n : f[m] = IF m = 0 THEN a ELSE g[<<f[m - 1], m>>]
  OBVIOUS
<1>2. Nat \subseteq Same
  <2> HIDE DEF A, Good
  <2>1. 0 \in Same
    <3>1. ASSUME NEW n \in Nat, NEW f \in A(n) PROVE f[0] = a
      <4>1. 0 \in 0 .. n
        OBVIOUS
      <4> QED BY <4>1, <1>0
    <3> QED BY <3>1
  <2>2. ASSUME NEW m \in Nat, m \in Same PROVE m + 1 \in Same
    <3>1. ASSUME NEW n \in Nat, NEW k \in Nat, m + 1 <= n, m + 1 <= k, NEW f \in A(n), NEW h \in A(k)
          PROVE  f[m + 1] = h[m + 1]
      <4>1. m <= n /\ m <= k
        BY <3>1
      <4>2. f[m] = h[m]
        BY <2>2, <4>1
      <4>3. /\ m + 1 \in 0 .. n /\ m + 1 \in 0 .. k
            /\ (m + 1) - 1 = m /\ m + 1 # 0
        BY <3>1
      <4>4. f[m + 1] = g[<<f[m], m + 1>>]
        BY <1>0, <4>3
      <4>5. h[m + 1] = g[<<h[m], m + 1>>]
        BY <1>0, <4>3
      <4> QED BY <4>2, <4>4, <4>5
    <3> QED BY <3>1
  <2> HIDE DEF Same
  <2> QED BY <2>1, <2>2, Induction
<1> DEFINE F(n) == CHOOSE f : f \in A(n)
           f == [n \in Nat |-> F(n)[n]]
<1>3. ASSUME NEW n \in Nat PROVE F(n) \in A(n)
  <2>1. A(n) # {}
    BY <1>1
  <2> HIDE DEF A
  <2> QED BY <2>1
<1>4. f \in [Nat -> S]
  <2>1. ASSUME NEW n \in Nat PROVE F(n)[n] \in S
    <3> HIDE DEF F
    <3> QED BY <1>3
  <2> HIDE DEF F
  <2> QED BY <2>1
<1>5. ASSUME NEW n \in Nat PROVE f[n] = IF n = 0 THEN a ELSE g[<<f[n - 1], n>>]
  <2>1. CASE n = 0
    <3>1. F(0) \in A(0)
      BY <1>3
    <3>2. F(0)[0] = a
      <4> HIDE DEF F
      <4> QED BY <3>1
    <3> QED BY <2>1, <3>2
  <2>2. CASE n # 0
    <3>1. n - 1 \in Nat
      BY <2>2
    <3>2. F(n - 1) \in A(n - 1) /\ F(n) \in A(n)
      BY <1>3, <3>1
    <3>3. F(n - 1)[n - 1] = F(n)[n - 1]
      <4>1. n - 1 \in Same
        BY <1>2, <3>1
      <4>2. n - 1 <= n /\ n - 1 <= n - 1
        BY <3>1
      <4> HIDE DEF F, A
      <4> QED BY <4>1, <4>2, <3>1, <3>2
    <3>4. F(n)[n] = g[<<F(n)[n - 1], n>>]
      <4> HIDE DEF F
      <4> QED BY <3>2, <2>2
    <3>5. f[n] = F(n)[n] /\ f[n - 1] = F(n - 1)[n - 1]
      BY <3>1
    <3> HIDE DEF F, f
    <3> QED BY <2>2, <3>3, <3>4, <3>5
  <2> QED BY <2>1, <2>2
<1> HIDE DEF f
<1>6. f[0] = a
  BY <1>5
<1>7. ASSUME NEW n \in Nat PROVE f[n + 1] = g[<<f[n], n + 1>>]
  <2>1. n + 1 \in Nat /\ n + 1 # 0 /\ (n + 1) - 1 = n
    OBVIOUS
  <2> QED BY <1>5, <2>1
<1> QED BY <1>4, <1>6, <1>7 DEF Iterates

LEMMA MinType ==
  ASSUME NEW T, T \subseteq Nat, T # {}
  PROVE  Min(T) \in T /\ \A n \in T : Min(T) <= n
<1>1. \E m \in T : \A n \in T : m <= n
  BY LeastNatural
<1> QED BY <1>1 DEF Min

----------------------------------------------------------------------------
(* The parser.                                                             *)

Octet == 0 .. 255
Text == Seq(Octet)

LEMMA OctetIs ==
  ASSUME NEW c \in Int
  PROVE  c \in Octet <=> c >= 0 /\ c <= 255
BY DEF Octet

\* Skipping stays in the buffer.
LEMMA SkipInside ==
  ASSUME NEW t \in Text, NEW o \in 0 .. Len(t) - 1
  PROVE  SkipIn(t, o) \in o .. Len(t) - 1
<1> DEFINE rest == {p \in o .. Len(t) - 1 : t[p + 1] > Space}
<1>1. Len(t) \in Nat /\ o \in Nat /\ o < Len(t)
  BY DEF Text
<1>2. SkipIn(t, o) = IF rest = {} THEN Len(t) - 1 ELSE Min(rest)
  BY <1>1 DEF SkipIn
<1>3. rest \subseteq Nat /\ \A p \in rest : p \in o .. Len(t) - 1
  BY <1>1
<1> HIDE DEF rest
<1>4. rest # {} => Min(rest) \in o .. Len(t) - 1
  BY <1>3, MinType
<1> QED BY <1>1, <1>2, <1>4

\* Four digits give a number of 16 bits.
LEMMA Hex4Type == \A p : ParseHex4(p) \in Nat /\ ParseHex4(p) < 65536
<1> SUFFICES ASSUME NEW p PROVE ParseHex4(p) \in Nat /\ ParseHex4(p) < 65536
  OBVIOUS
<1> DEFINE Value(c) == IF c \in Digit THEN c - 48
                      ELSE IF c \in 65 .. 70 THEN c - 55
                      ELSE IF c \in 97 .. 102 THEN c - 87 ELSE -1
           d == [q \in 1 .. 4 |-> Value(content[p + q])]
<1>1. \A c : Value(c) \in -1 .. 15
  <2> SUFFICES ASSUME NEW c PROVE Value(c) \in -1 .. 15
    OBVIOUS
  <2>1. CASE c \in Digit
    BY <2>1 DEF Digit
  <2>2. CASE c \in 65 .. 70
    BY <2>2 DEF Digit
  <2>3. CASE c \in 97 .. 102
    BY <2>3 DEF Digit
  <2>4. CASE c \notin Digit /\ c \notin 65 .. 70 /\ c \notin 97 .. 102
    BY <2>4
  <2> HIDE DEF Value
  <2> QED BY <2>1, <2>2, <2>3, <2>4
<1>2. d \in [1 .. 4 -> -1 .. 15]
  <2> HIDE DEF Value
  <2> QED BY <1>1
<1>3. ParseHex4(p) = IF \E q \in 1 .. 4 : d[q] = -1 THEN 0
                     ELSE 4096 * d[1] + 256 * d[2] + 16 * d[3] + d[4]
  BY Zenon DEF ParseHex4
<1> HIDE DEF d
<1>4. CASE \E q \in 1 .. 4 : d[q] = -1
  BY <1>3, <1>4, SMT
<1>5. CASE ~\E q \in 1 .. 4 : d[q] = -1
  <2>1. 1 \in 1 .. 4 /\ 2 \in 1 .. 4 /\ 3 \in 1 .. 4 /\ 4 \in 1 .. 4
    OBVIOUS
  <2>2. \A q \in 1 .. 4 : d[q] \in 0 .. 15
    <3>1. \A q \in 1 .. 4 : d[q] \in -1 .. 15
      BY <1>2
    <3> QED BY <1>5, <3>1
  <2>3. d[1] \in 0 .. 15 /\ d[2] \in 0 .. 15 /\ d[3] \in 0 .. 15 /\ d[4] \in 0 .. 15
    BY <2>1, <2>2
  <2> DEFINE n == 4096 * d[1] + 256 * d[2] + 16 * d[3] + d[4]
  <2>4. n \in Nat /\ n < 65536
    <3>1. \A a, b, e, f \in Nat : a <= 15 /\ b <= 15 /\ e <= 15 /\ f <= 15 =>
            LET m == 4096 * a + 256 * b + 16 * e + f IN m \in Nat /\ m < 65536
      BY SMT
    <3>2. /\ d[1] \in Nat /\ d[1] <= 15 /\ d[2] \in Nat /\ d[2] <= 15
          /\ d[3] \in Nat /\ d[3] <= 15 /\ d[4] \in Nat /\ d[4] <= 15
      BY <2>3
    <3> QED BY <3>1, <3>2, SMT
  <2> HIDE DEF n
  <2>5. ParseHex4(p) = n
    BY <1>3, <1>5 DEF n
  <2> QED BY <2>4, <2>5
<1> QED BY <1>4, <1>5

LEMMA Utf8Type ==
  ASSUME NEW c \in Nat, c < 1114112
  PROVE  /\ Utf8(c) \in Text /\ Len(Utf8(c)) <= 4
         /\ c < 65536 => Len(Utf8(c)) <= 3
<1> DEFINE x == c % 64
           y == (c \div 64) % 64
           z == (c \div 4096) % 64
<1>1. x \in Nat /\ x < 64 /\ y \in Nat /\ y < 64 /\ z \in Nat /\ z < 64
  <2>1. c \div 64 \in Int /\ c \div 4096 \in Int
    BY SMT
  <2>2. \A n \in Int : n % 64 \in Nat /\ n % 64 < 64
    BY SMT
  <2> QED BY <2>1, <2>2, SMT
<1>2. CASE c < 128
  <2>1. Utf8(c) = <<c>>
    BY <1>2, SMT DEF Utf8
  <2>2. c \in Octet
    BY <1>2, OctetIs, SMT
  <2> QED BY <2>1, <2>2, SMT DEF Text
<1>3. CASE c >= 128 /\ c < 2048
  <2> DEFINE w == c \div 64
  <2>1. w \in Nat /\ w < 32
    BY <1>3, SMT
  <2>2. Utf8(c) = <<192 + w, 128 + x>>
    BY <1>3, SMT DEF Utf8
  <2> HIDE DEF w, x, y, z
  <2>3. 192 + w \in Octet /\ 128 + x \in Octet
    BY <1>1, <2>1, OctetIs, SMT
  <2> QED BY <2>2, <2>3, SMT DEF Text
<1>4. CASE c >= 2048 /\ c < 65536
  <2> DEFINE w == c \div 4096
  <2>1. w \in Nat /\ w < 16
    BY <1>4, SMT
  <2>2. Utf8(c) = <<224 + w, 128 + y, 128 + x>>
    BY <1>4, SMT DEF Utf8
  <2> HIDE DEF w, x, y, z
  <2>3. 224 + w \in Octet /\ 128 + y \in Octet /\ 128 + x \in Octet
    BY <1>1, <2>1, OctetIs, SMT
  <2> QED BY <2>2, <2>3, SMT DEF Text
<1>5. CASE c >= 65536
  <2> DEFINE w == c \div 262144
  <2>1. w \in Nat /\ w < 5
    BY <1>5, SMT
  <2>2. Utf8(c) = <<240 + w, 128 + z, 128 + y, 128 + x>>
    BY <1>5, SMT DEF Utf8
  <2> HIDE DEF w, x, y, z
  <2>3. 240 + w \in Octet /\ 128 + z \in Octet /\ 128 + y \in Octet /\ 128 + x \in Octet
    BY <1>1, <2>1, OctetIs, SMT
  <2> QED BY <1>5, <2>2, <2>3, SMT DEF Text
<1> QED BY <1>2, <1>3, <1>4, <1>5, SMT

\* What one turn of the second loop of parse_string reads and writes.
LEMMA SequencesType ==
  ASSUME content \in Text, NEW p \in Nat, NEW end \in Nat, p < end, end < Len(content),
         NEW s \in Sequences(p, end)
  PROVE  /\ s[2] \in Text
         /\ \/ s[1] = 1 /\ Len(s[2]) = 1 /\ content[p + 1] # Backslash
            \/ s[1] = 2 /\ Len(s[2]) = 1
            \/ s[1] = 6 /\ Len(s[2]) <= 3 /\ p + 6 <= end
            \/ s[1] = 12 /\ Len(s[2]) <= 4 /\ p + 12 <= end
<1>1. CASE content[p + 1] # Backslash
  <2>1. s = <<1, <<content[p + 1]>>>>
    BY <1>1 DEF Sequences
  <2>2. content[p + 1] \in Octet
    <3>1. p + 1 \in 1 .. Len(content)
      BY DEF Text
    <3> QED BY <3>1 DEF Text
  <2>3. <<content[p + 1]>> \in Text /\ Len(<<content[p + 1]>>) = 1
    BY <2>2 DEF Text
  <2>4. s[1] = 1 /\ s[2] = <<content[p + 1]>>
    BY <2>1
  <2> QED BY <1>1, <2>3, <2>4
<1>2. CASE content[p + 1] = Backslash /\ content[p + 2] # 117
  <2>1. PICK e \in Escapes \cup {<<Slash, Slash>>} : s = <<2, <<e[2]>>>>
    BY <1>2 DEF Sequences
  <2>2. e[2] \in Octet
    <3>1. CASE e \in Escapes
      <4>1. \/ e = <<98, 8>> \/ e = <<102, 12>> \/ e = <<110, LF>> \/ e = <<114, 13>>
            \/ e = <<116, Tab>> \/ e = <<Quote, Quote>> \/ e = <<Backslash, Backslash>>
        BY <3>1, Zenon DEF Escapes
      <4>2. e[2] \in {8, 12, LF, 13, Tab, Quote, Backslash}
        BY <4>1
      <4> QED BY <4>2, OctetIs DEF LF, Tab, Quote, Backslash
    <3>2. CASE e = <<Slash, Slash>>
      BY <3>2, OctetIs DEF Slash
    <3> QED BY <3>1, <3>2
  <2>3. <<e[2]>> \in Text /\ Len(<<e[2]>>) = 1
    BY <2>2 DEF Text
  <2>4. s[1] = 2 /\ s[2] = <<e[2]>>
    BY <2>1
  <2> QED BY <2>3, <2>4
<1>3. CASE content[p + 1] = Backslash /\ content[p + 2] = 117
  <2> DEFINE first == ParseHex4(p + 2)
             second == ParseHex4(p + 8)
             high == CodePoint(first, second)
  <2>1. s \in Utf16ToUtf8(p, end)
    BY <1>3 DEF Sequences
  <2>2. first \in Nat /\ first < 65536 /\ second \in Nat /\ second < 65536
    BY Hex4Type, SMT
  <2>3. \/ s = <<6, Utf8(first)>> /\ ~(end - p < 6)
        \/ s = <<12, Utf8(high)>> /\ ~(end - p < 12)
    <3>1. Utf16ToUtf8(p, end) =
            IF end - p < 6 \/ LowHalf(first) THEN {}
            ELSE IF ~HighHalf(first) THEN {<<6, Utf8(first)>>}
            ELSE IF end - p < 12 \/ ~Is(p + 6, Backslash) \/ ~Is(p + 7, 117) \/ ~LowHalf(second)
            THEN {}
            ELSE {<<12, Utf8(high)>>}
      BY DEF Utf16ToUtf8
    <3> HIDE DEF first, second, high
    <3> QED BY <2>1, <3>1
  <2>4. high \in Nat /\ high < 1114112
    <3> HIDE DEF first, second
    <3>1. first % 1024 \in Nat /\ first % 1024 < 1024 /\ second % 1024 \in Nat /\ second % 1024 < 1024
      BY <2>2, SMT
    <3> QED BY <3>1, SMT DEF CodePoint
  <2> HIDE DEF first, second, high
  <2>5. /\ Utf8(first) \in Text /\ Len(Utf8(first)) <= 3
        /\ Utf8(high) \in Text /\ Len(Utf8(high)) <= 4
    <3>1. first \in Nat /\ first < 1114112 /\ first < 65536
      BY <2>2, SMT
    <3>2. /\ Utf8(first) \in Text /\ Len(Utf8(first)) <= 4 /\ Len(Utf8(first)) <= 3
      BY <3>1, Utf8Type
    <3>3. /\ Utf8(high) \in Text /\ Len(Utf8(high)) <= 4
      BY <2>4, Utf8Type
    <3> QED BY <3>2, <3>3
  <2>6. CASE s = <<6, Utf8(first)>> /\ ~(end - p < 6)
    <3>1. s[1] = 6 /\ s[2] = Utf8(first) /\ p + 6 <= end
      BY <2>6
    <3> QED BY <2>5, <3>1
  <2>7. CASE s = <<12, Utf8(high)>> /\ ~(end - p < 12)
    <3>1. s[1] = 12 /\ s[2] = Utf8(high) /\ p + 12 <= end
      BY <2>7
    <3> QED BY <2>5, <3>1
  <2> QED BY <2>3, <2>6, <2>7
<1> QED BY <1>1, <1>2, <1>3

----------------------------------------------------------------------------
\* The text ends with its only byte 0 that must be there, and the parser is in it.
TextInv ==
  /\ content \in Text /\ content # <<>> /\ content[Len(content)] = 0
  /\ requireNull \in BOOLEAN
  /\ offset \in 0 .. Len(content) - 1
  /\ parsing \in {"idle", "value", "string", "measure", "unescape", "parsed", "done"}

NestInv == (\E S : nest \in Seq(S)) /\ Len(nest) <= NestingLimit

StrType == [first : Nat, in : Nat, skipped : Nat, end : Nat, room : Int, out : Text]

(***************************************************************************)
(* k counts the backslashes that the first loop of parse_string has seen   *)
(* before each offset from first to end: it passes the byte behind each.   *)
(***************************************************************************)
SkipCounts(k, first, end, skipped) ==
  /\ k \in [Nat -> Nat]
  /\ k[first] = 0 /\ k[end] = skipped
  /\ \A q \in Nat : first <= q /\ q < end /\ content[q + 1] # Backslash => k[q + 1] = k[q]
  /\ \A q \in Nat : first <= q /\ q + 2 <= end => k[q + 2] <= k[q] + 1
  /\ \A q \in Nat : first <= q /\ q <= end => k[end] <= k[q] + (end - q)
  /\ first < end => k[end - 1] = k[end]

\* In the first loop, and in the second: what is still to be written fits.
MeasureInv ==
  parsing = "measure" =>
    /\ str.first = offset + 1 /\ str.first <= str.end /\ str.end <= Len(content)
    /\ str.out = <<>>
    /\ \E k : SkipCounts(k, str.first, str.end, str.skipped)

UnescapeInv ==
  parsing = "unescape" =>
    /\ str.first <= str.end /\ Is(str.end, Quote)
    /\ str.first <= str.in /\ str.in <= str.end + 1
    /\ str.room = str.end - str.first + 2 - str.skipped
    /\ \E k : /\ SkipCounts(k, str.first, str.end, str.skipped)
              /\ Len(str.out) + k[IF str.in <= str.end THEN str.in ELSE str.end]
                   <= str.in - str.first

ParseInv == TextInv /\ NestInv /\ str \in StrType /\ MeasureInv /\ UnescapeInv

\* A byte that is not 0 is not the last one.
LEMMA NotLast ==
  ASSUME TextInv, NEW o \in Nat, NEW c \in Nat \ {0}, Is(o, c)
  PROVE  o + 1 \in 0 .. Len(content) - 1
<1>1. content \in Text /\ Len(content) \in Nat /\ content[Len(content)] = 0
  BY DEF TextInv, Text
<1>2. o < Len(content) /\ content[o + 1] # 0
  BY DEF Is, Can
<1> QED BY <1>1, <1>2

LEMMA SkipStays ==
  ASSUME TextInv, NEW o \in 0 .. Len(content) - 1
  PROVE  Skip(o) \in 0 .. Len(content) - 1
<1>1. content \in Text /\ Len(content) \in Nat
  BY DEF TextInv, Text
<1>2. SkipIn(content, o) \in o .. Len(content) - 1
  BY <1>1, SkipInside
<1> QED BY <1>1, <1>2 DEF Skip

LEMMA NoStringType == NoString \in StrType
<1>1. <<>> \in Text
  BY DEF Text
<1> QED BY <1>1 DEF NoString, StrType

LEMMA EmptyNest == \A s : s = <<>> => (\E S : s \in Seq(S)) /\ Len(s) <= NestingLimit
<1>1. <<>> \in Seq(Nat) /\ Len(<<>>) = 0
  OBVIOUS
<1> QED BY <1>1, ParseAssumption

LEMMA FailInv ==
  ASSUME ParseInv, NEW o \in Nat, Fail(o)
  PROVE  ParseInv'
<1>1. /\ content' = content /\ requireNull' = requireNull /\ parsing' = "done"
      /\ nest' = <<>> /\ str' = NoString
      /\ offset' = IF o < Len(content) THEN o ELSE Len(content) - 1
  BY DEF Fail, Can
<1>2. Len(content) \in Nat \ {0}
  BY DEF ParseInv, TextInv, Text
<1>3. offset' \in 0 .. Len(content) - 1
  BY <1>1, <1>2
<1>4. TextInv'
  BY <1>1, <1>3 DEF ParseInv, TextInv
<1>5. NestInv'
  BY <1>1, EmptyNest DEF NestInv
<1>6. str' \in StrType
  BY <1>1, NoStringType
<1> QED BY <1>1, <1>4, <1>5, <1>6 DEF ParseInv, MeasureInv, UnescapeInv

LEMMA ParsedInv ==
  ASSUME ParseInv, NEW v, NEW o \in 0 .. Len(content) - 1, Parsed(v, o),
         str' \in StrType, NestInv'
  PROVE  ParseInv'
<1>1. content' = content /\ requireNull' = requireNull /\ parsing' = "parsed" /\ offset' = o
  BY DEF Parsed
<1>2. TextInv'
  BY <1>1 DEF ParseInv, TextInv
<1> QED BY <1>1, <1>2 DEF ParseInv, MeasureInv, UnescapeInv

LEMMA CallInv ==
  ASSUME ParseInv, NEW s, NEW o \in 0 .. Len(content) - 1, CallValue(o, s) \/ CallString(o, s),
         \E S : s \in Seq(S), Len(s) <= NestingLimit
  PROVE  ParseInv'
<1>1. /\ content' = content /\ requireNull' = requireNull /\ str' = str
      /\ parsing' \in {"value", "string"} /\ offset' = o /\ nest' = s
  BY DEF CallValue, CallString
<1>2. TextInv'
  BY <1>1 DEF ParseInv, TextInv
<1>3. NestInv'
  BY <1>1 DEF NestInv
<1>4. str' \in StrType
  BY <1>1 DEF ParseInv
<1> QED BY <1>1, <1>2, <1>3, <1>4 DEF ParseInv, MeasureInv, UnescapeInv

\* One call more, and the calls without the innermost one.
LEMMA NestMore ==
  ASSUME NestInv, Depth < NestingLimit, NEW x
  PROVE  (\E S : Append(nest, x) \in Seq(S)) /\ Len(Append(nest, x)) <= NestingLimit
<1>1. PICK S : nest \in Seq(S)
  BY DEF NestInv
<1>2. nest \in Seq(S \cup {x})
  BY <1>1
<1>3. Append(nest, x) \in Seq(S \cup {x}) /\ Len(Append(nest, x)) = Len(nest) + 1 /\ Len(nest) \in Nat
  BY <1>2
<1> QED BY <1>3, ParseAssumption DEF Depth

LEMMA NestOuter ==
  ASSUME NestInv, nest # <<>>
  PROVE  /\ (\E S : Outer \in Seq(S)) /\ Len(Outer) <= NestingLimit
         /\ \A x : (\E S : Append(Outer, x) \in Seq(S)) /\ Len(Append(Outer, x)) <= NestingLimit
<1>1. PICK S : nest \in Seq(S)
  BY DEF NestInv
<1>2. Len(nest) \in Nat \ {0} /\ Len(nest) <= NestingLimit
  BY <1>1 DEF NestInv
<1> DEFINE n == Len(nest) - 1
<1>3. n \in Nat /\ \A i \in 1 .. n : nest[i] \in S
  BY <1>1, <1>2
<1>4. Outer = SubSeq(nest, 1, n)
  BY DEF Outer
<1> HIDE DEF n
<1>5. SubSeq(nest, 1, n) \in Seq(S) /\ Len(SubSeq(nest, 1, n)) = n
  <2>1. /\ SubSeq(nest, 1, n) \in Seq(S)
        /\ Len(SubSeq(nest, 1, n)) = IF 1 <= n THEN n - 1 + 1 ELSE 0
    BY <1>3, SubSeqProperties
  <2> QED BY <1>3, <2>1
<1>6. Outer \in Seq(S) /\ Len(Outer) = n
  BY <1>4, <1>5
<1>7. n + 1 <= NestingLimit
  BY <1>2 DEF n
<1>8. ASSUME NEW x
      PROVE  (\E R : Append(Outer, x) \in Seq(R)) /\ Len(Append(Outer, x)) <= NestingLimit
  <2>1. Outer \in Seq(S \cup {x})
    BY <1>6
  <2>2. Append(Outer, x) \in Seq(S \cup {x}) /\ Len(Append(Outer, x)) = n + 1
    BY <1>6, <2>1
  <2> QED BY <1>7, <2>2
<1>9. Len(Outer) <= NestingLimit
  BY <1>3, <1>6, <1>7, ParseAssumption
<1>10. \E R : Outer \in Seq(R)
  BY <1>6
<1> QED BY <1>8, <1>9, <1>10, Zenon

LEMMA Here ==
  ASSUME ParseInv
  PROVE  /\ offset \in Nat /\ offset \in 0 .. Len(content) - 1 /\ Len(content) \in Nat \ {0}
         /\ content \in Text /\ NestInv /\ TextInv /\ str \in StrType
BY DEF ParseInv, TextInv, Text

LEMMA ParseLiteralInv == ParseInv /\ ParseLiteral => ParseInv'
<1> SUFFICES ASSUME ParseInv, ParseLiteral PROVE ParseInv'
  OBVIOUS
<1>1. PICK l \in Literals : Reads(offset, l[1]) /\ Parsed(l[2], offset + Len(l[1]))
  BY DEF ParseLiteral
<1> DEFINE t == l[1]
           n == Len(t)
<1>2. n \in 1 .. 5 /\ t[n] # 0
  <2>1. /\ Len(NullText) = 4 /\ NullText[4] = 108
        /\ Len(FalseText) = 5 /\ FalseText[5] = 101
        /\ Len(TrueText) = 4 /\ TrueText[4] = 101
    BY DEF NullText, FalseText, TrueText
  <2>2. t = NullText \/ t = FalseText \/ t = TrueText
    <3>1. l = <<NullText, Null>> \/ l = <<FalseText, Bool(FALSE)>> \/ l = <<TrueText, Bool(TRUE)>>
      BY Zenon DEF Literals
    <3>2. \A a, b : l = <<a, b>> => l[1] = a
      OBVIOUS
    <3> QED BY <3>1, <3>2, Zenon
  <2> HIDE DEF t
  <2>3. CASE t = NullText
    <3>1. Len(t) = 4 /\ t[4] = 108
      BY <2>1, <2>3
    <3> QED BY <3>1
  <2>4. CASE t = FalseText
    <3>1. Len(t) = 5 /\ t[5] = 101
      BY <2>1, <2>4
    <3> QED BY <3>1
  <2>5. CASE t = TrueText
    <3>1. Len(t) = 4 /\ t[4] = 101
      BY <2>1, <2>5
    <3> QED BY <3>1
  <2> QED BY <2>2, <2>3, <2>4, <2>5
<1>3. offset + n <= Len(content) /\ SubSeq(content, offset + 1, offset + n) = t
  BY <1>1 DEF Reads
<1> HIDE DEF t, n
<1>4. content[offset + n] = t[n]
  <2>1. content \in Seq(Octet) /\ offset \in Nat /\ Len(content) \in Nat
    BY Here DEF Text
  <2> DEFINE a == offset + 1
             b == offset + n
  <2>2. a \in Int /\ b \in Int /\ \A i \in a .. b : i \in 1 .. Len(content)
    BY <1>2, <1>3, <2>1
  <2>3. \A i \in a .. b : content[i] \in Octet
    <3> HIDE DEF a, b
    <3> QED BY <2>1, <2>2
  <2>4. b - a + 1 = n /\ a + n - 1 = b /\ n \in 1 .. b - a + 1
    BY <1>2, <2>1
  <2>5. SubSeq(content, a, b) = t
    BY <1>3
  <2> HIDE DEF a, b
  <2>6. \A i \in 1 .. b - a + 1 : SubSeq(content, a, b)[i] = content[a + i - 1]
    BY <2>2, <2>3, SubSeqProperties
  <2>7. SubSeq(content, a, b)[n] = content[a + n - 1]
    BY <2>4, <2>6
  <2>8. t[n] = content[b]
    BY <2>4, <2>5, <2>7
  <2> QED BY <2>8 DEF b
<1>5. offset + n \in 0 .. Len(content) - 1
  <2>1. content[Len(content)] = 0
    BY DEF ParseInv, TextInv
  <2>2. offset + n # Len(content)
    BY <1>2, <1>4, <2>1
  <2>3. offset \in Nat /\ Len(content) \in Nat
    BY Here
  <2> QED BY <1>2, <1>3, <2>2, <2>3
<1>6. Parsed(l[2], offset + n)
  BY <1>1 DEF t, n
<1>7. str' \in StrType /\ NestInv'
  BY DEF ParseLiteral, ParseInv, NestInv
<1> QED BY <1>5, <1>6, <1>7, ParsedInv

LEMMA StringBeginsInv == ParseInv /\ StringBegins => ParseInv'
<1> SUFFICES ASSUME ParseInv, StringBegins PROVE ParseInv'
  OBVIOUS
<1>1. CallString(offset, nest)
  BY DEF StringBegins
<1>2. (\E S : nest \in Seq(S)) /\ Len(nest) <= NestingLimit
  BY DEF ParseInv, NestInv
<1> QED BY <1>1, <1>2, Here, CallInv

LEMMA ParseNumberInv == ParseInv /\ ParseNumber => ParseInv'
<1> SUFFICES ASSUME ParseInv, ParseNumber PROVE ParseInv'
  OBVIOUS
<1> DEFINE first == IF Is(offset, Minus) THEN offset + 1 ELSE offset
           limit == IF offset + 63 < Len(content) THEN offset + 63 ELSE Len(content)
           stops == {p \in first .. limit - 1 : content[p + 1] \notin Digit}
           end == Min({limit} \cup stops)
           n == CHOOSE f : f = [p \in first .. end |->
                  IF p = first THEN 0 ELSE 10 * f[p - 1] + content[p] - 48]
           v == Number(IF first = offset THEN n[end] ELSE -n[end])
<1>1. IF end = first THEN Fail(offset) ELSE Parsed(v, end) /\ UNCHANGED <<str, nest>>
  BY DEF ParseNumber
<1>2. offset \in 0 .. Len(content) - 1 /\ Len(content) \in Nat
  BY Here
<1>3. first \in 0 .. Len(content) - 1 /\ first <= offset + 1
  <2>1. CASE Is(offset, Minus)
    BY <2>1, Here, NotLast DEF Minus
  <2>2. CASE ~Is(offset, Minus)
    BY <1>2, <2>2
  <2> QED BY <2>1, <2>2
<1> HIDE DEF first, n, v
<1>4. limit \in first .. Len(content)
  BY <1>2, <1>3
<1>5. limit = Len(content) => Len(content) - 1 \in stops
  <2>1. content[Len(content)] = 0
    BY DEF ParseInv, TextInv
  <2>2. 0 \notin Digit
    BY DEF Digit
  <2>3. ASSUME limit = Len(content) PROVE Len(content) - 1 \in stops
    <3>1. Len(content) - 1 \in first .. limit - 1 /\ (Len(content) - 1) + 1 = Len(content)
      BY <1>2, <1>3, <2>3
    <3> HIDE DEF limit
    <3> QED BY <2>1, <2>2, <3>1
  <2> QED BY <2>3
<1> HIDE DEF limit
<1>6. \A p \in stops : p \in first .. limit - 1
  OBVIOUS
<1> HIDE DEF stops
<1>7. end \in {limit} \cup stops /\ \A p \in {limit} \cup stops : end <= p
  <2>1. {limit} \cup stops \subseteq Nat
    BY <1>2, <1>3, <1>4, <1>6
  <2>2. {limit} \cup stops # {}
    OBVIOUS
  <2> QED BY <2>1, <2>2, MinType
<1> HIDE DEF end
<1>8. end \in 0 .. Len(content) - 1
  <2>1. CASE limit = Len(content)
    <3>1. end <= Len(content) - 1
      BY <1>5, <1>7, <2>1
    <3>2. end \in Nat
      BY <1>2, <1>3, <1>4, <1>6, <1>7
    <3> QED BY <1>2, <3>1, <3>2
  <2>2. CASE limit # Len(content)
    BY <1>2, <1>3, <1>4, <1>6, <1>7, <2>2
  <2> QED BY <2>1, <2>2
<1>9. CASE end = first
  <2>1. Fail(offset)
    BY <1>1, <1>9
  <2> QED BY <2>1, Here, FailInv
<1>10. CASE end # first
  <2>1. Parsed(v, end) /\ str' \in StrType /\ NestInv'
    BY <1>1, <1>10 DEF ParseInv, NestInv
  <2> QED BY <1>8, <2>1, ParsedInv
<1> QED BY <1>9, <1>10

\* The beginnings of parse_array and parse_object.
LEMMA BeginInv ==
  ASSUME ParseInv, NEW c \in Nat \ {0}, Is(offset, c), NEW e \in Nat \ {0}, NEW v, NEW x,
         LET first == Skip(offset + 1)
         IN  IF Depth >= NestingLimit THEN Fail(offset)
             ELSE IF Is(first, e) THEN Parsed(v, first + 1) /\ UNCHANGED <<str, nest>>
             ELSE IF ~Can(first) THEN Fail(first - 1)
             ELSE CallValue(first, Append(nest, x)) \/ CallString(first, Append(nest, x))
  PROVE  ParseInv'
<1> DEFINE first == Skip(offset + 1)
<1>1. first \in 0 .. Len(content) - 1
  BY Here, NotLast, SkipStays
<1> HIDE DEF first
<1>2. Can(first) /\ first \in Nat
  BY <1>1, Here DEF Can
<1>3. CASE Depth >= NestingLimit
  <2>1. Fail(offset)
    BY <1>3
  <2> QED BY <2>1, Here, FailInv
<1>4. CASE ~(Depth >= NestingLimit) /\ Is(first, e)
  <2>1. Parsed(v, first + 1) /\ UNCHANGED <<str, nest>>
    BY <1>4 DEF first
  <2>2. first + 1 \in 0 .. Len(content) - 1
    BY <1>2, <1>4, Here, NotLast
  <2>3. str' \in StrType /\ NestInv'
    BY <2>1 DEF ParseInv, NestInv
  <2> QED BY <2>1, <2>2, <2>3, ParsedInv
<1>5. CASE ~(Depth >= NestingLimit) /\ ~Is(first, e)
  <2>1. CallValue(first, Append(nest, x)) \/ CallString(first, Append(nest, x))
    BY <1>2, <1>5 DEF first
  <2>2. Depth < NestingLimit
    <3>1. Depth \in Nat
      <4>1. PICK S : nest \in Seq(S)
        BY DEF ParseInv, NestInv
      <4> QED BY <4>1 DEF Depth
    <3> QED BY <1>5, <3>1, ParseAssumption
  <2>3. (\E S : Append(nest, x) \in Seq(S)) /\ Len(Append(nest, x)) <= NestingLimit
    BY <2>2, NestMore DEF ParseInv
  <2> QED BY <1>1, <2>1, <2>3, CallInv
<1> QED BY <1>3, <1>4, <1>5

LEMMA ParseArrayInv == ParseInv /\ ParseArray => ParseInv'
<1> SUFFICES ASSUME ParseInv, ParseArray PROVE ParseInv'
  OBVIOUS
<1>1. LBracket \in Nat \ {0} /\ RBracket \in Nat \ {0}
  BY DEF LBracket, RBracket
<1> DEFINE v == Array(<<>>)
           x == Call("array", <<>>, NoName)
<1>2. Is(offset, LBracket)
  BY DEF ParseArray
<1>3. LET first == Skip(offset + 1)
      IN  IF Depth >= NestingLimit THEN Fail(offset)
          ELSE IF Is(first, RBracket) THEN Parsed(v, first + 1) /\ UNCHANGED <<str, nest>>
          ELSE IF ~Can(first) THEN Fail(first - 1)
          ELSE CallValue(first, Append(nest, x)) \/ CallString(first, Append(nest, x))
  BY Zenon DEF ParseArray
<1> HIDE DEF v, x
<1> QED BY <1>1, <1>2, <1>3, BeginInv, Zenon

LEMMA ParseObjectInv == ParseInv /\ ParseObject => ParseInv'
<1> SUFFICES ASSUME ParseInv, ParseObject PROVE ParseInv'
  OBVIOUS
<1>1. LBrace \in Nat \ {0} /\ RBrace \in Nat \ {0}
  BY DEF LBrace, RBrace
<1> DEFINE v == Object(<<>>)
           x == Call("object", <<>>, NoName)
<1>2. Is(offset, LBrace)
  BY DEF ParseObject
<1>3. LET first == Skip(offset + 1)
      IN  IF Depth >= NestingLimit THEN Fail(offset)
          ELSE IF Is(first, RBrace) THEN Parsed(v, first + 1) /\ UNCHANGED <<str, nest>>
          ELSE IF ~Can(first) THEN Fail(first - 1)
          ELSE CallValue(first, Append(nest, x)) \/ CallString(first, Append(nest, x))
  BY Zenon DEF ParseObject
<1> HIDE DEF v, x
<1> QED BY <1>1, <1>2, <1>3, BeginInv, Zenon

LEMMA NoValueInv == ParseInv /\ NoValue => ParseInv'
BY Here, FailInv DEF NoValue

LEMMA ParseStringInv == ParseInv /\ ParseString => ParseInv'
<1> SUFFICES ASSUME ParseInv, ParseString PROVE ParseInv'
  OBVIOUS
<1>1. CASE content[offset + 1] # Quote
  <2>1. Fail(offset + 1) /\ offset + 1 \in Nat
    BY <1>1, Here DEF ParseString
  <2> QED BY <2>1, FailInv
<1>2. CASE content[offset + 1] = Quote
  <2>1. /\ parsing' = "measure"
        /\ str' = [NoString EXCEPT !.first = offset + 1, !.end = offset + 1]
        /\ UNCHANGED <<content, requireNull, offset, value, nest>>
    BY <1>2 DEF ParseString
  <2>2. /\ str'.first = offset + 1 /\ str'.end = offset + 1 /\ str'.out = <<>>
        /\ str'.skipped = 0 /\ str' \in StrType
    <3>1. offset + 1 \in Nat /\ <<>> \in Text
      BY Here DEF Text
    <3> DEFINE f == offset + 1
               s == [first |-> f, in |-> 0, skipped |-> 0, end |-> f, room |-> 0, out |-> <<>>]
    <3>2. str' = [NoString EXCEPT !.first = f, !.end = f]
      BY <2>1
    <3>3. f \in Nat
      BY <3>1
    <3> HIDE DEF f
    <3>4. str' = s
      BY <3>2 DEF NoString
    <3>5. s \in StrType /\ s.first = f /\ s.end = f /\ s.out = <<>> /\ s.skipped = 0
      BY <3>1, <3>3 DEF StrType
    <3> HIDE DEF s
    <3> QED BY <3>4, <3>5 DEF f
  <2>3. TextInv' /\ NestInv'
    BY <2>1 DEF ParseInv, TextInv, NestInv
  <2>4. \E k : SkipCounts(k, offset + 1, offset + 1, 0)'
    <3> DEFINE k == [q \in Nat |-> 0]
    <3>1. offset + 1 \in Nat
      BY Here
    <3>2. \A q \in Nat : k[q] = 0
      OBVIOUS
    <3>3. k \in [Nat -> Nat]
      OBVIOUS
    <3> HIDE DEF k
    <3> DEFINE f == offset + 1
    <3> HIDE DEF k, f
    <3>a. f \in Nat /\ f' = f
      BY <2>1, <3>1 DEF f
    <3>b. k[f] = 0 /\ ~(f < f)
      BY <3>2, <3>a
    <3>c. \A q \in Nat : ~(f <= q /\ q < f) /\ ~(f <= q /\ q + 2 <= f)
      BY <3>a
    <3>d. \A q \in Nat : f <= q /\ q <= f => k[f] <= k[q] + (f - q)
      BY <3>2, <3>a
    <3>4. SkipCounts(k, f, f, 0)'
      BY <3>3, <3>a, <3>b, <3>c, <3>d DEF SkipCounts
    <3> QED BY <3>4 DEF f
  <2>6. \E k : SkipCounts(k, str.first, str.end, str.skipped)'
    BY <2>1, <2>2, <2>4
  <2>7. MeasureInv'
    BY <2>1, <2>2, <2>6, Here DEF MeasureInv
  <2> QED BY <2>1, <2>2, <2>3, <2>7 DEF ParseInv, UnescapeInv
<1> QED BY <1>1, <1>2

----------------------------------------------------------------------------
\* The first loop of parse_string goes on: by one byte, or by an escape sequence.
LEMMA CountsPlain ==
  ASSUME NEW k, NEW first \in Nat, NEW end \in Nat, NEW skipped \in Nat, first <= end,
         SkipCounts(k, first, end, skipped)
  PROVE  \E h : SkipCounts(h, first, end + 1, skipped)
<1> DEFINE h == [q \in Nat |-> IF q <= end THEN k[q] ELSE k[end]]
<1>1. k \in [Nat -> Nat] /\ k[end] = skipped
  BY DEF SkipCounts
<1>2. h \in [Nat -> Nat]
  BY <1>1
<1>3. \A q \in Nat : (q <= end => h[q] = k[q]) /\ (q >= end => h[q] = k[end])
  OBVIOUS
<1> HIDE DEF h
<1>4. h[first] = 0
  BY <1>3 DEF SkipCounts
<1>5. h[end + 1] = skipped /\ h[(end + 1) - 1] = h[end + 1]
  BY <1>1, <1>3
<1>6. ASSUME NEW q \in Nat, first <= q, q < end + 1, content[q + 1] # Backslash
      PROVE  h[q + 1] = h[q]
  <2>1. CASE q = end
    BY <1>3, <2>1
  <2>2. CASE q < end
    <3>1. k[q + 1] = k[q]
      BY <1>6, <2>2 DEF SkipCounts
    <3> QED BY <1>3, <2>2, <3>1
  <2> QED BY <1>6, <2>1, <2>2
<1>7. ASSUME NEW q \in Nat, first <= q, q + 2 <= end + 1
      PROVE  h[q + 2] <= h[q] + 1
  <2>1. CASE q + 2 <= end
    <3>1. k[q + 2] <= k[q] + 1
      BY <1>7, <2>1 DEF SkipCounts
    <3> QED BY <1>3, <2>1, <3>1
  <2>2. CASE q + 2 = end + 1
    <3>1. q = end - 1 /\ first < end
      BY <1>7, <2>2
    <3>2. k[q] = k[end]
      BY <3>1 DEF SkipCounts
    <3>3. h[q + 2] = k[end] /\ h[q] = k[q]
      BY <1>3, <2>2, <3>1
    <3> QED BY <1>1, <3>2, <3>3
  <2> QED BY <1>7, <2>1, <2>2
<1>8. ASSUME NEW q \in Nat, first <= q, q <= end + 1
      PROVE  h[end + 1] <= h[q] + ((end + 1) - q)
  <2>1. CASE q <= end
    <3>1. k[end] <= k[q] + (end - q)
      BY <1>8, <2>1 DEF SkipCounts
    <3>2. h[q] = k[q] /\ h[end + 1] = k[end] /\ k[q] \in Nat /\ k[end] \in Nat
      BY <1>1, <1>3, <2>1
    <3> QED BY <3>1, <3>2
  <2>2. CASE q = end + 1
    BY <1>2, <2>2
  <2> QED BY <1>8, <2>1, <2>2
<1>9. SkipCounts(h, first, end + 1, skipped)
  BY <1>2, <1>4, <1>5, <1>6, <1>7, <1>8 DEF SkipCounts
<1> QED BY <1>9

LEMMA CountsEscape ==
  ASSUME NEW k, NEW first \in Nat, NEW end \in Nat, NEW skipped \in Nat, first <= end,
         SkipCounts(k, first, end, skipped), content[end + 1] = Backslash
  PROVE  \E h : SkipCounts(h, first, end + 2, skipped + 1)
<1> DEFINE h == [q \in Nat |-> IF q <= end THEN k[q] ELSE k[end] + 1]
<1>1. k \in [Nat -> Nat] /\ k[end] = skipped
  BY DEF SkipCounts
<1>2. h \in [Nat -> Nat]
  BY <1>1
<1>3. \A q \in Nat : (q <= end => h[q] = k[q]) /\ (q > end => h[q] = k[end] + 1)
  OBVIOUS
<1> HIDE DEF h
<1>4. h[first] = 0
  BY <1>3 DEF SkipCounts
<1>5. h[end + 2] = skipped + 1 /\ h[(end + 2) - 1] = h[end + 2]
  BY <1>1, <1>3
<1>6. ASSUME NEW q \in Nat, first <= q, q < end + 2, content[q + 1] # Backslash
      PROVE  h[q + 1] = h[q]
  <2>1. CASE q = end + 1
    BY <1>3, <2>1
  <2>2. CASE q < end
    <3>1. k[q + 1] = k[q]
      BY <1>6, <2>2 DEF SkipCounts
    <3> QED BY <1>3, <2>2, <3>1
  <2>3. q # end
    BY <1>6
  <2> QED BY <1>6, <2>1, <2>2, <2>3
<1>7. ASSUME NEW q \in Nat, first <= q, q + 2 <= end + 2
      PROVE  h[q + 2] <= h[q] + 1
  <2>1. CASE q + 2 <= end
    <3>1. k[q + 2] <= k[q] + 1
      BY <1>7, <2>1 DEF SkipCounts
    <3> QED BY <1>3, <2>1, <3>1
  <2>2. CASE q + 2 = end + 1
    <3>1. q = end - 1 /\ first < end
      BY <1>7, <2>2
    <3>2. k[q] = k[end]
      BY <3>1 DEF SkipCounts
    <3>3. h[q + 2] = k[end] + 1 /\ h[q] = k[q]
      BY <1>3, <2>2, <3>1
    <3> QED BY <1>1, <3>2, <3>3
  <2>3. CASE q = end
    <3>1. h[q + 2] = k[end] + 1 /\ h[q] = k[end]
      BY <1>3, <2>3
    <3> QED BY <1>1, <3>1
  <2> QED BY <1>7, <2>1, <2>2, <2>3
<1>8. ASSUME NEW q \in Nat, first <= q, q <= end + 2
      PROVE  h[end + 2] <= h[q] + ((end + 2) - q)
  <2>1. CASE q <= end
    <3>1. k[end] <= k[q] + (end - q)
      BY <1>8, <2>1 DEF SkipCounts
    <3>2. h[q] = k[q] /\ h[end + 2] = k[end] + 1 /\ k[q] \in Nat /\ k[end] \in Nat
      BY <1>1, <1>3, <2>1
    <3> QED BY <3>1, <3>2
  <2>2. CASE q > end
    <3>1. h[q] = k[end] + 1 /\ h[end + 2] = k[end] + 1 /\ k[end] \in Nat
      BY <1>1, <1>3, <2>2
    <3> QED BY <1>8, <3>1
  <2> QED BY <1>8, <2>1, <2>2
<1>9. SkipCounts(h, first, end + 2, skipped + 1)
  BY <1>2, <1>4, <1>5, <1>6, <1>7, <1>8 DEF SkipCounts
<1> QED BY <1>9

LEMMA StrFields ==
  ASSUME NEW s \in StrType
  PROVE  /\ s.first \in Nat /\ s.in \in Nat /\ s.skipped \in Nat /\ s.end \in Nat
         /\ s.room \in Int /\ s.out \in Text /\ Len(s.out) \in Nat
BY DEF StrType, Text

LEMMA MeasureStepInv == ParseInv /\ Measure => ParseInv'
<1> SUFFICES ASSUME ParseInv, Measure PROVE ParseInv'
  OBVIOUS
<1> DEFINE first == str.first
           end == str.end
           skipped == str.skipped
<1>1. first \in Nat /\ end \in Nat /\ skipped \in Nat /\ str \in StrType /\ Len(content) \in Nat
  BY Here, StrFields
<1>2. /\ parsing = "measure" /\ first = offset + 1 /\ first <= end /\ end <= Len(content)
      /\ str.out = <<>>
  BY DEF ParseInv, MeasureInv, Measure
<1>3. PICK k : SkipCounts(k, first, end, skipped)
  BY DEF ParseInv, MeasureInv, Measure
<1>4. Can(end) /\ end + 1 <= Len(content)
  <2>1. Can(end)
    BY DEF Measure
  <2> QED BY <1>1, <2>1 DEF Can
<1>5. CASE ~Is(end, Backslash)
  <2>1. /\ str' = [str EXCEPT !.end = end + 1]
        /\ UNCHANGED <<content, requireNull, offset, parsing, value, nest>>
    BY <1>5 DEF Measure
  <2>2. \E h : SkipCounts(h, first, end + 1, skipped)
    BY <1>1, <1>2, <1>3, CountsPlain
  <2>3. /\ str' \in StrType /\ str'.first = first /\ str'.end = end + 1
        /\ str'.skipped = skipped /\ str'.out = str.out
    <3>1. end + 1 \in Nat
      BY <1>1
    <3> QED BY <1>1, <2>1, <3>1 DEF StrType
  <2> HIDE DEF first, end, skipped
  <2>4. \E h : SkipCounts(h, str'.first, str'.end, str'.skipped)
    BY <2>2, <2>3
  <2>5. (\E h : SkipCounts(h, str.first, str.end, str.skipped))'
    BY <2>1, <2>4 DEF SkipCounts
  <2>6. first <= end + 1
    BY <1>1, <1>2
  <2>7. MeasureInv'
    BY <1>2, <1>4, <2>1, <2>3, <2>5, <2>6 DEF MeasureInv
  <2>8. TextInv' /\ NestInv' /\ UnescapeInv'
    BY <1>2, <2>1 DEF ParseInv, TextInv, NestInv, UnescapeInv
  <2> QED BY <2>3, <2>7, <2>8 DEF ParseInv
<1>6. CASE Is(end, Backslash) /\ ~Can(end + 1)
  <2>1. Fail(first)
    BY <1>6 DEF Measure
  <2> QED BY <1>1, <2>1, FailInv
<1>7. CASE Is(end, Backslash) /\ Can(end + 1)
  <2>1. /\ str' = [str EXCEPT !.end = end + 2, !.skipped = skipped + 1]
        /\ UNCHANGED <<content, requireNull, offset, parsing, value, nest>>
    BY <1>7 DEF Measure
  <2>2. \E h : SkipCounts(h, first, end + 2, skipped + 1)
    <3>1. content[end + 1] = Backslash
      BY <1>7 DEF Is
    <3> HIDE DEF first, end, skipped
    <3> QED BY <1>1, <1>2, <1>3, <3>1, CountsEscape
  <2>3. /\ str' \in StrType /\ str'.first = first /\ str'.end = end + 2
        /\ str'.skipped = skipped + 1 /\ str'.out = str.out
    <3>1. end + 2 \in Nat /\ skipped + 1 \in Nat
      BY <1>1
    <3> QED BY <1>1, <2>1, <3>1 DEF StrType
  <2>4. end + 2 <= Len(content) /\ first <= end + 2
    BY <1>1, <1>2, <1>7 DEF Can
  <2> HIDE DEF first, end, skipped
  <2>5. \E h : SkipCounts(h, str'.first, str'.end, str'.skipped)
    BY <2>2, <2>3
  <2>6. (\E h : SkipCounts(h, str.first, str.end, str.skipped))'
    BY <2>1, <2>5 DEF SkipCounts
  <2>7. MeasureInv'
    BY <1>2, <2>1, <2>3, <2>4, <2>6 DEF MeasureInv
  <2>8. TextInv' /\ NestInv' /\ UnescapeInv'
    BY <1>2, <2>1 DEF ParseInv, TextInv, NestInv, UnescapeInv
  <2> QED BY <2>3, <2>7, <2>8 DEF ParseInv
<1> QED BY <1>5, <1>6, <1>7

LEMMA MeasuredInv == ParseInv /\ Measured => ParseInv'
<1> SUFFICES ASSUME ParseInv, Measured PROVE ParseInv'
  OBVIOUS
<1> DEFINE first == str.first
           end == str.end
           skipped == str.skipped
<1>1. /\ first \in Nat /\ end \in Nat /\ skipped \in Nat /\ str \in StrType
      /\ Len(content) \in Nat /\ offset \in Nat
  BY Here, StrFields
<1>2. parsing = "measure" /\ first = offset + 1 /\ first <= end /\ str.out = <<>>
  BY DEF ParseInv, MeasureInv, Measured
<1>3. PICK k : SkipCounts(k, first, end, skipped)
  BY DEF ParseInv, MeasureInv, Measured
<1>4. CASE ~Can(end)
  <2>1. Fail(first)
    BY <1>4 DEF Measured
  <2> QED BY <1>1, <2>1, FailInv
<1>5. CASE Can(end)
  <2>1. Is(end, Quote)
    BY <1>5 DEF Measured
  <2> DEFINE room == end - offset - skipped + 1
  <2>2. /\ str' = [str EXCEPT !.in = first, !.room = room]
        /\ parsing' = "unescape"
        /\ UNCHANGED <<content, requireNull, offset, value, nest>>
    BY <1>5 DEF Measured
  <2>3. room \in Int /\ room = end - first + 2 - skipped
    <3>1. \A o, e, n \in Nat : /\ e - o - n + 1 \in Int
                              /\ e - o - n + 1 = e - (o + 1) + 2 - n
      OBVIOUS
    <3> HIDE DEF first, end, skipped
    <3> QED BY <1>1, <1>2, <3>1
  <2> HIDE DEF room
  <2>4. /\ str' \in StrType /\ str'.first = first /\ str'.end = end /\ str'.skipped = skipped
        /\ str'.out = str.out /\ str'.in = first /\ str'.room = room
    BY <1>1, <2>2, <2>3 DEF StrType
  <2>5. TextInv' /\ NestInv' /\ MeasureInv'
    BY <2>2 DEF ParseInv, TextInv, NestInv, MeasureInv
  <2> HIDE DEF first, end, skipped
  <2>6. k[first] = 0 /\ Len(<<>>) + k[first] <= first - first
    BY <1>1, <1>3 DEF SkipCounts
  <2>7. SkipCounts(k, str'.first, str'.end, str'.skipped)
    BY <1>3, <2>4
  <2>8. SkipCounts(k, str.first, str.end, str.skipped)'
    BY <2>2, <2>7 DEF SkipCounts
  <2>9. first <= end + 1 /\ first <= first
    BY <1>1, <1>2
  <2>11. UnescapeInv'
    <3>1. Is(str.end, Quote)'
      BY <2>1, <2>2, <2>4 DEF Is, Can
    <3> QED BY <1>2, <2>3, <2>4, <2>6, <2>8, <2>9, <3>1 DEF UnescapeInv
  <2> QED BY <2>4, <2>5, <2>11 DEF ParseInv
<1> QED BY <1>4, <1>5

\* No two bytes in a row are escapes of two bytes each.
LEMMA CountsFar ==
  ASSUME NEW k, NEW first \in Nat, NEW end \in Nat, NEW skipped \in Nat,
         SkipCounts(k, first, end, skipped), NEW q \in Nat, first <= q
  PROVE  /\ q + 2 <= end => k[q + 2] <= k[q] + 1
         /\ q + 6 <= end => k[q + 6] <= k[q] + 3
         /\ q + 12 <= end => k[q + 12] <= k[q] + 6
<1>1. \A p \in Nat : first <= p /\ p + 2 <= end => k[p + 2] <= k[p] + 1
  BY DEF SkipCounts
<1>2. \A p \in Nat : k[p] \in Nat
  BY DEF SkipCounts
<1>3. ASSUME NEW p \in Nat, first <= p, p + 6 <= end PROVE k[p + 6] <= k[p] + 3
  <2>1. k[p + 2] <= k[p] + 1
    BY <1>1, <1>3
  <2>2. p + 2 \in Nat /\ (p + 2) + 2 = p + 4 /\ k[(p + 2) + 2] <= k[p + 2] + 1
    BY <1>1, <1>3
  <2>3. p + 4 \in Nat /\ (p + 4) + 2 = p + 6 /\ k[(p + 4) + 2] <= k[p + 4] + 1
    BY <1>1, <1>3
  <2>4. k[p] \in Nat /\ k[p + 2] \in Nat /\ k[p + 4] \in Nat /\ k[p + 6] \in Nat
    BY <1>2
  <2> QED BY <2>1, <2>2, <2>3, <2>4
<1>4. ASSUME q + 12 <= end PROVE k[q + 12] <= k[q] + 6
  <2>1. k[q + 6] <= k[q] + 3
    BY <1>3, <1>4
  <2>2. q + 6 \in Nat /\ (q + 6) + 6 = q + 12 /\ first <= q + 6 /\ (q + 6) + 6 <= end
    BY <1>4
  <2>3. k[(q + 6) + 6] <= k[q + 6] + 3
    BY <1>3, <2>2
  <2>4. k[q] \in Nat /\ k[q + 6] \in Nat /\ k[q + 12] \in Nat
    BY <1>2
  <2> QED BY <2>1, <2>2, <2>3, <2>4
<1> QED BY <1>1, <1>3, <1>4

\* What one turn of the second loop writes is paid for by what it reads.
LEMMA StillFits ==
  ASSUME content \in Text,
         NEW k, NEW first \in Nat, NEW end \in Nat, NEW skipped \in Nat,
         SkipCounts(k, first, end, skipped), end < Len(content),
         NEW in \in Nat, first <= in, in < end, NEW n \in Nat, n + k[in] <= in - first,
         NEW s \in Sequences(in, end)
  PROVE  /\ s[1] \in Nat /\ s[2] \in Text /\ Len(s[2]) \in Nat
         /\ in + s[1] <= end + 1
         /\ (n + Len(s[2])) + k[IF in + s[1] <= end THEN in + s[1] ELSE end]
              <= (in + s[1]) - first
<1>1. /\ s[2] \in Text
      /\ \/ s[1] = 1 /\ Len(s[2]) = 1 /\ content[in + 1] # Backslash
         \/ s[1] = 2 /\ Len(s[2]) = 1
         \/ s[1] = 6 /\ Len(s[2]) <= 3 /\ in + 6 <= end
         \/ s[1] = 12 /\ Len(s[2]) <= 4 /\ in + 12 <= end
  BY SequencesType
<1>2. \A p \in Nat : k[p] \in Nat
  BY DEF SkipCounts
<1>3. /\ in + 2 <= end => k[in + 2] <= k[in] + 1
      /\ in + 6 <= end => k[in + 6] <= k[in] + 3
      /\ in + 12 <= end => k[in + 12] <= k[in] + 6
  BY CountsFar
<1>4. k[in] \in Nat /\ k[end] \in Nat
  BY <1>2
<1>5. ASSUME NEW d \in Nat, NEW m \in Nat, s[1] = d, Len(s[2]) = m,
             (in + d <= end /\ (n + m) + k[in + d] <= (in + d) - first)
             \/ (in + d = end + 1 /\ (n + m) + k[end] <= (in + d) - first)
      PROVE  /\ in + s[1] <= end + 1
             /\ (n + Len(s[2])) + k[IF in + s[1] <= end THEN in + s[1] ELSE end]
                  <= (in + s[1]) - first
  <2> DEFINE next == in + d
             stop == IF next <= end THEN next ELSE end
  <2>1. next <= end + 1 /\ (next <= end => stop = next) /\ (next = end + 1 => stop = end)
    BY <1>5
  <2>2. \/ next <= end /\ (n + m) + k[next] <= next - first
        \/ next = end + 1 /\ (n + m) + k[end] <= next - first
    BY <1>5
  <2> HIDE DEF next, stop
  <2>3. (n + m) + k[stop] <= next - first
    BY <2>1, <2>2
  <2> QED BY <1>5, <2>1, <2>3 DEF next, stop
<1>6. CASE s[1] = 1 /\ Len(s[2]) = 1 /\ content[in + 1] # Backslash
  <2>1. in + 1 <= end
    OBVIOUS
  <2>2. k[in + 1] = k[in]
    <3>1. \A q \in Nat : first <= q /\ q < end /\ content[q + 1] # Backslash => k[q + 1] = k[q]
      BY DEF SkipCounts
    <3> QED BY <1>6, <3>1
  <2>3. (n + 1) + k[in + 1] <= (in + 1) - first
    BY <1>4, <2>2
  <2>4. s[1] = 1 /\ Len(s[2]) = 1 /\ 1 \in Nat
    BY <1>6
  <2> QED BY <1>1, <1>5, <2>1, <2>3, <2>4
<1>7. CASE s[1] = 2 /\ Len(s[2]) = 1
  <2>1. s[1] = 2 /\ Len(s[2]) = 1 /\ 1 \in Nat /\ 2 \in Nat
    BY <1>7
  <2>2. CASE in + 2 <= end
    <3>1. k[in + 2] \in Nat /\ k[in + 2] <= k[in] + 1
      BY <1>2, <1>3, <2>2
    <3>2. (n + 1) + k[in + 2] <= (in + 2) - first
      BY <1>4, <3>1
    <3> QED BY <1>1, <1>5, <2>1, <2>2, <3>2
  <2>3. CASE in + 2 > end
    <3>1. in = end - 1 /\ first < end
      BY <2>3
    <3>2. k[in] = k[end]
      BY <3>1 DEF SkipCounts
    <3>3. in + 2 = end + 1 /\ (n + 1) + k[end] <= (in + 2) - first
      BY <1>4, <3>1, <3>2
    <3> QED BY <1>1, <1>5, <2>1, <3>3
  <2> QED BY <2>2, <2>3
<1>0. \A m, a, b, c, d, x \in Nat : n + a <= x /\ b <= a + c /\ m + c <= d => (n + m) + b <= x + d
  OBVIOUS
<1>8. ASSUME NEW m \in Nat, m <= 4, s[1] = 12, Len(s[2]) = m, in + 12 <= end
      PROVE  /\ in + s[1] <= end + 1
             /\ (n + Len(s[2])) + k[IF in + s[1] <= end THEN in + s[1] ELSE end]
                  <= (in + s[1]) - first
  <2>1. k[in + 12] \in Nat /\ k[in + 12] <= k[in] + 6
    BY <1>2, <1>3, <1>8
  <2>2. (n + m) + k[in + 12] <= (in + 12) - first
    <3>1. /\ in - first \in Nat /\ (in + 12) - first = (in - first) + 12
          /\ 6 \in Nat /\ 12 \in Nat /\ m + 6 <= 12
      BY <1>8
    <3> DEFINE x == in - first
               y == k[in]
               z == k[in + 12]
    <3>2. x \in Nat /\ y \in Nat /\ z \in Nat /\ n + y <= x /\ z <= y + 6
      BY <1>4, <2>1, <3>1
    <3> HIDE DEF x, y, z
    <3>3. (n + m) + z <= x + 12
      BY <1>0, <3>1, <3>2
    <3> QED BY <3>1, <3>3 DEF x, z
  <2>3. 12 \in Nat
    OBVIOUS
  <2> QED BY <1>5, <1>8, <2>2, <2>3
<1>9. ASSUME NEW m \in Nat, m <= 3, s[1] = 6, Len(s[2]) = m, in + 6 <= end
      PROVE  /\ in + s[1] <= end + 1
             /\ (n + Len(s[2])) + k[IF in + s[1] <= end THEN in + s[1] ELSE end]
                  <= (in + s[1]) - first
  <2>1. k[in + 6] \in Nat /\ k[in + 6] <= k[in] + 3
    BY <1>2, <1>3, <1>9
  <2>2. (n + m) + k[in + 6] <= (in + 6) - first
    <3>1. /\ in - first \in Nat /\ (in + 6) - first = (in - first) + 6
          /\ 3 \in Nat /\ 6 \in Nat /\ m + 3 <= 6
      BY <1>9
    <3> DEFINE x == in - first
               y == k[in]
               z == k[in + 6]
    <3>2. x \in Nat /\ y \in Nat /\ z \in Nat /\ n + y <= x /\ z <= y + 3
      BY <1>4, <2>1, <3>1
    <3> HIDE DEF x, y, z
    <3>3. (n + m) + z <= x + 6
      BY <1>0, <3>1, <3>2
    <3> QED BY <3>1, <3>3 DEF x, z
  <2>3. 6 \in Nat
    OBVIOUS
  <2> QED BY <1>5, <1>9, <2>2, <2>3
<1>10. Len(s[2]) \in Nat
  BY <1>1 DEF Text
<1>11. s[1] \in Nat
  BY <1>1
<1> QED BY <1>1, <1>6, <1>7, <1>8, <1>9, <1>10, <1>11

LEMMA UnescapeStepInv == ParseInv /\ Unescape => ParseInv'
<1> SUFFICES ASSUME ParseInv, Unescape PROVE ParseInv'
  OBVIOUS
<1> DEFINE first == str.first
           end == str.end
           skipped == str.skipped
           in == str.in
<1>1. /\ first \in Nat /\ end \in Nat /\ skipped \in Nat /\ in \in Nat /\ str \in StrType
      /\ str.out \in Text /\ Len(str.out) \in Nat /\ content \in Text /\ Len(content) \in Nat
  BY Here, StrFields
<1>2. /\ parsing = "unescape" /\ in < end /\ first <= end /\ Is(end, Quote) /\ first <= in
      /\ str.room = end - first + 2 - skipped
  BY DEF ParseInv, UnescapeInv, Unescape
<1>3. PICK k : /\ SkipCounts(k, first, end, skipped)
               /\ Len(str.out) + k[IF in <= end THEN in ELSE end] <= in - first
  BY DEF ParseInv, UnescapeInv, Unescape
<1>4. CASE Sequences(in, end) = {}
  <2>1. Fail(in)
    BY <1>4 DEF Unescape
  <2> QED BY <1>1, <2>1, FailInv
<1>5. CASE Sequences(in, end) # {}
  <2>1. PICK s \in Sequences(in, end) :
          /\ str' = [str EXCEPT !.in = in + s[1], !.out = str.out \o s[2]]
          /\ UNCHANGED <<content, requireNull, offset, parsing, value, nest>>
    BY <1>5 DEF Unescape
  <2> HIDE DEF first, end, skipped, in
  <2>2. end < Len(content)
    BY <1>2 DEF Is, Can
  <2>3. Len(str.out) + k[in] <= in - first
    BY <1>1, <1>2, <1>3
  <2> DEFINE n == Len(str.out)
  <2>4. n \in Nat /\ n + k[in] <= in - first
    BY <1>1, <2>3
  <2> HIDE DEF n
  <2>5. /\ s[1] \in Nat /\ s[2] \in Text /\ Len(s[2]) \in Nat
        /\ in + s[1] <= end + 1
        /\ (n + Len(s[2])) + k[IF in + s[1] <= end THEN in + s[1] ELSE end]
             <= (in + s[1]) - first
    BY <1>1, <1>2, <1>3, <2>2, <2>4, StillFits
  <2> DEFINE next == in + s[1]
             out == str.out \o s[2]
  <2>6. out \in Text /\ Len(out) = n + Len(s[2])
    BY <1>1, <2>5, ConcatProperties DEF Text, n
  <2>7. next \in Nat /\ first <= next
    BY <1>1, <1>2, <2>5
  <2> HIDE DEF next, out
  <2>8. str' = [str EXCEPT !.in = next, !.out = out]
    BY <2>1 DEF next, out
  <2>9. /\ str' \in StrType /\ str'.first = first /\ str'.end = end /\ str'.skipped = skipped
        /\ str'.in = next /\ str'.out = out /\ str'.room = str.room
    <3>1. str \in StrType /\ first = str.first /\ end = str.end /\ skipped = str.skipped
      BY <1>1 DEF first, end, skipped
    <3> QED BY <2>6, <2>7, <2>8, <3>1 DEF StrType
  <2>10. Len(out) + k[IF next <= end THEN next ELSE end] <= next - first
    BY <2>5, <2>6 DEF next
  <2>11. SkipCounts(k, str.first, str.end, str.skipped)'
    <3>1. SkipCounts(k, str'.first, str'.end, str'.skipped)
      BY <1>3, <2>9
    <3> QED BY <2>1, <3>1 DEF SkipCounts
  <2>12. Is(str.end, Quote)'
    BY <1>2, <2>1, <2>9 DEF Is, Can
  <2>13. next <= end + 1
    BY <2>5 DEF next
  <2>14. UnescapeInv'
    BY <1>2, <2>7, <2>9, <2>10, <2>11, <2>12, <2>13 DEF UnescapeInv
  <2>15. TextInv' /\ NestInv' /\ MeasureInv'
    BY <1>2, <2>1 DEF ParseInv, TextInv, NestInv, MeasureInv
  <2> QED BY <2>9, <2>14, <2>15 DEF ParseInv
<1> QED BY <1>4, <1>5

LEMMA UnescapedInv == ParseInv /\ Unescaped => ParseInv'
<1> SUFFICES ASSUME ParseInv, Unescaped PROVE ParseInv'
  OBVIOUS
<1>1. Is(str.end, Quote) /\ str.end \in Nat
  BY Here, StrFields DEF ParseInv, UnescapeInv, Unescaped
<1>2. str.end + 1 \in 0 .. Len(content) - 1
  BY <1>1, Here, NotLast DEF Quote
<1>3. /\ Parsed(String(CString(str.out)), str.end + 1)
      /\ str' = NoString /\ nest' = nest
  BY DEF Unescaped
<1>4. str' \in StrType /\ NestInv'
  BY <1>3, NoStringType DEF ParseInv, NestInv
<1> QED BY <1>2, <1>3, <1>4, ParsedInv

----------------------------------------------------------------------------
\* After an element, a key or a member: what follows is in the text as well.
LEMMA SeparatorInv ==
  ASSUME ParseInv, nest # <<>>, NEW c \in Nat \ {0}, NEW e \in Nat \ {0}, NEW v, NEW x,
         LET next == Skip(offset)
         IN  IF Is(next, c)
             THEN \/ CallValue(Skip(next + 1), Append(Outer, x))
                  \/ CallString(Skip(next + 1), Append(Outer, x))
             ELSE IF Is(next, e) THEN Parsed(v, next + 1) /\ nest' = Outer /\ UNCHANGED str
             ELSE Fail(next)
  PROVE  ParseInv'
<1> DEFINE next == Skip(offset)
<1>1. next \in 0 .. Len(content) - 1
  BY Here, SkipStays
<1> HIDE DEF next
<1>2. next \in Nat
  BY <1>1
<1>3. /\ (\E S : Outer \in Seq(S)) /\ Len(Outer) <= NestingLimit
      /\ (\E S : Append(Outer, x) \in Seq(S)) /\ Len(Append(Outer, x)) <= NestingLimit
  BY Here, NestOuter
<1>4. CASE Is(next, c)
  <2>1. next + 1 \in 0 .. Len(content) - 1
    BY <1>2, <1>4, Here, NotLast
  <2>2. Skip(next + 1) \in 0 .. Len(content) - 1
    BY <2>1, Here, SkipStays
  <2>3. \/ CallValue(Skip(next + 1), Append(Outer, x))
        \/ CallString(Skip(next + 1), Append(Outer, x))
    BY <1>4 DEF next
  <2> QED BY <1>3, <2>2, <2>3, CallInv
<1>5. CASE ~Is(next, c) /\ Is(next, e)
  <2>1. next + 1 \in 0 .. Len(content) - 1
    BY <1>2, <1>5, Here, NotLast
  <2>2. Parsed(v, next + 1) /\ nest' = Outer /\ UNCHANGED str
    BY <1>5 DEF next
  <2>3. str' \in StrType /\ NestInv'
    BY <1>3, <2>2, Here DEF NestInv
  <2> QED BY <2>1, <2>2, <2>3, ParsedInv
<1>6. CASE ~Is(next, c) /\ ~Is(next, e)
  <2>1. Fail(next)
    BY <1>6 DEF next
  <2> QED BY <1>2, <2>1, FailInv
<1> QED BY <1>4, <1>5, <1>6

LEMMA NextElementInv == ParseInv /\ NextElement => ParseInv'
<1> SUFFICES ASSUME ParseInv, NextElement PROVE ParseInv'
  OBVIOUS
<1> DEFINE v == Array(Append(Inner.kids, value))
           x == Call("array", Append(Inner.kids, value), NoName)
<1>1. Comma \in Nat \ {0} /\ RBracket \in Nat \ {0}
  BY DEF Comma, RBracket
<1>2. /\ nest # <<>>
      /\ LET next == Skip(offset)
         IN  IF Is(next, Comma)
             THEN \/ CallValue(Skip(next + 1), Append(Outer, x))
                  \/ CallString(Skip(next + 1), Append(Outer, x))
             ELSE IF Is(next, RBracket) THEN Parsed(v, next + 1) /\ nest' = Outer /\ UNCHANGED str
             ELSE Fail(next)
  BY Zenon DEF NextElement
<1> HIDE DEF v, x
<1> QED BY <1>1, <1>2, SeparatorInv, Zenon

LEMMA NextMemberInv == ParseInv /\ NextMember => ParseInv'
<1> SUFFICES ASSUME ParseInv, NextMember PROVE ParseInv'
  OBVIOUS
<1> DEFINE v == Object(Append(Inner.kids, Named(Inner.key, value)))
           x == Call("object", Append(Inner.kids, Named(Inner.key, value)), NoName)
<1>1. Comma \in Nat \ {0} /\ RBrace \in Nat \ {0}
  BY DEF Comma, RBrace
<1>2. /\ nest # <<>>
      /\ LET next == Skip(offset)
         IN  IF Is(next, Comma)
             THEN \/ CallValue(Skip(next + 1), Append(Outer, x))
                  \/ CallString(Skip(next + 1), Append(Outer, x))
             ELSE IF Is(next, RBrace) THEN Parsed(v, next + 1) /\ nest' = Outer /\ UNCHANGED str
             ELSE Fail(next)
  BY Zenon DEF NextMember
<1> HIDE DEF v, x
<1> QED BY <1>1, <1>2, SeparatorInv, Zenon

LEMMA MemberValueInv == ParseInv /\ MemberValue => ParseInv'
<1> SUFFICES ASSUME ParseInv, MemberValue PROVE ParseInv'
  OBVIOUS
<1> DEFINE colon == Skip(offset)
           x == Call("object", Inner.kids, value.str)
<1>1. Colon \in Nat \ {0}
  BY DEF Colon
<1>2. /\ nest # <<>>
      /\ IF Is(colon, Colon) THEN CallValue(Skip(colon + 1), Append(Outer, x)) ELSE Fail(colon)
  BY Zenon DEF MemberValue
<1>3. colon \in 0 .. Len(content) - 1
  BY Here, SkipStays
<1> HIDE DEF x, colon
<1>4. CASE Is(colon, Colon)
  <2>1. Skip(colon + 1) \in 0 .. Len(content) - 1
    BY <1>1, <1>3, <1>4, Here, NotLast, SkipStays
  <2>2. (\E S : Append(Outer, x) \in Seq(S)) /\ Len(Append(Outer, x)) <= NestingLimit
    BY <1>2, Here, NestOuter
  <2> QED BY <1>2, <1>4, <2>1, <2>2, CallInv
<1>5. CASE ~Is(colon, Colon)
  <2>1. Fail(colon) /\ colon \in Nat
    BY <1>2, <1>3, <1>5
  <2> QED BY <2>1, FailInv
<1> QED BY <1>4, <1>5

LEMMA ParseEndInv == ParseInv /\ ParseEnd => ParseInv'
<1> SUFFICES ASSUME ParseInv, ParseEnd PROVE ParseInv'
  OBVIOUS
<1> DEFINE end == IF requireNull THEN Skip(offset) ELSE offset
<1>1. end \in 0 .. Len(content) - 1
  BY Here, SkipStays
<1>2. IF requireNull /\ ~Is(end, 0) THEN Fail(end)
      ELSE /\ parsing' = "done" /\ offset' = end
           /\ UNCHANGED <<content, requireNull, str, value, nest>>
  BY DEF ParseEnd
<1> HIDE DEF end
<1>3. CASE requireNull /\ ~Is(end, 0)
  <2>1. Fail(end) /\ end \in Nat
    BY <1>1, <1>2, <1>3
  <2> QED BY <2>1, FailInv
<1>4. CASE ~(requireNull /\ ~Is(end, 0))
  <2>1. /\ parsing' = "done" /\ offset' = end
        /\ UNCHANGED <<content, requireNull, str, value, nest>>
    BY <1>2, <1>4
  <2> QED BY <1>1, <2>1 DEF ParseInv, TextInv, NestInv, MeasureInv, UnescapeInv
<1> QED BY <1>3, <1>4

LEMMA ParseCallInv ==
  ASSUME NEW text \in Texts, NEW require \in BOOLEAN, Parse(text, require)
  PROVE  ParseInv'
<1> DEFINE t == Append(text, 0)
           mark == Len(t) > 4 /\ SubSeq(t, 1, 3) = <<239, 187, 191>>
           o == IF mark THEN 3 ELSE 0
<1>1. t \in Text /\ t # <<>> /\ t[Len(t)] = 0 /\ Len(t) \in Nat \ {0}
  <2>1. text \in Seq(1 .. 255)
    BY ParseAssumption
  <2>2. \A c \in 1 .. 255 : c \in Octet
    BY OctetIs
  <2>3. text \in Seq(Octet) /\ 0 \in Octet
    <3>1. 0 \in Octet
      BY OctetIs
    <3>2. Len(text) \in Nat /\ text = [i \in 1 .. Len(text) |-> text[i]]
      BY <2>1
    <3>3. \A i \in 1 .. Len(text) : text[i] \in Octet
      <4> DEFINE B == 1 .. 255
      <4>1. text \in Seq(B) /\ \A c \in B : c \in Octet
        BY <2>1, <2>2
      <4> HIDE DEF B
      <4> QED BY <4>1
    <3> QED BY <3>1, <3>2, <3>3
  <2>4. Append(text, 0) \in Seq(Octet) /\ Len(Append(text, 0)) = Len(text) + 1 /\ Len(text) \in Nat
    BY <2>3
  <2>5. Append(text, 0)[Len(text) + 1] = 0
    BY <2>3
  <2> QED BY <2>4, <2>5 DEF Text
<1>2. /\ content' = t /\ requireNull' = require /\ offset' = SkipIn(t, o)
      /\ parsing' = "value" /\ str' = NoString /\ nest' = <<>>
  BY DEF Parse
<1> HIDE DEF t
<1>3. o \in 0 .. Len(t) - 1
  <2>1. mark => Len(t) > 4
    OBVIOUS
  <2> HIDE DEF mark
  <2> QED BY <1>1, <2>1
<1> HIDE DEF o
<1>4. SkipIn(t, o) \in 0 .. Len(t) - 1
  <2>1. SkipIn(t, o) \in o .. Len(t) - 1
    BY <1>1, <1>3, SkipInside
  <2> QED BY <1>1, <1>3, <2>1
<1>5. TextInv'
  BY <1>1, <1>2, <1>4 DEF TextInv
<1>6. NestInv'
  BY <1>2, EmptyNest DEF NestInv
<1> QED BY <1>2, <1>5, <1>6, NoStringType DEF ParseInv, MeasureInv, UnescapeInv

LEMMA ParseInitInv == ParseInit => ParseInv
<1> SUFFICES ASSUME ParseInit PROVE ParseInv
  OBVIOUS
<1>1. <<0>> \in Text /\ Len(<<0>>) = 1 /\ <<0>>[1] = 0
  <2>1. 0 \in Octet
    BY OctetIs
  <2> QED BY <2>1 DEF Text
<1>2. TextInv
  <2>1. content \in Text /\ Len(content) = 1 /\ content # <<>> /\ content[Len(content)] = 0
    BY <1>1 DEF ParseInit
  <2>2. offset \in 0 .. Len(content) - 1
    BY <2>1 DEF ParseInit
  <2> QED BY <2>1, <2>2 DEF ParseInit, TextInv
<1>3. NestInv
  BY EmptyNest DEF ParseInit, NestInv
<1> QED BY <1>2, <1>3, NoStringType DEF ParseInit, ParseInv, MeasureInv, UnescapeInv

LEMMA ParseInvCorrect == ParseSpec => []ParseInv
<1>1. ParseInit => ParseInv
  BY ParseInitInv
<1>2. ParseInv /\ [ParseNext]_parseVars => ParseInv'
  <2> SUFFICES ASSUME ParseInv, [ParseNext]_parseVars PROVE ParseInv'
    OBVIOUS
  <2>1. CASE UNCHANGED parseVars
    <3>1. UNCHANGED <<content, requireNull, offset, parsing, str, nest>>
      BY <2>1 DEF parseVars
    <3>2. TextInv' /\ NestInv' /\ str' \in StrType
      BY <3>1 DEF ParseInv, TextInv, NestInv
    <3>3. MeasureInv'
      BY <3>1 DEF ParseInv, MeasureInv, SkipCounts
    <3>4. UnescapeInv'
      BY <3>1 DEF ParseInv, UnescapeInv, SkipCounts, Is, Can
    <3> QED BY <3>2, <3>3, <3>4 DEF ParseInv
  <2>2. ASSUME NEW text \in Texts, NEW require \in BOOLEAN, Parse(text, require)
        PROVE  ParseInv'
    BY <2>2, ParseCallInv
  <2>3. CASE ParseStep
    BY <2>3, ParseLiteralInv, StringBeginsInv, ParseNumberInv, ParseArrayInv, ParseObjectInv,
       NoValueInv, ParseStringInv, MeasureStepInv, MeasuredInv, UnescapeStepInv, UnescapedInv,
       NextElementInv, MemberValueInv, NextMemberInv, ParseEndInv DEF ParseStep
  <2> QED BY <2>1, <2>2, <2>3 DEF ParseNext
<1> QED BY <1>1, <1>2, PTL DEF ParseSpec

\* The parser keeps to the types of its state, and the nesting to its limit.
THEOREM ParseTypeCorrect == ParseSpec => []ParseTypeOK
<1>1. ParseInv => ParseTypeOK
  <2> SUFFICES ASSUME ParseInv PROVE ParseTypeOK
    OBVIOUS
  <2>1. Len(nest) \in 0 .. NestingLimit
    <3>1. PICK S : nest \in Seq(S)
      BY DEF ParseInv, NestInv
    <3> QED BY <3>1, ParseAssumption DEF ParseInv, NestInv
  <2>2. content \in Seq(Octet) /\ content # <<>>
    BY DEF ParseInv, TextInv, Text
  <2>3. offset \in Nat
    BY Here
  <2>4. str \in [first : Nat, in : Nat, skipped : Nat, end : Nat, room : Int, out : Seq(Octet)]
    BY DEF ParseInv, StrType, Text
  <2>5. requireNull \in BOOLEAN
        /\ parsing \in {"idle", "value", "string", "measure", "unescape", "parsed", "done"}
    BY DEF ParseInv, TextInv
  <2> QED BY <2>1, <2>2, <2>3, <2>4, <2>5, Zenon DEF ParseTypeOK, Octet
<1> QED BY <1>1, ParseInvCorrect, PTL

(***************************************************************************)
(* Whatever text is parsed and however it escapes what is in its strings:  *)
(* the parser reads no byte behind the byte 0, and writes no string beyond *)
(* the memory that parse_string has taken after its first loop.            *)
(***************************************************************************)
THEOREM ReadsCorrect == ParseSpec => []ReadsStayInside
<1>1. ParseInv => ReadsStayInside
  <2> SUFFICES ASSUME ParseInv PROVE ReadsStayInside
    OBVIOUS
  <2>1. Can(offset) /\ offset \in 0 .. Len(content) - 1
    BY Here DEF Can
  <2>2. ASSUME parsing = "unescape"
        PROVE  str.in <= str.end + 1 /\ Can(str.end) /\ Len(str.out) < str.room
    <3> DEFINE first == str.first
               end == str.end
               skipped == str.skipped
               in == str.in
               n == Len(str.out)
    <3>1. /\ first \in Nat /\ end \in Nat /\ skipped \in Nat /\ in \in Nat /\ n \in Nat
      BY Here, StrFields
    <3>2. /\ first <= end /\ Is(end, Quote) /\ first <= in /\ in <= end + 1
          /\ str.room = end - first + 2 - skipped
      BY <2>2 DEF ParseInv, UnescapeInv
    <3>3. PICK k : /\ SkipCounts(k, first, end, skipped)
                   /\ n + k[IF in <= end THEN in ELSE end] <= in - first
      BY <2>2 DEF ParseInv, UnescapeInv
    <3> HIDE DEF first, end, skipped, in, n
    <3>4. k[end] = skipped /\ k[in] \in Nat
      BY <3>1, <3>3 DEF SkipCounts
    <3>5. CASE in <= end
      <4>1. k[end] <= k[in] + (end - in)
        BY <3>1, <3>2, <3>3, <3>5 DEF SkipCounts
      <4>2. n + k[in] <= in - first
        BY <3>3, <3>5
      <4>3. n < end - first + 2 - skipped
        BY <3>1, <3>4, <4>1, <4>2
      <4> QED BY <3>2, <4>3 DEF first, end, skipped, in, n, Is
    <3>6. CASE in > end
      <4>1. n + k[end] <= in - first
        BY <3>1, <3>3, <3>6
      <4>2. n < end - first + 2 - skipped
        BY <3>1, <3>2, <3>4, <4>1
      <4> QED BY <3>2, <4>2 DEF first, end, skipped, in, n, Is
    <3> QED BY <3>1, <3>5, <3>6
  <2> QED BY <2>1, <2>2 DEF ReadsStayInside
<1> QED BY <1>1, ParseInvCorrect, PTL

----------------------------------------------------------------------------
(* The printers.                                                           *)

\* What a byte is printed as.
LEMMA EscapedByteType ==
  ASSUME NEW c \in Byte
  PROVE  /\ EscapedByte(c) \in Seq(Byte)
         /\ ExtraBytes(c) \in Nat
         /\ Len(EscapedByte(c)) = 1 + ExtraBytes(c)
<1>1. CASE \E e \in Escapes : e[2] = c
  <2> DEFINE e == CHOOSE e \in Escapes : e[2] = c
  <2>1. e \in Escapes
    BY <1>1
  <2>2. e[1] \in Byte
    <3> HIDE DEF e
    <3> QED BY <2>1 DEF Escapes, Byte, LF, Tab, Quote, Backslash
  <2>3. EscapedByte(c) = <<Backslash, e[1]>>
    BY <1>1 DEF EscapedByte
  <2>4. ExtraBytes(c) = 1
    BY <1>1 DEF ExtraBytes
  <2> HIDE DEF e
  <2> QED BY <2>2, <2>3, <2>4 DEF Byte, Backslash
<1>2. CASE ~(\E e \in Escapes : e[2] = c) /\ c < 32
  <2>1. EscapedByte(c) = <<Backslash, 117, 48, 48, Hex(c \div 16), Hex(c % 16)>>
    BY <1>2 DEF EscapedByte
  <2>2. c \div 16 \in 0 .. 15 /\ c % 16 \in 0 .. 15
    BY <1>2 DEF Byte
  <2>3. Hex(c \div 16) \in Byte /\ Hex(c % 16) \in Byte
    BY <2>2 DEF Hex, Byte
  <2>4. ExtraBytes(c) = 5
    BY <1>2 DEF ExtraBytes
  <2> QED BY <2>1, <2>3, <2>4 DEF Byte, Backslash
<1>3. CASE ~(\E e \in Escapes : e[2] = c) /\ ~(c < 32)
  BY <1>3 DEF EscapedByte, ExtraBytes, Byte
<1> QED BY <1>1, <1>2, <1>3

\* f is defined by recursion along s, from a on: h says what s[n] makes of f[n - 1].
Along(f, s, a, h) == f = [n \in 0 .. Len(s) |-> IF n = 0 THEN a ELSE h[<<f[n - 1], s[n]>>]]

LEMMA RecursionAlong ==
  ASSUME NEW S, NEW T, NEW a \in S, NEW s \in Seq(T), NEW h \in [S \X T -> S]
  PROVE  \E f \in [0 .. Len(s) -> S] : Along(f, s, a, h)
<1> DEFINE g == [x \in S \X Nat |-> IF x[2] \in 1 .. Len(s) THEN h[<<x[1], s[x[2]]>>] ELSE x[1]]
<1>1. \A n \in 1 .. Len(s) : s[n] \in T
  OBVIOUS
<1>2. g \in [S \X Nat -> S]
  BY <1>1
<1>3. PICK F \in [Nat -> S] : Iterates(F, a, g)
  <2> HIDE DEF g
  <2> QED BY <1>2, Recursion
<1>4. F[0] = a /\ \A n \in Nat : F[n + 1] = g[<<F[n], n + 1>>]
  BY <1>3 DEF Iterates
<1>5. Len(s) \in Nat
  OBVIOUS
<1> DEFINE f == [n \in 0 .. Len(s) |-> F[n]]
<1>6. f \in [0 .. Len(s) -> S]
  BY <1>5
<1>7. ASSUME NEW n \in 0 .. Len(s)
      PROVE  f[n] = IF n = 0 THEN a ELSE h[<<f[n - 1], s[n]>>]
  <2>1. CASE n = 0
    BY <1>4, <2>1
  <2>2. CASE n # 0
    <3>1. n - 1 \in Nat /\ n - 1 \in 0 .. Len(s) /\ (n - 1) + 1 = n /\ n \in 1 .. Len(s) /\ n \in Nat
      BY <1>5, <2>2
    <3>2. F[n] = g[<<F[n - 1], n>>]
      <4> HIDE DEF g
      <4> QED BY <1>4, <3>1
    <3>3. g[<<F[n - 1], n>>] = h[<<F[n - 1], s[n]>>]
      BY <3>1
    <3> QED BY <2>2, <3>1, <3>2, <3>3
  <2> QED BY <2>1, <2>2
<1>8. f = [n \in 0 .. Len(s) |-> IF n = 0 THEN a ELSE h[<<f[n - 1], s[n]>>]]
  <2>1. f = [n \in 0 .. Len(s) |-> f[n]]
    OBVIOUS
  <2> HIDE DEF f
  <2> QED BY <1>7, <2>1
<1> HIDE DEF f
<1> QED BY <1>6, <1>8 DEF Along

\* The first loop of print_string_ptr makes room for what the second one writes.
LEMMA EscapedLength ==
  ASSUME NEW s \in Seq(Byte)
  PROVE  /\ Escaped(s) \in Seq(Byte)
         /\ EscapeCharacters(s) \in Nat
         /\ Len(Escaped(s)) = Len(s) + EscapeCharacters(s)
<1> DEFINE h == [x \in Nat \X Byte |-> x[1] + ExtraBytes(x[2])]
           w == [x \in Seq(Byte) \X Byte |-> x[1] \o EscapedByte(x[2])]
           count == CHOOSE f : f = [n \in 0 .. Len(s) |->
                      IF n = 0 THEN 0 ELSE f[n - 1] + ExtraBytes(s[n])]
           text == CHOOSE f : f = [n \in 0 .. Len(s) |->
                      IF n = 0 THEN <<>> ELSE f[n - 1] \o EscapedByte(s[n])]
<1>1. EscapeCharacters(s) = count[Len(s)] /\ Escaped(s) = text[Len(s)]
  BY Zenon DEF EscapeCharacters, Escaped
<1>2. h \in [Nat \X Byte -> Nat]
  <2>1. ASSUME NEW x \in Nat \X Byte PROVE x[1] + ExtraBytes(x[2]) \in Nat
    <3>1. x[1] \in Nat /\ x[2] \in Byte
      OBVIOUS
    <3>2. ExtraBytes(x[2]) \in Nat
      BY <3>1, EscapedByteType
    <3> QED BY <3>1, <3>2
  <2> QED BY <2>1
<1>3. w \in [Seq(Byte) \X Byte -> Seq(Byte)]
  <2>1. ASSUME NEW x \in Seq(Byte) \X Byte PROVE x[1] \o EscapedByte(x[2]) \in Seq(Byte)
    <3>1. x[1] \in Seq(Byte) /\ x[2] \in Byte
      OBVIOUS
    <3>2. EscapedByte(x[2]) \in Seq(Byte)
      BY <3>1, EscapedByteType
    <3> QED BY <3>1, <3>2, ConcatProperties
  <2> QED BY <2>1
<1>4. Len(s) \in Nat /\ \A n \in 1 .. Len(s) : s[n] \in Byte
  OBVIOUS
<1>5. /\ count \in [0 .. Len(s) -> Nat]
      /\ count = [n \in 0 .. Len(s) |-> IF n = 0 THEN 0 ELSE count[n - 1] + ExtraBytes(s[n])]
  <2>1. PICK f \in [0 .. Len(s) -> Nat] : Along(f, s, 0, h)
    <3> HIDE DEF h
    <3> QED BY <1>2, RecursionAlong
  <2>2. f = [n \in 0 .. Len(s) |-> IF n = 0 THEN 0 ELSE f[n - 1] + ExtraBytes(s[n])]
    <3>1. ASSUME NEW n \in 0 .. Len(s), n # 0
          PROVE  h[<<f[n - 1], s[n]>>] = f[n - 1] + ExtraBytes(s[n])
      <4>1. n - 1 \in 0 .. Len(s) /\ n \in 1 .. Len(s)
        BY <1>4, <3>1
      <4>2. f[n - 1] \in Nat /\ s[n] \in Byte
        BY <1>4, <4>1
      <4> QED BY <4>2
    <3>2. \A n \in 0 .. Len(s) : f[n] = IF n = 0 THEN 0 ELSE h[<<f[n - 1], s[n]>>]
      <4> HIDE DEF h
      <4> QED BY <2>1 DEF Along
    <3>3. \A n \in 0 .. Len(s) : f[n] = IF n = 0 THEN 0 ELSE f[n - 1] + ExtraBytes(s[n])
      <4> HIDE DEF h
      <4> QED BY <3>1, <3>2
    <3> QED BY <3>3
  <2>3. count = [n \in 0 .. Len(s) |-> IF n = 0 THEN 0 ELSE count[n - 1] + ExtraBytes(s[n])]
    BY <2>2, Zenon
  <2> HIDE DEF count
  <2> DEFINE G == {n \in Nat : n \in 0 .. Len(s) => count[n] \in Nat}
  <2>4. 0 \in G
    <3>1. 0 \in 0 .. Len(s)
      BY <1>4
    <3> QED BY <2>3, <3>1
  <2>5. ASSUME NEW n \in Nat, n \in G PROVE n + 1 \in G
    <3> SUFFICES ASSUME n + 1 \in 0 .. Len(s) PROVE count[n + 1] \in Nat
      OBVIOUS
    <3>1. n \in 0 .. Len(s) /\ (n + 1) - 1 = n /\ n + 1 # 0 /\ n + 1 \in 1 .. Len(s)
      BY <1>4
    <3>2. count[n + 1] = count[n] + ExtraBytes(s[n + 1])
      BY <2>3, <3>1
    <3>3. ExtraBytes(s[n + 1]) \in Nat
      BY <1>4, <3>1, EscapedByteType
    <3>4. count[n] \in Nat
      BY <2>5, <3>1
    <3> QED BY <3>2, <3>3, <3>4
  <2>6. Nat \subseteq G
    <3> HIDE DEF G
    <3> QED BY <2>4, <2>5, Induction
  <2>7. \A n \in 0 .. Len(s) : count[n] \in Nat
    BY <2>6
  <2>8. count = [n \in 0 .. Len(s) |-> count[n]]
    BY <2>3
  <2> QED BY <2>3, <2>7, <2>8
<1>6. text = [n \in 0 .. Len(s) |-> IF n = 0 THEN <<>> ELSE text[n - 1] \o EscapedByte(s[n])]
  <2>1. PICK f \in [0 .. Len(s) -> Seq(Byte)] : Along(f, s, <<>>, w)
    <3> HIDE DEF w
    <3>1. <<>> \in Seq(Byte)
      OBVIOUS
    <3> QED BY <1>3, <3>1, RecursionAlong
  <2>2. f = [n \in 0 .. Len(s) |-> IF n = 0 THEN <<>> ELSE f[n - 1] \o EscapedByte(s[n])]
    <3>1. ASSUME NEW n \in 0 .. Len(s), n # 0
          PROVE  w[<<f[n - 1], s[n]>>] = f[n - 1] \o EscapedByte(s[n])
      <4>1. n - 1 \in 0 .. Len(s) /\ n \in 1 .. Len(s)
        BY <1>4, <3>1
      <4>2. f[n - 1] \in Seq(Byte) /\ s[n] \in Byte
        BY <1>4, <4>1
      <4> QED BY <4>2
    <3>2. \A n \in 0 .. Len(s) : f[n] = IF n = 0 THEN <<>> ELSE w[<<f[n - 1], s[n]>>]
      <4> HIDE DEF w
      <4> QED BY <2>1 DEF Along
    <3>3. \A n \in 0 .. Len(s) : f[n] = IF n = 0 THEN <<>> ELSE f[n - 1] \o EscapedByte(s[n])
      <4> HIDE DEF w
      <4> QED BY <3>1, <3>2
    <3> QED BY <3>3
  <2> QED BY <2>2, Zenon
<1> HIDE DEF count, text, h, w
<1> DEFINE G == {n \in Nat : n \in 0 .. Len(s) => text[n] \in Seq(Byte) /\ Len(text[n]) = n + count[n]}
<1>7. 0 \in G
  <2>1. 0 \in 0 .. Len(s)
    BY <1>4
  <2>2. text[0] = <<>> /\ count[0] = 0
    BY <1>5, <1>6, <2>1
  <2>3. <<>> \in Seq(Byte) /\ Len(<<>>) = 0
    OBVIOUS
  <2>4. text[0] \in Seq(Byte) /\ Len(text[0]) = 0
    BY <2>2, <2>3
  <2>5. text[0] \in Seq(Byte) /\ Len(text[0]) = 0 + count[0]
    BY <2>2, <2>4
  <2> QED BY <2>5
<1>8. ASSUME NEW n \in Nat, n \in G PROVE n + 1 \in G
  <2> SUFFICES ASSUME n + 1 \in 0 .. Len(s)
               PROVE  text[n + 1] \in Seq(Byte) /\ Len(text[n + 1]) = (n + 1) + count[n + 1]
    OBVIOUS
  <2>1. n \in 0 .. Len(s) /\ (n + 1) - 1 = n /\ n + 1 # 0 /\ n + 1 \in 1 .. Len(s)
    BY <1>4
  <2>2. text[n + 1] = text[n] \o EscapedByte(s[n + 1])
    BY <1>6, <2>1
  <2>3. count[n + 1] = count[n] + ExtraBytes(s[n + 1])
    BY <1>5, <2>1
  <2>4. text[n] \in Seq(Byte) /\ Len(text[n]) = n + count[n]
    BY <1>8, <2>1
  <2>5. /\ EscapedByte(s[n + 1]) \in Seq(Byte) /\ ExtraBytes(s[n + 1]) \in Nat
        /\ Len(EscapedByte(s[n + 1])) = 1 + ExtraBytes(s[n + 1])
    BY <1>4, <2>1, EscapedByteType
  <2>6. count[n] \in Nat
    BY <1>5, <2>1
  <2> DEFINE x == text[n]
             y == EscapedByte(s[n + 1])
  <2>7. x \o y \in Seq(Byte) /\ Len(x \o y) = Len(x) + Len(y)
    <3>1. x \in Seq(Byte) /\ y \in Seq(Byte)
      BY <2>4, <2>5
    <3> HIDE DEF x, y
    <3> QED BY <3>1, ConcatProperties
  <2>8. text[n + 1] \in Seq(Byte)
    BY <2>2, <2>7
  <2>9. Len(text[n + 1]) = Len(x) + Len(y)
    BY <2>2, <2>7
  <2>10. Len(x) = n + count[n] /\ Len(y) = 1 + ExtraBytes(s[n + 1])
    BY <2>4, <2>5
  <2> HIDE DEF x, y
  <2> DEFINE e == ExtraBytes(s[n + 1])
             k == count[n]
  <2>11. e \in Nat /\ k \in Nat /\ count[n + 1] = k + e
    BY <2>3, <2>5, <2>6
  <2>12. Len(text[n + 1]) = (n + k) + (1 + e)
    BY <2>9, <2>10
  <2> HIDE DEF e, k
  <2>13. (n + k) + (1 + e) = (n + 1) + (k + e)
    BY <2>11
  <2>14. Len(text[n + 1]) = (n + 1) + count[n + 1]
    BY <2>11, <2>12, <2>13
  <2> QED BY <2>8, <2>14
<1>9. Nat \subseteq G
  <2> HIDE DEF G
  <2> QED BY <1>7, <1>8, Induction
<1>10. Len(s) \in 0 .. Len(s)
  BY <1>4
<1>11. text[Len(s)] \in Seq(Byte) /\ Len(text[Len(s)]) = Len(s) + count[Len(s)]
  BY <1>4, <1>9, <1>10
<1>12. count[Len(s)] \in Nat
  BY <1>5, <1>10
<1> QED BY <1>1, <1>11, <1>12

LEMMA DecimalType ==
  ASSUME NEW n \in Int
  PROVE  Decimal(n) \in Seq(Byte)
<1> DEFINE m == IF n < 0 THEN -n ELSE n
           S == {k \in 2 .. 10 : m >= Powers[k]}
           count == 1 + Cardinality(S)
           digits == [p \in 1 .. count |-> 48 + ((m \div Powers[count - p + 1]) % 10)]
           sign == IF n < 0 THEN <<Minus>> ELSE <<>>
<1>1. count \in 1 .. 10
  <2>1. IsFiniteSet(2 .. 10) /\ Cardinality(2 .. 10) = 9
    <3>1. \A a, b \in Int : /\ IsFiniteSet(a .. b)
                            /\ Cardinality(a .. b) = IF a > b THEN 0 ELSE b - a + 1
      BY FS_Interval
    <3>2. 2 \in Int /\ 10 \in Int
      OBVIOUS
    <3>3. /\ IsFiniteSet(2 .. 10)
          /\ Cardinality(2 .. 10) = IF 2 > 10 THEN 0 ELSE 10 - 2 + 1
      BY <3>1, <3>2, Zenon
    <3> DEFINE c == Cardinality(2 .. 10)
    <3>4. c = IF 2 > 10 THEN 0 ELSE 10 - 2 + 1
      BY <3>3
    <3> HIDE DEF c
    <3>5. c = 9
      BY <3>4
    <3> QED BY <3>3, <3>5 DEF c
  <2>2. S \subseteq 2 .. 10
    OBVIOUS
  <2> HIDE DEF S
  <2>3. IsFiniteSet(S) /\ Cardinality(S) <= 9
    BY <2>1, <2>2, FS_Subset
  <2>4. Cardinality(S) \in Nat
    BY <2>3, FS_CardinalityType
  <2> QED BY <2>3, <2>4
<1>2. m \in Nat
  OBVIOUS
<1> HIDE DEF count, m
<1>3. \A k \in 1 .. 10 : Powers[k] \in Nat \ {0}
  <2>1. ASSUME NEW k \in 1 .. 10 PROVE Powers[k] \in Nat \ {0}
    <3>1. k \in {1, 2, 3, 4, 5, 6, 7, 8, 9, 10}
      OBVIOUS
    <3> QED BY <3>1 DEF Powers
  <2> QED BY <2>1
<1>4. ASSUME NEW p \in 1 .. count
      PROVE  48 + ((m \div Powers[count - p + 1]) % 10) \in Byte
  <2>1. count - p + 1 \in 1 .. 10
    BY <1>1
  <2>2. Powers[count - p + 1] \in Nat \ {0}
    BY <1>3, <2>1
  <2> DEFINE d == Powers[count - p + 1]
  <2> HIDE DEF d
  <2>3. m \div d \in Int
    BY <1>2, <2>2 DEF d
  <2>4. (m \div d) % 10 \in 0 .. 9
    BY <2>3
  <2>5. 48 + ((m \div d) % 10) \in Byte
    BY <2>4 DEF Byte
  <2> QED BY <2>5 DEF d
<1>5. digits \in Seq(Byte)
  BY <1>1, <1>4
<1>6. sign \in Seq(Byte)
  <2>1. <<Minus>> \in Seq(Byte) /\ <<>> \in Seq(Byte)
    BY DEF Minus, Byte
  <2> QED BY <2>1
<1>7. Decimal(n) = sign \o digits
  BY DEF Decimal, count, m
<1> HIDE DEF sign, digits
<1> QED BY <1>5, <1>6, <1>7, ConcatProperties

\* Room is made for all of a piece, and for no more than one byte in excess.
Snug(p) ==
  /\ p.s \in Seq(Byte) /\ p.n \in Nat /\ p.written \in Nat
  /\ Len(p.s) <= p.n /\ p.n <= Len(p.s) + 1
  /\ p.written <= p.n + 1

LEMMA SnugString ==
  ASSUME NEW s \in Seq(Byte) \cup {NoName}
  PROVE  Snug(StringPiece(s))
<1>0. <<Quote>> \in Seq(Byte) /\ <<Quote, Quote>> \in Seq(Byte)
      /\ Len(<<Quote>>) = 1 /\ Len(<<Quote, Quote>>) = 2
  BY DEF Quote, Byte
<1>1. CASE s = NoName
  BY <1>0, <1>1 DEF StringPiece, Piece, Snug
<1>2. CASE s # NoName
  <2> DEFINE e == Escaped(s)
             text == <<Quote>> \o e \o <<Quote>>
  <2>1. s \in Seq(Byte) /\ Len(s) \in Nat
    BY <1>2
  <2>2. e \in Seq(Byte) /\ EscapeCharacters(s) \in Nat /\ Len(e) = Len(s) + EscapeCharacters(s)
    BY <2>1, EscapedLength
  <2>3. text \in Seq(Byte) /\ Len(text) = Len(e) + 2
    <3> HIDE DEF e
    <3>1. <<Quote>> \o e \in Seq(Byte) /\ Len(<<Quote>> \o e) = 1 + Len(e)
      BY <1>0, <2>2, ConcatProperties
    <3> DEFINE x == <<Quote>> \o e
    <3> HIDE DEF x
    <3>2. x \o <<Quote>> \in Seq(Byte) /\ Len(x \o <<Quote>>) = Len(x) + 1
      BY <1>0, <3>1, ConcatProperties DEF x
    <3> QED BY <2>2, <3>1, <3>2 DEF x
  <2>4. StringPiece(s) = Piece(Len(s) + EscapeCharacters(s) + 3, text, Len(e) + 3)
    BY <1>2 DEF StringPiece
  <2> HIDE DEF e, text
  <2> QED BY <2>1, <2>2, <2>3, <2>4 DEF Piece, Snug
<1> QED BY <1>1, <1>2

\* A piece for which room is made with the end of the string.
LEMMA SnugPlain ==
  ASSUME NEW s \in Seq(Byte)
  PROVE  /\ Snug(Piece(Len(s) + 1, s, Len(s) + 1))
         /\ Snug(Piece(Len(s) + 1, s, Len(s)))
         /\ Snug(Piece(Len(s), s, Len(s)))
BY DEF Piece, Snug

LEMMA SnugScalar ==
  ASSUME NEW v \in Items, v.type \notin {"array", "object"}
  PROVE  Snug(ScalarPiece(v))
<1>1. v.type \in {"null", "false", "true", "number", "string"}
  BY PrintAssumption DEF Printable
<1>2. v.num \in Int /\ v.str \in Seq(Byte)
  BY PrintAssumption
<1>3. CASE v.type = "null"
  <2>1. NullText \in Seq(Byte) /\ Len(NullText) = 4
    BY DEF NullText, Byte
  <2>2. ScalarPiece(v) = Piece(5, NullText, 5)
    BY <1>3 DEF ScalarPiece
  <2>3. Snug(Piece(Len(NullText) + 1, NullText, Len(NullText) + 1))
    BY <2>1, SnugPlain
  <2>4. Len(NullText) + 1 = 5
    BY <2>1
  <2> QED BY <2>2, <2>3, <2>4
<1>4. CASE v.type = "false"
  <2>1. FalseText \in Seq(Byte) /\ Len(FalseText) = 5
    BY DEF FalseText, Byte
  <2>2. ScalarPiece(v) = Piece(6, FalseText, 6)
    BY <1>4 DEF ScalarPiece
  <2>3. Snug(Piece(Len(FalseText) + 1, FalseText, Len(FalseText) + 1))
    BY <2>1, SnugPlain
  <2>4. Len(FalseText) + 1 = 6
    BY <2>1
  <2> QED BY <2>2, <2>3, <2>4
<1>5. CASE v.type = "true"
  <2>1. TrueText \in Seq(Byte) /\ Len(TrueText) = 4
    BY DEF TrueText, Byte
  <2>2. ScalarPiece(v) = Piece(5, TrueText, 5)
    BY <1>5 DEF ScalarPiece
  <2>3. Snug(Piece(Len(TrueText) + 1, TrueText, Len(TrueText) + 1))
    BY <2>1, SnugPlain
  <2>4. Len(TrueText) + 1 = 5
    BY <2>1
  <2> QED BY <2>2, <2>3, <2>4
<1>6. CASE v.type = "number"
  BY <1>2, <1>6, DecimalType, SnugPlain DEF ScalarPiece
<1>7. CASE v.type = "string"
  BY <1>2, <1>7, SnugString DEF ScalarPiece
<1> QED BY <1>1, <1>3, <1>4, <1>5, <1>6, <1>7

BufferType == [ok : BOOLEAN, text : Seq(Byte), cap : 0 .. IntMax, top : 0 .. IntMax]

\* A buffer of n bytes at first, when w should have been printed.
BufferInv(b, kind, w, n) ==
  /\ b \in BufferType
  /\ b.top <= b.cap
  /\ kind = "preallocated" => b.cap = n
  /\ b.ok => b.text = w /\ (Len(w) = 0 \/ Len(w) < b.cap)
  /\ ~b.ok => (IF kind = "preallocated" THEN n ELSE IntMax) < Len(w) + 2

LEMMA WriteInv ==
  ASSUME NEW n \in 0 .. IntMax, NEW w \in Seq(Byte), NEW kind \in Kinds,
         NEW b, BufferInv(b, kind, w, n), NEW p, Snug(p)
  PROVE  BufferInv(Write(b, p, kind), kind, w \o p.s, n)
<1>0. w \o p.s \in Seq(Byte) /\ Len(w \o p.s) = Len(w) + Len(p.s) /\ Len(w) \in Nat /\ Len(p.s) \in Nat
  BY ConcatProperties DEF Snug
<1>00. IntMax \in Nat /\ n \in Nat
  BY PrintAssumption
<1> DEFINE W == w \o p.s
<1>W. W \in Seq(Byte) /\ Len(W) = Len(w) + Len(p.s)
  BY <1>0
<1> HIDE DEF W
<1>1. CASE ~b.ok
  <2>1. Write(b, p, kind) = b
    BY <1>1 DEF Write, Ensure
  <2>2. (IF kind = "preallocated" THEN n ELSE IntMax) < Len(W) + 2
    BY <1>0, <1>00, <1>1, <1>W DEF BufferInv
  <2>3. BufferInv(b, kind, W, n)
    BY <1>1, <2>2 DEF BufferInv
  <2> QED BY <2>1, <2>3 DEF W
<1>2. CASE b.ok
  <2> DEFINE needed == p.n + Len(w) + 1
             c == Ensure(b, p.n, kind)
  <2>1. b.text = w /\ (Len(w) = 0 \/ Len(w) < b.cap) /\ b.cap \in 0 .. IntMax /\ b.top \in 0 .. b.cap
    BY <1>2 DEF BufferInv, BufferType
  <2>2. needed \in Nat /\ needed >= Len(W) + 1 /\ needed <= Len(W) + 2 /\ Len(w) + p.written <= needed
    <3>1. /\ p.n \in Nat /\ p.written \in Nat /\ Len(p.s) <= p.n /\ p.n <= Len(p.s) + 1
          /\ p.written <= p.n + 1
      BY DEF Snug
    <3>2. \A a, c0, lw, ls, lW \in Nat : ls <= a /\ a <= ls + 1 /\ c0 <= a + 1 /\ lW = lw + ls =>
            /\ a + lw + 1 \in Nat /\ a + lw + 1 >= lW + 1 /\ a + lw + 1 <= lW + 2
            /\ lw + c0 <= a + lw + 1
      BY SMTT(30)
    <3>3. Len(W) \in Nat
      BY <1>0, <1>W
    <3> HIDE DEF c
    <3> QED BY <1>0, <1>W, <3>1, <3>2, <3>3
  <2>3. b.cap \notin 1 .. Len(w)
    BY <1>0, <2>1
  <2>4. c = IF needed <= b.cap THEN b
            ELSE IF kind = "preallocated" \/ needed > IntMax THEN [b EXCEPT !.ok = FALSE]
            ELSE [b EXCEPT !.cap = IF needed > IntMax \div 2 THEN IntMax ELSE 2 * needed]
    <3>1. c = IF ~b.ok \/ needed <= b.cap THEN b
              ELSE IF b.cap \in 1 .. Len(w) \/ kind = "preallocated" \/ needed > IntMax
              THEN [b EXCEPT !.ok = FALSE]
              ELSE [b EXCEPT !.cap = IF needed > IntMax \div 2 THEN IntMax ELSE 2 * needed]
      BY <2>1 DEF Ensure
    <3> HIDE DEF c, needed
    <3> QED BY <1>2, <2>3, <3>1
  <2>5. Write(b, p, kind) =
          IF ~c.ok THEN c
          ELSE [c EXCEPT !.text = @ \o p.s,
                         !.top = IF Len(c.text) + p.written > @ THEN Len(c.text) + p.written ELSE @]
    BY DEF Write
  <2> HIDE DEF c, needed
  <2>6. CASE needed > b.cap /\ (kind = "preallocated" \/ needed > IntMax)
    <3>1. c = [b EXCEPT !.ok = FALSE]
      BY <2>1, <2>2, <2>4, <2>6
    <3>2. c \in BufferType /\ ~c.ok /\ c.top = b.top /\ c.cap = b.cap
      BY <1>2, <3>1 DEF BufferInv, BufferType
    <3>3. (IF kind = "preallocated" THEN n ELSE IntMax) < Len(W) + 2
      <4>1. kind = "preallocated" => b.cap = n
        BY DEF BufferInv
      <4>2. Len(W) \in Nat
        BY <1>W
      <4> QED BY <1>00, <2>1, <2>2, <2>6, <4>1, <4>2
    <3>4. BufferInv(c, kind, W, n)
      BY <3>2, <3>3 DEF BufferInv
    <3> QED BY <2>5, <3>2, <3>4 DEF W
  <2>7. CASE needed <= b.cap \/ ~(kind = "preallocated" \/ needed > IntMax)
    <3>1. /\ c \in BufferType /\ c.ok /\ c.text = w /\ c.top = b.top
          /\ needed <= c.cap /\ b.cap <= c.cap
          /\ kind = "preallocated" => c.cap = b.cap
      <4>1. CASE needed <= b.cap
        <5>1. c = b
          BY <2>4, <4>1
        <5> QED BY <1>2, <2>1, <4>1, <5>1 DEF BufferInv, BufferType
      <4>2. CASE ~(needed <= b.cap)
        <5> DEFINE cap == IF needed > IntMax \div 2 THEN IntMax ELSE 2 * needed
        <5>1. c = [b EXCEPT !.cap = cap] /\ kind # "preallocated" /\ needed <= IntMax
          BY <1>00, <2>2, <2>4, <2>7, <4>2
        <5>2. cap \in 0 .. IntMax /\ needed <= cap
          BY <1>00, <2>2, <5>1
        <5> HIDE DEF cap
        <5>3. b.cap <= cap
          BY <2>1, <2>2, <4>2, <5>2
        <5> QED BY <1>2, <2>1, <5>1, <5>2, <5>3 DEF BufferInv, BufferType
      <4> QED BY <4>1, <4>2
    <3> DEFINE top == IF Len(w) + p.written > c.top THEN Len(w) + p.written ELSE c.top
    <3>2. Write(b, p, kind) = [c EXCEPT !.text = W, !.top = top]
      BY <2>5, <3>1 DEF W
    <3>3. top \in 0 .. c.cap /\ c.cap \in 0 .. IntMax /\ top \in 0 .. IntMax
      <4>1. c.top \in 0 .. c.cap /\ c.cap \in 0 .. IntMax
        BY <1>00, <2>1, <3>1 DEF BufferType
      <4>2. Len(w) + p.written \in Nat
        BY <1>0 DEF Snug
      <4>3. Len(w) + p.written <= c.cap
        BY <2>2, <3>1, <4>1, <4>2
      <4>4. top \in 0 .. c.cap
        BY <4>1, <4>2, <4>3
      <4> HIDE DEF top
      <4> QED BY <1>00, <4>1, <4>4
    <3> HIDE DEF top
    <3>4. Len(W) < c.cap
      <4>1. Len(W) \in Nat /\ c.cap \in Int
        BY <1>W, <3>3
      <4> QED BY <2>2, <3>1, <4>1
    <3> DEFINE r == [c EXCEPT !.text = W, !.top = top]
    <3>5. r \in BufferType /\ r.ok /\ r.text = W /\ r.top = top /\ r.cap = c.cap
      BY <1>W, <3>1, <3>3 DEF BufferType
    <3> HIDE DEF r
    <3>6. kind = "preallocated" => r.cap = n
      BY <3>1, <3>5 DEF BufferInv
    <3>7. r.top <= r.cap
      BY <3>3, <3>5
    <3>8. BufferInv(r, kind, W, n)
      BY <3>4, <3>5, <3>6, <3>7 DEF BufferInv
    <3> QED BY <3>2, <3>8 DEF r, W
  <2> QED BY <2>1, <2>2, <2>6, <2>7
<1> QED BY <1>1, <1>2

\* Both buffers are as they should be for the text so far.
BufsInv ==
  /\ size \in 0 .. IntMax
  /\ whole \in Seq(Byte)
  /\ bufs = [k \in Kinds |-> bufs[k]]
  /\ \A k \in Kinds : BufferInv(bufs[k], k, whole, size)

LEMMA EmitInv ==
  ASSUME BufsInv, NEW p, Snug(p), Emit(p), size' = size
  PROVE  BufsInv'
<1>1. size' \in 0 .. IntMax
  BY DEF BufsInv
<1>2. whole' = whole \o p.s /\ whole' \in Seq(Byte)
  <2>1. whole \in Seq(Byte) /\ p.s \in Seq(Byte)
    BY DEF BufsInv, Snug
  <2> QED BY <2>1, ConcatProperties DEF Emit
<1>3. bufs' = [k \in Kinds |-> Write(bufs[k], p, k)]
  BY DEF Emit
<1>4. bufs' = [k \in Kinds |-> bufs'[k]]
  BY <1>3
<1>5. ASSUME NEW k \in Kinds PROVE BufferInv(bufs'[k], k, whole', size')
  <2>1. bufs'[k] = Write(bufs[k], p, k)
    BY <1>3
  <2>2. BufferInv(Write(bufs[k], p, k), k, whole \o p.s, size)
    BY WriteInv DEF BufsInv
  <2> QED BY <1>2, <2>1, <2>2
<1> QED BY <1>1, <1>2, <1>4, <1>5 DEF BufsInv

\* Buffers that nothing has been written to.
LEMMA NewBufs ==
  ASSUME NEW n \in 0 .. IntMax
  PROVE  \A k \in Kinds : BufferInv(Buffer(n), k, <<>>, n)
<1>1. Buffer(n) \in BufferType
  <2>1. <<>> \in Seq(Byte) /\ 0 \in 0 .. IntMax
    BY PrintAssumption
  <2> QED BY <2>1 DEF Buffer, BufferType
<1> QED BY <1>1, PrintAssumption DEF Buffer, BufferInv

Frame == [type : {"array", "object"}, rest : Seq(Items)]

\* Where the printers may be.  An item whose others have been printed is left at
\* once, so only the innermost call has none left, at the beginning of its loop.
ControlInv ==
  /\ format \in BOOLEAN
  /\ printing \in {"idle", "value", "loop", "key", "colon", "printed", "done"}
  /\ current \in Items \cup {Null}
  /\ printing = "value" => current \in Items
  /\ open \in Seq(Frame)
  /\ printing \in {"loop", "key", "colon"} => open # <<>>
  /\ \A i \in 1 .. Len(open) : open[i].rest = <<>> => i = Len(open) /\ printing = "loop"

PrintInv == BufsInv /\ ControlInv

LEMMA TabsType ==
  ASSUME NEW n \in Nat
  PROVE  Tabs(n) \in Seq(Byte) /\ Len(Tabs(n)) = n
BY DEF Tabs, Tab, Byte

\* The innermost call.
LEMMA TopType ==
  ASSUME ControlInv, open # <<>>
  PROVE  /\ Len(open) \in Nat \ {0}
         /\ Top \in Frame
         /\ Top.rest \in Seq(Items) /\ Top.type \in {"array", "object"}
         /\ InArray \/ InObject
         /\ printing # "loop" => Top.rest # <<>>
<1>1. open \in Seq(Frame)
  BY DEF ControlInv
<1>2. Len(open) \in Nat \ {0}
  BY <1>1
<1>3. Top \in Frame
  BY <1>1, <1>2 DEF Top
<1>4. Top.rest \in Seq(Items) /\ Top.type \in {"array", "object"}
  BY <1>3 DEF Frame
<1>5. printing # "loop" => Top.rest # <<>>
  BY <1>2 DEF ControlInv, Top
<1> QED BY <1>2, <1>3, <1>4, <1>5 DEF InArray, InObject

LEMMA HeadTail ==
  ASSUME NEW s \in Seq(Items), s # <<>>
  PROVE  Head(s) \in Items /\ Tail(s) \in Seq(Items)
BY HeadTailProperties

LEMMA PrintInitInv == PrintInit => PrintInv
<1> SUFFICES ASSUME PrintInit PROVE PrintInv
  OBVIOUS
<1>1. 0 \in 0 .. IntMax
  BY PrintAssumption
<1>2. \A k \in Kinds : BufferInv(Buffer(0), k, <<>>, 0)
  BY <1>1, NewBufs
<1>3. BufsInv
  BY <1>1, <1>2 DEF PrintInit, BufsInv
<1>4. ControlInv
  <2>1. open \in Seq(Frame) /\ Len(open) = 0
    BY DEF PrintInit
  <2>2. 1 .. Len(open) = {}
    BY <2>1
  <2> QED BY <2>1, <2>2 DEF PrintInit, ControlInv
<1> QED BY <1>3, <1>4 DEF PrintInv

LEMMA PrintItemInv ==
  ASSUME NEW v \in Items, NEW n \in Sizes, NEW fmt \in BOOLEAN, PrintItem(v, n, fmt)
  PROVE  PrintInv'
<1>1. n \in 0 .. IntMax
  BY PrintAssumption
<1>2. \A k \in Kinds : BufferInv(Buffer(n), k, <<>>, n)
  BY <1>1, NewBufs
<1>3. BufsInv'
  <2>1. bufs' = [k \in Kinds |-> Buffer(n)] /\ size' = n /\ whole' = <<>>
    BY DEF PrintItem
  <2>2. \A k \in Kinds : BufferInv(bufs'[k], k, whole', size')
    BY <1>2, <2>1
  <2>3. bufs' = [k \in Kinds |-> bufs'[k]] /\ whole' \in Seq(Byte)
    BY <2>1
  <2> QED BY <1>1, <2>1, <2>2, <2>3 DEF BufsInv
<1>4. ControlInv'
  BY DEF PrintItem, ControlInv
<1> QED BY <1>3, <1>4 DEF PrintInv

LEMMA PrintScalarInv == PrintInv /\ PrintScalar => PrintInv'
<1> SUFFICES ASSUME PrintInv, PrintScalar PROVE PrintInv'
  OBVIOUS
<1>1. current \in Items /\ current.type \notin {"array", "object"}
  BY DEF PrintInv, ControlInv, PrintScalar
<1>2. BufsInv'
  BY <1>1, SnugScalar, EmitInv DEF PrintInv, PrintScalar
<1>3. ControlInv'
  BY DEF PrintInv, ControlInv, PrintScalar
<1> QED BY <1>2, <1>3 DEF PrintInv

LEMMA PrintOpenInv == PrintInv /\ PrintOpen => PrintInv'
<1> SUFFICES ASSUME PrintInv, PrintOpen PROVE PrintInv'
  OBVIOUS
<1>1. /\ current \in Items /\ current.type \in {"array", "object"}
      /\ current.kids \in Seq(Items)
  <2>1. current \in Items /\ current.type \in {"array", "object"}
    BY DEF PrintInv, ControlInv, PrintOpen
  <2> QED BY <2>1, PrintAssumption
<1>2. BufsInv'
  <2> DEFINE brace == IF format THEN <<LBrace, LF>> ELSE <<LBrace>>
             p == IF current.type = "array" THEN Piece(1, <<LBracket>>, 1)
                  ELSE Piece(Len(brace) + 1, brace, Len(brace))
  <2>0. /\ <<LBrace, LF>> \in Seq(Byte) /\ <<LBrace>> \in Seq(Byte)
        /\ <<LBracket>> \in Seq(Byte) /\ Len(<<LBracket>>) = 1
    BY DEF LBrace, LF, LBracket, Byte
  <2>1. brace \in Seq(Byte) /\ <<LBracket>> \in Seq(Byte) /\ Len(<<LBracket>>) = 1
    BY <2>0
  <2>2. Snug(Piece(1, <<LBracket>>, 1))
    <3>1. Snug(Piece(Len(<<LBracket>>), <<LBracket>>, Len(<<LBracket>>)))
      BY <2>1, SnugPlain
    <3> QED BY <2>1, <3>1
  <2>3. Snug(Piece(Len(brace) + 1, brace, Len(brace)))
    <3> HIDE DEF brace
    <3> QED BY <2>1, SnugPlain
  <2>4. Snug(p)
    <3> HIDE DEF brace
    <3> QED BY <2>2, <2>3
  <2>5. Emit(p) /\ size' = size
    BY DEF PrintOpen
  <2> HIDE DEF p
  <2> QED BY <2>4, <2>5, EmitInv DEF PrintInv
<1>3. ControlInv'
  <2> DEFINE f == [type |-> current.type, rest |-> current.kids]
  <2>1. f \in Frame
    BY <1>1 DEF Frame
  <2>2. /\ open' = Append(open, f) /\ printing' = "loop"
        /\ current' = current /\ format' = format /\ open \in Seq(Frame) /\ printing = "value"
    BY DEF PrintOpen, PrintInv, ControlInv
  <2> HIDE DEF f
  <2>3. /\ open' \in Seq(Frame) /\ Len(open') = Len(open) + 1 /\ Len(open) \in Nat
        /\ \A i \in 1 .. Len(open) : open'[i] = open[i]
    BY <2>1, <2>2
  <2>4. \A i \in 1 .. Len(open') : open'[i].rest = <<>> => i = Len(open')
    BY <2>2, <2>3 DEF PrintInv, ControlInv
  <2>5. open' # <<>>
    BY <2>3
  <2> QED BY <1>1, <2>2, <2>3, <2>4, <2>5 DEF PrintInv, ControlInv
<1> QED BY <1>2, <1>3 DEF PrintInv

LEMMA PrintElementInv == PrintInv /\ PrintElement => PrintInv'
<1> SUFFICES ASSUME PrintInv, PrintElement PROVE PrintInv'
  OBVIOUS
<1>1. BufsInv'
  BY DEF PrintInv, BufsInv, PrintElement
<1>2. open # <<>> /\ Top.rest # <<>>
  BY DEF PrintElement, InArray
<1>3. Head(Top.rest) \in Items
  BY <1>2, TopType, HeadTail DEF PrintInv
<1>4. \A i \in 1 .. Len(open) : open[i].rest # <<>>
  BY <1>2 DEF PrintInv, ControlInv, Top
<1>5. ControlInv'
  BY <1>3, <1>4 DEF PrintInv, ControlInv, PrintElement
<1> QED BY <1>1, <1>5 DEF PrintInv

LEMMA PrintIndentInv == PrintInv /\ PrintIndent => PrintInv'
<1> SUFFICES ASSUME PrintInv, PrintIndent PROVE PrintInv'
  OBVIOUS
<1>1. open # <<>> /\ Top.rest # <<>>
  BY DEF PrintIndent, InObject
<1>2. BufsInv'
  <2>1. CASE format
    <3>1. Level \in Nat
      BY <1>1, TopType DEF PrintInv, Level
    <3>2. Tabs(Level) \in Seq(Byte) /\ Len(Tabs(Level)) = Level
      BY <3>1, TabsType
    <3>3. Snug(Piece(Len(Tabs(Level)), Tabs(Level), Len(Tabs(Level))))
      BY <3>2, SnugPlain
    <3>4. Snug(Piece(Level, Tabs(Level), Level))
      BY <3>2, <3>3
    <3>5. Emit(Piece(Level, Tabs(Level), Level)) /\ size' = size
      BY <2>1 DEF PrintIndent
    <3> QED BY <3>4, <3>5, EmitInv DEF PrintInv
  <2>2. CASE ~format
    BY <2>2 DEF PrintInv, BufsInv, PrintIndent
  <2> QED BY <2>1, <2>2
<1>3. \A i \in 1 .. Len(open) : open[i].rest # <<>>
  BY <1>1 DEF PrintInv, ControlInv, Top
<1>4. ControlInv'
  BY <1>1, <1>3 DEF PrintInv, ControlInv, PrintIndent
<1> QED BY <1>2, <1>4 DEF PrintInv

LEMMA PrintKeyInv == PrintInv /\ PrintKey => PrintInv'
<1> SUFFICES ASSUME PrintInv, PrintKey PROVE PrintInv'
  OBVIOUS
<1>1. open # <<>> /\ printing # "loop"
  BY DEF PrintInv, ControlInv, PrintKey
<1>2. Head(Top.rest) \in Items
  BY <1>1, TopType, HeadTail DEF PrintInv
<1>3. Head(Top.rest).name \in Seq(Byte) \cup {NoName}
  BY <1>2, PrintAssumption
<1>4. BufsInv'
  BY <1>3, SnugString, EmitInv DEF PrintInv, PrintKey
<1>5. ControlInv'
  BY <1>1 DEF PrintInv, ControlInv, PrintKey
<1> QED BY <1>4, <1>5 DEF PrintInv

LEMMA PrintColonInv == PrintInv /\ PrintColon => PrintInv'
<1> SUFFICES ASSUME PrintInv, PrintColon PROVE PrintInv'
  OBVIOUS
<1>1. open # <<>> /\ printing # "loop"
  BY DEF PrintInv, ControlInv, PrintColon
<1>2. Head(Top.rest) \in Items
  BY <1>1, TopType, HeadTail DEF PrintInv
<1>3. BufsInv'
  <2> DEFINE colon == IF format THEN <<Colon, Tab>> ELSE <<Colon>>
  <2>0. <<Colon, Tab>> \in Seq(Byte) /\ <<Colon>> \in Seq(Byte)
    BY DEF Colon, Tab, Byte
  <2>1. colon \in Seq(Byte)
    BY <2>0
  <2>2. Emit(Piece(Len(colon), colon, Len(colon))) /\ size' = size
    BY DEF PrintColon
  <2> HIDE DEF colon
  <2> QED BY <2>1, <2>2, SnugPlain, EmitInv DEF PrintInv
<1>4. ControlInv'
  BY <1>1, <1>2 DEF PrintInv, ControlInv, PrintColon
<1> QED BY <1>3, <1>4 DEF PrintInv

LEMMA PrintCommaInv == PrintInv /\ PrintComma => PrintInv'
<1> SUFFICES ASSUME PrintInv, PrintComma PROVE PrintInv'
  OBVIOUS
<1>1. open # <<>> /\ printing = "printed"
  BY DEF PrintComma
<1>2. /\ Len(open) \in Nat \ {0} /\ Top \in Frame /\ Top.rest \in Seq(Items)
      /\ (InArray \/ InObject) /\ Top.rest # <<>>
  BY <1>1, TopType DEF PrintInv
<1>3. BufsInv'
  <2> DEFINE more == Len(Top.rest) > 1
             comma == (IF more THEN <<Comma>> ELSE <<>>)
                      \o CASE ~format -> <<>>
                           [] format /\ InArray -> IF more THEN <<Space>> ELSE <<>>
                           [] format /\ InObject -> <<LF>>
  <2>1. CASE InArray /\ ~more
    BY <2>1 DEF PrintInv, BufsInv, PrintComma
  <2>2. CASE ~(InArray /\ ~more)
    <3>1. Emit(Piece(Len(comma) + 1, comma, Len(comma) + 1)) /\ size' = size
      BY <2>2 DEF PrintComma
    <3>2. comma \in Seq(Byte)
      <4>1. <<Comma>> \in Seq(Byte) /\ <<>> \in Seq(Byte) /\ <<Space>> \in Seq(Byte) /\ <<LF>> \in Seq(Byte)
        BY DEF Comma, Space, LF, Byte
      <4> DEFINE x == IF more THEN <<Comma>> ELSE <<>>
                 y == CASE ~format -> <<>>
                        [] format /\ InArray -> IF more THEN <<Space>> ELSE <<>>
                        [] format /\ InObject -> <<LF>>
      <4>2. format \in BOOLEAN
        BY DEF PrintInv, ControlInv
      <4>3. x \in Seq(Byte)
        BY <4>1
      <4>4. y \in Seq(Byte)
        <5>1. CASE ~format
          BY <4>1, <5>1
        <5>2. CASE format /\ InArray
          <6>1. ~InObject
            BY <5>2 DEF InArray, InObject
          <6>2. y = IF more THEN <<Space>> ELSE <<>>
            BY <5>2, <6>1
          <6> HIDE DEF more, y
          <6> QED BY <4>1, <6>2
        <5>3. CASE format /\ InObject
          <6>1. ~InArray
            BY <5>3 DEF InArray, InObject
          <6>2. y = <<LF>>
            BY <5>3, <6>1
          <6> HIDE DEF y
          <6> QED BY <4>1, <6>2
        <5> HIDE DEF y
        <5> QED BY <1>2, <4>2, <5>1, <5>2, <5>3
      <4>5. comma = x \o y
        OBVIOUS
      <4> HIDE DEF x, y, comma
      <4> QED BY <4>3, <4>4, <4>5, ConcatProperties
    <3> HIDE DEF comma
    <3> QED BY <3>1, <3>2, SnugPlain, EmitInv DEF PrintInv
  <2> QED BY <2>1, <2>2
<1>4. ControlInv'
  <2> DEFINE f == [Top EXCEPT !.rest = Tail(@)]
  <2>1. f \in Frame
    <3>1. Tail(Top.rest) \in Seq(Items)
      BY <1>2, HeadTail
    <3> QED BY <1>2, <3>1 DEF Frame
  <2>2. open' = [open EXCEPT ![Len(open)] = f]
    BY DEF PrintComma, Top
  <2> HIDE DEF f
  <2>3. open \in Seq(Frame)
    BY DEF PrintInv, ControlInv
  <2>4. /\ open' \in Seq(Frame) /\ Len(open') = Len(open)
        /\ \A i \in 1 .. Len(open) : i # Len(open) => open'[i] = open[i]
    BY <1>2, <2>1, <2>2, <2>3
  <2>5. open' # <<>>
    BY <1>2, <2>4
  <2>6. /\ printing' = "loop" /\ format' = format /\ current' = current
        /\ format \in BOOLEAN /\ current \in Items \cup {Null}
    BY DEF PrintComma, PrintInv, ControlInv
  <2>7. \A i \in 1 .. Len(open') : open'[i].rest = <<>> => i = Len(open')
    BY <1>1, <2>4 DEF PrintInv, ControlInv
  <2> QED BY <2>4, <2>5, <2>6, <2>7 DEF ControlInv
<1> QED BY <1>3, <1>4 DEF PrintInv

LEMMA PrintCloseInv == PrintInv /\ PrintClose => PrintInv'
<1> SUFFICES ASSUME PrintInv, PrintClose PROVE PrintInv'
  OBVIOUS
<1>1. open # <<>> /\ printing = "loop" /\ format \in BOOLEAN
  BY DEF PrintClose, PrintInv, ControlInv
<1>2. Len(open) \in Nat \ {0} /\ (InArray \/ InObject)
  BY <1>1, TopType DEF PrintInv
<1>3. BufsInv'
  <2> DEFINE p == CASE InArray -> Piece(2, <<RBracket>>, 2)
                    [] InObject /\ format ->
                         Piece(Level + 1, Tabs(Level - 1) \o <<RBrace>>, Level + 1)
                    [] InObject /\ ~format -> Piece(2, <<RBrace>>, 2)
  <2>1. Emit(p) /\ size' = size
    BY DEF PrintClose
  <2>0. ~(InArray /\ InObject)
    BY DEF InArray, InObject
  <2>2. /\ <<RBracket>> \in Seq(Byte) /\ Len(<<RBracket>>) = 1
        /\ <<RBrace>> \in Seq(Byte) /\ Len(<<RBrace>>) = 1
    BY DEF RBracket, RBrace, Byte
  <2>3. Snug(Piece(2, <<RBracket>>, 2)) /\ Snug(Piece(2, <<RBrace>>, 2))
    <3>1. /\ Snug(Piece(Len(<<RBracket>>) + 1, <<RBracket>>, Len(<<RBracket>>) + 1))
          /\ Snug(Piece(Len(<<RBrace>>) + 1, <<RBrace>>, Len(<<RBrace>>) + 1))
      BY <2>2, SnugPlain
    <3>2. Len(<<RBracket>>) + 1 = 2 /\ Len(<<RBrace>>) + 1 = 2
      BY <2>2
    <3> QED BY <3>1, <3>2
  <2>4. Snug(Piece(Level + 1, Tabs(Level - 1) \o <<RBrace>>, Level + 1))
    <3>1. Level - 1 \in Nat /\ Level \in Nat
      BY <1>2 DEF Level
    <3>2. Tabs(Level - 1) \in Seq(Byte) /\ Len(Tabs(Level - 1)) = Level - 1
      BY <3>1, TabsType
    <3> DEFINE t == Tabs(Level - 1)
               s == t \o <<RBrace>>
    <3>3. s \in Seq(Byte) /\ Len(s) = Len(t) + Len(<<RBrace>>)
      <4>1. t \in Seq(Byte)
        BY <3>2
      <4> HIDE DEF t
      <4> QED BY <4>1, <2>2, ConcatProperties
    <3>4. Len(s) = Level
      BY <2>2, <3>1, <3>2, <3>3
    <3> HIDE DEF s, t
    <3>5. Snug(Piece(Len(s) + 1, s, Len(s) + 1))
      BY <3>3, SnugPlain
    <3> QED BY <3>4, <3>5 DEF s, t
  <2>5. Snug(p)
    <3>1. CASE InArray
      <4>1. p = Piece(2, <<RBracket>>, 2)
        BY <2>0, <3>1
      <4> QED BY <2>3, <4>1
    <3>2. CASE InObject /\ format
      <4>1. p = Piece(Level + 1, Tabs(Level - 1) \o <<RBrace>>, Level + 1)
        BY <2>0, <3>2
      <4> QED BY <2>4, <4>1
    <3>3. CASE InObject /\ ~format
      <4>1. p = Piece(2, <<RBrace>>, 2)
        BY <2>0, <3>3
      <4> QED BY <2>3, <4>1
    <3> HIDE DEF p
    <3> QED BY <1>2, <3>1, <3>2, <3>3
  <2> HIDE DEF p
  <2> QED BY <2>1, <2>5, EmitInv DEF PrintInv
<1>4. ControlInv'
  <2>1. open \in Seq(Frame)
    BY DEF PrintInv, ControlInv
  <2>2. /\ open' \in Seq(Frame) /\ Len(open') = Len(open) - 1
        /\ \A i \in 1 .. Len(open') : open'[i] = open[i]
    <3>1. open' = SubSeq(open, 1, Len(open) - 1)
      BY DEF PrintClose, Below
    <3> DEFINE n == Len(open) - 1
    <3>2. n \in Nat /\ \A i \in 1 .. n : open[i] \in Frame
      BY <1>2, <2>1
    <3> HIDE DEF n
    <3>3. /\ SubSeq(open, 1, n) \in Seq(Frame)
          /\ Len(SubSeq(open, 1, n)) = IF 1 <= n THEN n - 1 + 1 ELSE 0
          /\ \A i \in 1 .. n - 1 + 1 : SubSeq(open, 1, n)[i] = open[1 + i - 1]
      BY <3>2, SubSeqProperties
    <3>4. open' = SubSeq(open, 1, n)
      BY <3>1 DEF n
    <3>5. Len(open') = n
      BY <3>2, <3>3, <3>4
    <3>6. \A i \in 1 .. n : open'[i] = open[i]
      BY <3>2, <3>3, <3>4
    <3> QED BY <3>3, <3>4, <3>5, <3>6 DEF n
  <2>3. \A i \in 1 .. Len(open') : open'[i].rest # <<>>
    <3>1. \A i \in 1 .. Len(open') : i \in 1 .. Len(open) /\ i # Len(open)
      BY <1>2, <2>2
    <3> QED BY <2>2, <3>1 DEF PrintInv, ControlInv
  <2>4. /\ printing' = "printed" /\ format' = format /\ current' = current
        /\ current \in Items \cup {Null}
    BY DEF PrintClose, PrintInv, ControlInv
  <2> QED BY <1>1, <2>2, <2>3, <2>4 DEF ControlInv
<1> QED BY <1>3, <1>4 DEF PrintInv

LEMMA PrintEndInv == PrintInv /\ PrintEnd => PrintInv'
<1> SUFFICES ASSUME PrintInv, PrintEnd PROVE PrintInv'
  OBVIOUS
<1>1. BufsInv'
  BY DEF PrintInv, BufsInv, PrintEnd
<1>2. ControlInv'
  BY DEF PrintInv, ControlInv, PrintEnd
<1> QED BY <1>1, <1>2 DEF PrintInv

LEMMA PrintInvCorrect == PrintSpec => []PrintInv
<1>1. PrintInit => PrintInv
  BY PrintInitInv
<1>2. PrintInv /\ [PrintNext]_printVars => PrintInv'
  <2> SUFFICES ASSUME PrintInv, [PrintNext]_printVars PROVE PrintInv'
    OBVIOUS
  <2>1. CASE UNCHANGED printVars
    BY <2>1 DEF PrintInv, BufsInv, ControlInv, printVars
  <2>2. ASSUME NEW v \in Items, NEW n \in Sizes, NEW fmt \in BOOLEAN, PrintItem(v, n, fmt)
        PROVE  PrintInv'
    BY <2>2, PrintItemInv
  <2>3. CASE PrintStep
    BY <2>3, PrintScalarInv, PrintOpenInv, PrintElementInv, PrintIndentInv, PrintKeyInv,
       PrintColonInv, PrintCommaInv, PrintCloseInv, PrintEndInv DEF PrintStep
  <2> QED BY <2>1, <2>2, <2>3 DEF PrintNext
<1> QED BY <1>1, <1>2, PTL DEF PrintSpec

\* The printers keep to the types of their state.
THEOREM PrintTypeCorrect == PrintSpec => []PrintTypeOK
<1>1. PrintInv => PrintTypeOK
  BY DEF PrintInv, BufsInv, ControlInv, BufferInv, BufferType, Frame, PrintTypeOK
<1> QED BY <1>1, PrintInvCorrect, PTL

(***************************************************************************)
(* Whatever is printed, into a buffer of any size: cJSON_PrintPreallocated *)
(* and the printers whose buffer grows write nothing behind the end, print *)
(* all of the text or fail, and only fail when the room is short.          *)
(***************************************************************************)
THEOREM PreallocatedCorrect == PrintSpec => []PreallocatedFits
<1>1. PrintInv => PreallocatedFits
  <2> SUFFICES ASSUME PrintInv PROVE PreallocatedFits
    OBVIOUS
  <2>1. "preallocated" \in Kinds /\ "grown" \in Kinds
    BY DEF Kinds
  <2>2. BufferInv(bufs["preallocated"], "preallocated", whole, size)
    BY <2>1 DEF PrintInv, BufsInv
  <2>3. BufferInv(bufs["grown"], "grown", whole, size)
    BY <2>1 DEF PrintInv, BufsInv
  <2>4. Len(whole) \in Nat /\ size \in Int /\ IntMax \in Int
    BY PrintAssumption DEF PrintInv, BufsInv
  <2> QED BY <2>2, <2>3, <2>4 DEF BufferInv, PreallocatedFits
<1> QED BY <1>1, PrintInvCorrect, PTL

----------------------------------------------------------------------------
(* The cpu plugin.                                                         *)

LEMMA ModRange ==
  ASSUME NEW a \in Int, NEW n \in Nat \ {0}
  PROVE  a % n \in 0 .. n - 1
OBVIOUS

LEMMA ModSame ==
  ASSUME NEW n \in Nat, NEW a \in 0 .. n - 1
  PROVE  a % n = a
OBVIOUS

LEMMA Quotient ==
  ASSUME NEW a \in Nat, NEW n \in Nat \ {0}
  PROVE  a \div n \in Nat /\ n * (a \div n) <= a /\ a < n * (a \div n) + n
OBVIOUS

Counts == [own : Nat, total : Nat]

\* A share is one, whatever the counters do.
LEMMA UsageRange ==
  ASSUME JiffiesRange \in Nat \ {0}, NEW b \in Counts, NEW a \in Counts
  PROVE  Usage(b, a) \in 0 .. 100
<1> DEFINE diff == (a.own - b.own) % JiffiesRange
           time == (a.total - b.total) % JiffiesRange
           val == (200 * diff + time) \div (2 * time)
<1>1. diff \in Nat /\ time \in Nat
  <2>1. a.own - b.own \in Int /\ a.total - b.total \in Int
    BY DEF Counts
  <2> QED BY <2>1, ModRange
<1>2. Usage(b, a) = CASE diff = 0 -> 0
                      [] diff # 0 /\ time = 0 -> 100
                      [] OTHER -> IF val > 100 THEN 100 ELSE val
  BY DEF Usage
<1>3. ASSUME time # 0 PROVE val \in Nat
  BY <1>1, <1>3, Quotient
<1> HIDE DEF diff, time, val
<1> QED BY <1>1, <1>2, <1>3

\* Without new jiffies there is no share.
LEMMA UsageOfNothing ==
  ASSUME JiffiesRange \in Nat \ {0}, NEW a \in Counts
  PROVE  Usage(a, a) = 0
<1>1. (a.own - a.own) % JiffiesRange = 0
  BY ModSame DEF Counts
<1> QED BY <1>1 DEF Usage

\* The share of gain in time, to the nearest integer.
Rounded(q, gain, time) ==
  /\ q \in 0 .. 100
  /\ (2 * time) * q <= 200 * gain + time
  /\ 200 * gain + time < (2 * time) * q + 2 * time

\* While the counters go on, a share is that of the gain.
LEMMA UsageIs ==
  ASSUME JiffiesRange \in Nat, NEW b \in Counts, NEW a \in Counts,
         b.own <= a.own, a.own - b.own <= a.total - b.total,
         b.total < a.total, a.total - b.total < JiffiesRange
  PROVE  Rounded(Usage(b, a), a.own - b.own, a.total - b.total)
<1> DEFINE diff == a.own - b.own
           time == a.total - b.total
           val == (200 * diff + time) \div (2 * time)
<1>1. diff \in Nat /\ time \in Nat \ {0} /\ diff <= time
  BY DEF Counts
<1>2. diff % JiffiesRange = diff /\ time % JiffiesRange = time
  BY <1>1, ModSame
<1>3. Usage(b, a) = IF diff = 0 THEN 0 ELSE IF val > 100 THEN 100 ELSE val
  BY <1>1, <1>2 DEF Usage
<1>4. val \in Nat /\ (2 * time) * val <= 200 * diff + time
      /\ 200 * diff + time < (2 * time) * val + 2 * time
  <2> DEFINE n == 200 * diff + time
             m == 2 * time
  <2>1. n \in Nat /\ m \in Nat \ {0}
    BY <1>1
  <2> HIDE DEF diff, time, n, m
  <2>2. n \div m \in Nat /\ m * (n \div m) <= n /\ n < m * (n \div m) + m
    BY <2>1, Quotient
  <2> QED BY <2>2 DEF n, m
<1> HIDE DEF diff, time, val
<1>5. val <= 100
  <2> SUFFICES ASSUME val >= 101 PROVE FALSE
    BY <1>4
  <2>1. (2 * time) * val >= (2 * time) * 101
    BY <1>1, <1>4
  <2> QED BY <1>1, <1>4, <2>1
<1>6. Rounded(Usage(b, a), diff, time)
  <2>1. CASE diff = 0
    BY <1>1, <1>3, <2>1 DEF Rounded
  <2>2. CASE diff # 0
    BY <1>3, <1>4, <1>5, <2>2 DEF Rounded
  <2> QED BY <2>1, <2>2
<1> QED BY <1>6 DEF diff, time

Line == [1 .. 8 -> Nat]

LEMMA JiffiesType ==
  ASSUME NEW line \in Line
  PROVE  /\ Jiffies(line) \in [Stats -> Counts]
         /\ CoreTotalJiffies(line) = Total(line)
         /\ \A s \in Stats : Jiffies(line)[s].total = Total(line)
         /\ Jiffies(line)["idle"].own = line[4]
         /\ Jiffies(line)["user"].own = line[1]
         /\ Jiffies(line)["system"].own = line[3]
         /\ Jiffies(line)["iowait"].own = line[5]
         /\ Total(line) \in Nat
<1>1. \A n \in 1 .. 8 : line[n] \in Nat
  BY DEF Line
<1>2. CoreTotalJiffies(line) = Total(line) /\ Total(line) \in Nat
  BY <1>1 DEF CoreTotalJiffies, NumCpuStates, Total
<1>3. /\ OwnJiffies("idle", line) = line[4]
      /\ OwnJiffies("user", line) = line[1]
      /\ OwnJiffies("system", line) = line[3]
      /\ OwnJiffies("iowait", line) = line[5]
  BY <1>1 DEF OwnJiffies, NumCpuStates
<1>4. Jiffies(line) = [s \in Stats |-> [own |-> OwnJiffies(s, line), total |-> Total(line)]]
  BY <1>2 DEF Jiffies
<1>5. \A s \in Stats : OwnJiffies(s, line) \in Nat
  BY <1>1, <1>3 DEF Stats
<1>6. Jiffies(line) \in [Stats -> Counts]
  BY <1>2, <1>4, <1>5 DEF Counts
<1>7. /\ Jiffies(line)["idle"].own = line[4]
      /\ Jiffies(line)["user"].own = line[1]
      /\ Jiffies(line)["system"].own = line[3]
      /\ Jiffies(line)["iowait"].own = line[5]
  BY <1>3, <1>4 DEF Stats
<1>8. \A s \in Stats : Jiffies(line)[s].total = Total(line)
  BY <1>4
<1> QED BY <1>2, <1>6, <1>7, <1>8

Share == [usage : 0 .. 100, user : 0 .. 100, system : 0 .. 100, iowait : 0 .. 100]

LEMMA SharesType ==
  ASSUME JiffiesRange \in Nat \ {0}, NEW b \in [Stats -> Counts], NEW a \in [Stats -> Counts]
  PROVE  Shares(b, a) \in Share
<1>1. \A s \in Stats : Usage(b[s], a[s]) \in 0 .. 100
  BY UsageRange
<1>2. \A s \in {"idle", "user", "system", "iowait"} : Usage(b[s], a[s]) \in 0 .. 100
  BY <1>1 DEF Stats
<1>3. \A q \in 0 .. 100 : 100 - q \in 0 .. 100
  OBVIOUS
<1> QED BY <1>2, <1>3 DEF Shares, Share

Nobody == [usage |-> 100, user |-> 0, system |-> 0, iowait |-> 0]

LEMMA SharesOfNothing ==
  ASSUME JiffiesRange \in Nat \ {0}, NEW a \in [Stats -> Counts]
  PROVE  Shares(a, a) = Nobody
<1>1. \A s \in Stats : Usage(a[s], a[s]) = 0
  BY UsageOfNothing
<1> QED BY <1>1 DEF Shares, Nobody, Stats

\* What SharesAreOfThePeriod says of a line with the gain g.
OfTheGain(v, g) ==
  /\ Near(v.usage, Total(g) - g[4], Total(g))
  /\ Near(v.user, g[1], Total(g))
  /\ Near(v.iowait, g[5], Total(g))
  /\ v.user + v.system + v.iowait <= v.usage + 2

LEMMA RoundedIsNear ==
  ASSUME NEW time \in Nat, NEW v \in Int, NEW part \in Nat, Rounded(v, part, time)
  PROVE  Near(v, part, time) /\ Near(100 - v, time - part, time)
<1>1. (2 * time) * v <= 200 * part + time /\ 200 * part + time < (2 * time) * v + 2 * time
  BY DEF Rounded
<1>2. /\ time * (2 * v - 1) = (2 * time) * v - time
      /\ time * (2 * v + 1) = (2 * time) * v + time
      /\ time * (2 * (100 - v) - 1) = 200 * time - (2 * time) * v - time
      /\ time * (2 * (100 - v) + 1) = 200 * time - (2 * time) * v + time
  OBVIOUS
<1> DEFINE p == (2 * time) * v
<1>3. p \in Int
  OBVIOUS
<1> HIDE DEF p
<1> QED BY <1>1, <1>2, <1>3 DEF Near, p

\* Four shares of one time, none of which overlap.
LEMMA SumOfShares ==
  ASSUME NEW time \in Nat \ {0},
         NEW i \in Nat, NEW u \in Nat, NEW s \in Nat, NEW w \in Nat, i + u + s + w <= time,
         NEW qi \in Int, NEW qu \in Int, NEW qs \in Int, NEW qw \in Int,
         Rounded(qi, i, time), Rounded(qu, u, time), Rounded(qs, s, time), Rounded(qw, w, time)
  PROVE  qu + qs + qw <= 100 - qi + 2
<1> DEFINE q == qi + qu + qs + qw
<1>1. (2 * time) * q <= 200 * (i + u + s + w) + 4 * time
  BY DEF Rounded
<1>2. (2 * time) * q <= (2 * time) * 102
  BY <1>1
<1>3. q <= 102
  <2> SUFFICES ASSUME q >= 103 PROVE FALSE
    OBVIOUS
  <2>1. q \in Int
    OBVIOUS
  <2> HIDE DEF q
  <2>2. (2 * time) * q >= (2 * time) * 103
    BY <2>1
  <2> QED BY <1>2, <2>2, <2>1
<1> QED BY <1>3

LEMMA SharesOfGain ==
  ASSUME JiffiesRange \in Nat, NEW b \in Line, NEW a \in Line, Total(a) < JiffiesRange,
         Forward(Gain(b, a))
  PROVE  OfTheGain(Shares(Jiffies(b), Jiffies(a)), Gain(b, a))
<1> DEFINE g == Gain(b, a)
           time == Total(g)
<1>1. \A n \in 1 .. 8 : a[n] \in Nat /\ b[n] \in Nat
  BY DEF Line
<1>2. g = [n \in 1 .. 8 |-> a[n] - b[n]]
  BY DEF Gain
<1>3. \A n \in 1 .. 8 : g[n] \in Nat /\ g[n] = a[n] - b[n]
  BY <1>1, <1>2 DEF Forward
<1>4. \E n \in 1 .. 8 : g[n] > 0
  BY DEF Forward
<1> HIDE DEF g
<1>5. time = Total(a) - Total(b) /\ time \in Nat \ {0}
  <2>1. time = Total(a) - Total(b)
    <3>1. /\ g[1] = a[1] - b[1] /\ g[2] = a[2] - b[2] /\ g[3] = a[3] - b[3] /\ g[4] = a[4] - b[4]
          /\ g[5] = a[5] - b[5] /\ g[6] = a[6] - b[6] /\ g[7] = a[7] - b[7] /\ g[8] = a[8] - b[8]
      BY <1>3
    <3>2. /\ a[1] \in Nat /\ a[2] \in Nat /\ a[3] \in Nat /\ a[4] \in Nat
          /\ a[5] \in Nat /\ a[6] \in Nat /\ a[7] \in Nat /\ a[8] \in Nat
          /\ b[1] \in Nat /\ b[2] \in Nat /\ b[3] \in Nat /\ b[4] \in Nat
          /\ b[5] \in Nat /\ b[6] \in Nat /\ b[7] \in Nat /\ b[8] \in Nat
      BY <1>1
    <3> QED BY <3>1, <3>2 DEF Total
  <2>2. time >= 0 /\ \A n \in 1 .. 8 : g[n] <= time
    BY <1>3 DEF Total
  <2>3. time \in Int
    BY <1>3 DEF Total
  <2> HIDE DEF time
  <2> QED BY <2>1, <2>2, <2>3, <1>3, <1>4
<1>6. g[4] + g[1] + g[3] + g[5] <= time
  BY <1>3 DEF Total
<1> HIDE DEF time
<1>7. /\ Total(a) \in Nat /\ Total(b) \in Nat /\ time < JiffiesRange
  BY <1>5, JiffiesType
<1> DEFINE Own(s) == IF s = "idle" THEN 4 ELSE IF s = "user" THEN 1 ELSE IF s = "system" THEN 3 ELSE 5
           q == [s \in Stats |-> Usage(Jiffies(b)[s], Jiffies(a)[s])]
<1>8. ASSUME NEW s \in Stats PROVE Rounded(q[s], g[Own(s)], time)
  <2> DEFINE x == Jiffies(b)[s]
             y == Jiffies(a)[s]
  <2>1. x \in Counts /\ y \in Counts /\ x.total = Total(b) /\ y.total = Total(a)
    BY JiffiesType
  <2>2. x.own = b[Own(s)] /\ y.own = a[Own(s)] /\ Own(s) \in {1, 3, 4, 5}
    BY JiffiesType DEF Stats
  <2>3. q[s] = Usage(x, y)
    OBVIOUS
  <2>7. \A n \in {1, 3, 4, 5} : g[n] = a[n] - b[n] /\ g[n] \in Nat /\ g[n] <= time
    BY <1>3, <1>5, <1>6
  <2> HIDE DEF x, y, q, Own
  <2>4. x.own \in Nat /\ y.own \in Nat
    BY <2>1 DEF Counts
  <2>8. g[Own(s)] = y.own - x.own /\ g[Own(s)] \in Nat /\ g[Own(s)] <= time
    BY <2>2, <2>7
  <2>5. /\ x.own <= y.own
        /\ y.own - x.own <= y.total - x.total
        /\ x.total < y.total
        /\ y.total - x.total < JiffiesRange
    BY <2>1, <2>4, <2>8, <1>5, <1>7
  <2>6. Rounded(Usage(x, y), y.own - x.own, y.total - x.total)
    BY <2>1, <2>5, UsageIs
  <2> QED BY <2>1, <2>3, <2>6, <2>8, <1>5
<1>9. /\ Rounded(q["idle"], g[4], time) /\ Rounded(q["user"], g[1], time)
      /\ Rounded(q["system"], g[3], time) /\ Rounded(q["iowait"], g[5], time)
  <2>1. "idle" \in Stats /\ "user" \in Stats /\ "system" \in Stats /\ "iowait" \in Stats
    BY DEF Stats
  <2>2. Own("idle") = 4 /\ Own("user") = 1 /\ Own("system") = 3 /\ Own("iowait") = 5
    OBVIOUS
  <2> HIDE DEF Own, q
  <2>3. /\ Rounded(q["idle"], g[Own("idle")], time) /\ Rounded(q["user"], g[Own("user")], time)
        /\ Rounded(q["system"], g[Own("system")], time) /\ Rounded(q["iowait"], g[Own("iowait")], time)
    BY <1>8, <2>1
  <2> QED BY <2>2, <2>3
<1>10. Shares(Jiffies(b), Jiffies(a)) =
         [usage |-> 100 - q["idle"], user |-> q["user"], system |-> q["system"], iowait |-> q["iowait"]]
  BY DEF Shares, Stats
<1> HIDE DEF q
<1>11. /\ q["idle"] \in 0 .. 100 /\ q["user"] \in 0 .. 100
       /\ q["system"] \in 0 .. 100 /\ q["iowait"] \in 0 .. 100
  BY <1>9 DEF Rounded
<1>14. q["user"] + q["system"] + q["iowait"] <= 100 - q["idle"] + 2
  <2>1. g[4] \in Nat /\ g[1] \in Nat /\ g[3] \in Nat /\ g[5] \in Nat
    BY <1>3
  <2>2. q["idle"] \in Int /\ q["user"] \in Int /\ q["system"] \in Int /\ q["iowait"] \in Int
    BY <1>11
  <2> DEFINE i == g[4]
             u == g[1]
             s == g[3]
             w == g[5]
             qi == q["idle"]
             qu == q["user"]
             qs == q["system"]
             qw == q["iowait"]
  <2>3. /\ i \in Nat /\ u \in Nat /\ s \in Nat /\ w \in Nat
        /\ qi \in Int /\ qu \in Int /\ qs \in Int /\ qw \in Int
        /\ i + u + s + w <= time /\ time \in Nat \ {0}
    BY <2>1, <2>2, <1>5, <1>6
  <2>4. Rounded(qi, i, time) /\ Rounded(qu, u, time) /\ Rounded(qs, s, time) /\ Rounded(qw, w, time)
    BY <1>9
  <2> HIDE DEF i, u, s, w, qi, qu, qs, qw
  <2>5. qu + qs + qw <= 100 - qi + 2
    BY <2>3, <2>4, SumOfShares
  <2> QED BY <2>5 DEF qi, qu, qs, qw
<1>15. /\ Near(100 - q["idle"], time - g[4], time)
       /\ Near(q["user"], g[1], time)
       /\ Near(q["iowait"], g[5], time)
  <2>1. g[4] \in Nat /\ g[1] \in Nat /\ g[5] \in Nat /\ time \in Nat
    BY <1>3, <1>5
  <2>2. q["idle"] \in Int /\ q["user"] \in Int /\ q["iowait"] \in Int
    BY <1>11
  <2> QED BY <2>1, <2>2, <1>9, RoundedIsNear
<1> QED BY <1>10, <1>14, <1>15 DEF OfTheGain, g, time

\* The file is as the last new read has left it, and it has been read in no run
\* to come.
ReadsAreNews ==
  IF news = <<>> THEN cpu_stat = [buffer |-> <<>>, last_read |-> 0] /\ run_count = 0
  ELSE /\ cpu_stat = [buffer |-> news[Len(news)].content, last_read |-> news[Len(news)].now]
       /\ news[Len(news)].run <= run_count

\* All four functions remember the same file.
LastIsCurrent ==
  run_count > 0 => \A c \in 1 .. corenum + 1 : last[c] = Jiffies(cpu_stat.buffer[c])

NoDataYet == run_count < 2 => data = <<>>

CpuInv ==
  /\ CpuTypeOK
  /\ corenum \in {0, Lines - 1}
  /\ ReadsAreNews
  /\ LastIsCurrent
  /\ NoDataYet
  /\ SharesAreOfThePeriod

LEMMA ContentType ==
  ASSUME NEW found \in StatContents, NEW c \in 1 .. Lines
  PROVE  /\ found[c] \in Line /\ Total(found[c]) < JiffiesRange
         /\ Len(found) = Lines /\ JiffiesRange \in Nat \ {0}
<1>1. found \in [1 .. Lines -> [1 .. 8 -> Nat]] /\ CoreTotalJiffies(found[c]) < JiffiesRange
      /\ JiffiesRange \in Nat /\ Lines \in Nat
  BY CpuAssumption
<1>2. found[c] \in Line
  BY <1>1 DEF Line
<1>3. CoreTotalJiffies(found[c]) = Total(found[c]) /\ Total(found[c]) \in Nat
  BY <1>2, JiffiesType
<1>4. Len(found) = Lines
  BY <1>1
<1> QED BY <1>1, <1>2, <1>3, <1>4

LEMMA CpuInitInv == CpuInit => CpuInv
<1> SUFFICES ASSUME CpuInit PROVE CpuInv
  OBVIOUS
<1>1. Zero8 \in Line
  BY DEF Zero8, Line
<1>2. Jiffies(Zero8) \in [Stats -> Counts]
  BY <1>1, JiffiesType
<1>3. last \in [1 .. Lines -> [Stats -> Counts]]
  BY <1>2 DEF CpuInit
<1>4. CpuTypeOK
  BY <1>3, CpuAssumption DEF CpuTypeOK, CpuInit, Counts
<1> QED BY <1>4, CpuAssumption DEF CpuInv, CpuInit, ReadsAreNews, LastIsCurrent, NoDataYet, SharesAreOfThePeriod

LEMMA CpuEntryInv == CpuInv /\ CpuEntry => CpuInv'
<1> SUFFICES ASSUME CpuInv, CpuEntry PROVE CpuInv'
  OBVIOUS
<1> USE DEF CpuInv
<1>1. PICK now \in Times, found \in StatContents, sum \in BOOLEAN :
        /\ cpu_stat' = UpdateFile(cpu_stat, now, found)
        /\ corenum' = IF sum THEN 0 ELSE Len(cpu_stat'.buffer) - 1
        /\ news' = <<[now |-> now, content |-> found, run |-> 0]>>
  BY DEF CpuEntry
<1>2. cpu_stat = [buffer |-> <<>>, last_read |-> 0] /\ run_count = 0
  BY DEF CpuEntry, ReadsAreNews
<1>3. now > 0 /\ found # Unreadable /\ Lines \in Nat \ {0} /\ MaxRuns \in Nat
  BY CpuAssumption
<1>4. cpu_stat' = [buffer |-> found, last_read |-> now]
  BY <1>1, <1>2, <1>3 DEF UpdateFile
<1>5. Len(found) = Lines
  BY <1>3, ContentType
<1>6. corenum' \in {0, Lines - 1}
  BY <1>1, <1>4, <1>5
<1>7. UNCHANGED <<last, run_count, data>>
  BY DEF CpuEntry
<1>8. data = <<>>
  BY <1>2 DEF NoDataYet
<1>9. CpuTypeOK'
  <2>1. [now |-> now, content |-> found, run |-> 0] \in [now : Times, content : StatContents, run : 0 .. MaxRuns]
    BY <1>3
  <2>2. news' \in Seq([now : Times, content : StatContents, run : 0 .. MaxRuns])
    BY <1>1, <2>1
  <2>3. corenum' \in 0 .. Lines - 1
    BY <1>3, <1>6
  <2> QED BY <1>4, <1>7, <1>8, <2>2, <2>3 DEF CpuTypeOK
<1>10. ReadsAreNews'
  <2>1. news' # <<>> /\ Len(news') = 1 /\ news'[1] = [now |-> now, content |-> found, run |-> 0]
    BY <1>1
  <2> QED BY <1>2, <1>4, <1>7, <2>1 DEF ReadsAreNews
<1> QED BY <1>2, <1>6, <1>7, <1>8, <1>9, <1>10 DEF LastIsCurrent, NoDataYet, SharesAreOfThePeriod

LEMMA CpuDataCollectInv == CpuInv /\ CpuDataCollect => CpuInv'
<1> SUFFICES ASSUME CpuInv, CpuDataCollect PROVE CpuInv'
  OBVIOUS
<1> USE DEF CpuInv
<1> DEFINE Read == [now : Times, content : StatContents, run : 0 .. MaxRuns]
           n == Len(news)
<1>1. PICK now \in Times, found \in StatContents \cup {Unreadable} :
        LET f == UpdateFile(cpu_stat, now, found)
            after == [c \in 1 .. corenum + 1 |-> Jiffies(f.buffer[c])]
        IN  /\ cpu_stat' = f
            /\ last' = [c \in 1 .. Lines |-> IF c \in DOMAIN after THEN after[c] ELSE last[c]]
            /\ data' = IF run_count = 0 THEN data
                       ELSE [c \in DOMAIN after |-> Shares(last[c], after[c])]
            /\ news' = News(now, found)
  BY DEF CpuDataCollect
<1> DEFINE old == cpu_stat.buffer
           new == cpu_stat'.buffer
           After(c) == Jiffies(new[c])
<1>2. /\ cpu_stat' = UpdateFile(cpu_stat, now, found)
      /\ last' = [c \in 1 .. Lines |-> IF c \in 1 .. corenum + 1 THEN After(c) ELSE last[c]]
      /\ data' = IF run_count = 0 THEN data ELSE [c \in 1 .. corenum + 1 |-> Shares(last[c], After(c))]
      /\ news' = News(now, found)
  BY <1>1
<1>3. news # <<>> /\ run_count < MaxRuns /\ run_count' = run_count + 1 /\ corenum' = corenum
  BY DEF CpuDataCollect
<1>4. Lines \in Nat \ {0} /\ MaxRuns \in Nat /\ run_count \in Nat /\ Unreadable \notin StatContents
  BY CpuAssumption DEF CpuTypeOK
<1>5. /\ news \in Seq(Read) /\ n \in Nat \ {0} /\ news[n] \in Read
      /\ cpu_stat = [buffer |-> news[n].content, last_read |-> news[n].now]
      /\ news[n].run <= run_count
  <2>1. news \in Seq(Read)
    BY DEF CpuTypeOK
  <2>2. n \in Nat \ {0} /\ news[n] \in Read
    <3> HIDE DEF Read
    <3> QED BY <1>3, <2>1
  <2> QED BY <1>3, <2>1, <2>2 DEF ReadsAreNews
<1>6. old \in StatContents /\ 1 .. corenum + 1 \subseteq 1 .. Lines /\ corenum \in 0 .. Lines - 1
  BY <1>4, <1>5
<1> DEFINE New == found # Unreadable /\ now > news[n].now
           read == [now |-> now, content |-> found, run |-> run_count + 1]
<1>7. ASSUME New
      PROVE  /\ cpu_stat' = [buffer |-> found, last_read |-> now] /\ found \in StatContents
             /\ news' = Append(news, read) /\ read \in Read
             /\ Len(news') = n + 1 /\ news'[n + 1] = read /\ news'[n] = news[n]
  <2>1. cpu_stat' = [buffer |-> found, last_read |-> now] /\ found \in StatContents
    BY <1>2, <1>5, <1>7 DEF UpdateFile
  <2>2. news' = Append(news, read)
    BY <1>2, <1>7 DEF News
  <2>3. read \in Read
    BY <1>3, <1>4, <2>1
  <2> QED BY <2>1, <2>2, <2>3, <1>5
<1>8. ASSUME ~New PROVE cpu_stat' = cpu_stat /\ news' = news
  BY <1>2, <1>5, <1>8 DEF UpdateFile, News
<1> HIDE DEF New, read
<1>9. new \in StatContents
  BY <1>5, <1>7, <1>8
<1>10. \A c \in 1 .. corenum + 1 : After(c) \in [Stats -> Counts]
  <2> SUFFICES ASSUME NEW c \in 1 .. corenum + 1 PROVE After(c) \in [Stats -> Counts]
    OBVIOUS
  <2>1. new[c] \in Line
    BY <1>6, <1>9, ContentType
  <2> QED BY <2>1, JiffiesType
<1>11. last \in [1 .. Lines -> [Stats -> Counts]]
  BY DEF CpuTypeOK, Counts
<1>12. LastIsCurrent'
  BY <1>2, <1>3, <1>6 DEF LastIsCurrent
<1>13. ReadsAreNews'
  <2>1. CASE New
    BY <1>3, <1>5, <1>7, <2>1 DEF ReadsAreNews, read
  <2>2. CASE ~New
    BY <1>3, <1>4, <1>5, <1>8, <2>2 DEF ReadsAreNews
  <2> QED BY <2>1, <2>2
<1>14. NoDataYet'
  BY <1>2, <1>3, <1>4 DEF NoDataYet
<1>15. ASSUME run_count > 0 PROVE data' \in [1 .. corenum + 1 -> Share]
  <2>1. \A c \in 1 .. corenum + 1 : Shares(last[c], After(c)) \in Share
    BY <1>6, <1>9, <1>10, <1>11, ContentType, SharesType
  <2>2. data' = [c \in 1 .. corenum + 1 |-> Shares(last[c], After(c))]
    BY <1>2, <1>15
  <2> HIDE DEF After
  <2> QED BY <2>1, <2>2
<1>16. CpuTypeOK'
  <2>1. cpu_stat' \in [buffer : StatContents \cup {<<>>}, last_read : Times \cup {0}]
    BY <1>7, <1>8 DEF CpuTypeOK
  <2>2. last' \in [1 .. Lines -> [Stats -> Counts]]
    BY <1>2, <1>10, <1>11
  <2>3. run_count' \in 0 .. MaxRuns
    BY <1>3, <1>4
  <2>4. data' = <<>> \/ data' \in [1 .. corenum + 1 -> Share]
    <3>1. CASE run_count = 0
      BY <1>2, <3>1 DEF NoDataYet
    <3> QED BY <1>4, <1>15, <3>1
  <2>5. news' \in Seq(Read)
    <3> HIDE DEF Read, n
    <3> QED BY <1>5, <1>7, <1>8
  <2> QED BY <1>3, <1>6, <2>1, <2>2, <2>3, <2>4, <2>5 DEF CpuTypeOK, Counts, Share
<1>17. SharesAreOfThePeriod'
  <2> SUFFICES ASSUME run_count > 0, NEW c \in 1 .. corenum + 1
               PROVE  /\ {data'[c].usage, data'[c].user, data'[c].system, data'[c].iowait} \subseteq 0 .. 100
                      /\ Gains(c)' = {} => data'[c] = Nobody
                      /\ \A g \in Gains(c)' : Forward(g) => OfTheGain(data'[c], g)
    <3>1. ASSUME run_count > 0 PROVE DOMAIN data' = 1 .. corenum + 1
      BY <1>15, <3>1
    <3>2. 1 .. corenum + 1 \in {1 .. 1, 1 .. Lines}
      <4>1. corenum + 1 \in {1, Lines}
        BY <1>4
      <4> QED BY <4>1
    <3>3. run_count' > 1 => run_count > 0
      BY <1>3, <1>4
    <3> QED BY <3>1, <3>2, <3>3 DEF SharesAreOfThePeriod, Nobody, OfTheGain
  <2>1. data'[c] = Shares(Jiffies(old[c]), Jiffies(new[c])) /\ data'[c] \in Share
    <3>1. last[c] = Jiffies(old[c])
      BY DEF LastIsCurrent
    <3>2. data'[c] = Shares(last[c], After(c))
      BY <1>2
    <3> QED BY <1>15, <3>1, <3>2
  <2>2. {data'[c].usage, data'[c].user, data'[c].system, data'[c].iowait} \subseteq 0 .. 100
    BY <2>1 DEF Share
  <2>3. old[c] \in Line /\ new[c] \in Line /\ Total(new[c]) < JiffiesRange /\ JiffiesRange \in Nat \ {0}
    BY <1>6, <1>9, ContentType
  <2>4. CASE New
    <3>1. Gains(c)' = {Gain(old[c], new[c])}
      <4>1. Len(news') = n + 1 /\ news'[n + 1].run = run_count' /\ n + 1 > 1 /\ n + 1 - 1 = n
        BY <1>3, <1>5, <1>7, <2>4 DEF read
      <4>2. news'[n].content = old /\ news'[n + 1].content = new
        BY <1>5, <1>7, <2>4 DEF read
      <4>3. Gains(c)' = {Gain(news'[Len(news') - 1].content[c], news'[Len(news')].content[c])}
        BY <4>1 DEF Gains
      <4>4. Len(news') - 1 = n
        BY <4>1
      <4>5. news'[Len(news') - 1].content = old /\ news'[Len(news')].content = new
        BY <4>1, <4>2, <4>4, Zenon
      <4> QED BY <4>3, <4>5, Zenon
    <3>2. ASSUME Forward(Gain(old[c], new[c])) PROVE OfTheGain(data'[c], Gain(old[c], new[c]))
      BY <2>1, <2>3, <3>2, SharesOfGain
    <3> QED BY <2>2, <3>1, <3>2
  <2>5. CASE ~New
    <3>1. Gains(c)' = {}
      <4>1. news'[Len(news')].run # run_count'
        BY <1>3, <1>4, <1>5, <1>8, <2>5
      <4> QED BY <4>1 DEF Gains
    <3>2. data'[c] = Nobody
      <4>1. Jiffies(old[c]) \in [Stats -> Counts]
        BY <2>3, JiffiesType
      <4>2. old = new
        BY <1>8, <2>5
      <4> QED BY <2>1, <2>3, <4>1, <4>2, SharesOfNothing
    <3> QED BY <2>2, <3>1, <3>2
  <2> QED BY <2>4, <2>5
<1> QED BY <1>3, <1>12, <1>13, <1>14, <1>16, <1>17

LEMMA CpuInvAlways == CpuSpec => []CpuInv
<1>1. CpuInv /\ UNCHANGED cpuVars => CpuInv'
  BY DEF CpuInv, cpuVars, CpuTypeOK, ReadsAreNews, LastIsCurrent, NoDataYet, SharesAreOfThePeriod, Gains
<1>2. CpuInv /\ [CpuNext]_cpuVars => CpuInv'
  BY <1>1, CpuEntryInv, CpuDataCollectInv DEF CpuNext
<1> QED BY <1>2, CpuInitInv, PTL DEF CpuSpec

(***************************************************************************)
(* The types of CpuUsage.                                                  *)
(***************************************************************************)
THEOREM CpuTypeCorrect == CpuSpec => []CpuTypeOK
<1>1. CpuInv => CpuTypeOK
  BY DEF CpuInv
<1> QED BY <1>1, CpuInvAlways, PTL

(***************************************************************************)
(* From the second run on the shares are those of the jiffies since the    *)
(* run before, for any number of cores and runs, whatever the counters do, *)
(* whenever the file cannot be read or the clock is set back.              *)
(***************************************************************************)
THEOREM SharesCorrect == CpuSpec => []SharesAreOfThePeriod
<1>1. CpuInv => SharesAreOfThePeriod
  BY DEF CpuInv
<1> QED BY <1>1, CpuInvAlways, PTL
----------------------------------------------------------------------------
(* The disk plugin.                                                        *)

\* What the line k adds.
Term(f, S, k) == IF k \in S THEN f[k] ELSE 0

LEMMA SumIs ==
  ASSUME NEW S, NEW f, \A k \in S : f[k] \in Nat
  PROVE  /\ Sum(f, S, 0) = 0
         /\ \A n \in Nat : Sum(f, S, n) \in Nat
         /\ \A n \in Nat : Sum(f, S, n + 1) = Sum(f, S, n) + Term(f, S, n + 1)
<1> DEFINE g == [x \in Nat \X Nat |-> x[1] + Term(f, S, x[2])]
           sum == CHOOSE h : h = [k \in Nat |-> IF k = 0 THEN 0
                                               ELSE h[k - 1] + (IF k \in S THEN f[k] ELSE 0)]
<1>1. \A n \in Nat : Sum(f, S, n) = sum[n]
  BY Zenon DEF Sum
<1>2. \A k \in Nat : Term(f, S, k) \in Nat
  BY DEF Term
<1>3. g \in [Nat \X Nat -> Nat]
  BY <1>2
<1>4. PICK F \in [Nat -> Nat] : Iterates(F, 0, g)
  <2> HIDE DEF g
  <2> QED BY <1>3, Recursion
<1>5. F[0] = 0 /\ \A n \in Nat : F[n + 1] = F[n] + Term(f, S, n + 1)
  <2>1. F[0] = 0 /\ \A n \in Nat : F[n + 1] = g[<<F[n], n + 1>>]
    BY <1>4 DEF Iterates
  <2>2. \A n \in Nat : n + 1 \in Nat /\ F[n] \in Nat
    OBVIOUS
  <2>3. \A n \in Nat : g[<<F[n], n + 1>>] = F[n] + Term(f, S, n + 1)
    BY <2>2
  <2> QED BY <2>1, <2>3
<1>6. F = [k \in Nat |-> IF k = 0 THEN 0 ELSE F[k - 1] + (IF k \in S THEN f[k] ELSE 0)]
  <2>1. ASSUME NEW k \in Nat, k # 0 PROVE F[k] = F[k - 1] + Term(f, S, k)
    <3>1. k - 1 \in Nat /\ (k - 1) + 1 = k
      BY <2>1
    <3> QED BY <1>5, <3>1
  <2>2. \A k \in Nat : F[k] = IF k = 0 THEN 0 ELSE F[k - 1] + (IF k \in S THEN f[k] ELSE 0)
    BY <1>5, <2>1 DEF Term
  <2>3. F = [k \in Nat |-> F[k]]
    OBVIOUS
  <2> QED BY <2>2, <2>3
<1>7. sum = [k \in Nat |-> IF k = 0 THEN 0 ELSE sum[k - 1] + (IF k \in S THEN f[k] ELSE 0)]
  BY <1>6, Zenon
<1> HIDE DEF sum, g
<1>8. sum[0] = 0
  BY <1>7
<1>9. \A n \in Nat : sum[n + 1] = sum[n] + Term(f, S, n + 1)
  <2> SUFFICES ASSUME NEW n \in Nat PROVE sum[n + 1] = sum[n] + Term(f, S, n + 1)
    OBVIOUS
  <2>1. n + 1 \in Nat /\ n + 1 # 0 /\ (n + 1) - 1 = n
    OBVIOUS
  <2> QED BY <1>7, <2>1 DEF Term
<1>10. \A n \in Nat : sum[n] \in Nat
  <2> DEFINE G == {n \in Nat : sum[n] \in Nat}
  <2>1. 0 \in G
    BY <1>8
  <2>2. ASSUME NEW n \in Nat, n \in G PROVE n + 1 \in G
    BY <1>2, <1>9, <2>2
  <2>3. Nat \subseteq G
    <3> HIDE DEF G
    <3> QED BY <2>1, <2>2, Induction
  <2> QED BY <2>3
<1> QED BY <1>1, <1>8, <1>9, <1>10

\* The devices of the first n lines that find_disk_space looks at.
SeenOf(m, n) == {m[q].device : q \in {p \in 1 .. n : IsLocal(m[p])}}

\* At each line, what has been added is that of the lines before, and the table
\* has their devices; between the runs it is empty.
LoopInv ==
  IF at = 0 THEN seen = {}
  ELSE /\ seen = SeenOf(mounts, at - 1)
       /\ total_size = Sum(SizeOf(mounts), Counted(mounts), at - 1)
       /\ total_free = Sum(FreeOf(mounts), Counted(mounts), at - 1)

DiskInv == DiskTypeOK /\ LoopInv /\ DevicesCountOnce

LEMMA MountsType ==
  ASSUME NEW m \in Mounts
  PROVE  /\ Len(m) \in Nat /\ DOMAIN m = 1 .. Len(m)
         /\ \A p \in DOMAIN m : m[p].size \in Nat /\ m[p].avail \in Nat
         /\ Counted(m) \subseteq DOMAIN m
         /\ \A p \in DOMAIN m : SizeOf(m)[p] = m[p].size /\ FreeOf(m)[p] = m[p].avail
<1>1. PICK n \in Nat : m \in [1 .. n -> MountLine]
  BY DiskAssumption DEF Mounts
<1>2. Len(m) = n /\ DOMAIN m = 1 .. n
  BY <1>1
<1>3. \A p \in DOMAIN m : m[p].size \in Nat /\ m[p].avail \in Nat
  BY <1>1, DiskAssumption
<1>4. Counted(m) \subseteq DOMAIN m
  BY DEF Counted
<1>5. \A p \in DOMAIN m : SizeOf(m)[p] = m[p].size /\ FreeOf(m)[p] = m[p].avail
  BY DEF SizeOf, FreeOf
<1> QED BY <1>2, <1>3, <1>4, <1>5

\* The sums over the lines, line by line.
LEMMA SumsOf ==
  ASSUME NEW m \in Mounts, NEW f \in {SizeOf(m), FreeOf(m)}
  PROVE  /\ Sum(f, Counted(m), 0) = 0
         /\ \A n \in Nat : Sum(f, Counted(m), n) \in Nat
         /\ \A n \in Nat : Sum(f, Counted(m), n + 1) = Sum(f, Counted(m), n) + Term(f, Counted(m), n + 1)
<1>1. \A p \in Counted(m) : f[p] \in Nat
  BY MountsType
<1> QED BY <1>1, SumIs

LEMMA DiskInitInv == DiskInit => DiskInv
<1> SUFFICES ASSUME DiskInit PROVE DiskInv
  OBVIOUS
<1>1. <<>> \in [1 .. 0 -> MountLine] /\ Len(mounts) = 0
  BY DEF DiskInit
<1>2. mounts \in Mounts
  BY <1>1, DiskAssumption DEF Mounts, DiskInit
<1>3. DiskTypeOK
  BY <1>1, <1>2 DEF DiskTypeOK, DiskInit
<1> QED BY <1>3 DEF DiskInit, DiskInv, LoopInv, DevicesCountOnce

LEMMA DiskDataCollectInv == DiskInv /\ DiskDataCollect => DiskInv'
<1> SUFFICES ASSUME DiskInv, DiskDataCollect PROVE DiskInv'
  OBVIOUS
<1>1. mounts' \in Mounts /\ at' = 1 /\ total_size' = 0 /\ total_free' = 0 /\ seen' = {} /\ item' = item
  BY DEF DiskInv, LoopInv, DiskDataCollect
<1>2. /\ Sum(SizeOf(mounts'), Counted(mounts'), 0) = 0
      /\ Sum(FreeOf(mounts'), Counted(mounts'), 0) = 0
  BY <1>1, SumsOf
<1>3. SeenOf(mounts', 0) = {}
  BY DEF SeenOf
<1>4. LoopInv'
  BY <1>1, <1>2, <1>3 DEF LoopInv
<1>5. Len(mounts') \in Nat
  BY <1>1, MountsType
<1>6. DiskTypeOK'
  BY <1>1, <1>5 DEF DiskTypeOK, DiskInv
<1> QED BY <1>1, <1>4, <1>6 DEF DiskInv, DevicesCountOnce

LEMMA FindDiskSpaceInv == DiskInv /\ FindDiskSpace => DiskInv'
<1> SUFFICES ASSUME DiskInv, FindDiskSpace PROVE DiskInv'
  OBVIOUS
<1> DEFINE m == mounts[at]
           S == Counted(mounts)
<1>1. /\ at \in DOMAIN mounts /\ at' = at + 1 /\ mounts' = mounts /\ item' = item
      /\ mounts \in Mounts /\ total_size \in Nat /\ total_free \in Nat
      /\ seen \subseteq {mounts[p].device : p \in DOMAIN mounts}
      /\ item \in [total : Nat, free : Nat, usage : Int] \cup {NoItem}
  BY DEF DiskInv, DiskTypeOK, FindDiskSpace
<1>2. /\ Len(mounts) \in Nat /\ DOMAIN mounts = 1 .. Len(mounts)
      /\ m.size \in Nat /\ m.avail \in Nat
      /\ SizeOf(mounts)[at] = m.size /\ FreeOf(mounts)[at] = m.avail
  BY <1>1, MountsType
<1>3. at \in Nat \ {0} /\ at - 1 \in Nat /\ (at - 1) + 1 = at /\ at' # 0 /\ at' - 1 = at
      /\ at' \in 0 .. Len(mounts) + 1
  BY <1>1, <1>2
<1>4. /\ seen = SeenOf(mounts, at - 1)
      /\ total_size = Sum(SizeOf(mounts), S, at - 1)
      /\ total_free = Sum(FreeOf(mounts), S, at - 1)
  BY <1>3 DEF DiskInv, LoopInv
<1>5. at \in S <=> IsLocal(m) /\ m.answers /\ m.device \notin seen
  <2>1. m.device \notin seen <=> \A q \in 1 .. at - 1 : IsLocal(mounts[q]) => mounts[q].device # m.device
    BY <1>4 DEF SeenOf
  <2> QED BY <1>1, <2>1 DEF Counted
<1>6. /\ Sum(SizeOf(mounts), S, at) = total_size + (IF at \in S THEN m.size ELSE 0)
      /\ Sum(FreeOf(mounts), S, at) = total_free + (IF at \in S THEN m.avail ELSE 0)
  <2>1. /\ Sum(SizeOf(mounts), S, at) = total_size + Term(SizeOf(mounts), S, at)
        /\ Sum(FreeOf(mounts), S, at) = total_free + Term(FreeOf(mounts), S, at)
    BY <1>1, <1>3, <1>4, SumsOf
  <2> QED BY <1>2, <2>1 DEF Term
<1> HIDE DEF m, S
<1>7. /\ total_size' = total_size + (IF at \in S THEN m.size ELSE 0)
      /\ total_free' = total_free + (IF at \in S THEN m.avail ELSE 0)
      /\ seen' = IF IsLocal(m) THEN seen \cup {m.device} ELSE seen
  BY <1>1, <1>2, <1>5 DEF FindDiskSpace, DeviceSpace, m
<1>8. SeenOf(mounts, at) = IF IsLocal(m) THEN seen \cup {m.device} ELSE seen
  <2>1. 1 .. at = (1 .. at - 1) \cup {at}
    BY <1>3
  <2> QED BY <1>4, <2>1 DEF SeenOf, m
<1>9. LoopInv'
  BY <1>1, <1>3, <1>6, <1>7, <1>8 DEF LoopInv, S
<1>10. seen' \subseteq {mounts[p].device : p \in DOMAIN mounts}
  BY <1>1, <1>7 DEF m
<1>11. total_size' \in Nat /\ total_free' \in Nat
  BY <1>1, <1>2, <1>7
<1>12. DiskTypeOK'
  BY <1>1, <1>3, <1>10, <1>11 DEF DiskTypeOK
<1> QED BY <1>3, <1>9, <1>12 DEF DiskInv, DevicesCountOnce

LEMMA FoundInv == DiskInv /\ Found => DiskInv'
<1> SUFFICES ASSUME DiskInv, Found PROVE DiskInv'
  OBVIOUS
<1>1. /\ at = Len(mounts) + 1 /\ at' = 0 /\ mounts' = mounts /\ seen' = {} /\ item' = Published
      /\ total_size' = total_size /\ total_free' = total_free
      /\ mounts \in Mounts /\ total_size \in Nat /\ total_free \in Nat
  BY DEF DiskInv, DiskTypeOK, Found
<1>2. Len(mounts) \in Nat
  BY <1>1, MountsType
<1>3. /\ total_size = Sum(SizeOf(mounts), Counted(mounts), Len(mounts))
      /\ total_free = Sum(FreeOf(mounts), Counted(mounts), Len(mounts))
  <2>1. at # 0 /\ at - 1 = Len(mounts)
    BY <1>1, <1>2
  <2> QED BY <2>1 DEF DiskInv, LoopInv
<1>4. Published.total = total_size /\ Published.free = total_free
      /\ Published \in [total : Nat, free : Nat, usage : Int]
  <2> DEFINE usage == IF total_size = 0 THEN -1 ELSE (100 * (total_size - total_free)) \div total_size
  <2>1. usage \in Int
    BY <1>1
  <2>2. Published = [total |-> total_size, free |-> total_free, usage |-> usage]
    BY DEF Published
  <2> HIDE DEF usage
  <2> QED BY <1>1, <2>1, <2>2
<1>5. DiskTypeOK'
  BY <1>1, <1>2, <1>4 DEF DiskTypeOK
<1> QED BY <1>1, <1>3, <1>4, <1>5 DEF DiskInv, LoopInv, DevicesCountOnce

LEMMA DiskInvAlways == DiskSpec => []DiskInv
<1>1. DiskInv /\ UNCHANGED diskVars => DiskInv'
  BY DEF DiskInv, diskVars, DiskTypeOK, LoopInv, DevicesCountOnce
<1>2. DiskInv /\ [DiskNext]_diskVars => DiskInv'
  BY <1>1, DiskDataCollectInv, FindDiskSpaceInv, FoundInv DEF DiskNext
<1> QED BY <1>2, DiskInitInv, PTL DEF DiskSpec

(***************************************************************************)
(* The types of DiskSpace.                                                 *)
(***************************************************************************)
THEOREM DiskTypeCorrect == DiskSpec => []DiskTypeOK
<1>1. DiskInv => DiskTypeOK
  BY DEF DiskInv
<1> QED BY <1>1, DiskInvAlways, PTL

(***************************************************************************)
(* Every run publishes the sizes of the local devices, each of them once,  *)
(* however many mounts there are, and whatever the runs before have found. *)
(***************************************************************************)
THEOREM DevicesCorrect == DiskSpec => []DevicesCountOnce
<1>1. DiskInv => DevicesCountOnce
  BY DEF DiskInv
<1> QED BY <1>1, DiskInvAlways, PTL

----------------------------------------------------------------------------
(* Items, and recursion over them.                                         *)

\* The items inside are items, and less deep.
LEMMA KidsInside ==
  ASSUME NEW v \in Trees
  PROVE  /\ v.kids \in Seq(Trees) /\ DOMAIN v.kids = 1 .. Len(v.kids)
         /\ \A p \in DOMAIN v.kids : /\ v.kids[p] \in Trees
                                     /\ Height[v.kids[p]] \in Nat /\ Height[v] \in Nat
                                     /\ Height[v.kids[p]] < Height[v]
<1>1. /\ v.kids \in Seq(Trees) /\ Height \in [Trees -> Nat]
      /\ \A p \in DOMAIN v.kids : Height[v.kids[p]] < Height[v]
  BY TreeAssumption
<1>2. \A p \in DOMAIN v.kids : v.kids[p] \in Trees
  BY <1>1
<1> QED BY <1>1, <1>2

\* What holds of an item if it holds of the items inside holds of them all.
LEMMA TreeInduction ==
  ASSUME NEW S, \A v \in Trees : (\A p \in DOMAIN v.kids : v.kids[p] \in S) => v \in S
  PROVE  Trees \subseteq S
<1> DEFINE T == {Height[v] : v \in Trees \ S}
<1> SUFFICES ASSUME Trees \ S # {} PROVE FALSE
  OBVIOUS
<1>1. T \subseteq Nat /\ T # {}
  BY TreeAssumption
<1>2. PICK m \in T : \A n \in T : m <= n
  <2> HIDE DEF T
  <2> QED BY <1>1, LeastNatural
<1>3. PICK v \in Trees \ S : m = Height[v]
  OBVIOUS
<1>4. ASSUME NEW p \in DOMAIN v.kids PROVE v.kids[p] \in S
  <2>1. /\ v.kids[p] \in Trees /\ Height[v.kids[p]] < m
        /\ Height[v.kids[p]] \in Nat /\ m \in Nat
    BY <1>3, KidsInside
  <2>2. v.kids[p] \notin S => Height[v.kids[p]] \in T
    BY <2>1
  <2> HIDE DEF T
  <2> QED BY <1>2, <2>1, <2>2
<1> QED BY <1>3, <1>4

(***************************************************************************)
(* A function may be defined by recursion on x, if what g makes of x only  *)
(* depends on the function where h is less.                                *)
(***************************************************************************)
DependsBelow(g, T, V, h) ==
  \A x \in T, f, k \in [T -> V] :
    (\A y \in T : h[y] < h[x] => f[y] = k[y]) => g[<<x, f>>] = g[<<x, k>>]

Solves(f, g, T, V) == f \in [T -> V] /\ \A x \in T : f[x] = g[<<x, f>>]

LEMMA Descent ==
  ASSUME NEW T, NEW h \in [T -> Nat], NEW V, NEW c \in V, NEW g \in [T \X [T -> V] -> V],
         DependsBelow(g, T, V, h)
  PROVE  \E f : Solves(f, g, T, V)
<1> DEFINE S == [T -> V]
           a == [x \in T |-> c]
           step == [z \in S \X Nat |-> [x \in T |-> g[<<x, z[1]>>]]]
<1>1. a \in S /\ step \in [S \X Nat -> S]
  OBVIOUS
<1>2. PICK F \in [Nat -> S] : Iterates(F, a, step)
  <2> HIDE DEF S, a, step
  <2> QED BY <1>1, Recursion
<1>3. ASSUME NEW n \in Nat, NEW x \in T PROVE F[n + 1][x] = g[<<x, F[n]>>]
  <2>1. F[n] \in S /\ F[n + 1] = step[<<F[n], n + 1>>] /\ n + 1 \in Nat
    <3> HIDE DEF S, step
    <3> QED BY <1>2 DEF Iterates
  <2>2. step[<<F[n], n + 1>>] = [y \in T |-> g[<<y, F[n]>>]]
    BY <2>1
  <2> HIDE DEF step
  <2> QED BY <2>1, <2>2
<1> DEFINE Good == {n \in Nat : \A x \in T, m \in Nat : h[x] < n /\ n <= m => F[m][x] = F[n][x]}
<1>4. Nat \subseteq Good
  <2>1. 0 \in Good
    OBVIOUS
  <2>2. ASSUME NEW n \in Nat, n \in Good PROVE n + 1 \in Good
    <3>1. ASSUME NEW x \in T, NEW m \in Nat, h[x] < n + 1, n + 1 <= m
          PROVE  F[m][x] = F[n + 1][x]
      <4>1. m - 1 \in Nat /\ n <= m - 1 /\ (m - 1) + 1 = m
        BY <3>1
      <4>2. F[m][x] = g[<<x, F[m - 1]>>] /\ F[n + 1][x] = g[<<x, F[n]>>]
        BY <1>3, <4>1
      <4>3. ASSUME NEW y \in T, h[y] < h[x] PROVE F[m - 1][y] = F[n][y]
        <5>1. h[y] < n
          BY <3>1, <4>3
        <5> QED BY <2>2, <4>1, <5>1
      <4>4. F[m - 1] \in [T -> V] /\ F[n] \in [T -> V]
        BY <4>1
      <4> QED BY <4>2, <4>3, <4>4 DEF DependsBelow
    <3> QED BY <3>1
  <2> HIDE DEF Good
  <2> QED BY <2>1, <2>2, Induction
<1> DEFINE f == [x \in T |-> F[h[x] + 1][x]]
<1>5. f \in [T -> V]
  OBVIOUS
<1>6. ASSUME NEW x \in T PROVE f[x] = g[<<x, f>>]
  <2>1. f[x] = g[<<x, F[h[x]]>>]
    BY <1>3
  <2>2. ASSUME NEW y \in T, h[y] < h[x] PROVE f[y] = F[h[x]][y]
    <3>1. h[y] + 1 \in Nat /\ h[x] \in Nat /\ h[y] < h[y] + 1 /\ h[y] + 1 <= h[x]
      BY <2>2
    <3>2. h[y] + 1 \in Good
      BY <1>4, <3>1
    <3>3. F[h[x]][y] = F[h[y] + 1][y]
      BY <3>1, <3>2
    <3> QED BY <3>3
  <2>3. F[h[x]] \in [T -> V]
    OBVIOUS
  <2> HIDE DEF f
  <2> QED BY <1>5, <2>1, <2>2, <2>3 DEF DependsBelow
<1> HIDE DEF f
<1> QED BY <1>5, <1>6 DEF Solves

----------------------------------------------------------------------------
(* Keys.                                                                   *)

Lower(c, case) == IF ~case /\ c \in 65 .. 90 THEN c + 32 ELSE c

LEMMA LowerType == ASSUME NEW c \in Byte, NEW case PROVE Lower(c, case) \in 1 .. 255
<1>1. c \in Int /\ 1 <= c /\ c <= 255
  BY DEF Byte
<1>2. CASE c \in 65 .. 90
  BY <1>1, <1>2 DEF Lower
<1>3. CASE c \notin 65 .. 90
  BY <1>1, <1>3 DEF Lower
<1> QED BY <1>2, <1>3

\* No string is the null pointer.
LEMMA NotNoName == ASSUME NEW s \in Seq(Byte) PROVE s # NoName
<1> SUFFICES ASSUME s = NoName PROVE FALSE
  OBVIOUS
<1> QED BY DEF NoName, Byte

\* Two strings compare equal if their bytes do.
LEMMA SameString ==
  ASSUME NEW s \in Seq(Byte), NEW t \in Seq(Byte), NEW case \in BOOLEAN
  PROVE  CompareStrings(s, t, case) = 0 <=>
           /\ Len(s) = Len(t)
           /\ \A p \in 1 .. Len(s) : Lower(s[p], case) = Lower(t[p], case)
<1> DEFINE x == IF case THEN s ELSE Fold(s)
           y == IF case THEN t ELSE Fold(t)
           At(z, p) == IF p \in DOMAIN z THEN z[p] ELSE 0
           differ == {p \in 1 .. Len(x) + Len(y) : At(x, p) # At(y, p)}
<1>1. ASSUME NEW z \in Seq(Byte)
      PROVE  /\ z # NoName
             /\ \A p \in 1 .. Len(z) : z[p] \in Byte /\ Lower(z[p], case) \in 1 .. 255
             /\ (IF case THEN z ELSE Fold(z)) = [p \in 1 .. Len(z) |-> Lower(z[p], case)]
  <2>1. z # NoName
    BY NotNoName
  <2>2. ASSUME NEW p \in 1 .. Len(z) PROVE z[p] \in Byte /\ Lower(z[p], case) \in 1 .. 255
    <3>1. z[p] \in Byte
      OBVIOUS
    <3> QED BY <3>1, LowerType
  <2>3. DOMAIN z = 1 .. Len(z) /\ z = [p \in 1 .. Len(z) |-> z[p]]
    OBVIOUS
  <2>4. CASE case
    <3>1. \A p : Lower(z[p], case) = z[p]
      BY <2>4 DEF Lower
    <3> QED BY <2>1, <2>2, <2>3, <2>4, <3>1
  <2>5. CASE ~case
    <3>1. \A p : Lower(z[p], case) = IF z[p] \in 65 .. 90 THEN z[p] + 32 ELSE z[p]
      BY <2>5 DEF Lower
    <3>2. Fold(z) = [p \in 1 .. Len(z) |-> IF z[p] \in 65 .. 90 THEN z[p] + 32 ELSE z[p]]
      BY <2>3 DEF Fold
    <3> QED BY <2>1, <2>2, <2>5, <3>1, <3>2
  <2> QED BY <2>1, <2>2, <2>4, <2>5
<1>2. /\ x = [p \in 1 .. Len(s) |-> Lower(s[p], case)]
      /\ y = [p \in 1 .. Len(t) |-> Lower(t[p], case)]
      /\ s # NoName /\ t # NoName
  BY <1>1
<1>3. Len(s) \in Nat /\ Len(t) \in Nat /\ Len(x) = Len(s) /\ Len(y) = Len(t)
  BY <1>2
<1>4. CompareStrings(s, t, case) =
        IF differ = {} THEN 0 ELSE At(x, Min(differ)) - At(y, Min(differ))
  BY <1>2 DEF CompareStrings
<1>5. \A p \in 1 .. Len(s) : At(x, p) = Lower(s[p], case) /\ At(x, p) \in 1 .. 255
  BY <1>1, <1>2
<1>6. \A p \in 1 .. Len(t) : At(y, p) = Lower(t[p], case) /\ At(y, p) \in 1 .. 255
  BY <1>1, <1>2
<1>7. \A p \in Nat : /\ p > Len(s) => At(x, p) = 0
                     /\ p > Len(t) => At(y, p) = 0
  BY <1>2, <1>3
<1> HIDE DEF x, y, At
<1>8. CompareStrings(s, t, case) = 0 <=> differ = {}
  <2>1. ASSUME differ # {} PROVE At(x, Min(differ)) - At(y, Min(differ)) # 0
    <3>1. differ \subseteq Nat
      BY <1>3
    <3>2. Min(differ) \in differ
      <4> HIDE DEF differ
      <4> QED BY <2>1, <3>1, MinType
    <3>3. At(x, Min(differ)) # At(y, Min(differ)) /\ Min(differ) \in Nat /\ Min(differ) >= 1
      BY <1>3, <3>2
    <3> DEFINE m == Min(differ)
    <3> HIDE DEF m, differ
    <3>4. At(x, m) \in Int /\ At(y, m) \in Int
      <4>1. m \in Nat /\ m >= 1
        BY <3>3 DEF m
      <4>2. (m \in 1 .. Len(s) \/ m > Len(s)) /\ (m \in 1 .. Len(t) \/ m > Len(t))
        BY <1>3, <4>1
      <4>3. 1 .. 255 \subseteq Int /\ 0 \in Int
        OBVIOUS
      <4> QED BY <1>5, <1>6, <1>7, <4>1, <4>2, <4>3
    <3> QED BY <3>3, <3>4 DEF m
  <2> HIDE DEF differ
  <2> QED BY <1>4, <2>1
<1>9. CASE Len(s) = Len(t)
  <2>1. \A p \in 1 .. Len(x) + Len(y) : p \in Nat /\ (p > Len(s) \/ p \in 1 .. Len(s))
    BY <1>3
  <2>2. \A p \in 1 .. Len(s) : p \in 1 .. Len(x) + Len(y)
    BY <1>3
  <2>3. ASSUME NEW p \in 1 .. Len(s)
        PROVE  At(x, p) = Lower(s[p], case) /\ At(y, p) = Lower(t[p], case)
    BY <1>5, <1>6, <1>9
  <2>4. \A p \in Nat : p > Len(s) => At(x, p) = At(y, p)
    BY <1>7, <1>9
  <2>5. differ = {} <=> \A p \in 1 .. Len(s) : At(x, p) = At(y, p)
    BY <2>1, <2>2, <2>4
  <2> HIDE DEF differ
  <2> QED BY <1>8, <1>9, <2>3, <2>5
<1>10. CASE Len(s) < Len(t)
  <2>1. Len(s) + 1 \in differ
    <3>1. Len(s) + 1 \in Nat /\ Len(s) + 1 > Len(s) /\ Len(s) + 1 \in 1 .. Len(t)
          /\ Len(s) + 1 \in 1 .. Len(x) + Len(y)
      BY <1>3, <1>10
    <3>2. At(x, Len(s) + 1) = 0 /\ At(y, Len(s) + 1) # 0
      <4>1. At(y, Len(s) + 1) \in 1 .. 255
        BY <1>6, <3>1
      <4>2. 0 \notin 1 .. 255
        OBVIOUS
      <4> QED BY <1>7, <3>1, <4>1, <4>2
    <3> QED BY <3>1, <3>2
  <2> HIDE DEF differ
  <2> QED BY <1>3, <1>8, <1>10, <2>1
<1>11. CASE Len(t) < Len(s)
  <2>1. Len(t) + 1 \in differ
    <3>1. Len(t) + 1 \in Nat /\ Len(t) + 1 > Len(t) /\ Len(t) + 1 \in 1 .. Len(s)
          /\ Len(t) + 1 \in 1 .. Len(x) + Len(y)
      BY <1>3, <1>11
    <3>2. At(y, Len(t) + 1) = 0 /\ At(x, Len(t) + 1) # 0
      <4>1. At(x, Len(t) + 1) \in 1 .. 255
        BY <1>5, <3>1
      <4>2. 0 \notin 1 .. 255
        OBVIOUS
      <4> QED BY <1>7, <3>1, <4>1, <4>2
    <3> QED BY <3>1, <3>2
  <2> HIDE DEF differ
  <2> QED BY <1>3, <1>8, <1>11, <2>1
<1> HIDE DEF differ
<1> QED BY <1>3, <1>9, <1>10, <1>11

LEMMA NoKey == \A s, case : CompareStrings(NoName, s, case) = 1 /\ CompareStrings(s, NoName, case) = 1
BY DEF CompareStrings

\* The keys of an item are strings, where they are.
LEMMA KeyType ==
  ASSUME NEW v \in Trees, NEW p \in DOMAIN v.kids
  PROVE  v.kids[p].name \in Seq(Byte) \/ v.kids[p].name = NoName
<1>1. v.kids[p] \in Trees
  BY KidsInside
<1> QED BY <1>1, TreeAssumption

\* A member is found if there is one of that key, when every member has a key.
LEMMA ObjectItemIs ==
  ASSUME NEW v \in Trees, NEW s, NEW case \in BOOLEAN
  PROVE  LET k == GetObjectItem(v, s, case)
         IN  /\ k # 0 => k \in DOMAIN v.kids
             /\ (\A p \in DOMAIN v.kids : v.kids[p].name # NoName) =>
                  /\ k # 0 => CompareStrings(s, v.kids[k].name, case) = 0
                  /\ k = 0 => \A p \in DOMAIN v.kids : CompareStrings(s, v.kids[p].name, case) # 0
<1> DEFINE t == v.kids
           found == {p \in DOMAIN t : \/ CompareStrings(s, t[p].name, case) = 0
                                      \/ case /\ t[p].name = NoName}
<1>1. DOMAIN t = 1 .. Len(t) /\ Len(t) \in Nat
  BY KidsInside
<1>2. found # {} => Min(found) \in found
  <2>1. found \subseteq Nat
    BY <1>1
  <2> HIDE DEF found
  <2> QED BY <2>1, MinType
<1>3. GetObjectItem(v, s, case) =
        IF found = {} \/ t[Min(found)].name = NoName THEN 0 ELSE Min(found)
  BY DEF GetObjectItem
<1>4. 0 \notin DOMAIN t
  BY <1>1
<1>5. /\ Min(found) \in found => /\ Min(found) \in DOMAIN t
                                 /\ \/ CompareStrings(s, t[Min(found)].name, case) = 0
                                    \/ t[Min(found)].name = NoName
      /\ found = {} => \A p \in DOMAIN t : CompareStrings(s, t[p].name, case) # 0
  OBVIOUS
<1> DEFINE k == Min(found)
<1> HIDE DEF found, k
<1> QED BY <1>2, <1>3, <1>4, <1>5 DEF k

----------------------------------------------------------------------------
(* What is defined by recursion on items.                                  *)

Pair == Trees \X Trees

\* The function that Compare(a, b, case) is a value of.
SameIn(case) == CHOOSE f : f = [x \in Pair |-> CompareWith(x[1], x[2], case, f)]

\* Only what is found of the items inside matters.
AgreeBelow(f, g, a, b) ==
  \A x, y \in Trees : Height[x] < Height[a] /\ Height[y] < Height[b] =>
    f[<<x, y>>] = g[<<x, y>>] /\ f[<<y, x>>] = g[<<y, x>>]

LEMMA CompareDepends ==
  ASSUME NEW a \in Trees, NEW b \in Trees, NEW case \in BOOLEAN, NEW f, NEW g,
         AgreeBelow(f, g, a, b)
  PROVE  CompareWith(a, b, case, f) = CompareWith(a, b, case, g)
<1>1. \A p \in DOMAIN a.kids : a.kids[p] \in Trees /\ Height[a.kids[p]] < Height[a]
  BY KidsInside
<1>2. \A p \in DOMAIN b.kids : b.kids[p] \in Trees /\ Height[b.kids[p]] < Height[b]
  BY KidsInside
<1>3. SameElements(a, b, f) = SameElements(a, b, g)
  <2>1. Len(a.kids) = Len(b.kids) => DOMAIN a.kids = DOMAIN b.kids
    BY KidsInside
  <2>2. Len(a.kids) = Len(b.kids) =>
          \A p \in DOMAIN a.kids : f[<<a.kids[p], b.kids[p]>>] = g[<<a.kids[p], b.kids[p]>>]
    BY <1>1, <1>2, <2>1 DEF AgreeBelow
  <2> QED BY <2>2 DEF SameElements
<1>4. \A s : GetObjectItem(b, s, case) # 0 => GetObjectItem(b, s, case) \in DOMAIN b.kids
  BY ObjectItemIs
<1>5. \A s : GetObjectItem(a, s, case) # 0 => GetObjectItem(a, s, case) \in DOMAIN a.kids
  BY ObjectItemIs
<1>6. HasMembers(a, b, case, f) = HasMembers(a, b, case, g)
  <2>1. \A p \in DOMAIN a.kids, q \in DOMAIN b.kids :
          f[<<a.kids[p], b.kids[q]>>] = g[<<a.kids[p], b.kids[q]>>]
    BY <1>1, <1>2 DEF AgreeBelow
  <2> QED BY <1>4, <2>1 DEF HasMembers
<1>7. HasMembers(b, a, case, f) = HasMembers(b, a, case, g)
  <2>1. \A p \in DOMAIN a.kids, q \in DOMAIN b.kids :
          f[<<b.kids[q], a.kids[p]>>] = g[<<b.kids[q], a.kids[p]>>]
    BY <1>1, <1>2 DEF AgreeBelow
  <2> QED BY <1>5, <2>1 DEF HasMembers
<1> QED BY <1>3, <1>6, <1>7 DEF CompareWith, SameMembers

LEMMA CompareIsBoolean == \A a, b, case, f : CompareWith(a, b, case, f) \in BOOLEAN
BY DEF CompareWith

LEMMA CompareIs ==
  ASSUME NEW a \in Trees, NEW b \in Trees, NEW case \in BOOLEAN
  PROVE  /\ Compare(a, b, case) = SameIn(case)[<<a, b>>]
         /\ Compare(a, b, case) = CompareWith(a, b, case, SameIn(case))
<1> DEFINE h == [x \in Pair |-> Height[x[1]] + Height[x[2]]]
           g == [z \in Pair \X [Pair -> BOOLEAN] |-> CompareWith(z[1][1], z[1][2], case, z[2])]
           Solved(f) == f = [x \in Pair |-> CompareWith(x[1], x[2], case, f)]
<1>1. Height \in [Trees -> Nat]
  BY TreeAssumption
<1>2. h \in [Pair -> Nat]
  BY <1>1 DEF Pair
<1>3. g \in [Pair \X [Pair -> BOOLEAN] -> BOOLEAN]
  BY CompareIsBoolean
<1>4. ASSUME NEW x \in Pair, NEW f \in [Pair -> BOOLEAN], NEW k \in [Pair -> BOOLEAN],
             \A y \in Pair : h[y] < h[x] => f[y] = k[y]
      PROVE  g[<<x, f>>] = g[<<x, k>>]
  <2>1. PICK c \in Trees, d \in Trees : x = <<c, d>>
    BY DEF Pair
  <2>2. ASSUME NEW y \in Trees, NEW z \in Trees, Height[y] < Height[c], Height[z] < Height[d]
        PROVE  f[<<y, z>>] = k[<<y, z>>] /\ f[<<z, y>>] = k[<<z, y>>]
    <3>1. <<y, z>> \in Pair /\ <<z, y>> \in Pair
      BY DEF Pair
    <3>2. /\ h[<<y, z>>] = Height[y] + Height[z] /\ h[<<z, y>>] = Height[z] + Height[y]
          /\ h[x] = Height[c] + Height[d]
      BY <2>1, <3>1
    <3>3. h[<<y, z>>] < h[x] /\ h[<<z, y>>] < h[x]
      BY <1>1, <2>2, <3>2
    <3> HIDE DEF h
    <3> QED BY <1>4, <3>1, <3>3
  <2>3. CompareWith(c, d, case, f) = CompareWith(c, d, case, k)
    <3>1. \A y, z \in Trees : Height[y] < Height[c] /\ Height[z] < Height[d] =>
            f[<<y, z>>] = k[<<y, z>>] /\ f[<<z, y>>] = k[<<z, y>>]
      BY <2>2
    <3>2. AgreeBelow(f, k, c, d)
      BY <3>1 DEF AgreeBelow
    <3> QED BY <3>2, CompareDepends
  <2>4. g[<<x, f>>] = CompareWith(c, d, case, f) /\ g[<<x, k>>] = CompareWith(c, d, case, k)
    BY <2>1
  <2> QED BY <2>3, <2>4
<1>5. \E f \in [Pair -> BOOLEAN] : \A x \in Pair : f[x] = g[<<x, f>>]
  <2> DEFINE V == BOOLEAN
  <2> HIDE DEF h, g
  <2>1. FALSE \in V /\ g \in [Pair \X [Pair -> V] -> V]
    BY <1>3
  <2>2. DependsBelow(g, Pair, V, h)
    BY <1>4 DEF DependsBelow
  <2> HIDE DEF V
  <2>3. \E f : Solves(f, g, Pair, V)
    BY <1>2, <2>1, <2>2, Descent
  <2> QED BY <2>3 DEF V, Solves
<1>6. \E f : Solved(f)
  <2>1. PICK f \in [Pair -> BOOLEAN] : \A x \in Pair : f[x] = g[<<x, f>>]
    BY <1>5
  <2>2. \A x \in Pair : f[x] = CompareWith(x[1], x[2], case, f)
    BY <2>1
  <2>3. f = [x \in Pair |-> f[x]]
    OBVIOUS
  <2>4. f = [x \in Pair |-> CompareWith(x[1], x[2], case, f)]
    BY <2>2, <2>3
  <2> QED BY <2>4
<1>7. SameIn(case) = [x \in Pair |-> CompareWith(x[1], x[2], case, SameIn(case))]
  <2>1. SameIn(case) = CHOOSE f : Solved(f)
    BY DEF SameIn
  <2> HIDE DEF Solved
  <2>2. Solved(SameIn(case))
    BY <1>6, <2>1
  <2> QED BY <2>2 DEF Solved
<1>8. <<a, b>> \in Pair /\ <<a, b>>[1] = a /\ <<a, b>>[2] = b
  BY DEF Pair
<1>9. Compare(a, b, case) = SameIn(case)[<<a, b>>]
  BY DEF Compare, SameIn, Pair
<1> QED BY <1>7, <1>8, <1>9

\* What Compare finds, of items of one type and of the items inside.
LEMMA CompareSays ==
  ASSUME NEW a \in Trees, NEW b \in Trees, NEW case \in BOOLEAN
  PROVE  Compare(a, b, case) <=>
           /\ a.type = b.type
           /\ a.type = "number" => a.num = b.num
           /\ a.type = "string" => a.str = b.str
           /\ a.type = "array" =>
                /\ Len(a.kids) = Len(b.kids)
                /\ \A p \in DOMAIN a.kids : Compare(a.kids[p], b.kids[p], case)
           /\ a.type = "object" =>
                /\ \A p \in DOMAIN a.kids :
                     LET q == GetObjectItem(b, a.kids[p].name, case)
                     IN  q # 0 /\ Compare(a.kids[p], b.kids[q], case)
                /\ \A q \in DOMAIN b.kids :
                     LET p == GetObjectItem(a, b.kids[q].name, case)
                     IN  p # 0 /\ Compare(b.kids[q], a.kids[p], case)
<1> DEFINE f == SameIn(case)
<1>1. Compare(a, b, case) = CompareWith(a, b, case, f)
  BY CompareIs
<1>2. \A x, y \in Trees : f[<<x, y>>] = Compare(x, y, case)
  BY CompareIs
<1> HIDE DEF f
<1>3. \A p \in DOMAIN a.kids : a.kids[p] \in Trees
  BY KidsInside
<1>4. \A p \in DOMAIN b.kids : b.kids[p] \in Trees
  BY KidsInside
<1>5. a.type \notin {"invalid", "raw"}
  BY TreeAssumption DEF Printable
<1>6. SameElements(a, b, f) <=>
        /\ Len(a.kids) = Len(b.kids)
        /\ \A p \in DOMAIN a.kids : Compare(a.kids[p], b.kids[p], case)
  <2>1. Len(a.kids) = Len(b.kids) => DOMAIN a.kids = DOMAIN b.kids
    BY KidsInside
  <2> QED BY <1>2, <1>3, <1>4, <2>1 DEF SameElements
<1>7. \A s : GetObjectItem(b, s, case) # 0 => GetObjectItem(b, s, case) \in DOMAIN b.kids
  BY ObjectItemIs
<1>8. \A s : GetObjectItem(a, s, case) # 0 => GetObjectItem(a, s, case) \in DOMAIN a.kids
  BY ObjectItemIs
<1>9. HasMembers(a, b, case, f) <=>
        \A p \in DOMAIN a.kids :
          LET q == GetObjectItem(b, a.kids[p].name, case)
          IN  q # 0 /\ Compare(a.kids[p], b.kids[q], case)
  BY <1>2, <1>3, <1>4, <1>7 DEF HasMembers
<1>10. HasMembers(b, a, case, f) <=>
        \A q \in DOMAIN b.kids :
          LET p == GetObjectItem(a, b.kids[q].name, case)
          IN  p # 0 /\ Compare(b.kids[q], a.kids[p], case)
  BY <1>2, <1>3, <1>4, <1>8 DEF HasMembers
<1> QED BY <1>1, <1>5, <1>6, <1>9, <1>10 DEF CompareWith, SameMembers

\* It finds the same whichever item comes first.
LEMMA CompareIsSymmetric ==
  ASSUME NEW case \in BOOLEAN
  PROVE  \A a, b \in Trees : Compare(a, b, case) <=> Compare(b, a, case)
<1> DEFINE S == {a \in Trees : \A b \in Trees : Compare(a, b, case) <=> Compare(b, a, case)}
<1>1. ASSUME NEW a \in Trees, \A p \in DOMAIN a.kids : a.kids[p] \in S PROVE a \in S
  <2>1. ASSUME NEW b \in Trees PROVE Compare(a, b, case) <=> Compare(b, a, case)
    <3>1. Len(a.kids) = Len(b.kids) => DOMAIN a.kids = DOMAIN b.kids
      BY KidsInside
    <3>2. \A p \in DOMAIN b.kids : b.kids[p] \in Trees
      BY KidsInside
    <3>3. /\ Len(a.kids) = Len(b.kids)
          /\ \A p \in DOMAIN a.kids : Compare(a.kids[p], b.kids[p], case)
          <=>
          /\ Len(b.kids) = Len(a.kids)
          /\ \A p \in DOMAIN b.kids : Compare(b.kids[p], a.kids[p], case)
      BY <1>1, <3>1, <3>2
    <3> QED BY <3>3, CompareSays
  <2> QED BY <2>1
<1> HIDE DEF S
<1>2. Trees \subseteq S
  BY <1>1, TreeInduction
<1> QED BY <1>2 DEF S

KeysApart(v, case) ==
  v.type = "object" =>
    \A p, q \in DOMAIN v.kids :
      /\ v.kids[p].name # NoName
      /\ p # q => CompareStrings(v.kids[p].name, v.kids[q].name, case) # 0

KeysWith(v, case, f) == (\A p \in DOMAIN v.kids : f[v.kids[p]]) /\ KeysApart(v, case)

LEMMA KeysDifferIs ==
  ASSUME NEW v \in Trees, NEW case \in BOOLEAN
  PROVE  KeysDiffer(v, case) <=>
           (\A p \in DOMAIN v.kids : KeysDiffer(v.kids[p], case)) /\ KeysApart(v, case)
<1> DEFINE V == BOOLEAN
           g == [z \in Trees \X [Trees -> V] |-> KeysWith(z[1], case, z[2])]
           Solved(f) == f = [x \in Trees |-> KeysWith(x, case, f)]
           d == CHOOSE f : Solved(f)
<1>1. Height \in [Trees -> Nat]
  BY TreeAssumption
<1>2. FALSE \in V /\ g \in [Trees \X [Trees -> V] -> V]
  BY DEF KeysWith
<1>3. DependsBelow(g, Trees, V, Height)
  <2>1. ASSUME NEW x \in Trees, NEW f \in [Trees -> V], NEW k \in [Trees -> V],
               \A y \in Trees : Height[y] < Height[x] => f[y] = k[y]
        PROVE  g[<<x, f>>] = g[<<x, k>>]
    <3>1. \A p \in DOMAIN x.kids : f[x.kids[p]] = k[x.kids[p]]
      BY <2>1, KidsInside
    <3>2. KeysWith(x, case, f) = KeysWith(x, case, k)
      BY <3>1 DEF KeysWith
    <3> QED BY <3>2
  <2> HIDE DEF g, V
  <2> QED BY <2>1 DEF DependsBelow
<1>4. \E f : Solves(f, g, Trees, V)
  <2> HIDE DEF g, V
  <2> QED BY <1>1, <1>2, <1>3, Descent
<1>5. \E f : Solved(f)
  <2>1. PICK f : Solves(f, g, Trees, V)
    BY <1>4
  <2>2. f \in [Trees -> V] /\ \A x \in Trees : f[x] = KeysWith(x, case, f)
    BY <2>1 DEF Solves
  <2>3. f = [x \in Trees |-> f[x]]
    BY <2>2
  <2>4. f = [x \in Trees |-> KeysWith(x, case, f)]
    BY <2>2, <2>3
  <2> QED BY <2>4
<1>6. d = [x \in Trees |-> KeysWith(x, case, d)]
  <2> HIDE DEF Solved
  <2>1. Solved(d)
    BY <1>5
  <2> HIDE DEF d
  <2> QED BY <2>1 DEF Solved
<1>7. \A x : KeysDiffer(x, case) = d[x]
  BY DEF KeysDiffer, KeysWith, KeysApart
<1> HIDE DEF d
<1> QED BY <1>6, <1>7 DEF KeysWith

PlacesWith(v, f) == {<<>>} \cup UNION {{<<p>> \o q : q \in f[v.kids[p]]} : p \in DOMAIN v.kids}

\* z is the place of v, or leads on from one of the items inside.
IsPlace(z, v, f) ==
  z = <<>> \/ \E p \in DOMAIN v.kids : \E q \in f[v.kids[p]] : z = <<p>> \o q

LEMMA PlacesWithAre ==
  ASSUME NEW v, NEW f, NEW z
  PROVE  z \in PlacesWith(v, f) <=> IsPlace(z, v, f)
<1> DEFINE In(p) == {<<p>> \o q : q \in f[v.kids[p]]}
           All == {In(p) : p \in DOMAIN v.kids}
<1>1. \A p : z \in In(p) <=> \E q \in f[v.kids[p]] : z = <<p>> \o q
  OBVIOUS
<1>2. z \in UNION All <=> \E p \in DOMAIN v.kids : z \in In(p)
  <2> HIDE DEF In
  <2> QED OBVIOUS
<1>3. PlacesWith(v, f) = {<<>>} \cup UNION All
  BY DEF PlacesWith
<1> HIDE DEF In, All
<1> QED BY <1>1, <1>2, <1>3 DEF IsPlace

LEMMA PlacesAre ==
  ASSUME NEW v \in Trees
  PROVE  /\ Places(v) \subseteq Seq(Nat)
         /\ \A z : z \in Places(v) <=>
              z = <<>> \/ \E p \in DOMAIN v.kids : \E q \in Places(v.kids[p]) : z = <<p>> \o q
<1> DEFINE V == SUBSET Seq(Nat)
           g == [z \in Trees \X [Trees -> V] |-> PlacesWith(z[1], z[2])]
           Solved(f) == f = [x \in Trees |-> PlacesWith(x, f)]
           d == CHOOSE f : Solved(f)
<1>1. Height \in [Trees -> Nat]
  BY TreeAssumption
<1>2. ASSUME NEW x \in Trees, NEW f, \A p \in DOMAIN x.kids : f[x.kids[p]] \in V
      PROVE  PlacesWith(x, f) \in V
  <2>1. DOMAIN x.kids \subseteq Nat
    BY KidsInside
  <2>2. ASSUME NEW p \in DOMAIN x.kids, NEW q \in f[x.kids[p]] PROVE <<p>> \o q \in Seq(Nat)
    <3>1. p \in Nat /\ q \in Seq(Nat)
      BY <1>2, <2>1
    <3> QED BY <3>1
  <2>3. <<>> \in Seq(Nat)
    OBVIOUS
  <2>4. ASSUME NEW z \in PlacesWith(x, f) PROVE z \in Seq(Nat)
    <3>1. IsPlace(z, x, f)
      BY PlacesWithAre
    <3> QED BY <2>2, <2>3, <3>1 DEF IsPlace
  <2> QED BY <2>4
<1>3. {} \in V /\ g \in [Trees \X [Trees -> V] -> V]
  <2>1. \A x \in Trees, f \in [Trees -> V] : PlacesWith(x, f) \in V
    <3> HIDE DEF V
    <3> QED BY <1>2, KidsInside
  <2> QED BY <2>1
<1>4. DependsBelow(g, Trees, V, Height)
  <2>1. ASSUME NEW x \in Trees, NEW f \in [Trees -> V], NEW k \in [Trees -> V],
               \A y \in Trees : Height[y] < Height[x] => f[y] = k[y]
        PROVE  g[<<x, f>>] = g[<<x, k>>]
    <3>1. \A p \in DOMAIN x.kids : f[x.kids[p]] = k[x.kids[p]]
      BY <2>1, KidsInside
    <3>2. PlacesWith(x, f) = PlacesWith(x, k)
      <4>1. \A z : IsPlace(z, x, f) <=> IsPlace(z, x, k)
        BY <3>1 DEF IsPlace
      <4>2. \A z : z \in PlacesWith(x, f) <=> z \in PlacesWith(x, k)
        BY <4>1, PlacesWithAre
      <4> QED BY <4>2
    <3> QED BY <3>2
  <2> HIDE DEF g, V
  <2> QED BY <2>1 DEF DependsBelow
<1>5. \E f : Solves(f, g, Trees, V)
  <2> HIDE DEF g, V
  <2> QED BY <1>1, <1>3, <1>4, Descent
<1>6. \E f : Solved(f)
  <2>1. PICK f : Solves(f, g, Trees, V)
    BY <1>5
  <2>2. f \in [Trees -> V] /\ \A x \in Trees : f[x] = PlacesWith(x, f)
    BY <2>1 DEF Solves
  <2>3. f = [x \in Trees |-> f[x]]
    BY <2>2
  <2>4. f = [x \in Trees |-> PlacesWith(x, f)]
    BY <2>2, <2>3
  <2> QED BY <2>4
<1>7. d = [x \in Trees |-> PlacesWith(x, d)]
  <2> HIDE DEF Solved
  <2>1. Solved(d)
    BY <1>6
  <2> HIDE DEF d
  <2> QED BY <2>1 DEF Solved
<1>8. \A x : Places(x) = d[x]
  BY DEF Places, PlacesWith
<1> HIDE DEF d
<1>9. \A x \in Trees : d[x] = PlacesWith(x, d)
  BY <1>7
<1> DEFINE S == {x \in Trees : d[x] \in V}
<1>10. Trees \subseteq S
  <2>1. ASSUME NEW x \in Trees, \A p \in DOMAIN x.kids : x.kids[p] \in S PROVE x \in S
    BY <1>2, <1>9, <2>1
  <2> HIDE DEF S
  <2> QED BY <2>1, TreeInduction
<1>11. d[v] \in V
  BY <1>10
<1>12. \A z : z \in d[v] <=> IsPlace(z, v, d)
  BY <1>9, PlacesWithAre
<1> QED BY <1>8, <1>11, <1>12 DEF IsPlace

\* What an item says depends on what the items inside say.
LEMMA DescribeDepends ==
  ASSUME NEW v, NEW f, NEW k, \A p \in DOMAIN v.kids : f[v.kids[p]] = k[v.kids[p]]
  PROVE  Describe(v, f) = Describe(v, k)
<1> DEFINE At(p) == IF v.type = "object" THEN v.kids[p].name ELSE <<p>>
<1>1. \A p \in DOMAIN v.kids : <<At(p), f[v.kids[p]]>> = <<At(p), k[v.kids[p]]>>
  OBVIOUS
<1> HIDE DEF At
<1>2. {<<At(p), f[v.kids[p]]>> : p \in DOMAIN v.kids} = {<<At(p), k[v.kids[p]]>> : p \in DOMAIN v.kids}
  BY <1>1
<1> QED BY <1>2 DEF Describe, At

\* The items of a height less than n, and a function that says what these mean.
HeightBelow(n) == {x \in Trees : Height[x] < n}
SaysBelow(f, n) == f = [x \in HeightBelow(n) |-> Describe(x, f)]

LEMMA SaysBelowIs ==
  ASSUME NEW n, NEW f, SaysBelow(f, n), NEW x \in HeightBelow(n)
  PROVE  f[x] = Describe(x, f)
BY DEF SaysBelow

\* Two such functions agree, and there is one for every n.
LEMMA SaysAlike ==
  ASSUME NEW n \in Nat, NEW m \in Nat, NEW f, NEW k, SaysBelow(f, n), SaysBelow(k, m),
         NEW x \in HeightBelow(n) \cap HeightBelow(m)
  PROVE  f[x] = k[x]
<1> DEFINE S == {v \in Trees : v \in HeightBelow(n) \cap HeightBelow(m) => f[v] = k[v]}
<1>1. ASSUME NEW v \in Trees, \A p \in DOMAIN v.kids : v.kids[p] \in S PROVE v \in S
  <2>1. CASE v \in HeightBelow(n) \cap HeightBelow(m)
    <3>1. \A p \in DOMAIN v.kids : v.kids[p] \in HeightBelow(n) \cap HeightBelow(m)
      <4>1. Height[v] < n /\ Height[v] < m
        BY <2>1 DEF HeightBelow
      <4> QED BY <4>1, KidsInside DEF HeightBelow
    <3>2. Describe(v, f) = Describe(v, k)
      BY <1>1, <3>1, DescribeDepends
    <3> QED BY <2>1, <3>2, SaysBelowIs
  <2> QED BY <2>1
<1> HIDE DEF S
<1>2. Trees \subseteq S
  BY <1>1, TreeInduction
<1> QED BY <1>2 DEF S, HeightBelow

LEMMA SaysExists == \A n \in Nat : \E f : SaysBelow(f, n)
<1> DEFINE S == {n \in Nat : \E f : SaysBelow(f, n)}
<1>1. 0 \in S
  <2>1. HeightBelow(0) = {}
    BY TreeAssumption DEF HeightBelow
  <2>2. SaysBelow([x \in {} |-> x], 0)
    BY <2>1 DEF SaysBelow
  <2> QED BY <2>2
<1>2. ASSUME NEW n \in Nat, n \in S PROVE n + 1 \in S
  <2>1. PICK f : SaysBelow(f, n)
    BY <1>2
  <2> DEFINE k == [x \in HeightBelow(n + 1) |-> Describe(x, f)]
  <2>2. ASSUME NEW x \in HeightBelow(n) PROVE k[x] = f[x]
    <3>1. x \in HeightBelow(n + 1)
      BY TreeAssumption DEF HeightBelow
    <3> QED BY <2>1, <3>1, SaysBelowIs
  <2>3. ASSUME NEW x \in HeightBelow(n + 1) PROVE Describe(x, f) = Describe(x, k)
    <3>1. ASSUME NEW p \in DOMAIN x.kids PROVE x.kids[p] \in HeightBelow(n)
      <4>1. x \in Trees /\ Height[x] < n + 1
        BY DEF HeightBelow
      <4> QED BY <4>1, KidsInside DEF HeightBelow
    <3>2. \A p \in DOMAIN x.kids : k[x.kids[p]] = f[x.kids[p]]
      BY <2>2, <3>1
    <3> HIDE DEF k
    <3> QED BY <3>2, DescribeDepends
  <2>4. SaysBelow(k, n + 1)
    <3>1. k = [x \in HeightBelow(n + 1) |-> Describe(x, f)]
      OBVIOUS
    <3> HIDE DEF k
    <3>2. [x \in HeightBelow(n + 1) |-> Describe(x, f)] = [x \in HeightBelow(n + 1) |-> Describe(x, k)]
      BY <2>3
    <3> QED BY <3>1, <3>2 DEF SaysBelow
  <2> HIDE DEF k
  <2> QED BY <2>4
<1> HIDE DEF S
<1>3. Nat \subseteq S
  BY <1>1, <1>2, Induction
<1> QED BY <1>3 DEF S

\* The function that Meaning(v) is a value of.
MeaningIn == CHOOSE f : f = [x \in Trees |-> Describe(x, f)]

LEMMA MeaningIs ==
  ASSUME NEW v \in Trees
  PROVE  /\ Meaning(v) = MeaningIn[v]
         /\ Meaning(v) = Describe(v, MeaningIn)
<1> DEFINE Up(n) == CHOOSE f : SaysBelow(f, n)
           m == [x \in Trees |-> Up(Height[x] + 1)[x]]
           Solved(f) == f = [x \in Trees |-> Describe(x, f)]
<1>1. \A n \in Nat : SaysBelow(Up(n), n)
  BY SaysExists
<1>2. ASSUME NEW x \in Trees PROVE m[x] = Describe(x, m)
  <2> DEFINE n == Height[x] + 1
             f == Up(n)
  <2>1. n \in Nat /\ x \in HeightBelow(n) /\ SaysBelow(f, n) /\ m[x] = f[x]
    BY <1>1, TreeAssumption DEF HeightBelow
  <2>2. ASSUME NEW p \in DOMAIN x.kids PROVE m[x.kids[p]] = f[x.kids[p]]
    <3> DEFINE y == x.kids[p]
               l == Height[y] + 1
    <3>1. y \in Trees /\ l \in Nat /\ y \in HeightBelow(l) /\ y \in HeightBelow(n)
      BY KidsInside DEF HeightBelow
    <3>2. m[y] = Up(l)[y] /\ SaysBelow(Up(l), l)
      BY <1>1, <3>1
    <3> HIDE DEF y, l, n, f, m, Up
    <3>3. Up(l)[y] = f[y]
      BY <2>1, <3>1, <3>2, SaysAlike
    <3> QED BY <3>2, <3>3 DEF y
  <2>3. Describe(x, m) = Describe(x, f)
    <3> HIDE DEF m, f
    <3> QED BY <2>2, DescribeDepends
  <2>4. f[x] = Describe(x, f)
    <3> HIDE DEF n, f
    <3> QED BY <2>1, SaysBelowIs
  <2> QED BY <2>1, <2>3, <2>4
<1>3. m = [x \in Trees |-> m[x]]
  OBVIOUS
<1> HIDE DEF m
<1>4. [x \in Trees |-> m[x]] = [x \in Trees |-> Describe(x, m)]
  BY <1>2
<1>5. Solved(m)
  BY <1>3, <1>4
<1>6. MeaningIn = CHOOSE f : Solved(f)
  BY DEF MeaningIn
<1> HIDE DEF Solved
<1>7. Solved(MeaningIn)
  BY <1>5, <1>6
<1>8. MeaningIn = [x \in Trees |-> Describe(x, MeaningIn)]
  BY <1>7 DEF Solved
<1>9. Meaning(v) = MeaningIn[v]
  BY DEF Meaning, MeaningIn
<1> QED BY <1>8, <1>9

\* What two items say is the same if their own parts are, and what is inside.
KeyOf(v, p) == IF v.type = "object" THEN v.kids[p].name ELSE <<p>>

SaidIn(v, w) ==
  \A p \in DOMAIN v.kids : \E q \in DOMAIN w.kids :
    KeyOf(v, p) = KeyOf(w, q) /\ Meaning(v.kids[p]) = Meaning(w.kids[q])

LEMMA SameMeaning ==
  ASSUME NEW v \in Trees, NEW w \in Trees
  PROVE  Meaning(v) = Meaning(w) <=>
           /\ v.type = w.type /\ v.str = w.str /\ v.num = w.num
           /\ SaidIn(v, w) /\ SaidIn(w, v)
<1> DEFINE Kids(x) == {<<KeyOf(x, p), Meaning(x.kids[p])>> : p \in DOMAIN x.kids}
<1>1. ASSUME NEW x \in Trees
      PROVE  Meaning(x) = [type |-> x.type, str |-> x.str, num |-> x.num, kids |-> Kids(x)]
  <2>1. \A p \in DOMAIN x.kids : MeaningIn[x.kids[p]] = Meaning(x.kids[p])
    BY KidsInside, MeaningIs
  <2>2. {<<KeyOf(x, p), MeaningIn[x.kids[p]]>> : p \in DOMAIN x.kids} = Kids(x)
    BY <2>1
  <2>3. Describe(x, MeaningIn) =
          [type |-> x.type, str |-> x.str, num |-> x.num,
           kids |-> {<<KeyOf(x, p), MeaningIn[x.kids[p]]>> : p \in DOMAIN x.kids}]
    BY DEF Describe, KeyOf
  <2> HIDE DEF Kids
  <2> QED BY <2>2, <2>3, MeaningIs
<1>2. ASSUME NEW x, NEW y PROVE SaidIn(x, y) <=> Kids(x) \subseteq Kids(y)
  <2> DEFINE e(z, p) == <<KeyOf(z, p), Meaning(z.kids[p])>>
  <2>1. \A p, q : e(x, p) = e(y, q) <=>
                    KeyOf(x, p) = KeyOf(y, q) /\ Meaning(x.kids[p]) = Meaning(y.kids[q])
    OBVIOUS
  <2>2. SaidIn(x, y) <=> \A p \in DOMAIN x.kids : \E q \in DOMAIN y.kids : e(x, p) = e(y, q)
    BY <2>1 DEF SaidIn
  <2> HIDE DEF e
  <2>3. Kids(x) \subseteq Kids(y) <=> \A p \in DOMAIN x.kids : \E q \in DOMAIN y.kids : e(x, p) = e(y, q)
    <3>1. Kids(x) = {e(x, p) : p \in DOMAIN x.kids} /\ Kids(y) = {e(y, p) : p \in DOMAIN y.kids}
      BY DEF e
    <3> HIDE DEF Kids
    <3> QED BY <3>1
  <2> QED BY <2>2, <2>3
<1>3. Kids(v) = Kids(w) <=> SaidIn(v, w) /\ SaidIn(w, v)
  <2> HIDE DEF Kids
  <2>1. SaidIn(v, w) <=> Kids(v) \subseteq Kids(w)
    BY <1>2
  <2>2. SaidIn(w, v) <=> Kids(w) \subseteq Kids(v)
    BY <1>2
  <2> QED BY <2>1, <2>2
<1> HIDE DEF Kids
<1>4. /\ Meaning(v) = [type |-> v.type, str |-> v.str, num |-> v.num, kids |-> Kids(v)]
      /\ Meaning(w) = [type |-> w.type, str |-> w.str, num |-> w.num, kids |-> Kids(w)]
  BY <1>1
<1> QED BY <1>3, <1>4

\* With their case, two strings compare equal if they are the same.
LEMMA SameKey ==
  ASSUME NEW s \in Seq(Byte), NEW t \in Seq(Byte)
  PROVE  CompareStrings(s, t, TRUE) = 0 <=> s = t
<1>1. \A c : Lower(c, TRUE) = c
  BY DEF Lower
<1>2. CompareStrings(s, t, TRUE) = 0 <=> Len(s) = Len(t) /\ \A p \in 1 .. Len(s) : s[p] = t[p]
  <2> DEFINE case == TRUE
  <2>1. case \in BOOLEAN /\ \A c : Lower(c, case) = c
    BY <1>1
  <2>2. CompareStrings(s, t, case) = 0 <=> Len(s) = Len(t) /\ \A p \in 1 .. Len(s) : s[p] = t[p]
    <3> HIDE DEF case
    <3> QED BY <2>1, SameString
  <2> QED BY <2>2
<1>3. s = t <=> Len(s) = Len(t) /\ \A p \in 1 .. Len(s) : s[p] = t[p]
  OBVIOUS
<1> QED BY <1>2, <1>3

\* The member of an object that has a key.
LEMMA MemberIs ==
  ASSUME NEW v \in Trees, v.type = "object", KeysApart(v, TRUE), NEW s \in Seq(Byte)
  PROVE  LET k == GetObjectItem(v, s, TRUE)
         IN  /\ k # 0 => k \in DOMAIN v.kids /\ v.kids[k].name = s
             /\ \A q \in DOMAIN v.kids : v.kids[q].name = s => k = q /\ k # 0
<1> DEFINE k == GetObjectItem(v, s, TRUE)
<1>1. \A p \in DOMAIN v.kids : v.kids[p].name \in Seq(Byte) /\ v.kids[p].name # NoName
  BY KeyType DEF KeysApart
<1>2. /\ k # 0 => k \in DOMAIN v.kids
      /\ k # 0 => CompareStrings(s, v.kids[k].name, TRUE) = 0
      /\ k = 0 => \A p \in DOMAIN v.kids : CompareStrings(s, v.kids[p].name, TRUE) # 0
  BY <1>1, ObjectItemIs
<1>3. 0 \notin DOMAIN v.kids
  BY KidsInside
<1> HIDE DEF k
<1>4. k # 0 => k \in DOMAIN v.kids /\ v.kids[k].name = s
  BY <1>1, <1>2, SameKey
<1>5. ASSUME NEW q \in DOMAIN v.kids, v.kids[q].name = s PROVE k = q /\ k # 0
  <2>1. k # 0
    BY <1>1, <1>2, <1>5, SameKey
  <2>2. v.kids[k].name = v.kids[q].name /\ k \in DOMAIN v.kids
    BY <1>4, <1>5, <2>1
  <2>3. CompareStrings(v.kids[k].name, v.kids[q].name, TRUE) = 0
    BY <1>1, <2>2, SameKey
  <2> QED BY <2>1, <2>2, <2>3 DEF KeysApart
<1> QED BY <1>4, <1>5 DEF k

\* What is found of two items, when that is right for the items inside.
RightInside(a, b) ==
  \A p \in DOMAIN a.kids, q \in DOMAIN b.kids :
    Compare(a.kids[p], b.kids[q], TRUE) <=> Meaning(a.kids[p]) = Meaning(b.kids[q])

LEMMA SameObjects ==
  ASSUME NEW a \in Trees, NEW b \in Trees, a.type = "object", b.type = "object",
         KeysApart(b, TRUE), KeysApart(a, TRUE), RightInside(a, b)
  PROVE  SaidIn(a, b) <=>
           \A p \in DOMAIN a.kids :
             LET q == GetObjectItem(b, a.kids[p].name, TRUE)
             IN  q # 0 /\ Compare(a.kids[p], b.kids[q], TRUE)
<1> DEFINE At(p) == GetObjectItem(b, a.kids[p].name, TRUE)
<1>1. ASSUME NEW p \in DOMAIN a.kids
      PROVE  /\ At(p) # 0 => At(p) \in DOMAIN b.kids /\ b.kids[At(p)].name = a.kids[p].name
             /\ \A q \in DOMAIN b.kids : b.kids[q].name = a.kids[p].name => At(p) = q /\ At(p) # 0
  <2>1. a.kids[p].name \in Seq(Byte)
    BY KeyType DEF KeysApart
  <2> QED BY <2>1, MemberIs
<1>2. SaidIn(a, b) <=>
        \A p \in DOMAIN a.kids : \E q \in DOMAIN b.kids :
          b.kids[q].name = a.kids[p].name /\ Compare(a.kids[p], b.kids[q], TRUE)
  BY DEF SaidIn, KeyOf, RightInside
<1> HIDE DEF At
<1>3. SaidIn(a, b) <=> \A p \in DOMAIN a.kids : At(p) # 0 /\ Compare(a.kids[p], b.kids[At(p)], TRUE)
  BY <1>1, <1>2
<1> QED BY <1>3 DEF At

LEMMA SameArrays ==
  ASSUME NEW a \in Trees, NEW b \in Trees, a.type = "array", b.type = "array", RightInside(a, b)
  PROVE  SaidIn(a, b) /\ SaidIn(b, a) <=>
           /\ Len(a.kids) = Len(b.kids)
           /\ \A p \in DOMAIN a.kids : Compare(a.kids[p], b.kids[p], TRUE)
<1>1. /\ Len(a.kids) \in Nat /\ DOMAIN a.kids = 1 .. Len(a.kids)
      /\ Len(b.kids) \in Nat /\ DOMAIN b.kids = 1 .. Len(b.kids)
  BY KidsInside
<1>2. \A p, q : KeyOf(a, p) = KeyOf(b, q) <=> p = q
  BY DEF KeyOf
<1>3. SaidIn(a, b) <=>
        \A p \in DOMAIN a.kids : p \in DOMAIN b.kids /\ Meaning(a.kids[p]) = Meaning(b.kids[p])
  BY <1>2 DEF SaidIn
<1>4. SaidIn(b, a) <=>
        \A p \in DOMAIN b.kids : p \in DOMAIN a.kids /\ Meaning(a.kids[p]) = Meaning(b.kids[p])
  BY <1>2 DEF SaidIn
<1>5. Len(a.kids) = Len(b.kids) <=> DOMAIN a.kids = DOMAIN b.kids
  BY <1>1
<1>6. DOMAIN a.kids \subseteq DOMAIN b.kids /\ DOMAIN b.kids \subseteq DOMAIN a.kids
        <=> DOMAIN a.kids = DOMAIN b.kids
  OBVIOUS
<1>7. SaidIn(a, b) /\ SaidIn(b, a) <=>
        /\ DOMAIN a.kids = DOMAIN b.kids
        /\ \A p \in DOMAIN a.kids : Meaning(a.kids[p]) = Meaning(b.kids[p])
  BY <1>3, <1>4, <1>6
<1> QED BY <1>5, <1>7 DEF RightInside

\* With keys that differ, what is found is whether the two items say the same.
LEMMA CompareMeaning ==
  \A a, b \in Trees :
    KeysDiffer(a, TRUE) /\ KeysDiffer(b, TRUE) =>
      (Compare(a, b, TRUE) <=> Meaning(a) = Meaning(b))
<1> DEFINE S == {a \in Trees : \A b \in Trees :
                   KeysDiffer(a, TRUE) /\ KeysDiffer(b, TRUE) =>
                     (Compare(a, b, TRUE) <=> Meaning(a) = Meaning(b))}
<1>1. ASSUME NEW a \in Trees, \A p \in DOMAIN a.kids : a.kids[p] \in S PROVE a \in S
  <2>1. ASSUME NEW b \in Trees, KeysDiffer(a, TRUE), KeysDiffer(b, TRUE)
        PROVE  Compare(a, b, TRUE) <=> Meaning(a) = Meaning(b)
    <3>1. /\ \A p \in DOMAIN a.kids : KeysDiffer(a.kids[p], TRUE)
          /\ \A p \in DOMAIN b.kids : KeysDiffer(b.kids[p], TRUE)
          /\ KeysApart(a, TRUE) /\ KeysApart(b, TRUE)
      BY <2>1, KeysDifferIs
    <3>2. /\ \A p \in DOMAIN a.kids : a.kids[p] \in Trees
          /\ \A p \in DOMAIN b.kids : b.kids[p] \in Trees
      BY KidsInside
    <3>3. RightInside(a, b) /\ RightInside(b, a)
      <4>1. RightInside(a, b)
        BY <1>1, <3>1, <3>2 DEF RightInside
      <4>2. \A x, y \in Trees : Compare(x, y, TRUE) <=> Compare(y, x, TRUE)
        BY CompareIsSymmetric
      <4> QED BY <3>2, <4>1, <4>2 DEF RightInside
    <3> DEFINE Members(x, y) ==
                 \A p \in DOMAIN x.kids :
                   LET q == GetObjectItem(y, x.kids[p].name, TRUE)
                   IN  q # 0 /\ Compare(x.kids[p], y.kids[q], TRUE)
               Elements ==
                 /\ Len(a.kids) = Len(b.kids)
                 /\ \A p \in DOMAIN a.kids : Compare(a.kids[p], b.kids[p], TRUE)
    <3>4. Compare(a, b, TRUE) <=>
            /\ a.type = b.type
            /\ a.type = "number" => a.num = b.num
            /\ a.type = "string" => a.str = b.str
            /\ a.type = "array" => Elements
            /\ a.type = "object" => Members(a, b) /\ Members(b, a)
      BY CompareSays
    <3>5. a.type = "object" /\ b.type = "object" =>
            (SaidIn(a, b) /\ SaidIn(b, a) <=> Members(a, b) /\ Members(b, a))
      <4>1. a.type = "object" /\ b.type = "object" => (SaidIn(a, b) <=> Members(a, b))
        BY <3>1, <3>3, SameObjects
      <4>2. a.type = "object" /\ b.type = "object" => (SaidIn(b, a) <=> Members(b, a))
        BY <3>1, <3>3, SameObjects
      <4> QED BY <4>1, <4>2
    <3>6. a.type = "array" /\ b.type = "array" => (SaidIn(a, b) /\ SaidIn(b, a) <=> Elements)
      BY <3>3, SameArrays
    <3> HIDE DEF Members, Elements
    <3>7. \A x, y \in Trees : x.type \notin {"array", "object"} => SaidIn(x, y)
      <4>1. \A x \in Trees : x.type \notin {"array", "object"} => x.kids = <<>>
        BY TreeAssumption
      <4>2. DOMAIN <<>> = {}
        OBVIOUS
      <4> QED BY <4>1, <4>2 DEF SaidIn
    <3>8. \A x \in Trees : /\ x.type # "string" => x.str = <<>>
                           /\ x.type # "number" => x.num = 0
      BY TreeAssumption
    <3>9. Meaning(a) = Meaning(b) <=>
            /\ a.type = b.type /\ a.str = b.str /\ a.num = b.num
            /\ SaidIn(a, b) /\ SaidIn(b, a)
      BY SameMeaning
    <3>10. a.type # b.type => ~Compare(a, b, TRUE) /\ Meaning(a) # Meaning(b)
      BY <3>4, <3>9
    <3>11. ASSUME a.type = b.type
           PROVE  /\ a.num = b.num <=> (a.type = "number" => a.num = b.num)
                  /\ a.str = b.str <=> (a.type = "string" => a.str = b.str)
      BY <3>8, <3>11
    <3>12. ASSUME a.type = b.type
           PROVE  SaidIn(a, b) /\ SaidIn(b, a) <=>
                    /\ a.type = "array" => Elements
                    /\ a.type = "object" => Members(a, b) /\ Members(b, a)
      <4>1. CASE a.type = "array"
        BY <3>6, <3>12, <4>1
      <4>2. CASE a.type = "object"
        BY <3>5, <3>12, <4>2
      <4>3. CASE a.type \notin {"array", "object"}
        BY <3>7, <3>12, <4>3
      <4> QED BY <4>1, <4>2, <4>3
    <3> QED BY <3>4, <3>9, <3>10, <3>11, <3>12
  <2> QED BY <2>1
<1> HIDE DEF S
<1>2. Trees \subseteq S
  BY <1>1, TreeInduction
<1> QED BY <1>2 DEF S

\* What is kept of the last call is what Compare finds.
CompareInv ==
  \A c \in compared :
    c.a \in Trees /\ c.b \in Trees /\ c.case \in BOOLEAN /\ c.same = Compare(c.a, c.b, c.case)

LEMMA CompareInvImplies ==
  ASSUME CompareInv
  PROVE  CompareIsEquality
<1> SUFFICES ASSUME NEW c \in compared
             PROVE  /\ c.same <=> Compare(c.b, c.a, c.case)
                    /\ c.case /\ KeysDiffer(c.a, TRUE) /\ KeysDiffer(c.b, TRUE) =>
                         (c.same <=> Meaning(c.a) = Meaning(c.b))
  BY DEF CompareIsEquality
<1>1. c.a \in Trees /\ c.b \in Trees /\ c.case \in BOOLEAN /\ c.same = Compare(c.a, c.b, c.case)
  BY DEF CompareInv
<1>2. Compare(c.a, c.b, c.case) <=> Compare(c.b, c.a, c.case)
  BY <1>1, CompareIsSymmetric
<1>3. KeysDiffer(c.a, TRUE) /\ KeysDiffer(c.b, TRUE) =>
        (Compare(c.a, c.b, TRUE) <=> Meaning(c.a) = Meaning(c.b))
  BY <1>1, CompareMeaning
<1>4. c.case => c.case = TRUE
  BY <1>1
<1> QED BY <1>1, <1>2, <1>3, <1>4

\* cJSON_Compare finds the same whichever item comes first; with their case, and keys
\* that differ, it finds whether the two items say the same.
THEOREM CompareCorrect == CompareSpec => []CompareIsEquality
<1>1. CompareInit => CompareInv
  BY DEF CompareInit, CompareInv
<1>2. CompareInv /\ [CompareNext]_compared => CompareInv'
  <2> SUFFICES ASSUME CompareInv, [CompareNext]_compared PROVE CompareInv'
    OBVIOUS
  <2>1. CASE UNCHANGED compared
    BY <2>1 DEF CompareInv
  <2>2. ASSUME NEW a \in Trees, NEW b \in Trees, NEW case \in BOOLEAN, CompareItems(a, b, case)
        PROVE  CompareInv'
    BY <2>2 DEF CompareItems, CompareInv
  <2> QED BY <2>1, <2>2 DEF CompareNext
<1>3. CompareInv => CompareIsEquality
  BY CompareInvImplies
<1> QED BY <1>1, <1>2, <1>3, PTL DEF CompareSpec

----------------------------------------------------------------------------
(* The text of a key in a pointer, and what matches it.                    *)

Plain == Byte \ {Slash}

\* The texts of the first n bytes of s.
KeyTexts(text, s) ==
  /\ text \in [0 .. Len(s) -> Seq(Plain)]
  /\ text[0] = <<>>
  /\ \A n \in 1 .. Len(s) : text[n] = text[n - 1] \o EncodedByte(s[n])
  /\ EncodeString(s) = text[Len(s)]

LEMMA EncodedByteType ==
  ASSUME NEW c \in Byte
  PROVE  /\ EncodedByte(c) \in Seq(Plain)
         /\ Len(EncodedByte(c)) = IF c \in {Slash, Tilde} THEN 2 ELSE 1
         /\ Len(EncodedByte(c)) >= 1
<1>1. Tilde \in Plain /\ Zero \in Plain /\ One \in Plain /\ Slash # Tilde
  BY DEF Tilde, Zero, One, Plain, Slash, Byte
<1>2. CASE c = Slash
  BY <1>1, <1>2 DEF EncodedByte
<1>3. CASE c = Tilde
  BY <1>1, <1>3 DEF EncodedByte
<1>4. CASE c \notin {Slash, Tilde}
  <2>1. c \in Plain
    BY <1>4 DEF Plain
  <2> QED BY <1>4, <2>1 DEF EncodedByte
<1> QED BY <1>2, <1>3, <1>4

LEMMA TextsExist ==
  ASSUME NEW s \in Seq(Byte)
  PROVE  \E text : KeyTexts(text, s)
<1> DEFINE T == Seq(Plain)
           h == [z \in T \X Byte |-> z[1] \o EncodedByte(z[2])]
           Solved(f) == f = [n \in 0 .. Len(s) |-> IF n = 0 THEN <<>> ELSE f[n - 1] \o EncodedByte(s[n])]
           d == CHOOSE f : Solved(f)
<1>1. <<>> \in T /\ h \in [T \X Byte -> T]
  <2>1. \A c \in Byte : EncodedByte(c) \in T
    BY EncodedByteType
  <2> QED BY <2>1
<1>2. PICK f \in [0 .. Len(s) -> T] : Along(f, s, <<>>, h)
  <2> HIDE DEF T, h
  <2> QED BY <1>1, RecursionAlong
<1>3. f = [n \in 0 .. Len(s) |-> IF n = 0 THEN <<>> ELSE h[<<f[n - 1], s[n]>>]]
  BY <1>2 DEF Along
<1>4. ASSUME NEW n \in 1 .. Len(s) PROVE h[<<f[n - 1], s[n]>>] = f[n - 1] \o EncodedByte(s[n])
  <2>1. n - 1 \in 0 .. Len(s) /\ s[n] \in Byte
    OBVIOUS
  <2>2. f[n - 1] \in T
    <3> HIDE DEF T
    <3> QED BY <2>1
  <2> HIDE DEF T
  <2> QED BY <2>1, <2>2
<1>5. Solved(f)
  <2> HIDE DEF h
  <2>1. \A n \in 0 .. Len(s) : n # 0 => n \in 1 .. Len(s)
    OBVIOUS
  <2>2. [n \in 0 .. Len(s) |-> IF n = 0 THEN <<>> ELSE h[<<f[n - 1], s[n]>>]] =
        [n \in 0 .. Len(s) |-> IF n = 0 THEN <<>> ELSE f[n - 1] \o EncodedByte(s[n])]
    BY <1>4, <2>1
  <2> QED BY <1>3, <2>2
<1>6. d = [n \in 0 .. Len(s) |-> IF n = 0 THEN <<>> ELSE d[n - 1] \o EncodedByte(s[n])]
  <2> HIDE DEF Solved
  <2>1. Solved(d)
    BY <1>5
  <2> HIDE DEF d
  <2> QED BY <2>1 DEF Solved
<1>7. EncodeString(s) = d[Len(s)]
  BY DEF EncodeString
<1> HIDE DEF d
<1>8. /\ d[0] = <<>>
      /\ \A n \in 1 .. Len(s) : d[n] = d[n - 1] \o EncodedByte(s[n])
      /\ DOMAIN d = 0 .. Len(s)
      /\ d = [n \in 0 .. Len(s) |-> d[n]]
  <2>1. 0 \in 0 .. Len(s) /\ \A n \in 1 .. Len(s) : n \in 0 .. Len(s) /\ n # 0
    OBVIOUS
  <2> QED BY <1>6, <2>1
<1> DEFINE S == {n \in Nat : n <= Len(s) => d[n] \in T}
<1>9. 0 \in S
  <2>1. d[0] = <<>> /\ <<>> \in T
    BY <1>1, <1>8
  <2> HIDE DEF T
  <2> QED BY <2>1
<1>10. ASSUME NEW n \in Nat, n \in S PROVE n + 1 \in S
  <2>1. CASE n + 1 <= Len(s)
    <3>1. n + 1 \in 1 .. Len(s) /\ (n + 1) - 1 = n /\ s[n + 1] \in Byte /\ n <= Len(s)
      BY <2>1
    <3>2. d[n + 1] = d[(n + 1) - 1] \o EncodedByte(s[n + 1])
      BY <1>8, <3>1
    <3>3. d[n] \in T
      <4> HIDE DEF T
      <4> QED BY <1>10, <3>1
    <3>4. EncodedByte(s[n + 1]) \in T
      BY <3>1, EncodedByteType
    <3>5. d[n] \o EncodedByte(s[n + 1]) \in T
      BY <3>3, <3>4
    <3>6. d[n + 1] = d[n] \o EncodedByte(s[n + 1])
      BY <3>1, <3>2
    <3>7. d[n + 1] \in T
      <4> HIDE DEF T
      <4> QED BY <3>5, <3>6
    <3> HIDE DEF T
    <3> QED BY <3>7
  <2> QED BY <2>1
<1>11. Nat \subseteq S
  <2> HIDE DEF S
  <2> QED BY <1>9, <1>10, Induction
<1>12. d \in [0 .. Len(s) -> T]
  <2>1. \A n \in 0 .. Len(s) : d[n] \in T
    BY <1>11
  <2> HIDE DEF T, S
  <2> QED BY <1>8, <2>1
<1> QED BY <1>7, <1>8, <1>12 DEF KeyTexts

\* Each of them begins as the longest one does.
LEMMA TextsPrefix ==
  ASSUME NEW s \in Seq(Byte), NEW text, KeyTexts(text, s), NEW n \in 0 .. Len(s), NEW k \in 0 .. n
  PROVE  /\ Len(text[k]) <= Len(text[n])
         /\ \A i \in 1 .. Len(text[k]) : text[n][i] = text[k][i]
         /\ k < n => Len(text[k]) < Len(text[n])
<1> DEFINE S == {m \in Nat : k + m <= Len(s) =>
                   /\ Len(text[k]) <= Len(text[k + m])
                   /\ \A i \in 1 .. Len(text[k]) : text[k + m][i] = text[k][i]
                   /\ 0 < m => Len(text[k]) < Len(text[k + m])}
<1>1. \A m \in 0 .. Len(s) : text[m] \in Seq(Plain)
  BY DEF KeyTexts
<1>2. k \in Nat /\ k \in 0 .. Len(s) /\ Len(s) \in Nat
  OBVIOUS
<1>3. 0 \in S
  BY <1>1, <1>2
<1>4. ASSUME NEW m \in Nat, m \in S PROVE m + 1 \in S
  <2>1. CASE k + (m + 1) <= Len(s)
    <3>1. /\ k + (m + 1) \in 1 .. Len(s) /\ (k + (m + 1)) - 1 = k + m
          /\ k + m \in 0 .. Len(s) /\ k + m <= Len(s)
      BY <1>2, <2>1
    <3> DEFINE a == text[k + m]
               e == EncodedByte(s[k + (m + 1)])
    <3>2. text[k + (m + 1)] = a \o e
      BY <3>1 DEF KeyTexts
    <3>3. a \in Seq(Plain) /\ e \in Seq(Plain) /\ Len(e) >= 1
      <4> DEFINE c == s[k + (m + 1)]
      <4>1. c \in Byte
        BY <3>1
      <4>2. a \in Seq(Plain)
        BY <1>1, <3>1
      <4>3. e = EncodedByte(c)
        OBVIOUS
      <4> HIDE DEF c, a, e
      <4>4. EncodedByte(c) \in Seq(Plain) /\ Len(EncodedByte(c)) >= 1
        BY <4>1, EncodedByteType
      <4> QED BY <4>2, <4>3, <4>4
    <3>4. text[k] \in Seq(Plain)
      BY <1>1, <1>2
    <3> HIDE DEF e
    <3>5. /\ Len(text[k]) <= Len(a)
          /\ \A i \in 1 .. Len(text[k]) : a[i] = text[k][i]
      BY <1>4, <3>1
    <3> HIDE DEF a
    <3>6. /\ Len(a \o e) = Len(a) + Len(e)
          /\ \A i \in 1 .. Len(a) : (a \o e)[i] = a[i]
      BY <3>3
    <3> QED BY <3>2, <3>3, <3>4, <3>5, <3>6
  <2> QED BY <2>1
<1>5. Nat \subseteq S
  <2> HIDE DEF S
  <2> QED BY <1>3, <1>4, Induction
<1>6. n - k \in Nat /\ k + (n - k) = n /\ k + (n - k) <= Len(s) /\ (k < n => 0 < n - k)
  BY <1>2
<1> QED BY <1>5, <1>6

\* Where the text of a byte stands.
StandsAt(e, m, t) ==
  m \in Nat /\ m + Len(e) <= Len(t) /\ \A i \in 1 .. Len(e) : t[m + i] = e[i]

LEMMA TextsByte ==
  ASSUME NEW s \in Seq(Byte), NEW text, KeyTexts(text, s), NEW n \in 1 .. Len(s)
  PROVE  /\ StandsAt(EncodedByte(s[n]), Len(text[n - 1]), EncodeString(s))
         /\ Len(text[n]) = Len(text[n - 1]) + Len(EncodedByte(s[n]))
<1> DEFINE e == EncodedByte(s[n])
           a == text[n - 1]
           t == text[Len(s)]
<1>1. t = EncodeString(s) /\ text[n] = a \o e
  BY DEF KeyTexts
<1>2. a \in Seq(Plain) /\ e \in Seq(Plain)
  <2>1. n - 1 \in 0 .. Len(s) /\ s[n] \in Byte
    OBVIOUS
  <2> QED BY <2>1, EncodedByteType DEF KeyTexts
<1>3. Len(text[n]) <= Len(t) /\ \A i \in 1 .. Len(text[n]) : t[i] = text[n][i]
  <2>1. Len(s) \in 0 .. Len(s) /\ n \in 0 .. Len(s)
    OBVIOUS
  <2> QED BY <2>1, TextsPrefix
<1> HIDE DEF e, a, t
<1>4. /\ Len(a \o e) = Len(a) + Len(e) /\ Len(a) \in Nat /\ Len(e) \in Nat
      /\ \A i \in 1 .. Len(e) : (a \o e)[Len(a) + i] = e[i] /\ Len(a) + i \in 1 .. Len(a) + Len(e)
  BY <1>2
<1>5. \A i \in 1 .. Len(e) : t[Len(a) + i] = e[i]
  BY <1>1, <1>3, <1>4
<1>6. Len(text[n]) = Len(a) + Len(e)
  BY <1>1, <1>4
<1>7. StandsAt(e, Len(a), EncodeString(s))
  BY <1>1, <1>3, <1>4, <1>5, <1>6 DEF StandsAt
<1> QED BY <1>6, <1>7 DEF e, a

LEMMA SameByte ==
  ASSUME NEW c \in Byte, NEW d \in Byte, NEW case \in BOOLEAN
  PROVE  CompareStrings(<<c>>, <<d>>, case) = 0 <=> Lower(c, case) = Lower(d, case)
<1> DEFINE x == <<c>>
           y == <<d>>
<1>1. x \in Seq(Byte) /\ y \in Seq(Byte) /\ Len(x) = 1 /\ Len(y) = 1 /\ x[1] = c /\ y[1] = d
  OBVIOUS
<1> HIDE DEF x, y
<1>2. CompareStrings(x, y, case) = 0 <=>
        Len(x) = Len(y) /\ \A p \in 1 .. Len(x) : Lower(x[p], case) = Lower(y[p], case)
  BY <1>1, SameString
<1>3. CompareStrings(x, y, case) = 0 <=> Lower(c, case) = Lower(d, case)
  BY <1>1, <1>2
<1> QED BY <1>3 DEF x, y

\* Only itself is the same as a byte that is escaped.
LEMMA LowerEscaped ==
  ASSUME NEW c \in Byte, NEW d \in {Slash, Tilde}, NEW case \in BOOLEAN
  PROVE  Lower(c, case) = Lower(d, case) <=> c = d
<1>1. d \in {47, 126} /\ c \in Int
  BY DEF Slash, Tilde, Byte
<1>2. Lower(d, case) = d
  BY <1>1 DEF Lower
<1>3. c # d => Lower(c, case) # d
  BY <1>1 DEF Lower
<1> QED BY <1>2, <1>3

\* What is compared behind the text of the bytes before.
LEMMA MatchByteIs ==
  ASSUME NEW s \in Seq(Byte), NEW text, KeyTexts(text, s), NEW n \in 1 .. Len(s),
         NEW c \in Byte, NEW case \in BOOLEAN
  PROVE  MatchByte(c, EncodeString(s), Len(text[n - 1]) + 1, case) =
           IF Lower(c, case) = Lower(s[n], case) THEN Len(text[n]) + 1 ELSE 0
<1> DEFINE t == EncodeString(s)
           d == s[n]
           e == EncodedByte(d)
           m == Len(text[n - 1])
<1>1. d \in Byte
  OBVIOUS
<1>2. /\ m \in Nat /\ Len(text[n]) = m + Len(e) /\ m + Len(e) <= Len(t)
      /\ \A i \in 1 .. Len(e) : t[m + i] = e[i]
  <2>1. StandsAt(e, m, t) /\ Len(text[n]) = m + Len(e)
    BY TextsByte
  <2> HIDE DEF e, m, t
  <2> QED BY <2>1 DEF StandsAt
<1>3. t \in Seq(Plain)
  <2>1. Len(s) \in 0 .. Len(s)
    OBVIOUS
  <2> QED BY <2>1 DEF KeyTexts
<1>4. Len(t) \in Nat /\ DOMAIN t = 1 .. Len(t)
  BY <1>3
<1> HIDE DEF t, m, e, d
<1>5. CASE d \in {Slash, Tilde}
  <2> DEFINE o == IF d = Slash THEN One ELSE Zero
  <2>1. e = <<Tilde, o>> /\ Slash # Tilde
    BY <1>5 DEF e, EncodedByte, Slash, Tilde
  <2>2. Len(e) = 2 /\ e[1] = Tilde /\ e[2] = o
    BY <2>1
  <2>3. /\ t[m + 1] = Tilde /\ t[(m + 1) + 1] = o
        /\ m + 1 \in DOMAIN t /\ m + 1 < Len(t)
    <3>1. 1 \in 1 .. Len(e) /\ 2 \in 1 .. Len(e) /\ m + 2 = (m + 1) + 1
      BY <1>2, <2>2
    <3>2. t[m + 1] = e[1] /\ t[m + 2] = e[2]
      BY <1>2, <3>1
    <3> QED BY <1>2, <1>4, <2>2, <3>1, <3>2
  <2>4. MatchByte(c, t, m + 1, case) =
          IF <<o, c>> \in {<<Zero, Tilde>>, <<One, Slash>>} THEN (m + 1) + 2 ELSE 0
    <3> HIDE DEF o
    <3> QED BY <2>3 DEF MatchByte
  <2>5. <<o, c>> \in {<<Zero, Tilde>>, <<One, Slash>>} <=> c = d
    BY <1>5 DEF One, Zero, Tilde, Slash
  <2>6. Lower(c, case) = Lower(d, case) <=> c = d
    BY <1>5, LowerEscaped
  <2>7. (m + 1) + 2 = Len(text[n]) + 1
    BY <1>2, <2>2
  <2> HIDE DEF o
  <2>8. MatchByte(c, t, m + 1, case) = IF c = d THEN Len(text[n]) + 1 ELSE 0
    BY <2>4, <2>5, <2>7
  <2>9. MatchByte(c, t, m + 1, case) =
          IF Lower(c, case) = Lower(d, case) THEN Len(text[n]) + 1 ELSE 0
    BY <2>6, <2>8
  <2> QED BY <2>9 DEF t, m, d
<1>6. CASE d \notin {Slash, Tilde}
  <2>1. e = <<d>>
    BY <1>6 DEF e, EncodedByte
  <2>2. Len(e) = 1 /\ e[1] = d
    BY <2>1
  <2>3. t[m + 1] = d /\ m + 1 \in DOMAIN t
    <3>1. 1 \in 1 .. Len(e)
      BY <2>2
    <3>2. t[m + 1] = e[1]
      BY <1>2, <3>1
    <3> QED BY <1>2, <1>4, <2>2, <3>2
  <2>4. MatchByte(c, t, m + 1, case) = IF CompareStrings(<<c>>, <<d>>, case) = 0 THEN (m + 1) + 1 ELSE 0
    BY <1>6, <2>3 DEF MatchByte
  <2>5. CompareStrings(<<c>>, <<d>>, case) = 0 <=> Lower(c, case) = Lower(d, case)
    BY <1>1, SameByte
  <2>6. (m + 1) + 1 = Len(text[n]) + 1
    BY <1>2, <2>2
  <2>7. MatchByte(c, t, m + 1, case) =
          IF Lower(c, case) = Lower(d, case) THEN Len(text[n]) + 1 ELSE 0
    BY <2>4, <2>5, <2>6
  <2> QED BY <2>7 DEF t, m, d
<1> QED BY <1>5, <1>6

\* The first k bytes of x are those of s.
SameUpTo(x, s, k, case) ==
  k <= Len(s) /\ \A p \in 1 .. k : Lower(x[p], case) = Lower(s[p], case)

\* A key matches what stands for the same key, and nothing else that stands for a key.
LEMMA MatchesIs ==
  ASSUME NEW x \in Seq(Byte), NEW s \in Seq(Byte), NEW case \in BOOLEAN
  PROVE  Matches(x, EncodeString(s), case) <=> CompareStrings(x, s, case) = 0
<1> DEFINE t == EncodeString(s)
           h == [z \in Nat \X Byte |-> MatchByte(z[2], t, z[1], case)]
           Solved(f) == f = [n \in 0 .. Len(x) |-> IF n = 0 THEN 1 ELSE MatchByte(x[n], t, f[n - 1], case)]
           d == CHOOSE f : Solved(f)
<1>1. PICK text : KeyTexts(text, s)
  BY TextsExist
<1>2. 1 \in Nat /\ h \in [Nat \X Byte -> Nat]
  <2>1. \A c \in Byte, k \in Nat : MatchByte(c, t, k, case) \in Nat
    BY DEF MatchByte
  <2> QED BY <2>1
<1>3. PICK f \in [0 .. Len(x) -> Nat] : Along(f, x, 1, h)
  <2> HIDE DEF h
  <2> QED BY <1>2, RecursionAlong
<1>4. f = [n \in 0 .. Len(x) |-> IF n = 0 THEN 1 ELSE h[<<f[n - 1], x[n]>>]]
  BY <1>3 DEF Along
<1>5. ASSUME NEW n \in 1 .. Len(x) PROVE h[<<f[n - 1], x[n]>>] = MatchByte(x[n], t, f[n - 1], case)
  <2>1. n - 1 \in 0 .. Len(x) /\ x[n] \in Byte
    OBVIOUS
  <2>2. f[n - 1] \in Nat
    BY <2>1
  <2> QED BY <2>1, <2>2
<1>6. Solved(f)
  <2> HIDE DEF h, t
  <2>1. \A n \in 0 .. Len(x) : n # 0 => n \in 1 .. Len(x)
    OBVIOUS
  <2>2. [n \in 0 .. Len(x) |-> IF n = 0 THEN 1 ELSE h[<<f[n - 1], x[n]>>]] =
        [n \in 0 .. Len(x) |-> IF n = 0 THEN 1 ELSE MatchByte(x[n], t, f[n - 1], case)]
    BY <1>5, <2>1
  <2> QED BY <1>4, <2>2
<1>7. d = [n \in 0 .. Len(x) |-> IF n = 0 THEN 1 ELSE MatchByte(x[n], t, d[n - 1], case)]
  <2> HIDE DEF Solved
  <2>1. Solved(d)
    BY <1>6
  <2> HIDE DEF d
  <2> QED BY <2>1 DEF Solved
<1>8. Matches(x, t, case) <=> x # NoName /\ d[Len(x)] = Len(t) + 1
  BY DEF Matches
<1>9. x # NoName
  BY NotNoName
<1> HIDE DEF d, t
<1>10. d[0] = 1
  <2>1. 0 \in 0 .. Len(x)
    OBVIOUS
  <2> QED BY <1>7, <2>1
<1>11. ASSUME NEW n \in 1 .. Len(x) PROVE d[n] = MatchByte(x[n], t, d[n - 1], case)
  <2>1. n \in 0 .. Len(x) /\ n # 0
    OBVIOUS
  <2> QED BY <1>7, <2>1
<1>12. /\ t = text[Len(s)] /\ t = EncodeString(s) /\ text[0] = <<>>
       /\ \A n \in 0 .. Len(s) : text[n] \in Seq(Plain)
  BY <1>1 DEF KeyTexts, t
<1>13. Len(t) \in Nat /\ DOMAIN t = 1 .. Len(t) /\ Len(x) \in Nat /\ Len(s) \in Nat
  <2>1. Len(s) \in 0 .. Len(s)
    OBVIOUS
  <2> QED BY <1>12, <2>1
<1>14. \A c, k : k \in {0, Len(t) + 1} => MatchByte(c, t, k, case) = 0
  BY <1>13 DEF MatchByte
<1> DEFINE Up(n) == SameUpTo(x, s, n, case)
           S == {n \in Nat : n <= Len(x) => d[n] = IF Up(n) THEN Len(text[n]) + 1 ELSE 0}
<1>15. 0 \in S
  <2>1. Up(0)
    BY <1>13 DEF SameUpTo
  <2>2. Len(text[0]) = 0
    BY <1>12
  <2> QED BY <1>10, <2>1, <2>2
<1>16. ASSUME NEW n \in Nat, n \in S PROVE n + 1 \in S
  <2> SUFFICES ASSUME n + 1 <= Len(x) PROVE d[n + 1] = IF Up(n + 1) THEN Len(text[n + 1]) + 1 ELSE 0
    OBVIOUS
  <2>1. n + 1 \in 1 .. Len(x) /\ (n + 1) - 1 = n /\ x[n + 1] \in Byte
    BY <1>13
  <2>2. d[n + 1] = MatchByte(x[n + 1], t, d[n], case)
    BY <1>11, <2>1
  <2>3. d[n] = IF Up(n) THEN Len(text[n]) + 1 ELSE 0
    BY <1>13, <1>16
  <2>4. Up(n + 1) <=> Up(n) /\ n + 1 <= Len(s) /\ Lower(x[n + 1], case) = Lower(s[n + 1], case)
    BY <1>13 DEF SameUpTo
  <2> HIDE DEF Up, S
  <2>5. CASE ~Up(n)
    BY <1>14, <2>2, <2>3, <2>4, <2>5
  <2>6. CASE Up(n) /\ n + 1 <= Len(s)
    <3>1. n + 1 \in 1 .. Len(s)
      BY <1>13, <2>6
    <3> DEFINE j == n + 1
    <3>2. j \in 1 .. Len(s) /\ j - 1 = n
      BY <3>1
    <3> HIDE DEF j
    <3>3. MatchByte(x[n + 1], t, Len(text[j - 1]) + 1, case) =
            IF Lower(x[n + 1], case) = Lower(s[j], case) THEN Len(text[j]) + 1 ELSE 0
      BY <1>1, <1>12, <2>1, <3>2, MatchByteIs
    <3>4. MatchByte(x[n + 1], t, Len(text[n]) + 1, case) =
            IF Lower(x[n + 1], case) = Lower(s[n + 1], case) THEN Len(text[n + 1]) + 1 ELSE 0
      BY <3>2, <3>3 DEF j
    <3> QED BY <2>2, <2>3, <2>4, <2>6, <3>4
  <2>7. CASE Up(n) /\ ~(n + 1 <= Len(s))
    <3>1. n = Len(s)
      BY <1>13, <2>7 DEF Up, SameUpTo
    <3>2. d[n] = Len(t) + 1
      BY <1>12, <2>3, <2>7, <3>1
    <3> QED BY <1>14, <2>2, <2>4, <2>7, <3>2
  <2> QED BY <2>5, <2>6, <2>7
<1>17. Nat \subseteq S
  <2> HIDE DEF S
  <2> QED BY <1>15, <1>16, Induction
<1>18. d[Len(x)] = IF Up(Len(x)) THEN Len(text[Len(x)]) + 1 ELSE 0
  BY <1>13, <1>17
<1>19. Up(Len(x)) /\ Len(x) < Len(s) => Len(text[Len(x)]) # Len(t)
  <2> SUFFICES ASSUME Len(x) < Len(s) PROVE Len(text[Len(x)]) # Len(t)
    OBVIOUS
  <2> DEFINE k == Len(x)
             l == Len(s)
  <2>1. k \in 0 .. l /\ l \in 0 .. Len(s) /\ k < l
    BY <1>13
  <2>2. Len(text[k]) < Len(text[l])
    <3> HIDE DEF k
    <3> QED BY <1>1, <2>1, TextsPrefix
  <2>3. Len(text[k]) \in Nat /\ Len(text[l]) = Len(t)
    BY <1>12, <2>1
  <2> QED BY <1>13, <2>2, <2>3
<1>20. Up(Len(x)) => Len(x) <= Len(s) /\ (Len(x) = Len(s) => text[Len(x)] = t)
  BY <1>12 DEF SameUpTo
<1>21. d[Len(x)] = Len(t) + 1 <=> Up(Len(x)) /\ Len(x) = Len(s)
  <2>1. 0 # Len(t) + 1
    BY <1>13
  <2>2. Up(Len(x)) => Len(text[Len(x)]) \in Nat
    BY <1>12, <1>13, <1>20
  <2> HIDE DEF Up, S
  <2> QED BY <1>13, <1>18, <1>19, <1>20, <2>1, <2>2
<1>22. Up(Len(x)) /\ Len(x) = Len(s) <=> CompareStrings(x, s, case) = 0
  BY <1>13, SameString DEF SameUpTo
<1> QED BY <1>8, <1>9, <1>21, <1>22 DEF t

----------------------------------------------------------------------------
(* Indices.                                                                *)

LEMMA PowersAre ==
  /\ Powers[1] = 1 /\ Powers[2] = 10 /\ Powers[3] = 100 /\ Powers[4] = 1000
  /\ Powers[5] = 10000 /\ Powers[6] = 100000 /\ Powers[7] = 1000000
  /\ Powers[8] = 10000000 /\ Powers[9] = 100000000 /\ Powers[10] = 1000000000
BY DEF Powers

LEMMA PowersType == \A i \in 1 .. 10 : Powers[i] \in Nat /\ Powers[i] > 0
<1>1. \A i \in 1 .. 10 : i \in {1, 2, 3, 4, 5, 6, 7, 8, 9, 10}
  OBVIOUS
<1> QED BY <1>1, PowersAre

LEMMA PowersGrow == \A i, j \in 1 .. 10 : i <= j => Powers[i] <= Powers[j]
<1>1. ASSUME NEW i \in 1 .. 9 PROVE Powers[i] \in Nat /\ Powers[i + 1] \in Nat /\ Powers[i] <= Powers[i + 1]
  <2>1. i \in {1, 2, 3, 4, 5, 6, 7, 8, 9}
    OBVIOUS
  <2> QED BY <2>1, PowersAre
<1> DEFINE S == {n \in Nat : \A i \in 1 .. 10 : i + n \in 1 .. 10 => Powers[i] <= Powers[i + n]}
<1>2. \A i \in 1 .. 10 : Powers[i] \in Nat
  BY PowersType
<1>3. 0 \in S
  BY <1>2
<1>4. ASSUME NEW n \in Nat, n \in S PROVE n + 1 \in S
  <2>1. ASSUME NEW i \in 1 .. 10, i + (n + 1) \in 1 .. 10 PROVE Powers[i] <= Powers[i + (n + 1)]
    <3> DEFINE j == i + n
    <3>1. j \in 1 .. 9 /\ j \in 1 .. 10 /\ j + 1 = i + (n + 1) /\ j + 1 \in 1 .. 10
      BY <2>1
    <3>2. Powers[i] <= Powers[j]
      BY <1>4, <3>1
    <3> HIDE DEF j
    <3>3. Powers[j] <= Powers[j + 1]
      BY <1>1, <3>1
    <3>4. Powers[i] \in Nat /\ Powers[j] \in Nat /\ Powers[j + 1] \in Nat
      BY <1>2, <3>1
    <3>5. Powers[i] <= Powers[j + 1]
      BY <3>2, <3>3, <3>4
    <3> QED BY <3>1, <3>5
  <2> QED BY <2>1
<1>5. Nat \subseteq S
  <2> HIDE DEF S
  <2> QED BY <1>3, <1>4, Induction
<1>6. ASSUME NEW i \in 1 .. 10, NEW j \in 1 .. 10, i <= j PROVE Powers[i] <= Powers[j]
  <2>1. j - i \in Nat /\ i + (j - i) = j
    BY <1>6
  <2> QED BY <1>5, <2>1
<1> QED BY <1>6

\* m is a number of c digits.
DigitsOf(m, c) == c \in 1 .. 9 /\ m < Powers[c + 1] /\ (c = 1 \/ Powers[c] <= m)

DigitAt(m, c, p) == (m \div Powers[c - p + 1]) % 10

LEMMA DigitsExist ==
  ASSUME NEW m \in Nat, m < Powers[10]
  PROVE  \E c : DigitsOf(m, c)
<1>1. m < 1000000000
  BY PowersAre
<1>2. CASE m < 10
  <2>1. DigitsOf(m, 1)
    BY <1>2, PowersAre DEF DigitsOf
  <2> QED BY <2>1
<1>3. CASE m >= 10 /\ m < 100
  <2>1. DigitsOf(m, 2)
    BY <1>3, PowersAre DEF DigitsOf
  <2> QED BY <2>1
<1>4. CASE m >= 100 /\ m < 1000
  <2>1. DigitsOf(m, 3)
    BY <1>4, PowersAre DEF DigitsOf
  <2> QED BY <2>1
<1>5. CASE m >= 1000 /\ m < 10000
  <2>1. DigitsOf(m, 4)
    BY <1>5, PowersAre DEF DigitsOf
  <2> QED BY <2>1
<1>6. CASE m >= 10000 /\ m < 100000
  <2>1. DigitsOf(m, 5)
    BY <1>6, PowersAre DEF DigitsOf
  <2> QED BY <2>1
<1>7. CASE m >= 100000 /\ m < 1000000
  <2>1. DigitsOf(m, 6)
    BY <1>7, PowersAre DEF DigitsOf
  <2> QED BY <2>1
<1>8. CASE m >= 1000000 /\ m < 10000000
  <2>1. DigitsOf(m, 7)
    BY <1>8, PowersAre DEF DigitsOf
  <2> QED BY <2>1
<1>9. CASE m >= 10000000 /\ m < 100000000
  <2>1. DigitsOf(m, 8)
    BY <1>9, PowersAre DEF DigitsOf
  <2> QED BY <2>1
<1>10. CASE m >= 100000000
  <2>1. DigitsOf(m, 9)
    BY <1>1, <1>10, PowersAre DEF DigitsOf
  <2> QED BY <2>1
<1> QED BY <1>2, <1>3, <1>4, <1>5, <1>6, <1>7, <1>8, <1>9, <1>10

LEMMA DecimalIs ==
  ASSUME NEW m \in Nat, NEW c, DigitsOf(m, c)
  PROVE  Decimal(m) = [p \in 1 .. c |-> 48 + DigitAt(m, c, p)]
<1> DEFINE T == {k \in 2 .. 10 : m >= Powers[k]}
<1>1. c \in 1 .. 9 /\ m < Powers[c + 1] /\ (c = 1 \/ Powers[c] <= m)
  BY DEF DigitsOf
<1>2. \A i \in 1 .. 10 : Powers[i] \in Nat /\ Powers[i] > 0
  BY PowersType
<1>3. T = 2 .. c
  <2>1. ASSUME NEW k \in T PROVE k \in 2 .. c
    <3>1. k \in 2 .. 10 /\ m >= Powers[k] /\ k \in 1 .. 10 /\ c + 1 \in 1 .. 10
      BY <1>1
    <3>2. CASE k >= c + 1
      <4>1. Powers[c + 1] <= Powers[k]
        BY <1>1, <3>1, <3>2, PowersGrow
      <4>2. Powers[k] \in Nat /\ Powers[c + 1] \in Nat
        BY <1>2, <3>1
      <4> QED BY <1>1, <3>1, <4>1, <4>2
    <3> QED BY <1>1, <3>1, <3>2
  <2>2. ASSUME NEW k \in 2 .. c PROVE k \in T
    <3>1. k \in 2 .. 10 /\ k \in 1 .. 10 /\ c \in 1 .. 10 /\ c # 1 /\ k <= c
      BY <1>1
    <3>2. Powers[k] <= Powers[c] /\ Powers[c] <= m
      BY <1>1, <3>1, PowersGrow
    <3>3. Powers[k] \in Nat /\ Powers[c] \in Nat
      BY <1>2, <3>1
    <3>4. m >= Powers[k]
      BY <3>2, <3>3
    <3> QED BY <3>1, <3>4
  <2> HIDE DEF T
  <2> QED BY <2>1, <2>2
<1>4. Cardinality(2 .. c) = IF 2 > c THEN 0 ELSE c - 2 + 1
  <2>1. \A a, b \in Int : Cardinality(a .. b) = IF a > b THEN 0 ELSE b - a + 1
    BY FS_Interval
  <2>2. 2 \in Int /\ c \in Int
    BY <1>1
  <2> QED BY <2>1, <2>2, Zenon
<1>5. 1 + Cardinality(T) = c
  <2> DEFINE k == Cardinality(2 .. c)
  <2>1. k = IF 2 > c THEN 0 ELSE c - 2 + 1
    BY <1>4
  <2> HIDE DEF k
  <2>2. 1 + k = c
    BY <1>1, <2>1
  <2> HIDE DEF T
  <2> QED BY <1>3, <2>2 DEF k
<1>6. ~(m < 0)
  OBVIOUS
<1> DEFINE count == 1 + Cardinality(T)
<1>7. Decimal(m) = <<>> \o [p \in 1 .. count |-> 48 + ((m \div Powers[count - p + 1]) % 10)]
  BY <1>6 DEF Decimal
<1> HIDE DEF T, count
<1>8. count = c
  BY <1>5 DEF count
<1> DEFINE t == [p \in 1 .. c |-> 48 + DigitAt(m, c, p)]
<1>9. Decimal(m) = <<>> \o t
  BY <1>7, <1>8 DEF DigitAt
<1>10. t \in Seq(Int)
  <2>1. \A p \in 1 .. c : 48 + DigitAt(m, c, p) \in Int
    <3>1. ASSUME NEW p \in 1 .. c PROVE 48 + DigitAt(m, c, p) \in Int
      <4>1. c - p + 1 \in 1 .. 10
        BY <1>1
      <4>2. Powers[c - p + 1] \in Nat /\ Powers[c - p + 1] > 0
        BY <1>2, <4>1
      <4>3. m \div Powers[c - p + 1] \in Int
        BY <4>2
      <4>4. DigitAt(m, c, p) \in Int
        BY <4>3 DEF DigitAt
      <4> QED BY <4>4
    <3> QED BY <3>1
  <2>2. c \in Nat
    BY <1>1
  <2> QED BY <2>1, <2>2, IsASeq
<1> HIDE DEF t
<1>11. <<>> \o t = t
  BY <1>10, ConcatEmptySeq
<1> QED BY <1>9, <1>11 DEF t

\* What is divided by more than itself.
LEMMA DividedByMore ==
  ASSUME NEW m \in Nat, NEW j \in 2 .. 10, m < Powers[j]
  PROVE  m \div Powers[j] = 0
<1>1. CASE j = 2
  BY <1>1, PowersAre
<1>2. CASE j = 3
  BY <1>2, PowersAre
<1>3. CASE j = 4
  BY <1>3, PowersAre
<1>4. CASE j = 5
  BY <1>4, PowersAre
<1>5. CASE j = 6
  BY <1>5, PowersAre
<1>6. CASE j = 7
  BY <1>6, PowersAre
<1>7. CASE j = 8
  BY <1>7, PowersAre
<1>8. CASE j = 9
  BY <1>8, PowersAre
<1>9. CASE j = 10
  BY <1>9, PowersAre
<1>10. j \in {2, 3, 4, 5, 6, 7, 8, 9, 10}
  OBVIOUS
<1> QED BY <1>1, <1>2, <1>3, <1>4, <1>5, <1>6, <1>7, <1>8, <1>9, <1>10

\* Dropping a digit.
LEMMA Horner ==
  ASSUME NEW m \in Nat, NEW j \in 1 .. 9
  PROVE  10 * (m \div Powers[j + 1]) + ((m \div Powers[j]) % 10) = m \div Powers[j]
<1>1. \A k \in Nat : 10 * (k \div 10) + (k % 10) = k
  OBVIOUS
<1>2. CASE j = 1
  <2>1. m \div 1 = m
    OBVIOUS
  <2> QED BY <1>1, <1>2, <2>1, PowersAre
<1>3. CASE j = 2
  <2>1. m \div 100 = (m \div 10) \div 10 /\ m \div 10 \in Nat
    OBVIOUS
  <2> QED BY <1>1, <1>3, <2>1, PowersAre
<1>4. CASE j = 3
  <2>1. m \div 1000 = (m \div 100) \div 10 /\ m \div 100 \in Nat
    OBVIOUS
  <2> QED BY <1>1, <1>4, <2>1, PowersAre
<1>5. CASE j = 4
  <2>1. m \div 10000 = (m \div 1000) \div 10 /\ m \div 1000 \in Nat
    OBVIOUS
  <2> QED BY <1>1, <1>5, <2>1, PowersAre
<1>6. CASE j = 5
  <2>1. m \div 100000 = (m \div 10000) \div 10 /\ m \div 10000 \in Nat
    OBVIOUS
  <2> QED BY <1>1, <1>6, <2>1, PowersAre
<1>7. CASE j = 6
  <2>1. m \div 1000000 = (m \div 100000) \div 10 /\ m \div 100000 \in Nat
    OBVIOUS
  <2> QED BY <1>1, <1>7, <2>1, PowersAre
<1>8. CASE j = 7
  <2>1. m \div 10000000 = (m \div 1000000) \div 10 /\ m \div 1000000 \in Nat
    OBVIOUS
  <2> QED BY <1>1, <1>8, <2>1, PowersAre
<1>9. CASE j = 8
  <2>1. m \div 100000000 = (m \div 10000000) \div 10 /\ m \div 10000000 \in Nat
    OBVIOUS
  <2> QED BY <1>1, <1>9, <2>1, PowersAre
<1>10. CASE j = 9
  <2>1. m \div 1000000000 = (m \div 100000000) \div 10 /\ m \div 100000000 \in Nat
    OBVIOUS
  <2> QED BY <1>1, <1>10, <2>1, PowersAre
<1>11. j \in {1, 2, 3, 4, 5, 6, 7, 8, 9}
  OBVIOUS
<1> QED BY <1>2, <1>3, <1>4, <1>5, <1>6, <1>7, <1>8, <1>9, <1>10, <1>11

LEMMA DigitType ==
  ASSUME NEW m \in Nat, NEW c, DigitsOf(m, c), NEW p \in 1 .. c
  PROVE  DigitAt(m, c, p) \in 0 .. 9
<1>1. c - p + 1 \in 1 .. 10
  BY DEF DigitsOf
<1>2. Powers[c - p + 1] \in Nat /\ Powers[c - p + 1] > 0
  BY <1>1, PowersType
<1>3. m \div Powers[c - p + 1] \in Int
  BY <1>2
<1>4. \A k \in Int : k % 10 \in 0 .. 9
  OBVIOUS
<1> QED BY <1>3, <1>4 DEF DigitAt

\* The first digit is not 0, but of 0 itself.
LEMMA FirstDigit ==
  ASSUME NEW m \in Nat, NEW c, DigitsOf(m, c), c # 1
  PROVE  DigitAt(m, c, 1) # 0
<1>1. /\ c \in {2, 3, 4, 5, 6, 7, 8, 9}
      /\ m < Powers[c + 1] /\ Powers[c] <= m
      /\ c - 1 + 1 = c
  BY DEF DigitsOf
<1>2. DigitAt(m, c, 1) = (m \div Powers[c]) % 10
  BY <1>1 DEF DigitAt
<1>3. CASE c = 2
  BY <1>1, <1>2, <1>3, PowersAre
<1>4. CASE c = 3
  BY <1>1, <1>2, <1>4, PowersAre
<1>5. CASE c = 4
  BY <1>1, <1>2, <1>5, PowersAre
<1>6. CASE c = 5
  BY <1>1, <1>2, <1>6, PowersAre
<1>7. CASE c = 6
  BY <1>1, <1>2, <1>7, PowersAre
<1>8. CASE c = 7
  BY <1>1, <1>2, <1>8, PowersAre
<1>9. CASE c = 8
  BY <1>1, <1>2, <1>9, PowersAre
<1>10. CASE c = 9
  BY <1>1, <1>2, <1>10, PowersAre
<1> QED BY <1>1, <1>3, <1>4, <1>5, <1>6, <1>7, <1>8, <1>9, <1>10

\* The digits of the texts of numbers.
IsText(t, m, c) == t \in Seq(Plain) /\ Len(t) = c /\ \A p \in 1 .. c : t[p] = 48 + DigitAt(m, c, p)

LEMMA DecimalText ==
  ASSUME NEW m \in Nat, NEW c, DigitsOf(m, c)
  PROVE  IsText(Decimal(m), m, c)
<1> DEFINE t == [p \in 1 .. c |-> 48 + DigitAt(m, c, p)]
<1>1. c \in Nat
  BY DEF DigitsOf
<1>2. \A p \in 1 .. c : 48 + DigitAt(m, c, p) \in Plain
  <2>1. \A k \in 0 .. 9 : 48 + k \in Plain
    BY DEF Plain, Byte, Slash
  <2> QED BY <2>1, DigitType
<1>3. t \in Seq(Plain) /\ Len(t) = c /\ \A p \in 1 .. c : t[p] = 48 + DigitAt(m, c, p)
  BY <1>1, <1>2
<1> HIDE DEF t
<1>4. Decimal(m) = t
  BY DecimalIs DEF t
<1> QED BY <1>3, <1>4 DEF IsText

\* An index is read back.
LEMMA DecodeDecimal ==
  ASSUME NEW m \in Nat, m < Powers[10]
  PROVE  DecodeIndex(Decimal(m)) = m /\ Decimal(m) \in Seq(Plain)
<1> DEFINE t == Decimal(m)
           h == [z \in Int \X Int |-> 10 * z[1] + z[2] - Zero]
           Solved(f) == f = [n \in 0 .. Len(t) |-> IF n = 0 THEN 0 ELSE 10 * f[n - 1] + t[n] - Zero]
           d == CHOOSE f : Solved(f)
           end == Max({p \in 0 .. Len(t) : \A q \in 1 .. p : t[q] >= Zero /\ t[1] <= Nine})
<1>1. PICK c : DigitsOf(m, c)
  BY DigitsExist
<1>2. t \in Seq(Plain) /\ Len(t) = c /\ \A p \in 1 .. c : t[p] = 48 + DigitAt(m, c, p)
  <2> HIDE DEF t
  <2>1. IsText(t, m, c)
    BY <1>1, DecimalText DEF t
  <2> QED BY <2>1 DEF IsText
<1>3. c \in 1 .. 9 /\ m < Powers[c + 1] /\ (c = 1 \/ Powers[c] <= m)
  BY <1>1 DEF DigitsOf
<1>4. \A p \in 1 .. c : DigitAt(m, c, p) \in 0 .. 9
  BY <1>1, DigitType
<1>5. DecodeIndex(t) = IF (Len(t) > 1 /\ t[1] = Zero) \/ end # Len(t) THEN -1 ELSE d[Len(t)]
  BY DEF DecodeIndex
<1> HIDE DEF t
<1>6. t \in Seq(Int)
  <2>1. \A k \in Plain : k \in Int
    BY DEF Plain, Byte
  <2> QED BY <1>2, <2>1
<1>7. ~(Len(t) > 1 /\ t[1] = Zero)
  <2>1. c # 1 => DigitAt(m, c, 1) # 0
    BY <1>1, FirstDigit
  <2>2. 1 \in 1 .. c
    BY <1>3
  <2>3. t[1] = 48 + DigitAt(m, c, 1) /\ DigitAt(m, c, 1) \in 0 .. 9
    BY <1>2, <1>4, <2>2
  <2> QED BY <1>2, <1>3, <2>1, <2>3 DEF Zero
<1>8. end = Len(t)
  <2>1. ASSUME NEW q \in 1 .. c PROVE t[q] >= Zero /\ t[q] <= Nine /\ t[1] <= Nine
    <3>1. 1 \in 1 .. c
      BY <1>3
    <3>2. t[q] = 48 + DigitAt(m, c, q) /\ DigitAt(m, c, q) \in 0 .. 9
      BY <1>2, <1>4
    <3>3. t[1] = 48 + DigitAt(m, c, 1) /\ DigitAt(m, c, 1) \in 0 .. 9
      BY <1>2, <1>4, <3>1
    <3> QED BY <3>2, <3>3 DEF Zero, Nine
  <2> DEFINE All == {p \in 0 .. Len(t) : \A q \in 1 .. p : t[q] >= Zero /\ t[1] <= Nine}
  <2>2. All = 0 .. c
    <3>1. ASSUME NEW p \in 0 .. c, NEW q \in 1 .. p PROVE q \in 1 .. c
      BY <1>3
    <3> QED BY <1>2, <2>1, <3>1
  <2>3. c \in 0 .. c /\ \A y \in 0 .. c : c >= y
    BY <1>3
  <2>4. \A x \in 0 .. c : (\A y \in 0 .. c : x >= y) => x = c
    BY <1>3
  <2>5. Max(0 .. c) = c
    BY <2>3, <2>4 DEF Max
  <2> HIDE DEF All
  <2>6. Max(All) = c
    BY <2>2, <2>5
  <2> QED BY <1>2, <2>6 DEF All
<1>9. 0 \in Int /\ h \in [Int \X Int -> Int]
  BY DEF Zero
<1>10. PICK f \in [0 .. Len(t) -> Int] : Along(f, t, 0, h)
  <2> DEFINE I == Int
  <2>1. 0 \in I /\ h \in [I \X Int -> I]
    BY <1>9
  <2> HIDE DEF h, I
  <2>2. \E f \in [0 .. Len(t) -> I] : Along(f, t, 0, h)
    BY <1>6, <2>1, RecursionAlong
  <2> QED BY <2>2 DEF I
<1>11. f = [n \in 0 .. Len(t) |-> IF n = 0 THEN 0 ELSE h[<<f[n - 1], t[n]>>]]
  BY <1>10 DEF Along
<1>12. ASSUME NEW n \in 1 .. Len(t) PROVE h[<<f[n - 1], t[n]>>] = 10 * f[n - 1] + t[n] - Zero
  <2>1. n - 1 \in 0 .. Len(t) /\ t[n] \in Int
    BY <1>6
  <2>2. f[n - 1] \in Int
    BY <2>1
  <2> QED BY <2>1, <2>2
<1>13. Solved(f)
  <2> HIDE DEF h
  <2>1. \A n \in 0 .. Len(t) : n # 0 => n \in 1 .. Len(t)
    BY <1>2, <1>3
  <2>2. [n \in 0 .. Len(t) |-> IF n = 0 THEN 0 ELSE h[<<f[n - 1], t[n]>>]] =
        [n \in 0 .. Len(t) |-> IF n = 0 THEN 0 ELSE 10 * f[n - 1] + t[n] - Zero]
    BY <1>12, <2>1
  <2> QED BY <1>11, <2>2
<1>14. d = [n \in 0 .. Len(t) |-> IF n = 0 THEN 0 ELSE 10 * d[n - 1] + t[n] - Zero]
  <2> HIDE DEF Solved
  <2>1. Solved(d)
    BY <1>13
  <2> HIDE DEF d
  <2> QED BY <2>1 DEF Solved
<1> HIDE DEF d, end
<1>15. d[0] = 0
  <2>1. 0 \in 0 .. Len(t)
    BY <1>2, <1>3
  <2> QED BY <1>14, <2>1
<1>16. ASSUME NEW n \in 1 .. c PROVE d[n] = 10 * d[n - 1] + t[n] - Zero
  <2>1. n \in 0 .. Len(t) /\ n # 0
    BY <1>2, <1>3
  <2> QED BY <1>14, <2>1
<1> DEFINE S == {n \in Nat : n <= c => d[n] = m \div Powers[c - n + 1]}
<1>17. 0 \in S
  <2>1. c - 0 + 1 = c + 1 /\ c + 1 \in {2, 3, 4, 5, 6, 7, 8, 9, 10}
    BY <1>3
  <2>2. m \div Powers[c + 1] = 0
    <3>1. \A j \in 2 .. 10 : m < Powers[j] => m \div Powers[j] = 0
      BY DividedByMore
    <3>2. c + 1 \in 2 .. 10
      BY <2>1
    <3> QED BY <1>3, <3>1, <3>2
  <2> QED BY <1>15, <2>1, <2>2
<1>18. ASSUME NEW n \in Nat, n \in S PROVE n + 1 \in S
  <2> SUFFICES ASSUME n + 1 <= c PROVE d[n + 1] = m \div Powers[c - (n + 1) + 1]
    OBVIOUS
  <2> DEFINE j == c - (n + 1) + 1
  <2>1. j \in 1 .. 9 /\ j + 1 = c - n + 1 /\ n + 1 \in 1 .. c /\ (n + 1) - 1 = n
    BY <1>3
  <2>2. d[n] = m \div Powers[c - n + 1]
    BY <1>3, <1>18
  <2>3. d[n] = m \div Powers[j + 1]
    <3> HIDE DEF j, S
    <3> QED BY <2>1, <2>2
  <2>4. t[n + 1] = 48 + ((m \div Powers[j]) % 10)
    <3>1. t[n + 1] = 48 + DigitAt(m, c, n + 1)
      BY <1>2, <2>1
    <3> QED BY <3>1 DEF DigitAt
  <2>5. d[n + 1] = 10 * d[n] + t[n + 1] - Zero
    <3>1. d[n + 1] = 10 * d[(n + 1) - 1] + t[n + 1] - Zero
      BY <1>16, <2>1
    <3> HIDE DEF S
    <3> QED BY <2>1, <3>1
  <2>6. m \div Powers[j] \in Int /\ m \div Powers[j + 1] \in Int
    <3> HIDE DEF j
    <3>1. j \in 1 .. 10 /\ j + 1 \in 1 .. 10
      BY <2>1
    <3>2. Powers[j] \in Nat /\ Powers[j] > 0 /\ Powers[j + 1] \in Nat /\ Powers[j + 1] > 0
      BY <3>1, PowersType
    <3> QED BY <3>2
  <2> DEFINE u == m \div Powers[j]
             w == m \div Powers[j + 1]
  <2>7. 10 * w + (u % 10) = u
    <3> HIDE DEF j
    <3> QED BY <2>1, Horner
  <2>8. d[n + 1] = 10 * w + (48 + (u % 10)) - 48
    BY <2>3, <2>4, <2>5 DEF Zero
  <2>9. u \in Int /\ w \in Int /\ u % 10 \in Int
    BY <2>6
  <2>10. 10 * w + (48 + (u % 10)) - 48 = u
    <3> HIDE DEF u, w
    <3> QED BY <2>7, <2>9
  <2> QED BY <2>8, <2>10
<1>19. Nat \subseteq S
  <2> HIDE DEF S
  <2> QED BY <1>17, <1>18, Induction
<1>20. d[c] = m
  <2>1. d[c] = m \div Powers[c - c + 1]
    BY <1>3, <1>19
  <2>2. c - c + 1 = 1
    BY <1>3
  <2>3. m \div 1 = m
    OBVIOUS
  <2> QED BY <2>1, <2>2, <2>3, PowersAre
<1> QED BY <1>2, <1>5, <1>7, <1>8, <1>20 DEF t

----------------------------------------------------------------------------
(* One token of a pointer.                                                 *)

\* What is left of a pointer begins a token, or nothing is left.
Goes(r) == r \in Seq(Byte) /\ (r = <<>> \/ r[1] = Slash)

LEMMA PlainText == ASSUME NEW s \in Seq(Plain) PROVE s \in Seq(Byte)
<1>1. \A c \in Plain : c \in Byte
  BY DEF Plain
<1> QED BY <1>1

LEMMA TokenIs ==
  ASSUME NEW tok \in Seq(Plain), NEW r, Goes(r)
  PROVE  Token(tok \o r) = tok
<1> DEFINE s == tok \o r
           E == {Len(s)} \cup {p - 1 : p \in {q \in DOMAIN s : s[q] = Slash}}
           n == Len(tok)
<1>1. tok \in Seq(Byte) /\ r \in Seq(Byte) /\ n \in Nat /\ (r = <<>> \/ r[1] = Slash)
  BY PlainText DEF Goes
<1>2. \A p \in 1 .. n : tok[p] # Slash
  <2>1. \A p \in 1 .. n : tok[p] \in Plain
    OBVIOUS
  <2> QED BY <2>1 DEF Plain
<1> HIDE DEF n
<1>3. /\ s \in Seq(Byte) /\ Len(s) = n + Len(r) /\ Len(r) \in Nat /\ DOMAIN s = 1 .. Len(s)
      /\ \A p \in 1 .. n : s[p] = tok[p]
      /\ \A p \in 1 .. Len(r) : s[n + p] = r[p]
  BY <1>1 DEF n
<1>4. Token(s) = SubSeq(s, 1, Min(E))
  BY DEF Token
<1>5. SubSeq(s, 1, n) = tok
  <2>1. SubSeq(s, 1, n) = [p \in 1 .. n |-> s[p]]
    BY <1>1, <1>3
  <2>2. tok = [p \in 1 .. n |-> tok[p]]
    BY <1>1 DEF n
  <2> HIDE DEF s
  <2> QED BY <1>3, <2>1, <2>2
<1> HIDE DEF s
<1>6. ASSUME NEW k \in E PROVE k \in Nat /\ n <= k
  <2>1. CASE k = Len(s)
    BY <1>1, <1>3, <2>1
  <2>2. ASSUME NEW p \in DOMAIN s, s[p] = Slash, k = p - 1 PROVE k \in Nat /\ n <= k
    <3>1. p \notin 1 .. n
      BY <1>2, <1>3, <2>2
    <3> QED BY <1>1, <1>3, <2>2, <3>1
  <2> QED BY <2>1, <2>2
<1>7. n \in E
  <2>1. CASE r = <<>>
    <3>1. Len(s) = n
      BY <1>1, <1>3, <2>1
    <3> QED BY <3>1
  <2>2. CASE r # <<>> /\ r[1] = Slash
    <3>1. Len(r) >= 1
      BY <1>1, <2>2
    <3>2. n + 1 \in DOMAIN s /\ 1 \in 1 .. Len(r)
      BY <1>1, <1>3, <3>1
    <3>3. s[n + 1] = Slash
      BY <1>3, <2>2, <3>2
    <3>4. (n + 1) - 1 = n
      BY <1>1
    <3> QED BY <3>2, <3>3, <3>4
  <2> QED BY <1>1, <2>1, <2>2
<1>8. Min(E) = n
  <2> HIDE DEF E
  <2>1. \A x \in E : (\A y \in E : x <= y) => x = n
    BY <1>1, <1>6, <1>7
  <2> QED BY <1>6, <1>7, <2>1 DEF Min
<1> QED BY <1>4, <1>5, <1>8 DEF s

LEMMA TokenForType ==
  ASSUME NEW v \in Trees, NEW p \in DOMAIN v.kids, NEW case \in BOOLEAN, KeysApart(v, case)
  PROVE  TokenFor(v, p) \in Seq(Plain)
<1>1. v.type \in {"array", "object"}
  <2>1. v.kids # <<>>
    BY KidsInside
  <2> QED BY <2>1, TreeAssumption
<1>2. CASE v.type = "array"
  <2>1. p - 1 \in Nat /\ p - 1 < Powers[10]
    <3>1. Len(v.kids) <= Powers[10] /\ p \in 1 .. Len(v.kids) /\ Len(v.kids) \in Nat
      BY KidsInside, TreeAssumption
    <3>2. Powers[10] \in Nat
      BY PowersType
    <3> QED BY <3>1, <3>2
  <2> QED BY <1>2, <2>1, DecodeDecimal DEF TokenFor
<1>3. CASE v.type = "object"
  <2>1. v.kids[p].name \in Seq(Byte)
    BY <1>3, KeyType DEF KeysApart
  <2>2. PICK text : KeyTexts(text, v.kids[p].name)
    BY <2>1, TextsExist
  <2>3. EncodeString(v.kids[p].name) \in Seq(Plain)
    <3>1. Len(v.kids[p].name) \in 0 .. Len(v.kids[p].name)
      BY <2>1
    <3> QED BY <2>2, <3>1 DEF KeyTexts
  <2> QED BY <1>3, <2>3 DEF TokenFor
<1> QED BY <1>1, <1>2, <1>3

\* The items that a token leads to.
FoundBy(v, t, case) ==
  {k \in DOMAIN v.kids : \/ v.type = "array" /\ k = DecodeIndex(t) + 1
                         \/ v.type = "object" /\ Matches(v.kids[k].name, t, case)}

LEMMA TokenFinds ==
  ASSUME NEW v \in Trees, NEW p \in DOMAIN v.kids, NEW case \in BOOLEAN, KeysApart(v, case)
  PROVE  FoundBy(v, TokenFor(v, p), case) = {p}
<1>1. v.type \in {"array", "object"}
  <2>1. v.kids # <<>>
    BY KidsInside
  <2> QED BY <2>1, TreeAssumption
<1>2. CASE v.type = "array"
  <2>1. p - 1 \in Nat /\ p - 1 < Powers[10]
    <3>1. Len(v.kids) <= Powers[10] /\ p \in 1 .. Len(v.kids) /\ Len(v.kids) \in Nat
      BY KidsInside, TreeAssumption
    <3>2. Powers[10] \in Nat
      BY PowersType
    <3> QED BY <3>1, <3>2
  <2>2. DecodeIndex(TokenFor(v, p)) = p - 1
    BY <1>2, <2>1, DecodeDecimal DEF TokenFor
  <2>3. (p - 1) + 1 = p
    BY KidsInside
  <2> QED BY <1>2, <2>2, <2>3 DEF FoundBy
<1>3. CASE v.type = "object"
  <2>1. \A k \in DOMAIN v.kids : v.kids[k].name \in Seq(Byte)
    BY <1>3, KeyType DEF KeysApart
  <2>2. TokenFor(v, p) = EncodeString(v.kids[p].name)
    BY <1>3 DEF TokenFor
  <2>3. \A k \in DOMAIN v.kids :
          Matches(v.kids[k].name, TokenFor(v, p), case) <=>
            CompareStrings(v.kids[k].name, v.kids[p].name, case) = 0
    BY <2>1, <2>2, MatchesIs
  <2>4. CompareStrings(v.kids[p].name, v.kids[p].name, case) = 0
    BY <2>1, SameString
  <2>5. \A k \in DOMAIN v.kids :
          CompareStrings(v.kids[k].name, v.kids[p].name, case) = 0 <=> k = p
    BY <1>3, <2>4 DEF KeysApart
  <2> QED BY <1>3, <2>3, <2>5 DEF FoundBy
<1> QED BY <1>1, <1>2, <1>3

LEMMA FollowTokenIs ==
  \A w, case :
    LET t == Token(Tail(w.rest))
        found == FoundBy(w.item, t, case)
    IN  FollowToken(w, case) =
          IF w.rest = <<>> \/ w.place = NoPlace THEN w
          ELSE IF w.rest[1] # Slash THEN w
          ELSE IF found = {} THEN [w EXCEPT !.place = NoPlace]
          ELSE [place |-> Append(w.place, Min(found)), item |-> w.item.kids[Min(found)],
                rest |-> SubSeq(w.rest, Len(t) + 2, Len(w.rest))]
BY DEF FollowToken, FoundBy

\* The token for what is at p in v leads there, and leaves r.
Leads(v, p, place, r, case) ==
  FollowToken([place |-> place, item |-> v, rest |-> <<Slash>> \o TokenFor(v, p) \o r], case) =
    [place |-> Append(place, p), item |-> v.kids[p], rest |-> r]

LEMMA TokenLeads ==
  ASSUME NEW v \in Trees, NEW p \in DOMAIN v.kids, NEW case \in BOOLEAN, KeysApart(v, case),
         NEW place, place # NoPlace, NEW r, Goes(r)
  PROVE  Leads(v, p, place, r, case)
<1> DEFINE tok == TokenFor(v, p)
           rest == <<Slash>> \o tok \o r
           w == [place |-> place, item |-> v, rest |-> rest]
           t == Token(Tail(w.rest))
           found == FoundBy(w.item, t, case)
<1>1. tok \in Seq(Plain) /\ tok \in Seq(Byte) /\ r \in Seq(Byte)
  BY TokenForType, PlainText DEF Goes
<1>2. FoundBy(v, tok, case) = {p}
  BY TokenFinds
<1> HIDE DEF tok
<1>3. Slash \in Byte
  BY DEF Slash, Byte
<1> DEFINE n == Len(tok)
<1>4. /\ rest \in Seq(Byte) /\ rest[1] = Slash /\ Len(rest) = 1 + n + Len(r) /\ n \in Nat /\ Len(r) \in Nat
      /\ \A i \in 1 .. n + Len(r) : rest[i + 1] = (tok \o r)[i]
      /\ \A i \in 1 .. Len(r) : rest[n + 1 + i] = r[i]
  BY <1>1, <1>3
<1>5. Tail(rest) = tok \o r
  <2> DEFINE a == tok \o r
  <2>1. a \in Seq(Byte) /\ Len(a) = n + Len(r)
    BY <1>1
  <2>2. \A i \in 1 .. n + Len(r) : rest[i + 1] = a[i]
    BY <1>4
  <2> HIDE DEF rest, a, n
  <2>3. rest # <<>> /\ Len(rest) = 1 + Len(a)
    BY <1>4, <2>1
  <2>4. /\ Tail(rest) \in Seq(Byte) /\ Len(Tail(rest)) = Len(a)
        /\ \A i \in 1 .. Len(Tail(rest)) : Tail(rest)[i] = rest[i + 1]
    BY <1>4, <2>1, <2>3, HeadTailProperties
  <2>5. Tail(rest) = a
    BY <2>1, <2>2, <2>4, SeqEqual
  <2> QED BY <2>5 DEF a
<1>6. SubSeq(rest, n + 2, Len(rest)) = r
  <2> HIDE DEF rest, n
  <2>1. SubSeq(rest, n + 2, Len(rest)) = [i \in 1 .. Len(r) |-> rest[n + 1 + i]]
    <3>1. Len(rest) - (n + 2) + 1 = Len(r) /\ n + 2 \in 1 .. Len(rest) + 1
      BY <1>4
    <3>2. \A i \in 1 .. Len(r) : (n + 2) + i - 1 = n + 1 + i
      BY <1>4
    <3>3. SubSeq(rest, n + 2, Len(rest)) = [i \in 1 .. (Len(rest) - (n + 2) + 1) |-> rest[(n + 2) + i - 1]]
      BY <1>4, <3>1
    <3>4. \A i \in 1 .. Len(r) : rest[(n + 2) + i - 1] = rest[n + 1 + i]
      BY <3>2
    <3> QED BY <3>1, <3>3, <3>4
  <2>2. r = [i \in 1 .. Len(r) |-> r[i]]
    BY <1>1
  <2> QED BY <1>4, <2>1, <2>2
<1>7. w.place = place /\ w.item = v /\ w.rest = rest /\ rest # <<>>
  BY <1>4
<1> HIDE DEF rest, w, n
<1>8. t = tok
  BY <1>1, <1>5, <1>7, TokenIs
<1>9. found = {p}
  BY <1>2, <1>7, <1>8
<1>10. Min({p}) = p
  BY KidsInside DEF Min
<1>11. FollowToken(w, case) =
         IF w.rest = <<>> \/ w.place = NoPlace THEN w
         ELSE IF w.rest[1] # Slash THEN w
         ELSE IF found = {} THEN [w EXCEPT !.place = NoPlace]
         ELSE [place |-> Append(w.place, Min(found)), item |-> w.item.kids[Min(found)],
               rest |-> SubSeq(w.rest, Len(t) + 2, Len(w.rest))]
  BY FollowTokenIs
<1> HIDE DEF found, t
<1>12. FollowToken(w, case) = [place |-> Append(place, p), item |-> v.kids[p], rest |-> r]
  BY <1>4, <1>6, <1>7, <1>8, <1>9, <1>10, <1>11 DEF n
<1> QED BY <1>12 DEF w, rest, tok, Leads

----------------------------------------------------------------------------
(* The way to an item.                                                     *)

\* x follows the place from v, as far as there is something there.
Follows(x, v, place) ==
  /\ x[0] = v
  /\ \A n \in 1 .. Len(place) :
       place[n] \in DOMAIN x[n - 1].kids => x[n] = x[n - 1].kids[place[n]]

\* What is left of a place after n steps is a place in the item there.
LeavesPlace(y, place, n) ==
  \E q \in Places(y) : /\ Len(q) = Len(place) - n
                       /\ \A i \in 1 .. Len(q) : q[i] = place[n + i]

\* What is known of the item after n steps.
OnTheWay(x, place, n, case) ==
  /\ x[n] \in Trees /\ KeysDiffer(x[n], case)
  /\ n < Len(place) => place[n + 1] \in DOMAIN x[n].kids

LEMMA StepInto ==
  ASSUME NEW y \in Trees, NEW place \in Seq(Nat), NEW n \in Nat, n < Len(place),
         LeavesPlace(y, place, n)
  PROVE  /\ place[n + 1] \in DOMAIN y.kids
         /\ y.kids[place[n + 1]] \in Trees
         /\ LeavesPlace(y.kids[place[n + 1]], place, n + 1)
<1>1. PICK q \in Places(y) : /\ Len(q) = Len(place) - n
                             /\ \A i \in 1 .. Len(q) : q[i] = place[n + i]
  BY DEF LeavesPlace
<1>2. Len(place) \in Nat /\ Len(q) > 0
  BY <1>1
<1>3. q # <<>>
  BY <1>2
<1>4. PICK p \in DOMAIN y.kids : \E r \in Places(y.kids[p]) : q = <<p>> \o r
  BY <1>3, PlacesAre
<1>5. y.kids[p] \in Trees /\ p \in Nat
  BY KidsInside
<1>6. PICK r \in Places(y.kids[p]) : q = <<p>> \o r
  BY <1>4
<1>7. r \in Seq(Nat)
  BY <1>5, PlacesAre
<1>8. /\ Len(q) = 1 + Len(r) /\ q[1] = p /\ Len(r) \in Nat
      /\ \A i \in 1 .. Len(r) : q[1 + i] = r[i]
  <2> DEFINE a == <<p>>
  <2>1. a \in Seq(Nat) /\ Len(a) = 1 /\ a[1] = p
    BY <1>5
  <2>2. q = a \o r
    BY <1>6
  <2> HIDE DEF a
  <2>3. /\ Len(q) = Len(a) + Len(r)
        /\ \A i \in 1 .. Len(a) + Len(r) : q[i] = IF i <= Len(a) THEN a[i] ELSE r[i - Len(a)]
    BY <1>7, <2>1, <2>2, ConcatProperties
  <2>4. Len(r) \in Nat /\ Len(q) = 1 + Len(r)
    BY <1>7, <2>1, <2>3
  <2>5. q[1] = p
    <3>1. 1 \in 1 .. Len(a) + Len(r) /\ 1 <= Len(a)
      BY <2>1, <2>4
    <3> QED BY <2>1, <2>3, <3>1
  <2>6. ASSUME NEW i \in 1 .. Len(r) PROVE q[1 + i] = r[i]
    <3>1. 1 + i \in 1 .. Len(a) + Len(r) /\ ~(1 + i <= Len(a)) /\ (1 + i) - Len(a) = i
      BY <2>1, <2>4
    <3> QED BY <2>3, <3>1
  <2> QED BY <2>4, <2>5, <2>6
<1>9. place[n + 1] = p
  <2>1. 1 \in 1 .. Len(q)
    BY <1>8
  <2> QED BY <1>1, <1>8, <2>1
<1>10. Len(r) = Len(place) - (n + 1)
  BY <1>1, <1>2, <1>8
<1>11. ASSUME NEW i \in 1 .. Len(r) PROVE r[i] = place[(n + 1) + i]
  <2>1. Len(q) = 1 + Len(r) /\ Len(r) \in Nat
    BY <1>8
  <2>2. 1 + i \in 1 .. Len(q)
    BY <2>1
  <2>3. i \in Int
    OBVIOUS
  <2>4. n + (1 + i) = (n + 1) + i
    BY <2>3
  <2> QED BY <1>1, <1>8, <2>2, <2>4
<1>12. LeavesPlace(y.kids[p], place, n + 1)
  BY <1>10, <1>11 DEF LeavesPlace
<1> QED BY <1>5, <1>9, <1>12

LEMMA WayInside ==
  ASSUME NEW v \in Trees, NEW place \in Places(v), NEW x, Follows(x, v, place)
  PROVE  /\ place \in Seq(Nat)
         /\ \A n \in 0 .. Len(place) : x[n] \in Trees /\ LeavesPlace(x[n], place, n)
<1>1. place \in Seq(Nat) /\ Len(place) \in Nat
  BY PlacesAre
<1> DEFINE S == {n \in Nat : n <= Len(place) => x[n] \in Trees /\ LeavesPlace(x[n], place, n)}
<1>2. 0 \in S
  <2>1. Len(place) = Len(place) - 0 /\ \A i \in 1 .. Len(place) : place[i] = place[0 + i]
    BY <1>1
  <2>2. LeavesPlace(v, place, 0)
    BY <2>1 DEF LeavesPlace
  <2> QED BY <2>2 DEF Follows
<1>3. ASSUME NEW n \in Nat, n \in S PROVE n + 1 \in S
  <2>1. CASE n + 1 <= Len(place)
    <3>1. n < Len(place) /\ n + 1 \in 1 .. Len(place) /\ (n + 1) - 1 = n /\ n <= Len(place)
      BY <1>1, <2>1
    <3> DEFINE y == x[n]
    <3>2. y \in Trees /\ LeavesPlace(y, place, n)
      BY <1>3, <3>1
    <3>3. place[n + 1] \in DOMAIN x[(n + 1) - 1].kids =>
            x[n + 1] = x[(n + 1) - 1].kids[place[n + 1]]
      BY <3>1 DEF Follows
    <3>4. place[n + 1] \in DOMAIN y.kids => x[n + 1] = y.kids[place[n + 1]]
      BY <3>1, <3>3
    <3> HIDE DEF y
    <3>5. /\ place[n + 1] \in DOMAIN y.kids /\ y.kids[place[n + 1]] \in Trees
          /\ LeavesPlace(y.kids[place[n + 1]], place, n + 1)
      BY <1>1, <3>1, <3>2, StepInto
    <3> QED BY <3>4, <3>5
  <2> QED BY <2>1
<1>4. Nat \subseteq S
  <2> HIDE DEF S
  <2> QED BY <1>2, <1>3, Induction
<1> QED BY <1>1, <1>4

LEMMA WayIs ==
  ASSUME NEW v \in Trees, NEW place \in Places(v), NEW x, Follows(x, v, place),
         NEW case \in BOOLEAN, KeysDiffer(v, case)
  PROVE  /\ \A n \in 0 .. Len(place) : OnTheWay(x, place, n, case)
         /\ \A n \in 1 .. Len(place) : x[n] = x[n - 1].kids[place[n]]
<1>1. /\ place \in Seq(Nat) /\ Len(place) \in Nat
      /\ \A n \in 0 .. Len(place) : x[n] \in Trees /\ LeavesPlace(x[n], place, n)
  BY WayInside
<1>2. ASSUME NEW n \in 0 .. Len(place), n < Len(place) PROVE place[n + 1] \in DOMAIN x[n].kids
  <2> DEFINE y == x[n]
  <2>1. y \in Trees /\ LeavesPlace(y, place, n) /\ n \in Nat
    BY <1>1
  <2> HIDE DEF y
  <2>2. place[n + 1] \in DOMAIN y.kids
    BY <1>1, <1>2, <2>1, StepInto
  <2> QED BY <2>2 DEF y
<1>3. ASSUME NEW n \in 1 .. Len(place) PROVE x[n] = x[n - 1].kids[place[n]]
  <2> DEFINE m == n - 1
  <2>1. m \in 0 .. Len(place) /\ m < Len(place) /\ m + 1 = n
    BY <1>1
  <2>2. place[m + 1] \in DOMAIN x[m].kids
    <3> HIDE DEF m
    <3> QED BY <1>2, <2>1
  <2>3. place[n] \in DOMAIN x[n - 1].kids
    BY <2>1, <2>2
  <2> QED BY <2>3 DEF Follows
<1> DEFINE S == {n \in Nat : n <= Len(place) => KeysDiffer(x[n], case)}
<1>4. 0 \in S
  BY DEF Follows
<1>5. ASSUME NEW n \in Nat, n \in S PROVE n + 1 \in S
  <2>1. CASE n + 1 <= Len(place)
    <3>1. n < Len(place) /\ n + 1 \in 1 .. Len(place) /\ (n + 1) - 1 = n /\ n \in 0 .. Len(place)
      BY <1>1, <2>1
    <3>2. x[n] \in Trees /\ place[n + 1] \in DOMAIN x[n].kids /\ KeysDiffer(x[n], case)
      BY <1>1, <1>2, <1>5, <3>1
    <3>3. KeysDiffer(x[n].kids[place[n + 1]], case)
      BY <3>2, KeysDifferIs
    <3>4. x[n + 1] = x[(n + 1) - 1].kids[place[n + 1]]
      BY <1>3, <3>1
    <3>5. x[n + 1] = x[n].kids[place[n + 1]]
      BY <3>1, <3>4
    <3> QED BY <3>3, <3>5
  <2> QED BY <2>1
<1>6. Nat \subseteq S
  <2> HIDE DEF S
  <2> QED BY <1>4, <1>5, Induction
<1>7. \A n \in 0 .. Len(place) : OnTheWay(x, place, n, case)
  BY <1>1, <1>2, <1>6 DEF OnTheWay
<1> QED BY <1>3, <1>7

\* The items on the way, that FindPointer goes through.
WayIn(v, place) ==
  CHOOSE f : f = [n \in 0 .. Len(place) |-> IF n = 0 THEN v ELSE f[n - 1].kids[place[n]]]

LEMMA WayExists ==
  ASSUME NEW v \in Trees, NEW place \in Places(v)
  PROVE  Follows(WayIn(v, place), v, place)
<1> DEFINE h == [z \in Trees \X Nat |-> IF z[2] \in DOMAIN z[1].kids THEN z[1].kids[z[2]] ELSE z[1]]
           Solved(f) == f = [n \in 0 .. Len(place) |-> IF n = 0 THEN v ELSE f[n - 1].kids[place[n]]]
<1>1. place \in Seq(Nat) /\ Len(place) \in Nat
  BY PlacesAre
<1>2. h \in [Trees \X Nat -> Trees]
  BY KidsInside
<1>3. PICK f \in [0 .. Len(place) -> Trees] : Along(f, place, v, h)
  <2> HIDE DEF h
  <2> QED BY <1>1, <1>2, RecursionAlong
<1>4. f = [n \in 0 .. Len(place) |-> IF n = 0 THEN v ELSE h[<<f[n - 1], place[n]>>]]
  BY <1>3 DEF Along
<1>5. ASSUME NEW n \in 1 .. Len(place)
      PROVE  /\ n \in 0 .. Len(place) /\ n # 0
             /\ h[<<f[n - 1], place[n]>>] =
                  IF place[n] \in DOMAIN f[n - 1].kids THEN f[n - 1].kids[place[n]] ELSE f[n - 1]
  <2>1. n - 1 \in 0 .. Len(place) /\ place[n] \in Nat
    BY <1>1
  <2>2. f[n - 1] \in Trees
    BY <2>1
  <2> QED BY <1>1, <2>1, <2>2
<1> HIDE DEF h
<1>6. Follows(f, v, place)
  <2>1. 0 \in 0 .. Len(place)
    BY <1>1
  <2>2. f[0] = v
    BY <1>4, <2>1
  <2>3. \A n \in 1 .. Len(place) : f[n] = h[<<f[n - 1], place[n]>>]
    BY <1>4, <1>5
  <2> QED BY <1>5, <2>2, <2>3 DEF Follows
<1>7. \A n \in 1 .. Len(place) : place[n] \in DOMAIN f[n - 1].kids
  <2> SUFFICES ASSUME NEW n \in 1 .. Len(place) PROVE place[n] \in DOMAIN f[n - 1].kids
    OBVIOUS
  <2> DEFINE m == n - 1
             y == f[m]
  <2>1. m \in 0 .. Len(place) /\ m \in Nat /\ m < Len(place) /\ m + 1 = n
    BY <1>1
  <2>2. y \in Trees /\ LeavesPlace(y, place, m)
    BY <1>6, <2>1, WayInside
  <2> HIDE DEF y, m
  <2>3. place[m + 1] \in DOMAIN y.kids
    BY <1>1, <2>1, <2>2, StepInto
  <2> QED BY <2>1, <2>3 DEF y, m
<1>8. Solved(f)
  <2>1. \A n \in 0 .. Len(place) : n # 0 => n \in 1 .. Len(place)
    BY <1>1
  <2>2. [n \in 0 .. Len(place) |-> IF n = 0 THEN v ELSE h[<<f[n - 1], place[n]>>]] =
        [n \in 0 .. Len(place) |-> IF n = 0 THEN v ELSE f[n - 1].kids[place[n]]]
    BY <1>5, <1>7, <2>1
  <2> QED BY <1>4, <2>2
<1> DEFINE d == CHOOSE k : Solved(k)
<1>9. d = [n \in 0 .. Len(place) |-> IF n = 0 THEN v ELSE d[n - 1].kids[place[n]]]
  <2> HIDE DEF Solved
  <2>1. Solved(d)
    BY <1>8
  <2> HIDE DEF d
  <2> QED BY <2>1 DEF Solved
<1>10. WayIn(v, place) = d
  BY DEF WayIn
<1> HIDE DEF d
<1>11. Follows(d, v, place)
  <2>1. 0 \in 0 .. Len(place) /\ \A n \in 1 .. Len(place) : n \in 0 .. Len(place) /\ n # 0
    BY <1>1
  <2>2. d[0] = v
    BY <1>9, <2>1
  <2>3. \A n \in 1 .. Len(place) : d[n] = d[n - 1].kids[place[n]]
    BY <1>9, <2>1
  <2> QED BY <2>2, <2>3 DEF Follows
<1> QED BY <1>10, <1>11

\* The texts from the nth token on of the pointer to the place.
PointerText(text, x, v, place) ==
  /\ text[Len(place)] = <<>>
  /\ \A n \in 0 .. Len(place) - 1 :
       text[n] = <<Slash>> \o TokenFor(x[n], place[n + 1]) \o text[n + 1]
  /\ FindPointer(v, place) = text[0]

\* The tokens on the way are texts.
LEMMA TokenOnTheWay ==
  ASSUME NEW x, NEW place \in Seq(Nat), NEW case \in BOOLEAN, NEW n \in 0 .. Len(place) - 1,
         OnTheWay(x, place, n, case)
  PROVE  TokenFor(x[n], place[n + 1]) \in Seq(Plain)
<1> DEFINE y == x[n]
           p == place[n + 1]
<1>1. y \in Trees /\ KeysDiffer(y, case) /\ p \in DOMAIN y.kids
  BY DEF OnTheWay
<1> HIDE DEF y, p
<1>2. KeysApart(y, case)
  BY <1>1, KeysDifferIs
<1>3. TokenFor(y, p) \in Seq(Plain)
  BY <1>1, <1>2, TokenForType
<1> QED BY <1>3 DEF y, p

LEMMA OneToken ==
  ASSUME NEW tok \in Seq(Plain), NEW r \in Seq(Byte)
  PROVE  /\ <<Slash>> \o tok \o r \in Seq(Byte)
         /\ Goes(<<Slash>> \o tok \o r)
         /\ Len(<<Slash>> \o tok \o r) > Len(r)
<1>1. Slash \in Byte
  BY DEF Slash, Byte
<1>2. tok \in Seq(Byte)
  BY PlainText
<1> DEFINE s == <<Slash>> \o tok \o r
<1>3. s \in Seq(Byte) /\ Len(s) = 1 + Len(tok) + Len(r) /\ s[1] = Slash
  BY <1>1, <1>2
<1>4. Len(tok) \in Nat /\ Len(r) \in Nat
  BY <1>2
<1> HIDE DEF s
<1>5. Goes(s) /\ Len(s) > Len(r)
  BY <1>3, <1>4 DEF Goes
<1> QED BY <1>3, <1>5 DEF s

LEMMA PointerTextExists ==
  ASSUME NEW v \in Trees, NEW place \in Places(v), NEW case \in BOOLEAN, KeysDiffer(v, case)
  PROVE  \E text : PointerText(text, WayIn(v, place), v, place)
<1> DEFINE x == WayIn(v, place)
           L == Len(place)
           S == Seq(Byte)
           Tok(n) == TokenFor(x[n], place[n + 1])
           Solved(f) == f = [n \in 0 .. L |-> IF n = L THEN <<>> ELSE <<Slash>> \o Tok(n) \o f[n + 1]]
           d == CHOOSE f : Solved(f)
<1>1. place \in Seq(Nat) /\ L \in Nat
  BY PlacesAre
<1>2. \A n \in 0 .. L - 1 : Tok(n) \in Seq(Plain)
  <2>1. Follows(x, v, place)
    BY WayExists
  <2>2. \A n \in 0 .. L : OnTheWay(x, place, n, case)
    <3> HIDE DEF x
    <3> QED BY <2>1, WayIs
  <2>3. \A n \in 0 .. L - 1 : n \in 0 .. L
    BY <1>1
  <2> HIDE DEF x
  <2> QED BY <1>1, <2>2, <2>3, TokenOnTheWay
<1> HIDE DEF x, Tok, L
<1>3. <<>> \in S
  OBVIOUS
<1> DEFINE h == [z \in S \X Nat |->
                   IF z[2] \in 1 .. L THEN <<Slash>> \o Tok(L - z[2]) \o z[1] ELSE z[1]]
<1>4. h \in [S \X Nat -> S]
  <2>1. ASSUME NEW s \in S, NEW k \in 1 .. L PROVE <<Slash>> \o Tok(L - k) \o s \in S
    <3>1. L - k \in 0 .. L - 1
      BY <1>1
    <3> DEFINE t == Tok(L - k)
    <3>2. t \in Seq(Plain)
      BY <1>2, <3>1
    <3> HIDE DEF t
    <3>3. <<Slash>> \o t \o s \in S
      BY <3>2, OneToken
    <3> QED BY <3>3 DEF t
  <2> HIDE DEF S
  <2> QED BY <2>1
<1>5. PICK F \in [Nat -> S] : Iterates(F, <<>>, h)
  <2> HIDE DEF S, h
  <2> QED BY <1>3, <1>4, Recursion
<1>6. F[0] = <<>>
  BY <1>5 DEF Iterates
<1>7. ASSUME NEW n \in 0 .. L - 1 PROVE F[L - n] = <<Slash>> \o Tok(n) \o F[L - (n + 1)]
  <2> DEFINE k == L - (n + 1)
  <2>1. k \in Nat /\ k + 1 = L - n /\ k + 1 \in 1 .. L /\ L - (k + 1) = n /\ k + 1 \in Nat
    BY <1>1
  <2>2. F[k + 1] = h[<<F[k], k + 1>>] /\ F[k] \in S
    <3> HIDE DEF h, S, k
    <3> QED BY <1>5, <2>1 DEF Iterates
  <2>3. h[<<F[k], k + 1>>] = <<Slash>> \o Tok(L - (k + 1)) \o F[k]
    <3> HIDE DEF k, S
    <3> QED BY <2>1, <2>2
  <2>4. h[<<F[k], k + 1>>] = <<Slash>> \o Tok(n) \o F[k]
    <3> HIDE DEF k, h
    <3> QED BY <2>1, <2>3
  <2>5. F[L - n] = h[<<F[k], k + 1>>]
    <3> HIDE DEF k, h
    <3> QED BY <2>1, <2>2
  <2> QED BY <2>4, <2>5
<1> DEFINE f == [n \in 0 .. L |-> F[L - n]]
<1>8. Solved(f)
  <2>1. \A n \in 0 .. L : n # L => n \in 0 .. L - 1 /\ n + 1 \in 0 .. L
    BY <1>1
  <2>2. L - L = 0
    BY <1>1
  <2>3. ASSUME NEW n \in 0 .. L
        PROVE  F[L - n] = IF n = L THEN <<>> ELSE <<Slash>> \o Tok(n) \o f[n + 1]
    <3>1. CASE n = L
      BY <1>6, <2>2, <3>1
    <3>2. CASE n # L
      <4>1. n \in 0 .. L - 1 /\ n + 1 \in 0 .. L
        BY <2>1, <3>2
      <4>2. f[n + 1] = F[L - (n + 1)]
        BY <4>1
      <4> HIDE DEF f
      <4> QED BY <1>7, <3>2, <4>1, <4>2
    <3> QED BY <3>1, <3>2
  <2>4. f = [n \in 0 .. L |-> F[L - n]]
    OBVIOUS
  <2> HIDE DEF f
  <2> QED BY <2>3, <2>4
<1>9. d = [n \in 0 .. L |-> IF n = L THEN <<>> ELSE <<Slash>> \o Tok(n) \o d[n + 1]]
  <2> HIDE DEF Solved
  <2>1. Solved(d)
    BY <1>8
  <2> HIDE DEF d
  <2> QED BY <2>1 DEF Solved
<1>10. FindPointer(v, place) = d[0]
  BY DEF FindPointer, WayIn, x, Tok, L
<1> HIDE DEF d
<1>11. d[L] = <<>>
  <2>1. L \in 0 .. L
    BY <1>1
  <2> QED BY <1>9, <2>1
<1>12. \A n \in 0 .. L - 1 : d[n] = <<Slash>> \o Tok(n) \o d[n + 1]
  <2>1. \A n \in 0 .. L - 1 : n \in 0 .. L /\ n # L
    BY <1>1
  <2> QED BY <1>9, <2>1
<1>13. PointerText(d, x, v, place)
  BY <1>10, <1>11, <1>12 DEF PointerText, L, Tok
<1> QED BY <1>13 DEF x

\* What is left to follow, and how long it is.
LEMMA PointerTextIs ==
  ASSUME NEW v \in Trees, NEW place \in Places(v), NEW case \in BOOLEAN, KeysDiffer(v, case),
         NEW x, Follows(x, v, place), NEW text, PointerText(text, x, v, place)
  PROVE  \A n \in 0 .. Len(place) : Goes(text[n]) /\ Len(text[n]) >= Len(place) - n
<1> DEFINE L == Len(place)
           S == {k \in Nat : k <= L => Goes(text[L - k]) /\ Len(text[L - k]) >= k}
<1>1. place \in Seq(Nat) /\ L \in Nat
  BY PlacesAre
<1>2. 0 \in S
  <2>1. L - 0 = L /\ text[L] = <<>>
    BY <1>1 DEF PointerText
  <2>2. Goes(<<>>) /\ Len(<<>>) = 0
    BY DEF Goes
  <2> HIDE DEF L
  <2> QED BY <1>1, <2>1, <2>2
<1>3. ASSUME NEW k \in Nat, k \in S PROVE k + 1 \in S
  <2> SUFFICES ASSUME k + 1 <= L PROVE Goes(text[L - (k + 1)]) /\ Len(text[L - (k + 1)]) >= k + 1
    OBVIOUS
  <2> DEFINE n == L - (k + 1)
             tok == TokenFor(x[n], place[n + 1])
             r == text[n + 1]
  <2>1. n \in 0 .. L - 1 /\ n \in 0 .. L /\ n + 1 = L - k
    BY <1>1
  <2>2. Goes(text[L - k]) /\ Len(text[L - k]) >= k
    BY <1>1, <1>3
  <2>3. Goes(r) /\ Len(r) >= k
    <3> HIDE DEF S, n
    <3> QED BY <2>1, <2>2
  <2>4. OnTheWay(x, place, n, case)
    <3> HIDE DEF n
    <3> QED BY <2>1, WayIs
  <2>5. tok \in Seq(Plain)
    <3> HIDE DEF n
    <3> QED BY <1>1, <2>1, <2>4, TokenOnTheWay
  <2>6. text[n] = <<Slash>> \o tok \o r
    <3> HIDE DEF n
    <3> QED BY <2>1 DEF PointerText
  <2> HIDE DEF n, tok, r, S
  <2>7. r \in Seq(Byte)
    BY <2>3 DEF Goes
  <2>8. Goes(text[n]) /\ Len(text[n]) > Len(r) /\ text[n] \in Seq(Byte)
    BY <2>5, <2>6, <2>7, OneToken
  <2>9. Len(r) \in Nat /\ Len(text[n]) \in Nat
    BY <2>7, <2>8
  <2>10. Len(text[n]) >= k + 1
    BY <2>3, <2>8, <2>9
  <2> QED BY <2>8, <2>10 DEF n
<1>4. Nat \subseteq S
  <2> HIDE DEF S
  <2> QED BY <1>2, <1>3, Induction
<1>5. ASSUME NEW n \in 0 .. L PROVE Goes(text[n]) /\ Len(text[n]) >= L - n
  <2>1. L - n \in Nat /\ L - n <= L /\ L - (L - n) = n
    BY <1>1
  <2> QED BY <1>4, <2>1
<1> QED BY <1>5

----------------------------------------------------------------------------
(* Following a pointer.                                                    *)

\* Where a pointer leads to on the way.
Walks == [place : Seq(Nat), item : Trees, rest : Seq(Byte)]

LEMMA FollowType ==
  ASSUME NEW w \in Walks, NEW case \in BOOLEAN
  PROVE  FollowToken(w, case) \in Walks
<1> DEFINE t == Token(Tail(w.rest))
           found == FoundBy(w.item, t, case)
<1>1. w.place \in Seq(Nat) /\ w.item \in Trees /\ w.rest \in Seq(Byte)
  BY DEF Walks
<1>2. found \subseteq Nat /\ found \subseteq DOMAIN w.item.kids
  BY <1>1, KidsInside DEF FoundBy
<1>3. FollowToken(w, case) =
        IF w.rest = <<>> \/ w.place = NoPlace THEN w
        ELSE IF w.rest[1] # Slash THEN w
        ELSE IF found = {} THEN [w EXCEPT !.place = NoPlace]
        ELSE [place |-> Append(w.place, Min(found)), item |-> w.item.kids[Min(found)],
              rest |-> SubSeq(w.rest, Len(t) + 2, Len(w.rest))]
  BY FollowTokenIs
<1>4. NoPlace \in Seq(Nat)
  BY DEF NoPlace
<1>5. [w EXCEPT !.place = NoPlace] \in Walks
  BY <1>4 DEF Walks
<1>6. ASSUME w.rest # <<>>, found # {}
      PROVE  [place |-> Append(w.place, Min(found)), item |-> w.item.kids[Min(found)],
              rest |-> SubSeq(w.rest, Len(t) + 2, Len(w.rest))] \in Walks
  <2>1. Min(found) \in found
    <3> HIDE DEF found
    <3> QED BY <1>2, <1>6, MinType
  <2>2. Append(w.place, Min(found)) \in Seq(Nat) /\ w.item.kids[Min(found)] \in Trees
    <3> DEFINE k == Min(found)
    <3>1. k \in Nat /\ k \in DOMAIN w.item.kids
      BY <1>2, <2>1
    <3> HIDE DEF k, found
    <3>2. w.item.kids[k] \in Trees
      BY <1>1, <3>1, KidsInside
    <3>3. Append(w.place, k) \in Seq(Nat)
      BY <1>1, <3>1
    <3> QED BY <3>2, <3>3 DEF k
  <2>3. Len(t) \in Nat
    <3> DEFINE s == Tail(w.rest)
               E == {Len(s)} \cup {p - 1 : p \in {q \in DOMAIN s : s[q] = Slash}}
    <3>1. s \in Seq(Byte)
      BY <1>1, <1>6
    <3> HIDE DEF s
    <3>2. Len(s) \in Nat /\ DOMAIN s = 1 .. Len(s)
      BY <3>1
    <3>3. E \subseteq Nat /\ E # {} /\ \A k \in E : k <= Len(s)
      BY <3>2
    <3>4. t = SubSeq(s, 1, Min(E))
      BY DEF Token, s
    <3> HIDE DEF E, t
    <3>5. Min(E) \in E
      BY <3>3, MinType
    <3>6. Min(E) \in Nat /\ Min(E) <= Len(s)
      BY <3>3, <3>5
    <3> DEFINE m == Min(E)
    <3> HIDE DEF m
    <3>7. m \in Nat /\ m <= Len(s) /\ t = SubSeq(s, 1, m)
      BY <3>4, <3>6 DEF m
    <3> QED BY <3>1, <3>7
  <2>4. SubSeq(w.rest, Len(t) + 2, Len(w.rest)) \in Seq(Byte)
    <3> DEFINE n == Len(t) + 2
               l == Len(w.rest)
    <3>1. n \in Int /\ n >= 1 /\ l \in Int
      BY <1>1, <2>3
    <3>2. \A i \in n .. l : w.rest[i] \in Byte
      <4>1. \A i \in n .. l : i \in 1 .. Len(w.rest)
        BY <3>1
      <4> HIDE DEF n
      <4> QED BY <1>1, <4>1
    <3> HIDE DEF n, l
    <3>3. SubSeq(w.rest, n, l) \in Seq(Byte)
      BY <3>1, <3>2, SubSeqProperties
    <3> QED BY <3>3 DEF n, l
  <2> HIDE DEF t, found
  <2> QED BY <2>2, <2>4 DEF Walks
<1> HIDE DEF t, found
<1> QED BY <1>3, <1>5, <1>6

\* How far a pointer leads.
IsWalk(walk, v, pointer, case) ==
  /\ walk[0] = [place |-> <<>>, item |-> v, rest |-> pointer]
  /\ \A n \in 1 .. Len(pointer) : walk[n] = FollowToken(walk[n - 1], case)
  /\ GetPlace(v, pointer, case) = walk[Len(pointer)].place

LEMMA WalkExists ==
  ASSUME NEW v \in Trees, NEW pointer \in Seq(Byte), NEW case \in BOOLEAN
  PROVE  \E walk : IsWalk(walk, v, pointer, case)
<1> DEFINE a == [place |-> <<>>, item |-> v, rest |-> pointer]
           h == [z \in Walks \X Byte |-> FollowToken(z[1], case)]
           Solved(f) == f = [n \in 0 .. Len(pointer) |-> IF n = 0 THEN a ELSE FollowToken(f[n - 1], case)]
           d == CHOOSE f : Solved(f)
<1>1. a \in Walks /\ h \in [Walks \X Byte -> Walks]
  BY FollowType DEF Walks
<1>2. PICK f \in [0 .. Len(pointer) -> Walks] : Along(f, pointer, a, h)
  <2> HIDE DEF a, h
  <2> QED BY <1>1, RecursionAlong
<1>3. f = [n \in 0 .. Len(pointer) |-> IF n = 0 THEN a ELSE h[<<f[n - 1], pointer[n]>>]]
  BY <1>2 DEF Along
<1>4. ASSUME NEW n \in 1 .. Len(pointer) PROVE h[<<f[n - 1], pointer[n]>>] = FollowToken(f[n - 1], case)
  <2>1. n - 1 \in 0 .. Len(pointer) /\ pointer[n] \in Byte
    OBVIOUS
  <2>2. f[n - 1] \in Walks
    BY <2>1
  <2> QED BY <2>1, <2>2
<1>5. Solved(f)
  <2> HIDE DEF h, a
  <2>1. \A n \in 0 .. Len(pointer) : n # 0 => n \in 1 .. Len(pointer)
    OBVIOUS
  <2>2. [n \in 0 .. Len(pointer) |-> IF n = 0 THEN a ELSE h[<<f[n - 1], pointer[n]>>]] =
        [n \in 0 .. Len(pointer) |-> IF n = 0 THEN a ELSE FollowToken(f[n - 1], case)]
    BY <1>4, <2>1
  <2> QED BY <1>3, <2>2
<1>6. d = [n \in 0 .. Len(pointer) |-> IF n = 0 THEN a ELSE FollowToken(d[n - 1], case)]
  <2> HIDE DEF Solved
  <2>1. Solved(d)
    BY <1>5
  <2> HIDE DEF d
  <2> QED BY <2>1 DEF Solved
<1>7. GetPlace(v, pointer, case) = d[Len(pointer)].place
  BY DEF GetPlace
<1> HIDE DEF d, a
<1>8. d[0] = a
  <2>1. 0 \in 0 .. Len(pointer)
    OBVIOUS
  <2> QED BY <1>6, <2>1
<1>9. \A n \in 1 .. Len(pointer) : d[n] = FollowToken(d[n - 1], case)
  <2>1. \A n \in 1 .. Len(pointer) : n \in 0 .. Len(pointer) /\ n # 0
    OBVIOUS
  <2> QED BY <1>6, <2>1
<1>10. IsWalk(d, v, pointer, case)
  BY <1>7, <1>8, <1>9 DEF IsWalk, a
<1> QED BY <1>10

\* The pointer that is made for an item leads to this item.
LEMMA PointerLeads ==
  ASSUME NEW v \in Trees, NEW place \in Places(v), NEW case \in BOOLEAN, KeysDiffer(v, case)
  PROVE  GetPlace(v, FindPointer(v, place), case) = place
<1> DEFINE x == WayIn(v, place)
           L == Len(place)
           pointer == FindPointer(v, place)
<1>1. place \in Seq(Nat) /\ L \in Nat
  BY PlacesAre
<1>2. Follows(x, v, place)
  BY WayExists
<1>3. PICK text : PointerText(text, x, v, place)
  BY PointerTextExists
<1> HIDE DEF x
<1>4. \A n \in 0 .. L : Goes(text[n]) /\ Len(text[n]) >= L - n
  BY <1>2, <1>3, PointerTextIs
<1>5. \A n \in 0 .. L : OnTheWay(x, place, n, case)
  BY <1>2, WayIs
<1>6. \A n \in 1 .. L : x[n] = x[n - 1].kids[place[n]]
  BY <1>2, WayIs
<1>7. x[0] = v /\ text[0] = pointer /\ text[L] = <<>>
  BY <1>2, <1>3 DEF Follows, PointerText
<1> HIDE DEF pointer
<1>8. pointer \in Seq(Byte) /\ Len(pointer) >= L
  <2>1. 0 \in 0 .. L /\ L - 0 = L
    BY <1>1
  <2>2. Goes(text[0]) /\ Len(text[0]) >= L - 0
    BY <1>4, <2>1
  <2> HIDE DEF L
  <2> QED BY <1>7, <2>1, <2>2 DEF Goes
<1>9. PICK walk : IsWalk(walk, v, pointer, case)
  BY <1>8, WalkExists
<1> DEFINE Sub(n) == SubSeq(place, 1, n)
           At(n) == [place |-> Sub(n), item |-> x[n], rest |-> text[n]]
<1>10. ASSUME NEW n \in 0 .. L - 1 PROVE FollowToken(At(n), case) = At(n + 1)
  <2> DEFINE y == x[n]
             p == place[n + 1]
             r == text[n + 1]
             s == Sub(n)
  <2>1. n \in 0 .. L /\ n + 1 \in 0 .. L /\ n + 1 \in 1 .. L /\ n < L /\ (n + 1) - 1 = n /\ n \in Nat
    BY <1>1
  <2>2. y \in Trees /\ KeysDiffer(y, case) /\ p \in DOMAIN y.kids
    BY <1>5, <2>1 DEF OnTheWay
  <2>3. Goes(r)
    BY <1>4, <2>1
  <2>4. text[n] = <<Slash>> \o TokenFor(y, p) \o r
    BY <1>3 DEF PointerText
  <2>5. x[n + 1] = y.kids[p]
    <3>1. x[n + 1] = x[(n + 1) - 1].kids[place[n + 1]]
      BY <1>6, <2>1
    <3> QED BY <2>1, <3>1
  <2>6. s # NoPlace
    <3>1. CASE n = 0
      <4>1. Len(s) = 0
        BY <1>1, <3>1
      <4>2. Len(NoPlace) = 1
        BY DEF NoPlace
      <4> QED BY <4>1, <4>2
    <3>2. CASE n # 0
      <4>1. 0 \in 0 .. L /\ 0 < L /\ 0 + 1 = 1
        BY <1>1, <2>1
      <4>2. x[0] \in Trees /\ place[0 + 1] \in DOMAIN x[0].kids
        BY <1>5, <4>1 DEF OnTheWay
      <4>3. place[1] \in DOMAIN x[0].kids
        BY <4>1, <4>2
      <4>4. place[1] # 0
        BY <4>2, <4>3, KidsInside
      <4>5. s[1] = place[1]
        BY <1>1, <2>1, <3>2
      <4>6. NoPlace[1] = 0
        BY DEF NoPlace
      <4> HIDE DEF s
      <4> QED BY <4>4, <4>5, <4>6
    <3> QED BY <3>1, <3>2
  <2>7. Append(s, p) = Sub(n + 1)
    <3>1. p \in Nat
      BY <2>2, KidsInside
    <3>2. Sub(n + 1) = [i \in 1 .. n + 1 |-> place[i]] /\ s = [i \in 1 .. n |-> place[i]]
      BY <1>1, <2>1
    <3>3. s \in Seq(Nat) /\ Len(s) = n
      BY <1>1, <2>1
    <3> QED BY <1>1, <2>1, <3>1, <3>2, <3>3
  <2> HIDE DEF y, p, r, s, L, Sub
  <2>8. KeysApart(y, case)
    BY <2>2, KeysDifferIs
  <2>9. Leads(y, p, s, r, case)
    BY <2>2, <2>3, <2>6, <2>8, TokenLeads
  <2> QED BY <2>4, <2>5, <2>7, <2>9 DEF y, r, s, Leads
<1>11. FollowToken(At(L), case) = At(L)
  <2>1. At(L).rest = <<>>
    BY <1>7
  <2> HIDE DEF At
  <2> QED BY <2>1, FollowTokenIs
<1> HIDE DEF At
<1> DEFINE S == {n \in Nat : n <= Len(pointer) => walk[n] = At(IF n <= L THEN n ELSE L)}
<1>12. 0 \in S
  <2>1. At(0) = [place |-> <<>>, item |-> v, rest |-> pointer]
    <3>1. Sub(0) = <<>>
      BY <1>1
    <3> HIDE DEF Sub
    <3> QED BY <1>7, <3>1 DEF At
  <2>2. walk[0] = At(0)
    BY <1>9, <2>1 DEF IsWalk
  <2> HIDE DEF L
  <2> QED BY <1>1, <2>2
<1>13. ASSUME NEW n \in Nat, n \in S PROVE n + 1 \in S
  <2> SUFFICES ASSUME n + 1 <= Len(pointer) PROVE walk[n + 1] = At(IF n + 1 <= L THEN n + 1 ELSE L)
    OBVIOUS
  <2>1. n <= Len(pointer) /\ n + 1 \in 1 .. Len(pointer) /\ (n + 1) - 1 = n
    BY <1>8
  <2>2. walk[n] = At(IF n <= L THEN n ELSE L)
    BY <1>13, <2>1
  <2>3. walk[n + 1] = FollowToken(walk[(n + 1) - 1], case)
    BY <1>9, <2>1 DEF IsWalk
  <2>4. walk[n + 1] = FollowToken(walk[n], case)
    BY <2>1, <2>3
  <2> HIDE DEF S, L
  <2>5. CASE n < L
    <3>1. n \in 0 .. L - 1 /\ n <= L /\ n + 1 <= L
      BY <1>1, <2>5
    <3> QED BY <1>10, <2>2, <2>4, <3>1
  <2>6. CASE n = L
    <3>1. n <= L /\ ~(n + 1 <= L)
      BY <1>1, <2>6
    <3> QED BY <1>11, <2>2, <2>4, <2>6, <3>1
  <2>7. CASE n > L
    <3>1. ~(n <= L) /\ ~(n + 1 <= L)
      BY <1>1, <2>7
    <3> QED BY <1>11, <2>2, <2>4, <3>1
  <2> QED BY <1>1, <2>5, <2>6, <2>7
<1>14. Nat \subseteq S
  <2> HIDE DEF S
  <2> QED BY <1>12, <1>13, Induction
<1>15. walk[Len(pointer)] = At(L)
  <2>1. Len(pointer) \in Nat /\ (IF Len(pointer) <= L THEN Len(pointer) ELSE L) = L
    BY <1>1, <1>8
  <2>2. walk[Len(pointer)] = At(IF Len(pointer) <= L THEN Len(pointer) ELSE L)
    BY <1>14, <2>1
  <2> QED BY <2>1, <2>2
<1>16. At(L).place = place
  <2>1. Sub(L) = place
    BY <1>1
  <2> HIDE DEF Sub
  <2> QED BY <2>1 DEF At
<1>17. GetPlace(v, pointer, case) = walk[Len(pointer)].place
  BY <1>9 DEF IsWalk
<1> QED BY <1>15, <1>16, <1>17 DEF pointer

\* What is kept of the last call is where its pointer leads to.
PointerInv ==
  \A c \in pointed :
    /\ c.v \in Trees /\ c.place \in Places(c.v) /\ c.case \in BOOLEAN
    /\ c.got = GetPlace(c.v, FindPointer(c.v, c.place), c.case)

\* A pointer that is made for an item leads to this item, if the keys differ.
THEOREM PointerCorrect == PointerSpec => []PointerFindsItem
<1>1. PointerInit => PointerInv
  BY DEF PointerInit, PointerInv
<1>2. PointerInv /\ [PointerNext]_pointed => PointerInv'
  <2> SUFFICES ASSUME PointerInv, [PointerNext]_pointed PROVE PointerInv'
    OBVIOUS
  <2>1. CASE UNCHANGED pointed
    BY <2>1 DEF PointerInv
  <2>2. ASSUME NEW v \in Trees, NEW case \in BOOLEAN, NEW place \in Places(v), PointTo(v, place, case)
        PROVE  PointerInv'
    BY <2>2 DEF PointTo, PointerInv
  <2> QED BY <2>1, <2>2 DEF PointerNext
<1>3. PointerInv => PointerFindsItem
  BY PointerLeads DEF PointerInv, PointerFindsItem
<1> QED BY <1>1, <1>2, <1>3, PTL DEF PointerSpec

----------------------------------------------------------------------------
(* The texts of items.                                                     *)

LEMMA ConcatIs ==
  ASSUME NEW S, NEW a \in Seq(S), NEW s \in Seq(S)
  PROVE  /\ a \o s \in Seq(S)
         /\ Len(a \o s) = Len(a) + Len(s)
         /\ \A p \in 1 .. Len(a) : (a \o s)[p] = a[p]
         /\ \A p \in 1 .. Len(s) : (a \o s)[Len(a) + p] = s[p]
<1>1. /\ a \o s \in Seq(S) /\ Len(a \o s) = Len(a) + Len(s)
      /\ \A i \in 1 .. Len(a) + Len(s) : (a \o s)[i] = IF i <= Len(a) THEN a[i] ELSE s[i - Len(a)]
  BY ConcatProperties
<1>2. Len(a) \in Nat /\ Len(s) \in Nat
  OBVIOUS
<1>3. ASSUME NEW p \in 1 .. Len(a) PROVE (a \o s)[p] = a[p]
  <2>1. p \in 1 .. Len(a) + Len(s) /\ p <= Len(a)
    BY <1>2
  <2> QED BY <1>1, <2>1
<1>4. ASSUME NEW p \in 1 .. Len(s) PROVE (a \o s)[Len(a) + p] = s[p]
  <2>1. Len(a) + p \in 1 .. Len(a) + Len(s) /\ ~(Len(a) + p <= Len(a)) /\ Len(a) + p - Len(a) = p
    BY <1>2
  <2> QED BY <1>1, <2>1
<1> QED BY <1>1, <1>3, <1>4

\* What stands in t behind the offset o is s.
Holds(t, o, s) ==
  o \in Nat /\ Len(t) = o + Len(s) /\ \A p \in 1 .. Len(s) : t[o + p] = s[p]

\* a stands in t at the offset o.
Stands(t, o, a) == o + Len(a) <= Len(t) /\ \A p \in 1 .. Len(a) : t[o + p] = a[p]

LEMMA HoldsNext ==
  ASSUME NEW t \in Text, NEW a \in Text, NEW s \in Text, NEW o, Holds(t, o, a \o s)
  PROVE  Stands(t, o, a) /\ Holds(t, o + Len(a), s)
<1>1. /\ Len(a \o s) = Len(a) + Len(s)
      /\ \A p \in 1 .. Len(a) : (a \o s)[p] = a[p]
      /\ \A p \in 1 .. Len(s) : (a \o s)[Len(a) + p] = s[p]
  BY ConcatIs DEF Text
<1>2. Len(a) \in Nat /\ Len(s) \in Nat /\ Len(t) \in Nat
  BY DEF Text
<1> DEFINE u == a \o s
<1> HIDE DEF u
<1>3. o \in Nat /\ Len(t) = o + Len(u) /\ \A p \in 1 .. Len(u) : t[o + p] = u[p]
  BY DEF Holds, u
<1>4. Len(t) = o + Len(a) + Len(s)
  BY <1>1, <1>2, <1>3 DEF u
<1>5. ASSUME NEW p \in 1 .. Len(a) PROVE t[o + p] = a[p]
  <2>1. p \in 1 .. Len(u)
    BY <1>1, <1>2 DEF u
  <2> QED BY <1>1, <1>3, <2>1 DEF u
<1>6. ASSUME NEW p \in 1 .. Len(s) PROVE t[(o + Len(a)) + p] = s[p]
  <2>1. Len(a) + p \in 1 .. Len(u) /\ (o + Len(a)) + p = o + (Len(a) + p)
    BY <1>1, <1>2, <1>3 DEF u
  <2> QED BY <1>1, <1>3, <2>1 DEF u
<1> QED BY <1>2, <1>3, <1>4, <1>5, <1>6 DEF Holds, Stands

LEMMA OneByte ==
  ASSUME NEW c \in Octet
  PROVE  <<c>> \in Text /\ Len(<<c>>) = 1 /\ <<c>>[1] = c
BY DEF Text

LEMMA HoldsByte ==
  ASSUME NEW t \in Text, NEW c \in Octet, NEW s \in Text, NEW o, Holds(t, o, <<c>> \o s)
  PROVE  o \in Nat /\ o < Len(t) /\ t[o + 1] = c /\ Holds(t, o + 1, s)
<1> DEFINE a == <<c>>
<1>1. a \in Text /\ Len(a) = 1 /\ a[1] = c
  BY OneByte
<1> HIDE DEF a
<1>2. Stands(t, o, a) /\ Holds(t, o + Len(a), s)
  BY <1>1, HoldsNext DEF a
<1>3. o \in Nat /\ Len(t) \in Nat
  BY DEF Holds, Text
<1> QED BY <1>1, <1>2, <1>3 DEF Stands

\* Blanks are skipped.
Blank(b) == \A p \in 1 .. Len(b) : b[p] <= Space
Inked(s) == s # <<>> /\ s[1] > Space

LEMMA SkipTo ==
  ASSUME NEW t \in Text, NEW b \in Text, NEW s \in Text, NEW o, Holds(t, o, b \o s), Blank(b), Inked(s)
  PROVE  SkipIn(t, o) = o + Len(b) /\ Holds(t, SkipIn(t, o), s)
<1> DEFINE rest == {p \in o .. Len(t) - 1 : t[p + 1] > Space}
           e == o + Len(b)
<1>1. Stands(t, o, b) /\ Holds(t, e, s)
  BY HoldsNext
<1>2. o \in Nat /\ Len(t) \in Nat /\ Len(b) \in Nat /\ Len(s) \in Nat /\ Len(s) # 0
  BY EmptySeq DEF Holds, Text, Inked
<1>3. e \in rest
  <2>1. e \in o .. Len(t) - 1
    BY <1>1, <1>2 DEF Holds
  <2>2. t[e + 1] = s[1]
    BY <1>1, <1>2 DEF Holds
  <2> QED BY <2>1, <2>2 DEF Inked
<1>4. ASSUME NEW p \in rest PROVE e <= p
  <2>1. p \in o .. Len(t) - 1 /\ t[p + 1] > Space
    OBVIOUS
  <2>2. CASE p < e
    <3>1. p + 1 - o \in 1 .. Len(b) /\ o + (p + 1 - o) = p + 1
      BY <1>2, <2>1, <2>2
    <3>2. t[p + 1] = b[p + 1 - o]
      BY <1>1, <3>1 DEF Stands
    <3>3. b[p + 1 - o] <= Space
      BY <3>1 DEF Blank
    <3>4. b[p + 1 - o] \in Int
      <4>1. b[p + 1 - o] \in Octet
        BY <3>1, ElementOfSeq DEF Text
      <4>2. \A c \in Octet : c \in Int
        BY DEF Octet
      <4> QED BY <4>1, <4>2
    <3> QED BY <2>1, <3>2, <3>3, <3>4 DEF Space
  <2> QED BY <1>2, <2>1, <2>2
<1>5. rest \subseteq Nat
  BY <1>2
<1>6. SkipIn(t, o) = IF rest = {} THEN Len(t) - 1 ELSE Min(rest)
  <2>1. ~(o >= Len(t))
    BY <1>2, <1>1 DEF Holds
  <2> QED BY <2>1 DEF SkipIn
<1>7. Min(rest) = e
  <2> HIDE DEF rest, e
  <2>1. Min(rest) \in rest /\ \A n \in rest : Min(rest) <= n
    BY <1>3, <1>5, MinType
  <2>2. Min(rest) \in Nat /\ e \in Nat
    BY <1>3, <1>5, <2>1
  <2> QED BY <1>3, <1>4, <2>1, <2>2
<1> QED BY <1>1, <1>3, <1>6, <1>7

----------------------------------------------------------------------------
\* What the printers print of an item x, or of its loop, piece by piece: k is the
\* kid whose turn it is and l the number of the calls that are open.
Container(x) == x.type \in {"array", "object"}
OpenText(x, fmt) ==
  IF x.type = "array" THEN <<LBracket>> ELSE IF fmt THEN <<LBrace, LF>> ELSE <<LBrace>>
Indent(n, fmt) == IF fmt THEN Tabs(n) ELSE <<>>
CloseText(x, l, fmt) ==
  IF x.type = "array" THEN <<RBracket>> ELSE Indent(l - 1, fmt) \o <<RBrace>>
KeyText(x, k) == StringPiece(x.kids[k].name).s
ColonText(fmt) == IF fmt THEN <<Colon, Tab>> ELSE <<Colon>>
CommaText(x, k) == IF k < Len(x.kids) THEN <<Comma>> ELSE <<>>
BreakText(x, k, fmt) ==
  IF ~fmt THEN <<>>
  ELSE IF x.type = "object" THEN <<LF>> ELSE IF k < Len(x.kids) THEN <<Space>> ELSE <<>>
Separator(x, k, fmt) == CommaText(x, k) \o BreakText(x, k, fmt)

\* A kid, whose text is d with what follows it.
Member(x, k, l, d, fmt) ==
  IF x.type = "object" THEN Indent(l, fmt) \o (KeyText(x, k) \o (ColonText(fmt) \o d)) ELSE d

\* The text of x (k = 0), or of the kids of x from k on, before the text s: f has
\* the texts of what is less deep, or further on.
TextWith(x, k, l, s, fmt, f) ==
  IF k = 0
  THEN IF Container(x) THEN OpenText(x, fmt) \o f[<<x, 1>>][<<l + 1, s>>] ELSE ScalarPiece(x).s \o s
  ELSE IF k <= Len(x.kids)
  THEN Member(x, k, l,
              f[<<x.kids[k], 0>>][<<l, Separator(x, k, fmt) \o f[<<x, k + 1>>][<<l, s>>]>>], fmt)
  ELSE CloseText(x, l, fmt) \o s

Node == Items \X Nat
Printed == [Nat \X Text -> Text]
AreTexts(f, fmt) ==
  /\ f \in [Node -> Printed]
  /\ \A x \in Items, k, l \in Nat, s \in Text :
       f[<<x, k>>][<<l, s>>] = TextWith(x, k, l, s, fmt, f)
TextsIn(fmt) == CHOOSE f : AreTexts(f, fmt)
Doc(x, l, s, fmt) == TextsIn(fmt)[<<x, 0>>][<<l, s>>]
Loop(x, k, l, s, fmt) == TextsIn(fmt)[<<x, k>>][<<l, s>>]

LEMMA BytesAreText == ASSUME NEW s \in Seq(Byte) PROVE s \in Text
<1>1. Byte \subseteq Octet
  BY DEF Byte, Octet
<1> QED BY <1>1 DEF Text

LEMMA TextConcat ==
  ASSUME NEW a \in Text, NEW s \in Text
  PROVE  a \o s \in Text
BY ConcatIs DEF Text

LEMMA ItemIs ==
  ASSUME NEW x \in Items
  PROVE  /\ x \in Trees /\ x.type \in Printable /\ x.kids \in Seq(Items)
         /\ Len(x.kids) \in Nat
         /\ \A k \in 1 .. Len(x.kids) : x.kids[k] \in Items
         /\ x.name \in Seq(Byte) \cup {NoName} /\ x.str \in Seq(Byte)
         /\ x.num \in -LargestInt .. LargestInt
<1>1. x \in Trees
  BY ItemAssumption
<1>2. /\ x.type \in Printable /\ x.kids \in Seq(Items)
      /\ x.name \in Seq(Byte) \cup {NoName} /\ x.str \in Seq(Byte)
  BY PrintAssumption
<1>3. x.num \in -LargestInt .. LargestInt
  BY ItemAssumption
<1> QED BY <1>1, <1>2, <1>3

LEMMA MarksAreText ==
  /\ <<>> \in Text /\ <<0>> \in Text
  /\ \A c \in {LBracket, RBracket, LBrace, RBrace, Comma, Colon, LF, Space, Tab, Quote} :
       c \in Byte /\ c \in Octet /\ <<c>> \in Text
  /\ <<LBrace, LF>> \in Text /\ <<Colon, Tab>> \in Text
BY DEF Text, Octet, Byte, LBracket, RBracket, LBrace, RBrace, Comma, Colon, LF, Space, Tab, Quote

LEMMA PiecesAreText ==
  ASSUME NEW x \in Items, NEW k \in Nat, NEW l \in Nat \ {0}, NEW fmt \in BOOLEAN
  PROVE  /\ OpenText(x, fmt) \in Text /\ CloseText(x, l, fmt) \in Text
         /\ ~Container(x) => ScalarPiece(x).s \in Text
         /\ Separator(x, k, fmt) \in Text /\ ColonText(fmt) \in Text
         /\ Indent(l, fmt) \in Text
         /\ k \in 1 .. Len(x.kids) => KeyText(x, k) \in Text
<1>1. OpenText(x, fmt) \in Text /\ ColonText(fmt) \in Text
  BY MarksAreText DEF OpenText, ColonText
<1>2. Indent(l, fmt) \in Text /\ Indent(l - 1, fmt) \in Text
  <2>1. Tabs(l) \in Text /\ Tabs(l - 1) \in Text
    BY TabsType, BytesAreText
  <2> QED BY <2>1, MarksAreText DEF Indent
<1>3. CloseText(x, l, fmt) \in Text
  BY <1>2, MarksAreText, TextConcat DEF CloseText
<1>4. Separator(x, k, fmt) \in Text
  <2>1. CommaText(x, k) \in Text /\ BreakText(x, k, fmt) \in Text
    BY MarksAreText DEF CommaText, BreakText
  <2> QED BY <2>1, TextConcat DEF Separator
<1>5. ASSUME ~Container(x) PROVE ScalarPiece(x).s \in Text
  BY <1>5, SnugScalar, BytesAreText DEF Snug, Container
<1>6. ASSUME k \in 1 .. Len(x.kids) PROVE KeyText(x, k) \in Text
  <2>1. x.kids[k].name \in Seq(Byte) \cup {NoName}
    BY <1>6, ItemIs
  <2> QED BY <2>1, SnugString, BytesAreText DEF Snug, KeyText
<1> QED BY <1>1, <1>2, <1>3, <1>4, <1>5, <1>6

LEMMA MemberIsText ==
  ASSUME NEW x \in Items, NEW k \in 1 .. Len(x.kids), NEW l \in Nat, NEW d \in Text, NEW fmt \in BOOLEAN
  PROVE  Member(x, k, l, d, fmt) \in Text
<1>1. k \in Nat /\ l + 1 \in Nat \ {0}
  OBVIOUS
<1>2. ColonText(fmt) \in Text /\ KeyText(x, k) \in Text
  BY <1>1, PiecesAreText
<1>3. Indent(l, fmt) \in Text
  <2>1. Tabs(l) \in Text
    BY TabsType, BytesAreText
  <2> QED BY <2>1, MarksAreText DEF Indent
<1>4. ColonText(fmt) \o d \in Text
  BY <1>2, TextConcat
<1>5. KeyText(x, k) \o (ColonText(fmt) \o d) \in Text
  BY <1>2, <1>4, TextConcat
<1>6. Indent(l, fmt) \o (KeyText(x, k) \o (ColonText(fmt) \o d)) \in Text
  BY <1>3, <1>5, TextConcat
<1> QED BY <1>6 DEF Member

\* l is at least 1 where something is closed.
LEMMA TextWithType ==
  ASSUME NEW x \in Items, NEW k \in Nat, NEW l \in Nat, NEW s \in Text, NEW fmt \in BOOLEAN,
         NEW f \in [Node -> Printed]
  PROVE  TextWith(x, k, l, s, fmt, f) \in Text
<1>1. \A z \in Node, n \in Nat, u \in Text : f[z][<<n, u>>] \in Text
  BY DEF Printed
<1>2. CASE k = 0
  <2>1. f[<<x, 1>>][<<l + 1, s>>] \in Text
    BY <1>1 DEF Node
  <2>2. OpenText(x, fmt) \in Text
    BY MarksAreText DEF OpenText
  <2>3. Container(x) \/ ScalarPiece(x).s \in Text
    BY SnugScalar, BytesAreText DEF Snug, Container
  <2> QED BY <1>2, <2>1, <2>2, <2>3, TextConcat DEF TextWith
<1>3. CASE k # 0 /\ k <= Len(x.kids)
  <2> DEFINE y == x.kids[k]
             r == f[<<x, k + 1>>][<<l, s>>]
             u == Separator(x, k, fmt) \o r
             d == f[<<y, 0>>][<<l, u>>]
  <2>1. y \in Items /\ k \in 1 .. Len(x.kids)
    BY <1>3, ItemIs
  <2>2. r \in Text
    BY <1>1 DEF Node
  <2>3. Separator(x, k, fmt) \in Text
    <3>1. 1 \in Nat \ {0}
      OBVIOUS
    <3> QED BY <3>1, PiecesAreText
  <2>4. u \in Text
    BY <2>2, <2>3, TextConcat
  <2>5. d \in Text
    <3> HIDE DEF u, y
    <3> QED BY <1>1, <2>1, <2>4 DEF Node
  <2>6. TextWith(x, k, l, s, fmt, f) = Member(x, k, l, d, fmt)
    BY <1>3 DEF TextWith
  <2> HIDE DEF d
  <2> QED BY <2>1, <2>5, <2>6, MemberIsText
<1>4. CASE k # 0 /\ ~(k <= Len(x.kids))
  <2>1. TextWith(x, k, l, s, fmt, f) = CloseText(x, l, fmt) \o s
    BY <1>4 DEF TextWith
  <2>2. Indent(l - 1, fmt) \in Text
    <3>1. Tabs(l - 1) \in Text
      <4>1. CASE l = 0
        <5>1. Tabs(l - 1) = <<>>
          BY <4>1 DEF Tabs
        <5> QED BY <5>1, MarksAreText
      <4>2. CASE l # 0
        <5>1. l - 1 \in Nat
          BY <4>2
        <5> QED BY <5>1, TabsType, BytesAreText
      <4> QED BY <4>1, <4>2
    <3> QED BY <3>1, MarksAreText DEF Indent
  <2>3. CloseText(x, l, fmt) \in Text
    BY <2>2, MarksAreText, TextConcat DEF CloseText
  <2> QED BY <2>1, <2>3, TextConcat
<1> QED BY <1>2, <1>3, <1>4

\* What TextWith makes of f only depends on what is less deep or further on.
Stride == 2000000000
Rank(x, k) ==
  Stride * Height[x] + (IF k <= Len(x.kids) THEN Len(x.kids) + 1 - k ELSE 0)

LEMMA RankFalls ==
  ASSUME NEW x \in Items, NEW k \in Nat
  PROVE  /\ Rank(x, k) \in Nat
         /\ k <= Len(x.kids) => Rank(x, k + 1) < Rank(x, k)
         /\ k \in 1 .. Len(x.kids) => Rank(x.kids[k], 0) < Rank(x, k)
<1>1. \A y \in Items : /\ Height[y] \in Nat /\ Len(y.kids) \in Nat
                       /\ Len(y.kids) + 1 < Stride
  <2>1. ASSUME NEW y \in Items PROVE /\ Height[y] \in Nat /\ Len(y.kids) \in Nat
                                     /\ Len(y.kids) + 1 < Stride
    <3>1. y \in Trees /\ Len(y.kids) \in Nat
      BY ItemIs
    <3> QED BY <3>1, TreeAssumption, PowersAre, SMT DEF Stride
  <2> QED BY <2>1
<1>2. Rank(x, k) \in Nat
  BY <1>1, SMT DEF Rank, Stride
<1> DEFINE h == Stride * Height[x]
           n == Len(x.kids)
<1>5. h \in Nat /\ n \in Nat /\ n + 1 < Stride
  BY <1>1, SMT DEF Stride
<1>6. \A m : Rank(x, m) = h + (IF m <= n THEN n + 1 - m ELSE 0)
  BY DEF Rank
<1>3. ASSUME k <= n PROVE Rank(x, k + 1) < Rank(x, k)
  <2>1. Rank(x, k) = h + (n + 1 - k)
    BY <1>3, <1>6
  <2>2. Rank(x, k + 1) = h + (IF k + 1 <= n THEN n + 1 - (k + 1) ELSE 0)
    BY <1>6
  <2> HIDE DEF h, n
  <2> QED BY <1>3, <1>5, <2>1, <2>2, SMT
<1>4. ASSUME k \in 1 .. n PROVE Rank(x.kids[k], 0) < Rank(x, k)
  <2> DEFINE y == x.kids[k]
  <2>1. y \in Items /\ x \in Trees
    BY <1>4, ItemIs
  <2>2. Height[y] < Height[x]
    BY <1>4, <2>1, KidsInside
  <2> DEFINE i == Height[y]
             m == Len(y.kids)
             j == Height[x]
  <2>4. i \in Nat /\ j \in Nat /\ m \in Nat /\ m + 1 < Stride /\ i < j
    BY <1>1, <2>1, <2>2
  <2>5. Rank(y, 0) = Stride * i + (IF 0 <= m THEN m + 1 - 0 ELSE 0)
    BY DEF Rank
  <2>6. Rank(x, k) = Stride * j + (n + 1 - k)
    BY <1>4, <1>6
  <2> HIDE DEF y, i, j, m, n
  <2>3. Rank(y, 0) < Rank(x, k)
    BY <1>4, <1>5, <2>4, <2>5, <2>6, SMT DEF Stride
  <2> QED BY <2>3 DEF y
<1> QED BY <1>2, <1>3, <1>4 DEF n

LEMMA DocsExist ==
  ASSUME NEW fmt \in BOOLEAN
  PROVE  AreTexts(TextsIn(fmt), fmt)
<1> DEFINE h == [z \in Node |-> Rank(z[1], z[2])]
           e == [y \in Nat \X Text |-> <<>>]
           Made(z, f) == [y \in Nat \X Text |-> TextWith(z[1], z[2], y[1], y[2], fmt, f)]
           g == [w \in Node \X [Node -> Printed] |-> Made(w[1], w[2])]
<1>1. h \in [Node -> Nat]
  BY RankFalls DEF Node
<1>2. e \in Printed
  BY MarksAreText DEF Printed
<1>3. ASSUME NEW z \in Node, NEW f \in [Node -> Printed] PROVE Made(z, f) \in Printed
  BY TextWithType DEF Node, Printed
<1>4. g \in [Node \X [Node -> Printed] -> Printed]
  <2> HIDE DEF Made
  <2> QED BY <1>3
<1>5. DependsBelow(g, Node, Printed, h)
  <2>1. ASSUME NEW z \in Node, NEW f \in [Node -> Printed], NEW k \in [Node -> Printed],
               \A y \in Node : h[y] < h[z] => f[y] = k[y]
        PROVE  g[<<z, f>>] = g[<<z, k>>]
    <3> DEFINE x == z[1]
               n == z[2]
    <3>1. x \in Items /\ n \in Nat /\ z = <<x, n>>
      BY DEF Node
    <3>2. \A y \in Items, m \in Nat : Rank(y, m) < Rank(x, n) => f[<<y, m>>] = k[<<y, m>>]
      BY <2>1, <3>1 DEF Node
    <3> HIDE DEF x, n
    <3>3. n <= Len(x.kids) => f[<<x, n + 1>>] = k[<<x, n + 1>>]
      <4>1. n + 1 \in Nat
        BY <3>1
      <4> QED BY <3>1, <3>2, <4>1, RankFalls
    <3>4. n \in 1 .. Len(x.kids) => f[<<x.kids[n], 0>>] = k[<<x.kids[n], 0>>]
      BY <3>1, <3>2, RankFalls, ItemIs
    <3>5. \A l \in Nat, s \in Text : TextWith(x, n, l, s, fmt, f) = TextWith(x, n, l, s, fmt, k)
      <4>1. Len(x.kids) \in Nat
        BY <3>1, ItemIs
      <4>2. CASE n = 0
        <5>1. f[<<x, 1>>] = k[<<x, 1>>]
          BY <3>3, <4>1, <4>2
        <5> QED BY <4>2, <5>1 DEF TextWith
      <4>3. CASE n # 0 /\ n <= Len(x.kids)
        <5>1. f[<<x, n + 1>>] = k[<<x, n + 1>>] /\ f[<<x.kids[n], 0>>] = k[<<x.kids[n], 0>>]
          BY <3>1, <3>3, <3>4, <4>1, <4>3
        <5> QED BY <4>3, <5>1 DEF TextWith
      <4>4. CASE n # 0 /\ ~(n <= Len(x.kids))
        BY <4>4 DEF TextWith
      <4> QED BY <4>2, <4>3, <4>4
    <3>6. Made(z, f) = Made(z, k)
      BY <3>5 DEF x, n
    <3> HIDE DEF Made
    <3> QED BY <3>6
  <2> HIDE DEF g, h
  <2> QED BY <2>1 DEF DependsBelow
<1>6. PICK f : Solves(f, g, Node, Printed)
  <2> HIDE DEF g, h, e
  <2> QED BY <1>1, <1>2, <1>4, <1>5, Descent
<1>7. AreTexts(f, fmt)
  <2>1. f \in [Node -> Printed] /\ \A z \in Node : f[z] = g[<<z, f>>]
    <3> HIDE DEF g
    <3> QED BY <1>6 DEF Solves
  <2>2. \A z \in Node : f[z] = Made(z, f)
    <3> HIDE DEF Made
    <3> QED BY <2>1
  <2>3. ASSUME NEW x \in Items, NEW k \in Nat, NEW l \in Nat, NEW s \in Text
        PROVE  f[<<x, k>>][<<l, s>>] = TextWith(x, k, l, s, fmt, f)
    <3>1. f[<<x, k>>] = Made(<<x, k>>, f)
      BY <2>2 DEF Node
    <3> QED BY <3>1
  <2> QED BY <2>1, <2>3 DEF AreTexts
<1> QED BY <1>7 DEF TextsIn

\* The text of an item, of a loop, and of what follows a kid.
LEMMA DocIs ==
  ASSUME NEW x \in Items, NEW l \in Nat, NEW s \in Text, NEW fmt \in BOOLEAN
  PROVE  /\ Doc(x, l, s, fmt) \in Text
         /\ Container(x) => Doc(x, l, s, fmt) = OpenText(x, fmt) \o Loop(x, 1, l + 1, s, fmt)
         /\ ~Container(x) => Doc(x, l, s, fmt) = ScalarPiece(x).s \o s
<1> DEFINE f == TextsIn(fmt)
<1>1. AreTexts(f, fmt)
  BY DocsExist
<1> HIDE DEF f
<1>2. f \in [Node -> Printed] /\ f[<<x, 0>>][<<l, s>>] = TextWith(x, 0, l, s, fmt, f)
  BY <1>1 DEF AreTexts
<1>3. TextWith(x, 0, l, s, fmt, f) \in Text
  BY <1>2, TextWithType
<1> QED BY <1>2, <1>3 DEF Doc, Loop, TextWith, f

LEMMA LoopMade ==
  ASSUME NEW x \in Items, NEW k \in Nat \ {0}, NEW l \in Nat, NEW s \in Text, NEW fmt \in BOOLEAN
  PROVE  /\ Loop(x, k, l, s, fmt) \in Text
         /\ Loop(x, k, l, s, fmt) = TextWith(x, k, l, s, fmt, TextsIn(fmt))
<1> DEFINE f == TextsIn(fmt)
<1>1. AreTexts(f, fmt)
  BY DocsExist
<1> HIDE DEF f
<1>2. f \in [Node -> Printed] /\ f[<<x, k>>][<<l, s>>] = TextWith(x, k, l, s, fmt, f)
  BY <1>1 DEF AreTexts
<1>3. TextWith(x, k, l, s, fmt, f) \in Text
  BY <1>2, TextWithType
<1>4. Loop(x, k, l, s, fmt) = f[<<x, k>>][<<l, s>>]
  BY DEF Loop, f
<1> QED BY <1>2, <1>3, <1>4 DEF f

LEMMA LoopEnds ==
  ASSUME NEW x \in Items, NEW k \in Nat \ {0}, NEW l \in Nat, NEW s \in Text, NEW fmt \in BOOLEAN,
         ~(k <= Len(x.kids))
  PROVE  Loop(x, k, l, s, fmt) = CloseText(x, l, fmt) \o s
<1>1. Loop(x, k, l, s, fmt) = TextWith(x, k, l, s, fmt, TextsIn(fmt))
  BY LoopMade
<1> QED BY <1>1 DEF TextWith

LEMMA LoopGoesOn ==
  ASSUME NEW x \in Items, NEW k \in Nat \ {0}, NEW l \in Nat, NEW s \in Text, NEW fmt \in BOOLEAN,
         k <= Len(x.kids)
  PROVE  Loop(x, k, l, s, fmt)
         = Member(x, k, l, Doc(x.kids[k], l, Separator(x, k, fmt) \o Loop(x, k + 1, l, s, fmt), fmt), fmt)
<1> DEFINE f == TextsIn(fmt)
           u == Separator(x, k, fmt) \o Loop(x, k + 1, l, s, fmt)
<1>1. Loop(x, k, l, s, fmt) = TextWith(x, k, l, s, fmt, f)
  BY LoopMade
<1>2. TextWith(x, k, l, s, fmt, f)
      = Member(x, k, l, f[<<x.kids[k], 0>>][<<l, Separator(x, k, fmt) \o f[<<x, k + 1>>][<<l, s>>]>>], fmt)
  BY DEF TextWith
<1>3. u = Separator(x, k, fmt) \o f[<<x, k + 1>>][<<l, s>>]
  BY DEF Loop
<1>4. Doc(x.kids[k], l, u, fmt) = f[<<x.kids[k], 0>>][<<l, u>>]
  BY DEF Doc
<1> HIDE DEF f, u
<1>5. Loop(x, k, l, s, fmt) = Member(x, k, l, Doc(x.kids[k], l, u, fmt), fmt)
  BY <1>1, <1>2, <1>3, <1>4
<1> QED BY <1>5 DEF u

After(x, k, l, s, fmt) == Separator(x, k, fmt) \o Loop(x, k + 1, l, s, fmt)

LEMMA AfterIsText ==
  ASSUME NEW x \in Items, NEW k \in Nat, NEW l \in Nat, NEW s \in Text, NEW fmt \in BOOLEAN
  PROVE  After(x, k, l, s, fmt) \in Text
<1>1. Separator(x, k, fmt) \in Text
  <2>1. 1 \in Nat \ {0}
    OBVIOUS
  <2> QED BY <2>1, PiecesAreText
<1>2. Loop(x, k + 1, l, s, fmt) \in Text
  <2>1. k + 1 \in Nat \ {0}
    OBVIOUS
  <2> QED BY <2>1, LoopMade
<1> QED BY <1>1, <1>2, TextConcat DEF After

----------------------------------------------------------------------------
(* Ways: the calls that are open, in the printers or in the parser.        *)

\* The loop of a call is at the kid k of x; s is what follows x.
Call1 == [x : Items, k : Nat \ {0}, s : Text]
Way == Seq(Call1)

\* The item behind the first i calls of w, that there is one, and what follows it.
HereAt(w, i, v) == IF i = 0 THEN v ELSE w[i].x.kids[w[i].k]
InsideAt(w, i) == i = 0 \/ w[i].k <= Len(w[i].x.kids)
RestAt(w, i, e, fmt) == IF i = 0 THEN e ELSE After(w[i].x, w[i].k, i, w[i].s, fmt)

\* w leads from v, before the text e, to one of the items inside.
Leads1(w, i, v, e, fmt) ==
  /\ Container(w[i].x)
  /\ InsideAt(w, i - 1) /\ w[i].x = HereAt(w, i - 1, v)
  /\ w[i].s = RestAt(w, i - 1, e, fmt)
  /\ w[i].k <= Len(w[i].x.kids) + 1
IsWay(w, v, e, fmt) == w \in Way /\ \A i \in 1 .. Len(w) : Leads1(w, i, v, e, fmt)

LEMMA CallIs ==
  ASSUME NEW w \in Way, NEW i \in 1 .. Len(w)
  PROVE  /\ Len(w) \in Nat /\ i \in Nat
         /\ w[i] \in Call1
         /\ w[i].x \in Items /\ w[i].k \in Nat \ {0} /\ w[i].s \in Text
         /\ w[i].x.kids \in Seq(Items) /\ Len(w[i].x.kids) \in Nat
         /\ w[i] = [x |-> w[i].x, k |-> w[i].k, s |-> w[i].s]
<1>1. Len(w) \in Nat /\ i \in Nat /\ w[i] \in Call1
  BY ElementOfSeq DEF Way
<1>2. w[i].x \in Items /\ w[i].k \in Nat \ {0} /\ w[i].s \in Text
  BY <1>1 DEF Call1
<1>3. w[i] = [x |-> w[i].x, k |-> w[i].k, s |-> w[i].s]
  BY <1>1 DEF Call1
<1> QED BY <1>1, <1>2, <1>3, ItemIs

LEMMA RestIsText ==
  ASSUME NEW v \in Items, NEW e \in Text, NEW fmt \in BOOLEAN, NEW w, IsWay(w, v, e, fmt),
         NEW i \in 0 .. Len(w)
  PROVE  /\ RestAt(w, i, e, fmt) \in Text
         /\ InsideAt(w, i) => HereAt(w, i, v) \in Items
<1>1. CASE i = 0
  BY <1>1 DEF RestAt, HereAt
<1>2. CASE i # 0
  <2>1. w \in Way /\ i \in 1 .. Len(w)
    BY <1>2 DEF IsWay
  <2>2. /\ w[i].x \in Items /\ w[i].k \in Nat \ {0} /\ w[i].s \in Text /\ i \in Nat
        /\ w[i].x.kids \in Seq(Items) /\ Len(w[i].x.kids) \in Nat
    BY <2>1, CallIs
  <2>3. RestAt(w, i, e, fmt) \in Text
    BY <1>2, <2>2, AfterIsText DEF RestAt
  <2>4. ASSUME InsideAt(w, i) PROVE HereAt(w, i, v) \in Items
    <3>1. w[i].k \in 1 .. Len(w[i].x.kids)
      BY <1>2, <2>2, <2>4 DEF InsideAt
    <3>2. w[i].x.kids[w[i].k] \in Items
      BY <2>2, <3>1, ElementOfSeq
    <3> QED BY <1>2, <3>2 DEF HereAt
  <2> QED BY <2>3, <2>4
<1> QED BY <1>1, <1>2

\* The item that a way leads to is called, or left, or the loop goes on.
Deeper(w, y, s) == Append(w, [x |-> y, k |-> 1, s |-> s])
Stepped(w) == [w EXCEPT ![Len(w)] = [x |-> w[Len(w)].x, k |-> w[Len(w)].k + 1, s |-> w[Len(w)].s]]
Left(w) == SubSeq(w, 1, Len(w) - 1)

LEMMA DeeperIsWay ==
  ASSUME NEW v \in Items, NEW e \in Text, NEW fmt \in BOOLEAN, NEW w, IsWay(w, v, e, fmt),
         InsideAt(w, Len(w)), Container(HereAt(w, Len(w), v))
  PROVE  LET y == HereAt(w, Len(w), v)
             s == RestAt(w, Len(w), e, fmt)
             d == Deeper(w, y, s)
         IN  /\ IsWay(d, v, e, fmt) /\ Len(d) = Len(w) + 1
             /\ \A i \in 1 .. Len(w) : d[i] = w[i]
             /\ d[Len(d)] = [x |-> y, k |-> 1, s |-> s]
<1> DEFINE n == Len(w)
           y == HereAt(w, n, v)
           s == RestAt(w, n, e, fmt)
           c == [x |-> y, k |-> 1, s |-> s]
           d == Append(w, c)
<1>1. n \in Nat /\ w \in Way
  BY DEF IsWay, Way
<1>2. y \in Items /\ s \in Text
  <2>1. n \in 0 .. Len(w)
    BY <1>1
  <2> QED BY <2>1, RestIsText
<1>3. c \in Call1
  BY <1>2 DEF Call1
<1>4. /\ d \in Way /\ Len(d) = n + 1 /\ d[n + 1] = c
      /\ \A i \in 1 .. n : d[i] = w[i]
  <2> HIDE DEF c
  <2> QED BY <1>1, <1>3, AppendProperties DEF Way
<1>5. c.x = y /\ c.k = 1 /\ c.s = s
  OBVIOUS
<1>6. /\ HereAt(d, n, v) = y /\ RestAt(d, n, e, fmt) = s /\ InsideAt(d, n)
  <2>1. n # 0 => d[n] = w[n]
    BY <1>1, <1>4
  <2> HIDE DEF d
  <2> QED BY <2>1 DEF HereAt, RestAt, InsideAt
<1>7. ASSUME NEW i \in 1 .. n PROVE Leads1(d, i, v, e, fmt)
  <2>1. Leads1(w, i, v, e, fmt)
    BY DEF IsWay
  <2>2. d[i] = w[i] /\ (i - 1 # 0 => d[i - 1] = w[i - 1])
    <3>1. i - 1 # 0 => i - 1 \in 1 .. n
      BY <1>1
    <3> HIDE DEF d
    <3> QED BY <1>4, <3>1
  <2>3. /\ HereAt(d, i - 1, v) = HereAt(w, i - 1, v)
        /\ RestAt(d, i - 1, e, fmt) = RestAt(w, i - 1, e, fmt)
        /\ InsideAt(d, i - 1) <=> InsideAt(w, i - 1)
    <3> HIDE DEF d
    <3> QED BY <2>2 DEF HereAt, RestAt, InsideAt
  <2> HIDE DEF d
  <2> QED BY <2>1, <2>2, <2>3 DEF Leads1
<1>8. Leads1(d, n + 1, v, e, fmt)
  <2>1. d[n + 1].x = y /\ d[n + 1].k = 1 /\ d[n + 1].s = s /\ n + 1 - 1 = n
    BY <1>1, <1>4, <1>5
  <2>2. Len(y.kids) \in Nat
    BY <1>2, ItemIs
  <2>3. Container(y)
    OBVIOUS
  <2> DEFINE m == n + 1
  <2>4. d[m].x = y /\ d[m].k = 1 /\ d[m].s = s /\ m - 1 = n
    BY <2>1
  <2> HIDE DEF d, y, s, n, m
  <2>5. InsideAt(d, m - 1) /\ d[m].x = HereAt(d, m - 1, v) /\ d[m].s = RestAt(d, m - 1, e, fmt)
    BY <1>6, <2>4
  <2>6. d[m].k <= Len(d[m].x.kids) + 1
    BY <2>2, <2>4
  <2>7. Leads1(d, m, v, e, fmt)
    BY <2>3, <2>4, <2>5, <2>6 DEF Leads1
  <2> QED BY <2>7 DEF m
<1>9. IsWay(d, v, e, fmt)
  <2> HIDE DEF d
  <2>1. \A i \in 1 .. Len(d) : i \in 1 .. n \/ i = n + 1
    BY <1>1, <1>4
  <2> QED BY <1>4, <1>7, <1>8, <2>1 DEF IsWay
<1>10. d = Deeper(w, y, s)
  BY DEF Deeper
<1> HIDE DEF c, d
<1> QED BY <1>4, <1>9, <1>10 DEF c

LEMMA SteppedIsWay ==
  ASSUME NEW v \in Items, NEW e \in Text, NEW fmt \in BOOLEAN, NEW w, IsWay(w, v, e, fmt),
         w # <<>>, InsideAt(w, Len(w))
  PROVE  LET n == Len(w)
             d == Stepped(w)
         IN  /\ IsWay(d, v, e, fmt) /\ Len(d) = n /\ n \in Nat \ {0}
             /\ \A i \in 1 .. n : i # n => d[i] = w[i]
             /\ d[n].x = w[n].x /\ d[n].k = w[n].k + 1 /\ d[n].s = w[n].s
<1> DEFINE n == Len(w)
           c == [x |-> w[n].x, k |-> w[n].k + 1, s |-> w[n].s]
           d == [w EXCEPT ![n] = c]
<1>1. n \in Nat \ {0} /\ w \in Way /\ n \in 1 .. n
  BY EmptySeq DEF IsWay, Way
<1>2. w[n].x \in Items /\ w[n].k \in Nat \ {0} /\ w[n].s \in Text /\ Len(w[n].x.kids) \in Nat
  BY <1>1, CallIs
<1>3. c \in Call1
  BY <1>2 DEF Call1
<1>4. /\ d \in Way /\ Len(d) = n /\ d[n] = c
      /\ \A i \in 1 .. n : i # n => d[i] = w[i]
  <2> HIDE DEF c
  <2> QED BY <1>1, <1>3, ExceptSeq DEF Way
<1>5. c.x = w[n].x /\ c.k = w[n].k + 1 /\ c.s = w[n].s
  OBVIOUS
<1>6. ASSUME NEW i \in 1 .. n PROVE Leads1(d, i, v, e, fmt)
  <2>1. Leads1(w, i, v, e, fmt)
    BY DEF IsWay
  <2>2. i - 1 # 0 => d[i - 1] = w[i - 1]
    <3>1. i - 1 # 0 => i - 1 \in 1 .. n /\ i - 1 # n
      BY <1>1
    <3> HIDE DEF d
    <3> QED BY <1>4, <3>1
  <2>3. /\ HereAt(d, i - 1, v) = HereAt(w, i - 1, v)
        /\ RestAt(d, i - 1, e, fmt) = RestAt(w, i - 1, e, fmt)
        /\ InsideAt(d, i - 1) <=> InsideAt(w, i - 1)
    <3> HIDE DEF d
    <3> QED BY <2>2 DEF HereAt, RestAt, InsideAt
  <2>4. d[i].x = w[i].x /\ d[i].s = w[i].s /\ d[i].k <= Len(d[i].x.kids) + 1
    <3>1. CASE i = n
      <4>1. w[n].k <= Len(w[n].x.kids)
        BY <1>1 DEF InsideAt
      <4> HIDE DEF d, c
      <4> QED BY <1>2, <1>4, <1>5, <3>1, <4>1
    <3>2. CASE i # n
      <4> HIDE DEF d
      <4> QED BY <1>4, <2>1, <3>2 DEF Leads1
    <3> QED BY <3>1, <3>2
  <2> HIDE DEF d
  <2> QED BY <2>1, <2>3, <2>4 DEF Leads1
<1>7. IsWay(d, v, e, fmt)
  <2> HIDE DEF d
  <2> QED BY <1>4, <1>6 DEF IsWay
<1>8. d = Stepped(w)
  BY DEF Stepped
<1> HIDE DEF c, d
<1> QED BY <1>1, <1>4, <1>5, <1>7, <1>8

LEMMA LeftIsWay ==
  ASSUME NEW v \in Items, NEW e \in Text, NEW fmt \in BOOLEAN, NEW w, IsWay(w, v, e, fmt), w # <<>>
  PROVE  LET n == Len(w)
             d == Left(w)
         IN  /\ IsWay(d, v, e, fmt) /\ Len(d) = n - 1 /\ n \in Nat \ {0}
             /\ \A i \in 1 .. n - 1 : d[i] = w[i]
             /\ InsideAt(d, n - 1)
             /\ HereAt(d, n - 1, v) = w[n].x /\ RestAt(d, n - 1, e, fmt) = w[n].s
<1> DEFINE n == Len(w)
           m == n - 1
           d == SubSeq(w, 1, m)
<1>1. n \in Nat \ {0} /\ w \in Way /\ n \in 1 .. n /\ m \in Nat
  BY EmptySeq DEF IsWay, Way
<1>2. \A i \in 1 .. m : w[i] \in Call1
  <2>1. \A i \in 1 .. m : i \in 1 .. Len(w)
    BY <1>1
  <2> QED BY <1>1, <2>1, CallIs
<1>3. d \in Way /\ Len(d) = m /\ \A i \in 1 .. m : d[i] = w[i]
  <2> HIDE DEF m
  <2>1. /\ SubSeq(w, 1, m) \in Seq(Call1)
        /\ Len(SubSeq(w, 1, m)) = IF 1 <= m THEN m - 1 + 1 ELSE 0
        /\ \A i \in 1 .. m - 1 + 1 : SubSeq(w, 1, m)[i] = w[1 + i - 1]
    BY <1>1, <1>2, SubSeqProperties
  <2>2. Len(d) = m
    BY <1>1, <2>1
  <2>3. \A i \in 1 .. m : d[i] = w[i]
    BY <1>1, <2>1
  <2> QED BY <2>1, <2>2, <2>3 DEF Way
<1> HIDE DEF d
<1>4. ASSUME NEW i \in 0 .. m
      PROVE  /\ HereAt(d, i, v) = HereAt(w, i, v)
             /\ RestAt(d, i, e, fmt) = RestAt(w, i, e, fmt)
             /\ InsideAt(d, i) <=> InsideAt(w, i)
  <2>1. i # 0 => d[i] = w[i]
    BY <1>3
  <2> QED BY <2>1 DEF HereAt, RestAt, InsideAt
<1>5. ASSUME NEW i \in 1 .. m PROVE Leads1(d, i, v, e, fmt)
  <2>1. Leads1(w, i, v, e, fmt)
    <3>1. i \in 1 .. Len(w)
      BY <1>1
    <3> QED BY <3>1 DEF IsWay
  <2>2. i - 1 \in 0 .. m
    BY <1>1
  <2>3. d[i] = w[i]
    BY <1>3
  <2> QED BY <1>4, <2>1, <2>2, <2>3 DEF Leads1
<1>6. IsWay(d, v, e, fmt)
  BY <1>3, <1>5 DEF IsWay
<1>7. Leads1(w, n, v, e, fmt) /\ m \in 0 .. m
  BY <1>1 DEF IsWay
<1>8. InsideAt(d, m) /\ HereAt(d, m, v) = w[n].x /\ RestAt(d, m, e, fmt) = w[n].s
  BY <1>4, <1>7 DEF Leads1
<1> QED BY <1>1, <1>3, <1>6, <1>8 DEF d, Left

----------------------------------------------------------------------------
\* The text p comes next: that of the item to which the way w leads, of the loop of
\* the innermost call, of a key, of what follows a key, or of what follows the item.
AtValue(w, v, e, fmt, p) ==
  /\ InsideAt(w, Len(w))
  /\ p = Doc(HereAt(w, Len(w), v), Len(w), RestAt(w, Len(w), e, fmt), fmt)
AtLoop(w, fmt, p) ==
  /\ w # <<>>
  /\ p = Loop(w[Len(w)].x, w[Len(w)].k, Len(w), w[Len(w)].s, fmt)
AtColon(w, v, e, fmt, p) ==
  /\ w # <<>> /\ w[Len(w)].x.type = "object"
  /\ \E d \in Text : AtValue(w, v, e, fmt, d) /\ p = ColonText(fmt) \o d
AtKey(w, v, e, fmt, p) ==
  \E d \in Text : AtColon(w, v, e, fmt, d) /\ p = KeyText(w[Len(w)].x, w[Len(w)].k) \o d
AtRest(w, e, fmt, p) == InsideAt(w, Len(w)) /\ p = RestAt(w, Len(w), e, fmt)

\* w leads from the item v, which e follows.
OnItsWay(v, e, fmt, w) == v \in Items /\ e \in Text /\ fmt \in BOOLEAN /\ IsWay(w, v, e, fmt)

LEMMA TopIs ==
  ASSUME NEW v, NEW e, NEW fmt, NEW w, OnItsWay(v, e, fmt, w)
  PROVE  /\ Len(w) \in Nat /\ (w # <<>> <=> Len(w) # 0)
         /\ w # <<>> =>
              LET c == w[Len(w)]
              IN  /\ c.x \in Items /\ c.k \in Nat \ {0} /\ c.s \in Text /\ Container(c.x)
                  /\ c.x.kids \in Seq(Items) /\ Len(c.x.kids) \in Nat
                  /\ c.k <= Len(c.x.kids) + 1
                  /\ InsideAt(w, Len(w)) <=> c.k <= Len(c.x.kids)
                  /\ HereAt(w, Len(w), v) = c.x.kids[c.k]
                  /\ RestAt(w, Len(w), e, fmt) = After(c.x, c.k, Len(w), c.s, fmt)
         /\ RestAt(w, Len(w), e, fmt) \in Text
         /\ InsideAt(w, Len(w)) => HereAt(w, Len(w), v) \in Items
<1>1. w \in Way /\ Len(w) \in Nat /\ (w # <<>> <=> Len(w) # 0)
  BY EmptySeq DEF OnItsWay, IsWay, Way
<1>2. Len(w) \in 0 .. Len(w)
  BY <1>1
<1>3. /\ RestAt(w, Len(w), e, fmt) \in Text
      /\ InsideAt(w, Len(w)) => HereAt(w, Len(w), v) \in Items
  BY <1>2, RestIsText DEF OnItsWay
<1>4. ASSUME w # <<>>
      PROVE  LET c == w[Len(w)]
             IN  /\ c.x \in Items /\ c.k \in Nat \ {0} /\ c.s \in Text /\ Container(c.x)
                 /\ c.x.kids \in Seq(Items) /\ Len(c.x.kids) \in Nat
                 /\ c.k <= Len(c.x.kids) + 1
                 /\ InsideAt(w, Len(w)) <=> c.k <= Len(c.x.kids)
                 /\ HereAt(w, Len(w), v) = c.x.kids[c.k]
                 /\ RestAt(w, Len(w), e, fmt) = After(c.x, c.k, Len(w), c.s, fmt)
  <2>1. Len(w) \in 1 .. Len(w) /\ Len(w) # 0
    BY <1>1, <1>4
  <2>2. Leads1(w, Len(w), v, e, fmt)
    BY <2>1 DEF OnItsWay, IsWay
  <2> DEFINE c == w[Len(w)]
  <2>3. /\ c.x \in Items /\ c.k \in Nat \ {0} /\ c.s \in Text
        /\ c.x.kids \in Seq(Items) /\ Len(c.x.kids) \in Nat
    BY <1>1, <2>1, CallIs
  <2>4. Container(c.x) /\ c.k <= Len(c.x.kids) + 1
    BY <2>2 DEF Leads1
  <2>5. /\ InsideAt(w, Len(w)) <=> c.k <= Len(c.x.kids)
        /\ HereAt(w, Len(w), v) = c.x.kids[c.k]
        /\ RestAt(w, Len(w), e, fmt) = After(c.x, c.k, Len(w), c.s, fmt)
    BY <2>1 DEF InsideAt, HereAt, RestAt
  <2> HIDE DEF c
  <2> QED BY <2>3, <2>4, <2>5 DEF c
<1> QED BY <1>1, <1>3, <1>4

\* What is printed, and parsed, in each step.
LEMMA ScalarNext ==
  ASSUME NEW v, NEW e, NEW fmt, NEW w, OnItsWay(v, e, fmt, w), NEW p, AtValue(w, v, e, fmt, p),
         ~Container(HereAt(w, Len(w), v))
  PROVE  \E q \in Text : AtRest(w, e, fmt, q) /\ p = ScalarPiece(HereAt(w, Len(w), v)).s \o q
<1> DEFINE q == RestAt(w, Len(w), e, fmt)
           y == HereAt(w, Len(w), v)
<1>1. InsideAt(w, Len(w)) /\ p = Doc(y, Len(w), q, fmt)
  BY DEF AtValue
<1>2. q \in Text /\ y \in Items /\ Len(w) \in Nat /\ fmt \in BOOLEAN /\ ~Container(y)
  BY <1>1, TopIs DEF OnItsWay
<1>3. AtRest(w, e, fmt, q)
  BY <1>1 DEF AtRest
<1> HIDE DEF q, y
<1>4. p = ScalarPiece(y).s \o q
  BY <1>1, <1>2, DocIs
<1> QED BY <1>2, <1>3, <1>4 DEF y

LEMMA OpenNext ==
  ASSUME NEW v, NEW e, NEW fmt, NEW w, OnItsWay(v, e, fmt, w), NEW p, AtValue(w, v, e, fmt, p),
         Container(HereAt(w, Len(w), v))
  PROVE  LET y == HereAt(w, Len(w), v)
             d == Deeper(w, y, RestAt(w, Len(w), e, fmt))
         IN  /\ OnItsWay(v, e, fmt, d) /\ Len(d) = Len(w) + 1
             /\ \A i \in 1 .. Len(w) : d[i] = w[i]
             /\ d[Len(d)].x = y /\ d[Len(d)].k = 1
             /\ \E q \in Text : AtLoop(d, fmt, q) /\ p = OpenText(y, fmt) \o q
<1> DEFINE n == Len(w)
           s == RestAt(w, n, e, fmt)
           y == HereAt(w, n, v)
           d == Deeper(w, y, s)
           q == Loop(y, 1, n + 1, s, fmt)
<1>1. InsideAt(w, n) /\ p = Doc(y, n, s, fmt)
  BY DEF AtValue
<1>2. s \in Text /\ y \in Items /\ n \in Nat /\ fmt \in BOOLEAN /\ Container(y)
  BY <1>1, TopIs DEF OnItsWay
<1>3. /\ IsWay(d, v, e, fmt) /\ Len(d) = n + 1
      /\ \A i \in 1 .. n : d[i] = w[i]
      /\ d[Len(d)] = [x |-> y, k |-> 1, s |-> s]
  BY <1>1, <1>2, DeeperIsWay DEF OnItsWay
<1> HIDE DEF n, s, y, d
<1>4. p = OpenText(y, fmt) \o q
  BY <1>1, <1>2, DocIs
<1>5. q \in Text
  <2>1. n + 1 \in Nat /\ 1 \in Nat \ {0}
    BY <1>2
  <2> QED BY <1>2, <2>1, LoopMade
<1>6. d[Len(d)].x = y /\ d[Len(d)].k = 1 /\ d[Len(d)].s = s
  BY <1>3
<1>7. OnItsWay(v, e, fmt, d)
  BY <1>3 DEF OnItsWay
<1>8. AtLoop(d, fmt, q)
  <2>1. d # <<>>
    BY <1>2, <1>3, <1>7, TopIs
  <2> QED BY <1>3, <1>6, <2>1 DEF AtLoop
<1> HIDE DEF q
<1> QED BY <1>3, <1>4, <1>5, <1>6, <1>7, <1>8 DEF n, s, y, d

LEMMA ElementNext ==
  ASSUME NEW v, NEW e, NEW fmt, NEW w, OnItsWay(v, e, fmt, w), NEW p, AtLoop(w, fmt, p),
         w[Len(w)].x.type = "array", InsideAt(w, Len(w))
  PROVE  AtValue(w, v, e, fmt, p)
<1> DEFINE n == Len(w)
           c == w[n]
<1>1. w # <<>> /\ p = Loop(c.x, c.k, n, c.s, fmt)
  BY DEF AtLoop
<1>2. /\ n \in Nat /\ c.x \in Items /\ c.k \in Nat \ {0} /\ c.s \in Text /\ fmt \in BOOLEAN
      /\ c.k <= Len(c.x.kids) /\ HereAt(w, n, v) = c.x.kids[c.k]
      /\ RestAt(w, n, e, fmt) = After(c.x, c.k, n, c.s, fmt)
  BY <1>1, TopIs DEF OnItsWay
<1>3. InsideAt(w, n) /\ c.x.type = "array"
  OBVIOUS
<1> HIDE DEF n, c
<1>4. p = Member(c.x, c.k, n, Doc(c.x.kids[c.k], n, After(c.x, c.k, n, c.s, fmt), fmt), fmt)
  <2> DEFINE x == c.x
             k == c.k
             u == c.s
  <2>1. x \in Items /\ k \in Nat \ {0} /\ u \in Text /\ n \in Nat /\ fmt \in BOOLEAN /\ k <= Len(x.kids)
    BY <1>2
  <2> HIDE DEF x, k, u
  <2>2. Loop(x, k, n, u, fmt) = Member(x, k, n, Doc(x.kids[k], n, After(x, k, n, u, fmt), fmt), fmt)
    BY <2>1, LoopGoesOn DEF After
  <2>3. Loop(c.x, c.k, n, c.s, fmt) = Member(c.x, c.k, n, Doc(c.x.kids[c.k], n, After(c.x, c.k, n, c.s, fmt), fmt), fmt)
    BY <2>2 DEF x, k, u
  <2> QED BY <1>1, <2>3
<1>5. p = Doc(c.x.kids[c.k], n, After(c.x, c.k, n, c.s, fmt), fmt)
  BY <1>3, <1>4 DEF Member
<1> QED BY <1>2, <1>3, <1>5 DEF AtValue, n

LEMMA MemberNext ==
  ASSUME NEW v, NEW e, NEW fmt, NEW w, OnItsWay(v, e, fmt, w), NEW p, AtLoop(w, fmt, p),
         w[Len(w)].x.type = "object", InsideAt(w, Len(w))
  PROVE  \E q \in Text : AtKey(w, v, e, fmt, q) /\ p = Indent(Len(w), fmt) \o q
<1> DEFINE n == Len(w)
           c == w[n]
           s == RestAt(w, n, e, fmt)
           d == Doc(HereAt(w, n, v), n, s, fmt)
           r == ColonText(fmt) \o d
           q == KeyText(c.x, c.k) \o r
<1>1. w # <<>> /\ p = Loop(c.x, c.k, n, c.s, fmt)
  BY DEF AtLoop
<1>2. /\ n \in Nat /\ c.x \in Items /\ c.k \in Nat \ {0} /\ c.s \in Text /\ fmt \in BOOLEAN
      /\ c.k <= Len(c.x.kids) /\ HereAt(w, n, v) = c.x.kids[c.k] /\ HereAt(w, n, v) \in Items
      /\ s = After(c.x, c.k, n, c.s, fmt) /\ s \in Text /\ Len(c.x.kids) \in Nat
  BY <1>1, TopIs DEF OnItsWay
<1>3. InsideAt(w, n) /\ c.x.type = "object"
  OBVIOUS
<1> HIDE DEF n, c, s
<1>4. p = Member(c.x, c.k, n, d, fmt)
  <2> DEFINE x == c.x
             k == c.k
             u == c.s
  <2>1. x \in Items /\ k \in Nat \ {0} /\ u \in Text /\ n \in Nat /\ fmt \in BOOLEAN /\ k <= Len(x.kids)
    BY <1>2
  <2> HIDE DEF x, k, u
  <2>2. Loop(x, k, n, u, fmt) = Member(x, k, n, Doc(x.kids[k], n, After(x, k, n, u, fmt), fmt), fmt)
    BY <2>1, LoopGoesOn DEF After
  <2>3. Loop(c.x, c.k, n, c.s, fmt) = Member(c.x, c.k, n, Doc(c.x.kids[c.k], n, After(c.x, c.k, n, c.s, fmt), fmt), fmt)
    BY <2>2 DEF x, k, u
  <2> QED BY <1>1, <1>2, <2>3
<1>5. p = Indent(n, fmt) \o q
  BY <1>3, <1>4 DEF Member
<1>6. d \in Text
  BY <1>2, DocIs
<1>7. AtValue(w, v, e, fmt, d)
  BY <1>3 DEF AtValue, n, s
<1> HIDE DEF d
<1>8. ColonText(fmt) \in Text /\ KeyText(c.x, c.k) \in Text
  <2>1. 1 \in Nat \ {0} /\ c.k \in Nat /\ c.k \in 1 .. Len(c.x.kids)
    BY <1>2
  <2> QED BY <1>2, <2>1, PiecesAreText
<1>9. r \in Text
  BY <1>6, <1>8, TextConcat
<1>10. AtColon(w, v, e, fmt, r)
  BY <1>1, <1>3, <1>6, <1>7 DEF AtColon, c, n
<1> HIDE DEF r
<1>11. q \in Text
  BY <1>8, <1>9, TextConcat
<1>12. AtKey(w, v, e, fmt, q)
  BY <1>9, <1>10 DEF AtKey, c, n
<1> HIDE DEF q
<1> QED BY <1>5, <1>11, <1>12 DEF n

\* What w becomes when its last call ends, or goes on.
IsLeft(w, d, v, e, fmt, p) ==
  /\ OnItsWay(v, e, fmt, d) /\ Len(d) = Len(w) - 1 /\ Len(w) \in Nat \ {0}
  /\ \A i \in 1 .. Len(w) - 1 : d[i] = w[i]
  /\ HereAt(d, Len(w) - 1, v) = w[Len(w)].x
  /\ \E q \in Text : AtRest(d, e, fmt, q) /\ p = CloseText(w[Len(w)].x, Len(w), fmt) \o q
IsStepped(w, d, v, e, fmt, p) ==
  /\ OnItsWay(v, e, fmt, d) /\ Len(d) = Len(w) /\ Len(w) \in Nat \ {0}
  /\ \A i \in 1 .. Len(w) : i # Len(w) => d[i] = w[i]
  /\ d[Len(w)].x = w[Len(w)].x /\ d[Len(w)].k = w[Len(w)].k + 1
  /\ \E q \in Text : AtLoop(d, fmt, q) /\ p = Separator(w[Len(w)].x, w[Len(w)].k, fmt) \o q

LEMMA CloseNext ==
  ASSUME NEW v, NEW e, NEW fmt, NEW w, OnItsWay(v, e, fmt, w), NEW p, AtLoop(w, fmt, p),
         ~InsideAt(w, Len(w))
  PROVE  IsLeft(w, Left(w), v, e, fmt, p)
<1> DEFINE n == Len(w)
           d == Left(w)
           c == w[n]
<1>1. w # <<>> /\ p = Loop(c.x, c.k, n, c.s, fmt)
  BY DEF AtLoop
<1>2. /\ n \in Nat /\ c.x \in Items /\ c.k \in Nat \ {0} /\ c.s \in Text /\ fmt \in BOOLEAN
      /\ ~(c.k <= Len(c.x.kids))
  <2>1. /\ n \in Nat /\ c.x \in Items /\ c.k \in Nat \ {0} /\ c.s \in Text /\ fmt \in BOOLEAN
        /\ InsideAt(w, Len(w)) <=> c.k <= Len(c.x.kids)
        /\ Len(c.x.kids) \in Nat
    BY <1>1, TopIs DEF OnItsWay
  <2> HIDE DEF c
  <2> QED BY <2>1
<1>3. /\ IsWay(d, v, e, fmt) /\ Len(d) = n - 1 /\ n \in Nat \ {0}
      /\ \A i \in 1 .. n - 1 : d[i] = w[i]
      /\ InsideAt(d, n - 1)
      /\ HereAt(d, n - 1, v) = c.x /\ RestAt(d, n - 1, e, fmt) = c.s
  BY <1>1, LeftIsWay DEF OnItsWay
<1> HIDE DEF n, c, d
<1>4. p = CloseText(c.x, n, fmt) \o c.s
  <2> DEFINE x == c.x
             k == c.k
             s == c.s
  <2>1. x \in Items /\ k \in Nat \ {0} /\ s \in Text /\ n \in Nat /\ fmt \in BOOLEAN /\ ~(k <= Len(x.kids))
    BY <1>2
  <2> HIDE DEF x, k, s
  <2>2. Loop(x, k, n, s, fmt) = CloseText(x, n, fmt) \o s
    BY <2>1, LoopEnds
  <2> QED BY <1>1, <2>2 DEF x, k, s
<1>5. AtRest(d, e, fmt, c.s)
  BY <1>3 DEF AtRest
<1>6. OnItsWay(v, e, fmt, d)
  BY <1>3 DEF OnItsWay
<1>7. \E q \in Text : AtRest(d, e, fmt, q) /\ p = CloseText(c.x, n, fmt) \o q
  BY <1>2, <1>4, <1>5
<1> QED BY <1>3, <1>6, <1>7 DEF n, c, d, IsLeft

LEMMA RestNext ==
  ASSUME NEW v, NEW e, NEW fmt, NEW w, OnItsWay(v, e, fmt, w), NEW p, AtRest(w, e, fmt, p), w # <<>>
  PROVE  IsStepped(w, Stepped(w), v, e, fmt, p)
<1> DEFINE n == Len(w)
           d == Stepped(w)
           c == w[n]
           q == Loop(c.x, c.k + 1, n, c.s, fmt)
<1>1. InsideAt(w, n) /\ p = RestAt(w, n, e, fmt)
  BY DEF AtRest
<1>2. /\ n \in Nat /\ c.x \in Items /\ c.k \in Nat \ {0} /\ c.s \in Text /\ fmt \in BOOLEAN
      /\ RestAt(w, n, e, fmt) = After(c.x, c.k, n, c.s, fmt)
  BY TopIs DEF OnItsWay
<1>3. /\ IsWay(d, v, e, fmt) /\ Len(d) = n /\ n \in Nat \ {0}
      /\ \A i \in 1 .. n : i # n => d[i] = w[i]
      /\ d[n].x = c.x /\ d[n].k = c.k + 1 /\ d[n].s = c.s
  BY <1>1, SteppedIsWay DEF OnItsWay
<1> HIDE DEF n, c, d
<1>4. q \in Text
  <2>1. c.k + 1 \in Nat \ {0}
    BY <1>2
  <2> QED BY <1>2, <2>1, LoopMade
<1>5. p = Separator(c.x, c.k, fmt) \o q
  BY <1>1, <1>2 DEF After
<1>6. OnItsWay(v, e, fmt, d)
  BY <1>3 DEF OnItsWay
<1>7. AtLoop(d, fmt, q)
  <2>1. d # <<>>
    BY <1>3, <1>6, TopIs
  <2> QED BY <1>3, <2>1 DEF AtLoop
<1>8. \E z \in Text : AtLoop(d, fmt, z) /\ p = Separator(c.x, c.k, fmt) \o z
  BY <1>4, <1>5, <1>7
<1> HIDE DEF q
<1> QED BY <1>3, <1>6, <1>8 DEF n, c, d, IsStepped

----------------------------------------------------------------------------
(* The printers print the text of an item.                                 *)

Frames(w) ==
  /\ Len(open) = Len(w)
  /\ \A i \in 1 .. Len(w) :
       /\ open[i].type = w[i].x.type
       /\ open[i].rest = SubSeq(w[i].x.kids, w[i].k, Len(w[i].x.kids))

PrintsAt(v, e, w, p) ==
  /\ OnItsWay(v, e, format, w) /\ Frames(w)
  /\ p \in Text /\ Doc(v, 0, e, format) = whole \o p
  /\ printing # "idle"
  /\ printing = "value" => current = HereAt(w, Len(w), v) /\ AtValue(w, v, e, format, p)
  /\ printing = "loop" => AtLoop(w, format, p)
  /\ printing = "key" => AtKey(w, v, e, format, p)
  /\ printing = "colon" => AtColon(w, v, e, format, p)
  /\ printing = "printed" => AtRest(w, e, format, p)
  /\ printing = "done" => p = e
Prints(v, e) == \E w, p : PrintsAt(v, e, w, p)

LEMMA TopFrame ==
  ASSUME PrintInv, NEW v, NEW e, NEW w, NEW p, PrintsAt(v, e, w, p), open # <<>>
  PROVE  LET c == w[Len(w)]
         IN  /\ w # <<>> /\ Level = Len(w) /\ Level \in Nat \ {0}
             /\ Top.type = c.x.type /\ (InArray <=> c.x.type = "array") /\ (InObject <=> c.x.type = "object")
             /\ c.x.type \in {"array", "object"}
             /\ Top.rest = SubSeq(c.x.kids, c.k, Len(c.x.kids))
             /\ Top.rest # <<>> <=> InsideAt(w, Len(w))
             /\ InsideAt(w, Len(w)) =>
                  /\ Head(Top.rest) = HereAt(w, Len(w), v)
                  /\ Tail(Top.rest) = SubSeq(c.x.kids, c.k + 1, Len(c.x.kids))
                  /\ Len(Top.rest) > 1 <=> c.k < Len(c.x.kids)
<1> DEFINE n == Len(w)
           c == w[n]
           s == c.x.kids
           k == c.k
           m == Len(s)
<1>1. OnItsWay(v, e, format, w) /\ Frames(w) /\ open \in Seq(Frame)
  BY DEF PrintsAt, PrintInv, ControlInv
<1>2. Len(open) \in Nat \ {0} /\ Len(open) = n
  BY <1>1, EmptySeq DEF Frames
<1>3. w # <<>> /\ n \in Nat \ {0}
  BY <1>1, <1>2, TopIs
<1>4. /\ c.x \in Items /\ k \in Nat \ {0} /\ Container(c.x)
      /\ s \in Seq(Items) /\ m \in Nat
      /\ k <= m + 1
      /\ InsideAt(w, n) <=> k <= m
      /\ HereAt(w, n, v) = s[k]
  BY <1>1, <1>3, TopIs
<1>5. Top = open[n] /\ n \in 1 .. n
  BY <1>2, <1>3 DEF Top
<1>6. Top.type = c.x.type /\ Top.rest = SubSeq(s, k, m)
  BY <1>1, <1>5 DEF Frames
<1> HIDE DEF n, c, s, m, k
<1>7. c.x.type \in {"array", "object"}
  BY <1>4 DEF Container
<1>8. CASE k <= m
  <2>1. k \in 1 .. m /\ m \in k .. m
    BY <1>4, <1>8
  <2>2. Head(SubSeq(s, k, m)) = s[k] /\ Tail(SubSeq(s, k, m)) = SubSeq(s, k + 1, m)
    BY <1>4, <2>1, HeadTailOfSubSeq DEF m
  <2>3. SubSeq(s, k, m) \in Seq(Items) /\ Len(SubSeq(s, k, m)) = m - k + 1
    <3>1. \A i \in k .. m : s[i] \in Items
      <4>1. \A i \in k .. m : i \in 1 .. m
        BY <2>1
      <4> QED BY <1>4, <4>1, ElementOfSeq DEF m
    <3>2. k \in Int /\ m \in Int
      BY <1>4
    <3>3. /\ SubSeq(s, k, m) \in Seq(Items)
          /\ Len(SubSeq(s, k, m)) = IF k <= m THEN m - k + 1 ELSE 0
      BY <3>1, <3>2, SubSeqProperties
    <3> QED BY <1>8, <3>3
  <2> DEFINE r == SubSeq(s, k, m)
  <2>4. r # <<>> /\ (Len(r) > 1 <=> k < m)
    <3>1. Len(r) = m - k + 1 /\ Len(<<>>) = 0
      BY <2>3
    <3> HIDE DEF r
    <3> QED BY <1>4, <1>8, <3>1
  <2> HIDE DEF r
  <2>5. Head(r) = s[k] /\ Tail(r) = SubSeq(s, k + 1, m) /\ Top.rest = r
    BY <1>6, <2>2 DEF r
  <2>6. /\ Top.rest # <<>> /\ Head(Top.rest) = HereAt(w, n, v)
        /\ Tail(Top.rest) = SubSeq(s, k + 1, m) /\ (Len(Top.rest) > 1 <=> k < m)
        /\ Top.rest = SubSeq(s, k, m)
    BY <1>4, <2>4, <2>5 DEF r
  <2> QED BY <1>2, <1>3, <1>4, <1>6, <1>7, <1>8, <2>6 DEF InArray, InObject, Level, n, c, s, m, k
<1>9. CASE ~(k <= m)
  <2>1. SubSeq(s, k, m) = <<>>
    <3>1. k \in Int /\ m \in Int /\ m < k
      BY <1>4, <1>9
    <3> QED BY <3>1, SubSeqEmpty
  <2>2. Top.rest = <<>> /\ ~InsideAt(w, n) /\ Top.rest = SubSeq(s, k, m)
    BY <1>4, <1>6, <1>9, <2>1
  <2> QED BY <1>2, <1>3, <1>4, <1>6, <1>7, <2>2 DEF InArray, InObject, Level, n, c, s, m, k
<1> QED BY <1>8, <1>9

LEMMA WholeGrows ==
  ASSUME PrintInv, NEW v, NEW e, NEW w, NEW p, PrintsAt(v, e, w, p),
         NEW a \in Text, NEW q \in Text, p = a \o q, whole' = whole \o a, format' = format
  PROVE  Doc(v, 0, e, format') = whole' \o q
<1>1. whole \in Text
  BY BytesAreText DEF PrintInv, BufsInv
<1>2. whole \o (a \o q) = (whole \o a) \o q
  BY <1>1, ConcatAssociative DEF Text
<1> QED BY <1>2 DEF PrintsAt

LEMMA ScalarPrints ==
  ASSUME PrintInv, PrintScalar, NEW v, NEW e, NEW w, NEW p, PrintsAt(v, e, w, p)
  PROVE  Prints(v, e)'
<1>1. /\ OnItsWay(v, e, format, w) /\ AtValue(w, v, e, format, p) /\ current = HereAt(w, Len(w), v)
      /\ ~Container(current)
  BY DEF PrintsAt, PrintScalar, Container
<1>2. PICK q \in Text : AtRest(w, e, format, q) /\ p = ScalarPiece(current).s \o q
  <2>1. ~Container(HereAt(w, Len(w), v)) /\ OnItsWay(v, e, format, w) /\ AtValue(w, v, e, format, p)
    BY <1>1
  <2>2. \E q \in Text : AtRest(w, e, format, q) /\ p = ScalarPiece(HereAt(w, Len(w), v)).s \o q
    BY <2>1, ScalarNext
  <2>3. ScalarPiece(HereAt(w, Len(w), v)) = ScalarPiece(current)
    BY <1>1
  <2> QED BY <2>2, <2>3
<1>3. ScalarPiece(current).s \in Text
  <2>1. current \in Items /\ Snug(ScalarPiece(current))
    BY SnugScalar DEF PrintScalar, PrintInv, ControlInv
  <2> QED BY <2>1, BytesAreText DEF Snug
<1>4. /\ whole' = whole \o ScalarPiece(current).s
      /\ printing' = "printed" /\ format' = format /\ open' = open
  BY DEF PrintScalar, Emit
<1>5. Doc(v, 0, e, format') = whole' \o q
  BY <1>2, <1>3, <1>4, WholeGrows
<1>6. PrintsAt(v, e, w, q)'
  BY <1>1, <1>2, <1>4, <1>5 DEF PrintsAt, Frames
<1> QED BY <1>6 DEF Prints

LEMMA OpenPrints ==
  ASSUME PrintInv, PrintOpen, NEW v, NEW e, NEW w, NEW p, PrintsAt(v, e, w, p)
  PROVE  Prints(v, e)'
<1>1. /\ OnItsWay(v, e, format, w) /\ AtValue(w, v, e, format, p) /\ current = HereAt(w, Len(w), v)
      /\ Container(current) /\ Frames(w)
  BY DEF PrintsAt, PrintOpen, Container
<1>10. PICK d : d = Deeper(w, current, RestAt(w, Len(w), e, format))
  OBVIOUS
<1>2. /\ OnItsWay(v, e, format, d) /\ Len(d) = Len(w) + 1
      /\ \A i \in 1 .. Len(w) : d[i] = w[i]
      /\ d[Len(d)].x = current /\ d[Len(d)].k = 1
      /\ \E q \in Text : AtLoop(d, format, q) /\ p = OpenText(current, format) \o q
  <2> DEFINE y == HereAt(w, Len(w), v)
             g == Deeper(w, y, RestAt(w, Len(w), e, format))
  <2>1. Container(y) /\ OnItsWay(v, e, format, w) /\ AtValue(w, v, e, format, p)
    BY <1>1
  <2>2. /\ OnItsWay(v, e, format, g) /\ Len(g) = Len(w) + 1
        /\ \A i \in 1 .. Len(w) : g[i] = w[i]
        /\ g[Len(g)].x = y /\ g[Len(g)].k = 1
        /\ \E q \in Text : AtLoop(g, format, q) /\ p = OpenText(y, format) \o q
    BY <2>1, OpenNext
  <2>3. y = current /\ g = d
    BY <1>1, <1>10
  <2> HIDE DEF g, y
  <2> QED BY <2>2, <2>3
<1>3. PICK q \in Text : AtLoop(d, format, q) /\ p = OpenText(current, format) \o q
  BY <1>2
<1>4. OpenText(current, format) \in Text
  BY MarksAreText DEF OpenText
<1>5. /\ printing' = "loop" /\ format' = format
      /\ open' = Append(open, [type |-> current.type, rest |-> current.kids])
      /\ current \in Items /\ open \in Seq(Frame) /\ format \in BOOLEAN
  BY DEF PrintOpen, PrintInv, ControlInv
<1>6. whole' = whole \o OpenText(current, format)
  BY DEF PrintOpen, Emit, Piece, OpenText
<1>7. Doc(v, 0, e, format') = whole' \o q
  BY <1>3, <1>4, <1>5, <1>6, WholeGrows
<1>8. Frames(d)'
  <2> DEFINE f == [type |-> current.type, rest |-> current.kids]
  <2>1. current.kids \in Seq(Items) /\ f \in Frame
    BY <1>1, <1>5, ItemIs DEF Frame, Container
  <2>2. f.type = current.type /\ f.rest = current.kids
    OBVIOUS
  <2> HIDE DEF f
  <2>3. /\ Len(open') = Len(open) + 1 /\ open'[Len(open) + 1] = f
        /\ \A i \in 1 .. Len(open) : open'[i] = open[i]
    BY <1>5, <2>1, AppendProperties DEF f
  <2>4. SubSeq(current.kids, 1, Len(current.kids)) = current.kids
    BY <2>1, SubSeqFull
  <2>5. Len(w) \in Nat /\ Len(open) = Len(w)
    BY <1>1, TopIs DEF Frames
  <2>6. \A i \in 1 .. Len(d) : i \in 1 .. Len(w) \/ i = Len(w) + 1
    BY <1>2, <2>5
  <2>7. ASSUME NEW i \in 1 .. Len(d)
        PROVE  /\ open'[i].type = d[i].x.type
               /\ open'[i].rest = SubSeq(d[i].x.kids, d[i].k, Len(d[i].x.kids))
    <3>1. CASE i \in 1 .. Len(w)
      <4>1. open'[i] = open[i] /\ d[i] = w[i]
        BY <1>2, <2>3, <2>5, <3>1
      <4> QED BY <1>1, <3>1, <4>1 DEF Frames
    <3>2. CASE i = Len(w) + 1
      <4>1. open'[i] = f /\ d[i].x = current /\ d[i].k = 1
        BY <1>2, <2>3, <2>5, <3>2
      <4> QED BY <2>2, <2>4, <4>1
    <3> QED BY <2>6, <3>1, <3>2
  <2>8. Len(open') = Len(d)
    BY <1>2, <2>3, <2>5
  <2> QED BY <2>7, <2>8 DEF Frames
<1>9. PrintsAt(v, e, d, q)'
  BY <1>2, <1>3, <1>5, <1>7, <1>8 DEF PrintsAt
<1> QED BY <1>9 DEF Prints

LEMMA ElementPrints ==
  ASSUME PrintInv, PrintElement, NEW v, NEW e, NEW w, NEW p, PrintsAt(v, e, w, p)
  PROVE  Prints(v, e)'
<1>1. OnItsWay(v, e, format, w) /\ AtLoop(w, format, p) /\ InArray /\ Top.rest # <<>> /\ open # <<>>
  BY DEF PrintsAt, PrintElement, InArray
<1>2. InsideAt(w, Len(w)) /\ w[Len(w)].x.type = "array" /\ Head(Top.rest) = HereAt(w, Len(w), v)
  BY <1>1, TopFrame
<1>3. AtValue(w, v, e, format, p)
  BY <1>1, <1>2, ElementNext
<1>4. /\ printing' = "value" /\ format' = format /\ open' = open /\ whole' = whole
      /\ current' = HereAt(w, Len(w), v)
  BY <1>2 DEF PrintElement
<1>5. PrintsAt(v, e, w, p)'
  BY <1>3, <1>4 DEF PrintsAt, Frames
<1> QED BY <1>5 DEF Prints

LEMMA IndentPrints ==
  ASSUME PrintInv, PrintIndent, NEW v, NEW e, NEW w, NEW p, PrintsAt(v, e, w, p)
  PROVE  Prints(v, e)'
<1>1. OnItsWay(v, e, format, w) /\ AtLoop(w, format, p) /\ InObject /\ Top.rest # <<>> /\ open # <<>>
  BY DEF PrintsAt, PrintIndent, InObject
<1>2. /\ InsideAt(w, Len(w)) /\ w[Len(w)].x.type = "object"
      /\ Level = Len(w) /\ Level \in Nat
  BY <1>1, TopFrame
<1>3. PICK q \in Text : AtKey(w, v, e, format, q) /\ p = Indent(Len(w), format) \o q
  BY <1>1, <1>2, MemberNext
<1>4. printing' = "key" /\ format' = format /\ open' = open
  BY DEF PrintIndent
<1>5. whole' = whole \o Indent(Len(w), format) /\ Indent(Len(w), format) \in Text
  <2>1. CASE format
    <3>1. Tabs(Level) \in Text
      BY <1>2, TabsType, BytesAreText
    <3> QED BY <1>2, <2>1, <3>1 DEF PrintIndent, Emit, Piece, Indent
  <2>2. CASE ~format
    <3>1. whole \in Text
      BY BytesAreText DEF PrintInv, BufsInv
    <3>2. whole \o <<>> = whole
      BY <3>1, ConcatEmptySeq DEF Text
    <3> QED BY <2>2, <3>2, MarksAreText DEF PrintIndent, Indent
  <2> QED BY <2>1, <2>2
<1>6. Doc(v, 0, e, format') = whole' \o q
  BY <1>3, <1>4, <1>5, WholeGrows
<1>7. PrintsAt(v, e, w, q)'
  BY <1>1, <1>3, <1>4, <1>6 DEF PrintsAt, Frames
<1> QED BY <1>7 DEF Prints

LEMMA KeyPrints ==
  ASSUME PrintInv, PrintKey, NEW v, NEW e, NEW w, NEW p, PrintsAt(v, e, w, p)
  PROVE  Prints(v, e)'
<1>1. OnItsWay(v, e, format, w) /\ AtKey(w, v, e, format, p) /\ open # <<>>
  BY DEF PrintsAt, PrintKey, PrintInv, ControlInv
<1> DEFINE key == KeyText(w[Len(w)].x, w[Len(w)].k)
<1>2. PICK q \in Text : AtColon(w, v, e, format, q) /\ p = key \o q
  BY <1>1 DEF AtKey
<1>3. w # <<>> /\ InsideAt(w, Len(w))
  BY <1>2 DEF AtColon, AtValue
<1>4. Head(Top.rest) = w[Len(w)].x.kids[w[Len(w)].k]
  <2>1. Head(Top.rest) = HereAt(w, Len(w), v)
    BY <1>1, <1>3, TopFrame
  <2>2. HereAt(w, Len(w), v) = w[Len(w)].x.kids[w[Len(w)].k]
    BY <1>1, <1>3, TopIs
  <2> QED BY <2>1, <2>2
<1>5. key = StringPiece(Head(Top.rest).name).s
  BY <1>4 DEF KeyText
<1>6. key \in Text
  <2>1. Head(Top.rest) \in Items
    BY <1>1, <1>3, <1>4, TopIs
  <2>2. Head(Top.rest).name \in Seq(Byte) \cup {NoName}
    BY <2>1, ItemIs
  <2>3. StringPiece(Head(Top.rest).name).s \in Seq(Byte)
    BY <2>2, SnugString DEF Snug
  <2> QED BY <1>5, <2>3, BytesAreText
<1>7. /\ printing' = "colon" /\ format' = format /\ open' = open /\ whole' = whole \o key
  BY <1>5 DEF PrintKey, Emit
<1> HIDE DEF key
<1>8. Doc(v, 0, e, format') = whole' \o q
  BY <1>2, <1>6, <1>7, WholeGrows
<1>9. PrintsAt(v, e, w, q)'
  BY <1>1, <1>2, <1>7, <1>8 DEF PrintsAt, Frames
<1> QED BY <1>9 DEF Prints

LEMMA ColonPrints ==
  ASSUME PrintInv, PrintColon, NEW v, NEW e, NEW w, NEW p, PrintsAt(v, e, w, p)
  PROVE  Prints(v, e)'
<1>1. OnItsWay(v, e, format, w) /\ AtColon(w, v, e, format, p) /\ open # <<>>
  BY DEF PrintsAt, PrintColon, PrintInv, ControlInv
<1>2. PICK q \in Text : AtValue(w, v, e, format, q) /\ p = ColonText(format) \o q
  BY <1>1 DEF AtColon
<1>3. InsideAt(w, Len(w))
  BY <1>2 DEF AtValue
<1>4. Head(Top.rest) = HereAt(w, Len(w), v)
  BY <1>1, <1>3, TopFrame
<1>5. ColonText(format) \in Text
  BY MarksAreText DEF ColonText
<1>6. /\ printing' = "value" /\ format' = format /\ open' = open /\ current' = HereAt(w, Len(w), v)
      /\ whole' = whole \o ColonText(format)
  BY <1>4 DEF PrintColon, Emit, Piece, ColonText
<1>7. Doc(v, 0, e, format') = whole' \o q
  BY <1>2, <1>5, <1>6, WholeGrows
<1>8. PrintsAt(v, e, w, q)'
  BY <1>1, <1>2, <1>6, <1>7 DEF PrintsAt, Frames
<1> QED BY <1>8 DEF Prints

LEMMA CommaPrints ==
  ASSUME PrintInv, PrintComma, NEW v, NEW e, NEW w, NEW p, PrintsAt(v, e, w, p)
  PROVE  Prints(v, e)'
<1>1. OnItsWay(v, e, format, w) /\ AtRest(w, e, format, p) /\ Frames(w)
  BY DEF PrintsAt, PrintComma
<1>2. open # <<>> /\ InsideAt(w, Len(w)) /\ open \in Seq(Frame)
  BY <1>1 DEF PrintComma, AtRest, PrintInv, ControlInv
<1>3. /\ w # <<>> /\ Level = Len(w) /\ Level \in Nat \ {0}
      /\ (InArray <=> w[Len(w)].x.type = "array") /\ (InObject <=> w[Len(w)].x.type = "object")
      /\ InArray \/ InObject
      /\ Tail(Top.rest) = SubSeq(w[Len(w)].x.kids, w[Len(w)].k + 1, Len(w[Len(w)].x.kids))
      /\ Len(Top.rest) > 1 <=> w[Len(w)].k < Len(w[Len(w)].x.kids)
  BY <1>2, TopFrame
<1>4. PICK d : d = Stepped(w)
  OBVIOUS
<1>5. /\ OnItsWay(v, e, format, d) /\ Len(d) = Len(w)
      /\ \A i \in 1 .. Len(w) : i # Len(w) => d[i] = w[i]
      /\ d[Len(w)].x = w[Len(w)].x /\ d[Len(w)].k = w[Len(w)].k + 1
      /\ \E q \in Text : AtLoop(d, format, q) /\ p = Separator(w[Len(w)].x, w[Len(w)].k, format) \o q
  <2>1. OnItsWay(v, e, format, w) /\ AtRest(w, e, format, p) /\ w # <<>>
    BY <1>1, <1>3
  <2>2. IsStepped(w, Stepped(w), v, e, format, p)
    BY <2>1, RestNext
  <2>3. IsStepped(w, d, v, e, format, p)
    BY <1>4, <2>2
  <2> QED BY <2>3 DEF IsStepped
<1>6. PICK q \in Text : AtLoop(d, format, q) /\ p = Separator(w[Len(w)].x, w[Len(w)].k, format) \o q
  BY <1>5
<1>7. /\ printing' = "loop" /\ format' = format
      /\ open' = [open EXCEPT ![Len(open)].rest = Tail(@)]
  BY DEF PrintComma
<1>8. Separator(w[Len(w)].x, w[Len(w)].k, format) \in Text
  <2>1. w[Len(w)].x \in Items /\ w[Len(w)].k \in Nat /\ format \in BOOLEAN /\ 1 \in Nat \ {0}
    BY <1>1, <1>3, TopIs DEF OnItsWay
  <2> QED BY <2>1, PiecesAreText
<1>9. whole' = whole \o Separator(w[Len(w)].x, w[Len(w)].k, format)
  <2> DEFINE x == w[Len(w)].x
             k == w[Len(w)].k
             more == Len(Top.rest) > 1
             break == CASE ~format -> <<>>
                        [] format /\ InArray -> IF more THEN <<Space>> ELSE <<>>
                        [] format /\ InObject -> <<LF>>
             comma == (IF more THEN <<Comma>> ELSE <<>>) \o break
  <2>1. (IF more THEN <<Comma>> ELSE <<>>) = CommaText(x, k)
    BY <1>3 DEF CommaText
  <2>2. break = BreakText(x, k, format)
    <3>1. CASE ~format
      BY <3>1 DEF BreakText
    <3>2. CASE format /\ InArray
      BY <1>3, <3>2 DEF BreakText
    <3>3. CASE format /\ InObject
      BY <1>3, <3>3 DEF BreakText
    <3> QED BY <1>3, <3>1, <3>2, <3>3
  <2>3. comma = Separator(x, k, format)
    BY <2>1, <2>2 DEF Separator
  <2>4. CASE InArray /\ ~more
    <3>1. whole' = whole
      BY <2>4 DEF PrintComma
    <3>2. CommaText(x, k) = <<>> /\ BreakText(x, k, format) = <<>>
      BY <1>3, <2>4 DEF CommaText, BreakText
    <3>3. <<>> \in Text
      BY MarksAreText
    <3>4. Separator(x, k, format) = <<>>
      BY <3>2, <3>3, ConcatEmptySeq DEF Separator, Text
    <3>5. whole \in Text
      BY BytesAreText DEF PrintInv, BufsInv
    <3>6. whole \o <<>> = whole
      BY <3>5, ConcatEmptySeq DEF Text
    <3> QED BY <3>1, <3>4, <3>6
  <2>5. CASE ~(InArray /\ ~more)
    <3>1. whole' = whole \o comma
      BY <2>5 DEF PrintComma, Emit, Piece
    <3> QED BY <2>3, <3>1
  <2> QED BY <2>4, <2>5
<1>10. Doc(v, 0, e, format') = whole' \o q
  BY <1>6, <1>7, <1>8, <1>9, WholeGrows
<1>11. Frames(d)'
  <2> DEFINE n == Len(w)
  <2>1. n \in Nat \ {0} /\ Len(open) = n /\ n \in 1 .. n
    BY <1>1, <1>3 DEF Frames
  <2>2. open[n] \in Frame
    BY <1>2, <2>1, ElementOfSeq
  <2>3. Top = open[n]
    BY <2>1 DEF Top
  <2>4. /\ Len(open') = n
        /\ \A i \in 1 .. n : i # n => open'[i] = open[i]
        /\ open'[n] = [open[n] EXCEPT !.rest = Tail(open[n].rest)]
    <3>1. open \in [1 .. n -> Frame] /\ open' = [open EXCEPT ![n] = [open[n] EXCEPT !.rest = Tail(open[n].rest)]]
      BY <1>2, <1>7, <2>1
    <3>2. open' \in Seq(Frame) \/ DOMAIN open' = 1 .. n
      BY <3>1
    <3>3. [open[n] EXCEPT !.rest = Tail(open[n].rest)] \in Frame
      <4>1. open[n].rest \in Seq(Items) /\ open[n].rest # <<>>
        BY <1>2, <2>2, <2>3, TopFrame DEF Frame
      <4>2. Tail(open[n].rest) \in Seq(Items)
        BY <4>1
      <4> QED BY <2>2, <4>2 DEF Frame
    <3>4. open' \in Seq(Frame) /\ Len(open') = Len(open) /\ open'[n] = [open[n] EXCEPT !.rest = Tail(open[n].rest)]
          /\ \A i \in 1 .. Len(open) : i # n => open'[i] = open[i]
      <4> DEFINE g == [open[n] EXCEPT !.rest = Tail(open[n].rest)]
      <4> HIDE DEF g
      <4> QED BY <1>2, <2>1, <3>1, <3>3, ExceptSeq DEF g
    <3> QED BY <2>1, <3>4
  <2>5. open'[n].type = open[n].type /\ open'[n].rest = Tail(open[n].rest)
    BY <2>2, <2>4 DEF Frame
  <2>6. ASSUME NEW i \in 1 .. n
        PROVE  /\ open'[i].type = d[i].x.type
               /\ open'[i].rest = SubSeq(d[i].x.kids, d[i].k, Len(d[i].x.kids))
    <3>1. /\ open[i].type = w[i].x.type
          /\ open[i].rest = SubSeq(w[i].x.kids, w[i].k, Len(w[i].x.kids))
      BY <1>1 DEF Frames
    <3>2. CASE i = n
      BY <1>3, <1>5, <2>3, <2>5, <3>1, <3>2
    <3>3. CASE i # n
      BY <1>5, <2>4, <3>1, <3>3
    <3> QED BY <3>2, <3>3
  <2> QED BY <1>5, <2>4, <2>6 DEF Frames
<1>12. PrintsAt(v, e, d, q)'
  BY <1>5, <1>6, <1>7, <1>10, <1>11 DEF PrintsAt
<1> QED BY <1>12 DEF Prints

LEMMA ClosePrints ==
  ASSUME PrintInv, PrintClose, NEW v, NEW e, NEW w, NEW p, PrintsAt(v, e, w, p)
  PROVE  Prints(v, e)'
<1>1. OnItsWay(v, e, format, w) /\ AtLoop(w, format, p) /\ Frames(w)
  BY DEF PrintsAt, PrintClose
<1>2. open # <<>> /\ Top.rest = <<>> /\ open \in Seq(Frame)
  <2>1. w # <<>>
    BY <1>1 DEF AtLoop
  <2>2. Len(open) # 0 /\ open \in Seq(Frame)
    BY <1>1, <2>1, TopIs DEF Frames, PrintInv, ControlInv
  <2> QED BY <2>2, EmptySeq DEF PrintClose
<1>3. /\ w # <<>> /\ Level = Len(w) /\ Level \in Nat \ {0}
      /\ (InArray <=> w[Len(w)].x.type = "array") /\ (InObject <=> w[Len(w)].x.type = "object")
      /\ InArray \/ InObject
      /\ ~InsideAt(w, Len(w))
  BY <1>2, TopFrame
<1>4. PICK d : d = Left(w)
  OBVIOUS
<1>5. /\ OnItsWay(v, e, format, d) /\ Len(d) = Len(w) - 1
      /\ \A i \in 1 .. Len(w) - 1 : d[i] = w[i]
      /\ \E q \in Text : AtRest(d, e, format, q) /\ p = CloseText(w[Len(w)].x, Len(w), format) \o q
  <2>1. OnItsWay(v, e, format, w) /\ AtLoop(w, format, p) /\ ~InsideAt(w, Len(w))
    BY <1>1, <1>3
  <2>2. IsLeft(w, Left(w), v, e, format, p)
    BY <2>1, CloseNext
  <2>3. IsLeft(w, d, v, e, format, p)
    BY <1>4, <2>2
  <2> QED BY <2>3 DEF IsLeft
<1>6. PICK q \in Text : AtRest(d, e, format, q) /\ p = CloseText(w[Len(w)].x, Len(w), format) \o q
  BY <1>5
<1>7. printing' = "printed" /\ format' = format /\ open' = Below
  BY DEF PrintClose
<1>8. CloseText(w[Len(w)].x, Len(w), format) \in Text
  <2>1. w[Len(w)].x \in Items /\ format \in BOOLEAN /\ Len(w) \in Nat \ {0} /\ 1 \in Nat
    BY <1>1, <1>3, TopIs DEF OnItsWay
  <2> QED BY <2>1, PiecesAreText
<1>9. whole' = whole \o CloseText(w[Len(w)].x, Len(w), format)
  <2> DEFINE x == w[Len(w)].x
  <2>1. CASE InArray
    <3>1. whole' = whole \o <<RBracket>>
      BY <2>1 DEF PrintClose, Emit, Piece, InObject, InArray
    <3> QED BY <1>3, <2>1, <3>1 DEF CloseText
  <2>2. CASE InObject /\ format
    <3>1. whole' = whole \o (Tabs(Level - 1) \o <<RBrace>>)
      BY <2>2 DEF PrintClose, Emit, Piece, InObject, InArray
    <3>2. x.type # "array"
      BY <1>3, <2>2
    <3> QED BY <1>3, <2>2, <3>1, <3>2 DEF CloseText, Indent
  <2>3. CASE InObject /\ ~format
    <3>1. whole' = whole \o <<RBrace>>
      BY <2>3 DEF PrintClose, Emit, Piece, InObject, InArray
    <3>2. x.type # "array"
      BY <1>3, <2>3
    <3>3. <<>> \o <<RBrace>> = <<RBrace>>
      BY MarksAreText, ConcatEmptySeq DEF Text
    <3> QED BY <1>3, <2>3, <3>1, <3>2, <3>3 DEF CloseText, Indent
  <2> QED BY <1>3, <2>1, <2>2, <2>3
<1>10. Doc(v, 0, e, format') = whole' \o q
  BY <1>6, <1>7, <1>8, <1>9, WholeGrows
<1>11. Frames(d)'
  <2> DEFINE n == Len(w)
             m == n - 1
  <2>1. n \in Nat \ {0} /\ Len(open) = n /\ m \in Nat
    BY <1>1, <1>3 DEF Frames
  <2>2. Len(open') = m /\ \A i \in 1 .. m : open'[i] = open[i]
    <3>1. open' = SubSeq(open, 1, m)
      BY <1>7, <2>1 DEF Below
    <3>2. \A i \in 1 .. m : open[i] \in Frame
      <4>1. \A i \in 1 .. m : i \in 1 .. Len(open)
        BY <2>1
      <4> QED BY <1>2, <4>1, ElementOfSeq
    <3> HIDE DEF m
    <3>3. /\ Len(SubSeq(open, 1, m)) = IF 1 <= m THEN m - 1 + 1 ELSE 0
          /\ \A i \in 1 .. m - 1 + 1 : SubSeq(open, 1, m)[i] = open[1 + i - 1]
      BY <2>1, <3>2, SubSeqProperties
    <3>4. Len(open') = m
      BY <2>1, <3>1, <3>3
    <3>5. \A i \in 1 .. m : open'[i] = open[i]
      BY <2>1, <3>1, <3>3
    <3> QED BY <3>4, <3>5
  <2>3. ASSUME NEW i \in 1 .. m
        PROVE  /\ open'[i].type = d[i].x.type
               /\ open'[i].rest = SubSeq(d[i].x.kids, d[i].k, Len(d[i].x.kids))
    <3>1. i \in 1 .. n
      BY <2>1
    <3>2. /\ open[i].type = w[i].x.type
          /\ open[i].rest = SubSeq(w[i].x.kids, w[i].k, Len(w[i].x.kids))
      BY <1>1, <3>1 DEF Frames
    <3> QED BY <1>5, <2>2, <3>2
  <2> QED BY <1>5, <2>2, <2>3 DEF Frames
<1>12. PrintsAt(v, e, d, q)'
  BY <1>5, <1>6, <1>7, <1>10, <1>11 DEF PrintsAt
<1> QED BY <1>12 DEF Prints

LEMMA EndPrints ==
  ASSUME PrintInv, PrintEnd, NEW v, NEW e, NEW w, NEW p, PrintsAt(v, e, w, p)
  PROVE  Prints(v, e)'
<1>1. OnItsWay(v, e, format, w) /\ AtRest(w, e, format, p) /\ Frames(w)
  BY DEF PrintsAt, PrintEnd
<1>2. printing' = "done" /\ format' = format /\ open' = open /\ whole' = whole
  BY DEF PrintEnd
<1>3. Len(w) = 0
  <2>1. Len(open) = 0
    BY DEF PrintEnd
  <2> QED BY <1>1, <2>1 DEF Frames
<1>4. p = e
  BY <1>1, <1>3 DEF AtRest, RestAt
<1>5. PrintsAt(v, e, w, p)'
  BY <1>2, <1>4 DEF PrintsAt, Frames
<1> QED BY <1>5 DEF Prints

LEMMA StepPrints ==
  ASSUME PrintInv, PrintStep, NEW v, NEW e, Prints(v, e)
  PROVE  Prints(v, e)'
<1>1. PICK w, p : PrintsAt(v, e, w, p)
  BY DEF Prints
<1> QED BY <1>1, ScalarPrints, OpenPrints, ElementPrints, IndentPrints, KeyPrints, ColonPrints,
           CommaPrints, ClosePrints, EndPrints DEF PrintStep

LEMMA PrintsAtFirst ==
  ASSUME NEW v \in Items, NEW e \in Text, NEW n, NEW fmt \in BOOLEAN, PrintItem(v, n, fmt)
  PROVE  Prints(v, e)'
<1>1. /\ whole' = <<>> /\ format' = fmt /\ printing' = "value" /\ current' = v /\ open' = <<>>
  BY DEF PrintItem
<1> DEFINE w == <<>>
           p == Doc(v, 0, e, fmt)
<1>2. w \in Way /\ Len(w) = 0
  BY DEF Way
<1>3. OnItsWay(v, e, fmt, w)
  BY <1>2 DEF OnItsWay, IsWay
<1>4. p \in Text
  BY DocIs
<1>5. <<>> \o p = p
  BY <1>4, ConcatEmptySeq DEF Text
<1>6. AtValue(w, v, e, fmt, p) /\ HereAt(w, Len(w), v) = v
  BY <1>2 DEF AtValue, InsideAt, HereAt, RestAt
<1>7. Frames(w)'
  BY <1>1, <1>2 DEF Frames
<1>9. PICK u, q : u = w /\ q = p
  OBVIOUS
<1> HIDE DEF w, p
<1>8. PrintsAt(v, e, u, q)'
  <2>1. OnItsWay(v, e, fmt, u) /\ q \in Text /\ AtValue(u, v, e, fmt, q) /\ HereAt(u, Len(u), v) = v
    BY <1>3, <1>4, <1>6, <1>9
  <2>2. Doc(v, 0, e, fmt) = <<>> \o q
    BY <1>5, <1>9 DEF p
  <2>3. Frames(u)'
    <3>1. Len(u) = 0 /\ Len(open') = 0
      BY <1>1, <1>2, <1>9
    <3> QED BY <3>1 DEF Frames
  <2> QED BY <1>1, <2>1, <2>2, <2>3 DEF PrintsAt
<1> QED BY <1>8 DEF Prints

\* What has been printed is the text of the item.
LEMMA PrintedIs ==
  ASSUME NEW v, NEW e, Prints(v, e), printing = "done"
  PROVE  Doc(v, 0, e, format) = whole \o e
BY DEF Prints, PrintsAt

----------------------------------------------------------------------------
(* How deep items are nested.                                              *)

LEMMA GreatestOf ==
  ASSUME NEW n \in Nat, NEW f, \A p \in 1 .. n : f[p] \in Nat
  PROVE  LET T == {0} \cup {f[p] : p \in 1 .. n}
         IN  Max(T) \in T /\ T \subseteq Nat /\ \A y \in T : y <= Max(T)
<1> DEFINE T == {0} \cup {f[p] : p \in 1 .. n}
           S == {m \in Nat : m <= n => \E b \in Nat : \A p \in 1 .. m : f[p] <= b}
           U == {b \in Nat : \A y \in T : y <= b}
<1>1. 0 \in S
  OBVIOUS
<1>2. ASSUME NEW m \in Nat, m \in S PROVE m + 1 \in S
  <2> SUFFICES ASSUME m + 1 <= n PROVE \E b \in Nat : \A p \in 1 .. m + 1 : f[p] <= b
    OBVIOUS
  <2>1. PICK b \in Nat : \A p \in 1 .. m : f[p] <= b
    BY <1>2
  <2> DEFINE a == f[m + 1]
  <2>2. a \in Nat
    OBVIOUS
  <2>3. \A p \in 1 .. m + 1 : p \in 1 .. m \/ p = m + 1
    OBVIOUS
  <2>4. \A p \in 1 .. m : f[p] \in Nat
    OBVIOUS
  <2> HIDE DEF a
  <2>5. \A p \in 1 .. m + 1 : f[p] <= b + a
    BY <2>1, <2>2, <2>3, <2>4 DEF a
  <2> QED BY <2>2, <2>5
<1>3. Nat \subseteq S
  <2> HIDE DEF S
  <2> QED BY <1>1, <1>2, Induction
<1>10. \A y \in T : y = 0 \/ \E p \in 1 .. n : y = f[p]
  OBVIOUS
<1>11. T \subseteq Nat /\ 0 \in T
  OBVIOUS
<1>4. U # {} /\ U \subseteq Nat /\ T \subseteq Nat /\ 0 \in T
  <2>0. n \in S
    BY <1>3
  <2>1. PICK b \in Nat : \A p \in 1 .. n : f[p] <= b
    BY <2>0
  <2>2. \A y \in T : y <= b
    <3> HIDE DEF T, S, U
    <3> QED BY <1>10, <2>1
  <2>3. b \in U
    BY <2>2
  <2> QED BY <1>11, <2>3
<1>5. PICK m \in U : \A b \in U : m <= b
  <2> HIDE DEF U
  <2> QED BY <1>4, LeastNatural
<1>6. m \in T
  <2> SUFFICES ASSUME m \notin T PROVE FALSE
    OBVIOUS
  <2>4. m \in Nat /\ \A y \in T : y <= m
    BY <1>5
  <2>5. m # 0
    BY <1>4
  <2>1. m # 0 /\ m \in Nat /\ \A y \in T : y <= m /\ y # m /\ y \in Nat
    <3> HIDE DEF T, U
    <3> QED BY <1>4, <2>4, <2>5
  <2>2. m - 1 \in Nat /\ \A y \in T : y <= m - 1
    <3> HIDE DEF T, U
    <3>1. ASSUME NEW y \in T PROVE y <= m - 1
      BY <2>1
    <3> QED BY <2>1, <3>1
  <2>3. m - 1 \in U
    BY <2>2
  <2> HIDE DEF U
  <2> QED BY <1>5, <2>1, <2>3
<1>7. \A y \in T : y <= m
  BY <1>5
<1> HIDE DEF T
<1>8. Max(T) \in T /\ \A y \in T : y <= Max(T)
  BY <1>4, <1>6, <1>7 DEF Max
<1> QED BY <1>4, <1>8 DEF T

DepthWith(x, f) ==
  IF x.type \notin {"array", "object"} THEN 0
  ELSE 1 + Max({0} \cup {f[x.kids[p]] : p \in DOMAIN x.kids})

LEMMA DepthWithIs ==
  ASSUME NEW x \in Trees, NEW f \in [Trees -> Nat]
  PROVE  /\ DepthWith(x, f) \in Nat
         /\ ~Container(x) => DepthWith(x, f) = 0
         /\ Container(x) => /\ 1 <= DepthWith(x, f)
                            /\ \A p \in 1 .. Len(x.kids) : f[x.kids[p]] + 1 <= DepthWith(x, f)
                            /\ \A n \in Nat \ {0} :
                                 (\A p \in 1 .. Len(x.kids) : f[x.kids[p]] + 1 <= n) => DepthWith(x, f) <= n
<1> DEFINE n == Len(x.kids)
           h == [p \in 1 .. n |-> f[x.kids[p]]]
           T == {0} \cup {h[p] : p \in 1 .. n}
<1>1. n \in Nat /\ DOMAIN x.kids = 1 .. n /\ \A p \in 1 .. n : x.kids[p] \in Trees
  BY KidsInside
<1>2. \A p \in 1 .. n : h[p] \in Nat /\ h[p] = f[x.kids[p]]
  BY <1>1
<1>3. Max(T) \in T /\ T \subseteq Nat /\ \A y \in T : y <= Max(T)
  <2> HIDE DEF h, n
  <2> QED BY <1>1, <1>2, GreatestOf
<1>4. T = {0} \cup {f[x.kids[p]] : p \in DOMAIN x.kids}
  BY <1>1, <1>2
<1>5. \A p \in 1 .. n : h[p] \in T
  OBVIOUS
<1>6. \A y \in T : y = 0 \/ \E p \in 1 .. n : y = h[p]
  OBVIOUS
<1> HIDE DEF T, h
<1>7. DepthWith(x, f) = IF Container(x) THEN 1 + Max(T) ELSE 0
  BY <1>4 DEF DepthWith, Container
<1> DEFINE a == Max(T)
<1>8. a \in Nat /\ \A p \in 1 .. n : h[p] <= a
  BY <1>3, <1>5
<1>9. ASSUME NEW m \in Nat \ {0}, \A p \in 1 .. n : h[p] + 1 <= m PROVE 1 + a <= m
  <2>1. a = 0 \/ \E p \in 1 .. n : a = h[p]
    BY <1>3, <1>6
  <2> HIDE DEF a
  <2> QED BY <1>8, <1>9, <2>1
<1>10. DepthWith(x, f) = IF Container(x) THEN 1 + a ELSE 0
  BY <1>7
<1> HIDE DEF a
<1> QED BY <1>2, <1>8, <1>9, <1>10 DEF n

LEMMA DepthExists ==
  \E d \in [Trees -> Nat] : \A x \in Trees : DepthOf(x) = d[x] /\ d[x] = DepthWith(x, d)
<1> DEFINE V == Nat
           g == [z \in Trees \X [Trees -> V] |-> DepthWith(z[1], z[2])]
           Solved(f) == f = [x \in Trees |-> DepthWith(x, f)]
           d == CHOOSE f : Solved(f)
<1>1. Height \in [Trees -> Nat]
  BY TreeAssumption
<1>2. 0 \in V /\ g \in [Trees \X [Trees -> V] -> V]
  BY DepthWithIs
<1>3. DependsBelow(g, Trees, V, Height)
  <2>1. ASSUME NEW x \in Trees, NEW f \in [Trees -> V], NEW k \in [Trees -> V],
               \A y \in Trees : Height[y] < Height[x] => f[y] = k[y]
        PROVE  g[<<x, f>>] = g[<<x, k>>]
    <3>1. \A p \in DOMAIN x.kids : f[x.kids[p]] = k[x.kids[p]]
      BY <2>1, KidsInside
    <3>2. DepthWith(x, f) = DepthWith(x, k)
      BY <3>1 DEF DepthWith
    <3> QED BY <3>2
  <2> HIDE DEF g, V
  <2> QED BY <2>1 DEF DependsBelow
<1>4. \E f : Solves(f, g, Trees, V)
  <2> HIDE DEF g, V
  <2> QED BY <1>1, <1>2, <1>3, Descent
<1>5. \E f : Solved(f)
  <2>1. PICK f : Solves(f, g, Trees, V)
    BY <1>4
  <2>2. f \in [Trees -> V] /\ \A x \in Trees : f[x] = DepthWith(x, f)
    BY <2>1 DEF Solves
  <2>3. f = [x \in Trees |-> f[x]]
    BY <2>2
  <2>4. f = [x \in Trees |-> DepthWith(x, f)]
    BY <2>2, <2>3
  <2> QED BY <2>4
<1>6. d = [x \in Trees |-> DepthWith(x, d)]
  <2> HIDE DEF Solved
  <2>1. Solved(d)
    BY <1>5
  <2> HIDE DEF d
  <2> QED BY <2>1 DEF Solved
<1>7. \A x : DepthOf(x) = d[x]
  BY DEF DepthOf, DepthWith
<1> HIDE DEF d
<1>8. \A x \in Trees : d[x] \in Nat
  <2> DEFINE S == {x \in Trees : d[x] \in Nat}
  <2>1. ASSUME NEW x \in Trees, \A p \in DOMAIN x.kids : x.kids[p] \in S PROVE x \in S
    <3> DEFINE f == [y \in Trees |-> IF d[y] \in Nat THEN d[y] ELSE 0]
    <3>1. f \in [Trees -> Nat]
      OBVIOUS
    <3>2. \A p \in DOMAIN x.kids : f[x.kids[p]] = d[x.kids[p]]
      BY <2>1
    <3> HIDE DEF f
    <3>3. DepthWith(x, f) = DepthWith(x, d)
      BY <3>2 DEF DepthWith
    <3>4. DepthWith(x, f) \in Nat
      BY <3>1, DepthWithIs
    <3>5. d[x] = DepthWith(x, d)
      BY <1>6
    <3> QED BY <3>3, <3>4, <3>5
  <2>2. Trees \subseteq S
    <3> HIDE DEF S
    <3> QED BY <2>1, TreeInduction
  <2> QED BY <2>2
<1>9. d \in [Trees -> Nat]
  <2>1. d = [x \in Trees |-> d[x]]
    BY <1>6
  <2> QED BY <1>8, <2>1
<1>10. \A x \in Trees : d[x] = DepthWith(x, d)
  BY <1>6
<1> QED BY <1>7, <1>9, <1>10

LEMMA DepthIs ==
  ASSUME NEW x \in Items
  PROVE  /\ DepthOf(x) \in Nat
         /\ ~Container(x) => DepthOf(x) = 0
         /\ Container(x) => /\ 1 <= DepthOf(x)
                            /\ \A p \in 1 .. Len(x.kids) : DepthOf(x.kids[p]) + 1 <= DepthOf(x)
                            /\ \A n \in Nat \ {0} :
                                 (\A p \in 1 .. Len(x.kids) : DepthOf(x.kids[p]) + 1 <= n) => DepthOf(x) <= n
<1>1. PICK d \in [Trees -> Nat] : \A y \in Trees : DepthOf(y) = d[y] /\ d[y] = DepthWith(y, d)
  BY DepthExists
<1>2. x \in Trees /\ \A p \in 1 .. Len(x.kids) : x.kids[p] \in Trees
  BY ItemIs
<1>3. DepthOf(x) = DepthWith(x, d) /\ \A p \in 1 .. Len(x.kids) : DepthOf(x.kids[p]) = d[x.kids[p]]
  BY <1>1, <1>2
<1> QED BY <1>2, <1>3, DepthWithIs

----------------------------------------------------------------------------
(* An item, as the parser makes it, and the first byte of its text.        *)

Bare(y) == Named(NoName, y)

LEMMA BareIs ==
  ASSUME NEW y \in Items
  PROVE  /\ Named(y.name, Bare(y)) = y /\ (y.name = NoName => Bare(y) = y)
         /\ y.type = "null" => Bare(y) = Null
         /\ y.type = "false" => Bare(y) = Bool(FALSE)
         /\ y.type = "true" => Bare(y) = Bool(TRUE)
         /\ y.type = "string" => Bare(y) = String(y.str)
         /\ y.type = "number" => Bare(y) = Number(y.num)
         /\ y.type = "array" => Bare(y) = Array(y.kids)
         /\ y.type = "object" => Bare(y) = Object(y.kids)
<1> DEFINE e == NewItem(y.type, y.kids)
           f == [e EXCEPT !.str = y.str]
           z == [f EXCEPT !.num = y.num]
<1>1. y = Named(y.name, z)
  BY ItemAssumption
<1>2. y \in Trees
  BY ItemIs
<1>3. /\ y.type # "string" => y.str = <<>>
      /\ y.type # "number" => y.num = 0
      /\ y.type \notin {"array", "object"} => y.kids = <<>>
  BY <1>2, TreeAssumption
<1>4. z = [type |-> y.type, name |-> NoName, str |-> y.str, num |-> y.num, kids |-> y.kids, end |-> Len(y.kids)]
  <2>1. e = [type |-> y.type, name |-> NoName, str |-> <<>>, num |-> 0, kids |-> y.kids, end |-> Len(y.kids)]
    BY DEF NewItem
  <2> HIDE DEF e
  <2>2. f = [type |-> y.type, name |-> NoName, str |-> y.str, num |-> 0, kids |-> y.kids, end |-> Len(y.kids)]
    BY <2>1
  <2> HIDE DEF f
  <2> QED BY <2>2
<1> HIDE DEF z
<1> DEFINE t == y.type
           u == y.name
           s == y.str
           m == y.num
           k == y.kids
<1>5. z = [type |-> t, name |-> NoName, str |-> s, num |-> m, kids |-> k, end |-> Len(k)]
  BY <1>4
<1>6. y = [z EXCEPT !.name = u]
  BY <1>1 DEF Named
<1>7. Bare(y) = [y EXCEPT !.name = NoName] /\ Named(u, Bare(y)) = [Bare(y) EXCEPT !.name = u]
  BY DEF Bare, Named
<1>8. /\ t # "string" => s = <<>>
      /\ t # "number" => m = 0
      /\ t \notin {"array", "object"} => k = <<>>
  BY <1>3
<1> HIDE DEF t, u, s, m, k
<1>9. Bare(y) = z
  BY <1>5, <1>6, <1>7
<1>10. Named(u, Bare(y)) = y
  BY <1>6, <1>7, <1>9
<1>11. u = NoName => Bare(y) = y
  BY <1>5, <1>6, <1>9
<1>12. /\ t = "null" => z = Null
       /\ t = "false" => z = Bool(FALSE)
       /\ t = "true" => z = Bool(TRUE)
  BY <1>5, <1>8 DEF Null, Bool, NewItem
<1>13. t = "string" => z = String(s)
  BY <1>5, <1>8 DEF String, NewItem
<1>14. t = "number" => z = Number(m)
  BY <1>5, <1>8 DEF Number, NewItem
<1>15. /\ t = "array" => z = Array(k)
       /\ t = "object" => z = Object(k)
  BY <1>5, <1>8 DEF Array, Object, NewItem
<1> QED BY <1>9, <1>10, <1>11, <1>12, <1>13, <1>14, <1>15 DEF t, u, s, m, k

\* With what the text of an item begins.
FirstBytes(y) ==
  IF y.type = "null" THEN {110} ELSE IF y.type = "false" THEN {102}
  ELSE IF y.type = "true" THEN {116} ELSE IF y.type = "number" THEN Digit \cup {Minus}
  ELSE IF y.type = "string" THEN {Quote} ELSE IF y.type = "array" THEN {LBracket} ELSE {LBrace}

LEMMA ConcatBegins ==
  ASSUME NEW a \in Text, NEW s \in Text, Len(a) # 0
  PROVE  (a \o s) # <<>> /\ (a \o s)[1] = a[1]
<1>1. /\ Len(a \o s) = Len(a) + Len(s)
      /\ \A p \in 1 .. Len(a) : (a \o s)[p] = a[p]
  BY ConcatIs DEF Text
<1>2. Len(a) \in Nat /\ Len(s) \in Nat
  BY DEF Text
<1>3. 1 \in 1 .. Len(a) /\ Len(a \o s) # 0
  BY <1>1, <1>2
<1>4. Len(<<>>) = 0
  OBVIOUS
<1> QED BY <1>1, <1>3, <1>4

LEMMA StringText ==
  ASSUME NEW s \in Seq(Byte)
  PROVE  /\ StringPiece(s).s = <<Quote>> \o (Escaped(s) \o <<Quote>>)
         /\ Escaped(s) \in Text /\ Escaped(s) \o <<Quote>> \in Text
<1>1. StringPiece(s).s = (<<Quote>> \o Escaped(s)) \o <<Quote>>
  BY NotNoName DEF StringPiece, Piece
<1>2. Escaped(s) \in Text /\ <<Quote>> \in Text
  BY EscapedLength, BytesAreText, MarksAreText
<1>3. (<<Quote>> \o Escaped(s)) \o <<Quote>> = <<Quote>> \o (Escaped(s) \o <<Quote>>)
  BY <1>2, ConcatAssociative DEF Text
<1> QED BY <1>1, <1>2, <1>3, TextConcat

\* c digits are enough for m.
IsCount(m, c) == c \in 1 .. 10 /\ (c = 10 \/ m < Powers[c + 1]) /\ (c = 1 \/ Powers[c] <= m)

LEMMA CountIs ==
  ASSUME NEW m \in Nat, NEW c, IsCount(m, c)
  PROVE  1 + Cardinality({k \in 2 .. 10 : m >= Powers[k]}) = c
<1> DEFINE T == {k \in 2 .. 10 : m >= Powers[k]}
<1>1. c \in 1 .. 10 /\ (c = 10 \/ m < Powers[c + 1]) /\ (c = 1 \/ Powers[c] <= m)
  BY DEF IsCount
<1>2. \A i \in 1 .. 10 : Powers[i] \in Nat /\ Powers[i] > 0
  BY PowersType
<1>3. T = 2 .. c
  <2>1. ASSUME NEW k \in T PROVE k \in 2 .. c
    <3>1. k \in 2 .. 10 /\ m >= Powers[k] /\ k \in 1 .. 10
      BY <1>1
    <3>2. CASE k >= c + 1
      <4>1. c + 1 \in 1 .. 10 /\ m < Powers[c + 1]
        BY <1>1, <3>1, <3>2
      <4>2. Powers[c + 1] <= Powers[k]
        BY <3>1, <3>2, <4>1, PowersGrow
      <4>3. Powers[k] \in Nat /\ Powers[c + 1] \in Nat
        BY <1>2, <3>1, <4>1
      <4> QED BY <3>1, <4>1, <4>2, <4>3
    <3> QED BY <1>1, <3>1, <3>2
  <2>2. ASSUME NEW k \in 2 .. c PROVE k \in T
    <3>1. k \in 2 .. 10 /\ k \in 1 .. 10 /\ c \in 1 .. 10 /\ c # 1 /\ k <= c
      BY <1>1
    <3>2. Powers[k] <= Powers[c] /\ Powers[c] <= m
      BY <1>1, <3>1, PowersGrow
    <3>3. Powers[k] \in Nat /\ Powers[c] \in Nat
      BY <1>2, <3>1
    <3>4. m >= Powers[k]
      BY <3>2, <3>3
    <3> QED BY <3>1, <3>4
  <2> HIDE DEF T
  <2> QED BY <2>1, <2>2
<1>4. Cardinality(2 .. c) = IF 2 > c THEN 0 ELSE c - 2 + 1
  <2>1. \A a, b \in Int : Cardinality(a .. b) = IF a > b THEN 0 ELSE b - a + 1
    BY FS_Interval
  <2>2. 2 \in Int /\ c \in Int
    BY <1>1
  <2> QED BY <2>1, <2>2, Zenon
<1> DEFINE k == Cardinality(2 .. c)
<1>5. k = IF 2 > c THEN 0 ELSE c - 2 + 1
  BY <1>4
<1> HIDE DEF k, T
<1>6. 1 + k = c
  BY <1>1, <1>5
<1> QED BY <1>3, <1>6 DEF k, T

\* A number of ten digits, or less.
LEMMA LargestIs == LargestInt \in Nat /\ LargestInt <= 2147483647
BY SMT DEF LargestInt

LEMMA CountsExist ==
  ASSUME NEW m \in Nat, m <= LargestInt
  PROVE  \E c : IsCount(m, c) /\ m \div Powers[c] \in 0 .. 9
<1>1. CASE m < Powers[10]
  <2>0. m \in Nat
    OBVIOUS
  <2>1. PICK c : DigitsOf(m, c)
    BY <1>1, <2>0, DigitsExist
  <2>2. c \in {1, 2, 3, 4, 5, 6, 7, 8, 9} /\ m < Powers[c + 1] /\ IsCount(m, c)
    BY <2>1 DEF DigitsOf, IsCount
  <2>3. m \div Powers[c] \in 0 .. 9
    <3>1. CASE c = 1
      <4>1. m < 10 /\ m \div 1 = m
        BY <2>0, <2>2, <3>1, PowersAre
      <4> QED BY <2>0, <3>1, <4>1, PowersAre
    <3>2. CASE c = 2
      BY <2>0, <2>2, <3>2, PowersAre
    <3>3. CASE c = 3
      BY <2>0, <2>2, <3>3, PowersAre
    <3>4. CASE c = 4
      BY <2>0, <2>2, <3>4, PowersAre
    <3>5. CASE c = 5
      BY <2>0, <2>2, <3>5, PowersAre
    <3>6. CASE c = 6
      BY <2>0, <2>2, <3>6, PowersAre
    <3>7. CASE c = 7
      BY <2>0, <2>2, <3>7, PowersAre
    <3>8. CASE c = 8
      BY <2>0, <2>2, <3>8, PowersAre
    <3>9. CASE c = 9
      BY <2>0, <2>2, <3>9, PowersAre
    <3> QED BY <2>2, <3>1, <3>2, <3>3, <3>4, <3>5, <3>6, <3>7, <3>8, <3>9
  <2> QED BY <2>2, <2>3
<1>2. CASE ~(m < Powers[10])
  <2>1. m \div Powers[10] \in 0 .. 9 /\ Powers[10] <= m
    BY <1>2, PowersAre, LargestIs, SMT
  <2>2. IsCount(m, 10)
    BY <2>1 DEF IsCount
  <2> QED BY <2>1, <2>2
<1> QED BY <1>1, <1>2

\* d is the text of n without its sign.
Size(n) == IF n < 0 THEN -n ELSE n
SignText(n) == IF n < 0 THEN <<Minus>> ELSE <<>>
DigitsAre(n, c, d) ==
  /\ c \in 1 .. 10 /\ Size(n) \in Nat /\ Size(n) \div Powers[c] \in 0 .. 9
  /\ Decimal(n) = SignText(n) \o d
  /\ d \in Text /\ Len(d) = c
  /\ \A p \in 1 .. c : d[p] \in Digit /\ d[p] = 48 + DigitAt(Size(n), c, p)

LEMMA DecimalParts ==
  ASSUME NEW n \in -LargestInt .. LargestInt
  PROVE  \E c, d : DigitsAre(n, c, d)
<1> DEFINE m == Size(n)
<1>1. n \in Int /\ m <= LargestInt /\ m \in Nat
  BY LargestIs DEF Size
<1>2. PICK c : IsCount(m, c) /\ m \div Powers[c] \in 0 .. 9
  BY <1>1, CountsExist
<1> DEFINE count == 1 + Cardinality({k \in 2 .. 10 : m >= Powers[k]})
           d == [p \in 1 .. c |-> 48 + DigitAt(m, c, p)]
<1>3. count = c
  <2> HIDE DEF m
  <2> QED BY <1>1, <1>2, CountIs
<1>4. Decimal(n) = SignText(n) \o [p \in 1 .. count |-> 48 + ((m \div Powers[count - p + 1]) % 10)]
  BY DEF Decimal, Size, SignText
<1> HIDE DEF count, m
<1>5. Decimal(n) = SignText(n) \o d
  BY <1>3, <1>4 DEF DigitAt
<1>6. c \in 1 .. 10
  BY <1>2 DEF IsCount
<1>7. ASSUME NEW p \in 1 .. c PROVE 48 + DigitAt(m, c, p) \in Digit
  <2>1. c - p + 1 \in 1 .. 10
    BY <1>6
  <2>2. Powers[c - p + 1] \in Nat /\ Powers[c - p + 1] > 0
    BY <2>1, PowersType
  <2>3. m \div Powers[c - p + 1] \in Int
    BY <1>1, <2>2
  <2>4. \A k \in Int : 48 + (k % 10) \in Digit
    BY DEF Digit
  <2> QED BY <2>3, <2>4 DEF DigitAt
<1>8. /\ d \in Text /\ Len(d) = c
      /\ \A p \in 1 .. c : d[p] \in Digit /\ d[p] = 48 + DigitAt(m, c, p)
  <2>1. Digit \subseteq Octet /\ c \in Nat
    BY <1>6 DEF Digit, Octet
  <2> QED BY <1>7, <2>1 DEF Text
<1> HIDE DEF d
<1>9. DigitsAre(n, c, d)
  BY <1>1, <1>2, <1>5, <1>6, <1>8 DEF DigitsAre, m
<1> QED BY <1>9

LEMMA DecimalBegins ==
  ASSUME NEW n, NEW c, NEW d, DigitsAre(n, c, d)
  PROVE  /\ SignText(n) \in Text /\ Decimal(n) \in Text
         /\ Len(Decimal(n)) # 0 /\ Decimal(n)[1] \in Digit \cup {Minus}
         /\ Decimal(n)[1] = Minus <=> n < 0
         /\ Len(Decimal(n)) <= 11
<1>1. /\ Decimal(n) = SignText(n) \o d /\ d \in Text /\ Len(d) = c /\ c \in 1 .. 10
      /\ \A p \in 1 .. c : d[p] \in Digit
  BY DEF DigitsAre
<1>2. <<Minus>> \in Text /\ <<>> \in Text
  BY DEF Text, Octet, Minus
<1>3. 1 \in 1 .. c /\ Minus \notin Digit
  BY <1>1 DEF Minus, Digit
<1>4. CASE n < 0
  <2> DEFINE a == <<Minus>>
  <2>1. SignText(n) = a /\ Len(a) = 1 /\ a[1] = Minus
    BY <1>4 DEF SignText
  <2> HIDE DEF a
  <2>2. Len(a \o d) = Len(a) + Len(d) /\ (a \o d)[1] = a[1] /\ a \o d \in Text
    <3>1. 1 \in 1 .. Len(a)
      BY <2>1
    <3> QED BY <1>1, <1>2, <3>1, ConcatIs DEF Text, a
  <2> QED BY <1>1, <1>2, <1>4, <2>1, <2>2 DEF a
<1>5. CASE ~(n < 0)
  <2>1. SignText(n) = <<>>
    BY <1>5 DEF SignText
  <2>2. <<>> \o d = d
    BY <1>1, ConcatEmptySeq DEF Text
  <2>3. Decimal(n) = d
    BY <1>1, <2>1, <2>2
  <2> QED BY <1>1, <1>2, <1>3, <1>5, <2>1, <2>3
<1> QED BY <1>4, <1>5

LEMMA ScalarBegins ==
  ASSUME NEW y \in Items, ~Container(y)
  PROVE  /\ ScalarPiece(y).s \in Text
         /\ Len(ScalarPiece(y).s) # 0 /\ ScalarPiece(y).s[1] \in FirstBytes(y)
<1> DEFINE a == ScalarPiece(y).s
<1>1. y.type \in {"null", "false", "true", "number", "string"} /\ y.str \in Seq(Byte)
      /\ y.num \in -LargestInt .. LargestInt
  BY ItemIs DEF Printable, Container
<1>2. a \in Text
  BY SnugScalar, BytesAreText DEF Snug, Container
<1>3. CASE y.type = "null"
  <2>1. a = NullText
    BY <1>3 DEF ScalarPiece, Piece
  <2> QED BY <1>2, <1>3, <2>1 DEF NullText, FirstBytes
<1>4. CASE y.type = "false"
  <2>1. a = FalseText
    BY <1>4 DEF ScalarPiece, Piece
  <2> QED BY <1>2, <1>4, <2>1 DEF FalseText, FirstBytes
<1>5. CASE y.type = "true"
  <2>1. a = TrueText
    BY <1>5 DEF ScalarPiece, Piece
  <2> QED BY <1>2, <1>5, <2>1 DEF TrueText, FirstBytes
<1>6. CASE y.type = "number"
  <2>1. a = Decimal(y.num)
    BY <1>6 DEF ScalarPiece, Piece
  <2>2. PICK c, d : DigitsAre(y.num, c, d)
    BY <1>1, DecimalParts
  <2>3. Len(Decimal(y.num)) # 0 /\ Decimal(y.num)[1] \in Digit \cup {Minus}
    BY <2>2, DecimalBegins
  <2> QED BY <1>2, <1>6, <2>1, <2>3 DEF FirstBytes
<1>7. CASE y.type = "string"
  <2> DEFINE q == <<Quote>>
             r == Escaped(y.str) \o q
  <2>1. a = q \o r /\ r \in Text
    <3>1. a = StringPiece(y.str).s
      BY <1>7 DEF ScalarPiece, Piece
    <3> QED BY <1>1, <3>1, StringText
  <2>2. q \in Text /\ Len(q) = 1 /\ q[1] = Quote
    BY MarksAreText
  <2> HIDE DEF q, r
  <2>3. Len(a) = Len(q) + Len(r) /\ a[1] = q[1] /\ Len(r) \in Nat
    <3>1. 1 \in 1 .. Len(q)
      BY <2>2
    <3>2. /\ Len(q \o r) = Len(q) + Len(r)
          /\ \A p \in 1 .. Len(q) : (q \o r)[p] = q[p]
      BY <2>1, <2>2, ConcatIs DEF Text
    <3>3. Len(r) \in Nat
      BY <2>1 DEF Text
    <3> HIDE DEF a
    <3> QED BY <2>1, <3>1, <3>2, <3>3
  <2>4. FirstBytes(y) = {Quote}
    BY <1>7 DEF FirstBytes
  <2> QED BY <1>2, <2>2, <2>3, <2>4
<1> QED BY <1>1, <1>3, <1>4, <1>5, <1>6, <1>7

\* A value begins with a byte that is not blank.
LEMMA DocBegins ==
  ASSUME NEW y \in Items, NEW l \in Nat, NEW s \in Text, NEW fmt \in BOOLEAN
  PROVE  LET p == Doc(y, l, s, fmt)
         IN  p # <<>> /\ p[1] \in FirstBytes(y) /\ Inked(p)
<1> DEFINE p == Doc(y, l, s, fmt)
<1>1. p # <<>> /\ p[1] \in FirstBytes(y)
  <2>1. CASE Container(y)
    <3> DEFINE a == OpenText(y, fmt)
               q == Loop(y, 1, l + 1, s, fmt)
    <3>1. p = a \o q
      BY <2>1, DocIs
    <3>2. a \in Text /\ q \in Text
      <4>1. 1 \in Nat \ {0} /\ l + 1 \in Nat
        OBVIOUS
      <4> QED BY <4>1, PiecesAreText, LoopMade
    <3>3. Len(a) # 0 /\ a[1] \in FirstBytes(y)
      BY <2>1 DEF OpenText, FirstBytes, Container
    <3> HIDE DEF a, q, p
    <3> QED BY <3>1, <3>2, <3>3, ConcatBegins
  <2>2. CASE ~Container(y)
    <3> DEFINE a == ScalarPiece(y).s
    <3>1. p = a \o s
      BY <2>2, DocIs
    <3>2. a \in Text /\ Len(a) # 0 /\ a[1] \in FirstBytes(y)
      BY <2>2, ScalarBegins
    <3> HIDE DEF a, p
    <3> QED BY <3>1, <3>2, ConcatBegins
  <2> QED BY <2>1, <2>2
<1> HIDE DEF p
<1>2. \A c \in FirstBytes(y) : c > Space
  BY DEF FirstBytes, Space, Digit, Minus, Quote, LBracket, LBrace
<1> QED BY <1>1, <1>2 DEF Inked, p

\* What follows a value is not a digit.
LEMMA LoopRests ==
  ASSUME NEW x \in Items, Container(x), NEW k \in 1 .. Len(x.kids), NEW l \in Nat \ {0}, NEW s \in Text,
         NEW fmt \in BOOLEAN
  PROVE  LET p == After(x, k, l, s, fmt)
         IN  p # <<>> /\ p[1] \notin Digit
<1> DEFINE a == CommaText(x, k)
           b == BreakText(x, k, fmt)
           q == Loop(x, k + 1, l, s, fmt)
<1>1. k \in Nat /\ l \in Nat /\ k + 1 \in Nat \ {0} /\ Len(x.kids) \in Nat
  BY ItemIs
<1>2. a \in Text /\ b \in Text
  BY MarksAreText DEF CommaText, BreakText
<1>3. q \in Text
  BY <1>1, LoopMade
<1>4. After(x, k, l, s, fmt) = (a \o b) \o q /\ (a \o b) \o q = a \o (b \o q) /\ b \o q \in Text
  BY <1>2, <1>3, ConcatAssociative, TextConcat DEF After, Separator, Text
<1>5. CASE k < Len(x.kids)
  <2>1. Len(a) # 0 /\ a[1] = Comma
    BY <1>5 DEF CommaText
  <2> HIDE DEF a, b, q
  <2>2. (a \o (b \o q)) # <<>> /\ (a \o (b \o q))[1] = Comma
    BY <1>2, <1>4, <2>1, ConcatBegins
  <2> QED BY <1>4, <2>2 DEF Comma, Digit
<1>6. CASE ~(k < Len(x.kids))
  <2>1. a = <<>>
    BY <1>6 DEF CommaText
  <2>2. a \o (b \o q) = b \o q
    BY <1>4, <2>1, ConcatEmptySeq DEF Text
  <2>3. CASE fmt /\ x.type = "object"
    <3>1. Len(b) # 0 /\ b[1] = LF
      BY <2>3 DEF BreakText
    <3> HIDE DEF a, b, q
    <3>2. (b \o q) # <<>> /\ (b \o q)[1] = LF
      BY <1>2, <1>3, <3>1, ConcatBegins
    <3> QED BY <1>4, <2>2, <3>2 DEF LF, Digit
  <2>4. CASE ~(fmt /\ x.type = "object")
    <3>1. b = <<>>
      BY <1>6, <2>4 DEF BreakText
    <3>2. b \o q = q
      BY <1>3, <3>1, ConcatEmptySeq DEF Text
    <3>3. q = CloseText(x, l, fmt) \o s
      <4>1. ~(k + 1 <= Len(x.kids))
        BY <1>1, <1>6
      <4> HIDE DEF q
      <4>2. Loop(x, k + 1, l, s, fmt) = CloseText(x, l, fmt) \o s
        BY <1>1, <4>1, LoopEnds
      <4> QED BY <4>2 DEF q
    <3> DEFINE c == CloseText(x, l, fmt)
    <3>4. Len(c) # 0 /\ c[1] \in {RBracket, RBrace} /\ c \in Text
      <4>1. CASE x.type = "array"
        <5>1. c = <<RBracket>>
          BY <4>1 DEF CloseText
        <5> QED BY <5>1, MarksAreText
      <4>2. CASE x.type # "array"
        <5>1. Indent(l - 1, fmt) = <<>>
          BY <2>4, <4>2 DEF Container, Indent
        <5>2. <<>> \o <<RBrace>> = <<RBrace>>
          BY MarksAreText, ConcatEmptySeq DEF Text
        <5>3. c = <<RBrace>>
          BY <4>2, <5>1, <5>2 DEF CloseText
        <5> QED BY <5>3, MarksAreText
      <4> QED BY <4>1, <4>2
    <3> HIDE DEF a, b, q, c
    <3>5. (c \o s) # <<>> /\ (c \o s)[1] \in {RBracket, RBrace}
      BY <3>4, ConcatBegins
    <3>6. After(x, k, l, s, fmt) = c \o s
      BY <1>4, <2>2, <3>2, <3>3 DEF c
    <3> QED BY <3>5, <3>6 DEF RBracket, RBrace, Digit
  <2> QED BY <2>3, <2>4
<1> QED BY <1>5, <1>6
=============================================================================
