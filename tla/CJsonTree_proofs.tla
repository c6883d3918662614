--------------------------- MODULE CJsonTree_proofs ---------------------------
(***************************************************************************)
(* Proofs about CJsonTree, for every set of items and of names.  The first *)
(* part is about what the functions of core/cJSON.c do to a memory full of *)
(* pointers: it holds lists (Shape), the lists are trees below what the    *)
(* caller holds (Sound), and a list that an item is added to, inserted in, *)
(* detached from or replaced in is the edited list.  The second part is    *)
(* about the calls: Sound is an inductive invariant, the linked lists      *)
(* implement the sequences of JsonTree, and the invariants that the run    *)
(* checks follow from Sound.                                               *)
(***************************************************************************)
EXTENDS CJsonTree, SequenceTheorems, FiniteSetTheorems, TLAPS

-----------------------------------------------------------------------------
(***************************************************************************)
(* Recursion. The library's theorems about it take operators as            *)
(* parameters; these take sets and functions.                              *)
(***************************************************************************)

\* The natural numbers are the only set of them that has 0 and all successors.
LEMMA Induction ==
  ASSUME NEW S, 0 \in S, \A n \in Nat : n \in S => n + 1 \in S
  PROVE  Nat \subseteq S
<1> DEFINE T == Nat \ S
<1> SUFFICES ASSUME T # {} PROVE FALSE
  OBVIOUS
<1>1. PICK m \in T : \A n \in T : m <= n
  <2> DEFINE R == OpToRel(<, Nat)
  <2>1. T \subseteq Nat
    OBVIOUS
  <2>2. IsWellFoundedOn(R, Nat)
    BY NatLessThanWellFounded
  <2>3. \A x, y \in Nat : <<y, x>> \in R <=> y < x
    BY DEF OpToRel
  <2>4. \E x \in T : \A y \in T : <<y, x>> \notin R
    <3> HIDE DEF T, R
    <3> QED BY <2>1, <2>2, WFMin
  <2>5. \E x \in T : \A y \in T : ~(y < x)
    <3> HIDE DEF R
    <3> QED BY <2>1, <2>3, <2>4
  <2> QED BY <2>5
<1>2. m # 0
  OBVIOUS
<1>3. m - 1 \in Nat /\ m - 1 \notin T
  BY <1>1, <1>2
<1> QED BY <1>3

\* f[n + 1] is what g makes of f[n].
Iterates(f, a, g) == f[0] = a /\ \A n \in Nat : f[n + 1] = g[<<f[n], n + 1>>]

\* A function on the naturals may be defined by recursion: the LETs of CJsonTree
\* are such definitions.
LEMMA Recursion ==
  ASSUME NEW S, NEW a \in S, NEW g \in [S \X Nat -> S]
  PROVE  \E f \in [Nat -> S] : Iterates(f, a, g)
<1> DEFINE A(n) == {f \in [0 .. n -> S] : \A m \in 0 .. n : f[m] = IF m = 0 THEN a ELSE g[<<f[m - 1], m>>]}
           Good == {n \in Nat : A(n) # {}}
           Same == {m \in Nat : \A n, k \in Nat : m <= n /\ m <= k =>
                      \A f \in A(n), h \in A(k) : f[m] = h[m]}
<1>1. Nat \subseteq Good
  <2>1. 0 \in Good
    <3>1. [m \in 0 .. 0 |-> a] \in A(0)
      OBVIOUS
    <3> QED BY <3>1
  <2>2. ASSUME NEW n \in Nat, n \in Good PROVE n + 1 \in Good
    <3>1. PICK f \in A(n) : TRUE
      BY <2>2
    <3> DEFINE h == [m \in 0 .. n + 1 |-> IF m = n + 1 THEN g[<<f[n], n + 1>>] ELSE f[m]]
    <3>2. f \in [0 .. n -> S] /\ \A m \in 0 .. n : f[m] = IF m = 0 THEN a ELSE g[<<f[m - 1], m>>]
      OBVIOUS
    <3>3. f[n] \in S /\ g[<<f[n], n + 1>>] \in S
      BY <3>2
    <3>4. h \in [0 .. n + 1 -> S]
      BY <3>2, <3>3
    <3>5. ASSUME NEW m \in 0 .. n + 1 PROVE h[m] = IF m = 0 THEN a ELSE g[<<h[m - 1], m>>]
      <4>1. h[n + 1] = g[<<f[n], n + 1>>] /\ \A k \in 0 .. n : h[k] = f[k]
        OBVIOUS
      <4> HIDE DEF h
      <4>2. CASE m = n + 1
        <5>1. m # 0 /\ m - 1 = n /\ n \in 0 .. n
          BY <4>2
        <5> QED BY <4>1, <4>2, <5>1
      <4>3. CASE m \in 1 .. n
        <5>1. m \in 0 .. n /\ m - 1 \in 0 .. n /\ m # 0
          BY <4>3
        <5> QED BY <4>1, <5>1, <3>2
      <4>4. CASE m = 0
        <5>1. 0 \in 0 .. n
          OBVIOUS
        <5> QED BY <4>1, <4>4, <5>1, <3>2
      <4> QED BY <4>2, <4>3, <4>4
    <3>6. h \in A(n + 1)
      BY <3>4, <3>5
    <3>7. A(n + 1) # {}
      <4> HIDE DEF h, A
      <4> QED BY <3>6
    <3> HIDE DEF A
    <3> QED BY <3>7
  <2> HIDE DEF Good
  <2> QED BY <2>1, <2>2, Induction
<1>0. ASSUME NEW n \in Nat, NEW f \in A(n)
      PROVE  \A m \in 0 .. n : f[m] = IF m = 0 THEN a ELSE g[<<f[m - 1], m>>]
  OBVIOUS
<1>2. Nat \subseteq Same
  <2> HIDE DEF A, Good
  <2>1. 0 \in Same
    <3>1. ASSUME NEW n \in Nat, NEW f \in A(n) PROVE f[0] = a
      <4>1. 0 \in 0 .. n
        OBVIOUS
      <4> QED BY <4>1, <1>0
    <3> QED BY <3>1
  <2>2. ASSUME NEW m \in Nat, m \in Same PROVE m + 1 \in Same
    <3>1. ASSUME NEW n \in Nat, NEW k \in Nat, m + 1 <= n, m + 1 <= k, NEW f \in A(n), NEW h \in A(k)
          PROVE  f[m + 1] = h[m + 1]
      <4>1. m <= n /\ m <= k
        BY <3>1
      <4>2. f[m] = h[m]
        BY <2>2, <4>1
      <4>3. /\ m + 1 \in 0 .. n /\ m + 1 \in 0 .. k
            /\ (m + 1) - 1 = m /\ m + 1 # 0
        BY <3>1
      <4>4. f[m + 1] = g[<<f[m], m + 1>>]
        BY <1>0, <4>3
      <4>5. h[m + 1] = g[<<h[m], m + 1>>]
        BY <1>0, <4>3
      <4> QED BY <4>2, <4>4, <4>5
    <3> QED BY <3>1
  <2> HIDE DEF Same
  <2> QED BY <2>1, <2>2, Induction
<1> DEFINE F(n) == CHOOSE f : f \in A(n)
           f == [n \in Nat |-> F(n)[n]]
<1>3. ASSUME NEW n \in Nat PROVE F(n) \in A(n)
  <2>1. A(n) # {}
    BY <1>1
  <2> HIDE DEF A
  <2> QED BY <2>1
<1>4. f \in [Nat -> S]
  <2>1. ASSUME NEW n \in Nat PROVE F(n)[n] \in S
    <3> HIDE DEF F
    <3> QED BY <1>3
  <2> HIDE DEF F
  <2> QED BY <2>1
<1>5. ASSUME NEW n \in Nat PROVE f[n] = IF n = 0 THEN a ELSE g[<<f[n - 1], n>>]
  <2>1. CASE n = 0
    <3>1. F(0) \in A(0)
      BY <1>3
    <3>2. F(0)[0] = a
      <4> HIDE DEF F
      <4> QED BY <3>1
    <3> QED BY <2>1, <3>2
  <2>2. CASE n # 0
    <3>1. n - 1 \in Nat
      BY <2>2
    <3>2. F(n - 1) \in A(n - 1) /\ F(n) \in A(n)
      BY <1>3, <3>1
    <3>3. F(n - 1)[n - 1] = F(n)[n - 1]
      <4>1. n - 1 \in Same
        BY <1>2, <3>1
      <4>2. n - 1 <= n /\ n - 1 <= n - 1
        BY <3>1
      <4> HIDE DEF F, A
      <4> QED BY <4>1, <4>2, <3>1, <3>2
    <3>4. F(n)[n] = g[<<F(n)[n - 1], n>>]
      <4> HIDE DEF F
      <4> QED BY <3>2, <2>2
    <3>5. f[n] = F(n)[n] /\ f[n - 1] = F(n - 1)[n - 1]
      BY <3>1
    <3> HIDE DEF F, f
    <3> QED BY <2>2, <3>3, <3>4, <3>5
  <2> QED BY <2>1, <2>2
<1> HIDE DEF f
<1>6. f[0] = a
  BY <1>5
<1>7. ASSUME NEW n \in Nat PROVE f[n + 1] = g[<<f[n], n + 1>>]
  <2>1. n + 1 \in Nat /\ n + 1 # 0 /\ (n + 1) - 1 = n
    OBVIOUS
  <2> QED BY <1>5, <2>1
<1> QED BY <1>4, <1>6, <1>7 DEF Iterates

-----------------------------------------------------------------------------
(***************************************************************************)
(* Kids: what next leads along.                                            *)
(***************************************************************************)

\* What heap may be.
Memory == [Item -> Cell]
\* What a pointer to an item may be.
Pointer == Item \cup {NoItem}

\* The recursive function inside Kids: <<n, i>> is the list from i on, n items at most.
From(h) ==
  CHOOSE from : from = [x \in Nat \X (Item \cup {NoItem}) |->
    IF x[1] = 0 \/ x[2] = NoItem THEN <<>>
    ELSE <<x[2]>> \o from[<<x[1] - 1, h[x[2]].next>>]]

\* From has the value that its definition says.
LEMMA FromDef ==
  ASSUME NEW h \in Memory
  PROVE  From(h) = [x \in Nat \X (Item \cup {NoItem}) |->
           IF x[1] = 0 \/ x[2] = NoItem THEN <<>>
           ELSE <<x[2]>> \o From(h)[<<x[1] - 1, h[x[2]].next>>]]
<1> DEFINE S == [Pointer -> Seq(Item)]
           a == [i \in Pointer |-> <<>>]
           g == [x \in S \X Nat |-> [i \in Pointer |->
                   IF i = NoItem THEN <<>> ELSE <<i>> \o x[1][h[i].next]]]
<1>1. a \in S
  OBVIOUS
<1>2. g \in [S \X Nat -> S]
  <2> SUFFICES ASSUME NEW x \in S, NEW i \in Pointer
               PROVE  (IF i = NoItem THEN <<>> ELSE <<i>> \o x[h[i].next]) \in Seq(Item)
    OBVIOUS
  <2>1. CASE i = NoItem
    BY <2>1
  <2>2. CASE i # NoItem
    <3>1. i \in Item /\ h[i].next \in Pointer
      BY <2>2 DEF Pointer, Memory, Cell
    <3>2. x[h[i].next] \in Seq(Item) /\ <<i>> \in Seq(Item)
      BY <3>1
    <3>3. <<i>> \o x[h[i].next] \in Seq(Item)
      BY <3>2, ConcatProperties
    <3> QED BY <2>2, <3>3
  <2> QED BY <2>1, <2>2
<1>3. PICK F \in [Nat -> S] : Iterates(F, a, g)
  <2> HIDE DEF S, a, g
  <2> QED BY <1>1, <1>2, Recursion
<1> DEFINE f == [x \in Nat \X Pointer |-> F[x[1]][x[2]]]
<1>4. ASSUME NEW n \in Nat, NEW i \in Pointer
      PROVE  f[<<n, i>>] = IF n = 0 \/ i = NoItem THEN <<>> ELSE <<i>> \o f[<<n - 1, h[i].next>>]
  <2>1. f[<<n, i>>] = F[n][i]
    OBVIOUS
  <2>2. CASE n = 0
    <3>1. F[0] = a
      <4> HIDE DEF S, a, g
      <4> QED BY <1>3 DEF Iterates
    <3> QED BY <2>1, <2>2, <3>1
  <2>3. CASE n # 0
    <3>1. n - 1 \in Nat /\ F[n - 1] \in S
      BY <2>3
    <3>2. F[n] = g[<<F[n - 1], n>>]
      <4> HIDE DEF S, a, g
      <4>1. (n - 1) + 1 = n
        OBVIOUS
      <4> QED BY <1>3, <3>1, <4>1 DEF Iterates
    <3>3. F[n] = [j \in Pointer |-> IF j = NoItem THEN <<>> ELSE <<j>> \o F[n - 1][h[j].next]]
      BY <3>1, <3>2
    <3>4. CASE i = NoItem
      BY <2>1, <3>3, <3>4
    <3>5. CASE i # NoItem
      <4>1. h[i].next \in Pointer
        BY <3>5 DEF Memory, Cell, Pointer
      <4>2. f[<<n - 1, h[i].next>>] = F[n - 1][h[i].next]
        BY <3>1, <4>1
      <4> HIDE DEF f
      <4> QED BY <2>1, <2>3, <3>3, <3>5, <4>2
    <3> QED BY <3>4, <3>5
  <2> QED BY <2>2, <2>3
<1>5. f = [x \in Nat \X (Item \cup {NoItem}) |->
             IF x[1] = 0 \/ x[2] = NoItem THEN <<>>
             ELSE <<x[2]>> \o f[<<x[1] - 1, h[x[2]].next>>]]
  <2>1. f = [x \in Nat \X Pointer |-> f[x]]
    OBVIOUS
  <2>2. ASSUME NEW x \in Nat \X Pointer
        PROVE  f[x] = IF x[1] = 0 \/ x[2] = NoItem THEN <<>>
                      ELSE <<x[2]>> \o f[<<x[1] - 1, h[x[2]].next>>]
    <3>1. x = <<x[1], x[2]>> /\ x[1] \in Nat /\ x[2] \in Pointer
      OBVIOUS
    <3> HIDE DEF f
    <3> QED BY <1>4, <3>1
  <2> HIDE DEF f
  <2> QED BY <2>1, <2>2 DEF Pointer
<1> HIDE DEF f
<1> QED BY <1>5, Zenon DEF From

\* Kids is that function, started at the child.
LEMMA KidsFrom ==
  ASSUME NEW h \in Memory, NEW c \in Item
  PROVE  Kids(h, c) = From(h)[<<Cardinality(Item) + 1, h[c].child>>]
BY DEF Kids, From

\* A walk along next, one item at a time.
LEMMA FromStep ==
  ASSUME NEW h \in Memory, NEW n \in Nat, NEW i \in Pointer
  PROVE  From(h)[<<n, i>>] = IF n = 0 \/ i = NoItem THEN <<>>
                             ELSE <<i>> \o From(h)[<<n - 1, h[i].next>>]
<1>1. <<n, i>> \in Nat \X (Item \cup {NoItem})
  BY DEF Pointer
<1> QED BY <1>1, FromDef

\* The fields of an item.
LEMMA MemoryCells ==
  ASSUME NEW h \in Memory, NEW i \in Item
  PROVE  /\ h[i] \in Cell
         /\ h[i].next \in Pointer /\ h[i].prev \in Pointer /\ h[i].child \in Pointer
         /\ h[i].ref \in BOOLEAN
BY DEF Memory, Cell, Pointer

\* A walk meets items only.
LEMMA FromType ==
  ASSUME NEW h \in Memory, NEW n \in Nat, NEW i \in Pointer
  PROVE  From(h)[<<n, i>>] \in Seq(Item)
<1> DEFINE T == {m \in Nat : \A j \in Pointer : From(h)[<<m, j>>] \in Seq(Item)}
<1>1. 0 \in T
  <2>1. ASSUME NEW j \in Pointer PROVE From(h)[<<0, j>>] = <<>>
    <3>1. 0 \in Nat
      OBVIOUS
    <3>2. From(h)[<<0, j>>] = IF 0 = 0 \/ j = NoItem THEN <<>> ELSE <<j>> \o From(h)[<<0 - 1, h[j].next>>]
      BY <3>1, FromStep
    <3> QED BY <3>2
  <2>2. <<>> \in Seq(Item)
    OBVIOUS
  <2> QED BY <2>1, <2>2
<1>2. ASSUME NEW m \in Nat, m \in T PROVE m + 1 \in T
  <2> SUFFICES ASSUME NEW j \in Pointer PROVE From(h)[<<m + 1, j>>] \in Seq(Item)
    OBVIOUS
  <2>1. CASE j = NoItem
    <3>1. m + 1 \in Nat
      OBVIOUS
    <3>2. From(h)[<<m + 1, j>>] = <<>>
      BY <2>1, <3>1, FromStep
    <3>3. <<>> \in Seq(Item)
      OBVIOUS
    <3> QED BY <3>2, <3>3
  <2>2. CASE j # NoItem
    <3>1. j \in Item /\ h[j].next \in Pointer
      BY <2>2, MemoryCells DEF Pointer
    <3>2. From(h)[<<m + 1, j>>] = <<j>> \o From(h)[<<m, h[j].next>>]
      <4> DEFINE c == m + 1
      <4>1. c \in Nat /\ c # 0 /\ c - 1 = m
        OBVIOUS
      <4> HIDE DEF c
      <4>2. From(h)[<<c, j>>] = IF c = 0 \/ j = NoItem THEN <<>> ELSE <<j>> \o From(h)[<<c - 1, h[j].next>>]
        BY <4>1, FromStep
      <4>3. From(h)[<<c, j>>] = <<j>> \o From(h)[<<m, h[j].next>>]
        BY <2>2, <4>1, <4>2
      <4> QED BY <4>3 DEF c
    <3>3. From(h)[<<m, h[j].next>>] \in Seq(Item) /\ <<j>> \in Seq(Item)
      BY <1>2, <3>1
    <3> QED BY <3>2, <3>3, ConcatProperties
  <2> QED BY <2>1, <2>2
<1>3. n \in T
  <2> HIDE DEF T
  <2> QED BY <1>1, <1>2, Induction
<1> QED BY <1>3

\* The kids of an item are items.
LEMMA KidsType ==
  ASSUME NEW h \in Memory, NEW c \in Item
  PROVE  Kids(h, c) \in Seq(Item)
<1>1. Cardinality(Item) + 1 \in Nat /\ h[c].child \in Pointer
  BY ItemAssumption, FS_CardinalityType, MemoryCells
<1> QED BY <1>1, KidsFrom, FromType

\* A sequence without repetition is no longer than the set is large.
LEMMA ShortSeq ==
  ASSUME NEW S, IsFiniteSet(S), NEW s \in Seq(S),
         \A p, q \in 1 .. Len(s) : s[p] = s[q] => p = q
  PROVE  Len(s) <= Cardinality(S) /\ Cardinality(S) \in Nat
<1>1. s \in [1 .. Len(s) -> S] /\ Len(s) \in Nat
  BY LenProperties
<1>2. s \in Injection(1 .. Len(s), S)
  BY <1>1 DEF Injection, IsInjective
<1>3. Cardinality(1 .. Len(s)) <= Cardinality(S)
  BY <1>2, FS_Injection
<1>4. Cardinality(1 .. Len(s)) = Len(s)
  <2>1. Cardinality(1 .. Len(s)) = IF 1 > Len(s) THEN 0 ELSE Len(s) - 1 + 1
    BY <1>1, FS_Interval, 1 \in Int, Len(s) \in Int
  <2> QED BY <1>1, <2>1
<1> QED BY <1>3, <1>4, FS_CardinalityType

\* next leads from i along the items s to the null pointer.
IsList(h, i, s) ==
  /\ i = IF s = <<>> THEN NoItem ELSE s[1]
  /\ \A p \in 1 .. Len(s) : h[s[p]].next = IF p = Len(s) THEN NoItem ELSE s[p + 1]

\* What next leads along is what Kids finds.
LEMMA KidsAre ==
  ASSUME NEW h \in Memory, NEW c \in Item, NEW s \in Seq(Item),
         IsList(h, h[c].child, s),
         \A p, q \in 1 .. Len(s) : s[p] = s[q] => p = q
  PROVE  Kids(h, c) = s
<1> DEFINE T == {n \in Nat : \A p \in 1 .. Len(s) :
                   Len(s) - p < n => From(h)[<<n, s[p]>>] = SubSeq(s, p, Len(s))}
<1>0. Len(s) \in Nat /\ \A p \in 1 .. Len(s) : s[p] \in Item /\ s[p] \in Pointer
  BY LenProperties, ElementOfSeq DEF Pointer
<1>1. 0 \in T
  BY <1>0
<1>2. ASSUME NEW n \in Nat, n \in T PROVE n + 1 \in T
  <2> SUFFICES ASSUME NEW p \in 1 .. Len(s), Len(s) - p < n + 1
               PROVE  From(h)[<<n + 1, s[p]>>] = SubSeq(s, p, Len(s))
    OBVIOUS
  <2>1. From(h)[<<n + 1, s[p]>>] = <<s[p]>> \o From(h)[<<n, h[s[p]].next>>]
    <3>1. n + 1 \in Nat /\ n + 1 # 0 /\ (n + 1) - 1 = n
      OBVIOUS
    <3>2. s[p] # NoItem /\ s[p] \in Pointer
      BY <1>0, ItemAssumption
    <3>3. From(h)[<<n + 1, s[p]>>] = IF n + 1 = 0 \/ s[p] = NoItem THEN <<>>
              ELSE <<s[p]>> \o From(h)[<<(n + 1) - 1, h[s[p]].next>>]
      BY <3>1, <3>2, FromStep
    <3> QED BY <3>1, <3>2, <3>3
  <2>2. CASE p = Len(s)
    <3>1. h[s[p]].next = NoItem
      BY <2>2 DEF IsList
    <3>2. From(h)[<<n, NoItem>>] = <<>>
      BY FromStep DEF Pointer
    <3>3. SubSeq(s, p, Len(s)) = <<s[p]>> \o SubSeq(s, p + 1, Len(s))
      <4>1. Len(s) \in p .. Len(s)
        BY <1>0
      <4> QED BY SubSeqRecursiveFirst, <4>1
    <3>4. SubSeq(s, p + 1, Len(s)) = <<>>
      BY <2>2, <1>0, SubSeqEmpty
    <3> QED BY <2>1, <3>1, <3>2, <3>3, <3>4
  <2>3. CASE p # Len(s)
    <3>1. h[s[p]].next = s[p + 1] /\ p + 1 \in 1 .. Len(s) /\ Len(s) - (p + 1) < n
      BY <2>3, <1>0 DEF IsList
    <3>2. From(h)[<<n, s[p + 1]>>] = SubSeq(s, p + 1, Len(s))
      BY <3>1, <1>2
    <3>3. SubSeq(s, p, Len(s)) = <<s[p]>> \o SubSeq(s, p + 1, Len(s))
      <4>1. Len(s) \in p .. Len(s)
        BY <1>0
      <4> QED BY SubSeqRecursiveFirst, <4>1
    <3> QED BY <2>1, <3>1, <3>2, <3>3
  <2> QED BY <2>2, <2>3
<1>3. Nat \subseteq T
  <2> HIDE DEF T
  <2> QED BY <1>1, <1>2, Induction
<1>4. Len(s) <= Cardinality(Item) /\ Cardinality(Item) \in Nat /\ Cardinality(Item) + 1 \in Nat
  BY ShortSeq, ItemAssumption
<1>5. Kids(h, c) = From(h)[<<Cardinality(Item) + 1, h[c].child>>]
  BY KidsFrom
<1>6. CASE s = <<>>
  <2>1. From(h)[<<Cardinality(Item) + 1, NoItem>>] = <<>>
    BY <1>4, FromStep DEF Pointer
  <2> QED BY <1>5, <1>6, <2>1 DEF IsList
<1>7. CASE s # <<>>
  <2>1. 1 \in 1 .. Len(s)
    BY <1>7, EmptySeq
  <2>2. From(h)[<<Cardinality(Item) + 1, s[1]>>] = SubSeq(s, 1, Len(s))
    <3> DEFINE N == Cardinality(Item)
    <3>1. N + 1 \in T
      <4> HIDE DEF T
      <4> QED BY <1>3, <1>4
    <3>2. Len(s) - 1 < N + 1
      BY <1>0, <1>4
    <3> HIDE DEF N
    <3>3. From(h)[<<N + 1, s[1]>>] = SubSeq(s, 1, Len(s))
      BY <2>1, <3>1, <3>2
    <3> QED BY <3>3 DEF N
  <2> QED BY <1>5, <1>7, <2>2, SubSeqFull DEF IsList
<1> QED BY <1>6, <1>7
----------------------------------------------------------------------------
\* The recursive function inside Reached.
Met(to, s) ==
  CHOOSE met : met = [n \in Nat |->
    IF n = 0 THEN s ELSE UNION {{i} \cup to[i] : i \in met[n - 1]}]

\* Met has the value that its definition says, and Reached is its last value.
LEMMA MetDef ==
  ASSUME NEW to \in [Item -> SUBSET Item], NEW s \in SUBSET Item
  PROVE  /\ Met(to, s) \in [Nat -> SUBSET Item]
         /\ Met(to, s)[0] = s
         /\ \A n \in Nat : Met(to, s)[n + 1] = UNION {{i} \cup to[i] : i \in Met(to, s)[n]}
         /\ Reached(to, s) = Met(to, s)[Cardinality(Item)]
<1> DEFINE S == SUBSET Item
           g == [x \in S \X Nat |-> UNION {{i} \cup to[i] : i \in x[1]}]
<1>1. g \in [S \X Nat -> S]
  OBVIOUS
<1>2. PICK f \in [Nat -> S] : Iterates(f, s, g)
  <2> HIDE DEF S, g
  <2>1. s \in S
    BY DEF S
  <2> QED BY <1>1, <2>1, Recursion
<1>3. f[0] = s
  BY <1>2 DEF Iterates
<1>4. ASSUME NEW n \in Nat PROVE f[n + 1] = UNION {{i} \cup to[i] : i \in f[n]}
  <2>1. f[n + 1] = g[<<f[n], n + 1>>]
    <3> HIDE DEF S, g
    <3> QED BY <1>2 DEF Iterates
  <2> QED BY <2>1
<1>5. ASSUME NEW n \in Nat
      PROVE  f[n] = IF n = 0 THEN s ELSE UNION {{i} \cup to[i] : i \in f[n - 1]}
  <2>1. CASE n = 0
    BY <1>3, <2>1
  <2>2. CASE n # 0
    <3>1. n - 1 \in Nat /\ (n - 1) + 1 = n
      BY <2>2
    <3>2. f[(n - 1) + 1] = UNION {{i} \cup to[i] : i \in f[n - 1]}
      BY <1>4, <3>1
    <3> QED BY <2>2, <3>1, <3>2
  <2> QED BY <2>1, <2>2
<1>6. f = [n \in Nat |-> IF n = 0 THEN s ELSE UNION {{i} \cup to[i] : i \in f[n - 1]}]
  <2>1. f = [n \in Nat |-> f[n]]
    OBVIOUS
  <2> QED BY <2>1, <1>5
<1>7. Met(to, s) = [n \in Nat |->
            IF n = 0 THEN s ELSE UNION {{i} \cup to[i] : i \in Met(to, s)[n - 1]}]
  BY <1>6 DEF Met
<1>8. Met(to, s)[0] = s
  BY <1>7
<1>9. ASSUME NEW n \in Nat PROVE Met(to, s)[n + 1] = UNION {{i} \cup to[i] : i \in Met(to, s)[n]}
  <2>1. n + 1 \in Nat /\ n + 1 # 0 /\ (n + 1) - 1 = n
    OBVIOUS
  <2> QED BY <1>7, <2>1
<1>10. Met(to, s) \in [Nat -> SUBSET Item]
  <2> DEFINE T == {n \in Nat : Met(to, s)[n] \in SUBSET Item}
  <2>1. 0 \in T
    BY <1>8
  <2>2. ASSUME NEW n \in Nat, n \in T PROVE n + 1 \in T
    BY <1>9, <2>2
  <2>3. Nat \subseteq T
    <3> HIDE DEF T
    <3> QED BY <2>1, <2>2, Induction
  <2>4. \A n \in Nat : Met(to, s)[n] \in SUBSET Item
    BY <2>3
  <2>5. Met(to, s) = [n \in Nat |-> Met(to, s)[n]]
    BY <1>7
  <2> QED BY <2>4, <2>5
<1>11. Reached(to, s) = Met(to, s)[Cardinality(Item)]
  BY DEF Reached, Met
<1> QED BY <1>8, <1>9, <1>10, <1>11

-----------------------------------------------------------------------------
(***************************************************************************)
(* Reached: walks in a graph.                                              *)
(***************************************************************************)

\* The ways a walk may go.
Graph == [Item -> SUBSET Item]

\* A walk from s stays in s.
Closed(to, s) == \A i \in s : to[i] \subseteq s

\* As many rounds as there are items are enough: Reached can be left no more.
LEMMA ReachedClosed ==
  ASSUME NEW to \in Graph, NEW s \in SUBSET Item
  PROVE  /\ s \subseteq Reached(to, s) /\ Reached(to, s) \subseteq Item
         /\ Closed(to, Reached(to, s))
<1> DEFINE M == Met(to, s)
           N == Cardinality(Item)
           C(n) == Closed(to, M[n])
           T == {n \in Nat : C(n) \/ n <= Cardinality(M[n])}
           B == {n \in Nat : s \subseteq M[n]}
<1>1. /\ M \in [Nat -> SUBSET Item] /\ M[0] = s
      /\ \A n \in Nat : M[n + 1] = UNION {{i} \cup to[i] : i \in M[n]}
      /\ Reached(to, s) = M[N]
  BY MetDef DEF Graph
<1>2. IsFiniteSet(Item) /\ N \in Nat
  BY ItemAssumption, FS_CardinalityType
<1> HIDE DEF M, N
<1>3. ASSUME NEW n \in Nat
      PROVE  /\ M[n] \subseteq M[n + 1] /\ M[n + 1] \subseteq Item
             /\ C(n) <=> M[n + 1] = M[n]
  <2>1. M[n] \in SUBSET Item /\ M[n + 1] \in SUBSET Item
    BY <1>1
  <2>2. M[n + 1] = UNION {{i} \cup to[i] : i \in M[n]}
    BY <1>1
  <2> QED BY <2>1, <2>2 DEF Closed
<1>4. ASSUME NEW n \in Nat
      PROVE  IsFiniteSet(M[n]) /\ Cardinality(M[n]) \in Nat
  <2>1. M[n] \in SUBSET Item
    BY <1>1
  <2>2. IsFiniteSet(M[n])
    BY <2>1, <1>2, FS_Subset
  <2> QED BY <2>2, FS_CardinalityType
<1>5. N \in T
  <2>1. 0 \in T
    BY <1>4
  <2>2. ASSUME NEW n \in Nat, n \in T PROVE n + 1 \in T
    <3>1. CASE C(n)
      <4>1. M[n + 1] = M[n]
        BY <1>3, <3>1
      <4>2. C(n + 1)
        BY <4>1, <3>1
      <4> QED BY <4>2
    <3>2. CASE ~C(n)
      <4>1. n <= Cardinality(M[n])
        BY <2>2, <3>2
      <4>2. M[n] \subseteq M[n + 1] /\ M[n + 1] # M[n]
        BY <1>3, <3>2
      <4>3. IsFiniteSet(M[n + 1]) /\ Cardinality(M[n + 1]) \in Nat /\ Cardinality(M[n]) \in Nat
        BY <1>4
      <4>4. Cardinality(M[n]) < Cardinality(M[n + 1])
        BY <4>2, <4>3, FS_Subset
      <4>5. n + 1 <= Cardinality(M[n + 1])
        BY <4>1, <4>3, <4>4
      <4> QED BY <4>5
    <3> QED BY <3>1, <3>2
  <2> HIDE DEF T
  <2> QED BY <2>1, <2>2, <1>2, Induction
<1>6. C(N)
  <2>1. CASE N <= Cardinality(M[N])
    <3>1. M[N] \in SUBSET Item /\ Cardinality(M[N]) \in Nat
      BY <1>1, <1>2, <1>4
    <3>2. Cardinality(M[N]) <= N
      BY <3>1, <1>2, FS_Subset DEF N
    <3>3. Cardinality(M[N]) = N
      BY <3>1, <3>2, <2>1, <1>2
    <3>4. M[N] = Item
      BY <3>1, <3>3, <1>2, FS_Subset DEF N
    <3> QED BY <3>4 DEF Closed, Graph
  <2> QED BY <2>1, <1>5
<1>7. N \in B
  <2>1. 0 \in B
    BY <1>1
  <2>2. ASSUME NEW n \in Nat, n \in B PROVE n + 1 \in B
    BY <2>2, <1>3
  <2> HIDE DEF B
  <2> QED BY <2>1, <2>2, <1>2, Induction
<1>8. M[N] \subseteq Item
  BY <1>1, <1>2
<1> QED BY <1>1, <1>6, <1>7, <1>8

\* Nothing is reached that a closed set around the start leaves out.
LEMMA ReachedLeast ==
  ASSUME NEW to \in Graph, NEW s \in SUBSET Item, NEW t \in SUBSET Item,
         s \subseteq t, Closed(to, t)
  PROVE  Reached(to, s) \subseteq t
<1> DEFINE M == Met(to, s)
           T == {n \in Nat : M[n] \subseteq t}
<1>1. /\ M \in [Nat -> SUBSET Item] /\ M[0] = s
      /\ \A n \in Nat : M[n + 1] = UNION {{i} \cup to[i] : i \in M[n]}
      /\ Reached(to, s) = M[Cardinality(Item)]
  BY MetDef DEF Graph
<1> HIDE DEF M
<1>2. Nat \subseteq T
  <2>1. 0 \in T
    BY <1>1
  <2>2. ASSUME NEW n \in Nat, n \in T PROVE n + 1 \in T
    <3>1. M[n + 1] = UNION {{i} \cup to[i] : i \in M[n]}
      BY <1>1
    <3>2. M[n] \subseteq t
      BY <2>2
    <3> QED BY <3>1, <3>2 DEF Closed
  <2> HIDE DEF T
  <2> QED BY <2>1, <2>2, Induction
<1>3. Cardinality(Item) \in Nat
  BY ItemAssumption, FS_CardinalityType
<1> QED BY <1>1, <1>2, <1>3

\* From a closed set nothing else is reached.
LEMMA ReachedSelf ==
  ASSUME NEW to \in Graph, NEW s \in SUBSET Item, Closed(to, s)
  PROVE  Reached(to, s) = s
BY ReachedClosed, ReachedLeast

\* With more ways, more is reached.
LEMMA ReachedMore ==
  ASSUME NEW to \in Graph, NEW more \in Graph, NEW s \in SUBSET Item,
         \A i \in Item : to[i] \subseteq more[i]
  PROVE  Reached(to, s) \subseteq Reached(more, s)
<1>1. Reached(more, s) \in SUBSET Item /\ s \subseteq Reached(more, s) /\ Closed(more, Reached(more, s))
  BY ReachedClosed
<1>2. Closed(to, Reached(more, s))
  BY <1>1 DEF Closed
<1> QED BY <1>1, <1>2, ReachedLeast

\* Ways that are alike where the walk comes lead to the same items.
LEMMA ReachedAlike ==
  ASSUME NEW to \in Graph, NEW as \in Graph, NEW s \in SUBSET Item,
         \A i \in Reached(to, s) : to[i] = as[i]
  PROVE  Reached(to, s) = Reached(as, s)
<1> DEFINE R == Reached(to, s)
           A == Reached(as, s)
<1>1. R \in SUBSET Item /\ s \subseteq R /\ Closed(to, R)
  BY ReachedClosed
<1>2. A \in SUBSET Item /\ s \subseteq A /\ Closed(as, A)
  BY ReachedClosed
<1>3. A \subseteq R
  <2>1. Closed(as, R)
    BY <1>1 DEF Closed
  <2> HIDE DEF R
  <2> QED BY <1>1, <2>1, ReachedLeast
<1>4. R \subseteq A
  <2>1. Closed(to, A)
    BY <1>1, <1>2, <1>3 DEF Closed
  <2> HIDE DEF A
  <2> QED BY <1>2, <2>1, ReachedLeast
<1> QED BY <1>3, <1>4

\* What is reached and was no start has been reached from somewhere.
LEMMA ReachedFrom ==
  ASSUME NEW to \in Graph, NEW s \in SUBSET Item, NEW i \in Reached(to, s), i \notin s
  PROVE  \E j \in Reached(to, s) : i \in to[j]
<1> DEFINE R == Reached(to, s)
<1>1. R \in SUBSET Item /\ s \subseteq R /\ Closed(to, R)
  BY ReachedClosed
<1> SUFFICES ASSUME \A j \in R : i \notin to[j] PROVE FALSE
  OBVIOUS
<1>2. Closed(to, R \ {i}) /\ s \subseteq R \ {i} /\ R \ {i} \in SUBSET Item
  BY <1>1 DEF Closed
<1>3. R \subseteq R \ {i}
  BY <1>2, ReachedLeast
<1> QED BY <1>3

\* With more starts, the walks add up.
LEMMA ReachedFromMore ==
  ASSUME NEW to \in Graph, NEW s \in SUBSET Item, NEW t \in SUBSET Item
  PROVE  Reached(to, s \cup t) = Reached(to, s) \cup Reached(to, t)
<1> DEFINE S == Reached(to, s)
           T == Reached(to, t)
           R == Reached(to, s \cup t)
<1>1. S \in SUBSET Item /\ s \subseteq S /\ Closed(to, S)
  BY ReachedClosed
<1>2. T \in SUBSET Item /\ t \subseteq T /\ Closed(to, T)
  BY ReachedClosed
<1>3. R \in SUBSET Item /\ s \cup t \subseteq R /\ Closed(to, R)
  <2>1. s \cup t \in SUBSET Item
    OBVIOUS
  <2> QED BY <2>1, ReachedClosed
<1>4. R \subseteq S \cup T
  <2>1. s \cup t \subseteq S \cup T /\ Closed(to, S \cup T) /\ S \cup T \in SUBSET Item /\ s \cup t \in SUBSET Item
    BY <1>1, <1>2 DEF Closed
  <2> HIDE DEF S, T
  <2> QED BY <2>1, ReachedLeast
<1>5. S \subseteq R /\ T \subseteq R
  <2> HIDE DEF R
  <2>1. s \subseteq R /\ t \subseteq R
    BY <1>3
  <2> QED BY <1>3, <2>1, ReachedLeast
<1> QED BY <1>4, <1>5

-----------------------------------------------------------------------------
(***************************************************************************)
(* Walks in a graph that has one way more or less.                         *)
(***************************************************************************)

\* new has one way more than to, from c to i.
AddsEdge(new, to, c, i) ==
  /\ \A x \in Item \ {c} : new[x] = to[x]
  /\ \A j \in Item : j \in new[c] <=> j \in to[c] \/ j = i

\* new has one way less than to, from c to i.
DropsEdge(new, to, c, i) ==
  /\ \A x \in Item \ {c} : new[x] = to[x]
  /\ \A j \in Item : j \in new[c] <=> j \in to[c] /\ j # i

\* A start that gets a way to it instead is still reached (and c is not below it).
LEMMA Added ==
  ASSUME NEW to \in Graph, NEW new \in Graph, NEW s \in SUBSET Item, NEW i \in Item, NEW c \in Item,
         c \in Reached(to, s), c \notin Reached(to, {i}),
         AddsEdge(new, to, c, i)
  PROVE  Reached(new, s \ {i}) = Reached(to, s \cup {i})
<1>00. \A x \in Item : new[x] = IF x = c THEN to[c] \cup {i} ELSE to[x]
  <2>1. new[c] = to[c] \cup {i}
    BY DEF AddsEdge, Graph
  <2> QED BY <2>1 DEF AddsEdge
<1> DEFINE A == Reached(new, s \ {i})
           R == Reached(to, s \cup {i})
           B == Reached(to, s \ {i})
<1>0. s \ {i} \in SUBSET Item /\ s \cup {i} \in SUBSET Item /\ {i} \in SUBSET Item
  OBVIOUS
<1>1. A \in SUBSET Item /\ s \ {i} \subseteq A /\ Closed(new, A)
  BY <1>0, ReachedClosed
<1>2. R \in SUBSET Item /\ s \cup {i} \subseteq R /\ Closed(to, R)
  BY <1>0, ReachedClosed
<1>3. A \subseteq R
  <2>1. Closed(new, R)
    BY <1>00, <1>2 DEF Closed
  <2> HIDE DEF R
  <2> QED BY <1>0, <1>2, <2>1, ReachedLeast
<1>4. Closed(to, A)
  BY <1>00, <1>1 DEF Closed
<1>5. B \subseteq A
  <2> HIDE DEF A
  <2> QED BY <1>0, <1>1, <1>4, ReachedLeast
<1>6. c \in B
  <2>1. Reached(to, (s \ {i}) \cup {i}) = B \cup Reached(to, {i})
    BY <1>0, ReachedFromMore
  <2>2. Reached(to, s \cup {i}) = Reached(to, s) \cup Reached(to, {i})
    BY <1>0, ReachedFromMore
  <2>3. (s \ {i}) \cup {i} = s \cup {i}
    OBVIOUS
  <2> QED BY <2>1, <2>2, <2>3
<1>7. i \in A
  <2> HIDE DEF A, B
  <2>1. c \in A /\ i \in new[c]
    BY <1>00, <1>5, <1>6
  <2> QED BY <2>1, <1>1 DEF Closed
<1>8. R \subseteq A
  <2> HIDE DEF A
  <2>1. s \cup {i} \subseteq A
    BY <1>1, <1>7
  <2> QED BY <1>0, <1>1, <1>4, <2>1, ReachedLeast
<1> QED BY <1>3, <1>8

\* A way that is taken away is made up for by a start.
LEMMA Taken ==
  ASSUME NEW to \in Graph, NEW new \in Graph, NEW s \in SUBSET Item, NEW c \in Item, NEW i \in to[c],
         c \in Reached(to, s),
         DropsEdge(new, to, c, i)
  PROVE  Reached(new, s \cup {i}) = Reached(to, s)
<1>00. \A x \in Item : new[x] = IF x = c THEN to[c] \ {i} ELSE to[x]
  <2>1. new[c] = to[c] \ {i}
    BY DEF DropsEdge, Graph
  <2> QED BY <2>1 DEF DropsEdge
<1> DEFINE A == Reached(new, s \cup {i})
           R == Reached(to, s)
<1>0. i \in Item /\ s \cup {i} \in SUBSET Item
  BY DEF Graph
<1>1. A \in SUBSET Item /\ s \cup {i} \subseteq A /\ Closed(new, A)
  BY <1>0, ReachedClosed
<1>2. R \in SUBSET Item /\ s \subseteq R /\ Closed(to, R)
  BY <1>0, ReachedClosed
<1>3. A \subseteq R
  <2>1. Closed(new, R) /\ s \cup {i} \subseteq R
    BY <1>00, <1>2 DEF Closed
  <2> HIDE DEF R
  <2> QED BY <1>0, <1>2, <2>1, ReachedLeast
<1>4. R \subseteq A
  <2>1. Closed(to, A) /\ s \subseteq A
    BY <1>00, <1>1 DEF Closed
  <2> HIDE DEF A
  <2> QED BY <1>0, <1>1, <2>1, ReachedLeast
<1> QED BY <1>3, <1>4

\* No item is in two lists.
OneParent(to) == \A x, y \in Item : \A z \in to[x] : z \in to[y] => x = y

\* The items s are in no list.
Roots(to, s) == \A x \in Item : to[x] \cap s = {}

\* What is outside the tree of i has no way into it.
LEMMA Apart ==
  ASSUME NEW to \in Graph, NEW i \in Item, OneParent(to), Roots(to, {i})
  PROVE  \A x \in Item \ Reached(to, {i}) : to[x] \cap Reached(to, {i}) = {}
<1> SUFFICES ASSUME NEW x \in Item, x \notin Reached(to, {i}), NEW y \in to[x], y \in Reached(to, {i})
             PROVE  FALSE
  BY DEF Graph
<1>0. {i} \in SUBSET Item /\ Reached(to, {i}) \subseteq Item
  BY ReachedClosed
<1>1. y # i
  BY DEF Roots
<1>2. PICK z \in Reached(to, {i}) : y \in to[z]
  BY <1>0, <1>1, ReachedFrom
<1> QED BY <1>0, <1>2 DEF OneParent

\* Without the tree of i, all the rest is still reached.
LEMMA Cut ==
  ASSUME NEW to \in Graph, NEW new \in Graph, NEW s \in SUBSET Item, NEW i \in Item,
         OneParent(to), Roots(to, s \cup {i}),
         \A x \in Item : new[x] = IF x \in Reached(to, {i}) THEN {} ELSE to[x]
  PROVE  Reached(new, s \ {i}) = Reached(to, s) \ Reached(to, {i})
<1> DEFINE D == Reached(to, {i})
           R == Reached(to, s)
           A == Reached(new, s \ {i})
<1>0. s \ {i} \in SUBSET Item /\ {i} \in SUBSET Item
  OBVIOUS
<1>1. A \in SUBSET Item /\ s \ {i} \subseteq A /\ Closed(new, A)
  BY <1>0, ReachedClosed
<1>2. R \in SUBSET Item /\ s \subseteq R /\ Closed(to, R)
  BY <1>0, ReachedClosed
<1>3. D \in SUBSET Item /\ i \in D /\ Closed(to, D)
  BY <1>0, ReachedClosed
<1>4. \A x \in Item \ D : to[x] \cap D = {}
  <2>1. Roots(to, {i})
    BY DEF Roots
  <2> QED BY <2>1, Apart
<1>5. (s \ {i}) \cap D = {}
  <2> SUFFICES ASSUME NEW y \in s \ {i}, y \in D PROVE FALSE
    OBVIOUS
  <2>1. PICK z \in D : y \in to[z]
    BY <1>0, ReachedFrom
  <2> QED BY <1>3, <2>1 DEF Roots
<1> HIDE DEF A, D, R
<1>6. \A x \in Item : new[x] = IF x \in D THEN {} ELSE to[x]
  BY DEF D
<1>7. A \subseteq R \ D
  <2>1. Closed(new, R \ D) /\ s \ {i} \subseteq R \ D /\ R \ D \in SUBSET Item
    BY <1>2, <1>3, <1>4, <1>5, <1>6 DEF Closed
  <2> QED BY <1>0, <2>1, ReachedLeast DEF A
<1>8. R \subseteq A \cup D
  <2>1. Closed(to, A \cup D)
    <3> SUFFICES ASSUME NEW x \in A \cup D PROVE to[x] \subseteq A \cup D
      BY DEF Closed
    <3>1. CASE x \in D
      BY <3>1, <1>3 DEF Closed
    <3>2. CASE x \notin D
      <4>1. new[x] = to[x] /\ x \in A
        BY <3>2, <1>1, <1>6
      <4> QED BY <4>1, <1>1 DEF Closed
    <3> QED BY <3>1, <3>2
  <2>2. s \subseteq A \cup D /\ A \cup D \in SUBSET Item
    BY <1>1, <1>3
  <2> QED BY <2>1, <2>2, ReachedLeast DEF R
<1> QED BY <1>7, <1>8 DEF A, D, R

-----------------------------------------------------------------------------
(***************************************************************************)
(* What the pointers mean: the lists that a memory holds.                  *)
(***************************************************************************)

\* What each item owns, as sequences.
Lists == [Item -> Seq(Item)]

\* What child is for the list s.
FirstOf(s) == IF s = <<>> THEN NoItem ELSE s[1]
\* What next is for the p-th item of s.
After(s, p) == IF p = Len(s) THEN NoItem ELSE s[p + 1]
\* What prev is for the p-th item of s.
Before(s, p) == s[IF p = 1 THEN Len(s) ELSE p - 1]
\* i is in the sequence s.
In(i, s) == \E p \in 1 .. Len(s) : s[p] = i
\* s has no repetition.
Distinct(s) == \A p, q \in 1 .. Len(s) : s[p] = s[q] => p = q

\* Along child and next, each item has the list that k says.
Forward(h, k) ==
  /\ \A c \in Item : h[c].type = "free" \/ h[c].ref => k[c] = <<>>
  /\ \A c \in Item : ~h[c].ref => h[c].child = FirstOf(k[c])
  /\ \A c \in Item : \A p \in 1 .. Len(k[c]) :
       h[k[c][p]].type # "free" /\ h[k[c][p]].next = After(k[c], p)

\* Along prev, too: it leads from the first item to the last.
Backward(h, k) ==
  \A c \in Item : \A p \in 1 .. Len(k[c]) : h[k[c][p]].prev = Before(k[c], p)

\* An item is in one list, once.
Unshared(k) ==
  \A c, d \in Item : \A p \in 1 .. Len(k[c]), q \in 1 .. Len(k[d]) :
    k[c][p] = k[d][q] => c = d /\ p = q

\* An item in no list has no neighbours, and free memory is blank.
Loose(h, k) ==
  /\ \A i \in Item : (\A c \in Item : ~In(i, k[c])) => h[i].next = NoItem /\ h[i].prev = NoItem
  /\ \A i \in Item : h[i].type = "free" => h[i] = NewItem("free")

\* The name of an item is cJSON's own, the caller's, or none.
Names(h) ==
  \A i \in Item : h[i].type # "free" => h[i].copied = (h[i].name # NoName /\ ~h[i].constant)

\* The memory h holds the lists k.
Shape(h, k) ==
  /\ h \in Memory /\ k \in Lists
  /\ Forward(h, k) /\ Backward(h, k) /\ Unshared(k) /\ Loose(h, k) /\ Names(h)

\* The list of c becomes t.
Edit(k, c, t) == [k EXCEPT ![c] = t]

\* One of the lists.
LEMMA ListOf ==
  ASSUME NEW k \in Lists, NEW c \in Item
  PROVE  /\ k[c] \in Seq(Item) /\ Len(k[c]) \in Nat /\ k[c] \in [1 .. Len(k[c]) -> Item]
         /\ \A p \in 1 .. Len(k[c]) : k[c][p] \in Item
         /\ k[c] = <<>> <=> Len(k[c]) = 0
         /\ k[c] # <<>> => 1 \in 1 .. Len(k[c]) /\ Len(k[c]) \in 1 .. Len(k[c])
<1>1. k[c] \in Seq(Item)
  BY DEF Lists
<1> QED BY <1>1, LenProperties, ElementOfSeq, EmptySeq

\* In is membership in ToSet.
LEMMA ToSetIn ==
  ASSUME NEW s \in Seq(Item)
  PROVE  \A i : i \in ToSet(s) <=> In(i, s)
BY LenProperties DEF ToSet, In

\* Owned finds the lists that the pointers lead along.
LEMMA OwnedAre ==
  ASSUME NEW h \in Memory, NEW k \in Lists, Forward(h, k), Unshared(k)
  PROVE  Owned(h) = k
<1>1. ASSUME NEW c \in Item PROVE (IF h[c].ref THEN <<>> ELSE Kids(h, c)) = k[c]
  <2>1. CASE h[c].ref
    BY <2>1 DEF Forward
  <2>2. CASE ~h[c].ref
    <3>1. k[c] \in Seq(Item)
      BY ListOf
    <3>2. IsList(h, h[c].child, k[c])
      BY <2>2 DEF Forward, IsList, FirstOf, After
    <3>3. \A p, q \in 1 .. Len(k[c]) : k[c][p] = k[c][q] => p = q
      BY DEF Unshared
    <3>4. Kids(h, c) = k[c]
      BY <3>1, <3>2, <3>3, KidsAre
    <3> QED BY <2>2, <3>4
  <2> QED BY <2>1, <2>2
<1>2. k = [c \in Item |-> k[c]]
  BY DEF Lists
<1> QED BY <1>1, <1>2 DEF Owned

\* Owned finds sequences of items, whatever the pointers are.
LEMMA OwnedType ==
  ASSUME NEW h \in Memory
  PROVE  Owned(h) \in Lists
<1>1. ASSUME NEW c \in Item PROVE (IF h[c].ref THEN <<>> ELSE Kids(h, c)) \in Seq(Item)
  <2>1. <<>> \in Seq(Item)
    OBVIOUS
  <2> QED BY <2>1, KidsType
<1> QED BY <1>1 DEF Owned, Lists

\* The fields of an item that no change of a list touches.
SameItem(x, y) ==
  /\ x.type = y.type /\ x.ref = y.ref
  /\ x.name = y.name /\ x.constant = y.constant /\ x.copied = y.copied

\* From h to g, one list has changed, the one of c.
Kept(g, h, c) ==
  /\ \A j \in Item : SameItem(g[j], h[j])
  /\ \A j \in Item \ {c} : g[j].child = h[j].child

\* Two items with equal fields are equal.
LEMMA CellsEqual ==
  ASSUME NEW x \in Cell, NEW y \in Cell, SameItem(x, y),
         x.next = y.next, x.prev = y.prev, x.child = y.child
  PROVE  x = y
BY DEF Cell, SameItem

\* A memory in which c has the list t, and all else is as before, has the Shape
\* of the edited lists.  Each function on lists is an instance of it.
LEMMA Relist ==
  ASSUME NEW h, NEW k, Shape(h, k), NEW c \in Item, ~h[c].ref, h[c].type # "free",
         NEW t \in Seq(Item), Distinct(t),
         \A p \in 1 .. Len(t) : h[t[p]].type # "free",
         \A d \in Item \ {c} : \A p \in 1 .. Len(t) : ~In(t[p], k[d]),
         NEW g \in Memory, \A j \in Item : SameItem(g[j], h[j]),
         \A j \in Item : g[j].child = IF j = c THEN FirstOf(t) ELSE h[j].child,
         \A p \in 1 .. Len(t) : g[t[p]].next = After(t, p) /\ g[t[p]].prev = Before(t, p),
         \A j \in Item : In(j, k[c]) /\ ~In(j, t) => g[j].next = NoItem /\ g[j].prev = NoItem,
         \A j \in Item : ~In(j, k[c]) /\ ~In(j, t) => g[j].next = h[j].next /\ g[j].prev = h[j].prev
  PROVE  Shape(g, [k EXCEPT ![c] = t])
<1> DEFINE n == [k EXCEPT ![c] = t]
<1>0. h \in Memory /\ k \in Lists /\ Forward(h, k) /\ Backward(h, k) /\ Unshared(k) /\ Loose(h, k) /\ Names(h)
  BY DEF Shape
<1>1. n \in Lists /\ n[c] = t /\ \A d \in Item \ {c} : n[d] = k[d]
  BY <1>0 DEF Lists
<1>2. \A p \in 1 .. Len(t) : t[p] \in Item
  BY ElementOfSeq
<1>3. ASSUME NEW d \in Item \ {c}, NEW p \in 1 .. Len(k[d])
      PROVE  /\ k[d][p] \in Item
             /\ g[k[d][p]].next = After(k[d], p) /\ g[k[d][p]].prev = Before(k[d], p)
  <2>1. k[d][p] \in Item
    BY <1>0, ListOf
  <2>2. ~In(k[d][p], t)
    BY DEF In
  <2>3. ~In(k[d][p], k[c])
    BY <1>0 DEF In, Unshared
  <2>4. g[k[d][p]].next = h[k[d][p]].next /\ g[k[d][p]].prev = h[k[d][p]].prev
    BY <2>1, <2>2, <2>3
  <2> QED BY <2>1, <2>4, <1>0 DEF Forward, Backward
<1>4. \A j \in Item : g[j].type = h[j].type /\ g[j].ref = h[j].ref
  BY DEF SameItem
<1> HIDE DEF n
<1>5. Forward(g, n)
  <2>1. ASSUME NEW d \in Item, g[d].type = "free" \/ g[d].ref PROVE n[d] = <<>>
    <3>1. d # c
      BY <1>4, <2>1
    <3> QED BY <3>1, <1>0, <1>1, <1>4, <2>1 DEF Forward
  <2>2. ASSUME NEW d \in Item, ~g[d].ref PROVE g[d].child = FirstOf(n[d])
    BY <1>0, <1>1, <1>4, <2>2 DEF Forward
  <2>3. ASSUME NEW d \in Item, NEW p \in 1 .. Len(n[d])
        PROVE  g[n[d][p]].type # "free" /\ g[n[d][p]].next = After(n[d], p)
    <3>1. CASE d = c
      BY <3>1, <1>1, <1>2, <1>4, <2>3
    <3>2. CASE d # c
      BY <3>2, <1>0, <1>1, <1>3, <1>4, <2>3 DEF Forward
    <3> QED BY <3>1, <3>2
  <2> QED BY <2>1, <2>2, <2>3 DEF Forward
<1>6. Backward(g, n)
  BY <1>1, <1>2, <1>3 DEF Backward
<1>7. Unshared(n)
  <2> SUFFICES ASSUME NEW d \in Item, NEW e \in Item, NEW p \in 1 .. Len(n[d]), NEW q \in 1 .. Len(n[e]),
                      n[d][p] = n[e][q]
               PROVE  d = e /\ p = q
    BY DEF Unshared
  <2>1. CASE d = c /\ e = c
    BY <2>1, <1>1 DEF Distinct
  <2>2. CASE d = c /\ e # c
    BY <2>2, <1>1 DEF In
  <2>3. CASE d # c /\ e = c
    <3>1. In(n[e][q], k[d]) /\ n[e][q] = t[q] /\ q \in 1 .. Len(t)
      BY <2>3, <1>1 DEF In
    <3> QED BY <2>3, <3>1
  <2>4. CASE d # c /\ e # c
    BY <2>4, <1>0, <1>1 DEF Unshared
  <2> QED BY <2>1, <2>2, <2>3, <2>4
<1>8. Loose(g, n)
  <2>1. ASSUME NEW i \in Item, \A d \in Item : ~In(i, n[d])
        PROVE  g[i].next = NoItem /\ g[i].prev = NoItem
    <3>1. ~In(i, t) /\ \A d \in Item \ {c} : ~In(i, k[d])
      BY <1>1, <2>1
    <3>2. CASE In(i, k[c])
      BY <3>1, <3>2
    <3>3. CASE ~In(i, k[c])
      <4>1. h[i].next = NoItem /\ h[i].prev = NoItem
        BY <3>1, <3>3, <1>0 DEF Loose
      <4> QED BY <4>1, <3>1, <3>3
    <3> QED BY <3>2, <3>3
  <2>2. ASSUME NEW i \in Item, g[i].type = "free" PROVE g[i] = NewItem("free")
    <3>1. h[i].type = "free" /\ i # c
      BY <1>4, <2>2
    <3>2. h[i] = NewItem("free") /\ ~In(i, t) /\ ~In(i, k[c])
      BY <3>1, <1>0 DEF In, Loose, Forward
    <3>3. g[i].next = h[i].next /\ g[i].prev = h[i].prev /\ g[i].child = h[i].child
      BY <3>1, <3>2
    <3>4. g[i] \in Cell /\ h[i] \in Cell
      BY <1>0, MemoryCells
    <3> QED BY <3>2, <3>3, <3>4, CellsEqual
  <2> QED BY <2>1, <2>2 DEF Loose
<1>9. Names(g)
  BY <1>0 DEF Names, SameItem
<1> QED BY <1>1, <1>5, <1>6, <1>7, <1>8, <1>9 DEF Shape, n

-----------------------------------------------------------------------------
(***************************************************************************)
(* add_item_to_array.                                                      *)
(***************************************************************************)

\* i is allocated and in no list.
Unlisted(h, k, i) == i \in Item /\ h[i].type # "free" /\ \A d \in Item : ~In(i, k[d])

\* An assignment to next.
LEMMA SetNext ==
  ASSUME NEW h \in Memory, NEW i \in Item, NEW x \in Pointer
  PROVE  /\ [h EXCEPT ![i].next = x] \in Memory
         /\ \A j \in Item : /\ SameItem([h EXCEPT ![i].next = x][j], h[j])
                            /\ [h EXCEPT ![i].next = x][j].next = IF j = i THEN x ELSE h[j].next
                            /\ [h EXCEPT ![i].next = x][j].prev = h[j].prev
                            /\ [h EXCEPT ![i].next = x][j].child = h[j].child
BY DEF Memory, Cell, Pointer, SameItem

\* An assignment to prev.
LEMMA SetPrev ==
  ASSUME NEW h \in Memory, NEW i \in Item, NEW x \in Pointer
  PROVE  /\ [h EXCEPT ![i].prev = x] \in Memory
         /\ \A j \in Item : /\ SameItem([h EXCEPT ![i].prev = x][j], h[j])
                            /\ [h EXCEPT ![i].prev = x][j].prev = IF j = i THEN x ELSE h[j].prev
                            /\ [h EXCEPT ![i].prev = x][j].next = h[j].next
                            /\ [h EXCEPT ![i].prev = x][j].child = h[j].child
BY DEF Memory, Cell, Pointer, SameItem

\* An assignment to child.
LEMMA SetChild ==
  ASSUME NEW h \in Memory, NEW i \in Item, NEW x \in Pointer
  PROVE  /\ [h EXCEPT ![i].child = x] \in Memory
         /\ \A j \in Item : /\ SameItem([h EXCEPT ![i].child = x][j], h[j])
                            /\ [h EXCEPT ![i].child = x][j].child = IF j = i THEN x ELSE h[j].child
                            /\ [h EXCEPT ![i].child = x][j].next = h[j].next
                            /\ [h EXCEPT ![i].child = x][j].prev = h[j].prev
BY DEF Memory, Cell, Pointer, SameItem

\* add_item_to_array appends.
LEMMA AddedShape ==
  ASSUME NEW h, NEW k, Shape(h, k), NEW c \in Item, ~h[c].ref, h[c].type # "free",
         NEW i, Unlisted(h, k, i)
  PROVE  /\ Shape(AddItemToArray(h, c, i), [k EXCEPT ![c] = Append(k[c], i)])
         /\ Kept(AddItemToArray(h, c, i), h, c)
<1> DEFINE g == AddItemToArray(h, c, i)
           s == k[c]
           t == Append(s, i)
<1>0. h \in Memory /\ k \in Lists /\ Forward(h, k) /\ Backward(h, k) /\ Unshared(k) /\ Loose(h, k)
      /\ i \in Item
  BY DEF Shape, Unlisted
<1>1. /\ s \in Seq(Item) /\ Len(s) \in Nat
      /\ \A p \in 1 .. Len(s) : s[p] \in Item
      /\ s = <<>> <=> Len(s) = 0
      /\ s # <<>> => 1 \in 1 .. Len(s) /\ Len(s) \in 1 .. Len(s)
  BY <1>0, ListOf
<1>2. /\ t \in Seq(Item) /\ Len(t) = Len(s) + 1 /\ t[Len(s) + 1] = i
      /\ \A p \in 1 .. Len(s) : t[p] = s[p]
  BY <1>0, <1>1, AppendProperties
<1> HIDE DEF t
<1>3. ~In(i, s) /\ i \in Pointer /\ NoItem \in Pointer
  BY DEF Unlisted, Pointer
<1>4. /\ h[c].child = FirstOf(s)
      /\ \A p \in 1 .. Len(s) : h[s[p]].next = After(s, p) /\ h[s[p]].prev = Before(s, p)
  BY <1>0 DEF Forward, Backward
<1>5. \A p \in 1 .. Len(t) : p \in 1 .. Len(s) \/ (p = Len(s) + 1 /\ t[p] = i)
  BY <1>1, <1>2
<1>6. h[i].next = NoItem
  BY <1>0 DEF Unlisted, Loose
<1>7. /\ g \in Memory /\ \A j \in Item : SameItem(g[j], h[j])
      /\ \A j \in Item : g[j].child = IF j = c THEN FirstOf(t) ELSE h[j].child
      /\ \A p \in 1 .. Len(t) : g[t[p]].next = After(t, p) /\ g[t[p]].prev = Before(t, p)
      /\ \A j \in Item : In(j, s) /\ ~In(j, t) => g[j].next = NoItem /\ g[j].prev = NoItem
      /\ \A j \in Item : ~In(j, s) /\ ~In(j, t) => g[j].next = h[j].next /\ g[j].prev = h[j].prev
  <2>0. \A j \in Item : In(j, s) => In(j, t)
    BY <1>1, <1>2 DEF In
  <2>1. CASE s = <<>>
    <3>1. g = [[[h EXCEPT ![c].child = i] EXCEPT ![i].prev = i] EXCEPT ![i].next = NoItem]
      BY <2>1, <1>4 DEF AddItemToArray, FirstOf
    <3> DEFINE a == [h EXCEPT ![c].child = i]
               b == [a EXCEPT ![i].prev = i]
    <3>2. /\ a \in Memory
          /\ \A j \in Item : /\ SameItem(a[j], h[j]) /\ a[j].next = h[j].next /\ a[j].prev = h[j].prev
                             /\ a[j].child = IF j = c THEN i ELSE h[j].child
      BY <1>0, <1>3, SetChild, SMTT(30)
    <3> HIDE DEF a
    <3>3. /\ b \in Memory
          /\ \A j \in Item : /\ SameItem(b[j], a[j]) /\ b[j].next = a[j].next /\ b[j].child = a[j].child
                             /\ b[j].prev = IF j = i THEN i ELSE a[j].prev
      BY <1>0, <1>3, <3>2, SetPrev, SMTT(30)
    <3> HIDE DEF b
    <3>4. /\ g \in Memory
          /\ \A j \in Item : /\ SameItem(g[j], b[j]) /\ g[j].prev = b[j].prev /\ g[j].child = b[j].child
                             /\ g[j].next = IF j = i THEN NoItem ELSE b[j].next
      <4> DEFINE e == [b EXCEPT ![i].next = NoItem]
      <4>1. g = e
        BY <3>1 DEF a, b
      <4>2. /\ e \in Memory
            /\ \A j \in Item : /\ SameItem(e[j], b[j]) /\ e[j].prev = b[j].prev /\ e[j].child = b[j].child
                               /\ e[j].next = IF j = i THEN NoItem ELSE b[j].next
        BY <1>0, <1>3, <3>3, SetNext
      <4> HIDE DEF e, g
      <4> QED BY <4>1, <4>2
    <3> HIDE DEF g
    <3>5. \A j \in Item : SameItem(g[j], h[j])
      BY <3>2, <3>3, <3>4 DEF SameItem
    <3>6. t = <<i>> /\ Len(t) = 1 /\ t[1] = i
      BY <2>1, <1>1, <1>2, <1>0 DEF t
    <3>7. FirstOf(t) = i /\ \A p \in 1 .. Len(t) : t[p] = i /\ After(t, p) = NoItem /\ Before(t, p) = i
      BY <3>6 DEF FirstOf, After, Before
    <3>8. \A j \in Item : ~In(j, t) => j # i
      BY <3>6 DEF In
    <3> QED BY <2>0, <3>2, <3>3, <3>4, <3>5, <3>7, <3>8, <1>0
  <2>2. CASE s # <<>>
    <3> DEFINE f == s[1]
               l == s[Len(s)]
    <3>1. f \in Item /\ l \in Item /\ h[c].child = f /\ h[f].prev = l /\ f # NoItem /\ l # NoItem
          /\ f \in Pointer /\ l \in Pointer
      BY <2>2, <1>1, <1>4, ItemAssumption DEF FirstOf, Before, Pointer
    <3>2. g = [[[h EXCEPT ![l].next = i] EXCEPT ![i].prev = l] EXCEPT ![f].prev = i]
      BY <3>1 DEF AddItemToArray, SuffixObject
    <3> HIDE DEF f, l
    <3> DEFINE a == [h EXCEPT ![l].next = i]
               b == [a EXCEPT ![i].prev = l]
    <3>3. /\ a \in Memory
          /\ \A j \in Item : /\ SameItem(a[j], h[j]) /\ a[j].child = h[j].child /\ a[j].prev = h[j].prev
                             /\ a[j].next = IF j = l THEN i ELSE h[j].next
      BY <1>0, <1>3, <3>1, SetNext
    <3> HIDE DEF a
    <3>4. /\ b \in Memory
          /\ \A j \in Item : /\ SameItem(b[j], a[j]) /\ b[j].next = a[j].next /\ b[j].child = a[j].child
                             /\ b[j].prev = IF j = i THEN l ELSE a[j].prev
      BY <1>0, <1>3, <3>1, <3>3, SetPrev
    <3> HIDE DEF b
    <3>5. /\ g \in Memory
          /\ \A j \in Item : /\ SameItem(g[j], b[j]) /\ g[j].next = b[j].next /\ g[j].child = b[j].child
                             /\ g[j].prev = IF j = f THEN i ELSE b[j].prev
      <4> DEFINE e == [b EXCEPT ![f].prev = i]
      <4>1. g = e
        BY <3>2 DEF a, b
      <4>2. /\ e \in Memory
            /\ \A j \in Item : /\ SameItem(e[j], b[j]) /\ e[j].next = b[j].next /\ e[j].child = b[j].child
                               /\ e[j].prev = IF j = f THEN i ELSE b[j].prev
        BY <1>0, <1>3, <3>1, <3>4, SetPrev
      <4> HIDE DEF e, g
      <4> QED BY <4>1, <4>2
    <3> HIDE DEF g
    <3>6. \A j \in Item : SameItem(g[j], h[j])
      BY <3>3, <3>4, <3>5 DEF SameItem
    <3>7. FirstOf(t) = f /\ t # <<>>
      BY <1>1, <1>2, <2>2 DEF FirstOf, f
    <3>8. \A j \in Item : g[j].child = IF j = c THEN FirstOf(t) ELSE h[j].child
      BY <3>1, <3>3, <3>4, <3>5, <3>7
    <3>9. \A j \in Item : ~In(j, s) /\ ~In(j, t) => j # i /\ j # f /\ j # l
      BY <1>1, <1>2, <2>2 DEF In, f, l
    <3>10. \A j \in Item : ~In(j, s) /\ ~In(j, t) => g[j].next = h[j].next /\ g[j].prev = h[j].prev
      BY <3>3, <3>4, <3>5, <3>9
    <3>11. i # f /\ i # l
      BY <1>1, <1>3, <2>2 DEF In, f, l
    <3>12. ASSUME NEW p \in 1 .. Len(t)
           PROVE  g[t[p]].next = After(t, p) /\ g[t[p]].prev = Before(t, p)
      <4>1. CASE p = Len(s) + 1
        <5>1. t[p] = i /\ g[i].next = NoItem /\ g[i].prev = l
          BY <4>1, <1>0, <1>2, <1>6, <3>3, <3>4, <3>5, <3>11
        <5>2. After(t, p) = NoItem /\ Before(t, p) = l
          BY <4>1, <1>1, <1>2, <2>2 DEF After, Before, l
        <5> QED BY <5>1, <5>2
      <4>2. CASE p \in 1 .. Len(s)
        <5>1. t[p] = s[p] /\ s[p] \in Item /\ s[p] # i
          BY <4>2, <1>1, <1>2, <1>3 DEF In
        <5>2. h[s[p]].next = After(s, p) /\ h[s[p]].prev = Before(s, p)
          BY <4>2, <1>4
        <5>3. s[p] = f <=> p = 1
          BY <4>2, <1>0, <1>1 DEF f, Unshared
        <5>4. s[p] = l <=> p = Len(s)
          BY <4>2, <1>0, <1>1 DEF l, Unshared
        <5>5. After(t, p) = IF p = Len(s) THEN i ELSE After(s, p)
          BY <4>2, <1>1, <1>2, SMTT(30) DEF After
        <5>6. Before(t, p) = IF p = 1 THEN i ELSE Before(s, p)
          BY <4>2, <1>1, <1>2, SMTT(30) DEF Before
        <5>7. g[s[p]].next = IF s[p] = l THEN i ELSE h[s[p]].next
          BY <5>1, <3>3, <3>4, <3>5
        <5>8. g[s[p]].prev = IF s[p] = f THEN i ELSE h[s[p]].prev
          BY <5>1, <3>3, <3>4, <3>5
        <5> QED BY <5>1, <5>2, <5>3, <5>4, <5>5, <5>6, <5>7, <5>8
      <4> QED BY <4>1, <4>2, <1>5
    <3> QED BY <2>0, <3>5, <3>6, <3>8, <3>10, <3>12
  <2> QED BY <2>1, <2>2
<1>8. Distinct(t)
  <2>1. Distinct(s)
    BY <1>0 DEF Unshared, Distinct
  <2> QED BY <2>1, <1>1, <1>2, <1>3, <1>5 DEF Distinct, In
<1>9. \A p \in 1 .. Len(t) : h[t[p]].type # "free"
  BY <1>0, <1>2, <1>5 DEF Unlisted, Forward
<1>10. \A d \in Item \ {c} : \A p \in 1 .. Len(t) : ~In(t[p], k[d])
  BY <1>0, <1>2, <1>5 DEF Unlisted, In, Unshared
<1> HIDE DEF g
<1>11. Shape(g, [k EXCEPT ![c] = t])
  BY <1>0, <1>2, <1>7, <1>8, <1>9, <1>10, Relist, SMTT(30)
<1>12. Kept(g, h, c)
  BY <1>7 DEF Kept
<1> QED BY <1>11, <1>12 DEF g, t

-----------------------------------------------------------------------------
(***************************************************************************)
(* cJSON_DetachItemViaPointer.                                             *)
(***************************************************************************)

\* An assignment to next, if b.
NextSet(g, h, b, i, x) ==
  /\ g \in Memory
  /\ \A j \in Item : /\ SameItem(g[j], h[j]) /\ g[j].prev = h[j].prev /\ g[j].child = h[j].child
                     /\ g[j].next = IF b /\ j = i THEN x ELSE h[j].next

\* An assignment to prev, if b.
PrevSet(g, h, b, i, x) ==
  /\ g \in Memory
  /\ \A j \in Item : /\ SameItem(g[j], h[j]) /\ g[j].next = h[j].next /\ g[j].child = h[j].child
                     /\ g[j].prev = IF b /\ j = i THEN x ELSE h[j].prev

\* An assignment to child, if b.
ChildSet(g, h, b, i, x) ==
  /\ g \in Memory
  /\ \A j \in Item : /\ SameItem(g[j], h[j]) /\ g[j].next = h[j].next /\ g[j].prev = h[j].prev
                     /\ g[j].child = IF b /\ j = i THEN x ELSE h[j].child

\* An assignment under an if of the code.
LEMMA MaybeNext ==
  ASSUME NEW h \in Memory, NEW b \in BOOLEAN, NEW i, NEW x, b => i \in Item /\ x \in Pointer,
         NEW g, g = IF b THEN [h EXCEPT ![i].next = x] ELSE h
  PROVE  NextSet(g, h, b, i, x)
<1>1. CASE b
  <2>0. i \in Item /\ x \in Pointer
    BY <1>1
  <2> DEFINE e == [h EXCEPT ![i].next = x]
  <2>1. /\ e \in Memory
        /\ \A j \in Item : /\ SameItem(e[j], h[j]) /\ e[j].prev = h[j].prev /\ e[j].child = h[j].child
                           /\ e[j].next = IF j = i THEN x ELSE h[j].next
    BY ONLY <2>0, h \in Memory, SetNext
  <2>2. g = e
    BY <1>1
  <2> HIDE DEF e
  <2> QED BY <1>1, <2>1, <2>2 DEF NextSet
<1>2. CASE ~b
  BY <1>2 DEF NextSet, SameItem
<1> QED BY <1>1, <1>2

\* An assignment under an if of the code.
LEMMA MaybePrev ==
  ASSUME NEW h \in Memory, NEW b \in BOOLEAN, NEW i, NEW x, b => i \in Item /\ x \in Pointer,
         NEW g, g = IF b THEN [h EXCEPT ![i].prev = x] ELSE h
  PROVE  PrevSet(g, h, b, i, x)
<1>1. CASE b
  <2>0. i \in Item /\ x \in Pointer
    BY <1>1
  <2> DEFINE e == [h EXCEPT ![i].prev = x]
  <2>1. /\ e \in Memory
        /\ \A j \in Item : /\ SameItem(e[j], h[j]) /\ e[j].next = h[j].next /\ e[j].child = h[j].child
                           /\ e[j].prev = IF j = i THEN x ELSE h[j].prev
    BY ONLY <2>0, h \in Memory, SetPrev
  <2>2. g = e
    BY <1>1
  <2> HIDE DEF e
  <2> QED BY <1>1, <2>1, <2>2 DEF PrevSet
<1>2. CASE ~b
  BY <1>2 DEF PrevSet, SameItem
<1> QED BY <1>1, <1>2

\* An assignment under an if of the code.
LEMMA MaybeChild ==
  ASSUME NEW h \in Memory, NEW b \in BOOLEAN, NEW i, NEW x, b => i \in Item /\ x \in Pointer,
         NEW g, g = IF b THEN [h EXCEPT ![i].child = x] ELSE h
  PROVE  ChildSet(g, h, b, i, x)
<1>1. CASE b
  <2>0. i \in Item /\ x \in Pointer
    BY <1>1
  <2> DEFINE e == [h EXCEPT ![i].child = x]
  <2>1. /\ e \in Memory
        /\ \A j \in Item : /\ SameItem(e[j], h[j]) /\ e[j].next = h[j].next /\ e[j].prev = h[j].prev
                           /\ e[j].child = IF j = i THEN x ELSE h[j].child
    BY ONLY <2>0, h \in Memory, SetChild
  <2>2. g = e
    BY <1>1
  <2> HIDE DEF e
  <2> QED BY <1>1, <2>1, <2>2 DEF ChildSet
<1>2. CASE ~b
  BY <1>2 DEF ChildSet, SameItem
<1> QED BY <1>1, <1>2

\* The items of a sequence without its q-th.
LEMMA RemoveAtIs ==
  ASSUME NEW s \in Seq(Item), NEW q \in 1 .. Len(s)
  PROVE  /\ RemoveAt(s, q) \in Seq(Item) /\ Len(RemoveAt(s, q)) = Len(s) - 1
         /\ \A p \in 1 .. Len(s) - 1 : RemoveAt(s, q)[p] = IF p < q THEN s[p] ELSE s[p + 1]
<1> DEFINE a == SubSeq(s, 1, q - 1)
           b == SubSeq(s, q + 1, Len(s))
<1>0. Len(s) \in Nat /\ \A p \in 1 .. Len(s) : s[p] \in Item
  BY LenProperties, ElementOfSeq
<1>1. /\ a \in Seq(Item) /\ Len(a) = q - 1
      /\ \A p \in 1 .. q - 1 : a[p] = s[p]
  <2>1. \A p \in 1 .. q - 1 : s[p] \in Item
    BY <1>0
  <2>2. q - 1 \in Int /\ 1 \in Int
    BY <1>0
  <2>3. /\ a \in Seq(Item)
        /\ Len(a) = IF 1 <= q - 1 THEN q - 1 - 1 + 1 ELSE 0
        /\ \A p \in 1 .. q - 1 - 1 + 1 : a[p] = s[1 + p - 1]
    BY <2>1, <2>2, SubSeqProperties
  <2> HIDE DEF a
  <2> QED BY <1>0, <2>3
<1>2. /\ b \in Seq(Item) /\ Len(b) = Len(s) - q
      /\ \A p \in 1 .. Len(s) - q : b[p] = s[q + p]
  <2>1. \A p \in q + 1 .. Len(s) : s[p] \in Item
    BY <1>0
  <2>2. q + 1 \in Int /\ Len(s) \in Int
    BY <1>0
  <2>3. /\ b \in Seq(Item)
        /\ Len(b) = IF q + 1 <= Len(s) THEN Len(s) - (q + 1) + 1 ELSE 0
        /\ \A p \in 1 .. Len(s) - (q + 1) + 1 : b[p] = s[(q + 1) + p - 1]
    BY <2>1, <2>2, SubSeqProperties
  <2> HIDE DEF b
  <2> QED BY <1>0, <2>3
<1> HIDE DEF a, b
<1>3. /\ a \o b \in Seq(Item) /\ Len(a \o b) = Len(a) + Len(b)
      /\ \A p \in 1 .. Len(a) + Len(b) : (a \o b)[p] = IF p <= Len(a) THEN a[p] ELSE b[p - Len(a)]
  BY <1>1, <1>2, ConcatProperties
<1>4. RemoveAt(s, q) = a \o b
  BY DEF RemoveAt, a, b
<1> DEFINE t == a \o b
<1> HIDE DEF t
<1>5. t \in Seq(Item) /\ Len(t) = Len(s) - 1
      /\ \A p \in 1 .. Len(s) - 1 : t[p] = IF p <= q - 1 THEN a[p] ELSE b[p - (q - 1)]
  BY <1>0, <1>1, <1>2, <1>3 DEF t
<1>6. ASSUME NEW p \in 1 .. Len(s) - 1 PROVE t[p] = IF p < q THEN s[p] ELSE s[p + 1]
  <2>1. CASE p < q
    BY <1>0, <1>1, <1>5, <2>1
  <2>2. CASE ~(p < q)
    <3>1. p - (q - 1) \in 1 .. Len(s) - q /\ q + (p - (q - 1)) = p + 1
      BY <1>0, <2>2
    <3> QED BY <1>0, <1>2, <1>5, <2>2, <3>1
  <2> QED BY <2>1, <2>2
<1> QED BY <1>4, <1>5, <1>6 DEF t

\* All that is known of the list of c.
LEMMA ListFacts ==
  ASSUME NEW h, NEW k, Shape(h, k), NEW c \in Item, ~h[c].ref, NEW s, s = k[c]
  PROVE  /\ s \in Seq(Item) /\ Len(s) \in Nat /\ Distinct(s)
         /\ s = <<>> <=> Len(s) = 0
         /\ h[c].child = FirstOf(s) /\ h[c].child \in Pointer
         /\ \A p \in 1 .. Len(s) :
              /\ s[p] \in Item /\ s[p] # NoItem /\ s[p] \in Pointer
              /\ h[s[p]].type # "free"
              /\ h[s[p]].next = After(s, p) /\ h[s[p]].prev = Before(s, p)
              /\ h[s[p]].next \in Pointer /\ h[s[p]].prev \in Pointer
         /\ \A d \in Item \ {c} : \A p \in 1 .. Len(s) : ~In(s[p], k[d])
<1>0. h \in Memory /\ k \in Lists /\ Forward(h, k) /\ Backward(h, k) /\ Unshared(k)
  BY DEF Shape
<1>1. s \in Seq(Item) /\ Len(s) \in Nat /\ Distinct(s) /\ (s = <<>> <=> Len(s) = 0)
  BY <1>0, ListOf DEF Unshared, Distinct
<1>2. h[c].child = FirstOf(s) /\ h[c].child \in Pointer
  BY <1>0, MemoryCells DEF Forward
<1>3. ASSUME NEW p \in 1 .. Len(s)
      PROVE  /\ s[p] \in Item /\ s[p] # NoItem /\ s[p] \in Pointer
             /\ h[s[p]].type # "free"
             /\ h[s[p]].next = After(s, p) /\ h[s[p]].prev = Before(s, p)
             /\ h[s[p]].next \in Pointer /\ h[s[p]].prev \in Pointer
             /\ \A d \in Item \ {c} : ~In(s[p], k[d])
  <2>1. s[p] \in Item /\ s[p] # NoItem /\ s[p] \in Pointer
    BY <1>0, ListOf, ItemAssumption DEF Pointer
  <2>2. h[s[p]].next \in Pointer /\ h[s[p]].prev \in Pointer
    BY <1>0, <2>1, MemoryCells
  <2> QED BY <1>0, <2>1, <2>2 DEF Forward, Backward, In, Unshared
<1> QED BY <1>1, <1>2, <1>3

\* cJSON_DetachItemViaPointer removes the q-th item.
LEMMA DetachedShape ==
  ASSUME NEW h, NEW k, Shape(h, k), NEW c \in Item, ~h[c].ref, h[c].type # "free",
         NEW q \in 1 .. Len(k[c])
  PROVE  /\ Shape(DetachItemViaPointer(h, c, k[c][q]), [k EXCEPT ![c] = RemoveAt(k[c], q)])
         /\ Kept(DetachItemViaPointer(h, c, k[c][q]), h, c)
<1> DEFINE s == k[c]
           i == s[q]
           t == RemoveAt(s, q)
<1>0. h \in Memory /\ k \in Lists
  BY DEF Shape
<1>1. /\ s \in Seq(Item) /\ Len(s) \in Nat /\ Distinct(s) /\ s # <<>>
      /\ h[c].child = s[1] /\ q \in 1 .. Len(s)
      /\ \A p \in 1 .. Len(s) :
              /\ s[p] \in Item /\ s[p] # NoItem /\ s[p] \in Pointer
              /\ h[s[p]].type # "free"
              /\ h[s[p]].next = After(s, p) /\ h[s[p]].prev = Before(s, p)
              /\ h[s[p]].next \in Pointer /\ h[s[p]].prev \in Pointer
      /\ \A d \in Item \ {c} : \A p \in 1 .. Len(s) : ~In(s[p], k[d])
  BY ListFacts DEF FirstOf
<1>2. /\ t \in Seq(Item) /\ Len(t) = Len(s) - 1
      /\ \A p \in 1 .. Len(s) - 1 : t[p] = IF p < q THEN s[p] ELSE s[p + 1]
  BY <1>1, RemoveAtIs
<1> HIDE DEF s, t
<1>3. i \in Item /\ \A p \in 1 .. Len(s) : s[p] = i <=> p = q
  BY <1>1 DEF Distinct
<1> HIDE DEF i
<1> DEFINE first == h[c].child = i
           h1 == IF first THEN h ELSE [h EXCEPT ![h[i].prev].next = h[i].next]
           h2 == IF h1[i].next = NoItem THEN h1
                 ELSE [h1 EXCEPT ![h1[i].next].prev = h1[i].prev]
           h3 == IF first THEN [h2 EXCEPT ![c].child = h2[i].next]
                 ELSE IF h2[i].next # NoItem THEN h2
                 ELSE [h2 EXCEPT ![h2[c].child].prev = h2[i].prev]
           h4 == [h3 EXCEPT ![i].prev = NoItem]
           g == [h4 EXCEPT ![i].next = NoItem]
<1>4. DetachItemViaPointer(h, c, i) = g
  BY DEF DetachItemViaPointer
<1>5. first <=> q = 1
  BY <1>1, <1>3
<1>6. h[i].next = After(s, q) /\ h[i].prev = Before(s, q) /\ h[i].next \in Pointer /\ h[i].prev \in Item
  BY <1>1 DEF i, Before
<1>7. NextSet(h1, h, ~first, h[i].prev, h[i].next)
  <2> DEFINE b == ~first
             x == h[i].prev
             y == h[i].next
  <2>1. h1 = IF b THEN [h EXCEPT ![x].next = y] ELSE h
    OBVIOUS
  <2>2. b \in BOOLEAN /\ (b => x \in Item /\ y \in Pointer)
    BY <1>6, <1>1
  <2> HIDE DEF h1, b, x, y
  <2>3. NextSet(h1, h, b, x, y)
    BY <1>0, <2>1, <2>2, MaybeNext
  <2> QED BY <2>3 DEF b, x, y
<1> HIDE DEF h1
<1>8. h1 \in Memory /\ h1[i].next = h[i].next /\ h1[i].prev = h[i].prev
  <2>1. ~first => h[i].prev # i
    BY <1>1, <1>3, <1>5, <1>6 DEF Before
  <2> HIDE DEF first
  <2> QED BY <1>3, <1>7, <2>1 DEF NextSet
<1>9. PrevSet(h2, h1, h[i].next # NoItem, h[i].next, h[i].prev)
  <2> DEFINE b == h[i].next # NoItem
             x == h[i].next
             y == h[i].prev
  <2>1. h2 = IF b THEN [h1 EXCEPT ![x].prev = y] ELSE h1
    BY <1>8
  <2>2. b \in BOOLEAN /\ (b => x \in Item /\ y \in Pointer)
    BY <1>6 DEF Pointer
  <2> HIDE DEF h2, b, x, y
  <2>3. PrevSet(h2, h1, b, x, y)
    BY <1>8, <2>1, <2>2, MaybePrev
  <2> QED BY <2>3 DEF b, x, y
<1> HIDE DEF h2
<1>10. h2 \in Memory /\ h2[i].next = h[i].next /\ h2[c].child = s[1]
       /\ (h[i].next # i => h2[i].prev = h[i].prev)
  BY <1>1, <1>3, <1>7, <1>8, <1>9 DEF NextSet, PrevSet
<1>11. h[i].next # i
  BY <1>1, <1>3, <1>6, ItemAssumption DEF After
<1>12. /\ h3 \in Memory
       /\ \A j \in Item : /\ SameItem(h3[j], h2[j]) /\ h3[j].next = h2[j].next
                          /\ h3[j].child = IF q = 1 /\ j = c THEN h[i].next ELSE h2[j].child
                          /\ h3[j].prev = IF q # 1 /\ h[i].next = NoItem /\ j = s[1] THEN h[i].prev ELSE h2[j].prev
  <2>1. CASE q = 1
    <3> DEFINE x == h[i].next
    <3>1. h3 = IF TRUE THEN [h2 EXCEPT ![c].child = x] ELSE h2
      BY <2>1, <1>5, <1>10
    <3> HIDE DEF h3, x
    <3>2. ChildSet(h3, h2, TRUE, c, x)
      <4>1. x \in Pointer
        BY <1>6 DEF x
      <4> QED BY <1>10, <3>1, <4>1, MaybeChild
    <3> QED BY <2>1, <3>2 DEF ChildSet, x
  <2>2. CASE q # 1
    <3> DEFINE x == h[i].prev
               b == h[i].next = NoItem
               f == s[1]
    <3>1. h3 = IF b THEN [h2 EXCEPT ![f].prev = x] ELSE h2
      BY <2>2, <1>5, <1>10, <1>11
    <3>2. x \in Pointer /\ b \in BOOLEAN /\ f \in Item
      BY <1>1, <1>6 DEF Pointer
    <3> HIDE DEF h3, x, b, f
    <3>3. PrevSet(h3, h2, b, f, x)
      BY <1>10, <3>1, <3>2, MaybePrev
    <3> QED BY <2>2, <3>3 DEF PrevSet, x, b, f
  <2> QED BY <2>1, <2>2
<1> HIDE DEF h3
<1>13. PrevSet(h4, h3, TRUE, i, NoItem)
  <2>1. h4 = IF TRUE THEN [h3 EXCEPT ![i].prev = NoItem] ELSE h3
    OBVIOUS
  <2>2. NoItem \in Pointer
    BY DEF Pointer
  <2> HIDE DEF h4
  <2> QED BY <1>3, <1>12, <2>1, <2>2, MaybePrev
<1> HIDE DEF h4
<1>14. NextSet(g, h4, TRUE, i, NoItem)
  <2>1. g = IF TRUE THEN [h4 EXCEPT ![i].next = NoItem] ELSE h4
    OBVIOUS
  <2>2. NoItem \in Pointer /\ h4 \in Memory
    BY <1>13 DEF Pointer, PrevSet
  <2> HIDE DEF g
  <2> QED BY <1>3, <2>1, <2>2, MaybeNext
<1> HIDE DEF g
<1>15. /\ g \in Memory
       /\ \A j \in Item :
            /\ SameItem(g[j], h[j])
            /\ g[j].child = IF q = 1 /\ j = c THEN After(s, q) ELSE h[j].child
            /\ g[j].next = IF j = i THEN NoItem
                           ELSE IF q # 1 /\ j = s[q - 1] THEN After(s, q) ELSE h[j].next
            /\ g[j].prev = IF j = i THEN NoItem
                           ELSE IF q # 1 /\ q = Len(s) /\ j = s[1] THEN s[q - 1]
                           ELSE IF q # Len(s) /\ j = s[q + 1] THEN Before(s, q) ELSE h[j].prev
  <2>1. g \in Memory
    BY <1>14 DEF NextSet
  <2>2. \A j \in Item : SameItem(g[j], h[j])
    BY <1>7, <1>9, <1>12, <1>13, <1>14 DEF NextSet, PrevSet, SameItem
  <2>3. h[i].next = NoItem <=> q = Len(s)
    BY <1>1, <1>6 DEF After
  <2>4. \A j \in Item : g[j].child = IF q = 1 /\ j = c THEN After(s, q) ELSE h[j].child
    BY <1>6, <1>7, <1>9, <1>12, <1>13, <1>14 DEF NextSet, PrevSet
  <2>5. q # 1 => h[i].prev = s[q - 1]
    BY <1>6 DEF Before
  <2>6. q # Len(s) => h[i].next = s[q + 1]
    BY <1>6 DEF After
  <2>7. ASSUME NEW j \in Item
        PROVE  g[j].next = IF j = i THEN NoItem
                           ELSE IF q # 1 /\ j = s[q - 1] THEN After(s, q) ELSE h[j].next
    BY <1>5, <1>6, <1>7, <1>9, <1>12, <1>13, <1>14, <2>5 DEF NextSet, PrevSet
  <2>8. ASSUME NEW j \in Item
        PROVE  g[j].prev = IF j = i THEN NoItem
                           ELSE IF q # 1 /\ q = Len(s) /\ j = s[1] THEN s[q - 1]
                           ELSE IF q # Len(s) /\ j = s[q + 1] THEN Before(s, q) ELSE h[j].prev
    BY <1>5, <1>6, <1>7, <1>9, <1>12, <1>13, <1>14, <2>3, <2>5, <2>6 DEF NextSet, PrevSet
  <2> QED BY <2>1, <2>2, <2>4, <2>7, <2>8
<1>16. ~In(i, t)
  BY <1>1, <1>2, <1>3 DEF In
<1>17. \A j \in Item : In(j, s) <=> In(j, t) \/ j = i
  <2>1. In(i, s)
    BY <1>1, <1>3 DEF In
  <2>2. ASSUME NEW j \in Item, In(j, t) PROVE In(j, s)
    BY <2>2, <1>1, <1>2 DEF In
  <2>3. ASSUME NEW j \in Item, In(j, s), j # i PROVE In(j, t)
    <3>1. PICK p \in 1 .. Len(s) : s[p] = j
      BY <2>3 DEF In
    <3>2. p # q
      BY <1>3, <2>3, <3>1
    <3>3. CASE p < q
      <4>1. p \in 1 .. Len(t) /\ t[p] = j
        BY <1>1, <1>2, <3>1, <3>3
      <4> QED BY <4>1 DEF In
    <3>4. CASE p > q
      <4>1. p - 1 \in 1 .. Len(t) /\ t[p - 1] = s[(p - 1) + 1] /\ (p - 1) + 1 = p
        BY <1>1, <1>2, <3>1, <3>4
      <4> QED BY <3>1, <4>1 DEF In
    <3> QED BY <3>2, <3>3, <3>4, <1>1
  <2> QED BY <2>1, <2>2, <2>3
<1>18. FirstOf(t) = IF q = 1 THEN After(s, q) ELSE s[1]
  <2>1. CASE Len(s) = 1
    <3>1. t = <<>> /\ q = 1
      BY <2>1, <1>1, <1>2, EmptySeq
    <3> QED BY <2>1, <3>1 DEF FirstOf, After
  <2>2. CASE Len(s) # 1
    <3>1. Len(s) > 1 /\ t # <<>> /\ t[1] = IF 1 < q THEN s[1] ELSE s[2]
      BY <2>2, <1>1, <1>2, EmptySeq
    <3> QED BY <3>1, <1>1 DEF FirstOf, After
  <2> QED BY <2>1, <2>2
<1>19. ASSUME NEW p \in 1 .. Len(t)
       PROVE  /\ h[t[p]].type # "free" /\ t[p] \in Item
              /\ g[t[p]].next = After(t, p) /\ g[t[p]].prev = Before(t, p)
              /\ \A d \in Item \ {c} : ~In(t[p], k[d])
  <2>1. CASE p < q
    <3>1. t[p] = s[p] /\ p \in 1 .. Len(s) /\ q # 1 /\ s[p] # i
      BY <2>1, <1>1, <1>2, <1>3
    <3>2. s[p] = s[q - 1] <=> p = q - 1
      BY <3>1, <1>1 DEF Distinct
    <3>3. s[p] = s[1] <=> p = 1
      BY <3>1, <1>1 DEF Distinct
    <3>4. q # Len(s) => s[p] # s[q + 1]
      BY <2>1, <3>1, <1>1 DEF Distinct
    <3>5. After(t, p) = IF p = q - 1 THEN After(s, q) ELSE After(s, p)
      BY <2>1, <1>1, <1>2, SMTT(30) DEF After
    <3>6. Before(t, p) = IF p = 1 /\ q = Len(s) THEN s[q - 1] ELSE Before(s, p)
      BY <2>1, <1>1, <1>2, SMTT(30) DEF Before
    <3> QED BY <3>1, <3>2, <3>3, <3>4, <3>5, <3>6, <1>1, <1>15, SMTT(30)
  <2>2. CASE ~(p < q)
    <3>1. t[p] = s[p + 1] /\ p + 1 \in 1 .. Len(s) /\ q # Len(s) /\ s[p + 1] # i /\ p + 1 # 1
      BY <2>2, <1>1, <1>2, <1>3
    <3>2. q # 1 => s[p + 1] # s[q - 1]
      BY <2>2, <3>1, <1>1 DEF Distinct
    <3>3. s[p + 1] = s[q + 1] <=> p = q
      BY <3>1, <1>1 DEF Distinct
    <3>4. After(t, p) = After(s, p + 1)
      BY <2>2, <1>1, <1>2 DEF After
    <3>5. Before(t, p) = IF p = q THEN Before(s, q) ELSE Before(s, p + 1)
      BY <2>2, <1>1, <1>2 DEF Before
    <3> QED BY <3>1, <3>2, <3>3, <3>4, <3>5, <1>1, <1>15
  <2> QED BY <2>1, <2>2
<1>20. Distinct(t)
  <2> SUFFICES ASSUME NEW p \in 1 .. Len(t), NEW r \in 1 .. Len(t), t[p] = t[r] PROVE p = r
    BY DEF Distinct
  <2> QED BY <1>1, <1>2 DEF Distinct
<1>21. \A j \in Item : g[j].child = IF j = c THEN FirstOf(t) ELSE h[j].child
  BY <1>1, <1>15, <1>18
<1>22. \A j \in Item : In(j, s) /\ ~In(j, t) => g[j].next = NoItem /\ g[j].prev = NoItem
  BY <1>15, <1>17
<1>23. \A j \in Item : ~In(j, s) /\ ~In(j, t) => g[j].next = h[j].next /\ g[j].prev = h[j].prev
  <2>1. (q # 1 => In(s[q - 1], s)) /\ In(s[1], s) /\ (q # Len(s) => In(s[q + 1], s)) /\ In(i, s)
    <3>1. \A p \in 1 .. Len(s) : In(s[p], s)
      BY DEF In
    <3>2. (q # 1 => q - 1 \in 1 .. Len(s)) /\ 1 \in 1 .. Len(s) /\ (q # Len(s) => q + 1 \in 1 .. Len(s))
      BY <1>1
    <3>3. In(i, s)
      BY <1>3, <1>17
    <3> QED BY <3>1, <3>2, <3>3
  <2> QED BY <1>15, <2>1
<1>24. Shape(g, [k EXCEPT ![c] = t])
  <2>1. g \in Memory /\ \A j \in Item : SameItem(g[j], h[j])
    BY <1>15
  <2>2. \A p \in 1 .. Len(t) : h[t[p]].type # "free"
    BY <1>19
  <2>3. \A d \in Item \ {c} : \A p \in 1 .. Len(t) : ~In(t[p], k[d])
    BY <1>19
  <2>4. \A p \in 1 .. Len(t) : g[t[p]].next = After(t, p) /\ g[t[p]].prev = Before(t, p)
    BY <1>19
  <2>5. t \in Seq(Item)
    BY <1>2
  <2> HIDE DEF first
  <2> QED BY <2>1, <2>2, <2>3, <2>4, <2>5, <1>20, <1>21, <1>22, <1>23, Relist DEF s
<1>25. Kept(g, h, c)
  BY <1>15 DEF Kept
<1> QED BY <1>4, <1>24, <1>25 DEF s, t, i

-----------------------------------------------------------------------------
(***************************************************************************)
(* cJSON_InsertItemInArray.                                                *)
(***************************************************************************)

\* The items of a sequence with one more at q.
LEMMA InsertAtIs ==
  ASSUME NEW s \in Seq(Item), NEW q \in 1 .. Len(s) + 1, NEW i \in Item
  PROVE  /\ InsertAt(s, q, i) \in Seq(Item) /\ Len(InsertAt(s, q, i)) = Len(s) + 1
         /\ \A p \in 1 .. Len(s) + 1 :
              InsertAt(s, q, i)[p] = IF p < q THEN s[p] ELSE IF p = q THEN i ELSE s[p - 1]
<1> DEFINE a == SubSeq(s, 1, q - 1)
           b == SubSeq(s, q, Len(s))
<1>0. Len(s) \in Nat /\ \A p \in 1 .. Len(s) : s[p] \in Item
  BY LenProperties, ElementOfSeq
<1>1. /\ a \in Seq(Item) /\ Len(a) = q - 1
      /\ \A p \in 1 .. q - 1 : a[p] = s[p]
  <2>1. \A p \in 1 .. q - 1 : s[p] \in Item
    BY <1>0
  <2>2. q - 1 \in Int /\ 1 \in Int
    BY <1>0
  <2>3. /\ a \in Seq(Item)
        /\ Len(a) = IF 1 <= q - 1 THEN q - 1 - 1 + 1 ELSE 0
        /\ \A p \in 1 .. q - 1 - 1 + 1 : a[p] = s[1 + p - 1]
    BY <2>1, <2>2, SubSeqProperties
  <2> HIDE DEF a
  <2> QED BY <1>0, <2>3
<1>2. /\ b \in Seq(Item) /\ Len(b) = Len(s) - q + 1
      /\ \A p \in 1 .. Len(s) - q + 1 : b[p] = s[q + p - 1]
  <2>1. \A p \in q .. Len(s) : s[p] \in Item
    BY <1>0
  <2>2. q \in Int /\ Len(s) \in Int
    BY <1>0
  <2>3. /\ b \in Seq(Item)
        /\ Len(b) = IF q <= Len(s) THEN Len(s) - q + 1 ELSE 0
        /\ \A p \in 1 .. Len(s) - q + 1 : b[p] = s[q + p - 1]
    BY <2>1, <2>2, SubSeqProperties
  <2> HIDE DEF b
  <2> QED BY <1>0, <2>3
<1> HIDE DEF a, b
<1>3. <<i>> \in Seq(Item) /\ Len(<<i>>) = 1 /\ <<i>>[1] = i
  OBVIOUS
<1> DEFINE e == a \o <<i>>
<1>4. /\ e \in Seq(Item) /\ Len(e) = q
      /\ \A p \in 1 .. q : e[p] = IF p < q THEN s[p] ELSE i
  <2>1. /\ e \in Seq(Item) /\ Len(e) = Len(a) + Len(<<i>>)
        /\ \A p \in 1 .. Len(a) + Len(<<i>>) : e[p] = IF p <= Len(a) THEN a[p] ELSE <<i>>[p - Len(a)]
    BY <1>1, <1>3, ConcatProperties
  <2> HIDE DEF e
  <2>2. ASSUME NEW p \in 1 .. q PROVE e[p] = IF p < q THEN s[p] ELSE i
    <3>1. CASE p < q
      BY <3>1, <2>1, <1>0, <1>1, <1>3
    <3>2. CASE p = q
      <4>1. p - Len(a) = 1 /\ p \in 1 .. Len(a) + Len(<<i>>) /\ ~(p <= Len(a))
        BY <3>2, <1>0, <1>1, <1>3
      <4> QED BY <3>2, <4>1, <2>1, <1>3
    <3> QED BY <3>1, <3>2, <1>0
  <2> QED BY <2>1, <2>2, <1>0, <1>1, <1>3
<1> HIDE DEF e
<1> DEFINE t == e \o b
<1>5. InsertAt(s, q, i) = t
  BY DEF InsertAt, a, b, e
<1>6. /\ t \in Seq(Item) /\ Len(t) = Len(e) + Len(b)
      /\ \A p \in 1 .. Len(e) + Len(b) : t[p] = IF p <= Len(e) THEN e[p] ELSE b[p - Len(e)]
  BY <1>2, <1>4, ConcatProperties
<1> HIDE DEF t
<1>7. ASSUME NEW p \in 1 .. Len(s) + 1
      PROVE  t[p] = IF p < q THEN s[p] ELSE IF p = q THEN i ELSE s[p - 1]
  <2>1. CASE p <= q
    BY <1>0, <1>2, <1>4, <1>6, <2>1
  <2>2. CASE ~(p <= q)
    <3>1. p - q \in 1 .. Len(s) - q + 1 /\ q + (p - q) - 1 = p - 1
      BY <1>0, <2>2
    <3>2. t[p] = b[p - q]
      BY <1>0, <1>2, <1>4, <1>6, <2>2
    <3>3. b[p - q] = s[q + (p - q) - 1]
      BY <1>2, <3>1
    <3> QED BY <1>0, <2>2, <3>1, <3>2, <3>3
  <2> QED BY <2>1, <2>2
<1> QED BY <1>0, <1>2, <1>4, <1>5, <1>6, <1>7

\* The items of a sequence with another at q.
LEMMA ReplaceAtIs ==
  ASSUME NEW s \in Seq(Item), NEW q \in 1 .. Len(s), NEW i \in Item
  PROVE  /\ ReplaceAt(s, q, i) \in Seq(Item) /\ Len(ReplaceAt(s, q, i)) = Len(s)
         /\ \A p \in 1 .. Len(s) : ReplaceAt(s, q, i)[p] = IF p = q THEN i ELSE s[p]
BY ExceptSeq DEF ReplaceAt

\* cJSON_InsertItemInArray inserts in front of the q-th item.
LEMMA InsertedShape ==
  ASSUME NEW h, NEW k, Shape(h, k), NEW c \in Item, ~h[c].ref, h[c].type # "free",
         NEW q \in 1 .. Len(k[c]), NEW i, Unlisted(h, k, i),
         GetArrayItem(h, c, q) = k[c][q]
  PROVE  /\ Shape(InsertItemInArray(h, c, q, i), [k EXCEPT ![c] = InsertAt(k[c], q, i)])
         /\ Kept(InsertItemInArray(h, c, q, i), h, c)
<1> DEFINE s == k[c]
           t == InsertAt(s, q, i)
           z == s[q]
<1>0. h \in Memory /\ k \in Lists
  BY DEF Shape
<1>1. /\ s \in Seq(Item) /\ Len(s) \in Nat /\ Distinct(s) /\ s # <<>>
      /\ h[c].child = s[1] /\ q \in 1 .. Len(s)
      /\ \A p \in 1 .. Len(s) :
              /\ s[p] \in Item /\ s[p] # NoItem /\ s[p] \in Pointer
              /\ h[s[p]].type # "free"
              /\ h[s[p]].next = After(s, p) /\ h[s[p]].prev = Before(s, p)
              /\ h[s[p]].next \in Pointer /\ h[s[p]].prev \in Pointer
      /\ \A d \in Item \ {c} : \A p \in 1 .. Len(s) : ~In(s[p], k[d])
  BY ListFacts DEF FirstOf
<1>2. /\ i \in Item /\ i \in Pointer /\ h[i].type # "free" /\ \A d \in Item : ~In(i, k[d])
      /\ \A p \in 1 .. Len(s) : s[p] # i
  BY DEF Unlisted, In, Pointer
<1>3. /\ t \in Seq(Item) /\ Len(t) = Len(s) + 1
      /\ \A p \in 1 .. Len(s) + 1 : t[p] = IF p < q THEN s[p] ELSE IF p = q THEN i ELSE s[p - 1]
  <2>1. q \in 1 .. Len(s) + 1
    BY <1>1
  <2>2. s \in Seq(Item) /\ i \in Item
    BY <1>1, <1>2
  <2> HIDE DEF s
  <2> QED BY ONLY <2>1, <2>2, InsertAtIs
<1>4. z \in Item /\ z \in Pointer /\ z # NoItem /\ z # i /\ \A p \in 1 .. Len(s) : s[p] = z <=> p = q
  BY <1>1, <1>2 DEF Distinct
<1>5. h[z].prev = Before(s, q) /\ h[z].prev \in Item /\ h[z].prev \in Pointer /\ h[z].prev # i
  <2> DEFINE r == IF q = 1 THEN Len(s) ELSE q - 1
  <2>1. r \in 1 .. Len(s)
    BY <1>1
  <2>2. h[z].prev = s[r]
    BY <1>1 DEF Before
  <2> HIDE DEF r, s, z
  <2>3. s[r] \in Item /\ s[r] \in Pointer /\ s[r] # i
    BY <1>1, <1>2, <2>1
  <2> QED BY <2>2, <2>3 DEF r, Before
<1>6. GetArrayItem(h, c, q) = z
  OBVIOUS
<1> HIDE DEF s, t
<1> HIDE DEF z
<1> DEFINE h1 == [h EXCEPT ![i].next = z]
           h2 == [h1 EXCEPT ![i].prev = h[z].prev]
           h3 == [h2 EXCEPT ![z].prev = i]
           g == IF q = 1 THEN [h3 EXCEPT ![c].child = i] ELSE [h3 EXCEPT ![h3[i].prev].next = i]
<1>7. InsertItemInArray(h, c, q, i) = g
  <2>1. z = h[c].child <=> q = 1
    BY <1>1, <1>4
  <2> QED BY <1>4, <1>6, <2>1 DEF InsertItemInArray
<1>8. NextSet(h1, h, TRUE, i, z)
  <2>1. h1 = IF TRUE THEN [h EXCEPT ![i].next = z] ELSE h
    OBVIOUS
  <2> HIDE DEF h1
  <2> QED BY <1>0, <1>2, <1>4, <2>1, MaybeNext
<1> HIDE DEF h1
<1>9. PrevSet(h2, h1, TRUE, i, h[z].prev)
  <2> DEFINE x == h[z].prev
  <2>1. h2 = IF TRUE THEN [h1 EXCEPT ![i].prev = x] ELSE h1
    OBVIOUS
  <2>2. h1 \in Memory /\ x \in Pointer
    BY <1>5, <1>8 DEF NextSet
  <2> HIDE DEF h2, x
  <2>3. PrevSet(h2, h1, TRUE, i, x)
    BY <1>2, <2>1, <2>2, MaybePrev
  <2> QED BY <2>3 DEF x
<1> HIDE DEF h2
<1>10. PrevSet(h3, h2, TRUE, z, i)
  <2>1. h3 = IF TRUE THEN [h2 EXCEPT ![z].prev = i] ELSE h2
    OBVIOUS
  <2>2. h2 \in Memory
    BY <1>9 DEF PrevSet
  <2> HIDE DEF h3
  <2> QED BY <1>2, <1>4, <2>1, <2>2, MaybePrev
<1> HIDE DEF h3
<1>11. h3 \in Memory /\ h3[i].prev = h[z].prev
  BY <1>2, <1>4, <1>9, <1>10 DEF PrevSet
<1>12. /\ g \in Memory
       /\ \A j \in Item : /\ SameItem(g[j], h3[j]) /\ g[j].prev = h3[j].prev
                          /\ g[j].child = IF q = 1 /\ j = c THEN i ELSE h3[j].child
                          /\ g[j].next = IF q # 1 /\ j = h[z].prev THEN i ELSE h3[j].next
  <2>1. CASE q = 1
    <3>1. g = IF TRUE THEN [h3 EXCEPT ![c].child = i] ELSE h3
      BY <2>1
    <3> HIDE DEF g
    <3>2. ChildSet(g, h3, TRUE, c, i)
      BY <1>2, <1>11, <3>1, MaybeChild
    <3> QED BY <2>1, <3>2 DEF ChildSet
  <2>2. CASE q # 1
    <3> DEFINE x == h[z].prev
    <3>1. g = IF TRUE THEN [h3 EXCEPT ![x].next = i] ELSE h3
      BY <2>2, <1>11
    <3>2. x \in Item
      BY <1>5
    <3> HIDE DEF g, x
    <3>3. NextSet(g, h3, TRUE, x, i)
      BY <1>2, <1>11, <3>1, <3>2, MaybeNext
    <3> QED BY <2>2, <3>3 DEF NextSet, x
  <2> QED BY <2>1, <2>2
<1> HIDE DEF g
<1>13. \A j \in Item : SameItem(g[j], h[j])
  BY <1>8, <1>9, <1>10, <1>12 DEF NextSet, PrevSet, SameItem
<1>14. ASSUME NEW j \in Item
       PROVE  /\ g[j].child = IF q = 1 /\ j = c THEN i ELSE h[j].child
              /\ g[j].next = IF q # 1 /\ j = s[q - 1] THEN i ELSE IF j = i THEN z ELSE h[j].next
              /\ g[j].prev = IF j = z THEN i ELSE IF j = i THEN Before(s, q) ELSE h[j].prev
  <2>1. q # 1 => h[z].prev = s[q - 1]
    BY <1>5 DEF Before
  <2> QED BY <1>5, <1>8, <1>9, <1>10, <1>12, <2>1 DEF NextSet, PrevSet
<1>15. \A j \in Item : In(j, t) <=> In(j, s) \/ j = i
  <2>1. In(i, t)
    BY <1>1, <1>3 DEF In
  <2>2. ASSUME NEW j \in Item, In(j, s) PROVE In(j, t)
    <3>1. PICK p \in 1 .. Len(s) : s[p] = j
      BY <2>2 DEF In
    <3>2. CASE p < q
      <4>1. p \in 1 .. Len(t) /\ t[p] = j
        BY <1>1, <1>3, <3>1, <3>2
      <4> QED BY <4>1 DEF In
    <3>3. CASE p >= q
      <4>1. p + 1 \in 1 .. Len(t) /\ t[p + 1] = s[(p + 1) - 1] /\ (p + 1) - 1 = p
        BY <1>1, <1>3, <3>1, <3>3
      <4> QED BY <3>1, <4>1 DEF In
    <3> QED BY <3>1, <3>2, <3>3, <1>1
  <2>3. ASSUME NEW j \in Item, In(j, t), j # i PROVE In(j, s)
    <3>1. PICK p \in 1 .. Len(t) : t[p] = j
      BY <2>3 DEF In
    <3>2. CASE p < q
      <4>1. p \in 1 .. Len(s) /\ s[p] = j
        BY <1>1, <1>3, <3>1, <3>2
      <4> QED BY <4>1 DEF In
    <3>3. CASE p > q
      <4>1. p - 1 \in 1 .. Len(s) /\ s[p - 1] = j
        BY <1>1, <1>3, <3>1, <3>3
      <4> QED BY <4>1 DEF In
    <3>4. p # q
      BY <1>1, <1>3, <2>3, <3>1
    <3> QED BY <3>1, <3>2, <3>3, <3>4, <1>1, <1>3
  <2> QED BY <2>1, <2>2, <2>3
<1>16. FirstOf(t) = IF q = 1 THEN i ELSE s[1]
  <2>1. t # <<>> /\ t[1] = IF 1 < q THEN s[1] ELSE i
    BY <1>1, <1>3, EmptySeq
  <2> QED BY <1>1, <2>1 DEF FirstOf
<1>17. ASSUME NEW p \in 1 .. Len(t)
       PROVE  /\ h[t[p]].type # "free" /\ t[p] \in Item
              /\ g[t[p]].next = After(t, p) /\ g[t[p]].prev = Before(t, p)
              /\ \A d \in Item \ {c} : ~In(t[p], k[d])
  <2>1. CASE p < q
    <3>1. t[p] = s[p] /\ p \in 1 .. Len(s) /\ q # 1 /\ s[p] # i /\ s[p] # z
      BY <2>1, <1>1, <1>2, <1>3, <1>4
    <3>2. s[p] = s[q - 1] <=> p = q - 1
      BY <3>1, <1>1 DEF Distinct
    <3>3. After(t, p) = IF p = q - 1 THEN i ELSE After(s, p)
      BY <2>1, <1>1, <1>3 DEF After
    <3>4. Before(t, p) = Before(s, p)
      BY <2>1, <1>1, <1>3 DEF Before
    <3> QED BY <3>1, <3>2, <3>3, <3>4, <1>1, <1>14
  <2>2. CASE p = q
    <3>1. t[p] = i
      BY <2>2, <1>1, <1>3
    <3>2. q # 1 => s[q - 1] # i
      BY <1>1, <1>2
    <3>3. After(t, p) = z
      <4>1. q # Len(t) /\ q + 1 \in 1 .. Len(s) + 1 /\ ~(q + 1 < q) /\ q + 1 # q /\ (q + 1) - 1 = q
        BY <1>1, <1>3
      <4>2. t[q + 1] = s[q]
        BY <1>3, <4>1
      <4> QED BY <2>2, <4>1, <4>2 DEF After, z
    <3>4. Before(t, p) = Before(s, q)
      BY <2>2, <1>1, <1>3 DEF Before
    <3> QED BY <3>1, <3>2, <3>3, <3>4, <1>2, <1>4, <1>14
  <2>3. CASE p > q
    <3>1. t[p] = s[p - 1] /\ p - 1 \in 1 .. Len(s) /\ s[p - 1] # i
      BY <2>3, <1>1, <1>2, <1>3
    <3>2. q # 1 => s[p - 1] # s[q - 1]
      BY <2>3, <3>1, <1>1 DEF Distinct
    <3>3. s[p - 1] = z <=> p - 1 = q
      BY <3>1, <1>4
    <3>4. After(t, p) = After(s, p - 1)
      <4>1. p = Len(t) <=> p - 1 = Len(s)
        BY <1>1, <1>3
      <4>2. p # Len(t) => t[p + 1] = s[p]
        <5>1. p # Len(t) => p + 1 \in 1 .. Len(s) + 1 /\ ~(p + 1 < q) /\ p + 1 # q /\ (p + 1) - 1 = p
          <6>1. Len(s) \in Nat /\ Len(t) = Len(s) + 1 /\ q \in 1 .. Len(s)
            BY <1>1, <1>3
          <6> QED BY ONLY <6>1, p \in 1 .. Len(t), <2>3
        <5> QED BY <5>1, <1>3
      <4>3. (p - 1) + 1 = p
        BY <1>1, <1>3
      <4> QED BY <4>1, <4>2, <4>3 DEF After
    <3>5. Before(t, p) = IF p - 1 = q THEN i ELSE Before(s, p - 1)
      BY <2>3, <1>1, <1>3 DEF Before
    <3> QED BY <3>1, <3>2, <3>3, <3>4, <3>5, <1>1, <1>14
  <2> QED BY <2>1, <2>2, <2>3, <1>1, <1>3
<1>18. Distinct(t)
  <2> SUFFICES ASSUME NEW p \in 1 .. Len(t), NEW r \in 1 .. Len(t), t[p] = t[r] PROVE p = r
    BY DEF Distinct
  <2> DEFINE at(x) == IF x < q THEN x ELSE x - 1
  <2>1. ASSUME NEW x \in 1 .. Len(t), x # q
        PROVE  t[x] = s[at(x)] /\ at(x) \in 1 .. Len(s) /\ t[x] # i
    BY <2>1, <1>1, <1>2, <1>3
  <2>2. t[q] = i /\ q \in 1 .. Len(t)
    BY <1>1, <1>3
  <2>3. CASE p = q \/ r = q
    BY <2>1, <2>2, <2>3
  <2>4. CASE p # q /\ r # q
    <3>1. at(p) = at(r)
      BY <2>1, <2>4, <1>1, SMTT(30) DEF Distinct
    <3> QED BY <3>1, <2>4, <1>1, <1>3
  <2> QED BY <2>3, <2>4
<1>19. \A j \in Item : g[j].child = IF j = c THEN FirstOf(t) ELSE h[j].child
  BY <1>1, <1>14, <1>16
<1>20. \A j \in Item : ~In(j, s) /\ ~In(j, t) => g[j].next = h[j].next /\ g[j].prev = h[j].prev
  <2>1. (q # 1 => In(s[q - 1], s)) /\ In(z, s)
    <3>1. \A p \in 1 .. Len(s) : In(s[p], s)
      BY DEF In
    <3>2. (q # 1 => q - 1 \in 1 .. Len(s)) /\ q \in 1 .. Len(s)
      BY <1>1
    <3> QED BY <3>1, <3>2 DEF z
  <2> QED BY <1>14, <1>15, <2>1
<1>21. Shape(g, [k EXCEPT ![c] = t])
  <2>2. \A p \in 1 .. Len(t) : h[t[p]].type # "free"
    BY <1>17
  <2>3. \A d \in Item \ {c} : \A p \in 1 .. Len(t) : ~In(t[p], k[d])
    BY <1>17
  <2>4. \A p \in 1 .. Len(t) : g[t[p]].next = After(t, p) /\ g[t[p]].prev = Before(t, p)
    BY <1>17
  <2>5. t \in Seq(Item) /\ g \in Memory
    BY <1>3, <1>12
  <2>6. \A j \in Item : In(j, s) /\ ~In(j, t) => g[j].next = NoItem /\ g[j].prev = NoItem
    BY <1>15
  <2> QED BY <2>2, <2>3, <2>4, <2>5, <2>6, <1>13, <1>18, <1>19, <1>20, Relist DEF s
<1>22. Kept(g, h, c)
  BY <1>13, <1>14 DEF Kept
<1> QED BY <1>7, <1>21, <1>22 DEF s, t

-----------------------------------------------------------------------------
(***************************************************************************)
(* cJSON_ReplaceItemViaPointer.                                            *)
(***************************************************************************)

\* cJSON_ReplaceItemViaPointer puts i in the q-th place before it deletes.
LEMMA ReplacedShape ==
  ASSUME NEW h, NEW k, Shape(h, k), NEW c \in Item, ~h[c].ref, h[c].type # "free",
         NEW q \in 1 .. Len(k[c]), NEW i, Unlisted(h, k, i)
  PROVE  \E g : /\ ReplaceItemViaPointer(h, c, k[c][q], i) = Free(g, k[c][q])
                /\ Shape(g, [k EXCEPT ![c] = ReplaceAt(k[c], q, i)])
                /\ Kept(g, h, c)
<1> DEFINE s == k[c]
           t == ReplaceAt(s, q, i)
           old == s[q]
           n == Len(s)
<1>0. h \in Memory /\ k \in Lists
  BY DEF Shape
<1>1. /\ s \in Seq(Item) /\ n \in Nat /\ Distinct(s) /\ s # <<>>
      /\ h[c].child = s[1] /\ q \in 1 .. n
      /\ \A p \in 1 .. n :
              /\ s[p] \in Item /\ s[p] # NoItem /\ s[p] \in Pointer
              /\ h[s[p]].type # "free"
              /\ h[s[p]].next = After(s, p) /\ h[s[p]].prev = Before(s, p)
              /\ h[s[p]].next \in Pointer /\ h[s[p]].prev \in Pointer
      /\ \A d \in Item \ {c} : \A p \in 1 .. n : ~In(s[p], k[d])
  BY ListFacts DEF FirstOf
<1>2. /\ i \in Item /\ i \in Pointer /\ i # NoItem /\ h[i].type # "free" /\ \A d \in Item : ~In(i, k[d])
      /\ \A p \in 1 .. n : s[p] # i
  BY ItemAssumption DEF Unlisted, In, Pointer
<1>3. /\ t \in Seq(Item) /\ Len(t) = n
      /\ \A p \in 1 .. n : t[p] = IF p = q THEN i ELSE s[p]
  <2>1. s \in Seq(Item) /\ q \in 1 .. Len(s) /\ i \in Item
    BY <1>1, <1>2
  <2> HIDE DEF s
  <2> QED BY ONLY <2>1, ReplaceAtIs
<1>4. old \in Item /\ old \in Pointer /\ old # i /\ \A p \in 1 .. n : s[p] = old <=> p = q
  BY <1>1, <1>2 DEF Distinct
<1> DEFINE nx == After(s, q)
           pv == Before(s, q)
<1>5. /\ h[old].next = nx /\ h[old].prev = pv /\ nx \in Pointer /\ pv \in Item /\ pv \in Pointer
      /\ nx # i /\ nx # old /\ pv # i
  <2>1. pv = s[IF q = 1 THEN n ELSE q - 1] /\ (IF q = 1 THEN n ELSE q - 1) \in 1 .. n
    BY <1>1 DEF Before
  <2>2. nx = IF q = n THEN NoItem ELSE s[q + 1]
    BY DEF After
  <2>3. h[old].next = nx /\ h[old].prev = pv /\ nx \in Pointer /\ pv \in Pointer
    BY <1>1
  <2>4. nx # i /\ nx # old
    <3>1. q # n => q + 1 \in 1 .. n /\ q + 1 # q
      BY <1>1
    <3> HIDE DEF nx, old
    <3> QED BY <2>2, <3>1, <1>2, <1>4, ItemAssumption
  <2> HIDE DEF pv, nx, old
  <2> QED BY <2>1, <2>3, <2>4, <1>1, <1>2
<1>6. /\ q = 1 <=> h[c].child = old
      /\ q # n => nx = s[q + 1] /\ nx # NoItem
      /\ nx = NoItem <=> q = n
      /\ q # 1 => pv = s[q - 1]
      /\ q = 1 => pv = s[n]
      /\ pv = old <=> n = 1
  <2>1. q # n => q + 1 \in 1 .. n
    BY <1>1
  <2>2. q # 1 => q - 1 \in 1 .. n /\ q - 1 # q
    BY <1>1
  <2>3. n \in 1 .. n /\ 1 \in 1 .. n
    BY <1>1
  <2>4. nx = IF q = n THEN NoItem ELSE s[q + 1]
    BY DEF After
  <2>5. pv = IF q = 1 THEN s[n] ELSE s[q - 1]
    BY DEF Before
  <2> HIDE DEF nx, pv
  <2>6. q = 1 <=> h[c].child = old
    BY <1>1, <1>4, <2>3
  <2>7. (q # n => nx = s[q + 1] /\ nx # NoItem) /\ (nx = NoItem <=> q = n)
    BY <1>1, <2>1, <2>4
  <2>8. pv = old <=> n = 1
    <3> HIDE DEF old, n
    <3> QED BY <1>1, <1>4, <2>2, <2>3, <2>5
  <2> QED BY <2>5, <2>6, <2>7, <2>8
<1> HIDE DEF s, t, n, old, nx, pv
<1> DEFINE h0 == [h EXCEPT ![i].next = h[old].next]
           h1 == [h EXCEPT ![i].next = h[old].next, ![i].prev = h[old].prev]
           h2 == StandIn(h, old, i)
           first == h2[c].child = old
           h3 == IF first /\ h2[old].prev = old THEN [h2 EXCEPT ![i].prev = i] ELSE h2
           h4 == IF first THEN [h3 EXCEPT ![c].child = i]
                 ELSE IF h3[i].prev = NoItem THEN h3
                 ELSE [h3 EXCEPT ![h3[i].prev].next = i]
           h5 == IF ~first /\ h4[i].next = NoItem THEN [h4 EXCEPT ![h4[c].child].prev = i]
                 ELSE h4
           h6 == [h5 EXCEPT ![old].next = NoItem]
           g == [h5 EXCEPT ![old].next = NoItem, ![old].prev = NoItem]
<1>7. ReplaceItemViaPointer(h, c, old, i) = Free(g, old)
  BY DEF ReplaceItemViaPointer
<1>8. NextSet(h0, h, TRUE, i, nx)
  <2>1. h0 = IF TRUE THEN [h EXCEPT ![i].next = nx] ELSE h
    BY <1>5
  <2> HIDE DEF h0
  <2> QED BY <1>0, <1>2, <1>5, <2>1, MaybeNext
<1> HIDE DEF h0
<1>9. PrevSet(h1, h0, TRUE, i, pv)
  <2>0. h1 = [h0 EXCEPT ![i].prev = h[old].prev]
    BY DEF h0
  <2>1. h1 = IF TRUE THEN [h0 EXCEPT ![i].prev = pv] ELSE h0
    BY <1>5, <2>0
  <2>2. h0 \in Memory
    BY <1>8 DEF NextSet
  <2> HIDE DEF h1
  <2> QED BY <1>2, <1>5, <2>1, <2>2, MaybePrev
<1> HIDE DEF h1
<1>10. PrevSet(h2, h1, q # n, nx, i)
  <2> DEFINE b == q # n
  <2>0. h1[i].next = nx
    BY <1>2, <1>8, <1>9 DEF NextSet, PrevSet
  <2>1. h2 = IF b THEN [h1 EXCEPT ![nx].prev = i] ELSE h1
    <3>1. h2 = IF h1[i].next = NoItem THEN h1 ELSE [h1 EXCEPT ![h1[i].next].prev = i]
      BY DEF StandIn, h1
    <3> HIDE DEF h2
    <3> QED BY <1>6, <2>0, <3>1
  <2>2. h1 \in Memory /\ b \in BOOLEAN /\ (b => nx \in Item /\ i \in Pointer)
    BY <1>2, <1>5, <1>6, <1>9 DEF PrevSet, Pointer
  <2> HIDE DEF h2, b
  <2>3. PrevSet(h2, h1, b, nx, i)
    BY <2>1, <2>2, MaybePrev
  <2> QED BY <2>3 DEF b
<1> HIDE DEF h2
<1>11. first <=> q = 1
  BY <1>6, <1>8, <1>9, <1>10 DEF NextSet, PrevSet
<1>12. PrevSet(h3, h2, n = 1, i, i)
  <2> DEFINE b == n = 1
  <2>0. h2[old].prev = pv
    BY <1>4, <1>5, <1>8, <1>9, <1>10 DEF NextSet, PrevSet
  <2>1. h3 = IF b THEN [h2 EXCEPT ![i].prev = i] ELSE h2
    BY <1>1, <1>6, <1>11, <2>0
  <2>2. h2 \in Memory /\ b \in BOOLEAN
    BY <1>10 DEF PrevSet
  <2> HIDE DEF h3, b
  <2>3. PrevSet(h3, h2, b, i, i)
    BY <1>2, <2>1, <2>2, MaybePrev
  <2> QED BY <2>3 DEF b
<1> HIDE DEF h3
<1>13. /\ h4 \in Memory
       /\ \A j \in Item : /\ SameItem(h4[j], h3[j]) /\ h4[j].prev = h3[j].prev
                          /\ h4[j].child = IF q = 1 /\ j = c THEN i ELSE h3[j].child
                          /\ h4[j].next = IF q # 1 /\ j = pv THEN i ELSE h3[j].next
  <2>0. h3 \in Memory
    BY <1>12 DEF PrevSet
  <2>1. CASE q = 1
    <3>1. h4 = IF TRUE THEN [h3 EXCEPT ![c].child = i] ELSE h3
      BY <2>1, <1>11
    <3> HIDE DEF h4
    <3>2. ChildSet(h4, h3, TRUE, c, i)
      BY <1>2, <2>0, <3>1, MaybeChild
    <3> QED BY <2>1, <3>2 DEF ChildSet
  <2>2. CASE q # 1
    <3>0. n # 1
      BY <2>2, <1>1
    <3>1. h3[i].prev = pv /\ pv # NoItem
      <4>1. q # n => nx # i
        BY <1>5
      <4> QED BY <1>2, <1>5, <1>9, <1>10, <1>12, <3>0, <4>1, ItemAssumption DEF PrevSet
    <3>2. h4 = IF TRUE THEN [h3 EXCEPT ![pv].next = i] ELSE h3
      BY <2>2, <1>11, <3>1
    <3> HIDE DEF h4
    <3>3. NextSet(h4, h3, TRUE, pv, i)
      BY <1>2, <1>5, <2>0, <3>2, MaybeNext
    <3> QED BY <2>2, <3>3 DEF NextSet
  <2> QED BY <2>1, <2>2
<1> HIDE DEF h4
<1>14. PrevSet(h5, h4, q # 1 /\ q = n, s[1], i)
  <2> DEFINE b == q # 1 /\ q = n
             f == s[1]
  <2>0. h4[i].next = nx
    BY <1>2, <1>5, <1>8, <1>9, <1>10, <1>12, <1>13 DEF NextSet, PrevSet
  <2>1. q # 1 => h4[c].child = f
    BY <1>1, <1>8, <1>9, <1>10, <1>12, <1>13 DEF NextSet, PrevSet
  <2>2. h5 = IF b THEN [h4 EXCEPT ![f].prev = i] ELSE h4
    BY <1>6, <1>11, <2>0, <2>1
  <2>3. h4 \in Memory /\ b \in BOOLEAN /\ f \in Item
    BY <1>1, <1>13
  <2> HIDE DEF h5, b, f
  <2>4. PrevSet(h5, h4, b, f, i)
    BY <1>2, <2>2, <2>3, MaybePrev
  <2> QED BY <2>4 DEF b, f
<1> HIDE DEF h5, first
<1>15. NextSet(h6, h5, TRUE, old, NoItem)
  <2>1. h6 = IF TRUE THEN [h5 EXCEPT ![old].next = NoItem] ELSE h5
    OBVIOUS
  <2>2. NoItem \in Pointer /\ h5 \in Memory
    BY <1>14 DEF Pointer, PrevSet
  <2> HIDE DEF h6
  <2> QED BY <1>4, <2>1, <2>2, MaybeNext
<1> HIDE DEF h6
<1>16. PrevSet(g, h6, TRUE, old, NoItem)
  <2>1. g = IF TRUE THEN [h6 EXCEPT ![old].prev = NoItem] ELSE h6
    BY DEF h6
  <2>2. NoItem \in Pointer /\ h6 \in Memory
    BY <1>15 DEF Pointer, NextSet
  <2> HIDE DEF g
  <2> QED BY <1>4, <2>1, <2>2, MaybePrev
<1> HIDE DEF g
<1>17. g \in Memory /\ \A j \in Item : SameItem(g[j], h[j])
  BY <1>8, <1>9, <1>10, <1>12, <1>13, <1>14, <1>15, <1>16 DEF NextSet, PrevSet, SameItem
<1>18. ASSUME NEW j \in Item
       PROVE  /\ g[j].child = IF q = 1 /\ j = c THEN i ELSE h[j].child
              /\ g[j].next = IF j = old THEN NoItem ELSE IF q # 1 /\ j = pv THEN i
                             ELSE IF j = i THEN nx ELSE h[j].next
  BY <1>8, <1>9, <1>10, <1>12, <1>13, <1>14, <1>15, <1>16 DEF NextSet, PrevSet
<1>19. ASSUME NEW j \in Item
       PROVE  g[j].prev = IF j = old THEN NoItem
                          ELSE IF q # 1 /\ q = n /\ j = s[1] THEN i
                          ELSE IF n = 1 /\ j = i THEN i
                          ELSE IF q # n /\ j = nx THEN i
                          ELSE IF j = i THEN pv ELSE h[j].prev
  <2>1. g[j].prev = IF j = old THEN NoItem ELSE h5[j].prev
    BY <1>15, <1>16 DEF NextSet, PrevSet
  <2>2. h5[j].prev = IF q # 1 /\ q = n /\ j = s[1] THEN i ELSE h4[j].prev
    BY <1>14 DEF PrevSet
  <2>3. h4[j].prev = IF n = 1 /\ j = i THEN i ELSE h2[j].prev
    BY <1>12, <1>13 DEF PrevSet
  <2>4. h2[j].prev = IF q # n /\ j = nx THEN i ELSE IF j = i THEN pv ELSE h[j].prev
    BY <1>8, <1>9, <1>10 DEF PrevSet, NextSet
  <2> QED BY <2>1, <2>2, <2>3, <2>4
<1>20. \A j \in Item : In(j, t) <=> (In(j, s) /\ j # old) \/ j = i
  <2>1. In(i, t)
    BY <1>1, <1>3 DEF In, n
  <2>2. ASSUME NEW j \in Item, In(j, s), j # old PROVE In(j, t)
    BY <2>2, <1>1, <1>3, <1>4 DEF In, n
  <2>3. ASSUME NEW j \in Item, In(j, t), j # i PROVE In(j, s) /\ j # old
    BY <2>3, <1>1, <1>3, <1>4 DEF In, n
  <2> QED BY <2>1, <2>2, <2>3
<1>21. FirstOf(t) = IF q = 1 THEN i ELSE s[1]
  <2>1. t # <<>> /\ t[1] = IF q = 1 THEN i ELSE s[1]
    BY <1>1, <1>3, EmptySeq
  <2> QED BY <2>1 DEF FirstOf
<1>22. ASSUME NEW p \in 1 .. Len(t)
       PROVE  /\ h[t[p]].type # "free" /\ t[p] \in Item
              /\ g[t[p]].next = After(t, p) /\ g[t[p]].prev = Before(t, p)
              /\ \A d \in Item \ {c} : ~In(t[p], k[d])
  <2>0. /\ p \in 1 .. n /\ n \in Nat /\ q \in 1 .. n
        /\ (p # n => p + 1 \in 1 .. n) /\ (p # 1 => p - 1 \in 1 .. n) /\ n \in 1 .. n
    BY <1>1, <1>3
  <2>1. CASE p = q
    <3>1. t[p] = i
      BY <2>1, <1>3, <2>0
    <3>2. After(t, p) = nx
      BY <2>0, <2>1, <1>3, <1>6 DEF After
    <3>3. Before(t, p) = IF n = 1 THEN i ELSE pv
      BY <2>0, <2>1, <1>3, <1>6 DEF Before
    <3>4. i # old /\ i # pv /\ i # s[1] /\ i # nx
      BY <1>1, <1>2, <1>4, <1>5, <2>0
    <3> QED BY <3>1, <3>2, <3>3, <3>4, <1>2, <1>18, <1>19
  <2>2. CASE p # q
    <3>1. t[p] = s[p] /\ s[p] # i /\ s[p] # old
      BY <2>2, <2>0, <1>2, <1>3, <1>4
    <3>2. q # 1 => (s[p] = pv <=> p = q - 1)
      BY <2>0, <1>1, <1>6, SMTT(30) DEF Distinct, n
    <3>3. q # n => (s[p] = nx <=> p = q + 1)
      BY <2>0, <1>1, <1>6 DEF Distinct, n
    <3>4. s[p] = s[1] <=> p = 1
      BY <2>0, <1>1 DEF Distinct, n
    <3>5. After(t, p) = IF p = q - 1 THEN i ELSE After(s, p)
      <4>1. p # n => t[p + 1] = IF p = q - 1 THEN i ELSE s[p + 1]
        BY <2>0, <1>3
      <4> QED BY <4>1, <2>0, <1>3 DEF After, n
    <3>6. Before(t, p) = IF p = q + 1 \/ (p = 1 /\ q = n) THEN i ELSE Before(s, p)
      <4>1. p # 1 => t[p - 1] = IF p = q + 1 THEN i ELSE s[p - 1]
        BY <2>0, <1>3
      <4>2. t[n] = IF q = n THEN i ELSE s[n]
        BY <2>0, <1>3
      <4> QED BY <4>1, <4>2, <2>0, <1>3 DEF Before, n
    <3>7. h[s[p]].next = After(s, p) /\ h[s[p]].prev = Before(s, p) /\ s[p] \in Item
          /\ h[s[p]].type # "free" /\ \A d \in Item \ {c} : ~In(s[p], k[d])
      BY <2>0, <1>1
    <3>8. g[s[p]].next = After(t, p)
      BY <2>0, <2>2, <3>1, <3>2, <3>5, <3>7, <1>18
    <3>9. g[s[p]].prev = Before(t, p)
      BY <2>0, <2>2, <3>1, <3>3, <3>4, <3>6, <3>7, <1>19
    <3> QED BY <3>1, <3>7, <3>8, <3>9
  <2> QED BY <2>1, <2>2
<1>23. Distinct(t)
  <2> SUFFICES ASSUME NEW p \in 1 .. Len(t), NEW r \in 1 .. Len(t), t[p] = t[r] PROVE p = r
    BY DEF Distinct
  <2> QED BY <1>1, <1>2, <1>3 DEF Distinct, n
<1>24. \A j \in Item : g[j].child = IF j = c THEN FirstOf(t) ELSE h[j].child
  BY <1>1, <1>18, <1>21
<1>25. /\ In(old, s) /\ In(s[1], s) /\ In(pv, s) /\ (q # n => In(nx, s))
  <2>1. \A p \in 1 .. n : In(s[p], s)
    BY DEF In, n
  <2>2. 1 \in 1 .. n /\ n \in 1 .. n /\ (q # 1 => q - 1 \in 1 .. n) /\ (q # n => q + 1 \in 1 .. n) /\ q \in 1 .. n
    BY <1>1
  <2> QED BY <2>1, <2>2, <1>6 DEF old
<1>26. Shape(g, [k EXCEPT ![c] = t])
  <2>1. \A j \in Item : ~In(j, s) /\ ~In(j, t) => g[j].next = h[j].next /\ g[j].prev = h[j].prev
    BY <1>18, <1>19, <1>20, <1>25
  <2>2. \A p \in 1 .. Len(t) : h[t[p]].type # "free"
    BY <1>22
  <2>3. \A d \in Item \ {c} : \A p \in 1 .. Len(t) : ~In(t[p], k[d])
    BY <1>22
  <2>4. \A p \in 1 .. Len(t) : g[t[p]].next = After(t, p) /\ g[t[p]].prev = Before(t, p)
    BY <1>22
  <2>5. t \in Seq(Item) /\ g \in Memory
    BY <1>3, <1>17
  <2>6. \A j \in Item : In(j, s) /\ ~In(j, t) => g[j].next = NoItem /\ g[j].prev = NoItem
    BY <1>18, <1>19, <1>20
  <2> QED BY <2>1, <2>2, <2>3, <2>4, <2>5, <2>6, <1>17, <1>23, <1>24, Relist DEF s
<1>27. Kept(g, h, c)
  BY <1>17, <1>18 DEF Kept
<1> QED BY <1>7, <1>26, <1>27 DEF s, t, old

-----------------------------------------------------------------------------
(***************************************************************************)
(* cJSON_Delete, and what cJSON_New_Item gives.                            *)
(***************************************************************************)

\* The ways from an item to those that it owns.
Sub(k) == [c \in Item |-> ToSet(k[c])]

\* They go to the items of its list.
LEMMA SubIs ==
  ASSUME NEW k \in Lists
  PROVE  /\ Sub(k) \in Graph
         /\ \A c \in Item : \A i : i \in Sub(k)[c] <=> In(i, k[c])
<1>1. ASSUME NEW c \in Item PROVE ToSet(k[c]) \in SUBSET Item /\ \A i : i \in ToSet(k[c]) <=> In(i, k[c])
  <2>1. k[c] \in Seq(Item) /\ \A p \in 1 .. Len(k[c]) : k[c][p] \in Item
    BY ListOf
  <2>2. \A i : i \in ToSet(k[c]) <=> In(i, k[c])
    BY <2>1, ToSetIn
  <2> QED BY <2>1, <2>2 DEF In
<1> QED BY <1>1 DEF Sub, Graph

\* Lists that share no item give every item one parent.
LEMMA SubOneParent ==
  ASSUME NEW k \in Lists, Unshared(k)
  PROVE  OneParent(Sub(k))
BY SubIs DEF OneParent, Unshared, In

\* cJSON_Delete follows next and child, and meets the tree of i when i is in no list.
LEMMA FreedIsTree ==
  ASSUME NEW h \in Memory, NEW k \in Lists, Forward(h, k), NEW i \in Item, h[i].next = NoItem
  PROVE  Freed(h, i) = Reached(Sub(k), {i})
<1> DEFINE to == [j \in Item |-> {h[j].next, IF h[j].ref THEN NoItem ELSE h[j].child} \ {NoItem}]
           F == Freed(h, i)
           D == Reached(Sub(k), {i})
<1>0. {i} \in SUBSET Item
  OBVIOUS
<1>1. to \in Graph
  <2>1. \A j \in Item : h[j].next \in Pointer /\ h[j].child \in Pointer
    BY MemoryCells
  <2> QED BY <2>1 DEF Graph, Pointer
<1>2. F = Reached(to, {i})
  BY DEF Freed
<1>3. \A j \in Item : to[j] = {h[j].next, IF h[j].ref THEN NoItem ELSE h[j].child} \ {NoItem}
  OBVIOUS
<1> HIDE DEF to
<1>4. F \in SUBSET Item /\ i \in F /\ Closed(to, F)
  BY <1>0, <1>1, <1>2, ReachedClosed
<1>5. Sub(k) \in Graph /\ \A c \in Item : \A j : j \in Sub(k)[c] <=> In(j, k[c])
  BY SubIs
<1>6. D \in SUBSET Item /\ i \in D /\ Closed(Sub(k), D)
  BY <1>0, <1>5, ReachedClosed
<1> HIDE DEF F
<1>7. F \subseteq D
  <2>1. ASSUME NEW x \in D PROVE to[x] \subseteq D
    <3>1. ~h[x].ref /\ h[x].child # NoItem => h[x].child \in D
      <4> SUFFICES ASSUME ~h[x].ref, h[x].child # NoItem PROVE h[x].child \in D
        OBVIOUS
      <4>0. x \in Item
        BY <1>6
      <4>1. h[x].child = k[x][1] /\ k[x] # <<>>
        BY <4>0 DEF Forward, FirstOf
      <4>2. 1 \in 1 .. Len(k[x])
        BY <4>0, <4>1, ListOf
      <4>3. In(k[x][1], k[x])
        BY <4>2 DEF In
      <4> QED BY <4>0, <4>1, <4>3, <1>5, <1>6 DEF Closed
    <3>2. h[x].next # NoItem => h[x].next \in D
      <4> SUFFICES ASSUME h[x].next # NoItem PROVE h[x].next \in D
        OBVIOUS
      <4>1. x \notin {i}
        OBVIOUS
      <4>2. PICK y \in D : x \in Sub(k)[y]
        BY <1>0, <1>5, <4>1, ReachedFrom
      <4>3. y \in Item /\ In(x, k[y])
        BY <1>5, <1>6, <4>2
      <4>4. PICK p \in 1 .. Len(k[y]) : k[y][p] = x
        BY <4>3 DEF In
      <4>5. h[x].next = After(k[y], p)
        BY <4>3, <4>4 DEF Forward
      <4>6. p # Len(k[y]) /\ h[x].next = k[y][p + 1]
        BY <4>5 DEF After
      <4>7. p + 1 \in 1 .. Len(k[y])
        BY <4>3, <4>6, ListOf
      <4>8. In(h[x].next, k[y])
        BY <4>6, <4>7 DEF In
      <4> QED BY <4>3, <4>8, <1>5, <1>6 DEF Closed
    <3>3. x \in Item
      BY <1>6
    <3>4. to[x] = {h[x].next, IF h[x].ref THEN NoItem ELSE h[x].child} \ {NoItem}
      BY <1>3, <3>3
    <3> HIDE DEF D
    <3> QED BY <3>1, <3>2, <3>4
  <2>2. Closed(to, D)
    BY <2>1 DEF Closed
  <2> HIDE DEF D
  <2> QED BY <1>0, <1>1, <1>2, <1>6, <2>2, ReachedLeast
<1>8. D \subseteq F
  <2>1. ASSUME NEW x \in F PROVE Sub(k)[x] \subseteq F
    <3>0. x \in Item /\ k[x] \in Seq(Item) /\ Len(k[x]) \in Nat
          /\ \A p \in 1 .. Len(k[x]) : k[x][p] \in Item
      BY <1>4, ListOf
    <3> DEFINE T == {p \in Nat : p + 1 <= Len(k[x]) => k[x][p + 1] \in F}
    <3>1. 0 \in T
      <4> SUFFICES ASSUME 1 <= Len(k[x]) PROVE k[x][1] \in F
        OBVIOUS
      <4>1. k[x] # <<>> /\ 1 \in 1 .. Len(k[x])
        BY <3>0, EmptySeq
      <4>2. ~h[x].ref
        BY <3>0, <4>1 DEF Forward
      <4>3. h[x].child = k[x][1] /\ k[x][1] \in Item
        BY <3>0, <4>1, <4>2 DEF Forward, FirstOf
      <4>4. k[x][1] \in to[x]
        BY <1>3, <3>0, <4>2, <4>3, ItemAssumption
      <4> QED BY <1>4, <4>4 DEF Closed
    <3>2. ASSUME NEW p \in Nat, p \in T PROVE p + 1 \in T
      <4> SUFFICES ASSUME p + 2 <= Len(k[x]) PROVE k[x][p + 2] \in F
        OBVIOUS
      <4>1. p + 1 \in 1 .. Len(k[x]) /\ p + 2 \in 1 .. Len(k[x]) /\ p + 1 # Len(k[x]) /\ (p + 1) + 1 = p + 2
        BY <3>0
      <4>2. k[x][p + 1] \in F
        BY <3>2, <4>1
      <4>3. h[k[x][p + 1]].next = k[x][p + 2] /\ k[x][p + 2] \in Item
        BY <3>0, <4>1 DEF Forward, After
      <4>4. k[x][p + 2] \in to[k[x][p + 1]]
        BY <1>3, <3>0, <4>1, <4>3, ItemAssumption
      <4> QED BY <1>4, <4>2, <4>4 DEF Closed
    <3>3. Nat \subseteq T
      <4> HIDE DEF T
      <4> QED BY <3>1, <3>2, Induction
    <3>4. ASSUME NEW j \in Sub(k)[x] PROVE j \in F
      <4>1. PICK p \in 1 .. Len(k[x]) : k[x][p] = j
        BY <1>5, <3>0 DEF In
      <4>2. p - 1 \in Nat /\ (p - 1) + 1 = p /\ p <= Len(k[x])
        BY <3>0
      <4>3. p - 1 \in T
        BY <3>3, <4>2
      <4> QED BY <4>1, <4>2, <4>3
    <3> QED BY <3>4
  <2>2. Closed(Sub(k), F)
    BY <2>1 DEF Closed
  <2> QED BY <1>0, <1>4, <1>5, <2>2, ReachedLeast
<1> QED BY <1>7, <1>8 DEF F

\* The items D own nothing.
Cleared(k, D) == [j \in Item |-> IF j \in D THEN <<>> ELSE k[j]]
\* The memory of the items D is free.
Blank(h, D) == [j \in Item |-> IF j \in D THEN NewItem("free") ELSE h[j]]

\* cJSON_Delete leaves the other lists as they were.
LEMMA FreedShape ==
  ASSUME NEW h, NEW k, Shape(h, k), NEW i \in Item, \A d \in Item : ~In(i, k[d]),
         NEW D, D = Reached(Sub(k), {i})
  PROVE  Free(h, i) = Blank(h, D) /\ Shape(Free(h, i), Cleared(k, D))
<1>0. h \in Memory /\ k \in Lists /\ Forward(h, k) /\ Backward(h, k) /\ Unshared(k) /\ Loose(h, k) /\ Names(h)
  BY DEF Shape
<1> DEFINE g == Free(h, i)
           n == [j \in Item |-> IF j \in D THEN <<>> ELSE k[j]]
<1>1. h[i].next = NoItem
  BY <1>0 DEF Loose
<1>2. Freed(h, i) = D
  BY <1>0, <1>1, FreedIsTree
<1>3. g = [j \in Item |-> IF j \in D THEN NewItem("free") ELSE h[j]]
  BY <1>2 DEF Free
<1>4. Sub(k) \in Graph /\ \A c \in Item : \A j : j \in Sub(k)[c] <=> In(j, k[c])
  BY <1>0, SubIs
<1>5. \A x \in Item \ D : Sub(k)[x] \cap D = {}
  <2>1. Roots(Sub(k), {i})
    BY <1>4 DEF Roots
  <2>2. OneParent(Sub(k))
    BY <1>0, SubOneParent
  <2> QED BY <1>4, <2>1, <2>2, Apart
<1>6. D \subseteq Item /\ Closed(Sub(k), D)
  BY <1>4, ReachedClosed
<1>7. NewItem("free") \in Cell
  BY DEF NewItem, Cell
<1>8. g \in Memory
  BY <1>0, <1>3, <1>7 DEF Memory
<1>9. n \in Lists
  <2>1. <<>> \in Seq(Item)
    OBVIOUS
  <2> QED BY <1>0, <2>1 DEF Lists
<1>10. \A j \in Item : g[j] = IF j \in D THEN NewItem("free") ELSE h[j]
  BY <1>3
<1>11. \A j \in Item : n[j] = IF j \in D THEN <<>> ELSE k[j]
  OBVIOUS
<1> HIDE DEF g, n
<1>12. ASSUME NEW c \in Item, NEW p \in 1 .. Len(n[c])
       PROVE  c \notin D /\ n[c] = k[c] /\ k[c][p] \in Item \ D /\ g[k[c][p]] = h[k[c][p]]
  <2>1. c \notin D /\ n[c] = k[c]
    <3>1. ASSUME c \in D PROVE FALSE
      <4>1. n[c] = <<>>
        BY <1>11, <3>1
      <4>2. p \in 1 .. 0
        BY <4>1, EmptySeq
      <4> QED BY <4>2
    <3> QED BY <1>11, <3>1
  <2>2. k[c][p] \in Item /\ In(k[c][p], k[c])
    BY <1>0, <2>1, ListOf DEF In
  <2>3. k[c][p] \notin D
    BY <1>4, <1>5, <2>1, <2>2
  <2> QED BY <1>10, <2>1, <2>2, <2>3
<1>13. Forward(g, n)
  <2>1. ASSUME NEW c \in Item, g[c].type = "free" \/ g[c].ref PROVE n[c] = <<>>
    BY <1>0, <1>10, <1>11, <2>1 DEF Forward
  <2>2. ASSUME NEW c \in Item, ~g[c].ref PROVE g[c].child = FirstOf(n[c])
    <3>1. CASE c \in D
      <4>1. g[c] = NewItem("free") /\ n[c] = <<>>
        BY <3>1, <1>10, <1>11
      <4>2. NewItem("free").child = NoItem
        BY DEF NewItem
      <4>3. FirstOf(<<>>) = NoItem
        BY DEF FirstOf
      <4> QED BY <4>1, <4>2, <4>3
    <3>2. CASE c \notin D
      BY <3>2, <1>0, <1>10, <1>11, <2>2 DEF Forward
    <3> QED BY <3>1, <3>2
  <2>3. ASSUME NEW c \in Item, NEW p \in 1 .. Len(n[c])
        PROVE  g[n[c][p]].type # "free" /\ g[n[c][p]].next = After(n[c], p)
    BY <1>0, <1>12, <2>3 DEF Forward
  <2> QED BY <2>1, <2>2, <2>3 DEF Forward
<1>14. Backward(g, n)
  BY <1>0, <1>12 DEF Backward
<1>15. Unshared(n)
  BY <1>0, <1>12 DEF Unshared
<1>16. Loose(g, n)
  <2>1. ASSUME NEW j \in Item, \A c \in Item : ~In(j, n[c])
        PROVE  g[j].next = NoItem /\ g[j].prev = NoItem
    <3>1. CASE j \in D
      BY <3>1, <1>10 DEF NewItem
    <3>2. CASE j \notin D
      <4>1. \A c \in Item : ~In(j, k[c])
        <5> SUFFICES ASSUME NEW c \in Item, In(j, k[c]) PROVE FALSE
          OBVIOUS
        <5>1. c \notin D
          BY <3>2, <1>4, <1>6 DEF Closed
        <5> QED BY <5>1, <1>11, <2>1
      <4> QED BY <4>1, <3>2, <1>0, <1>10 DEF Loose
    <3> QED BY <3>1, <3>2
  <2>2. ASSUME NEW j \in Item, g[j].type = "free" PROVE g[j] = NewItem("free")
    BY <1>0, <1>10, <2>2 DEF Loose
  <2> QED BY <2>1, <2>2 DEF Loose
<1>17. Names(g)
  <2>1. NewItem("free").type = "free"
    BY DEF NewItem
  <2> QED BY <1>0, <1>10, <2>1 DEF Names
<1> QED BY <1>3, <1>8, <1>9, <1>13, <1>14, <1>15, <1>16, <1>17 DEF Shape, g, n, Cleared, Blank

\* An item that has just been allocated: a leaf or a reference.
Newborn(x) ==
  /\ x.type # "free" /\ x.next = NoItem /\ x.prev = NoItem /\ (x.ref \/ x.child = NoItem)
  /\ x.copied = (x.name # NoName /\ ~x.constant)

\* New items disturb no list.
LEMMA FreshShape ==
  ASSUME NEW h, NEW k, Shape(h, k), NEW g \in Memory,
         \A j \in Item : g[j] = h[j] \/ (h[j].type = "free" /\ Newborn(g[j]))
  PROVE  Shape(g, k)
<1>0. h \in Memory /\ k \in Lists /\ Forward(h, k) /\ Backward(h, k) /\ Unshared(k) /\ Loose(h, k) /\ Names(h)
  BY DEF Shape
<1>1. ASSUME NEW c \in Item, NEW p \in 1 .. Len(k[c])
      PROVE  k[c][p] \in Item /\ g[k[c][p]] = h[k[c][p]] /\ h[k[c][p]].type # "free"
  BY <1>0, ListOf DEF Forward
<1>2. Forward(g, k)
  <2>1. ASSUME NEW c \in Item, g[c].type = "free" \/ g[c].ref PROVE k[c] = <<>>
    BY <1>0, <2>1 DEF Forward, Newborn
  <2>2. ASSUME NEW c \in Item, ~g[c].ref PROVE g[c].child = FirstOf(k[c])
    BY <1>0, <2>2 DEF Forward, Newborn, FirstOf
  <2>3. ASSUME NEW c \in Item, NEW p \in 1 .. Len(k[c])
        PROVE  g[k[c][p]].type # "free" /\ g[k[c][p]].next = After(k[c], p)
    BY <1>0, <1>1 DEF Forward
  <2> QED BY <2>1, <2>2, <2>3 DEF Forward
<1>3. Backward(g, k)
  BY <1>0, <1>1 DEF Backward
<1>4. Loose(g, k)
  BY <1>0 DEF Loose, Newborn
<1>5. Names(g)
  BY <1>0 DEF Names, Newborn
<1> QED BY <1>0, <1>2, <1>3, <1>4, <1>5 DEF Shape

\* Nor does a change of names.
LEMMA RenamedShape ==
  ASSUME NEW h, NEW k, Shape(h, k), NEW g \in Memory, Names(g),
         \A j \in Item : /\ g[j].type = h[j].type /\ g[j].ref = h[j].ref /\ g[j].next = h[j].next
                         /\ g[j].prev = h[j].prev /\ g[j].child = h[j].child
                         /\ h[j].type = "free" => g[j] = h[j]
  PROVE  Shape(g, k)
<1>0. h \in Memory /\ k \in Lists /\ Forward(h, k) /\ Backward(h, k) /\ Unshared(k) /\ Loose(h, k)
  BY DEF Shape
<1>1. \A c \in Item : \A p \in 1 .. Len(k[c]) : k[c][p] \in Item
  BY <1>0, ListOf
<1>2. Forward(g, k) /\ Backward(g, k)
  BY <1>0, <1>1 DEF Forward, Backward
<1>3. Loose(g, k)
  BY <1>0 DEF Loose
<1> QED BY <1>0, <1>2, <1>3 DEF Shape

-----------------------------------------------------------------------------
(***************************************************************************)
(* Sound: the lists are trees, and what is allocated is below what the     *)
(* caller holds.                                                           *)
(***************************************************************************)

\* The items s are in no list, and all that is allocated is below them; lost
\* references are the exception.
Rooted(h, k, s) ==
  /\ \A i \in s : Unlisted(h, k, i)
  /\ \A i \in Item : h[i].type # "free" =>
       i \in Reached(Sub(k), s) \/ (h[i].ref /\ h[i].name = NoName)

\* A reference that can be reached shows a list that is there.
Shows(h, k, s) ==
  \A r \in Reached(Sub(k), s) : h[r].ref /\ h[r].child # NoItem =>
    \E c \in Item : k[c] # <<>> /\ h[r].child = k[c][1]

\* The inductive invariant, of a memory h, the lists k and the caller's items s.
\* OneOwner alone is not inductive: it needs the pointers, and they need the trees.
Sound(h, k, s) == Shape(h, k) /\ Rooted(h, k, s) /\ Shows(h, k, s)

\* What Sound says of the trees.
LEMMA SoundFacts ==
  ASSUME NEW h, NEW k, NEW s, Sound(h, k, s)
  PROVE  /\ h \in Memory /\ k \in Lists /\ Unshared(k) /\ Sub(k) \in Graph /\ s \in SUBSET Item
         /\ OneParent(Sub(k)) /\ Roots(Sub(k), s)
         /\ Reached(Sub(k), s) \subseteq Item /\ s \subseteq Reached(Sub(k), s)
         /\ Closed(Sub(k), Reached(Sub(k), s))
         /\ \A i \in Reached(Sub(k), s) : h[i].type # "free"
         /\ \A c \in Item : \A i : i \in Sub(k)[c] <=> In(i, k[c])
         /\ Owned(h) = k
<1>1. /\ h \in Memory /\ k \in Lists /\ Unshared(k) /\ Forward(h, k) /\ Rooted(h, k, s)
  BY DEF Sound, Shape
<1>2. s \in SUBSET Item
  BY <1>1 DEF Rooted, Unlisted
<1>3. Sub(k) \in Graph /\ \A c \in Item : \A i : i \in Sub(k)[c] <=> In(i, k[c])
  BY <1>1, SubIs
<1>4. OneParent(Sub(k))
  BY <1>1, SubOneParent
<1>5. Roots(Sub(k), s)
  BY <1>1, <1>3 DEF Roots, Rooted, Unlisted
<1>6. /\ Reached(Sub(k), s) \subseteq Item /\ s \subseteq Reached(Sub(k), s)
      /\ Closed(Sub(k), Reached(Sub(k), s))
  BY <1>2, <1>3, ReachedClosed
<1>7. ASSUME NEW i \in Reached(Sub(k), s) PROVE h[i].type # "free"
  <2>1. CASE i \in s
    BY <1>1, <2>1 DEF Rooted, Unlisted
  <2>2. CASE i \notin s
    <3>1. PICK j \in Reached(Sub(k), s) : i \in Sub(k)[j]
      BY <1>2, <1>3, <2>2, ReachedFrom
    <3>2. j \in Item /\ In(i, k[j])
      BY <1>3, <1>6, <3>1
    <3> QED BY <1>1, <3>2 DEF In, Forward
  <2> QED BY <2>1, <2>2
<1>8. Owned(h) = k
  BY <1>1, OwnedAre
<1> QED BY <1>1, <1>2, <1>3, <1>4, <1>5, <1>6, <1>7, <1>8

\* A change of one list keeps Sound, if the same items are below u as before below s,
\* and no reference shows a head that is no more.
LEMMA SoundEdit ==
  ASSUME NEW h, NEW k, NEW s, Sound(h, k, s), NEW c \in Item, NEW t, NEW g,
         NEW n, n = Edit(k, c, t), Shape(g, n),
         Kept(g, h, c), ~h[c].ref,
         NEW u \in SUBSET Item, Reached(Sub(n), u) = Reached(Sub(k), s),
         \A i \in u : Unlisted(h, n, i),
         \/ k[c] = <<>> \/ (t # <<>> /\ t[1] = k[c][1])
         \/ \A r \in Reached(Sub(k), s) : h[r].ref => h[r].child # k[c][1]
  PROVE  Sound(g, n, u)
<1>0. /\ h \in Memory /\ k \in Lists /\ Reached(Sub(k), s) \subseteq Item
      /\ Rooted(h, k, s) /\ Shows(h, k, s)
      /\ \A j \in Item : SameItem(g[j], h[j])
      /\ \A j \in Item \ {c} : g[j].child = h[j].child
  BY SoundFacts DEF Sound, Kept
<1>1. n[c] = t /\ \A d \in Item \ {c} : n[d] = k[d]
  BY <1>0 DEF Lists, Edit
<1>2. Rooted(g, n, u)
  <2>1. \A i \in u : Unlisted(g, n, i)
    BY <1>0 DEF Unlisted, SameItem
  <2>2. \A i \in Item : g[i].type # "free" =>
          i \in Reached(Sub(n), u) \/ (g[i].ref /\ g[i].name = NoName)
    BY <1>0 DEF Rooted, SameItem
  <2> QED BY <2>1, <2>2 DEF Rooted
<1>3. Shows(g, n, u)
  <2> SUFFICES ASSUME NEW r \in Reached(Sub(k), s), g[r].ref, g[r].child # NoItem
               PROVE  \E d \in Item : n[d] # <<>> /\ g[r].child = n[d][1]
    BY DEF Shows
  <2>1. r \in Item /\ r # c /\ h[r].ref /\ h[r].child = g[r].child
    BY <1>0 DEF SameItem
  <2>2. PICK d \in Item : k[d] # <<>> /\ h[r].child = k[d][1]
    BY <1>0, <2>1 DEF Shows
  <2>3. CASE d = c
    <3>1. t # <<>> /\ t[1] = k[c][1]
      BY <2>1, <2>2, <2>3
    <3> QED BY <1>1, <2>1, <2>2, <2>3, <3>1
  <2>4. CASE d # c
    BY <1>1, <2>1, <2>2, <2>4
  <2> QED BY <2>3, <2>4
<1> QED BY <1>2, <1>3 DEF Sound

\* g has one item more, and it is the caller's.
Created(g, k, s, i) ==
  /\ Sound(g, k, s \cup {i}) /\ Reached(Sub(k), {i}) = {i}
  /\ k[i] = <<>> /\ i \notin s /\ i \notin Reached(Sub(k), s) /\ \A d \in Item : ~In(i, k[d])

\* A new item keeps Sound.
LEMMA SoundCreate ==
  ASSUME NEW h, NEW k, NEW s, Sound(h, k, s), NEW i \in Item, h[i].type = "free",
         NEW x \in Cell, Newborn(x),
         x.ref /\ x.child # NoItem => \E c \in Item : k[c] # <<>> /\ x.child = k[c][1],
         NEW g, g = [h EXCEPT ![i] = x]
  PROVE  Created(g, k, s, i)
<1>0. /\ h \in Memory /\ k \in Lists /\ Reached(Sub(k), s) \subseteq Item /\ s \in SUBSET Item /\ Sub(k) \in Graph
      /\ \A c \in Item : \A j : j \in Sub(k)[c] <=> In(j, k[c])
      /\ \A j \in Reached(Sub(k), s) : h[j].type # "free"
  BY SoundFacts
<1>1. Rooted(h, k, s) /\ Shows(h, k, s) /\ Shape(h, k) /\ Forward(h, k)
  BY DEF Sound, Shape
<1>2. /\ g \in Memory /\ g[i] = x /\ \A j \in Item \ {i} : g[j] = h[j]
  BY <1>0 DEF Memory
<1>3. Shape(g, k)
  <2>1. \A j \in Item : g[j] = h[j] \/ (h[j].type = "free" /\ Newborn(g[j]))
    BY <1>2
  <2> QED BY <1>1, <1>2, <2>1, FreshShape
<1>4. k[i] = <<>> /\ \A d \in Item : ~In(i, k[d])
  BY <1>1 DEF Forward, In
<1>5. i \notin s /\ i \notin Reached(Sub(k), s)
  BY <1>0, <1>1 DEF Rooted, Unlisted
<1>6. Reached(Sub(k), {i}) = {i}
  <2>1. Sub(k)[i] = {}
    <3>1. ~\E j : In(j, <<>>)
      BY DEF In
    <3> QED BY <1>0, <1>4, <3>1
  <2>2. Closed(Sub(k), {i}) /\ {i} \in SUBSET Item
    BY <2>1 DEF Closed
  <2> QED BY <1>0, <2>2, ReachedSelf
<1>7. Reached(Sub(k), s \cup {i}) = Reached(Sub(k), s) \cup {i}
  BY <1>0, <1>6, ReachedFromMore, {i} \in SUBSET Item
<1>8. Rooted(g, k, s \cup {i})
  <2>1. \A j \in s \cup {i} : Unlisted(g, k, j)
    BY <1>0, <1>1, <1>2, <1>4 DEF Rooted, Unlisted, Newborn
  <2>2. \A j \in Item : g[j].type # "free" =>
          j \in Reached(Sub(k), s) \cup {i} \/ (g[j].ref /\ g[j].name = NoName)
    BY <1>1, <1>2 DEF Rooted
  <2> QED BY <1>7, <2>1, <2>2 DEF Rooted
<1>9. Shows(g, k, s \cup {i})
  <2> SUFFICES ASSUME NEW r \in Reached(Sub(k), s) \cup {i}, g[r].ref, g[r].child # NoItem
               PROVE  \E c \in Item : k[c] # <<>> /\ g[r].child = k[c][1]
    BY <1>7 DEF Shows
  <2>1. CASE r = i
    BY <1>2, <2>1
  <2>2. CASE r # i
    BY <1>0, <1>1, <1>2, <2>2 DEF Shows
  <2> QED BY <2>1, <2>2
<1> QED BY <1>3, <1>4, <1>5, <1>6, <1>8, <1>9 DEF Sound, Created

\* A reference without a name may be lost.
LEMMA SoundLeak ==
  ASSUME NEW h, NEW k, NEW s, NEW r \in Item, Sound(h, k, s \cup {r}), s \in SUBSET Item,
         h[r].ref, h[r].name = NoName
  PROVE  Sound(h, k, s)
<1>0. k \in Lists /\ Sub(k) \in Graph /\ Rooted(h, k, s \cup {r}) /\ Shows(h, k, s \cup {r}) /\ Shape(h, k)
      /\ Forward(h, k) /\ \A c \in Item : \A j : j \in Sub(k)[c] <=> In(j, k[c])
  BY SoundFacts DEF Sound, Shape
<1>1. Sub(k)[r] = {}
  <2>1. k[r] = <<>>
    BY <1>0 DEF Forward
  <2>2. ~\E j : In(j, <<>>)
    BY DEF In
  <2> QED BY <1>0, <2>1, <2>2
<1>2. Reached(Sub(k), {r}) = {r}
  <2>1. Closed(Sub(k), {r}) /\ {r} \in SUBSET Item
    BY <1>1 DEF Closed
  <2> QED BY <1>0, <2>1, ReachedSelf
<1>3. Reached(Sub(k), s \cup {r}) = Reached(Sub(k), s) \cup {r}
  BY <1>0, <1>2, ReachedFromMore, {r} \in SUBSET Item
<1>4. Rooted(h, k, s)
  BY <1>0, <1>3 DEF Rooted
<1>5. Shows(h, k, s)
  BY <1>0, <1>3 DEF Shows
<1> QED BY <1>0, <1>4, <1>5 DEF Sound

\* No item is below itself.
LEMMA Acyclic ==
  ASSUME NEW to \in Graph, NEW s \in SUBSET Item, OneParent(to), Roots(to, s),
         NEW c \in Reached(to, s), NEW i \in to[c]
  PROVE  c \notin Reached(to, {i})
<1> DEFINE R == Reached(to, s)
           D == Reached(to, {i})
<1>1. R \in SUBSET Item /\ s \subseteq R /\ Closed(to, R)
  BY ReachedClosed
<1>2. i \in Item /\ {i} \in SUBSET Item
  BY <1>1 DEF Graph
<1>3. D \in SUBSET Item /\ i \in D /\ Closed(to, D)
  BY <1>2, ReachedClosed
<1>4. ASSUME NEW y \in D, y # i PROVE \E z \in D : y \in to[z]
  BY <1>2, <1>4, ReachedFrom
<1>5. SUFFICES ASSUME c \in D PROVE FALSE
  OBVIOUS
<1> HIDE DEF D, R
<1>6. s \subseteq R \ D
  BY <1>1, <1>3, <1>4, <1>5 DEF Roots
<1>7. Closed(to, R \ D)
  <2> SUFFICES ASSUME NEW x \in R \ D, NEW y \in to[x], y \in D PROVE FALSE
    BY <1>1 DEF Closed
  <2>1. CASE y = i
    BY <1>1, <1>3, <1>5, <2>1 DEF OneParent
  <2>2. CASE y # i
    <3>1. PICK z \in D : y \in to[z]
      BY <1>4, <2>2
    <3> QED BY <1>1, <1>3, <3>1 DEF OneParent
  <2> QED BY <2>1, <2>2
<1>8. R \subseteq R \ D
  <2>1. R \ D \in SUBSET Item
    BY <1>1
  <2> QED BY <1>6, <1>7, <2>1, ReachedLeast DEF R
<1> QED BY <1>5, <1>8 DEF R

\* Only references within D show what is in D.
OwnUse(h, k, s, D) ==
  \A r \in Reached(Sub(k), s) \ D : h[r].ref => h[r].child \notin D

\* cJSON_Delete of an item of the caller blanks its tree.
LEMMA FreeIsBlank ==
  ASSUME NEW h, NEW k, NEW s, Sound(h, k, s), NEW i \in s
  PROVE  Free(h, i) = Blank(h, Reached(Sub(k), {i}))
<1>1. Shape(h, k) /\ i \in Item /\ \A d \in Item : ~In(i, k[d])
  BY DEF Sound, Rooted, Unlisted
<1> DEFINE D == Reached(Sub(k), {i})
<1>2. D = Reached(Sub(k), {i})
  OBVIOUS
<1> HIDE DEF D
<1>3. Free(h, i) = Blank(h, D) /\ Shape(Free(h, i), Cleared(k, D))
  BY ONLY <1>1, <1>2, FreedShape
<1> QED BY <1>3 DEF D

\* cJSON_Delete keeps Sound, and all that was not in the tree can still be reached.
LEMMA SoundFree ==
  ASSUME NEW h, NEW k, NEW s, Sound(h, k, s), NEW i \in s, NEW D, D = Reached(Sub(k), {i}),
         OwnUse(h, k, s, D),
         NEW n, n = Cleared(k, D)
  PROVE  /\ Sound(Free(h, i), n, s \ {i})
         /\ Reached(Sub(n), s \ {i}) = Reached(Sub(k), s) \ D
<1> DEFINE g == Free(h, i)
           R == Reached(Sub(k), s)
<1>0. /\ h \in Memory /\ k \in Lists /\ Unshared(k) /\ Sub(k) \in Graph /\ s \in SUBSET Item
      /\ OneParent(Sub(k)) /\ Roots(Sub(k), s) /\ R \subseteq Item /\ i \in Item
      /\ \A c \in Item : \A j : j \in Sub(k)[c] <=> In(j, k[c])
  BY SoundFacts
<1>1. Rooted(h, k, s) /\ Shows(h, k, s) /\ Shape(h, k)
  BY DEF Sound
<1>2. \A d \in Item : ~In(i, k[d])
  BY <1>1 DEF Rooted, Unlisted
<1>3. g = Blank(h, D) /\ Shape(g, n)
  <2>1. Shape(h, k) /\ i \in Item
    BY <1>0, <1>1
  <2> QED BY ONLY <2>1, <1>2, n = Cleared(k, D), D = Reached(Sub(k), {i}), FreedShape
<1> HIDE DEF g
<1>4. n \in Lists /\ \A j \in Item : n[j] = IF j \in D THEN <<>> ELSE k[j]
  BY <1>3 DEF Shape, Cleared
<1>5. \A j \in Item : g[j] = IF j \in D THEN NewItem("free") ELSE h[j]
  BY <1>3 DEF Blank
<1>6. D \in SUBSET Item /\ i \in D /\ Closed(Sub(k), D)
  BY <1>0, ReachedClosed, {i} \in SUBSET Item
<1>7. Sub(n) \in Graph /\ \A x \in Item : Sub(n)[x] = IF x \in D THEN {} ELSE Sub(k)[x]
  <2>1. Sub(n) \in Graph /\ \A c \in Item : \A j : j \in Sub(n)[c] <=> In(j, n[c])
    BY <1>4, SubIs
  <2>2. ~\E j : In(j, <<>>)
    BY DEF In
  <2> SUFFICES ASSUME NEW x \in Item PROVE Sub(n)[x] = IF x \in D THEN {} ELSE Sub(k)[x]
    BY <2>1
  <2>3. CASE x \in D
    BY <1>4, <2>1, <2>2, <2>3
  <2>4. CASE x \notin D
    BY <1>0, <1>4, <2>1, <2>4
  <2> QED BY <2>3, <2>4
<1>8. Reached(Sub(n), s \ {i}) = R \ D
  <2>1. Roots(Sub(k), s \cup {i})
    BY <1>0 DEF Roots
  <2>2. \A x \in Item : Sub(n)[x] = IF x \in Reached(Sub(k), {i}) THEN {} ELSE Sub(k)[x]
    BY <1>7
  <2> DEFINE e == Sub(n)
             f == Sub(k)
  <2>3. Reached(e, s \ {i}) = Reached(f, s) \ Reached(f, {i})
    <3>1. e \in Graph /\ f \in Graph /\ s \in SUBSET Item /\ i \in Item /\ OneParent(f) /\ Roots(f, s \cup {i})
          /\ \A x \in Item : e[x] = IF x \in Reached(f, {i}) THEN {} ELSE f[x]
      BY <1>0, <1>7, <2>1, <2>2
    <3> HIDE DEF e, f
    <3> QED BY ONLY <3>1, Cut
  <2> QED BY <2>3
<1>9. (s \ {i}) \cap D = {}
  <2> SUFFICES ASSUME NEW y \in s \ {i}, y \in D PROVE FALSE
    OBVIOUS
  <2>1. PICK z \in D : y \in Sub(k)[z]
    BY <1>0, ReachedFrom, {i} \in SUBSET Item
  <2> QED BY <1>0, <1>6, <2>1 DEF Roots
<1>10. Rooted(g, n, s \ {i})
  <2>1. \A j \in s \ {i} : Unlisted(g, n, j)
    <3> SUFFICES ASSUME NEW j \in s \ {i} PROVE Unlisted(g, n, j)
      OBVIOUS
    <3>1. Unlisted(h, k, j)
      BY <1>1 DEF Rooted
    <3>2. ~In(j, <<>>)
      BY DEF In
    <3> QED BY <1>0, <1>4, <1>5, <1>9, <3>1, <3>2 DEF Unlisted
  <2>2. \A j \in Item : g[j].type # "free" =>
          j \in R \ D \/ (g[j].ref /\ g[j].name = NoName)
    <3>1. NewItem("free").type = "free"
      BY DEF NewItem
    <3> QED BY <1>1, <1>5, <3>1 DEF Rooted
  <2> QED BY <1>8, <2>1, <2>2 DEF Rooted
<1>11. Shows(g, n, s \ {i})
  <2> SUFFICES ASSUME NEW r \in R \ D, g[r].ref, g[r].child # NoItem
               PROVE  \E c \in Item : n[c] # <<>> /\ g[r].child = n[c][1]
    BY <1>8 DEF Shows
  <2>1. g[r] = h[r] /\ h[r].ref /\ h[r].child # NoItem /\ h[r].child \notin D
    BY <1>0, <1>5 DEF OwnUse
  <2>2. PICK c \in Item : k[c] # <<>> /\ h[r].child = k[c][1]
    BY <1>1, <2>1 DEF Shows
  <2>3. c \notin D
    <3>1. 1 \in 1 .. Len(k[c])
      BY <1>0, <2>2, ListOf
    <3>2. k[c][1] \in Sub(k)[c]
      BY <1>0, <3>1 DEF In
    <3> QED BY <1>6, <2>1, <2>2, <3>2 DEF Closed
  <2> QED BY <1>4, <2>1, <2>2, <2>3
<1> QED BY <1>3, <1>8, <1>10, <1>11 DEF Sound, g

-----------------------------------------------------------------------------
(***************************************************************************)
(* Sound after an item has come into a list.                               *)
(***************************************************************************)

\* No reference shows the list of c.
Unseen(h, k, s, c) ==
  k[c] = <<>> \/ \A r \in Reached(Sub(k), s) : h[r].ref => h[r].child # k[c][1]

\* The ways, when one list is edited.
LEMMA SubEdit ==
  ASSUME NEW k \in Lists, NEW c \in Item, NEW t \in Seq(Item), NEW n, n = Edit(k, c, t)
  PROVE  /\ n \in Lists /\ n[c] = t /\ \A x \in Item \ {c} : n[x] = k[x]
         /\ Sub(n) \in Graph /\ \A j : j \in Sub(n)[c] <=> In(j, t)
         /\ \A x \in Item \ {c} : Sub(n)[x] = Sub(k)[x]
<1>1. n \in Lists /\ n[c] = t /\ \A x \in Item \ {c} : n[x] = k[x]
  BY DEF Lists, Edit
<1>2. Sub(n) \in Graph /\ \A d \in Item : \A j : j \in Sub(n)[d] <=> In(j, n[d])
  BY <1>1, SubIs
<1>3. \A d \in Item : \A j : j \in Sub(k)[d] <=> In(j, k[d])
  BY SubIs
<1>4. ASSUME NEW x \in Item \ {c} PROVE Sub(n)[x] = Sub(k)[x]
  BY <1>1, <1>4 DEF Sub
<1> QED BY <1>1, <1>2, <1>4

\* An item of the caller that comes into a list keeps Sound: the tree that it heads
\* hangs under c from now on.
LEMMA SoundAdd ==
  ASSUME NEW h, NEW k, NEW s, Sound(h, k, s), NEW i \in s, NEW c \in Reached(Sub(k), s),
         c \notin Reached(Sub(k), {i}), ~h[c].ref,
         NEW t \in Seq(Item), \A j \in Item : In(j, t) <=> In(j, k[c]) \/ j = i,
         NEW n, n = Edit(k, c, t), NEW g, Shape(g, n), Kept(g, h, c),
         Unseen(h, k, s, c) \/ (t # <<>> /\ t[1] = k[c][1])
  PROVE  Sound(g, n, s \ {i}) /\ Reached(Sub(n), s \ {i}) = Reached(Sub(k), s)
<1>0. /\ k \in Lists /\ Sub(k) \in Graph /\ s \in SUBSET Item /\ i \in Item /\ c \in Item
      /\ Reached(Sub(k), s) \subseteq Item /\ Rooted(h, k, s)
      /\ \A d \in Item : \A j : j \in Sub(k)[d] <=> In(j, k[d])
  BY SoundFacts DEF Sound
<1>1. /\ n \in Lists /\ n[c] = t /\ \A x \in Item \ {c} : n[x] = k[x]
      /\ Sub(n) \in Graph /\ \A j : j \in Sub(n)[c] <=> In(j, t)
      /\ \A x \in Item \ {c} : Sub(n)[x] = Sub(k)[x]
  <2>1. k \in Lists /\ c \in Item /\ t \in Seq(Item) /\ n = Edit(k, c, t)
    BY <1>0
  <2> QED BY ONLY <2>1, SubEdit
<1>2. AddsEdge(Sub(n), Sub(k), c, i)
  BY <1>0, <1>1 DEF AddsEdge
<1>3. Reached(Sub(n), s \ {i}) = Reached(Sub(k), s \cup {i})
  BY <1>0, <1>1, <1>2, Added
<1>4. s \cup {i} = s
  OBVIOUS
<1>5. Reached(Sub(n), s \ {i}) = Reached(Sub(k), s)
  BY <1>3, <1>4
<1>6. \A j \in s \ {i} : Unlisted(h, n, j)
  BY <1>0, <1>1 DEF Rooted, Unlisted
<1>7. s \ {i} \in SUBSET Item
  BY <1>0
<1>8. Sound(g, n, s \ {i})
  <2>1. \/ k[c] = <<>> \/ (t # <<>> /\ t[1] = k[c][1])
        \/ \A r \in Reached(Sub(k), s) : h[r].ref => h[r].child # k[c][1]
    BY DEF Unseen
  <2> QED BY <1>0, <1>5, <1>6, <1>7, <2>1, SoundEdit
<1> QED BY <1>5, <1>8

\* So it is when it is appended, even if a reference shows the list.
LEMMA SoundAdded ==
  ASSUME NEW h, NEW k, NEW s, Sound(h, k, s), NEW i \in s, NEW c \in Reached(Sub(k), s),
         c \notin Reached(Sub(k), {i}), ~h[c].ref,
         NEW n, n = Edit(k, c, Append(k[c], i))
  PROVE  /\ Sound(AddItemToArray(h, c, i), n, s \ {i})
         /\ Reached(Sub(n), s \ {i}) = Reached(Sub(k), s)
         /\ Kept(AddItemToArray(h, c, i), h, c)
<1> DEFINE t == Append(k[c], i)
           g == AddItemToArray(h, c, i)
<1>0. /\ k \in Lists /\ c \in Item /\ i \in Item /\ h[c].type # "free" /\ Unlisted(h, k, i) /\ Shape(h, k)
  BY SoundFacts DEF Sound, Rooted
<1>1. k[c] \in Seq(Item) /\ Len(k[c]) \in Nat
  BY <1>0, ListOf
<1>2. /\ t \in Seq(Item) /\ Len(t) = Len(k[c]) + 1 /\ t[Len(k[c]) + 1] = i
      /\ \A p \in 1 .. Len(k[c]) : t[p] = k[c][p]
      /\ t # <<>>
  BY <1>0, <1>1, AppendProperties
<1>3. \A j \in Item : In(j, t) <=> In(j, k[c]) \/ j = i
  <2> HIDE DEF t
  <2>1. In(i, t)
    BY <1>1, <1>2 DEF In
  <2>2. ASSUME NEW j \in Item, In(j, k[c]) PROVE In(j, t)
    BY <2>2, <1>1, <1>2 DEF In
  <2>3. ASSUME NEW j \in Item, In(j, t), j # i PROVE In(j, k[c])
    BY <2>3, <1>1, <1>2 DEF In
  <2> QED BY <2>1, <2>2, <2>3
<1>4. Shape(g, n) /\ Kept(g, h, c)
  <2>1. Shape(g, Edit(k, c, t)) /\ Kept(g, h, c)
    BY <1>0, AddedShape DEF Edit
  <2> HIDE DEF g, t
  <2> QED BY <2>1 DEF t
<1>5. Unseen(h, k, s, c) \/ t[1] = k[c][1]
  <2>1. k[c] # <<>> => 1 \in 1 .. Len(k[c])
    BY <1>0, ListOf
  <2> HIDE DEF t
  <2> QED BY <1>2, <2>1 DEF Unseen
<1>6. n = Edit(k, c, t)
  OBVIOUS
<1> HIDE DEF t, g
<1>7. Sound(g, n, s \ {i}) /\ Reached(Sub(n), s \ {i}) = Reached(Sub(k), s)
  <2>1. /\ Sound(h, k, s) /\ i \in s /\ c \in Reached(Sub(k), s) /\ c \notin Reached(Sub(k), {i}) /\ ~h[c].ref
        /\ t \in Seq(Item) /\ n = Edit(k, c, t) /\ Shape(g, n) /\ Kept(g, h, c)
        /\ (Unseen(h, k, s, c) \/ (t # <<>> /\ t[1] = k[c][1]))
    BY <1>2, <1>4, <1>5, <1>6
  <2> QED BY ONLY <1>3, <2>1, SoundAdd
<1> QED BY <1>4, <1>7 DEF g

\* Who is in a sequence after an insertion.
LEMMA InInserted ==
  ASSUME NEW s \in Seq(Item), NEW q \in 1 .. Len(s), NEW i \in Item
  PROVE  /\ InsertAt(s, q, i) \in Seq(Item)
         /\ \A j \in Item : In(j, InsertAt(s, q, i)) <=> In(j, s) \/ j = i
<1> DEFINE t == InsertAt(s, q, i)
<1>1. Len(s) \in Nat
  BY LenProperties
<1>2. /\ t \in Seq(Item) /\ Len(t) = Len(s) + 1
      /\ \A p \in 1 .. Len(s) + 1 : t[p] = IF p < q THEN s[p] ELSE IF p = q THEN i ELSE s[p - 1]
  <2>1. q \in 1 .. Len(s) + 1
    BY <1>1
  <2> QED BY <2>1, InsertAtIs
<1> HIDE DEF t
<1>3. \A j \in Item : In(j, t) <=> In(j, s) \/ j = i
  <2> SUFFICES ASSUME NEW j \in Item PROVE In(j, t) <=> In(j, s) \/ j = i
    OBVIOUS
  <2>1. In(i, t)
    <3>1. q \in 1 .. Len(t) /\ t[q] = i
      BY <1>1, <1>2
    <3> QED BY <3>1 DEF In
  <2>2. ASSUME In(j, s) PROVE In(j, t)
    <3>1. PICK p \in 1 .. Len(s) : s[p] = j
      BY <2>2 DEF In
    <3>2. CASE p < q
      <4>1. p \in 1 .. Len(t) /\ t[p] = j
        BY <1>1, <1>2, <3>1, <3>2
      <4> QED BY <4>1 DEF In
    <3>3. CASE p >= q
      <4>1. p + 1 \in 1 .. Len(t) /\ t[p + 1] = s[(p + 1) - 1] /\ (p + 1) - 1 = p
        BY <1>1, <1>2, <3>1, <3>3
      <4> QED BY <3>1, <4>1 DEF In
    <3> QED BY <3>1, <3>2, <3>3, <1>1
  <2>3. ASSUME In(j, t), j # i PROVE In(j, s)
    <3>1. PICK p \in 1 .. Len(t) : t[p] = j
      BY <2>3 DEF In
    <3>2. CASE p < q
      <4>1. p \in 1 .. Len(s) /\ s[p] = j
        BY <1>1, <1>2, <3>1, <3>2
      <4> QED BY <4>1 DEF In
    <3>3. CASE p > q
      <4>1. p - 1 \in 1 .. Len(s) /\ s[p - 1] = j
        BY <1>1, <1>2, <3>1, <3>3
      <4> QED BY <4>1 DEF In
    <3>4. p # q
      BY <1>1, <1>2, <2>3, <3>1
    <3> QED BY <3>1, <3>2, <3>3, <3>4, <1>1, <1>2
  <2> QED BY <2>1, <2>2, <2>3
<1> QED BY <1>2, <1>3 DEF t

\* So it is when it is inserted, if no reference shows the list.
LEMMA SoundInserted ==
  ASSUME NEW h, NEW k, NEW s, Sound(h, k, s), NEW i \in s, NEW c \in Reached(Sub(k), s),
         c \notin Reached(Sub(k), {i}), ~h[c].ref, Unseen(h, k, s, c),
         NEW q \in 1 .. Len(k[c]), GetArrayItem(h, c, q) = k[c][q],
         NEW n, n = Edit(k, c, InsertAt(k[c], q, i))
  PROVE  /\ Sound(InsertItemInArray(h, c, q, i), n, s \ {i})
         /\ Reached(Sub(n), s \ {i}) = Reached(Sub(k), s)
         /\ Kept(InsertItemInArray(h, c, q, i), h, c)
<1> DEFINE t == InsertAt(k[c], q, i)
           g == InsertItemInArray(h, c, q, i)
<1>0. /\ k \in Lists /\ c \in Item /\ i \in Item /\ h[c].type # "free" /\ Unlisted(h, k, i) /\ Shape(h, k)
  BY SoundFacts DEF Sound, Rooted
<1>1. k[c] \in Seq(Item) /\ Len(k[c]) \in Nat
  BY <1>0, ListOf
<1>2. t \in Seq(Item) /\ \A j \in Item : In(j, t) <=> In(j, k[c]) \/ j = i
  <2> DEFINE u == k[c]
  <2>1. u \in Seq(Item) /\ q \in 1 .. Len(u) /\ i \in Item
    BY <1>0, <1>1
  <2> HIDE DEF u
  <2> QED BY <2>1, InInserted DEF u
<1> HIDE DEF t
<1>3. \A j \in Item : In(j, t) <=> In(j, k[c]) \/ j = i
  BY <1>2
<1>4. Shape(g, n) /\ Kept(g, h, c)
  <2>1. Shape(g, Edit(k, c, InsertAt(k[c], q, i))) /\ Kept(g, h, c)
    BY <1>0, InsertedShape DEF Edit
  <2> HIDE DEF g
  <2> QED BY <2>1
<1>6. n = Edit(k, c, t)
  BY DEF t
<1> HIDE DEF g
<1>7. Sound(g, n, s \ {i}) /\ Reached(Sub(n), s \ {i}) = Reached(Sub(k), s)
  <2>1. /\ Sound(h, k, s) /\ i \in s /\ c \in Reached(Sub(k), s) /\ c \notin Reached(Sub(k), {i}) /\ ~h[c].ref
        /\ t \in Seq(Item) /\ n = Edit(k, c, t) /\ Shape(g, n) /\ Kept(g, h, c)
        /\ Unseen(h, k, s, c)
    BY <1>2, <1>4, <1>6
  <2> QED BY ONLY <1>3, <2>1, SoundAdd
<1> QED BY <1>4, <1>7 DEF g

-----------------------------------------------------------------------------
(***************************************************************************)
(* Sound after an item has left its list, or given its place to another.   *)
(***************************************************************************)

\* Who is in a sequence after a removal.
LEMMA InRemoved ==
  ASSUME NEW s \in Seq(Item), Distinct(s), NEW q \in 1 .. Len(s), NEW j
  PROVE  In(j, RemoveAt(s, q)) <=> In(j, s) /\ j # s[q]
<1> DEFINE t == RemoveAt(s, q)
<1>0. Len(s) \in Nat
  BY LenProperties
<1>1. /\ t \in Seq(Item) /\ Len(t) = Len(s) - 1
      /\ \A p \in 1 .. Len(s) - 1 : t[p] = IF p < q THEN s[p] ELSE s[p + 1]
  BY RemoveAtIs
<1> HIDE DEF t
<1>2. ASSUME In(j, t) PROVE In(j, s) /\ j # s[q]
  <2>1. PICK p \in 1 .. Len(s) - 1 : t[p] = j
    BY <1>1, <1>2 DEF In
  <2>2. CASE p < q
    <3>1. p \in 1 .. Len(s) /\ s[p] = j /\ p # q
      BY <1>0, <1>1, <2>1, <2>2
    <3> QED BY <3>1 DEF In, Distinct
  <2>3. CASE p >= q
    <3>1. p + 1 \in 1 .. Len(s) /\ s[p + 1] = j /\ p + 1 # q
      BY <1>0, <1>1, <2>1, <2>3
    <3> QED BY <3>1 DEF In, Distinct
  <2> QED BY <2>1, <2>2, <2>3, <1>0
<1>3. ASSUME In(j, s), j # s[q] PROVE In(j, t)
  <2>1. PICK p \in 1 .. Len(s) : s[p] = j
    BY <1>3 DEF In
  <2>2. CASE p < q
    <3>1. p \in 1 .. Len(t) /\ t[p] = j
      BY <1>0, <1>1, <2>1, <2>2
    <3> QED BY <3>1 DEF In
  <2>3. CASE p > q
    <3>1. p - 1 \in 1 .. Len(t) /\ t[p - 1] = s[(p - 1) + 1] /\ (p - 1) + 1 = p
      BY <1>0, <1>1, <2>1, <2>3
    <3> QED BY <2>1, <3>1 DEF In
  <2> QED BY <2>1, <2>2, <2>3, <1>0, <1>3
<1> QED BY <1>2, <1>3 DEF t

\* i has come from the list of c into the caller's hands.
Detached(g, h, n, k, s, c, i) ==
  /\ Sound(g, n, s \cup {i})
  /\ Reached(Sub(n), s \cup {i}) = Reached(Sub(k), s)
  /\ Reached(Sub(n), {i}) = Reached(Sub(k), {i})
  /\ c \notin Reached(Sub(k), {i})
  /\ Kept(g, h, c)
  /\ i \in Reached(Sub(k), s) /\ i \notin s

\* cJSON_DetachItemViaPointer keeps Sound.
LEMMA SoundDetached ==
  ASSUME NEW h, NEW k, NEW s, Sound(h, k, s), NEW c \in Reached(Sub(k), s),
         ~h[c].ref, Unseen(h, k, s, c), NEW q \in 1 .. Len(k[c]), NEW i, i = k[c][q],
         NEW n, n = Edit(k, c, RemoveAt(k[c], q))
  PROVE  Detached(DetachItemViaPointer(h, c, i), h, n, k, s, c, i)
<1> DEFINE t == RemoveAt(k[c], q)
           g == DetachItemViaPointer(h, c, i)
<1>0. /\ k \in Lists /\ Sub(k) \in Graph /\ s \in SUBSET Item /\ c \in Item
      /\ Reached(Sub(k), s) \subseteq Item /\ Rooted(h, k, s) /\ Unshared(k) /\ Shape(h, k)
      /\ h[c].type # "free" /\ OneParent(Sub(k)) /\ Roots(Sub(k), s)
      /\ Closed(Sub(k), Reached(Sub(k), s)) /\ Forward(h, k)
      /\ \A d \in Item : \A j : j \in Sub(k)[d] <=> In(j, k[d])
  BY SoundFacts DEF Sound, Shape
<1>1. /\ k[c] \in Seq(Item) /\ Distinct(k[c]) /\ i \in Item /\ In(i, k[c]) /\ h[i].type # "free"
  BY <1>0, ListOf DEF Unshared, Distinct, In, Forward
<1>2. t \in Seq(Item) /\ \A j : In(j, t) <=> In(j, k[c]) /\ j # i
  BY <1>1, RemoveAtIs, InRemoved
<1>3. Shape(g, n) /\ Kept(g, h, c)
  <2>1. Shape(g, Edit(k, c, RemoveAt(k[c], q))) /\ Kept(g, h, c)
    BY <1>0, DetachedShape DEF Edit
  <2> HIDE DEF g
  <2> QED BY <2>1
<1>4. n = Edit(k, c, t)
  OBVIOUS
<1> HIDE DEF t, g
<1>5. /\ n \in Lists /\ n[c] = t /\ \A x \in Item \ {c} : n[x] = k[x]
      /\ Sub(n) \in Graph /\ \A j : j \in Sub(n)[c] <=> In(j, t)
      /\ \A x \in Item \ {c} : Sub(n)[x] = Sub(k)[x]
  <2>1. k \in Lists /\ c \in Item /\ t \in Seq(Item) /\ n = Edit(k, c, t)
    BY <1>0, <1>2, <1>4
  <2> QED BY ONLY <2>1, SubEdit
<1>6. DropsEdge(Sub(n), Sub(k), c, i)
  BY <1>0, <1>2, <1>5 DEF DropsEdge
<1>7. i \in Sub(k)[c]
  BY <1>0, <1>1
<1>8. Reached(Sub(n), s \cup {i}) = Reached(Sub(k), s)
  BY <1>0, <1>5, <1>6, <1>7, Taken
<1>9. c \notin Reached(Sub(k), {i})
  BY <1>0, <1>7, Acyclic
<1>10. Reached(Sub(k), {i}) = Reached(Sub(n), {i})
  <2> DEFINE a == Sub(n)
             b == Sub(k)
  <2>1. {i} \in SUBSET Item
    BY <1>1
  <2>2. a \in Graph /\ b \in Graph /\ \A x \in Reached(b, {i}) : b[x] = a[x]
    <3>1. Reached(b, {i}) \subseteq Item
      BY <1>0, <2>1, ReachedClosed
    <3> QED BY <1>0, <1>5, <1>9, <3>1
  <2> HIDE DEF a, b
  <2>3. Reached(b, {i}) = Reached(a, {i})
    BY ONLY <2>1, <2>2, ReachedAlike
  <2> QED BY <2>3 DEF a, b
<1>11. ASSUME NEW j \in s \cup {i} PROVE Unlisted(h, n, j)
  <2>1. CASE j \in s
    BY <1>0, <1>2, <1>5, <2>1 DEF Rooted, Unlisted
  <2>2. CASE j = i
    <3>1. \A x \in Item \ {c} : ~In(i, k[x])
      BY <1>0, <1>1 DEF Unshared, In
    <3> QED BY <1>1, <1>2, <1>5, <2>2, <3>1 DEF Unlisted
  <2> QED BY <2>1, <2>2
<1>12. Sound(g, n, s \cup {i})
  <2>1. \/ k[c] = <<>>
        \/ \A r \in Reached(Sub(k), s) : h[r].ref => h[r].child # k[c][1]
    BY DEF Unseen
  <2>2. s \cup {i} \in SUBSET Item
    BY <1>0, <1>1
  <2> QED BY <1>0, <1>3, <1>4, <1>8, <1>11, <2>1, <2>2, SoundEdit
<1>13. i \in Reached(Sub(k), s) /\ i \notin s
  BY <1>0, <1>7 DEF Closed, Roots
<1> QED BY <1>3, <1>8, <1>9, <1>10, <1>12, <1>13 DEF g, Detached

\* Who is in a sequence after a replacement.
LEMMA InReplaced ==
  ASSUME NEW s \in Seq(Item), Distinct(s), NEW q \in 1 .. Len(s), NEW i \in Item
  PROVE  /\ ReplaceAt(s, q, i) \in Seq(Item)
         /\ \A j \in Item : In(j, ReplaceAt(s, q, i)) <=> (In(j, s) /\ j # s[q]) \/ j = i
<1> DEFINE t == ReplaceAt(s, q, i)
<1>1. Len(s) \in Nat
  BY LenProperties
<1>2. /\ t \in Seq(Item) /\ Len(t) = Len(s)
      /\ \A p \in 1 .. Len(s) : t[p] = IF p = q THEN i ELSE s[p]
  BY ReplaceAtIs
<1> HIDE DEF t
<1>3. ASSUME NEW j \in Item PROVE In(j, t) <=> (In(j, s) /\ j # s[q]) \/ j = i
  <2>1. In(i, t)
    <3>1. q \in 1 .. Len(t) /\ t[q] = i
      BY <1>1, <1>2
    <3> QED BY <3>1 DEF In
  <2>2. ASSUME In(j, s), j # s[q] PROVE In(j, t)
    BY <2>2, <1>2 DEF In
  <2>3. ASSUME In(j, t), j # i PROVE In(j, s) /\ j # s[q]
    BY <2>3, <1>2 DEF In, Distinct
  <2> QED BY <2>1, <2>2, <2>3
<1> QED BY <1>2, <1>3 DEF t

\* When i takes the place of old under c, and old becomes a start, the same is reached.
LEMMA Swapped ==
  ASSUME NEW to \in Graph, NEW new \in Graph, NEW s \in SUBSET Item, NEW i \in s,
         NEW c \in Reached(to, s), NEW old \in to[c], c \notin Reached(to, {i}), i # old,
         \A j \in Item : j \in new[c] <=> (j \in to[c] /\ j # old) \/ j = i,
         \A x \in Item \ {c} : new[x] = to[x]
  PROVE  Reached(new, (s \cup {old}) \ {i}) = Reached(to, s)
<1> DEFINE mid == [x \in Item |-> IF x = c THEN to[c] \ {old} ELSE to[x]]
<1>0. i \in Item /\ c \in Item /\ {i} \in SUBSET Item /\ old \in Item
  <2>1. Reached(to, s) \subseteq Item
    BY ReachedClosed
  <2> QED BY <2>1 DEF Graph
<1>1. mid \in Graph /\ mid[c] = to[c] \ {old} /\ \A x \in Item \ {c} : mid[x] = to[x]
  BY <1>0 DEF Graph
<1> HIDE DEF mid
<1>2. DropsEdge(mid, to, c, old)
  BY <1>1 DEF DropsEdge
<1>3. Reached(mid, s \cup {old}) = Reached(to, s)
  BY <1>0, <1>1, <1>2, Taken
<1>4. \A x \in Item : mid[x] \subseteq to[x]
  BY <1>1
<1>5. c \notin Reached(mid, {i})
  <2>1. Reached(mid, {i}) \subseteq Reached(to, {i})
    BY ONLY <1>0, <1>1, <1>4, to \in Graph, ReachedMore
  <2> QED BY <2>1
<1>6. AddsEdge(new, mid, c, i)
  <2>1. new[c] \subseteq Item /\ to[c] \subseteq Item
    BY <1>0 DEF Graph
  <2>2. new[c] = mid[c] \cup {i}
    BY <1>0, <1>1, <2>1
  <2>3. \A x \in Item \ {c} : new[x] = mid[x]
    BY <1>1
  <2> QED BY <2>2, <2>3 DEF AddsEdge
<1>7. (s \cup {old}) \cup {i} = s \cup {old} /\ s \cup {old} \in SUBSET Item
  BY <1>0
<1> DEFINE u == s \cup {old}
<1>8. u \in SUBSET Item /\ c \in Reached(mid, u) /\ u \cup {i} = u
  BY <1>3, <1>7
<1> HIDE DEF u
<1>9. Reached(new, u \ {i}) = Reached(mid, u \cup {i})
  BY <1>0, <1>1, <1>5, <1>6, <1>8, Added
<1> QED BY <1>3, <1>8, <1>9 DEF u

\* i has taken the place of an item of c whose tree D is free.
Replaced(f, h, n, s, c, i, D) ==
  /\ Sound(f, n, s \ {i})
  /\ \A j \in Item : f[j].type = IF j \in D THEN "free" ELSE h[j].type
  /\ c \notin D

\* cJSON_ReplaceItemViaPointer keeps Sound.
LEMMA SoundReplaced ==
  ASSUME NEW h, NEW k, NEW s, Sound(h, k, s), NEW i \in s, NEW c \in Reached(Sub(k), s),
         c \notin Reached(Sub(k), {i}), ~h[c].ref, Unseen(h, k, s, c),
         NEW q \in 1 .. Len(k[c]), NEW old, old = k[c][q],
         NEW D, D = Reached(Sub(k), {old}),
         OwnUse(h, k, s, D),
         NEW n, n = Cleared(Edit(k, c, ReplaceAt(k[c], q, i)), D)
  PROVE  Replaced(ReplaceItemViaPointer(h, c, old, i), h, n, s, c, i, D)
<1> DEFINE t == ReplaceAt(k[c], q, i)
           m == Edit(k, c, t)
           u == (s \cup {old}) \ {i}
<1>0. /\ k \in Lists /\ Sub(k) \in Graph /\ s \in SUBSET Item /\ c \in Item /\ i \in Item
      /\ Reached(Sub(k), s) \subseteq Item /\ Rooted(h, k, s) /\ Unshared(k) /\ Shape(h, k)
      /\ h[c].type # "free" /\ OneParent(Sub(k)) /\ Roots(Sub(k), s)
      /\ Closed(Sub(k), Reached(Sub(k), s)) /\ Forward(h, k) /\ Unlisted(h, k, i)
      /\ \A d \in Item : \A j : j \in Sub(k)[d] <=> In(j, k[d])
  BY SoundFacts DEF Sound, Shape, Rooted
<1>1. /\ k[c] \in Seq(Item) /\ Distinct(k[c]) /\ old \in Item /\ In(old, k[c]) /\ h[old].type # "free"
      /\ i # old
  BY <1>0, ListOf DEF Unshared, Distinct, In, Forward, Unlisted
<1>2. t \in Seq(Item) /\ \A j \in Item : In(j, t) <=> (In(j, k[c]) /\ j # old) \/ j = i
  <2> DEFINE v == k[c]
  <2>1. v \in Seq(Item) /\ Distinct(v) /\ q \in 1 .. Len(v) /\ i \in Item
    BY <1>0, <1>1
  <2> HIDE DEF v
  <2>2. /\ ReplaceAt(v, q, i) \in Seq(Item)
        /\ \A j \in Item : In(j, ReplaceAt(v, q, i)) <=> (In(j, v) /\ j # v[q]) \/ j = i
    BY <2>1, InReplaced
  <2> QED BY <2>2 DEF v
<1>3. PICK g : /\ ReplaceItemViaPointer(h, c, old, i) = Free(g, old)
               /\ Shape(g, m) /\ Kept(g, h, c)
  <2>1. PICK g : /\ ReplaceItemViaPointer(h, c, k[c][q], i) = Free(g, k[c][q])
                 /\ Shape(g, Edit(k, c, t)) /\ Kept(g, h, c)
    BY <1>0, ReplacedShape DEF Edit
  <2> QED BY <2>1
<1> HIDE DEF t
<1>4. /\ m \in Lists /\ m[c] = t /\ \A x \in Item \ {c} : m[x] = k[x]
      /\ Sub(m) \in Graph /\ \A j : j \in Sub(m)[c] <=> In(j, t)
      /\ \A x \in Item \ {c} : Sub(m)[x] = Sub(k)[x]
  <2>1. k \in Lists /\ c \in Item /\ t \in Seq(Item) /\ m = Edit(k, c, t)
    BY <1>0, <1>2
  <2> HIDE DEF m
  <2> QED BY ONLY <2>1, SubEdit
<1> HIDE DEF m
<1>5. old \in Sub(k)[c]
  BY <1>0, <1>1
<1>6. Reached(Sub(m), u) = Reached(Sub(k), s)
  <2> DEFINE a == Sub(m)
             b == Sub(k)
  <2>1. /\ b \in Graph /\ a \in Graph /\ s \in SUBSET Item /\ i \in s /\ c \in Reached(b, s)
        /\ old \in b[c] /\ c \notin Reached(b, {i}) /\ i # old
    BY <1>0, <1>1, <1>4, <1>5
  <2>2. \A j \in Item : j \in a[c] <=> (j \in b[c] /\ j # old) \/ j = i
    BY <1>0, <1>2, <1>4
  <2>3. \A x \in Item \ {c} : a[x] = b[x]
    BY <1>4
  <2> HIDE DEF a, b
  <2>4. Reached(a, (s \cup {old}) \ {i}) = Reached(b, s)
    BY ONLY <2>1, <2>2, <2>3, Swapped
  <2> QED BY <2>4 DEF a, b
<1>7. c \notin D
  BY <1>0, <1>5, Acyclic
<1>8. D = Reached(Sub(m), {old})
  <2> DEFINE a == Sub(m)
             b == Sub(k)
  <2>1. {old} \in SUBSET Item
    BY <1>1
  <2>2. a \in Graph /\ b \in Graph /\ \A x \in Reached(b, {old}) : b[x] = a[x]
    <3>1. Reached(b, {old}) \subseteq Item
      BY <1>0, <2>1, ReachedClosed
    <3> QED BY <1>0, <1>4, <1>7, <3>1
  <2> HIDE DEF a, b
  <2>3. Reached(b, {old}) = Reached(a, {old})
    BY ONLY <2>1, <2>2, ReachedAlike
  <2> QED BY <2>3 DEF a, b
<1>9. ASSUME NEW j \in u PROVE Unlisted(h, m, j)
  <2>1. CASE j \in s /\ j # i
    <3>1. Unlisted(h, k, j)
      BY <1>0, <2>1 DEF Rooted
    <3>2. ~In(j, t)
      BY <1>2, <2>1, <3>1, <1>0 DEF Unlisted
    <3> QED BY <1>4, <3>1, <3>2 DEF Unlisted
  <2>2. CASE j = old
    <3>1. \A x \in Item \ {c} : ~In(old, k[x])
      BY <1>0, <1>1 DEF Unshared, In
    <3> QED BY <1>1, <1>2, <1>4, <2>2, <3>1 DEF Unlisted
  <2> QED BY <2>1, <2>2
<1>10. u \in SUBSET Item
  BY <1>0, <1>1
<1>11. Sound(g, m, u)
  <2>1. \/ k[c] = <<>> \/ (t # <<>> /\ t[1] = k[c][1])
        \/ \A r \in Reached(Sub(k), s) : h[r].ref => h[r].child # k[c][1]
    BY DEF Unseen
  <2>2. m = Edit(k, c, t)
    BY DEF m
  <2> HIDE DEF u
  <2>3. \A j \in u : Unlisted(h, m, j)
    BY <1>9
  <2> QED BY <1>0, <1>3, <1>6, <1>10, <2>1, <2>2, <2>3, SoundEdit
<1>12. old \in u /\ u \ {old} = s \ {i}
  BY <1>0, <1>1, <1>5 DEF Roots
<1> HIDE DEF u
<1>13. OwnUse(g, m, u, D)
  BY <1>0, <1>3, <1>6 DEF Kept, SameItem, OwnUse
<1>14. n = Cleared(m, D)
  BY DEF m, t
<1>15. Sound(Free(g, old), n, u \ {old})
  <2>1. Sound(g, m, u) /\ old \in u /\ D = Reached(Sub(m), {old}) /\ n = Cleared(m, D)
    BY <1>8, <1>11, <1>12, <1>14
  <2> HIDE DEF m
  <2> QED BY ONLY <1>13, <2>1, SoundFree
<1>17. Free(g, old) = Blank(g, D)
  BY <1>8, <1>11, <1>12, FreeIsBlank
<1>16. \A j \in Item : Blank(g, D)[j].type = IF j \in D THEN "free" ELSE h[j].type
  BY <1>3 DEF Blank, NewItem, Kept, SameItem
<1> QED BY <1>3, <1>7, <1>12, <1>15, <1>16, <1>17 DEF Replaced

-----------------------------------------------------------------------------
(***************************************************************************)
(* Sound after a change of names, and after two changes in one call.       *)
(***************************************************************************)

\* From h to g, i has another name.
Renamed(g, h, i) ==
  /\ \A j \in Item \ {i} : g[j] = h[j]
  /\ g[i].type = h[i].type /\ g[i].ref = h[i].ref /\ g[i].next = h[i].next
  /\ g[i].prev = h[i].prev /\ g[i].child = h[i].child
  /\ g[i].copied = (g[i].name # NoName /\ ~g[i].constant)

\* A new name keeps Sound.
LEMMA SoundRenamed ==
  ASSUME NEW h, NEW k, NEW s, Sound(h, k, s), NEW i \in s, NEW g \in Memory, Renamed(g, h, i)
  PROVE  Sound(g, k, s) /\ \A j \in Item : g[j].type = h[j].type /\ g[j].ref = h[j].ref /\ g[j].child = h[j].child
<1>0. /\ Shape(h, k) /\ Rooted(h, k, s) /\ Shows(h, k, s) /\ Names(h)
      /\ i \in Item /\ Reached(Sub(k), s) \subseteq Item /\ s \subseteq Reached(Sub(k), s) /\ h[i].type # "free"
  BY SoundFacts DEF Sound, Shape, Rooted
<1>1. \A j \in Item : /\ g[j].type = h[j].type /\ g[j].ref = h[j].ref /\ g[j].next = h[j].next
                      /\ g[j].prev = h[j].prev /\ g[j].child = h[j].child
                      /\ h[j].type = "free" => g[j] = h[j]
  BY <1>0 DEF Renamed
<1>2. Names(g)
  BY <1>0 DEF Names, Renamed
<1>3. Shape(g, k)
  BY <1>0, <1>1, <1>2, RenamedShape
<1>4. Rooted(g, k, s)
  BY <1>0, <1>1 DEF Rooted, Unlisted, Renamed
<1>5. Shows(g, k, s)
  BY <1>0, <1>1 DEF Shows
<1> QED BY <1>1, <1>3, <1>4, <1>5 DEF Sound

\* cJSON_AddItemToObject renames the item.
LEMMA KeySet ==
  ASSUME NEW h \in Memory, NEW i \in Item, NEW n \in Name, NEW const \in BOOLEAN
  PROVE  SetKey(h, i, n, const) \in Memory /\ Renamed(SetKey(h, i, n, const), h, i)
<1> DEFINE x == [h[i] EXCEPT !.name = n, !.constant = const, !.copied = ~const]
<1>1. h[i] \in Cell
  BY MemoryCells
<1>2. x \in Cell /\ x.type = h[i].type /\ x.ref = h[i].ref /\ x.next = h[i].next
      /\ x.prev = h[i].prev /\ x.child = h[i].child /\ x.name = n /\ x.constant = const /\ x.copied = ~const
  BY <1>1 DEF Cell
<1>3. SetKey(h, i, n, const) = [h EXCEPT ![i] = x]
  BY DEF SetKey, Memory
<1> HIDE DEF x
<1>4. [h EXCEPT ![i] = x] \in Memory /\ [h EXCEPT ![i] = x][i] = x /\ \A j \in Item \ {i} : [h EXCEPT ![i] = x][j] = h[j]
  BY <1>2 DEF Memory
<1>5. n # NoName
  BY NameAssumption
<1> QED BY <1>2, <1>3, <1>4, <1>5 DEF Renamed

\* Whatever an item that can be reached points at as its child heads a list.
LEMMA ChildShown ==
  ASSUME NEW h, NEW k, NEW s, Sound(h, k, s), NEW j \in Reached(Sub(k), s), h[j].child # NoItem
  PROVE  \E d \in Item : k[d] # <<>> /\ h[j].child = k[d][1]
<1>1. j \in Item /\ Forward(h, k) /\ Shows(h, k, s)
  BY SoundFacts DEF Sound, Shape
<1>2. CASE h[j].ref
  BY <1>1, <1>2 DEF Shows
<1>3. CASE ~h[j].ref
  BY <1>1, <1>3 DEF Forward, FirstOf
<1> QED BY <1>2, <1>3

\* More can be reached with one item more.
LEMMA ReachedBySome ==
  ASSUME NEW h, NEW k, NEW s, Sound(h, k, s), NEW i \in Item
  PROVE  Reached(Sub(k), s) \subseteq Reached(Sub(k), s \cup {i})
<1>1. s \in SUBSET Item /\ {i} \in SUBSET Item /\ Sub(k) \in Graph
  BY SoundFacts
<1>2. Reached(Sub(k), s \cup {i}) = Reached(Sub(k), s) \cup Reached(Sub(k), {i})
  BY <1>1, ReachedFromMore
<1> QED BY <1>2

\* A new item x, at i, is in the list of c.
AddedNew(f, h, k, n, s, c, i, x) ==
  /\ Sound(f, n, s)
  /\ \A j \in Item : f[j].type = IF j = i THEN x.type ELSE h[j].type
  /\ c \notin Reached(Sub(k), {i})

\* A new item that is appended at once keeps Sound.
LEMMA SoundAddNew ==
  ASSUME NEW h, NEW k, NEW s, Sound(h, k, s), NEW c \in Reached(Sub(k), s), ~h[c].ref,
         NEW i \in Item, h[i].type = "free", NEW x \in Cell, Newborn(x),
         x.ref /\ x.child # NoItem => \E d \in Item : k[d] # <<>> /\ x.child = k[d][1],
         NEW g, g = [h EXCEPT ![i] = x], NEW n, n = Edit(k, c, Append(k[c], i))
  PROVE  AddedNew(AddItemToArray(g, c, i), h, k, n, s, c, i, x)
<1>0. h \in Memory /\ Reached(Sub(k), s) \subseteq Item /\ h[c].type # "free"
  BY SoundFacts
<1>1. g[i] = x /\ \A j \in Item \ {i} : g[j] = h[j]
  BY <1>0 DEF Memory
<1>2. /\ Sound(g, k, s \cup {i}) /\ Reached(Sub(k), {i}) = {i} /\ i \notin s
      /\ i \notin Reached(Sub(k), s)
  <2>1. Sound(h, k, s) /\ i \in Item /\ h[i].type = "free" /\ x \in Cell /\ Newborn(x) /\ g = [h EXCEPT ![i] = x]
    OBVIOUS
  <2>2. x.ref /\ x.child # NoItem => \E d \in Item : k[d] # <<>> /\ x.child = k[d][1]
    OBVIOUS
  <2>3. Created(g, k, s, i)
    BY ONLY <2>1, <2>2, SoundCreate
  <2> QED BY <2>3 DEF Created
<1>3. c \in Reached(Sub(k), s \cup {i}) /\ c \notin Reached(Sub(k), {i}) /\ ~g[c].ref
  <2>1. c # i /\ c \in Item
    BY <1>0
  <2> QED BY <2>1, <1>1, <1>2, ReachedBySome
<1> DEFINE u == s \cup {i}
<1>4. i \in u /\ u \ {i} = s /\ Sound(g, k, u) /\ c \in Reached(Sub(k), u)
  BY <1>2, <1>3
<1> HIDE DEF u
<1>5. Sound(AddItemToArray(g, c, i), n, u \ {i}) /\ Kept(AddItemToArray(g, c, i), g, c)
  BY <1>3, <1>4, SoundAdded
<1>6. ASSUME NEW j \in Item PROVE AddItemToArray(g, c, i)[j].type = IF j = i THEN x.type ELSE h[j].type
  BY <1>1, <1>5 DEF Kept, SameItem
<1> QED BY <1>3, <1>4, <1>5, <1>6 DEF AddedNew

\* The items D are free.
Left(f, h, n, s, D) ==
  Sound(f, n, s) /\ \A j \in Item : f[j].type = IF j \in D THEN "free" ELSE h[j].type

\* An item that is detached and deleted keeps Sound.
LEMMA SoundDelete ==
  ASSUME NEW h, NEW k, NEW s, Sound(h, k, s), NEW c \in Reached(Sub(k), s),
         ~h[c].ref, Unseen(h, k, s, c), NEW q \in 1 .. Len(k[c]), NEW i, i = k[c][q],
         NEW D, D = Reached(Sub(k), {i}), OwnUse(h, k, s, D),
         NEW n, n = Cleared(Edit(k, c, RemoveAt(k[c], q)), D)
  PROVE  Left(Free(DetachItemViaPointer(h, c, i), i), h, n, s, D)
<1> DEFINE m == Edit(k, c, RemoveAt(k[c], q))
           g == DetachItemViaPointer(h, c, i)
           u == s \cup {i}
<1>1. /\ Sound(g, m, u) /\ Reached(Sub(m), u) = Reached(Sub(k), s)
      /\ Reached(Sub(m), {i}) = Reached(Sub(k), {i})
      /\ Kept(g, h, c) /\ i \notin s
  <2>1. Detached(g, h, m, k, s, c, i)
    BY SoundDetached
  <2> QED BY <2>1 DEF Detached
<1>2. i \in u /\ u \ {i} = s /\ n = Cleared(m, D)
  BY <1>1
<1> HIDE DEF g, m, u
<1>3. OwnUse(g, m, u, D)
  <2>1. Reached(Sub(k), s) \subseteq Item
    BY SoundFacts
  <2> QED BY <1>1, <2>1 DEF OwnUse, Kept, SameItem
<1>4. D = Reached(Sub(m), {i})
  BY <1>1
<1>5. Sound(Free(g, i), n, u \ {i})
  BY ONLY <1>1, <1>2, <1>3, <1>4, SoundFree
<1>6. Free(g, i) = Blank(g, D)
  BY <1>1, <1>2, <1>4, FreeIsBlank
<1>7. \A j \in Item : Blank(g, D)[j].type = IF j \in D THEN "free" ELSE h[j].type
  BY <1>1 DEF Blank, NewItem, Kept, SameItem
<1> QED BY <1>2, <1>5, <1>6, <1>7 DEF g, Left

-----------------------------------------------------------------------------
(***************************************************************************)
(* A list of new items: cJSON_CreateNumbers and cJSON_Duplicate link their *)
(* items as they make them.                                                *)
(***************************************************************************)

\* c is h with the items s linked to n, open at the front.
Chained(c, h, n, s, cells) ==
  /\ c \in Memory
  /\ \A j \in Item : j # n /\ ~In(j, s) => c[j] = h[j]
  /\ SameItem(c[n], h[n]) /\ c[n].next = h[n].next /\ c[n].prev = h[n].prev
  /\ c[n].child = IF s = <<>> THEN h[n].child ELSE s[1]
  /\ \A p \in 1 .. Len(s) :
       /\ SameItem(c[s[p]], cells[p]) /\ c[s[p]].child = cells[p].child
       /\ c[s[p]].next = After(s, p)
       /\ c[s[p]].prev = IF p = 1 THEN NoItem ELSE s[p - 1]

\* So Chain leaves the memory.
LEMMA ChainIs ==
  ASSUME NEW h \in Memory, NEW n \in Item, NEW s \in Seq(Item), Distinct(s), ~In(n, s),
         NEW cells, \A p \in 1 .. Len(s) : cells[p] \in Cell
  PROVE  Chained(Chain(h, n, s, cells), h, n, s, cells)
<1> DEFINE c == Chain(h, n, s, cells)
           Place(j) == CHOOSE p \in DOMAIN s : s[p] = j
           new(p) == [cells[p] EXCEPT !.next = IF p = Len(s) THEN NoItem ELSE s[p + 1],
                                      !.prev = IF p = 1 THEN NoItem ELSE s[p - 1]]
           head == [h[n] EXCEPT !.child = s[1]]
<1>0. /\ Len(s) \in Nat /\ DOMAIN s = 1 .. Len(s) /\ \A p \in 1 .. Len(s) : s[p] \in Item
      /\ s = <<>> <=> Len(s) = 0
  BY LenProperties, ElementOfSeq, EmptySeq
<1>1. c = [j \in Item |-> IF j = n /\ s # <<>> THEN head
                          ELSE IF j \notin ToSet(s) THEN h[j] ELSE new(Place(j))]
  BY DEF Chain
<1>2. \A j : j \in ToSet(s) <=> In(j, s)
  BY ToSetIn
<1>3. ASSUME NEW p \in 1 .. Len(s) PROVE Place(s[p]) = p
  BY <1>0, <1>3 DEF Distinct
<1>4. ASSUME NEW p \in 1 .. Len(s)
      PROVE  /\ new(p) \in Cell /\ SameItem(new(p), cells[p]) /\ new(p).child = cells[p].child
             /\ new(p).next = After(s, p) /\ new(p).prev = IF p = 1 THEN NoItem ELSE s[p - 1]
  <2>1. cells[p] \in Cell
    OBVIOUS
  <2>2. (IF p = Len(s) THEN NoItem ELSE s[p + 1]) \in Item \cup {NoItem}
    <3>1. p # Len(s) => p + 1 \in 1 .. Len(s)
      <4>1. Len(s) \in Nat
        BY <1>0
      <4> QED BY ONLY <4>1
    <3> QED BY <1>0, <3>1, Zenon
  <2>3. (IF p = 1 THEN NoItem ELSE s[p - 1]) \in Item \cup {NoItem}
    <3>1. p # 1 => p - 1 \in 1 .. Len(s)
      <4>1. Len(s) \in Nat
        BY <1>0
      <4> QED BY ONLY <4>1
    <3> QED BY <1>0, <3>1, Zenon
  <2> QED BY <2>1, <2>2, <2>3 DEF Cell, SameItem, After
<1>5. h[n] \in Cell
  BY MemoryCells
<1>6. s # <<>> => /\ head \in Cell /\ SameItem(head, h[n]) /\ head.next = h[n].next /\ head.prev = h[n].prev
                  /\ head.child = s[1]
  <2> SUFFICES ASSUME s # <<>>
               PROVE  /\ head \in Cell /\ SameItem(head, h[n]) /\ head.next = h[n].next /\ head.prev = h[n].prev
                      /\ head.child = s[1]
    OBVIOUS
  <2>1. s[1] \in Item
    BY <1>0
  <2> QED BY <1>5, <2>1 DEF Cell, SameItem
<1> HIDE DEF head, new, Place, c
<1>7. ASSUME NEW j \in Item
      PROVE  c[j] = IF j = n /\ s # <<>> THEN head
                    ELSE IF j \notin ToSet(s) THEN h[j] ELSE new(Place(j))
  BY <1>1
<1>8. ASSUME NEW p \in 1 .. Len(s) PROVE c[s[p]] = new(p)
  <2>1. s[p] \in Item /\ s[p] # n /\ s[p] \in ToSet(s)
    BY <1>0, <1>2 DEF In
  <2> QED BY <1>3, <1>7, <2>1
<1>9. c[n] = IF s # <<>> THEN head ELSE h[n]
  BY <1>2, <1>7
<1>10. \A j \in Item : j # n /\ ~In(j, s) => c[j] = h[j]
  BY <1>2, <1>7
<1>11. c \in Memory
  <2>1. ASSUME NEW j \in Item PROVE c[j] \in Cell
    <3>1. CASE j = n
      BY <3>1, <1>5, <1>6, <1>9
    <3>2. CASE In(j, s)
      BY <3>2, <1>4, <1>8 DEF In
    <3>3. CASE j # n /\ ~In(j, s)
      BY <3>3, <1>10, MemoryCells
    <3> QED BY <3>1, <3>2, <3>3
  <2>2. c = [j \in Item |-> c[j]]
    BY <1>1
  <2> QED BY <2>1, <2>2 DEF Memory
<1>12. SameItem(c[n], h[n]) /\ c[n].next = h[n].next /\ c[n].prev = h[n].prev
       /\ c[n].child = IF s = <<>> THEN h[n].child ELSE s[1]
  BY <1>6, <1>9 DEF SameItem
<1> QED BY <1>4, <1>8, <1>10, <1>11, <1>12 DEF Chained, c

\* g is c with the chain s of n closed.
Listed(g, c, k, n, s) ==
  /\ Shape(g, Edit(k, n, s))
  /\ \A j \in Item : /\ SameItem(g[j], c[j]) /\ g[j].child = c[j].child /\ g[j].next = c[j].next
                     /\ ~In(j, s) => g[j] = c[j]

\* The chain of new items that has been closed is the list of n.
LEMMA ClosedShape ==
  ASSUME NEW h, NEW k, Shape(h, k), NEW n \in Item, ~h[n].ref, h[n].type # "free", k[n] = <<>>,
         NEW s \in Seq(Item), Distinct(s), \A p \in 1 .. Len(s) : h[s[p]].type = "free",
         NEW cells, \A p \in 1 .. Len(s) : cells[p] \in Cell /\ Newborn(cells[p]),
         NEW c, Chained(c, h, n, s, cells), NEW g, g = Close(c, s)
  PROVE  Listed(g, c, k, n, s)
<1>0. /\ h \in Memory /\ k \in Lists /\ Forward(h, k) /\ Unshared(k) /\ c \in Memory
  BY DEF Shape, Chained
<1>1. /\ Len(s) \in Nat /\ \A p \in 1 .. Len(s) : s[p] \in Item
      /\ s = <<>> <=> Len(s) = 0
  BY LenProperties, ElementOfSeq, EmptySeq
<1>2. ~In(n, s)
  BY DEF In
<1>3. /\ g \in Memory
      /\ \A j \in Item : /\ SameItem(g[j], c[j]) /\ g[j].child = c[j].child /\ g[j].next = c[j].next
                         /\ g[j].prev = IF s # <<>> /\ j = s[1] THEN s[Len(s)] ELSE c[j].prev
  <2>1. CASE s = <<>>
    <3>1. g = c
      BY <2>1 DEF Close
    <3> QED BY <1>0, <2>1, <3>1 DEF SameItem
  <2>2. CASE s # <<>>
    <3> DEFINE a == s[1]
               z == s[Len(s)]
    <3>1. g = [c EXCEPT ![a].prev = z]
      BY <2>2 DEF Close, Last
    <3>2. a \in Item /\ z \in Pointer
      BY <1>1, <2>2 DEF Pointer
    <3> HIDE DEF a, z
    <3>3. /\ g \in Memory
          /\ \A j \in Item : /\ SameItem(g[j], c[j])
                             /\ g[j].prev = IF j = a THEN z ELSE c[j].prev
                             /\ g[j].next = c[j].next
                             /\ g[j].child = c[j].child
      <4> DEFINE f == [c EXCEPT ![a].prev = z]
      <4>1. /\ f \in Memory
            /\ \A j \in Item : /\ SameItem(f[j], c[j])
                               /\ f[j].prev = IF j = a THEN z ELSE c[j].prev
                               /\ f[j].next = c[j].next
                               /\ f[j].child = c[j].child
        BY <1>0, <3>2, SetPrev, SMTT(30)
      <4>2. g = f
        BY <3>1
      <4> HIDE DEF f
      <4> QED BY <4>1, <4>2
    <3> QED BY <2>2, <3>3 DEF a, z
  <2> QED BY <2>1, <2>2
<1>4. ASSUME NEW j \in Item, ~In(j, s) PROVE g[j] = c[j]
  <2>1. s # <<>> => j # s[1]
    BY <1>1, <1>4 DEF In
  <2>2. g[j] \in Cell /\ c[j] \in Cell
    BY <1>0, <1>3, MemoryCells
  <2> QED BY <1>3, <2>1, <2>2, CellsEqual
<1> DEFINE Place(j) == CHOOSE p \in 1 .. Len(s) : s[p] = j
           h1 == [j \in Item |-> IF In(j, s) THEN cells[Place(j)] ELSE h[j]]
<1>5. \A p \in 1 .. Len(s) : Place(s[p]) = p
  BY DEF Distinct
<1>6. \A j \in Item : In(j, s) => Place(j) \in 1 .. Len(s) /\ s[Place(j)] = j
  BY DEF In
<1> HIDE DEF Place
<1>7. h1 \in Memory /\ \A j \in Item : h1[j] = IF In(j, s) THEN cells[Place(j)] ELSE h[j]
  BY <1>0, <1>6 DEF Memory
<1>8. \A p \in 1 .. Len(s) : h1[s[p]] = cells[p]
  BY <1>1, <1>5, <1>7 DEF In
<1> HIDE DEF h1
<1>9. Shape(h1, k)
  <2>1. \A j \in Item : h1[j] = h[j] \/ (h[j].type = "free" /\ Newborn(h1[j]))
    BY <1>6, <1>7
  <2> QED BY <1>7, <2>1, FreshShape
<1>10. ASSUME NEW j \in Item PROVE SameItem(g[j], h1[j]) /\ g[j].child = (IF j = n THEN FirstOf(s) ELSE h1[j].child)
  <2>1. CASE In(j, s)
    <3>1. PICK p \in 1 .. Len(s) : s[p] = j
      BY <2>1 DEF In
    <3> QED BY <1>2, <1>3, <1>8, <2>1, <3>1 DEF Chained, SameItem
  <2>2. CASE j = n
    <3>1. h1[n] = h[n] /\ h[n].child = NoItem
      BY <1>0, <1>2, <1>7 DEF Forward, FirstOf
    <3> QED BY <1>3, <2>2, <3>1 DEF Chained, SameItem, FirstOf
  <2>3. CASE ~In(j, s) /\ j # n
    BY <1>4, <1>7, <2>3 DEF Chained, SameItem
  <2> QED BY <2>1, <2>2, <2>3
<1>11. ASSUME NEW p \in 1 .. Len(s) PROVE g[s[p]].next = After(s, p) /\ g[s[p]].prev = Before(s, p)
  <2>1. s[p] \in Item /\ s # <<>>
    BY <1>1
  <2>2. g[s[p]].next = After(s, p)
    BY <1>3, <2>1 DEF Chained
  <2>3. CASE p = 1
    BY <1>3, <2>1, <2>2, <2>3 DEF Before
  <2>4. CASE p # 1
    <3>1. s[p] # s[1]
      BY <1>1, <2>1, <2>4 DEF Distinct
    <3> QED BY <1>3, <2>1, <2>2, <2>4, <3>1 DEF Before, Chained
  <2> QED BY <2>3, <2>4
<1>12. ASSUME NEW j \in Item, ~In(j, s) PROVE g[j].next = h1[j].next /\ g[j].prev = h1[j].prev
  <2>1. CASE j = n
    BY <1>4, <1>7, <1>12, <2>1 DEF Chained
  <2>2. CASE j # n
    BY <1>4, <1>7, <1>12, <2>2 DEF Chained
  <2> QED BY <2>1, <2>2
<1>13. Shape(g, [k EXCEPT ![n] = s])
  <2>1. /\ ~h1[n].ref /\ h1[n].type # "free"
    BY <1>2, <1>7
  <2>2. \A p \in 1 .. Len(s) : h1[s[p]].type # "free"
    BY <1>8 DEF Newborn
  <2>3. \A d \in Item \ {n} : \A p \in 1 .. Len(s) : ~In(s[p], k[d])
    BY <1>0 DEF Forward, In
  <2>4. \A j \in Item : ~In(j, k[n])
    BY DEF In
  <2> QED BY <1>3, <1>9, <1>10, <1>11, <1>12, <2>1, <2>2, <2>3, <2>4, Relist, SMTT(30)
<1> QED BY <1>3, <1>4, <1>13 DEF Edit, Listed

-----------------------------------------------------------------------------
(***************************************************************************)
(* A tree of new items.                                                    *)
(***************************************************************************)

\* The tree T of r is in g what was free in h, and all else is as it was.
NewTree(h, k, g, n, T, r) ==
  /\ T \subseteq Item /\ r \in T /\ n \in Lists
  /\ \A j \in T : h[j].type = "free" /\ g[j].type # "free" /\ ~g[j].ref
  /\ \A j \in Item \ T : g[j] = h[j] /\ n[j] = k[j]
  /\ \A j \in T : \A i : In(i, n[j]) => i \in T \ {r}
  /\ T \subseteq Reached(Sub(n), {r})

\* The tree of r is all of T.
LEMMA NewTreeReached ==
  ASSUME NEW h, NEW k, NEW g, NEW n, NEW T, NEW r, NewTree(h, k, g, n, T, r)
  PROVE  Reached(Sub(n), {r}) = T
<1>1. Sub(n) \in Graph /\ \A c \in Item : \A i : i \in Sub(n)[c] <=> In(i, n[c])
  BY SubIs DEF NewTree
<1>2. Closed(Sub(n), T) /\ T \in SUBSET Item /\ {r} \in SUBSET Item /\ {r} \subseteq T
  BY <1>1 DEF NewTree, Closed
<1>3. Reached(Sub(n), {r}) \subseteq T
  BY <1>1, <1>2, ReachedLeast
<1> QED BY <1>3 DEF NewTree

\* A new tree in the caller's hands keeps Sound.
LEMMA GrownSound ==
  ASSUME NEW h, NEW k, NEW s, Sound(h, k, s), NEW g, NEW n, Shape(g, n),
         NEW T, NEW r, NewTree(h, k, g, n, T, r)
  PROVE  Sound(g, n, s \cup {r})
<1> DEFINE R == Reached(Sub(k), s)
<1>0. /\ Rooted(h, k, s) /\ Shows(h, k, s) /\ Forward(h, k) /\ k \in Lists /\ n \in Lists
      /\ s \in SUBSET Item /\ R \subseteq Item /\ Sub(k) \in Graph
      /\ \A i \in R : h[i].type # "free"
  BY SoundFacts DEF Sound, Shape
<1>1. /\ T \subseteq Item /\ r \in T
      /\ \A j \in T : h[j].type = "free" /\ g[j].type # "free" /\ ~g[j].ref
      /\ \A j \in Item \ T : g[j] = h[j] /\ n[j] = k[j]
      /\ \A j \in T : \A i : In(i, n[j]) => i \in T \ {r}
  BY DEF NewTree
<1>2. Sub(n) \in Graph /\ Reached(Sub(n), {r}) = T
  BY <1>0, SubIs, NewTreeReached
<1>3. Reached(Sub(n), s) = R
  <2> DEFINE a == Sub(n)
             b == Sub(k)
  <2>1. \A x \in Reached(b, s) : b[x] = a[x]
    BY <1>0, <1>1 DEF Sub
  <2>2. a \in Graph /\ b \in Graph /\ s \in SUBSET Item
    BY <1>0, <1>2
  <2> HIDE DEF a, b
  <2>3. Reached(b, s) = Reached(a, s)
    BY ONLY <2>1, <2>2, ReachedAlike
  <2> QED BY <2>3 DEF a, b
<1>4. Reached(Sub(n), s \cup {r}) = R \cup T
  BY <1>0, <1>1, <1>2, <1>3, ReachedFromMore, {r} \in SUBSET Item
<1>5. ASSUME NEW j \in s \cup {r} PROVE Unlisted(g, n, j)
  <2>1. CASE j = r
    <3>1. \A d \in Item \ T : ~In(r, k[d])
      BY <1>0, <1>1 DEF In, Forward
    <3> QED BY <1>1, <2>1, <3>1 DEF Unlisted
  <2>2. CASE j \in s
    BY <1>0, <1>1, <2>2 DEF Rooted, Unlisted
  <2> QED BY <2>1, <2>2
<1>6. Rooted(g, n, s \cup {r})
  <2>1. \A i \in Item : g[i].type # "free" => i \in R \cup T \/ (g[i].ref /\ g[i].name = NoName)
    BY <1>0, <1>1 DEF Rooted
  <2> QED BY <1>4, <1>5, <2>1 DEF Rooted
<1>7. Shows(g, n, s \cup {r})
  <2> SUFFICES ASSUME NEW x \in R \cup T, g[x].ref, g[x].child # NoItem
               PROVE  \E d \in Item : n[d] # <<>> /\ g[x].child = n[d][1]
    BY <1>4 DEF Shows
  <2>1. x \in R /\ g[x] = h[x]
    BY <1>0, <1>1
  <2>2. PICK d \in Item : k[d] # <<>> /\ h[x].child = k[d][1]
    BY <1>0, <2>1 DEF Shows
  <2>3. d \notin T
    BY <1>0, <1>1, <2>2 DEF Forward
  <2> QED BY <1>1, <2>1, <2>2, <2>3
<1> QED BY <1>6, <1>7 DEF Sound

\* cJSON_Delete of a new tree that is not finished gives back what was taken.
LEMMA FreeGrown ==
  ASSUME NEW h, NEW k, Shape(h, k), NEW c \in Memory, NEW n, Forward(c, n),
         NEW T, NEW r, NewTree(h, k, c, n, T, r), c[r].next = NoItem
  PROVE  Free(c, r) = h
<1>0. Reached(Sub(n), {r}) = T
  BY NewTreeReached
<1>1. /\ n \in Lists /\ r \in Item
      /\ \A j \in T : h[j].type = "free"
      /\ \A j \in Item \ T : c[j] = h[j]
  BY DEF NewTree
<1>2. Freed(c, r) = T
  BY <1>0, <1>1, FreedIsTree
<1>3. h = [j \in Item |-> h[j]]
  BY DEF Shape, Memory
<1>4. \A j \in Item : h[j] = IF j \in T THEN NewItem("free") ELSE c[j]
  BY <1>1 DEF Shape, Loose
<1> QED BY <1>2, <1>3, <1>4 DEF Free

\* A list of new items under an item of the new tree makes the tree larger.
LEMMA GrowTree ==
  ASSUME NEW h, NEW k, NEW g, NEW n, NEW T, NEW r, NewTree(h, k, g, n, T, r),
         NEW x \in T, n[x] = <<>>, NEW s \in Seq(Item), \A p \in 1 .. Len(s) : s[p] \notin T /\ h[s[p]].type = "free",
         NEW m, m = Edit(n, x, s), NEW f, \A j \in Item : ~In(j, s) => f[j].type = g[j].type /\ f[j].ref = g[j].ref,
         \A j \in Item : j # x /\ ~In(j, s) => f[j] = g[j],
         \A p \in 1 .. Len(s) : f[s[p]].type # "free" /\ ~f[s[p]].ref /\ n[s[p]] = <<>>
  PROVE  NewTree(h, k, f, m, T \cup {s[p] : p \in 1 .. Len(s)}, r)
<1> DEFINE N == {s[p] : p \in 1 .. Len(s)}
<1>0. \A p \in 1 .. Len(s) : s[p] \in Item
  BY ElementOfSeq
<1>1. N \subseteq Item /\ \A j : j \in N <=> In(j, s)
  BY <1>0 DEF In
<1> HIDE DEF N
<1>2. /\ T \subseteq Item /\ r \in T /\ n \in Lists /\ x \in Item
      /\ \A j \in T : h[j].type = "free" /\ g[j].type # "free" /\ ~g[j].ref
      /\ \A j \in Item \ T : g[j] = h[j] /\ n[j] = k[j]
      /\ \A j \in T : \A i : In(i, n[j]) => i \in T \ {r}
      /\ T \subseteq Reached(Sub(n), {r})
  BY DEF NewTree
<1>3. m \in Lists /\ m[x] = s /\ \A j \in Item \ {x} : m[j] = n[j]
  BY <1>2 DEF Edit, Lists
<1>4. \A j \in N : j \notin T /\ h[j].type = "free" /\ f[j].type # "free" /\ ~f[j].ref /\ n[j] = <<>>
  BY <1>1 DEF In
<1>5. ~\E i : In(i, <<>>)
  BY DEF In
<1>6. /\ Sub(n) \in Graph /\ \A c \in Item : \A i : i \in Sub(n)[c] <=> In(i, n[c])
      /\ Sub(m) \in Graph /\ \A c \in Item : \A i : i \in Sub(m)[c] <=> In(i, m[c])
  BY <1>2, <1>3, SubIs
<1>7. \A j \in T \cup N : h[j].type = "free" /\ f[j].type # "free" /\ ~f[j].ref
  BY <1>1, <1>2, <1>4
<1>8. \A j \in Item \ (T \cup N) : f[j] = h[j] /\ m[j] = k[j]
  BY <1>1, <1>2, <1>3
<1>9. ASSUME NEW j \in T \cup N, NEW i, In(i, m[j]) PROVE i \in (T \cup N) \ {r}
  <2>1. CASE j = x
    BY <1>1, <1>2, <1>3, <1>4, <1>9, <2>1
  <2>2. CASE j # x
    <3>1. In(i, n[j]) /\ j \in T
      BY <1>1, <1>2, <1>3, <1>4, <1>5, <1>9, <2>2
    <3> QED BY <1>2, <3>1
  <2> QED BY <2>1, <2>2
<1>10. T \cup N \subseteq Reached(Sub(m), {r})
  <2> DEFINE a == Sub(n)
             b == Sub(m)
  <2>1. \A j \in Item : a[j] \subseteq b[j]
    <3> SUFFICES ASSUME NEW j \in Item PROVE a[j] \subseteq b[j]
      OBVIOUS
    <3>1. CASE j = x
      BY <1>5, <1>6, <3>1
    <3>2. CASE j # x
      BY <1>3, <3>2 DEF Sub
    <3> QED BY <3>1, <3>2
  <2>2. a \in Graph /\ b \in Graph /\ {r} \in SUBSET Item
    BY <1>2, <1>6
  <2>3. N \subseteq b[x]
    BY <1>1, <1>2, <1>3, <1>6
  <2>4. T \subseteq Reached(a, {r})
    BY <1>2
  <2> HIDE DEF a, b
  <2>5. Reached(a, {r}) \subseteq Reached(b, {r})
    BY ONLY <2>1, <2>2, ReachedMore
  <2>6. Closed(b, Reached(b, {r}))
    BY <2>2, ReachedClosed
  <2>7. T \cup N \subseteq Reached(b, {r})
    BY <2>3, <2>4, <2>5, <2>6 DEF Closed
  <2> QED BY <2>7 DEF b
<1>11. NewTree(h, k, f, m, T \cup N, r)
  BY <1>1, <1>2, <1>3, <1>7, <1>8, <1>9, <1>10 DEF NewTree
<1> QED BY <1>11 DEF N

\* c is g with a list under an item of the new tree, not closed yet.
Grew(c, h, k, g, m, T, s, cells, r) ==
  /\ Shape(Close(c, s), m) /\ NewTree(h, k, Close(c, s), m, T \cup {s[p] : p \in 1 .. Len(s)}, r)
  /\ Free(c, r) = h
  /\ \A j \in Item \ {s[p] : p \in 1 .. Len(s)} : SameItem(Close(c, s)[j], g[j])
  /\ \A p \in 1 .. Len(s) : SameItem(Close(c, s)[s[p]], cells[p])

\* One list of a new tree is linked: the state after a list of x has been added.
LEMMA ChainGrows ==
  ASSUME NEW h, NEW k, Shape(h, k), NEW g, NEW n, Shape(g, n), NEW T, NEW r, NewTree(h, k, g, n, T, r),
         NEW x \in T, n[x] = <<>>,
         NEW s \in Seq(Item), Distinct(s), \A p \in 1 .. Len(s) : s[p] \notin T /\ h[s[p]].type = "free",
         NEW cells, \A p \in 1 .. Len(s) : cells[p] \in Cell /\ Newborn(cells[p]) /\ ~cells[p].ref,
         NEW c, c = Chain(g, x, s, cells), NEW m, m = Edit(n, x, s)
  PROVE  Grew(c, h, k, g, m, T, s, cells, r)
<1> DEFINE f == Close(c, s)
           N == {s[p] : p \in 1 .. Len(s)}
<1>0. /\ g \in Memory /\ n \in Lists /\ Forward(g, n) /\ Loose(g, n) /\ Unshared(n)
      /\ T \subseteq Item /\ r \in T /\ x \in Item /\ ~g[x].ref /\ g[x].type # "free"
      /\ \A j \in Item \ T : g[j] = h[j]
  BY DEF Shape, NewTree
<1>1. \A p \in 1 .. Len(s) : s[p] \in Item /\ g[s[p]].type = "free" /\ n[s[p]] = <<>>
  BY <1>0, ElementOfSeq DEF Forward
<1>2. ~In(x, s)
  BY DEF In
<1>3. Chained(c, g, x, s, cells)
  BY <1>0, <1>2, ChainIs
<1>4. /\ Shape(f, m)
      /\ \A j \in Item : /\ SameItem(f[j], c[j]) /\ f[j].child = c[j].child /\ f[j].next = c[j].next
                         /\ ~In(j, s) => f[j] = c[j]
  <2>1. /\ Shape(g, n) /\ x \in Item /\ ~g[x].ref /\ g[x].type # "free" /\ n[x] = <<>>
        /\ s \in Seq(Item) /\ Distinct(s) /\ Chained(c, g, x, s, cells) /\ f = Close(c, s)
    BY <1>0, <1>3
  <2>2. \A p \in 1 .. Len(s) : g[s[p]].type = "free"
    BY <1>1
  <2>3. \A p \in 1 .. Len(s) : cells[p] \in Cell /\ Newborn(cells[p])
    OBVIOUS
  <2> HIDE DEF f
  <2>4. Listed(f, c, n, x, s)
    BY ONLY <2>1, <2>2, <2>3, ClosedShape
  <2>5. m = Edit(n, x, s)
    OBVIOUS
  <2> QED BY <2>4, <2>5 DEF Listed
<1> HIDE DEF f
<1>5. \A p \in 1 .. Len(s) : SameItem(f[s[p]], cells[p])
  BY <1>1, <1>3, <1>4 DEF Chained, SameItem
<1>6. \A j \in Item : ~In(j, s) => SameItem(f[j], g[j])
  BY <1>3, <1>4 DEF Chained, SameItem
<1>7. NewTree(h, k, f, m, T \cup N, r)
  <2>1. \A j \in Item : ~In(j, s) => f[j].type = g[j].type /\ f[j].ref = g[j].ref
    BY <1>6 DEF SameItem
  <2>2. \A j \in Item : j # x /\ ~In(j, s) => f[j] = g[j]
    BY <1>3, <1>4 DEF Chained
  <2>3. \A p \in 1 .. Len(s) : f[s[p]].type # "free" /\ ~f[s[p]].ref /\ n[s[p]] = <<>>
    BY <1>1, <1>5 DEF SameItem, Newborn
  <2>4. \A p \in 1 .. Len(s) : s[p] \notin T /\ h[s[p]].type = "free"
    OBVIOUS
  <2>5. NewTree(h, k, g, n, T, r) /\ x \in T /\ n[x] = <<>> /\ s \in Seq(Item) /\ m = Edit(n, x, s)
    OBVIOUS
  <2> QED BY ONLY <2>1, <2>2, <2>3, <2>4, <2>5, GrowTree
<1>8. NewTree(h, k, c, m, T \cup N, r)
  <2>1. \A j \in Item : ~In(j, s) => c[j].type = g[j].type /\ c[j].ref = g[j].ref
    BY <1>3 DEF Chained, SameItem
  <2>2. \A j \in Item : j # x /\ ~In(j, s) => c[j] = g[j]
    BY <1>3 DEF Chained
  <2>3. \A p \in 1 .. Len(s) : c[s[p]].type # "free" /\ ~c[s[p]].ref /\ n[s[p]] = <<>>
    BY <1>1, <1>3 DEF SameItem, Newborn, Chained
  <2>4. \A p \in 1 .. Len(s) : s[p] \notin T /\ h[s[p]].type = "free"
    OBVIOUS
  <2>5. NewTree(h, k, g, n, T, r) /\ x \in T /\ n[x] = <<>> /\ s \in Seq(Item) /\ m = Edit(n, x, s)
    OBVIOUS
  <2> QED BY ONLY <2>1, <2>2, <2>3, <2>4, <2>5, GrowTree
<1>9. c \in Memory /\ Forward(c, m)
  <2>1. \A j \in Item : /\ c[j].type = f[j].type /\ c[j].ref = f[j].ref
                        /\ c[j].child = f[j].child /\ c[j].next = f[j].next
    BY <1>4 DEF SameItem
  <2>2. Forward(f, m) /\ m \in Lists
    BY <1>4 DEF Shape
  <2>3. \A d \in Item : \A p \in 1 .. Len(m[d]) : m[d][p] \in Item
    BY <2>2, ListOf
  <2> QED BY <1>3, <2>1, <2>2, <2>3 DEF Forward, Chained
<1>10. c[r].next = NoItem
  <2>1. r \in Item /\ ~In(r, s)
    BY <1>0 DEF In
  <2>2. \A d \in Item : ~In(r, m[d])
    <3>1. \A d \in Item \ T : ~In(r, m[d])
      <4> SUFFICES ASSUME NEW d \in Item \ T, In(r, m[d]) PROVE FALSE
        OBVIOUS
      <4>1. m[d] = n[d] /\ n[d] = k[d]
        BY <1>0 DEF NewTree, Edit, Lists
      <4>2. h[r].type # "free"
        BY <4>1 DEF Shape, Forward, In
      <4> QED BY <1>0, <4>2 DEF NewTree
    <3>2. \A d \in T : ~In(r, m[d])
      BY <1>7 DEF NewTree
    <3> QED BY <3>1, <3>2
  <2>3. f[r].next = NoItem
    BY <1>4, <2>1, <2>2 DEF Shape, Loose
  <2> QED BY <1>4, <2>1, <2>3
<1>11. Free(c, r) = h
  <2>1. Shape(h, k) /\ c \in Memory /\ Forward(c, m) /\ NewTree(h, k, c, m, T \cup N, r) /\ c[r].next = NoItem
    BY <1>8, <1>9, <1>10
  <2> DEFINE U == T \cup N
  <2>2. NewTree(h, k, c, m, U, r)
    BY <2>1
  <2> HIDE DEF U
  <2> QED BY ONLY <2>1, <2>2, FreeGrown
<1>12. \A j \in Item \ N : SameItem(f[j], g[j])
  BY <1>6 DEF In
<1> QED BY <1>4, <1>5, <1>7, <1>11, <1>12 DEF f, Grew

-----------------------------------------------------------------------------
(***************************************************************************)
(* What the guards of the calls say, when the memory is sound.             *)
(***************************************************************************)

\* Below is a walk along the lists.
LEMMA BelowIs ==
  ASSUME NEW h, NEW s
  PROVE  Below(h, s) = Reached(Sub(Owned(h)), s)
BY DEF Below, Sub

\* The trees of JsonTree are those of the linked lists.
LEMMA TreeIs ==
  ASSUME NEW k, NEW i
  PROVE  Abstract!Tree(k, i) = Reached(Sub(k), {i})
<1> DEFINE W(to, m) ==
             LET met[n \in Nat] ==
                   IF n = 0 THEN {i} ELSE UNION {{j} \cup to[j] : j \in met[n - 1]}
             IN  met[m]
           a == [c \in Item |-> Abstract!ToSet(k[c])]
           b == [c \in Item |-> ToSet(k[c])]
<1>1. Abstract!Tree(k, i) = W(a, Abstract!Cardinality(Item))
  BY DEF Abstract!Tree
<1>2. Reached(Sub(k), {i}) = W(b, Cardinality(Item))
  BY DEF Reached, Sub
<1>3. a = b
  <2>1. ASSUME NEW s PROVE Abstract!ToSet(s) = ToSet(s)
    BY DEF Abstract!ToSet, ToSet
  <2> QED BY <2>1
<1>4. Abstract!Cardinality(Item) = Cardinality(Item)
  BY DEF Abstract!Cardinality, Cardinality
<1> HIDE DEF W, a, b
<1> QED BY <1>1, <1>2, <1>3, <1>4

\* The caller sees at least what is owned.
LEMMA VisibleMore ==
  ASSUME NEW h \in Memory, NEW s \in SUBSET Item
  PROVE  Reached(Sub(Owned(h)), s) \subseteq Visible(h, s)
<1> DEFINE all == [c \in Item |-> ToSet(Kids(h, c))]
           k == Owned(h)
<1>1. k \in Lists
  BY OwnedType
<1>2. \A c \in Item : k[c] = IF h[c].ref THEN <<>> ELSE Kids(h, c)
  BY DEF Owned
<1> HIDE DEF k
<1>3. Sub(k) \in Graph
  BY <1>1, SubIs
<1>4. \A c \in Item : Kids(h, c) \in Seq(Item) /\ ToSet(Kids(h, c)) \subseteq Item
  <2> SUFFICES ASSUME NEW c \in Item PROVE Kids(h, c) \in Seq(Item) /\ ToSet(Kids(h, c)) \subseteq Item
    OBVIOUS
  <2>1. Kids(h, c) \in Seq(Item)
    BY KidsType
  <2>2. \A j : j \in ToSet(Kids(h, c)) <=> In(j, Kids(h, c))
    BY <2>1, ToSetIn
  <2> QED BY <2>1, <2>2, ElementOfSeq DEF In
<1>5. all \in Graph /\ \A c \in Item : all[c] = ToSet(Kids(h, c))
  BY <1>4 DEF Graph
<1>6. Visible(h, s) = Reached(all, s)
  BY DEF Visible
<1> HIDE DEF all
<1>7. ASSUME NEW c \in Item PROVE Sub(k)[c] \subseteq all[c]
  <2>1. CASE h[c].ref
    <3>1. k[c] = <<>>
      BY <1>2, <2>1
    <3>2. ~\E j : In(j, <<>>)
      BY DEF In
    <3> QED BY <1>1, <3>1, <3>2, SubIs
  <2>2. CASE ~h[c].ref
    <3>1. k[c] = Kids(h, c)
      BY <1>2, <2>2
    <3> QED BY <1>5, <3>1 DEF Sub
  <2> QED BY <2>1, <2>2
<1>8. Reached(Sub(k), s) \subseteq Reached(all, s)
  BY <1>3, <1>5, <1>7, ReachedMore
<1> QED BY <1>6, <1>8 DEF k

\* The inductive invariant.
IInv == Sound(heap, Owned(heap), held)

\* What is known before a call.
LEMMA CallFacts ==
  ASSUME IInv, NEW k, k = Owned(heap), NEW R, R = Reached(Sub(k), held)
  PROVE  /\ Sound(heap, k, held) /\ Attached = R
         /\ \A i : Tree(i) = Reached(Sub(k), {i})
         /\ R \subseteq Item /\ held \subseteq R
         /\ \A c \in R : heap[c].type # "free"
BY SoundFacts, BelowIs DEF IInv, Attached, Tree

\* An item that may come into c does not have c below it.
LEMMA MayContainMeans ==
  ASSUME IInv, NEW k, k = Owned(heap), NEW c, NEW i \in Item, MayContain(c, i)
  PROVE  c \in Reached(Sub(k), held) /\ ~heap[c].ref /\ c \notin Reached(Sub(k), {i})
<1>1. heap \in Memory /\ {i} \in SUBSET Item
  BY SoundFacts DEF IInv
<1>2. Reached(Sub(k), {i}) \subseteq Visible(heap, {i})
  BY <1>1, VisibleMore
<1> QED BY <1>2, CallFacts DEF MayContain

\* No reference shows the list that may be changed.
LEMMA MayChangeMeans ==
  ASSUME IInv, NEW k, k = Owned(heap), NEW c, MayChange(c)
  PROVE  c \in Reached(Sub(k), held) /\ ~heap[c].ref /\ Unseen(heap, k, held, c)
<1> DEFINE R == Reached(Sub(k), held)
<1>1. Sound(heap, k, held) /\ Attached = R /\ R \subseteq Item
  BY CallFacts
<1>2. k \in Lists /\ Forward(heap, k)
  BY <1>1 DEF Sound, Shape
<1>3. c \in R /\ ~heap[c].ref /\ heap[c].child \notin Shown
  BY <1>1 DEF MayChange
<1> HIDE DEF R
<1>4. Unseen(heap, k, held, c)
  <2> SUFFICES ASSUME k[c] # <<>>, NEW r \in R, heap[r].ref, heap[r].child = k[c][1] PROVE FALSE
    BY DEF Unseen, R
  <2>1. heap[c].child = k[c][1] /\ k[c][1] \in Item
    BY <1>1, <1>2, <1>3, ListOf DEF Forward, FirstOf
  <2>2. heap[r].child \in Shown
    BY <1>1, <2>1, ItemAssumption DEF Shown
  <2> QED BY <1>3, <2>1, <2>2
<1> QED BY <1>3, <1>4 DEF R

\* Only references in a tree that may be freed show what is in it.
LEMMA MayFreeMeans ==
  ASSUME IInv, NEW k, k = Owned(heap), NEW i, MayFree(i)
  PROVE  OwnUse(heap, k, held, Reached(Sub(k), {i}))
BY CallFacts DEF MayFree, OwnUse

\* The caller finds the kids that k says.
LEMMA KidsOwned ==
  ASSUME NEW h, NEW k, NEW s, Sound(h, k, s), NEW c \in Item, ~h[c].ref
  PROVE  Kids(h, c) = k[c] /\ k[c] \in Seq(Item)
<1>1. Owned(h) = k /\ k \in Lists
  BY SoundFacts
<1> QED BY <1>1, ListOf DEF Owned

\* cJSON_GetArrayItem finds an item of c.
LEMMA ArrayItemIs ==
  ASSUME NEW h, NEW k, NEW s, Sound(h, k, s), NEW c \in Item, ~h[c].ref, NEW p,
         GetArrayItem(h, c, p) # NoItem
  PROVE  p \in 1 .. Len(k[c]) /\ GetArrayItem(h, c, p) = k[c][p]
<1>1. Kids(h, c) = k[c] /\ k[c] \in Seq(Item)
  BY KidsOwned
<1>2. DOMAIN k[c] = 1 .. Len(k[c])
  BY <1>1
<1> QED BY <1>1, <1>2 DEF GetArrayItem

\* cJSON_GetObjectItem finds an item of c.
LEMMA ObjectItemIs ==
  ASSUME NEW h, NEW k, NEW s, Sound(h, k, s), NEW c \in Item, ~h[c].ref, NEW n, NEW case,
         GetObjectItem(h, c, n, case) # NoItem
  PROVE  \E p \in 1 .. Len(k[c]) : GetObjectItem(h, c, n, case) = k[c][p]
<1> DEFINE l == Kids(h, c)
           found == {p \in DOMAIN l :
                  IF case THEN h[l[p]].name \in {n, NoName}
                  ELSE h[l[p]].name # NoName /\ Fold[h[l[p]].name] = Fold[n]}
<1>1. Kids(h, c) = k[c] /\ k[c] \in Seq(Item)
  BY KidsOwned
<1>2. DOMAIN l = 1 .. Len(k[c]) /\ Len(k[c]) \in Nat
  BY <1>1
<1>3. found # {} /\ GetObjectItem(h, c, n, case) = l[Min(found)]
  BY Zenon DEF GetObjectItem
<1>4. found \subseteq 1 .. Len(k[c])
  BY <1>2
<1> HIDE DEF found, l
<1>5. Min(found) \in found
  <2>1. \E q \in found : \A p \in found : q <= p
    <3> DEFINE W == {m \in Nat : (\E p \in found : p <= m) => \E q \in found : \A p \in found : q <= p}
    <3>1. 0 \in W
      BY <1>2, <1>4
    <3>2. ASSUME NEW m \in Nat, m \in W PROVE m + 1 \in W
      <4> SUFFICES ASSUME NEW x \in found, x <= m + 1, ~\E p \in found : p <= m
                   PROVE \E q \in found : \A p \in found : q <= p
        BY <3>2
      <4>1. \A p \in found : p \in Nat /\ ~(p <= m)
        BY <1>2, <1>4
      <4>2. \A p \in found : x <= p
        BY <4>1
      <4> QED BY <4>2
    <3>3. Nat \subseteq W
      <4> HIDE DEF W
      <4> QED BY <3>1, <3>2, Induction
    <3>4. PICK x : x \in found
      BY <1>3
    <3>5. x \in Nat /\ x <= x
      BY <1>2, <1>4, <3>4
    <3>6. x \in W
      BY <3>3, <3>5
    <3> QED BY <3>4, <3>5, <3>6
  <2> QED BY <2>1 DEF Min
<1> QED BY <1>1, <1>3, <1>4, <1>5 DEF l

-----------------------------------------------------------------------------
(***************************************************************************)
(* The sequences of JsonTree.                                              *)
(***************************************************************************)

\* Sound for some lists is Sound for the lists that Owned finds.
LEMMA Owns ==
  ASSUME NEW n, Sound(heap', n, held')
  PROVE  IInv' /\ Owned(heap') = n
<1>1. Owned(heap') = n
  BY SoundFacts
<1> QED BY <1>1 DEF IInv

\* No list is longer than there are items.
LEMMA ShortList ==
  ASSUME NEW h, NEW k, NEW s, Sound(h, k, s), NEW c \in Item
  PROVE  Len(k[c]) <= Cardinality(Item) /\ Cardinality(Item) \in Nat
<1>1. k \in Lists /\ Unshared(k)
  BY SoundFacts
<1>2. k[c] \in Seq(Item) /\ \A p, q \in 1 .. Len(k[c]) : k[c][p] = k[c][q] => p = q
  BY <1>1, ListOf DEF Unshared
<1> QED BY <1>2, ShortSeq, ItemAssumption

\* A step of the lists that inserts i is Insert of JsonTree.
LEMMA AbstractInsert ==
  ASSUME NEW k, k = Owned(heap), NEW c \in Live, NEW q, NEW i \in Item,
         i \in held \/ i \notin Live,
         c \notin Reached(Sub(k), {i}), q \in 1 .. Len(k[c]) + 1, Sound(heap, k, held),
         NEW n, n = Edit(k, c, InsertAt(k[c], q, i)), Sound(heap', n, held'),
         held' = held \ {i}, \A j \in Item : heap'[j].type # "free" <=> heap[j].type # "free" \/ j = i
  PROVE  IInv' /\ Abstract!Change
<1>1. IInv' /\ Owned(heap') = n
  BY Owns
<1>2. c \in Item /\ k \in Lists
  BY SoundFacts DEF Live
<1>3. Live' = Live \cup {i}
  BY DEF Live
<1>4. n = [k EXCEPT ![c] = Abstract!InsertAt(@, q, i)]
  BY DEF Edit, Abstract!InsertAt, InsertAt
<1>5. c \in Live \ Abstract!Tree(k, i)
  BY TreeIs
<1>6. Abstract!Insert(c, q, i)
  BY <1>1, <1>3, <1>4, <1>5 DEF Abstract!Insert
<1>7. q \in 1 .. Cardinality(Item)
  <2>1. Len(n[c]) = Len(k[c]) + 1 /\ Len(k[c]) \in Nat
    <3> DEFINE v == k[c]
    <3>1. v \in Seq(Item) /\ q \in 1 .. Len(v) + 1 /\ n[c] = InsertAt(v, q, i)
      BY <1>2, ListOf DEF Edit, Lists
    <3> HIDE DEF v
    <3>2. Len(n[c]) = Len(v) + 1 /\ Len(v) \in Nat
      BY <3>1, InsertAtIs
    <3> QED BY <3>2 DEF v
  <2>2. Len(n[c]) <= Cardinality(Item) /\ Cardinality(Item) \in Nat
    BY <1>2, ShortList
  <2> QED BY <2>1, <2>2
<1>8. Abstract!Change
  BY <1>6, <1>7 DEF Abstract!Change, Abstract!Cardinality, Cardinality
<1> QED BY <1>1, <1>8

\* An index is within the range that JsonTree quantifies over.
LEMMA IndexInBound ==
  ASSUME NEW h, NEW k, NEW s, Sound(h, k, s), NEW c \in Item, NEW q \in 1 .. Len(k[c])
  PROVE  q \in 1 .. Abstract!Cardinality(Item) /\ q \in DOMAIN k[c]
<1>1. Len(k[c]) <= Cardinality(Item) /\ Cardinality(Item) \in Nat
  BY ShortList
<1>2. k[c] \in Seq(Item) /\ Len(k[c]) \in Nat
  BY SoundFacts, ListOf
<1>3. Abstract!Cardinality(Item) = Cardinality(Item)
  BY DEF Abstract!Cardinality, Cardinality
<1> QED BY <1>1, <1>2, <1>3

\* A step that takes out the q-th item is TakeOut.
LEMMA AbstractTakeOut ==
  ASSUME NEW k, k = Owned(heap), Sound(heap, k, held), NEW c \in Live, NEW q \in 1 .. Len(k[c]),
         Sound(heap', Edit(k, c, RemoveAt(k[c], q)), held'), held' = held \cup {k[c][q]},
         \A j \in Item : heap'[j].type = heap[j].type
  PROVE  IInv' /\ Abstract!Change
<1> DEFINE n == Edit(k, c, RemoveAt(k[c], q))
<1>1. IInv' /\ Owned(heap') = n
  BY Owns
<1>2. c \in Item /\ k \in Lists
  BY SoundFacts DEF Live
<1>3. UNCHANGED Live
  BY DEF Live
<1>4. n = [k EXCEPT ![c] = Abstract!RemoveAt(@, q)]
  BY DEF Edit, Abstract!RemoveAt, RemoveAt
<1>5. q \in 1 .. Abstract!Cardinality(Item) /\ q \in DOMAIN k[c]
  BY <1>2, IndexInBound
<1> HIDE DEF n
<1>6. Abstract!TakeOut(c, q)
  BY <1>1, <1>3, <1>4, <1>5 DEF Abstract!TakeOut
<1> QED BY <1>1, <1>5, <1>6 DEF Abstract!Change

\* A step that frees the tree of i is Forget.
LEMMA AbstractForget ==
  ASSUME NEW k, k = Owned(heap), NEW i \in Item, NEW m, NEW D, D = Reached(Sub(k), {i}),
         Sound(heap', Cleared(m, D), held'),
         \A j \in Item : heap'[j].type = IF j \in D THEN "free" ELSE heap[j].type
  PROVE  Abstract!Forget(m, i)
<1>1. Owned(heap') = Cleared(m, D)
  BY Owns
<1>2. Live' = Live \ D
  BY DEF Live
<1>3. Abstract!Tree(k, i) = D
  BY TreeIs
<1> QED BY <1>1, <1>2, <1>3 DEF Abstract!Forget, Cleared

\* A step that deletes the q-th item is DeleteAt.
LEMMA AbstractDeleteAt ==
  ASSUME NEW k, k = Owned(heap), Sound(heap, k, held), NEW c \in Live, NEW q \in 1 .. Len(k[c]),
         NEW D, D = Reached(Sub(k), {k[c][q]}),
         Sound(heap', Cleared(Edit(k, c, RemoveAt(k[c], q)), D), held'), held' = held,
         \A j \in Item : heap'[j].type = IF j \in D THEN "free" ELSE heap[j].type
  PROVE  IInv' /\ Abstract!Change
<1> DEFINE n == Edit(k, c, RemoveAt(k[c], q))
<1>1. IInv'
  BY Owns
<1>2. c \in Item /\ k \in Lists /\ k[c][q] \in Item
  BY SoundFacts, ListOf DEF Live
<1>4. n = [k EXCEPT ![c] = Abstract!RemoveAt(@, q)]
  BY DEF Edit, Abstract!RemoveAt, RemoveAt
<1>5. q \in 1 .. Abstract!Cardinality(Item) /\ q \in DOMAIN k[c]
  BY <1>2, IndexInBound
<1>6. Abstract!Forget(n, k[c][q])
  BY <1>2, AbstractForget
<1> HIDE DEF n
<1>7. Abstract!DeleteAt(c, q)
  BY <1>4, <1>5, <1>6 DEF Abstract!DeleteAt
<1> QED BY <1>1, <1>5, <1>7 DEF Abstract!Change

\* A step that replaces the q-th item is Replace.
LEMMA AbstractReplace ==
  ASSUME NEW k, k = Owned(heap), Sound(heap, k, held), NEW c \in Live, NEW q \in 1 .. Len(k[c]),
         NEW i \in held, c \notin Reached(Sub(k), {i}), NEW D, D = Reached(Sub(k), {k[c][q]}),
         Sound(heap', Cleared(Edit(k, c, ReplaceAt(k[c], q, i)), D), held'), held' = held \ {i},
         \A j \in Item : heap'[j].type = IF j \in D THEN "free" ELSE heap[j].type
  PROVE  IInv' /\ Abstract!Change
<1> DEFINE n == Edit(k, c, ReplaceAt(k[c], q, i))
<1>1. IInv'
  BY Owns
<1>2. c \in Item /\ k \in Lists /\ k[c][q] \in Item /\ i \in Item
  BY SoundFacts, ListOf DEF Live
<1>4. n = [k EXCEPT ![c] = Abstract!ReplaceAt(@, q, i)]
  BY DEF Edit, Abstract!ReplaceAt, ReplaceAt
<1>5. q \in 1 .. Abstract!Cardinality(Item) /\ q \in DOMAIN k[c]
  BY <1>2, IndexInBound
<1>6. Abstract!Forget(n, k[c][q])
  BY <1>2, AbstractForget
<1>7. c \notin Abstract!Tree(k, i)
  BY TreeIs
<1> HIDE DEF n
<1>8. Abstract!Replace(c, q, i)
  BY <1>4, <1>5, <1>6, <1>7 DEF Abstract!Replace
<1> QED BY <1>1, <1>2, <1>5, <1>8 DEF Abstract!Change

\* A step that deletes an item of the caller is Delete.
LEMMA AbstractDelete ==
  ASSUME NEW k, k = Owned(heap), Sound(heap, k, held), NEW i \in held,
         NEW D, D = Reached(Sub(k), {i}),
         Sound(heap', Cleared(k, D), held'), held' = held \ {i},
         \A j \in Item : heap'[j].type = IF j \in D THEN "free" ELSE heap[j].type
  PROVE  IInv' /\ Abstract!Change
<1>1. IInv' /\ i \in Item
  BY Owns, SoundFacts
<1>2. Abstract!Forget(k, i)
  BY <1>1, AbstractForget
<1>3. Abstract!Delete(i)
  BY <1>2 DEF Abstract!Delete
<1> QED BY <1>1, <1>3 DEF Abstract!Change

\* A step that gives the caller a new tree is Make.
LEMMA AbstractMake ==
  ASSUME NEW k, k = Owned(heap), NEW r \in Item, NEW n, Sound(heap', n, held'), held' = held \cup {r},
         NEW D, D = Reached(Sub(n), {r}), \A j \in D : heap[j].type = "free",
         \A j \in Item : heap'[j].type # "free" <=> heap[j].type # "free" \/ j \in D,
         \A j \in Item \ D : n[j] = k[j]
  PROVE  IInv' /\ Abstract!Change
<1>1. IInv' /\ Owned(heap') = n
  BY Owns
<1>2. Live' = Live \cup D /\ D \cap Live = {}
  <2>1. n \in Lists
    BY <1>1, OwnedType, SoundFacts
  <2>2. D \subseteq Item
    BY <2>1, SubIs, ReachedClosed, {r} \in SUBSET Item
  <2> QED BY <2>2 DEF Live
<1>3. Abstract!Tree(n, r) = D
  BY TreeIs
<1>4. Abstract!Make(r)
  BY <1>1, <1>2, <1>3 DEF Abstract!Make
<1> QED BY <1>1, <1>4 DEF Abstract!Change

\* A step that loses a new item is Leak.
LEMMA AbstractLeak ==
  ASSUME NEW k, k = Owned(heap), NEW r \in Item, Sound(heap', k, held'), held' = held,
         heap[r].type = "free", \A j \in Item : heap'[j].type # "free" <=> heap[j].type # "free" \/ j = r
  PROVE  IInv' /\ Abstract!Change
<1>1. IInv' /\ Owned(heap') = k
  BY Owns
<1>2. Live' = Live \cup {r} /\ r \notin Live
  BY DEF Live
<1>3. Abstract!Leak(r)
  BY <1>1, <1>2 DEF Abstract!Leak
<1> QED BY <1>1, <1>3 DEF Abstract!Change

\* A step that changes neither lists nor memory is a stutter.
LEMMA AbstractStay ==
  ASSUME NEW k, k = Owned(heap), Sound(heap', k, held'), held' = held,
         \A j \in Item : heap'[j].type = heap[j].type
  PROVE  IInv' /\ UNCHANGED Abstract!tree
<1>1. IInv' /\ Owned(heap') = k
  BY Owns
<1>2. UNCHANGED Live
  BY DEF Live
<1> QED BY <1>1, <1>2 DEF Abstract!tree

-----------------------------------------------------------------------------
(***************************************************************************)
(* cJSON_New_Item and what is called at once with it.                      *)
(***************************************************************************)

\* The caller gets a single new item.
LEMMA MakeOne ==
  ASSUME IInv, NEW k, k = Owned(heap), NEW i \in Unused, NEW x \in Cell, Newborn(x),
         x.ref /\ x.child # NoItem => \E c \in Item : k[c] # <<>> /\ x.child = k[c][1],
         heap' = [heap EXCEPT ![i] = x], held' = held \cup {i}
  PROVE  IInv' /\ Abstract!Change
<1>1. Sound(heap, k, held) /\ i \in Item /\ heap[i].type = "free"
  BY CallFacts DEF Unused, Live
<1>2. Created(heap', k, held, i)
  <2>1. x.ref /\ x.child # NoItem => \E c \in Item : k[c] # <<>> /\ x.child = k[c][1]
    OBVIOUS
  <2>2. x \in Cell /\ Newborn(x) /\ heap' = [heap EXCEPT ![i] = x]
    OBVIOUS
  <2> DEFINE g == heap'
             h == heap
             s == held
  <2>3. Sound(h, k, s) /\ i \in Item /\ h[i].type = "free" /\ g = [h EXCEPT ![i] = x]
    BY <1>1
  <2>4. Created(g, k, s, i)
    <3> HIDE DEF g, h, s
    <3> QED BY ONLY <2>1, <2>2, <2>3, SoundCreate
  <2> QED BY <2>4
<1>3. Sound(heap', k, held') /\ Reached(Sub(k), {i}) = {i}
  BY <1>2 DEF Created
<1>4. heap'[i] = x /\ \A j \in Item \ {i} : heap'[j] = heap[j]
  BY <1>1, SoundFacts DEF Memory
<1>5. x.type # "free"
  BY DEF Newborn
<1>6. \A j \in Item : heap'[j].type # "free" <=> heap[j].type # "free" \/ j \in {i}
  BY <1>4, <1>5
<1> QED BY <1>1, <1>3, <1>6, AbstractMake

\* What cJSON_New_Item gives.
LEMMA NewItemIs ==
  ASSUME NEW t \in {"array", "object"}
  PROVE  /\ NewItem(t) \in Cell /\ Newborn(NewItem(t)) /\ NewItem(t).type = t
         /\ NewItem(t).name = NoName /\ ~NewItem(t).ref /\ NewItem(t).child = NoItem
BY DEF NewItem, Cell, Newborn

\* Create.
LEMMA CreateSound ==
  ASSUME IInv, NEW i, NEW t \in {"array", "object"}, Create(i, t)
  PROVE  IInv' /\ Abstract!Change
BY NewItemIs, MakeOne DEF Create

\* CreateReference.
LEMMA CreateReferenceSound ==
  ASSUME IInv, NEW r, NEW c, CreateReference(r, c)
  PROVE  IInv' /\ Abstract!Change
<1> DEFINE k == Owned(heap)
           x == [NewItem(heap[c].type) EXCEPT !.ref = TRUE, !.child = heap[c].child]
<1>1. /\ r \in Unused /\ c \in Attached /\ heap[c].child # NoItem
      /\ heap' = [heap EXCEPT ![r] = x] /\ held' = held \cup {r}
  BY DEF CreateReference
<1>2. Sound(heap, k, held) /\ c \in Reached(Sub(k), held) /\ c \in Item /\ heap[c].type # "free" /\ heap \in Memory
  BY <1>1, CallFacts, SoundFacts
<1>3. \E d \in Item : k[d] # <<>> /\ heap[c].child = k[d][1]
  BY <1>1, <1>2, ChildShown
<1>4. heap[c] \in Cell
  BY <1>2, MemoryCells
<1>5. x \in Cell /\ Newborn(x) /\ x.child = heap[c].child
  BY <1>2, <1>4 DEF Cell, NewItem, Newborn
<1> HIDE DEF x
<1> QED BY <1>1, <1>3, <1>5, MakeOne

\* An item that is added to the end.
LEMMA AppendIs ==
  ASSUME NEW s \in Seq(Item), NEW i \in Item
  PROVE  Append(s, i) = InsertAt(s, Len(s) + 1, i)
<1> DEFINE q == Len(s) + 1
<1>1. q \in 1 .. Len(s) + 1 /\ Len(s) \in Nat
  BY LenProperties
<1>2. /\ InsertAt(s, q, i) \in Seq(Item) /\ Len(InsertAt(s, q, i)) = Len(s) + 1
      /\ \A p \in 1 .. Len(s) + 1 :
           InsertAt(s, q, i)[p] = IF p < q THEN s[p] ELSE IF p = q THEN i ELSE s[p - 1]
  <2> HIDE DEF q
  <2> QED BY <1>1, InsertAtIs
<1>3. /\ Append(s, i) \in Seq(Item) /\ Len(Append(s, i)) = Len(s) + 1 /\ Append(s, i)[Len(s) + 1] = i
      /\ \A p \in 1 .. Len(s) : Append(s, i)[p] = s[p]
  BY AppendProperties
<1>4. \A p \in 1 .. Len(s) + 1 : InsertAt(s, q, i)[p] = Append(s, i)[p]
  <2> SUFFICES ASSUME NEW p \in 1 .. Len(s) + 1 PROVE InsertAt(s, q, i)[p] = Append(s, i)[p]
    OBVIOUS
  <2>1. CASE p = Len(s) + 1
    BY <1>1, <1>2, <1>3, <2>1
  <2>2. CASE p # Len(s) + 1
    <3>1. p \in 1 .. Len(s) /\ p < q
      BY <1>1, <2>2
    <3> QED BY <1>2, <1>3, <3>1
  <2> QED BY <2>1, <2>2
<1> DEFINE a == InsertAt(s, q, i)
           b == Append(s, i)
<1>5. a \in Seq(Item) /\ b \in Seq(Item) /\ Len(a) = Len(b) /\ \A p \in 1 .. Len(a) : a[p] = b[p]
  BY <1>2, <1>3, <1>4
<1> HIDE DEF a, b
<1>6. a = b
  BY ONLY <1>5, SeqEqual
<1> QED BY <1>6 DEF a, b

-----------------------------------------------------------------------------
(***************************************************************************)
(* The calls that add.                                                     *)
(***************************************************************************)

\* A step that appends i is Insert behind the end.
LEMMA AppendSound ==
  ASSUME NEW k, k = Owned(heap), Sound(heap, k, held), NEW c \in Reached(Sub(k), held), NEW i \in Item,
         i \in held \/ i \notin Live, c \notin Reached(Sub(k), {i}),
         Sound(heap', Edit(k, c, Append(k[c], i)), held'), held' = held \ {i},
         \A j \in Item : heap'[j].type # "free" <=> heap[j].type # "free" \/ j = i
  PROVE  IInv' /\ Abstract!Change
<1>1. c \in Live /\ k[c] \in Seq(Item) /\ Len(k[c]) \in Nat
  BY SoundFacts, ListOf DEF Live
<1> DEFINE q == Len(k[c]) + 1
           n == Edit(k, c, Append(k[c], i))
<1>2. n = Edit(k, c, InsertAt(k[c], q, i)) /\ q \in 1 .. Len(k[c]) + 1
  <2> DEFINE v == k[c]
  <2>1. v \in Seq(Item) /\ Len(v) \in Nat
    BY <1>1
  <2> HIDE DEF v
  <2>2. Append(v, i) = InsertAt(v, Len(v) + 1, i) /\ Len(v) + 1 \in 1 .. Len(v) + 1
    BY <2>1, AppendIs
  <2> QED BY <2>2 DEF v
<1>3. Sound(heap', n, held')
  OBVIOUS
<1> HIDE DEF n, q
<1> QED BY <1>1, <1>2, <1>3, AbstractInsert

\* AddToArray.
LEMMA AddToArraySound ==
  ASSUME IInv, NEW c, NEW i, AddToArray(c, i)
  PROVE  IInv' /\ Abstract!Change
<1> DEFINE k == Owned(heap)
           g == AddItemToArray(heap, c, i)
           n == Edit(k, c, Append(k[c], i))
<1>1. i \in held /\ MayContain(c, i) /\ heap' = g /\ held' = held \ {i}
  BY DEF AddToArray
<1>2. Sound(heap, k, held) /\ i \in Item
  BY <1>1, CallFacts
<1>3. c \in Reached(Sub(k), held) /\ ~heap[c].ref /\ c \notin Reached(Sub(k), {i})
  BY <1>1, <1>2, MayContainMeans
<1>4. Sound(g, n, held \ {i}) /\ Kept(g, heap, c)
  BY <1>1, <1>2, <1>3, SoundAdded
<1>5. heap[i].type # "free"
  BY <1>1, CallFacts
<1>6. \A j \in Item : heap'[j].type # "free" <=> heap[j].type # "free" \/ j = i
  BY <1>1, <1>4, <1>5 DEF Kept, SameItem
<1> HIDE DEF k, g
<1> QED BY <1>1, <1>2, <1>3, <1>4, <1>6, AppendSound DEF k

\* AddToObject: without memory for the key nothing happens.
LEMMA AddToObjectSound ==
  ASSUME IInv, NEW c, NEW n \in Name, NEW i, NEW const \in BOOLEAN, AddToObject(c, n, i, const)
  PROVE  IInv' /\ (Abstract!Change \/ UNCHANGED Abstract!tree)
<1> DEFINE k == Owned(heap)
           h1 == SetKey(heap, i, n, const)
           g == AddItemToArray(h1, c, i)
           m == Edit(k, c, Append(k[c], i))
<1>1. i \in held /\ MayContain(c, i)
  BY DEF AddToObject
<1>9. CASE UNCHANGED <<heap, held>>
  <2>1. Sound(heap, k, held)
    BY CallFacts
  <2> QED BY <1>9, <2>1, AbstractStay
<1> SUFFICES ASSUME heap' = g, held' = held \ {i} PROVE IInv' /\ Abstract!Change
  BY <1>9 DEF AddToObject
<1>2. Sound(heap, k, held) /\ i \in Item /\ heap \in Memory
  BY <1>1, CallFacts, SoundFacts
<1>3. c \in Reached(Sub(k), held) /\ ~heap[c].ref /\ c \notin Reached(Sub(k), {i}) /\ c \in Item
  BY <1>1, <1>2, MayContainMeans, CallFacts
<1> HIDE DEF h1
<1>4. h1 \in Memory /\ Renamed(h1, heap, i)
  BY <1>2, KeySet DEF h1
<1>5. Sound(h1, k, held) /\ \A j \in Item : h1[j].type = heap[j].type /\ h1[j].ref = heap[j].ref
  BY <1>1, <1>2, <1>4, SoundRenamed
<1>6. Sound(g, m, held \ {i}) /\ Kept(g, h1, c)
  BY <1>1, <1>2, <1>3, <1>5, SoundAdded
<1>7. heap[i].type # "free"
  BY <1>1, CallFacts
<1>8. \A j \in Item : heap'[j].type # "free" <=> heap[j].type # "free" \/ j = i
  BY <1>5, <1>6, <1>7 DEF Kept, SameItem
<1> HIDE DEF k, g
<1> QED BY <1>1, <1>2, <1>3, <1>6, <1>8, AppendSound DEF k

\* A new item x is added to c.
LEMMA AddNewSound ==
  ASSUME IInv, NEW k, k = Owned(heap), NEW c \in Attached, ~heap[c].ref, NEW i \in Unused,
         NEW x \in Cell, Newborn(x),
         x.ref /\ x.child # NoItem => \E d \in Item : k[d] # <<>> /\ x.child = k[d][1],
         heap' = AddItemToArray([heap EXCEPT ![i] = x], c, i), held' = held
  PROVE  IInv' /\ Abstract!Change
<1> DEFINE g == [heap EXCEPT ![i] = x]
           n == Edit(k, c, Append(k[c], i))
<1>1. Sound(heap, k, held) /\ i \in Item /\ heap[i].type = "free" /\ i \notin Live
      /\ c \in Reached(Sub(k), held) /\ i \notin held
  BY CallFacts DEF Unused, Live
<1>2. /\ Sound(heap', n, held)
      /\ \A j \in Item : heap'[j].type = IF j = i THEN x.type ELSE heap[j].type
      /\ c \notin Reached(Sub(k), {i})
  <2> DEFINE h == heap
             s == held
  <2>1. /\ Sound(h, k, s) /\ c \in Reached(Sub(k), s) /\ ~h[c].ref /\ i \in Item /\ h[i].type = "free"
        /\ x \in Cell /\ Newborn(x) /\ g = [h EXCEPT ![i] = x] /\ n = Edit(k, c, Append(k[c], i))
    BY <1>1
  <2>2. x.ref /\ x.child # NoItem => \E d \in Item : k[d] # <<>> /\ x.child = k[d][1]
    OBVIOUS
  <2>3. AddedNew(AddItemToArray(g, c, i), h, k, n, s, c, i, x)
    <3> HIDE DEF h, s, g, n
    <3> QED BY ONLY <2>1, <2>2, SoundAddNew
  <2> QED BY <2>3 DEF AddedNew
<1>3. x.type # "free"
  BY DEF Newborn
<1>4. \A j \in Item : heap'[j].type # "free" <=> heap[j].type # "free" \/ j = i
  BY <1>2, <1>3
<1>5. held' = held \ {i}
  BY <1>1
<1> HIDE DEF g
<1> QED BY <1>1, <1>2, <1>4, <1>5, AppendSound

\* h with a new item at i that is x but for its name.
KeyedAs(g, h, i, x) ==
  \E y \in Cell : g = [h EXCEPT ![i] = y] /\ Newborn(y) /\ y.ref = x.ref /\ y.child = x.child

\* A new item that gets its key is still new.
LEMMA KeyOfNew ==
  ASSUME NEW h \in Memory, NEW i \in Item, NEW x \in Cell, Newborn(x), NEW n \in Name
  PROVE  KeyedAs(SetKey([h EXCEPT ![i] = x], i, n, FALSE), h, i, x)
<1> DEFINE y == [x EXCEPT !.name = n, !.constant = FALSE, !.copied = TRUE]
<1>1. y \in Cell /\ y.name = n /\ ~y.constant /\ y.copied = TRUE /\ y.ref = x.ref /\ y.child = x.child
      /\ y.type = x.type /\ y.next = x.next /\ y.prev = x.prev
  BY DEF Cell
<1>2. SetKey([h EXCEPT ![i] = x], i, n, FALSE) = [h EXCEPT ![i] = y]
  BY DEF SetKey, Memory
<1> HIDE DEF y
<1>3. Newborn(y)
  BY <1>1, NameAssumption DEF Newborn
<1> QED BY <1>1, <1>2, <1>3 DEF KeyedAs

\* AddNewToObject: without memory for the key the new item is deleted.
LEMMA AddNewToObjectSound ==
  ASSUME IInv, NEW c, NEW n \in Name, NEW i, NEW t \in {"array", "object"}, AddNewToObject(c, n, i, t)
  PROVE  IInv' /\ (Abstract!Change \/ UNCHANGED Abstract!tree)
<1> DEFINE k == Owned(heap)
           x == NewItem(t)
           h1 == [heap EXCEPT ![i] = x]
<1>0. i \in Unused /\ c \in Attached /\ ~heap[c].ref /\ held' = held
  BY DEF AddNewToObject
<1>1. Sound(heap, k, held) /\ i \in Item /\ heap[i].type = "free" /\ heap \in Memory /\ Shape(heap, k)
  BY <1>0, CallFacts, SoundFacts DEF Unused, Live, Sound
<1>2. x \in Cell /\ Newborn(x) /\ ~x.ref
  BY NewItemIs
<1> HIDE DEF x
<1>3. CASE heap' = AddItemToArray(SetKey(h1, i, n, FALSE), c, i)
  <2>1. PICK y \in Cell : SetKey(h1, i, n, FALSE) = [heap EXCEPT ![i] = y] /\ Newborn(y) /\ ~y.ref
    <3>1. KeyedAs(SetKey(h1, i, n, FALSE), heap, i, x)
      BY <1>1, <1>2, KeyOfNew
    <3> QED BY <1>2, <3>1 DEF KeyedAs
  <2>2. heap' = AddItemToArray([heap EXCEPT ![i] = y], c, i)
    BY <1>3, <2>1
  <2> QED BY <1>0, <2>1, <2>2, AddNewSound
<1>4. CASE heap' = Free(h1, i)
  <2> DEFINE s == held
             h == heap
             g == h1
  <2>1. Created(g, k, s, i)
    <3>1. /\ Sound(h, k, s) /\ i \in Item /\ h[i].type = "free" /\ x \in Cell /\ Newborn(x)
          /\ g = [h EXCEPT ![i] = x]
      BY <1>1, <1>2
    <3>2. x.ref /\ x.child # NoItem => \E d \in Item : k[d] # <<>> /\ x.child = k[d][1]
      BY <1>2
    <3> HIDE DEF g, h, s, k
    <3> QED BY ONLY <3>1, <3>2, SoundCreate
  <2>2. Sound(h1, k, held \cup {i}) /\ Reached(Sub(k), {i}) = {i}
    BY <2>1 DEF Created
  <2>3. Free(h1, i) = Blank(h1, {i})
    BY <2>2, FreeIsBlank
  <2>4. heap[i] = NewItem("free")
    BY <1>1 DEF Shape, Loose
  <2>5. Blank(h1, {i}) = heap
    BY <1>1, <2>4 DEF Blank, Memory
  <2>6. heap' = heap
    BY <1>4, <2>3, <2>5
  <2> QED BY <1>0, <1>1, <2>6, AbstractStay
<1> QED BY <1>3, <1>4 DEF AddNewToObject, x

\* What create_reference makes.
LEMMA ReferenceIs ==
  ASSUME IInv, NEW k, k = Owned(heap), NEW j \in Attached, NEW x, x = Reference(j)
  PROVE  /\ x \in Cell /\ Newborn(x) /\ x.ref /\ x.name = NoName
         /\ x.child # NoItem => \E d \in Item : k[d] # <<>> /\ x.child = k[d][1]
<1>1. Sound(heap, k, held) /\ heap \in Memory /\ j \in Item /\ j \in Reached(Sub(k), held) /\ heap[j].type # "free"
  BY CallFacts, SoundFacts
<1>2. heap[j] \in Cell
  BY <1>1, MemoryCells
<1>3. /\ x \in Cell /\ x.ref /\ x.name = NoName /\ x.copied = FALSE /\ x.next = NoItem /\ x.prev = NoItem
      /\ x.child = heap[j].child /\ x.type = heap[j].type
  BY <1>2 DEF Cell, Reference
<1>4. Newborn(x)
  BY <1>1, <1>3 DEF Newborn
<1>5. x.child # NoItem => \E d \in Item : k[d] # <<>> /\ x.child = k[d][1]
  BY <1>1, <1>3, ChildShown
<1> QED BY <1>3, <1>4, <1>5

\* AddReferenceToArray.
LEMMA AddReferenceToArraySound ==
  ASSUME IInv, NEW c, NEW j, NEW r, AddReferenceToArray(c, j, r)
  PROVE  IInv' /\ (Abstract!Change \/ UNCHANGED Abstract!tree)
<1> DEFINE k == Owned(heap)
           x == Reference(j)
<1>1. r \in Unused /\ j \in Attached /\ MayContain(c, j) /\ held' = held
  BY DEF AddReferenceToArray
<1>2. c \in Attached /\ ~heap[c].ref
  BY <1>1 DEF MayContain
<1>3. /\ x \in Cell /\ Newborn(x)
      /\ x.child # NoItem => \E d \in Item : k[d] # <<>> /\ x.child = k[d][1]
  BY <1>1, ReferenceIs
<1>4. CASE heap' = AddItemToArray([heap EXCEPT ![r] = x], c, r)
  <2> HIDE DEF x, k
  <2>1. k = Owned(heap)
    BY DEF k
  <2> QED BY <1>1, <1>2, <1>3, <1>4, <2>1, AddNewSound
<1>5. CASE heap' = heap
  <2>1. Sound(heap, k, held)
    BY CallFacts
  <2> QED BY <1>1, <1>5, <2>1, AbstractStay
<1> QED BY <1>4, <1>5 DEF AddReferenceToArray

\* AddReferenceToObject: without memory for the key the reference is lost.
LEMMA AddReferenceToObjectSound ==
  ASSUME IInv, NEW c, NEW n \in Name, NEW j, NEW r, AddReferenceToObject(c, n, j, r)
  PROVE  IInv' /\ (Abstract!Change \/ UNCHANGED Abstract!tree)
<1> DEFINE k == Owned(heap)
           x == Reference(j)
           h1 == [heap EXCEPT ![r] = x]
<1>1. r \in Unused /\ j \in Attached /\ MayContain(c, j) /\ held' = held
  BY DEF AddReferenceToObject
<1>2. c \in Attached /\ ~heap[c].ref
  BY <1>1 DEF MayContain
<1>3. /\ x \in Cell /\ Newborn(x) /\ x.ref /\ x.name = NoName
      /\ x.child # NoItem => \E d \in Item : k[d] # <<>> /\ x.child = k[d][1]
  BY <1>1, ReferenceIs
<1>4. Sound(heap, k, held) /\ heap \in Memory /\ r \in Item /\ heap[r].type = "free" /\ held \in SUBSET Item
  BY <1>1, CallFacts, SoundFacts DEF Unused, Live
<1>5. k = Owned(heap)
  OBVIOUS
<1> HIDE DEF x, k
<1>6. CASE heap' = AddItemToArray(SetKey(h1, r, n, FALSE), c, r)
  <2>1. PICK y \in Cell : /\ SetKey(h1, r, n, FALSE) = [heap EXCEPT ![r] = y]
                          /\ Newborn(y) /\ y.ref = x.ref /\ y.child = x.child
    <3>1. KeyedAs(SetKey(h1, r, n, FALSE), heap, r, x)
      BY <1>3, <1>4, KeyOfNew
    <3> QED BY <3>1 DEF KeyedAs
  <2>2. heap' = AddItemToArray([heap EXCEPT ![r] = y], c, r)
    BY <1>6, <2>1
  <2>3. y.child # NoItem => \E d \in Item : k[d] # <<>> /\ y.child = k[d][1]
    BY <1>3, <2>1
  <2> HIDE DEF h1
  <2> QED BY <1>1, <1>2, <1>5, <2>1, <2>2, <2>3, AddNewSound
<1>7. CASE heap' = heap
  BY <1>1, <1>4, <1>5, <1>7, AbstractStay
<1>8. CASE heap' = h1
  <2>1. Created(h1, k, held, r)
    <3> DEFINE s == held
               h == heap
               g == h1
    <3>1. /\ Sound(h, k, s) /\ r \in Item /\ h[r].type = "free" /\ x \in Cell /\ Newborn(x)
          /\ g = [h EXCEPT ![r] = x]
      BY <1>3, <1>4
    <3>2. x.ref /\ x.child # NoItem => \E d \in Item : k[d] # <<>> /\ x.child = k[d][1]
      BY <1>3
    <3>3. Created(g, k, s, r)
      <4> HIDE DEF g, h, s
      <4> QED BY ONLY <3>1, <3>2, SoundCreate
    <3> QED BY <3>3
  <2>2. h1[r] = x /\ \A i \in Item \ {r} : h1[i] = heap[i]
    BY <1>4 DEF Memory
  <2> HIDE DEF h1
  <2>3. Sound(h1, k, held)
    BY <1>3, <1>4, <2>1, <2>2, SoundLeak DEF Created
  <2>4. x.type # "free"
    BY <1>3 DEF Newborn
  <2>5. \A i \in Item : heap'[i].type # "free" <=> heap[i].type # "free" \/ i = r
    BY <1>4, <1>8, <2>2, <2>4
  <2> QED BY <1>1, <1>4, <1>5, <1>8, <2>3, <2>5, AbstractLeak
<1> QED BY <1>6, <1>7, <1>8 DEF AddReferenceToObject, x

-----------------------------------------------------------------------------
(***************************************************************************)
(* The calls that take out, insert and replace.                            *)
(***************************************************************************)

\* Detach.
LEMMA DetachSound ==
  ASSUME IInv, NEW k, k = Owned(heap), NEW c, NEW q \in 1 .. Len(k[c]), Detach(c, k[c][q])
  PROVE  IInv' /\ Abstract!Change
<1> DEFINE i == k[c][q]
           g == DetachItemViaPointer(heap, c, i)
           n == Edit(k, c, RemoveAt(k[c], q))
<1>1. MayChange(c) /\ heap' = g /\ held' = held \cup {i}
  BY DEF Detach
<1>2. Sound(heap, k, held)
  BY CallFacts
<1>3. c \in Reached(Sub(k), held) /\ ~heap[c].ref /\ Unseen(heap, k, held, c)
  BY <1>1, MayChangeMeans
<1>4. Detached(g, heap, n, k, held, c, i)
  BY <1>2, <1>3, SoundDetached
<1>5. Sound(heap', n, held') /\ \A j \in Item : heap'[j].type = heap[j].type
  BY <1>1, <1>4 DEF Detached, Kept, SameItem
<1>6. c \in Live
  BY <1>3, CallFacts DEF Live
<1> HIDE DEF g
<1> QED BY <1>1, <1>2, <1>5, <1>6, AbstractTakeOut

\* DeleteItem.
LEMMA DeleteItemSound ==
  ASSUME IInv, NEW k, k = Owned(heap), NEW c, NEW q \in 1 .. Len(k[c]), DeleteItem(c, k[c][q])
  PROVE  IInv' /\ Abstract!Change
<1> DEFINE i == k[c][q]
           g == Free(DetachItemViaPointer(heap, c, i), i)
           D == Reached(Sub(k), {i})
           n == Cleared(Edit(k, c, RemoveAt(k[c], q)), D)
<1>1. MayChange(c) /\ MayFree(i) /\ heap' = g /\ held' = held
  BY DEF DeleteItem
<1>2. Sound(heap, k, held)
  BY CallFacts
<1>3. c \in Reached(Sub(k), held) /\ ~heap[c].ref /\ Unseen(heap, k, held, c) /\ c \in Live
  BY <1>1, MayChangeMeans, CallFacts DEF Live
<1>4. OwnUse(heap, k, held, D)
  BY <1>1, MayFreeMeans
<1>5. /\ Sound(g, n, held)
      /\ \A j \in Item : g[j].type = IF j \in D THEN "free" ELSE heap[j].type
  <2>1. Left(g, heap, n, held, D)
    BY <1>2, <1>3, <1>4, SoundDelete
  <2> QED BY <2>1 DEF Left
<1> HIDE DEF g
<1>6. /\ Sound(heap', n, held')
      /\ \A j \in Item : heap'[j].type = IF j \in D THEN "free" ELSE heap[j].type
  BY <1>1, <1>5
<1> QED BY <1>1, <1>2, <1>3, <1>6, AbstractDeleteAt

\* InsertInArray: behind the end it appends.
LEMMA InsertInArraySound ==
  ASSUME IInv, NEW c, NEW p \in Nat \ {0}, NEW i, InsertInArray(c, p, i)
  PROVE  IInv' /\ Abstract!Change
<1> DEFINE k == Owned(heap)
           g == InsertItemInArray(heap, c, p, i)
<1>1. i \in held /\ MayContain(c, i) /\ MayChange(c) /\ heap' = g /\ held' = held \ {i}
  BY DEF InsertInArray
<1>2. Sound(heap, k, held) /\ i \in Item /\ held \subseteq Reached(Sub(k), held)
  BY <1>1, CallFacts
<1>3. c \in Reached(Sub(k), held) /\ ~heap[c].ref /\ c \notin Reached(Sub(k), {i}) /\ Unseen(heap, k, held, c)
  BY <1>1, <1>2, MayContainMeans, MayChangeMeans
<1>4. heap[i].type # "free" /\ c \in Item /\ c \in Live
  BY <1>1, <1>3, CallFacts DEF Live
<1>5. CASE GetArrayItem(heap, c, p) = NoItem
  <2> DEFINE f == AddItemToArray(heap, c, i)
             n == Edit(k, c, Append(k[c], i))
  <2>1. heap' = f
    BY <1>1, <1>5 DEF InsertItemInArray
  <2>2. Sound(f, n, held \ {i}) /\ Kept(f, heap, c)
    BY <1>1, <1>2, <1>3, SoundAdded
  <2>3. \A j \in Item : heap'[j].type # "free" <=> heap[j].type # "free" \/ j = i
    BY <1>4, <2>1, <2>2 DEF Kept, SameItem
  <2> HIDE DEF k, g, f
  <2> QED BY <1>1, <1>2, <1>3, <2>1, <2>2, <2>3, AppendSound DEF k
<1>6. CASE GetArrayItem(heap, c, p) # NoItem
  <2> DEFINE n == Edit(k, c, InsertAt(k[c], p, i))
  <2>1. p \in 1 .. Len(k[c]) /\ GetArrayItem(heap, c, p) = k[c][p]
    BY <1>2, <1>3, <1>4, <1>6, ArrayItemIs
  <2>2. Sound(g, n, held \ {i}) /\ Kept(g, heap, c)
    BY <1>1, <1>2, <1>3, <2>1, SoundInserted
  <2>3. \A j \in Item : heap'[j].type # "free" <=> heap[j].type # "free" \/ j = i
    BY <1>1, <1>4, <2>2 DEF Kept, SameItem
  <2>4. p \in 1 .. Len(k[c]) + 1
    BY <1>2, <1>4, <2>1, ListOf, SoundFacts
  <2>5. Sound(heap', n, held')
    BY <1>1, <2>2
  <2>6. k = Owned(heap)
    OBVIOUS
  <2>7. n = Edit(k, c, InsertAt(k[c], p, i))
    OBVIOUS
  <2> HIDE DEF k, g, n
  <2>8. /\ k = Owned(heap) /\ c \in Live /\ i \in Item /\ i \in held /\ c \notin Reached(Sub(k), {i})
        /\ p \in 1 .. Len(k[c]) + 1 /\ Sound(heap, k, held) /\ Sound(heap', n, held') /\ held' = held \ {i}
    BY <1>1, <1>2, <1>3, <1>4, <2>4, <2>5, <2>6
  <2> QED BY ONLY <2>3, <2>7, <2>8, AbstractInsert
<1> QED BY <1>5, <1>6

\* i takes the place of the q-th item, in a memory in which i may have a new name.
LEMMA ReplaceSound ==
  ASSUME IInv, NEW k, k = Owned(heap), NEW c, NEW i \in held, MayContain(c, i), MayChange(c),
         NEW q \in 1 .. Len(k[c]), MayFree(k[c][q]),
         NEW h1, Sound(h1, k, held),
         \A j \in Item : h1[j].type = heap[j].type /\ h1[j].ref = heap[j].ref /\ h1[j].child = heap[j].child,
         heap' = ReplaceItemViaPointer(h1, c, k[c][q], i), held' = held \ {i}
  PROVE  IInv' /\ Abstract!Change
<1> DEFINE old == k[c][q]
           D == Reached(Sub(k), {old})
           n == Cleared(Edit(k, c, ReplaceAt(k[c], q, i)), D)
           R == Reached(Sub(k), held)
<1>1. Sound(heap, k, held) /\ i \in Item /\ R \subseteq Item
  BY CallFacts
<1>2. c \in R /\ ~heap[c].ref /\ c \notin Reached(Sub(k), {i}) /\ Unseen(heap, k, held, c)
  BY <1>1, MayContainMeans, MayChangeMeans
<1>3. c \in Live /\ ~h1[c].ref
  BY <1>1, <1>2, CallFacts DEF Live
<1>4. OwnUse(heap, k, held, D)
  BY MayFreeMeans
<1>5. OwnUse(h1, k, held, D) /\ Unseen(h1, k, held, c)
  BY <1>1, <1>2, <1>4 DEF OwnUse, Unseen
<1>6. Replaced(ReplaceItemViaPointer(h1, c, old, i), h1, n, held, c, i, D)
  BY <1>1, <1>2, <1>3, <1>5, SoundReplaced
<1>7. /\ Sound(heap', n, held')
      /\ \A j \in Item : heap'[j].type = IF j \in D THEN "free" ELSE heap[j].type
  BY <1>6 DEF Replaced
<1> QED BY <1>1, <1>2, <1>3, <1>7, AbstractReplace

\* ReplaceInArray.
LEMMA ReplaceInArraySound ==
  ASSUME IInv, NEW c, NEW p, NEW i, ReplaceInArray(c, p, i)
  PROVE  IInv' /\ Abstract!Change
<1> DEFINE k == Owned(heap)
           old == GetArrayItem(heap, c, p)
<1>1. /\ i \in held /\ MayContain(c, i) /\ MayChange(c) /\ old # NoItem /\ MayFree(old)
      /\ heap' = ReplaceItemViaPointer(heap, c, old, i) /\ held' = held \ {i}
  BY DEF ReplaceInArray
<1>2. Sound(heap, k, held) /\ c \in Item /\ ~heap[c].ref
  BY <1>1, CallFacts, MayChangeMeans
<1>3. p \in 1 .. Len(k[c]) /\ old = k[c][p]
  BY <1>1, <1>2, ArrayItemIs
<1> HIDE DEF old
<1> QED BY <1>1, <1>2, <1>3, ReplaceSound

\* ReplaceInObject: the renaming, then the replacement.
LEMMA ReplaceInObjectSound ==
  ASSUME IInv, NEW c, NEW n \in Name, NEW i, NEW case, NEW ok \in BOOLEAN, ReplaceInObject(c, n, i, case, ok)
  PROVE  IInv' /\ (Abstract!Change \/ UNCHANGED Abstract!tree)
<1> DEFINE k == Owned(heap)
           h1 == [heap EXCEPT ![i].name = IF ok THEN n ELSE NoName,
                              ![i].constant = FALSE, ![i].copied = ok]
           old == GetObjectItem(h1, c, n, case)
<1>1. i \in held /\ MayContain(c, i) /\ MayChange(c)
  BY DEF ReplaceInObject
<1>2. Sound(heap, k, held) /\ c \in Item /\ ~heap[c].ref /\ i \in Item /\ heap \in Memory
  BY <1>1, CallFacts, MayChangeMeans, SoundFacts
<1>3. h1 \in Memory /\ Renamed(h1, heap, i)
  <2> DEFINE x == [heap[i] EXCEPT !.name = IF ok THEN n ELSE NoName, !.constant = FALSE, !.copied = ok]
  <2>1. heap[i] \in Cell
    BY <1>2, MemoryCells
  <2>2. /\ x \in Cell /\ x.type = heap[i].type /\ x.ref = heap[i].ref /\ x.next = heap[i].next
        /\ x.prev = heap[i].prev /\ x.child = heap[i].child
        /\ x.name = (IF ok THEN n ELSE NoName) /\ x.constant = FALSE /\ x.copied = ok
    BY <2>1 DEF Cell
  <2>3. h1 = [heap EXCEPT ![i] = x]
    BY <1>2 DEF Memory
  <2> HIDE DEF x, h1
  <2>4. h1 \in Memory /\ h1[i] = x /\ \A j \in Item \ {i} : h1[j] = heap[j]
    BY <1>2, <2>2, <2>3 DEF Memory
  <2>5. n # NoName
    BY NameAssumption
  <2>6. x.copied = (x.name # NoName /\ ~x.constant)
    <3>1. CASE ok = TRUE
      BY <2>2, <2>5, <3>1
    <3>2. CASE ok = FALSE
      BY <2>2, <3>2
    <3> QED BY <3>1, <3>2
  <2> QED BY <2>2, <2>4, <2>6 DEF Renamed
<1> HIDE DEF h1
<1>4. /\ Sound(h1, k, held)
      /\ \A j \in Item : h1[j].type = heap[j].type /\ h1[j].ref = heap[j].ref /\ h1[j].child = heap[j].child
  BY <1>1, <1>2, <1>3, SoundRenamed
<1>5. CASE old = NoItem /\ heap' = h1 /\ held' = held
  BY <1>2, <1>4, <1>5, AbstractStay
<1>6. CASE old # NoItem /\ MayFree(old) /\ heap' = ReplaceItemViaPointer(h1, c, old, i) /\ held' = held \ {i}
  <2>1. ~h1[c].ref
    BY <1>2, <1>4
  <2>2. PICK q \in 1 .. Len(k[c]) : old = k[c][q]
    BY <1>2, <1>4, <1>6, <2>1, ObjectItemIs
  <2>3. /\ MayFree(k[c][q]) /\ heap' = ReplaceItemViaPointer(h1, c, k[c][q], i) /\ held' = held \ {i}
    BY <1>6, <2>2
  <2> HIDE DEF old
  <2> QED BY <1>1, <1>4, <2>3, ReplaceSound
<1> QED BY <1>5, <1>6 DEF ReplaceInObject, h1

\* Delete.
LEMMA DeleteSound ==
  ASSUME IInv, NEW i, Delete(i)
  PROVE  IInv' /\ Abstract!Change
<1> DEFINE k == Owned(heap)
           D == Reached(Sub(k), {i})
           n == Cleared(k, D)
<1>1. i \in held /\ MayFree(i) /\ heap' = Free(heap, i) /\ held' = held \ {i}
  BY DEF Delete
<1>2. Sound(heap, k, held)
  BY CallFacts
<1>3. OwnUse(heap, k, held, D)
  BY <1>1, MayFreeMeans
<1>4. Sound(Free(heap, i), n, held \ {i})
  BY <1>1, <1>2, <1>3, SoundFree
<1>5. Free(heap, i) = Blank(heap, D)
  BY <1>1, <1>2, FreeIsBlank
<1>6. \A j \in Item : heap'[j].type = IF j \in D THEN "free" ELSE heap[j].type
  BY <1>1, <1>5 DEF Blank, NewItem
<1>7. Sound(heap', n, held')
  BY <1>1, <1>4
<1> QED BY <1>1, <1>2, <1>6, <1>7, AbstractDelete

-----------------------------------------------------------------------------
(***************************************************************************)
(* cJSON_CreateNumbers.                                                    *)
(***************************************************************************)

\* g is h with the item x at a.
OneItem(g, h, k, a, x) ==
  Shape(g, k) /\ NewTree(h, k, g, k, {a}, a) /\ k[a] = <<>> /\ g[a] = x

\* A single new item is a new tree.
LEMMA SingleTree ==
  ASSUME NEW h, NEW k, Shape(h, k), NEW a \in Item, h[a].type = "free",
         NEW x \in Cell, Newborn(x), ~x.ref, NEW g, g = [h EXCEPT ![a] = x]
  PROVE  OneItem(g, h, k, a, x)
<1>1. /\ h \in Memory /\ k \in Lists /\ k[a] = <<>>
  BY DEF Shape, Forward
<1>2. g \in Memory /\ g[a] = x /\ \A j \in Item \ {a} : g[j] = h[j]
  BY <1>1 DEF Memory
<1>3. Shape(g, k)
  <2>1. \A j \in Item : g[j] = h[j] \/ (h[j].type = "free" /\ Newborn(g[j]))
    BY <1>2
  <2> QED BY <1>2, <2>1, FreshShape
<1>4. {a} \subseteq Reached(Sub(k), {a})
  BY <1>1, SubIs, ReachedClosed, {a} \in SUBSET Item
<1>5. x.type # "free" /\ ~\E i : In(i, <<>>)
  BY DEF Newborn, In
<1> QED BY <1>1, <1>2, <1>3, <1>4, <1>5 DEF NewTree, OneItem

\* A step that gives the caller a new tree is Make.
LEMMA TreeMade ==
  ASSUME IInv, NEW k, k = Owned(heap), NEW n, NEW T, NEW r, NewTree(heap, k, heap', n, T, r),
         Shape(heap', n), held' = held \cup {r}
  PROVE  IInv' /\ Abstract!Change
<1>1. Sound(heap, k, held)
  BY CallFacts
<1>2. Sound(heap', n, held')
  BY <1>1, GrownSound
<1>3. T = Reached(Sub(n), {r})
  BY NewTreeReached
<1>4. /\ T \subseteq Item /\ r \in T
      /\ \A j \in T : heap[j].type = "free" /\ heap'[j].type # "free"
      /\ \A j \in Item \ T : heap'[j] = heap[j] /\ n[j] = k[j]
  BY DEF NewTree
<1>5. \A j \in T : heap[j].type = "free"
  BY <1>4
<1>6. \A j \in Item : heap'[j].type # "free" <=> heap[j].type # "free" \/ j \in T
  BY <1>4
<1>7. \A j \in Item \ T : n[j] = k[j]
  BY <1>4
<1>8. r \in Item
  BY <1>4
<1>9. IInv' /\ Owned(heap') = n
  BY <1>2, Owns
<1>10. Live' = Live \cup T /\ T \cap Live = {}
  BY <1>4, <1>5, <1>6 DEF Live
<1>11. Abstract!Tree(n, r) = T
  BY <1>3, TreeIs
<1>12. Abstract!Make(r)
  BY <1>7, <1>9, <1>10, <1>11 DEF Abstract!Make
<1> QED BY <1>8, <1>9, <1>12 DEF Abstract!Change

\* CreateNumbers: an array of numbers, or nothing without the memory for all.
LEMMA NumbersSound ==
  ASSUME IInv, NEW a \in Unused, NEW s \in Seq(Item), Distinct(s), ToSet(s) \subseteq Unused \ {a},
         LET chain == Chain([heap EXCEPT ![a] = NewItem("array")], a, s,
                            [p \in DOMAIN s |-> NewItem("array")])
         IN  \/ heap' = Close(chain, s) /\ held' = held \cup {a}
             \/ heap' = Free(chain, a) /\ held' = held
  PROVE  IInv' /\ (Abstract!Change \/ UNCHANGED Abstract!tree)
<1> DEFINE k == Owned(heap)
           x == NewItem("array")
           h1 == [heap EXCEPT ![a] = x]
           cells == [p \in DOMAIN s |-> x]
           chain == Chain(h1, a, s, cells)
           n == Edit(k, a, s)
           T == {a} \cup {s[p] : p \in 1 .. Len(s)}
<1>0. /\ a \in Unused /\ ToSet(s) \subseteq Unused \ {a}
      /\ \/ heap' = Close(chain, s) /\ held' = held \cup {a}
         \/ heap' = Free(chain, a) /\ held' = held
  OBVIOUS
<1>1. Sound(heap, k, held) /\ Shape(heap, k) /\ a \in Item /\ heap[a].type = "free"
  BY <1>0, CallFacts DEF Unused, Live, Sound
<1>2. x \in Cell /\ Newborn(x) /\ ~x.ref
  BY NewItemIs
<1>3. \A p \in 1 .. Len(s) : s[p] \notin {a} /\ heap[s[p]].type = "free"
  <2> SUFFICES ASSUME NEW p \in 1 .. Len(s) PROVE s[p] \notin {a} /\ heap[s[p]].type = "free"
    OBVIOUS
  <2>1. s[p] \in ToSet(s) /\ s[p] \in Item
    BY ToSetIn, ElementOfSeq DEF In
  <2> QED BY <1>0, <2>1 DEF Unused, Live
<1>4. DOMAIN s = 1 .. Len(s) /\ \A p \in 1 .. Len(s) : cells[p] = x
  OBVIOUS
<1>5. \A p \in 1 .. Len(s) : cells[p] \in Cell /\ Newborn(cells[p]) /\ ~cells[p].ref
  BY <1>2, <1>4
<1>6. Shape(h1, k) /\ NewTree(heap, k, h1, k, {a}, a) /\ k[a] = <<>>
  <2> HIDE DEF x, k
  <2>1. h1 = [heap EXCEPT ![a] = x]
    OBVIOUS
  <2> DEFINE h == heap
  <2>2. Shape(h, k) /\ a \in Item /\ h[a].type = "free" /\ x \in Cell /\ Newborn(x) /\ ~x.ref /\ h1 = [h EXCEPT ![a] = x]
    BY <1>1, <1>2, <2>1
  <2>3. OneItem(h1, h, k, a, x)
    <3> HIDE DEF h, h1
    <3> QED BY <2>2, SingleTree
  <2> QED BY <2>3 DEF OneItem
<1> HIDE DEF h1, x, cells
<1>7. Grew(chain, heap, k, h1, n, {a}, s, cells, a)
  <2> DEFINE h == heap
  <2>1. /\ Shape(h, k) /\ Shape(h1, k) /\ NewTree(h, k, h1, k, {a}, a) /\ a \in {a} /\ k[a] = <<>>
        /\ s \in Seq(Item) /\ Distinct(s) /\ chain = Chain(h1, a, s, cells) /\ n = Edit(k, a, s)
    BY <1>1, <1>6
  <2>2. \A p \in 1 .. Len(s) : s[p] \notin {a} /\ h[s[p]].type = "free"
    BY <1>3
  <2> HIDE DEF h, k, chain, n
  <2>3. Grew(chain, h, k, h1, n, {a}, s, cells, a)
    BY ONLY <2>1, <2>2, <1>5, ChainGrows
  <2> QED BY <2>3 DEF h
<1>8. CASE heap' = Close(chain, s) /\ held' = held \cup {a}
  <2>1. Shape(heap', n) /\ NewTree(heap, k, heap', n, T, a)
    BY <1>7, <1>8 DEF Grew
  <2>2. k = Owned(heap)
    OBVIOUS
  <2> HIDE DEF k, n, T, chain
  <2> QED BY <1>8, <2>1, <2>2, TreeMade
<1>9. CASE heap' = Free(chain, a) /\ held' = held
  <2>1. heap' = heap
    BY <1>7, <1>9 DEF Grew
  <2> QED BY <1>1, <1>9, <2>1, AbstractStay
<1> QED BY <1>0, <1>8, <1>9

-----------------------------------------------------------------------------
(***************************************************************************)
(* cJSON_Duplicate: the memory that its items come from.                   *)
(***************************************************************************)

\* SetToSeq lists every item of a set once.
LEMMA SetToSeqIs ==
  ASSUME NEW S \in SUBSET Item
  PROVE  SetToSeq(S) \in Seq(S) /\ Distinct(SetToSeq(S)) /\ Len(SetToSeq(S)) = Cardinality(S)
<1> DEFINE N == Cardinality(S)
           f == SetToSeq(S)
<1>1. N \in Nat /\ ExistsBijection(1 .. N, S)
  BY ItemAssumption, FS_Subset, FS_CardinalityType
<1>2. \E g \in [1 .. N -> S] : IsInjective(g)
  BY <1>1 DEF ExistsBijection, Bijection, Injection
<1>3. f \in [1 .. N -> S] /\ IsInjective(f)
  BY <1>2 DEF SetToSeq
<1> HIDE DEF f, N
<1>4. f \in Seq(S) /\ Len(f) = N
  BY <1>1, <1>3
<1>5. Distinct(f)
  BY <1>1, <1>3, <1>4 DEF IsInjective, Distinct
<1> QED BY <1>4, <1>5 DEF f, N

\* s is memory that malloc may give.
Fresh(s) == s \in Seq(Unused) /\ Distinct(s)

\* Some is such memory.
LEMMA SomeAre ==
  ASSUME NEW s \in Some
  PROVE  Fresh(s)
<1> DEFINE f == SetToSeq(Unused)
           N == Cardinality(Unused)
<1>1. f \in Seq(Unused) /\ Distinct(f) /\ Len(f) = N
  BY SetToSeqIs DEF Unused
<1>2. PICK n \in 0 .. N : s = SubSeq(f, 1, n)
  BY DEF Some
<1> HIDE DEF f, N
<1>3. N \in Nat
  BY <1>1
<1>4. \A i \in 1 .. n : f[i] \in Unused /\ i \in 1 .. Len(f)
  BY <1>1, <1>2, <1>3, ElementOfSeq
<1>5. 1 \in Int /\ n \in Int /\ n - 1 + 1 = n
  BY <1>2, <1>3
<1>6. s \in Seq(Unused) /\ Len(s) = n /\ \A i \in 1 .. n : s[i] = f[i]
  <2>1. /\ SubSeq(f, 1, n) \in Seq(Unused) /\ Len(SubSeq(f, 1, n)) = IF 1 <= n THEN n - 1 + 1 ELSE 0
        /\ \A i \in 1 .. n - 1 + 1 : SubSeq(f, 1, n)[i] = f[1 + i - 1]
    BY <1>4, <1>5, SubSeqProperties
  <2>2. \A i \in 1 .. n : 1 + i - 1 = i
    OBVIOUS
  <2> QED BY <1>2, <1>3, <2>1, <2>2
<1>7. Distinct(s)
  BY <1>1, <1>4, <1>6 DEF Distinct
<1> QED BY <1>6, <1>7 DEF Fresh

\* So is what remains when the first item is taken.
LEMMA FreshTail ==
  ASSUME NEW s, Fresh(s), s # <<>>
  PROVE  /\ Tail(s) \in Seq(Item) /\ Distinct(Tail(s)) /\ Head(s) \in Unused
         /\ ToSet(Tail(s)) \subseteq Unused \ {Head(s)}
<1>1. /\ s \in Seq(Unused) /\ Distinct(s) /\ Len(s) \in Nat
      /\ Head(s) \in Unused /\ Tail(s) \in Seq(Unused) /\ Len(Tail(s)) = Len(s) - 1
      /\ \A i \in 1 .. Len(Tail(s)) : Tail(s)[i] = s[i + 1]
  BY HeadTailProperties DEF Fresh
<1>2. \A i \in 1 .. Len(Tail(s)) : i \in Nat /\ i + 1 \in 1 .. Len(s)
  BY <1>1
<1>3. Distinct(Tail(s))
  BY <1>1, <1>2 DEF Distinct
<1>4. Tail(s) \in Seq(Item)
  <2>1. Unused \subseteq Item
    BY DEF Unused
  <2> QED BY <1>1, <2>1
<1>5. ASSUME NEW j \in ToSet(Tail(s)) PROVE j \in Unused \ {Head(s)}
  <2>1. PICK i \in 1 .. Len(Tail(s)) : Tail(s)[i] = j
    BY <1>5 DEF ToSet
  <2>2. i + 1 \in 1 .. Len(s) /\ 1 \in 1 .. Len(s) /\ i + 1 # 1 /\ s[i + 1] = j /\ s[1] = Head(s)
    BY <1>1, <1>2, <2>1
  <2>3. j # Head(s)
    BY <1>1, <2>2 DEF Distinct
  <2>4. j \in Unused
    BY <1>1, <2>1
  <2> QED BY <2>3, <2>4
<1> QED BY <1>1, <1>3, <1>4, <1>5

\* First is free.
LEMMA FirstAre ==
  ASSUME NEW i \in First
  PROVE  i \in Unused
BY SomeAre, FreshTail DEF First

\* Fresh memory is free.
LEMMA FreshItems ==
  ASSUME NEW s, Fresh(s)
  PROVE  s \in Seq(Item) /\ Distinct(s) /\ \A p \in 1 .. Len(s) : s[p] \in Item /\ heap[s[p]].type = "free"
<1>1. s \in Seq(Item)
  BY DEF Fresh, Unused
<1>2. \A p \in 1 .. Len(s) : s[p] \in Unused
  BY ElementOfSeq DEF Fresh
<1> QED BY <1>1, <1>2 DEF Fresh, Unused, Live

-----------------------------------------------------------------------------
(***************************************************************************)
(* cJSON_Duplicate: the invariant of its loop.                             *)
(***************************************************************************)

\* What a walk shows of an item that the caller can reach can be reached, too.
LEMMA KidsReached ==
  ASSUME NEW h, NEW k, NEW s, Sound(h, k, s), NEW R, R = Reached(Sub(k), s), NEW j \in R
  PROVE  Kids(h, j) \in Seq(R)
<1>0. /\ h \in Memory /\ k \in Lists /\ Forward(h, k) /\ Unshared(k) /\ R \subseteq Item
      /\ Closed(Sub(k), R) /\ \A c \in Item : \A i : i \in Sub(k)[c] <=> In(i, k[c])
      /\ \A i \in Item : h[i].type # "free" => i \in R \/ h[i].ref
  BY SoundFacts DEF Sound, Shape, Rooted
<1>1. ASSUME NEW d \in R PROVE k[d] \in Seq(R)
  <2>1. k[d] \in Seq(Item) /\ \A p \in 1 .. Len(k[d]) : k[d][p] \in R
    BY <1>0, ListOf DEF Closed, In
  <2> QED BY <2>1
<1>2. CASE ~h[j].ref
  <2>1. Kids(h, j) = k[j]
    BY <1>0, <1>2, KidsOwned
  <2> QED BY <1>1, <2>1
<1>3. CASE h[j].ref /\ h[j].child = NoItem
  <2>1. <<>> \in Seq(Item) /\ IsList(h, h[j].child, <<>>) /\ Len(<<>>) = 0
    BY <1>3 DEF IsList
  <2>2. \A p, q \in 1 .. Len(<<>>) : <<>>[p] = <<>>[q] => p = q
    BY <2>1
  <2>3. Kids(h, j) = <<>>
    BY <1>0, <2>1, <2>2, KidsAre
  <2> QED BY <2>3
<1>4. CASE h[j].ref /\ h[j].child # NoItem
  <2>1. PICK d \in Item : k[d] # <<>> /\ h[j].child = k[d][1]
    BY <1>4, ChildShown
  <2>2. ~h[d].ref /\ h[d].type # "free"
    BY <1>0, <2>1 DEF Forward
  <2>3. d \in R
    BY <1>0, <2>2
  <2>4. k[d] \in Seq(Item) /\ IsList(h, h[j].child, k[d])
    BY <1>0, <2>1, ListOf DEF IsList, Forward, After
  <2>5. \A p, q \in 1 .. Len(k[d]) : k[d][p] = k[d][q] => p = q
    BY <1>0 DEF Unshared
  <2>6. Kids(h, j) = k[d]
    BY <1>0, <2>4, <2>5, KidsAre
  <2> QED BY <1>1, <2>3, <2>6
<1> QED BY <1>2, <1>3, <1>4

\* x is a new item that looks like y.
Copies(x, y) ==
  /\ x \in Cell /\ Newborn(x) /\ ~x.ref /\ x.type = y.type /\ x.name = y.name

\* So does CopyOf.
LEMMA CopyIs ==
  ASSUME NEW h \in Memory, NEW j \in Item, h[j].type # "free"
  PROVE  Copies(CopyOf(h, j), h[j])
<1>1. h[j] \in Cell
  BY MemoryCells
<1> DEFINE y == h[j]
           b == y.name # NoName /\ ~y.constant
           x == [NewItem(y.type) EXCEPT !.name = y.name, !.constant = y.constant, !.copied = b]
<1>2. CopyOf(h, j) = x
  BY Zenon DEF CopyOf
<1>3. /\ y.type \in {"free", "array", "object"} /\ y.name \in Name \cup {NoName}
      /\ y.constant \in BOOLEAN /\ b \in BOOLEAN
  BY <1>1 DEF Cell
<1> HIDE DEF b
<1>4. x \in Cell /\ x.type = y.type /\ x.name = y.name /\ x.constant = y.constant /\ x.copied = b
      /\ ~x.ref /\ x.next = NoItem /\ x.prev = NoItem /\ x.child = NoItem
  BY <1>3, Zenon DEF NewItem, Cell
<1> HIDE DEF x
<1>5. Newborn(x)
  BY <1>4 DEF Newborn, b
<1> QED BY <1>2, <1>4, <1>5 DEF Copies
----------------------------------------------------------------------------
\* The items t are the copies, in order, of the items u.
Pairs(s, of, t, u) ==
  /\ Len(t) = Len(u)
  /\ \A q \in 1 .. Len(t) : \E x \in 1 .. Len(of) : t[q] = s[x] /\ u[q] = of[x]

\* The copies g of the items of, the first n of them with their kids.
Part(h, k, s, of, g, K, n) ==
  /\ Shape(g, K) /\ NewTree(h, k, g, K, {s[p] : p \in 1 .. Len(of)}, s[1])
  /\ \A p \in 1 .. Len(of) : SameItem(g[s[p]], CopyOf(h, of[p]))
  /\ \A p \in 1 .. Len(of) : p <= n => Pairs(s, of, K[s[p]], Kids(h, of[p]))
  /\ \A p \in 1 .. Len(of) : p > n => K[s[p]] = <<>>

\* The invariant of the loop that copies i, after the kids of n items.
Copying(h, k, R, i, s, m, n) ==
  /\ m \in [h : Memory, of : Seq(R), ok : BOOLEAN]
  /\ m.ok => /\ Len(m.of) \in 1 .. Len(s) /\ m.of[1] = i
             /\ \E K : Part(h, k, s, m.of, m.h, K, n)
  /\ ~m.ok => m.h = h

\* The items of s from the l-th on that are taken for t more.
NextOf(s, l, t) == SubSeq(s, l + 1, Min({Len(s), l + t}))

\* new has the next items of s after the l-th, t at most.
Follows(new, s, l, t) ==
  /\ new \in Seq(Item) /\ Distinct(new) /\ Len(new) \in Nat /\ Len(new) <= t /\ l + Len(new) <= Len(s)
  /\ \A q \in 1 .. Len(new) : new[q] = s[l + q]

\* So has NextOf.
LEMMA NextIs ==
  ASSUME NEW s \in Seq(Item), Distinct(s), NEW l \in 0 .. Len(s), NEW t \in Nat
  PROVE  Follows(NextOf(s, l, t), s, l, t)
<1> DEFINE M == Min({Len(s), l + t})
<1>0. Len(s) \in Nat /\ l \in Nat /\ l + t \in Nat
  OBVIOUS
<1>1. M \in Nat /\ l <= M /\ M <= Len(s) /\ M <= l + t
  <2>1. \E x \in {Len(s), l + t} : \A y \in {Len(s), l + t} : x <= y
    BY <1>0
  <2>2. M \in {Len(s), l + t} /\ \A y \in {Len(s), l + t} : M <= y
    BY <2>1 DEF Min
  <2> HIDE DEF M
  <2> QED BY <1>0, <2>2
<1> HIDE DEF M
<1>2. \A i \in l + 1 .. M : s[i] \in Item
  <2>1. \A i \in l + 1 .. M : i \in 1 .. Len(s)
    BY <1>0, <1>1
  <2> QED BY <2>1, ElementOfSeq
<1> DEFINE new == SubSeq(s, l + 1, M)
<1>3. l + 1 \in Int /\ M \in Int
  BY <1>0, <1>1
<1>4. /\ new \in Seq(Item) /\ Len(new) = IF l + 1 <= M THEN M - (l + 1) + 1 ELSE 0
      /\ \A q \in 1 .. M - (l + 1) + 1 : new[q] = s[(l + 1) + q - 1]
  BY <1>2, <1>3, SubSeqProperties
<1>5. new = NextOf(s, l, t)
  BY DEF NextOf, M
<1> HIDE DEF new
<1>6. Len(new) = M - l
  BY <1>0, <1>1, <1>4
<1>7. \A q \in 1 .. Len(new) : new[q] = s[l + q]
  <2>1. \A q \in 1 .. Len(new) : q \in 1 .. M - (l + 1) + 1 /\ (l + 1) + q - 1 = l + q
    BY <1>0, <1>1, <1>6
  <2> QED BY <1>4, <2>1
<1>8. Distinct(new)
  <2>1. \A q \in 1 .. Len(new) : q \in Nat /\ l + q \in 1 .. Len(s)
    BY <1>0, <1>1, <1>6
  <2> QED BY <1>0, <1>7, <2>1 DEF Distinct
<1> QED BY <1>0, <1>1, <1>4, <1>5, <1>6, <1>7, <1>8 DEF Follows

\* The kids of the (n + 1)-th item are copied, as far as there is memory.
LEMMA PartLinked ==
  ASSUME NEW h, NEW k, Shape(h, k), NEW s \in Seq(Item), Distinct(s),
         \A p \in 1 .. Len(s) : h[s[p]].type = "free",
         NEW of, NEW l, l = Len(of), l \in 1 .. Len(s), NEW g, NEW K, NEW n \in Nat, Part(h, k, s, of, g, K, n),
         NEW N, N = n + 1, N <= l, NEW kids, NEW new, Follows(new, s, l, Len(kids)),
         NEW cells, \A p \in 1 .. Len(new) : cells[p] \in Cell /\ Newborn(cells[p]) /\ ~cells[p].ref,
         NEW T, T = {s[p] : p \in 1 .. l}
  PROVE  Grew(Chain(g, s[N], new, cells), h, k, g, Edit(K, s[N], new), T, new, cells, s[1])
<1>0. /\ new \in Seq(Item) /\ Distinct(new) /\ Len(new) \in Nat /\ l + Len(new) <= Len(s)
      /\ \A q \in 1 .. Len(new) : new[q] = s[l + q]
  BY DEF Follows
<1>1. N \in 1 .. l /\ N > n /\ l \in Nat /\ Len(s) \in Nat
  OBVIOUS
<1>2. s[N] \in T /\ K[s[N]] = <<>> /\ Shape(g, K) /\ NewTree(h, k, g, K, T, s[1])
  BY <1>1 DEF Part
<1>3. \A p \in 1 .. Len(new) : new[p] \notin T /\ h[new[p]].type = "free"
  <2> SUFFICES ASSUME NEW p \in 1 .. Len(new) PROVE new[p] \notin T /\ h[new[p]].type = "free"
    OBVIOUS
  <2>1. l + p \in 1 .. Len(s) /\ new[p] = s[l + p]
    BY <1>0, <1>1
  <2>2. \A q \in 1 .. l : q \in 1 .. Len(s) /\ q # l + p
    BY <1>1, <2>1
  <2> QED BY <2>1, <2>2 DEF Distinct
<1> DEFINE x == s[N]
           m == Edit(K, x, new)
           c == Chain(g, x, new, cells)
           r == s[1]
<1>4. /\ Shape(h, k) /\ Shape(g, K) /\ NewTree(h, k, g, K, T, r) /\ x \in T /\ K[x] = <<>>
      /\ new \in Seq(Item) /\ Distinct(new) /\ c = Chain(g, x, new, cells) /\ m = Edit(K, x, new)
  BY <1>0, <1>2
<1>5. \A p \in 1 .. Len(new) : cells[p] \in Cell /\ Newborn(cells[p]) /\ ~cells[p].ref
  OBVIOUS
<1> HIDE DEF x, m, c, r
<1>6. Grew(c, h, k, g, m, T, new, cells, r)
  BY ONLY <1>3, <1>4, <1>5, ChainGrows
<1> QED BY <1>6 DEF x, m, c, r

\* Pairs remain pairs when more is copied.
LEMMA PairsMore ==
  ASSUME NEW S, NEW of \in Seq(S), NEW more \in Seq(S), NEW s, NEW t, NEW u, Pairs(s, of, t, u)
  PROVE  Pairs(s, of \o more, t, u)
<1>1. /\ Len(of) \in Nat /\ Len(more) \in Nat /\ Len(of \o more) = Len(of) + Len(more)
      /\ \A x \in 1 .. Len(of) : x \in 1 .. Len(of \o more) /\ (of \o more)[x] = of[x]
  BY ConcatProperties
<1> QED BY <1>1 DEF Pairs

\* With memory for all the kids, one item more has its copies.
LEMMA PartGrown ==
  ASSUME NEW h, NEW k, Shape(h, k), NEW s \in Seq(Item), Distinct(s),
         \A p \in 1 .. Len(s) : h[s[p]].type = "free",
         NEW S, NEW of \in Seq(S), NEW l, l = Len(of), l \in 1 .. Len(s), NEW g, NEW K, NEW n \in Nat, Part(h, k, s, of, g, K, n),
         NEW N, N = n + 1, N <= l, NEW kids \in Seq(S), kids = Kids(h, of[N]),
         NEW new, Follows(new, s, l, Len(kids)), Len(new) = Len(kids),
         NEW cells, \A p \in 1 .. Len(new) : cells[p] = CopyOf(h, kids[p]),
         NEW T, T = {s[p] : p \in 1 .. l}, NEW c, NEW m, m = Edit(K, s[N], new),
         Grew(c, h, k, g, m, T, new, cells, s[1])
  PROVE  Part(h, k, s, of \o kids, Close(c, new), m, N) /\ Len(of \o kids) \in 1 .. Len(s)
<1> DEFINE all == of \o kids
           f == Close(c, new)
<1>0. /\ new \in Seq(Item) /\ Len(new) \in Nat /\ l + Len(new) <= Len(s)
      /\ \A q \in 1 .. Len(new) : new[q] = s[l + q]
  BY DEF Follows
<1>1. N \in 1 .. l /\ N > n /\ l \in Nat /\ Len(s) \in Nat
  OBVIOUS
<1>2. Len(all) = l + Len(new) /\ \A p \in 1 .. Len(all) : all[p] = IF p <= l THEN of[p] ELSE kids[p - l]
  BY ConcatProperties
<1> HIDE DEF all
<1>3. Len(all) \in 1 .. Len(s)
  BY <1>0, <1>1, <1>2
<1>4. \A p \in l + 1 .. Len(all) : p - l \in 1 .. Len(new) /\ s[p] = new[p - l] /\ all[p] = kids[p - l]
  <2> SUFFICES ASSUME NEW p \in l + 1 .. Len(all)
               PROVE  p - l \in 1 .. Len(new) /\ s[p] = new[p - l] /\ all[p] = kids[p - l]
    OBVIOUS
  <2>1. p - l \in 1 .. Len(new) /\ l + (p - l) = p /\ p \in 1 .. Len(all) /\ ~(p <= l)
    BY <1>0, <1>1, <1>2
  <2> QED BY <1>0, <1>2, <2>1
<1>5. \A p \in 1 .. Len(all) : s[p] \in Item /\ h[s[p]].type = "free" /\ p \in 1 .. Len(s)
  <2>1. \A p \in 1 .. Len(all) : p \in 1 .. Len(s)
    BY <1>1, <1>3
  <2> QED BY <2>1, ElementOfSeq
<1> DEFINE W == {new[p] : p \in 1 .. Len(new)}
<1>6. T \cup W = {s[p] : p \in 1 .. Len(all)}
  <2>1. \A p \in 1 .. l : p \in 1 .. Len(all)
    BY <1>0, <1>1, <1>2
  <2>2. \A q \in 1 .. Len(new) : l + q \in 1 .. Len(all)
    BY <1>0, <1>1, <1>2
  <2>3. \A p \in 1 .. Len(all) : p \in 1 .. l \/ p \in l + 1 .. Len(all)
    BY <1>0, <1>1, <1>2
  <2>4. \A p \in 1 .. Len(all) : s[p] \in T \cup W
    BY <1>4, <2>3
  <2>5. \A q \in 1 .. Len(new) : new[q] \in {s[p] : p \in 1 .. Len(all)}
    BY <1>0, <2>2
  <2> QED BY <2>1, <2>4, <2>5
<1>7. \A p \in 1 .. l : s[p] \in Item \ W
  <2> SUFFICES ASSUME NEW p \in 1 .. l, NEW q \in 1 .. Len(new), s[p] = new[q] PROVE FALSE
    BY <1>2, <1>5, <1>0, <1>1
  <2>1. p \in 1 .. Len(s) /\ l + q \in 1 .. Len(s) /\ p # l + q /\ s[p] = s[l + q]
    BY <1>0, <1>1
  <2> QED BY <2>1 DEF Distinct
<1>8. Shape(f, m) /\ NewTree(h, k, f, m, T \cup W, s[1])
  BY DEF Grew
<1>9. /\ \A j \in Item \ W : SameItem(f[j], g[j])
      /\ \A p \in 1 .. Len(new) : SameItem(f[new[p]], cells[p])
  BY DEF Grew
<1>10. /\ K \in Lists /\ Shape(g, K) /\ NewTree(h, k, g, K, T, s[1])
       /\ \A p \in 1 .. l : SameItem(g[s[p]], CopyOf(h, of[p]))
       /\ \A p \in 1 .. l : p <= n => Pairs(s, of, K[s[p]], Kids(h, of[p]))
       /\ \A p \in 1 .. l : p > n => K[s[p]] = <<>>
  BY DEF Part, Shape
<1> HIDE DEF f, W
<1>11. \A p \in 1 .. Len(all) : SameItem(f[s[p]], CopyOf(h, all[p]))
  <2> SUFFICES ASSUME NEW p \in 1 .. Len(all) PROVE SameItem(f[s[p]], CopyOf(h, all[p]))
    OBVIOUS
  <2>1. CASE p <= l
    <3>1. p \in 1 .. l /\ all[p] = of[p]
      BY <1>1, <1>2, <2>1
    <3>2. SameItem(f[s[p]], g[s[p]]) /\ SameItem(g[s[p]], CopyOf(h, of[p]))
      BY <1>7, <1>9, <1>10, <3>1
    <3> QED BY <3>1, <3>2 DEF SameItem
  <2>2. CASE ~(p <= l)
    <3>1. p \in l + 1 .. Len(all)
      BY <1>1, <1>2, <2>2
    <3> QED BY <1>4, <1>9, <3>1
  <2> QED BY <2>1, <2>2
<1>12. s[N] \in Item /\ m[s[N]] = new /\ \A j \in Item \ {s[N]} : m[j] = K[j]
  <2>1. s[N] \in Item
    BY <1>1, <1>7
  <2> QED BY <1>10, <2>1 DEF Edit, Lists
<1>13. \A p \in 1 .. Len(all) : p # N => s[p] # s[N]
  <2>1. N \in 1 .. Len(s)
    BY <1>1
  <2> QED BY <1>5, <2>1 DEF Distinct
<1>14. ASSUME NEW p \in 1 .. Len(all), p <= N PROVE Pairs(s, all, m[s[p]], Kids(h, all[p]))
  <2>1. p \in 1 .. l /\ all[p] = of[p]
    BY <1>1, <1>2, <1>14
  <2>2. CASE p = N
    <3>1. m[s[p]] = new /\ Kids(h, all[p]) = kids
      BY <1>12, <2>1, <2>2
    <3>2. \A q \in 1 .. Len(new) : l + q \in 1 .. Len(all) /\ new[q] = s[l + q] /\ kids[q] = all[l + q]
      <4> SUFFICES ASSUME NEW q \in 1 .. Len(new)
                   PROVE  l + q \in 1 .. Len(all) /\ new[q] = s[l + q] /\ kids[q] = all[l + q]
        OBVIOUS
      <4>1. l + q \in l + 1 .. Len(all) /\ l + q \in 1 .. Len(all) /\ (l + q) - l = q
        BY <1>0, <1>1, <1>2
      <4> QED BY <1>0, <1>4, <4>1
    <3> QED BY <3>1, <3>2 DEF Pairs
  <2>3. CASE p # N
    <3>1. p <= n
      BY <1>14, <2>3, p \in Nat
    <3>2. Pairs(s, of, K[s[p]], Kids(h, of[p]))
      BY <1>10, <2>1, <3>1
    <3>3. m[s[p]] = K[s[p]]
      BY <1>5, <1>12, <1>13, <2>3
    <3>4. Pairs(s, all, K[s[p]], Kids(h, of[p]))
      BY <3>2, PairsMore DEF all
    <3> QED BY <2>1, <3>3, <3>4
  <2> QED BY <2>2, <2>3
<1>15. ASSUME NEW p \in 1 .. Len(all), p > N PROVE m[s[p]] = <<>>
  <2>1. m[s[p]] = K[s[p]]
    BY <1>5, <1>12, <1>13, <1>15
  <2>2. CASE p <= l
    BY <1>10, <1>15, <2>1, <2>2
  <2>3. CASE ~(p <= l)
    <3>1. p \in l + 1 .. Len(all)
      BY <1>1, <1>2, <2>3
    <3>2. s[p] \notin T
      <4>1. \A q \in 1 .. l : q \in 1 .. Len(s) /\ q # p
        BY <1>1, <3>1
      <4>2. p \in 1 .. Len(s)
        BY <1>5
      <4> QED BY <4>1, <4>2 DEF Distinct
    <3>3. K[s[p]] = k[s[p]]
      BY <1>5, <1>10, <3>2 DEF NewTree
    <3>4. k[s[p]] = <<>>
      BY <1>5 DEF Shape, Forward
    <3> QED BY <2>1, <3>3, <3>4
  <2> QED BY <2>2, <2>3
<1>16. Part(h, k, s, all, f, m, N)
  BY <1>6, <1>8, <1>11, <1>14, <1>15 DEF Part
<1> QED BY <1>3, <1>16 DEF all, f

-----------------------------------------------------------------------------
(***************************************************************************)
(* cJSON_Duplicate: every round keeps the invariant.                       *)
(***************************************************************************)

\* What is known of a memory of which i is copied to the items s.
Source(h, k, v, R, i, s) ==
  /\ Sound(h, k, v) /\ R = Reached(Sub(k), v) /\ i \in R
  /\ s \in Seq(Item) /\ Distinct(s) /\ s # <<>>
  /\ \A p \in 1 .. Len(s) : h[s[p]].type = "free"

\* One round of the loop keeps its invariant; without memory for all, the memory is
\* as it was before the first round.
LEMMA CopyStep ==
  ASSUME NEW h, NEW k, NEW v, NEW R, NEW i, NEW s, Source(h, k, v, R, i, s),
         NEW m, NEW n \in Nat, Copying(h, k, R, i, s, m, n), NEW N, N = n + 1
  PROVE  Copying(h, k, R, i, s, CopyKids(h, s, m, N), N)
<1>0. /\ Sound(h, k, v) /\ R = Reached(Sub(k), v) /\ s \in Seq(Item) /\ Distinct(s) /\ Shape(h, k)
      /\ \A p \in 1 .. Len(s) : h[s[p]].type = "free"
      /\ h \in Memory /\ R \subseteq Item /\ \A j \in R : h[j].type # "free"
  BY SoundFacts DEF Source, Sound
<1>1. m \in [h : Memory, of : Seq(R), ok : BOOLEAN] /\ (~m.ok => m.h = h)
  BY DEF Copying
<1>2. CASE ~m.ok \/ N > Len(m.of)
  <2>1. CopyKids(h, s, m, N) = m
    BY <1>2 DEF CopyKids
  <2>2. CASE ~m.ok
    BY <1>1, <2>1, <2>2 DEF Copying
  <2>3. CASE m.ok /\ N > Len(m.of)
    <3>1. PICK K : Part(h, k, s, m.of, m.h, K, n)
      BY <2>3 DEF Copying
    <3>2. \A p \in 1 .. Len(m.of) : p <= n /\ p <= N /\ ~(p > N)
      BY <2>3, <1>1
    <3>3. Part(h, k, s, m.of, m.h, K, N)
      BY <3>1, <3>2 DEF Part
    <3> QED BY <2>1, <2>3, <3>3 DEF Copying
  <2> QED BY <1>2, <2>2, <2>3
<1>3. CASE m.ok /\ ~(N > Len(m.of))
  <2> DEFINE of == m.of
             l == Len(of)
             g == m.h
             kids == Kids(h, of[N])
             new == NextOf(s, l, Len(kids))
             cells == [p \in DOMAIN new |-> CopyOf(h, kids[p])]
             c == Chain(g, s[N], new, cells)
             T == {s[p] : p \in 1 .. l}
  <2>1. PICK K : Part(h, k, s, of, g, K, n)
    BY <1>3 DEF Copying
  <2>2. of \in Seq(R) /\ g \in Memory /\ l \in 1 .. Len(s) /\ l \in Nat /\ of[1] = i
    BY <1>1, <1>3 DEF Copying
  <2>3. CopyKids(h, s, m, N) =
          IF Len(new) = Len(kids) THEN [m EXCEPT !.h = Close(c, new), !.of = of \o kids]
          ELSE [m EXCEPT !.h = Free(c, s[1]), !.ok = FALSE]
    <3> DEFINE X == IF Len(new) = Len(kids) THEN [m EXCEPT !.h = Close(c, new), !.of = of \o kids]
                    ELSE [m EXCEPT !.h = Free(c, s[1]), !.ok = FALSE]
    <3>1. CopyKids(h, s, m, N) = IF ~m.ok \/ N > Len(m.of) THEN m ELSE X
      BY Zenon DEF CopyKids, NextOf
    <3> HIDE DEF X
    <3>2. CopyKids(h, s, m, N) = X
      BY <1>3, <3>1
    <3> QED BY <3>2 DEF X
  <2>4. N \in 1 .. l /\ N <= l
    BY <1>3, <2>2
  <2> HIDE DEF of, l, g
  <2>5. kids \in Seq(R) /\ Len(kids) \in Nat
    <3>1. of[N] \in R
      BY <2>2, <2>4, ElementOfSeq DEF l
    <3>2. Kids(h, of[N]) \in Seq(R)
      BY <1>0, <3>1, KidsReached
    <3> QED BY <3>2
  <2> HIDE DEF kids
  <2>6. Follows(new, s, l, Len(kids))
    <3>1. l \in 0 .. Len(s)
      BY <2>2
    <3> QED BY <1>0, <2>5, <3>1, NextIs
  <2> HIDE DEF new
  <2>7. \A p \in 1 .. Len(new) : cells[p] = CopyOf(h, kids[p]) /\ cells[p] \in Cell /\ Newborn(cells[p]) /\ ~cells[p].ref
    <3> SUFFICES ASSUME NEW p \in 1 .. Len(new)
                 PROVE  cells[p] = CopyOf(h, kids[p]) /\ cells[p] \in Cell /\ Newborn(cells[p]) /\ ~cells[p].ref
      OBVIOUS
    <3>1. p \in 1 .. Len(kids) /\ p \in DOMAIN new
      BY <2>5, <2>6 DEF Follows
    <3>2. kids[p] \in Item /\ h[kids[p]].type # "free"
      BY <1>0, <2>5, <3>1, ElementOfSeq
    <3>3. Copies(CopyOf(h, kids[p]), h[kids[p]])
      BY <1>0, <3>2, CopyIs
    <3>4. cells[p] = CopyOf(h, kids[p])
      BY <3>1
    <3> HIDE DEF cells
    <3> QED BY <3>3, <3>4 DEF Copies
  <2> HIDE DEF cells, T, c
  <2> DEFINE K2 == Edit(K, s[N], new)
             r == s[1]
  <2>8. Grew(c, h, k, g, K2, T, new, cells, r)
    <3>1. /\ Shape(h, k) /\ s \in Seq(Item) /\ Distinct(s) /\ l = Len(of) /\ l \in 1 .. Len(s) /\ n \in Nat
          /\ Part(h, k, s, of, g, K, n) /\ N = n + 1 /\ N <= l /\ Follows(new, s, l, Len(kids))
          /\ T = {s[p] : p \in 1 .. l}
      BY <1>0, <2>1, <2>2, <2>4, <2>6 DEF l, T
    <3>2. \A p \in 1 .. Len(s) : h[s[p]].type = "free"
      BY <1>0
    <3>3. \A p \in 1 .. Len(new) : cells[p] \in Cell /\ Newborn(cells[p]) /\ ~cells[p].ref
      BY <2>7
    <3>4. Grew(Chain(g, s[N], new, cells), h, k, g, Edit(K, s[N], new), T, new, cells, s[1])
      BY ONLY <3>1, <3>2, <3>3, PartLinked
    <3> QED BY <3>4 DEF c
  <2>9. CASE Len(new) = Len(kids)
    <3>1. /\ Shape(h, k) /\ s \in Seq(Item) /\ Distinct(s) /\ of \in Seq(R) /\ l = Len(of) /\ l \in 1 .. Len(s)
          /\ n \in Nat /\ Part(h, k, s, of, g, K, n) /\ N = n + 1 /\ N <= l
          /\ kids \in Seq(R) /\ kids = Kids(h, of[N]) /\ Follows(new, s, l, Len(kids)) /\ Len(new) = Len(kids)
          /\ T = {s[p] : p \in 1 .. l} /\ K2 = Edit(K, s[N], new) /\ Grew(c, h, k, g, K2, T, new, cells, s[1])
      BY <1>0, <2>1, <2>2, <2>4, <2>5, <2>6, <2>8, <2>9 DEF l, T, kids
    <3>2. \A p \in 1 .. Len(s) : h[s[p]].type = "free"
      BY <1>0
    <3>3. \A p \in 1 .. Len(new) : cells[p] = CopyOf(h, kids[p])
      BY <2>7
    <3> HIDE DEF K2
    <3>4. Part(h, k, s, of \o kids, Close(c, new), K2, N) /\ Len(of \o kids) \in 1 .. Len(s)
      BY ONLY <3>1, <3>2, <3>3, PartGrown
    <3> DEFINE f == Close(c, new)
               all == of \o kids
               m2 == CopyKids(h, s, m, N)
    <3>5. m2 = [m EXCEPT !.h = f, !.of = all]
      BY Zenon, <2>3, <2>9
    <3>6. f \in Memory
      BY <3>4 DEF Part, Shape
    <3>7. all \in Seq(R) /\ all[1] = i
      <4>1. all \in Seq(R) /\ Len(all) = Len(of) + Len(kids)
            /\ \A p \in 1 .. Len(of) + Len(kids) : all[p] = IF p <= Len(of) THEN of[p] ELSE kids[p - Len(of)]
        BY <2>2, <2>5, ConcatProperties
      <4>2. 1 \in 1 .. Len(of) + Len(kids) /\ 1 <= Len(of)
        BY <2>2, <2>5 DEF l
      <4> QED BY <2>2, <4>1, <4>2
    <3>8. Part(h, k, s, all, f, K2, N) /\ Len(all) \in 1 .. Len(s)
      BY <3>4
    <3> HIDE DEF f, all, m2
    <3>9. m2 \in [h : Memory, of : Seq(R), ok : BOOLEAN] /\ m2.h = f /\ m2.of = all /\ m2.ok
      BY <1>1, <1>3, <3>5, <3>6, <3>7
    <3>10. Copying(h, k, R, i, s, m2, N)
      BY <3>7, <3>8, <3>9 DEF Copying
    <3> QED BY <3>10 DEF m2
  <2>10. CASE Len(new) # Len(kids)
    <3>1. Free(c, s[1]) = h
      BY <2>8 DEF Grew
    <3> DEFINE m2 == CopyKids(h, s, m, N)
    <3>2. m2 = [m EXCEPT !.h = h, !.ok = FALSE]
      BY <2>3, <2>10, <3>1
    <3> HIDE DEF m2
    <3>3. m2 \in [h : Memory, of : Seq(R), ok : BOOLEAN] /\ m2.h = h /\ ~m2.ok
      BY <1>0, <1>1, <3>2
    <3>4. Copying(h, k, R, i, s, m2, N)
      BY <3>3 DEF Copying
    <3> QED BY <3>4 DEF m2
  <2> QED BY <2>9, <2>10
<1> QED BY <1>2, <1>3

\* The state of the copying before the kids.
One(h, i, s) == [h |-> [h EXCEPT ![s[1]] = CopyOf(h, i)], of |-> <<i>>, ok |-> TRUE]

\* The loop begins well.
LEMMA OneCopied ==
  ASSUME NEW h, NEW k, NEW v, NEW R, NEW i, NEW s, Source(h, k, v, R, i, s)
  PROVE  Copying(h, k, R, i, s, One(h, i, s), 0)
<1>0. /\ Shape(h, k) /\ s \in Seq(Item) /\ i \in R /\ Len(s) \in Nat /\ 1 \in 1 .. Len(s)
      /\ s[1] \in Item /\ h[s[1]].type = "free" /\ h \in Memory /\ i \in Item /\ h[i].type # "free"
  <2>1. Sound(h, k, v) /\ s \in Seq(Item) /\ s # <<>> /\ i \in R /\ R = Reached(Sub(k), v)
    BY DEF Source
  <2>2. 1 \in 1 .. Len(s)
    BY <2>1, EmptySeq
  <2> QED BY <2>1, <2>2, SoundFacts, ElementOfSeq DEF Source, Sound
<1> DEFINE x == CopyOf(h, i)
           a == s[1]
           g == [h EXCEPT ![a] = x]
           m == One(h, i, s)
<1>1. x \in Cell /\ Newborn(x) /\ ~x.ref
  BY <1>0, CopyIs DEF Copies
<1>2. m.h = g /\ m.of = <<i>> /\ m.ok = TRUE
  BY DEF One
<1>3. m = [h |-> g, of |-> <<i>>, ok |-> TRUE]
  BY DEF One
<1> HIDE DEF x, a, m
<1>4. OneItem(g, h, k, a, x)
  <2>1. a \in Item /\ h[a].type = "free" /\ Shape(h, k) /\ g = [h EXCEPT ![a] = x]
    BY <1>0 DEF a
  <2> HIDE DEF g
  <2> QED BY ONLY <1>1, <2>1, SingleTree
<1> HIDE DEF g
<1>5. Len(<<i>>) = 1 /\ <<i>> \in Seq(R) /\ <<i>>[1] = i
  BY <1>0
<1>6. Part(h, k, s, <<i>>, g, k, 0)
  <2>1. 1 .. 1 = {1}
    OBVIOUS
  <2>2. {s[p] : p \in 1 .. Len(<<i>>)} = {s[1]}
    BY <1>5, <2>1
  <2>3. Shape(g, k) /\ NewTree(h, k, g, k, {s[p] : p \in 1 .. Len(<<i>>)}, s[1])
    BY <1>4, <2>2 DEF OneItem, a
  <2>4. \A p \in 1 .. Len(<<i>>) : SameItem(g[s[p]], CopyOf(h, <<i>>[p]))
    BY <1>4, <1>5, <2>1 DEF OneItem, a, x, SameItem
  <2>5. \A p \in 1 .. Len(<<i>>) : ~(p <= 0) /\ k[s[p]] = <<>>
    BY <1>4, <1>5, <2>1 DEF OneItem, a
  <2> QED BY <2>3, <2>4, <2>5 DEF Part
<1>7. g \in Memory
  BY <1>4 DEF OneItem, Shape
<1>8. m \in [h : Memory, of : Seq(R), ok : BOOLEAN]
  BY <1>3, <1>5, <1>7
<1>9. Len(m.of) \in 1 .. Len(s) /\ m.of[1] = i /\ Part(h, k, s, m.of, m.h, k, 0)
  BY <1>0, <1>2, <1>5, <1>6
<1>10. Copying(h, k, R, i, s, m, 0)
  BY <1>2, <1>8, <1>9 DEF Copying
<1> QED BY <1>10 DEF m

\* The recursive function inside Copy.
CopyAll(h, i, s) ==
  CHOOSE all : all = [n \in Nat |->
    IF n = 0 THEN One(h, i, s) ELSE CopyKids(h, s, all[n - 1], n)]

\* It has the value that its definition says, and the invariant holds after every round.
LEMMA CopiedAll ==
  ASSUME NEW h, NEW k, NEW v, NEW R, NEW i, NEW s, Source(h, k, v, R, i, s)
  PROVE  \A n \in Nat : Copying(h, k, R, i, s, CopyAll(h, i, s)[n], n)
<1> DEFINE S == [h : Memory, of : Seq(R), ok : BOOLEAN]
           one == One(h, i, s)
           C(m, n) == CopyKids(h, s, m, n)
           g == [x \in S \X Nat |-> IF C(x[1], x[2]) \in S THEN C(x[1], x[2]) ELSE x[1]]
<1>1. g \in [S \X Nat -> S]
  <2> HIDE DEF S, C
  <2>1. \A x \in S \X Nat : (IF C(x[1], x[2]) \in S THEN C(x[1], x[2]) ELSE x[1]) \in S
    OBVIOUS
  <2> QED BY <2>1
<1>2. one \in S /\ Copying(h, k, R, i, s, one, 0)
  BY OneCopied DEF Copying
<1>3. PICK f \in [Nat -> S] : Iterates(f, one, g)
  <2> HIDE DEF S, g, one
  <2> QED BY <1>1, <1>2, Recursion
<1>4. f[0] = one
  BY <1>3 DEF Iterates
<1>5. ASSUME NEW n \in Nat, Copying(h, k, R, i, s, f[n], n)
      PROVE  f[n + 1] = C(f[n], n + 1) /\ Copying(h, k, R, i, s, f[n + 1], n + 1)
  <2>1. f[n + 1] = g[<<f[n], n + 1>>] /\ f[n] \in S /\ n + 1 \in Nat
    <3> HIDE DEF S, g, one
    <3> QED BY <1>3 DEF Iterates
  <2> DEFINE m == f[n]
             N == n + 1
  <2>2. Copying(h, k, R, i, s, C(m, N), N)
    <3>1. N = n + 1 /\ Copying(h, k, R, i, s, m, n)
      BY <1>5
    <3> HIDE DEF m, N
    <3> QED BY <3>1, CopyStep
  <2>3. C(m, N) \in S
    <3> HIDE DEF m, N, C
    <3> QED BY <2>2 DEF Copying
  <2>4. g[<<m, N>>] = IF C(m, N) \in S THEN C(m, N) ELSE m
    <3>1. <<m, N>> \in S \X Nat /\ <<m, N>>[1] = m /\ <<m, N>>[2] = N
      BY <2>1
    <3> HIDE DEF m, N, C, S
    <3> QED BY <3>1
  <2> HIDE DEF C, S, g
  <2> QED BY <2>1, <2>2, <2>3, <2>4
<1> HIDE DEF C, g, S
<1> DEFINE T == {n \in Nat : Copying(h, k, R, i, s, f[n], n)}
<1>6. \A n \in Nat : Copying(h, k, R, i, s, f[n], n)
  <2>1. 0 \in T
    BY <1>2, <1>4
  <2>2. \A n \in Nat : n \in T => n + 1 \in T
    BY <1>5
  <2>3. Nat \subseteq T
    <3> HIDE DEF T
    <3> QED BY <2>1, <2>2, Induction
  <2> QED BY <2>3
<1>7. ASSUME NEW n \in Nat PROVE f[n] = IF n = 0 THEN one ELSE CopyKids(h, s, f[n - 1], n)
  <2>1. CASE n = 0
    BY <1>4, <2>1
  <2>2. CASE n # 0
    <3>1. n - 1 \in Nat /\ (n - 1) + 1 = n
      BY <2>2
    <3>2. f[(n - 1) + 1] = C(f[n - 1], (n - 1) + 1)
      BY <1>5, <1>6, <3>1
    <3> QED BY <2>2, <3>1, <3>2 DEF C
  <2> QED BY <2>1, <2>2
<1>8. f = [n \in Nat |-> IF n = 0 THEN one ELSE CopyKids(h, s, f[n - 1], n)]
  <2>1. f = [n \in Nat |-> f[n]]
    OBVIOUS
  <2> HIDE DEF one
  <2> QED BY <2>1, <1>7
<1> DEFINE all == CopyAll(h, i, s)
<1>9. all = [n \in Nat |-> IF n = 0 THEN one ELSE CopyKids(h, s, all[n - 1], n)]
  BY <1>8 DEF CopyAll
<1> HIDE DEF all, one
<1>10. all[0] = one /\ \A n \in Nat : all[n + 1] = CopyKids(h, s, all[n], n + 1)
  <2>1. \A n \in Nat : n + 1 \in Nat /\ n + 1 # 0 /\ (n + 1) - 1 = n
    OBVIOUS
  <2>2. \A n \in Nat : all[n] = IF n = 0 THEN one ELSE CopyKids(h, s, all[n - 1], n)
    BY <1>9
  <2> QED BY <2>1, <2>2
<1> DEFINE U == {n \in Nat : Copying(h, k, R, i, s, all[n], n)}
<1>11. 0 \in U
  BY <1>2, <1>10
<1>12. ASSUME NEW n \in Nat, n \in U PROVE n + 1 \in U
  <2> DEFINE m == all[n]
             N == n + 1
  <2>1. N = n + 1 /\ Copying(h, k, R, i, s, m, n) /\ all[N] = CopyKids(h, s, m, N) /\ N \in Nat
    BY <1>10, <1>12
  <2> HIDE DEF m, N
  <2>2. Copying(h, k, R, i, s, CopyKids(h, s, m, N), N)
    BY <2>1, CopyStep
  <2> QED BY <2>1, <2>2 DEF N
<1>13. Nat \subseteq U
  <2> HIDE DEF U
  <2> QED BY <1>11, <1>12, Induction
<1> QED BY <1>13 DEF all

\* What Copy is.
LEMMA CopyMeans ==
  ASSUME NEW h, NEW i, NEW s, s # <<>>
  PROVE  /\ Copy(h, i, TRUE, s) = CopyAll(h, i, s)[Len(s)]
         /\ Copy(h, i, FALSE, s) = One(h, i, s)
BY Zenon DEF Copy, CopyAll, One

\* What Copy is without memory.
LEMMA NothingCopied ==
  ASSUME NEW h, NEW i, NEW recurse
  PROVE  Copy(h, i, recurse, <<>>) = [h |-> h, of |-> <<>>, ok |-> FALSE]
BY Zenon DEF Copy

-----------------------------------------------------------------------------
(***************************************************************************)
(* Every step.                                                             *)
(***************************************************************************)

\* Duplicate: a new tree, or nothing.
LEMMA DuplicateSound ==
  ASSUME IInv, NEW i, NEW recurse \in BOOLEAN, NEW s, Fresh(s), Duplicate(i, recurse, s)
  PROVE  IInv' /\ (Abstract!Change \/ UNCHANGED Abstract!tree)
<1> DEFINE k == Owned(heap)
           R == Reached(Sub(k), held)
           m == Copy(heap, i, recurse, s)
<1>0. i \in R /\ heap' = m.h /\ held' = IF m.ok THEN held \cup {s[1]} ELSE held
  BY CallFacts DEF Duplicate
<1>1. Sound(heap, k, held) /\ k = Owned(heap)
  BY CallFacts
<1>2. CASE s = <<>>
  <2>1. m = [h |-> heap, of |-> <<>>, ok |-> FALSE]
    BY <1>2, NothingCopied
  <2>2. heap' = heap /\ held' = held
    BY <1>0, <2>1
  <2> QED BY <1>1, <2>2, AbstractStay
<1>3. CASE s # <<>>
  <2>1. s \in Seq(Item) /\ Distinct(s) /\ \A p \in 1 .. Len(s) : heap[s[p]].type = "free"
    BY FreshItems
  <2>2. Source(heap, k, held, R, i, s)
    BY <1>0, <1>1, <1>3, <2>1 DEF Source
  <2>3. \E n \in Nat : Copying(heap, k, R, i, s, m, n)
    <3>1. Copying(heap, k, R, i, s, One(heap, i, s), 0) /\ 0 \in Nat
      BY <2>2, OneCopied
    <3>2. Copying(heap, k, R, i, s, CopyAll(heap, i, s)[Len(s)], Len(s)) /\ Len(s) \in Nat
      BY <2>1, <2>2, CopiedAll
    <3>3. m = One(heap, i, s) \/ m = CopyAll(heap, i, s)[Len(s)]
      BY <1>3, CopyMeans, recurse = TRUE \/ recurse = FALSE
    <3> HIDE DEF m
    <3> QED BY <3>1, <3>2, <3>3
  <2>4. PICK n \in Nat : Copying(heap, k, R, i, s, m, n)
    BY <2>3
  <2> HIDE DEF m
  <2>5. CASE ~m.ok
    <3>1. heap' = heap /\ held' = held
      BY <1>0, <2>4, <2>5 DEF Copying
    <3> QED BY <1>1, <3>1, AbstractStay
  <2>6. CASE m.ok
    <3>1. PICK K : Part(heap, k, s, m.of, heap', K, n)
      BY <1>0, <2>4, <2>6 DEF Copying
    <3> DEFINE T == {s[p] : p \in 1 .. Len(m.of)}
    <3>2. Shape(heap', K) /\ NewTree(heap, k, heap', K, T, s[1]) /\ held' = held \cup {s[1]}
      BY <1>0, <2>6, <3>1 DEF Part
    <3> HIDE DEF T, k
    <3> QED BY <1>1, <3>2, TreeMade
  <2> QED BY <2>5, <2>6
<1> QED BY <1>2, <1>3

\* The empty memory is sound, and JsonTree starts there.
LEMMA InitSound ==
  ASSUME Init
  PROVE  IInv /\ Abstract!Init
<1> DEFINE k == [i \in Item |-> <<>>]
           x == NewItem("free")
<1>1. heap = [i \in Item |-> x] /\ held = {} /\ running = TRUE
  BY DEF Init
<1>2. /\ x \in Cell /\ x.type = "free" /\ ~x.ref /\ x.child = NoItem /\ x.next = NoItem /\ x.prev = NoItem
      /\ x.name = NoName /\ x.copied = FALSE
  BY DEF NewItem, Cell
<1> HIDE DEF x
<1>3. heap \in Memory /\ \A i \in Item : heap[i] = x
  BY <1>1, <1>2 DEF Memory
<1>4. k \in Lists /\ \A i \in Item : k[i] = <<>> /\ Len(k[i]) = 0
  BY DEF Lists
<1> HIDE DEF k
<1>5. Forward(heap, k) /\ Backward(heap, k) /\ Unshared(k) /\ Names(heap)
  BY <1>2, <1>3, <1>4 DEF Forward, Backward, Unshared, Names, FirstOf
<1>6. Loose(heap, k)
  BY <1>2, <1>3 DEF Loose, x
<1>7. Rooted(heap, k, held)
  BY <1>1, <1>2, <1>3 DEF Rooted
<1>8. Shape(heap, k)
  BY <1>3, <1>4, <1>5, <1>6 DEF Shape
<1>9. Shows(heap, k, held)
  <2>1. Sub(k) \in Graph /\ held \in SUBSET Item /\ Reached(Sub(k), held) \subseteq Item
    BY <1>1, <1>4, SubIs, ReachedClosed
  <2> QED BY <1>2, <1>3, <2>1 DEF Shows
<1>10. Sound(heap, k, held)
  BY <1>7, <1>8, <1>9 DEF Sound
<1>11. Owned(heap) = k
  BY <1>10, SoundFacts
<1>12. Live = {}
  BY <1>2, <1>3 DEF Live
<1>13. IInv
  BY <1>10, <1>11 DEF IInv
<1> QED BY <1>1, <1>11, <1>12, <1>13 DEF Abstract!Init, k
----------------------------------------------------------------------------
\* An item is detached or deleted that an index or a key has found.
LEMMA IndexSound ==
  ASSUME IInv, NEW c \in Attached, NEW i, i # NoItem,
         \/ \E p : i = GetArrayItem(heap, c, p)
         \/ \E n, case : i = GetObjectItem(heap, c, n, case),
         Detach(c, i) \/ DeleteItem(c, i)
  PROVE  IInv' /\ Abstract!Change
<1> DEFINE k == Owned(heap)
<1>1. Sound(heap, k, held) /\ c \in Item /\ ~heap[c].ref
  BY CallFacts DEF Detach, DeleteItem, MayChange
<1>2. \E q \in 1 .. Len(k[c]) : i = k[c][q]
  BY <1>1, ArrayItemIs, ObjectItemIs
<1>3. PICK q \in 1 .. Len(k[c]) : i = k[c][q]
  BY <1>2
<1>4. k = Owned(heap)
  OBVIOUS
<1> HIDE DEF k
<1>5. CASE Detach(c, i)
  BY <1>3, <1>4, <1>5, DetachSound
<1>6. CASE DeleteItem(c, i)
  BY <1>3, <1>4, <1>6, DeleteItemSound
<1> QED BY <1>5, <1>6

\* What a step does to the abstract state.
Served ==
  \/ Abstract!Change /\ UNCHANGED running
  \/ Abstract!Stop
  \/ UNCHANGED <<Abstract!tree, running>>

\* CreateNumbers may also stop the program, and then the memory stays as it is.
LEMMA CreateNumbersSound ==
  ASSUME IInv, NEW s, Fresh(s), CreateNumbers(s)
  PROVE  IInv' /\ Served
<1>1. CASE Len(s) <= 1 /\ running' = FALSE /\ UNCHANGED <<heap, held>>
  <2>1. Sound(heap', Owned(heap), held')
    BY <1>1 DEF IInv
  <2>2. IInv' /\ UNCHANGED Abstract!tree
    BY <1>1, <2>1, AbstractStay
  <2> QED BY <1>1, <2>2 DEF Served, Abstract!Stop
<1> DEFINE a == Head(s)
           n == Tail(s)
           chain == Chain([heap EXCEPT ![a] = NewItem("array")], a, n,
                          [p \in DOMAIN n |-> NewItem("array")])
           linked == \/ heap' = Close(chain, n) /\ held' = held \cup {a}
                     \/ heap' = Free(chain, a) /\ held' = held
<1>2. CASE s # <<>> /\ UNCHANGED running /\ linked
  <2>1. /\ a \in Unused /\ n \in Seq(Item) /\ Distinct(n) /\ ToSet(n) \subseteq Unused \ {a}
    BY <1>2, FreshTail
  <2> HIDE DEF a, n
  <2>2. IInv' /\ (Abstract!Change \/ UNCHANGED Abstract!tree)
    BY <1>2, <2>1, NumbersSound
  <2> QED BY <1>2, <2>2 DEF Served
<1>3. \/ Len(s) <= 1 /\ running' = FALSE /\ UNCHANGED <<heap, held>>
      \/ s # <<>> /\ UNCHANGED running /\ linked
  BY DEF CreateNumbers
<1> QED BY <1>1, <1>2, <1>3

\* Every other call keeps the invariant and does what JsonTree promises.
LEMMA CallSound ==
  ASSUME IInv, Call
  PROVE  IInv' /\ (Abstract!Change \/ UNCHANGED Abstract!tree)
<1>0. /\ \A i \in First : i \in Unused
      /\ \A s \in Some : Fresh(s)
  BY FirstAre, SomeAre
<1>1. CASE \E i \in First, t \in {"array", "object"} : Create(i, t)
  BY <1>1, CreateSound
<1>2. CASE \E i \in held : Delete(i)
  BY <1>2, DeleteSound
<1>4. CASE \E i \in Attached, s \in Some, recurse \in BOOLEAN : Duplicate(i, recurse, s)
  BY <1>0, <1>4, DuplicateSound
<1>5. CASE \E c \in Attached :
             \/ \E i \in held : AddToArray(c, i)
             \/ \E r \in First : \/ CreateReference(r, c)
                                 \/ \E j \in Attached : AddReferenceToArray(c, j, r)
             \/ \E n \in Name :
                  \/ \E i \in held, const \in BOOLEAN : AddToObject(c, n, i, const)
                  \/ \E i \in First, t \in {"array", "object"} : AddNewToObject(c, n, i, t)
                  \/ \E r \in First, j \in Attached : AddReferenceToObject(c, n, j, r)
  BY <1>5, AddToArraySound, CreateReferenceSound, AddReferenceToArraySound, AddToObjectSound,
     AddNewToObjectSound, AddReferenceToObjectSound
<1>6. CASE \E c \in {a \in Attached : Is(a, "array")}, p \in 1 .. Cardinality(Item) :
             \/ Detach(c, GetArrayItem(heap, c, p))
             \/ DeleteItem(c, GetArrayItem(heap, c, p))
             \/ \E i \in held : InsertInArray(c, p, i) \/ ReplaceInArray(c, p, i)
  <2>1. PICK c \in Attached, p \in 1 .. Cardinality(Item) :
             \/ Detach(c, GetArrayItem(heap, c, p))
             \/ DeleteItem(c, GetArrayItem(heap, c, p))
             \/ \E i \in held : InsertInArray(c, p, i) \/ ReplaceInArray(c, p, i)
    BY <1>6
  <2>2. p \in Nat \ {0}
    OBVIOUS
  <2>3. CASE Detach(c, GetArrayItem(heap, c, p)) \/ DeleteItem(c, GetArrayItem(heap, c, p))
    <3>1. GetArrayItem(heap, c, p) # NoItem
      BY <2>3 DEF Detach, DeleteItem
    <3> QED BY <2>3, <3>1, IndexSound
  <2>4. CASE \E i \in held : InsertInArray(c, p, i)
    BY <2>2, <2>4, InsertInArraySound
  <2>5. CASE \E i \in held : ReplaceInArray(c, p, i)
    BY <2>5, ReplaceInArraySound
  <2> QED BY <2>1, <2>3, <2>4, <2>5
<1>7. CASE \E c \in {o \in Attached : Is(o, "object")}, n \in Name, case \in BOOLEAN :
             \/ Detach(c, GetObjectItem(heap, c, n, case))
             \/ DeleteItem(c, GetObjectItem(heap, c, n, case))
             \/ \E i \in held, ok \in BOOLEAN : ReplaceInObject(c, n, i, case, ok)
  <2>1. PICK c \in Attached, n \in Name, case \in BOOLEAN :
             \/ Detach(c, GetObjectItem(heap, c, n, case))
             \/ DeleteItem(c, GetObjectItem(heap, c, n, case))
             \/ \E i \in held, ok \in BOOLEAN : ReplaceInObject(c, n, i, case, ok)
    BY <1>7
  <2>2. CASE Detach(c, GetObjectItem(heap, c, n, case)) \/ DeleteItem(c, GetObjectItem(heap, c, n, case))
    <3>1. GetObjectItem(heap, c, n, case) # NoItem
      BY <2>2 DEF Detach, DeleteItem
    <3> QED BY <2>2, <3>1, IndexSound
  <2>3. CASE \E i \in held, ok \in BOOLEAN : ReplaceInObject(c, n, i, case, ok)
    BY <2>3, ReplaceInObjectSound
  <2> QED BY <2>1, <2>2, <2>3
<1> QED BY <1>1, <1>2, <1>4, <1>5, <1>6, <1>7 DEF Call

\* So does every step.
LEMMA StepSound ==
  ASSUME IInv, [Next]_vars
  PROVE  IInv' /\ [Abstract!Next]_Abstract!vars
<1>1. CASE running /\ Call /\ UNCHANGED running
  <2>1. IInv' /\ (Abstract!Change \/ UNCHANGED Abstract!tree)
    BY <1>1, CallSound
  <2> QED BY <1>1, <2>1 DEF Abstract!Next, Abstract!vars, Abstract!tree
<1>2. CASE running /\ \E s \in Some : CreateNumbers(s)
  <2>1. IInv' /\ Served
    BY <1>2, SomeAre, CreateNumbersSound
  <2> QED BY <1>2, <2>1 DEF Served, Abstract!Next, Abstract!vars, Abstract!tree
<1>3. CASE UNCHANGED vars
  <2>1. heap' = heap /\ held' = held /\ running' = running
    BY <1>3 DEF vars
  <2>2. Sound(heap', Owned(heap), held')
    BY <2>1 DEF IInv
  <2>3. IInv' /\ UNCHANGED Abstract!tree
    BY <2>1, <2>2, AbstractStay
  <2> QED BY <2>1, <2>3 DEF Abstract!vars, Abstract!tree
<1> QED BY <1>1, <1>2, <1>3 DEF Next

(***************************************************************************)
(* The inductive invariant holds in every state: the pointers are those of *)
(* sequences that share no item, all below what the caller holds.          *)
(***************************************************************************)
THEOREM SoundAlways == Spec => []IInv
<1>1. Init => IInv
  BY InitSound
<1>2. IInv /\ [Next]_vars => IInv'
  BY StepSound
<1> QED BY <1>1, <1>2, PTL DEF Spec

(***************************************************************************)
(* The linked lists implement the sequences of JsonTree: every call of     *)
(* cJSON is one change of one sequence, or none (core/cJSON.c:1805-2486,   *)
(* 2534-2738); or it is one of the array builders, without memory for the  *)
(* array or with a count of 0, and stops the program (2565, 2602, 2639,    *)
(* 2676).                                                                  *)
(***************************************************************************)
THEOREM Refinement == Spec => ImplementsJsonTree
<1>1. Init => IInv /\ Abstract!Init
  BY InitSound
<1>2. IInv /\ [Next]_vars => IInv' /\ [Abstract!Next]_Abstract!vars
  BY StepSound
<1> QED BY <1>1, <1>2, PTL DEF Spec, ImplementsJsonTree, Abstract!Spec

-----------------------------------------------------------------------------
(***************************************************************************)
(* The invariants that the run checks.                                     *)
(***************************************************************************)

\* The lists are linked when the memory is sound.
LEMMA LinkedBySound ==
  ASSUME IInv
  PROVE  ListsAreLinked
<1> DEFINE k == Owned(heap)
           R == Reached(Sub(k), held)
<1>0. /\ Sound(heap, k, held) /\ Attached = R /\ held \subseteq R /\ R \subseteq Item
      /\ heap \in Memory /\ k \in Lists /\ Forward(heap, k) /\ Backward(heap, k) /\ Loose(heap, k)
      /\ Rooted(heap, k, held) /\ Shows(heap, k, held) /\ Sub(k) \in Graph
  BY CallFacts, SoundFacts DEF Sound, Shape
<1> HIDE DEF k, R
<1>1. ASSUME NEW c \in Live, ~heap[c].ref, heap[c].child # NoItem, NEW p \in DOMAIN Kids(heap, c)
      PROVE  LET s == Kids(heap, c) IN heap[s[p]].prev = s[IF p = 1 THEN Len(s) ELSE p - 1]
  <2>1. c \in Item /\ Kids(heap, c) = k[c] /\ k[c] \in Seq(Item)
    BY <1>0, <1>1, KidsOwned DEF Live
  <2>2. p \in 1 .. Len(k[c])
    BY <1>1, <2>1
  <2> QED BY <1>0, <2>1, <2>2 DEF Backward, Before
<1>2. ASSUME NEW i \in held PROVE heap[i].next = NoItem /\ heap[i].prev = NoItem
  BY <1>0 DEF Rooted, Unlisted, Loose
<1>3. ASSUME NEW i \in Item, heap[i].type # "free"
      PROVE  i \in Live
  BY <1>3 DEF Live
<1>4. ASSUME NEW c \in Item, NEW p \in 1 .. Len(k[c])
      PROVE  k[c][p] \in Live
  BY <1>0, <1>3, ListOf DEF Forward
<1>5. ASSUME NEW i \in R PROVE {heap[i].next, heap[i].prev, heap[i].child} \subseteq Live \cup {NoItem}
  <2>1. heap[i].next \in Live \cup {NoItem} /\ heap[i].prev \in Live \cup {NoItem}
    <3>1. CASE \A c \in Item : ~In(i, k[c])
      BY <1>0, <3>1 DEF Loose
    <3>2. ASSUME NEW c \in Item, NEW p \in 1 .. Len(k[c]), k[c][p] = i
          PROVE  heap[i].next \in Live \cup {NoItem} /\ heap[i].prev \in Live \cup {NoItem}
      <4>1. heap[i].next = After(k[c], p) /\ heap[i].prev = Before(k[c], p) /\ Len(k[c]) \in Nat
        BY <1>0, <3>2, ListOf DEF Forward, Backward
      <4>2. p # Len(k[c]) => p + 1 \in 1 .. Len(k[c])
        BY ONLY Len(k[c]) \in Nat, <4>1, p \in 1 .. Len(k[c])
      <4>3. (IF p = 1 THEN Len(k[c]) ELSE p - 1) \in 1 .. Len(k[c])
        BY ONLY Len(k[c]) \in Nat, <4>1, p \in 1 .. Len(k[c])
      <4> QED BY <1>4, <4>1, <4>2, <4>3 DEF After, Before
    <3> QED BY <3>1, <3>2 DEF In
  <2>2. heap[i].child \in Live \cup {NoItem}
    <3>1. CASE heap[i].ref
      <4>1. CASE heap[i].child = NoItem
        BY <4>1
      <4>2. CASE heap[i].child # NoItem
        <5>1. PICK d \in Item : k[d] # <<>> /\ heap[i].child = k[d][1]
          BY <1>0, <3>1, <4>2 DEF Shows, R
        <5>2. 1 \in 1 .. Len(k[d])
          BY <1>0, <5>1, ListOf
        <5> QED BY <1>4, <5>1, <5>2
      <4> QED BY <4>1, <4>2
    <3>2. CASE ~heap[i].ref
      <4>1. heap[i].child = FirstOf(k[i]) /\ i \in Item
        BY <1>0, <3>2 DEF Forward
      <4>2. k[i] # <<>> => 1 \in 1 .. Len(k[i])
        BY <1>0, <4>1, ListOf
      <4> QED BY <1>4, <4>1, <4>2 DEF FirstOf
    <3> QED BY <3>1, <3>2
  <2> QED BY <2>1, <2>2
<1> QED BY <1>0, <1>1, <1>2, <1>5 DEF ListsAreLinked

\* Every item has one owner when the memory is sound.
LEMMA OwnedBySound ==
  ASSUME IInv
  PROVE  OneOwner
<1> DEFINE k == Owned(heap)
           R == Reached(Sub(k), held)
           Owners(i) == {c \in Live : ~heap[c].ref /\ i \in ToSet(Kids(heap, c))}
<1>0. /\ Sound(heap, k, held) /\ Attached = R /\ R \subseteq Item /\ held \in SUBSET Item
      /\ k \in Lists /\ Forward(heap, k) /\ Names(heap) /\ Sub(k) \in Graph /\ OneParent(Sub(k))
      /\ Rooted(heap, k, held)
      /\ \A c \in Item : \A i : i \in Sub(k)[c] <=> In(i, k[c])
  BY CallFacts, SoundFacts DEF Sound, Shape
<1>1. ASSUME NEW i
      PROVE  \A c : c \in Owners(i) <=> c \in Item /\ In(i, k[c])
  <2>1. ASSUME NEW c \in Item, ~heap[c].ref PROVE i \in ToSet(Kids(heap, c)) <=> In(i, k[c])
    <3>1. Kids(heap, c) = k[c] /\ k[c] \in Seq(Item)
      BY <1>0, <2>1, KidsOwned
    <3> QED BY <3>1, ToSetIn
  <2>2. ASSUME NEW c \in Item, In(i, k[c]) PROVE ~heap[c].ref /\ c \in Live
    <3>1. k[c] # <<>>
      BY <2>2 DEF In
    <3> QED BY <1>0, <3>1 DEF Forward, Live
  <2> HIDE DEF k
  <2> QED BY <2>1, <2>2 DEF Live
<1> HIDE DEF Owners, k, R
<1>2. ASSUME NEW i \in R PROVE Cardinality(Owners(i)) = IF i \in held THEN 0 ELSE 1
  <2>1. CASE i \in held
    <3>1. Owners(i) = {}
      BY <1>0, <1>1, <2>1 DEF Rooted, Unlisted
    <3> QED BY <2>1, <3>1, FS_EmptySet
  <2>2. CASE i \notin held
    <3>1. PICK j \in R : i \in Sub(k)[j]
      BY <1>0, <2>2, ReachedFrom DEF R
    <3>2. \A c : c \in Owners(i) <=> c = j
      BY <1>0, <1>1, <3>1 DEF OneParent
    <3>3. Owners(i) = {j}
      BY <3>2
    <3> QED BY <2>2, <3>3, FS_Singleton
  <2> QED BY <2>1, <2>2
<1>3. \A i \in Live \ R : heap[i].ref /\ heap[i].name = NoName
  BY <1>0 DEF Rooted, Live, R
<1>4. \A i \in Live : heap[i].copied = (heap[i].name # NoName /\ ~heap[i].constant)
  BY <1>0 DEF Names, Live
<1>5. \A i \in Attached :
       Cardinality({c \in Live : ~heap[c].ref /\ i \in ToSet(Kids(heap, c))}) =
         IF i \in held THEN 0 ELSE 1
  BY <1>0, <1>2 DEF Owners
<1> QED BY <1>0, <1>3, <1>4, <1>5 DEF OneOwner
----------------------------------------------------------------------------
\* An insertion acts where the index says.
LEMMA InsertMeant ==
  ASSUME IInv, NEW k, k = Owned(heap), NEW c, MayChange(c), NEW i \in held, MayContain(c, i),
         NEW p \in 1 .. Len(k[c]) + 2
  PROVE  Kids(InsertItemInArray(heap, c, p, i), c) = InsertAt(k[c], IF p > Len(k[c]) THEN Len(k[c]) + 1 ELSE p, i)
<1> DEFINE s == k[c]
           h == heap
           v == held
           R == Reached(Sub(k), v)
           g == InsertItemInArray(h, c, p, i)
<1>0. /\ Sound(h, k, v) /\ c \in R /\ c \in Item /\ ~h[c].ref /\ i \in Item /\ Unseen(h, k, v, c)
      /\ c \notin Reached(Sub(k), {i}) /\ k \in Lists /\ i \in v /\ Kids(h, c) = k[c] /\ s \in Seq(Item)
  <2>1. Sound(heap, k, held) /\ R \subseteq Item /\ held \subseteq R
    BY CallFacts
  <2>2. i \in Item
    BY <2>1
  <2>3. c \in R /\ ~heap[c].ref /\ c \notin Reached(Sub(k), {i}) /\ Unseen(heap, k, held, c)
    BY <2>2, MayContainMeans, MayChangeMeans
  <2> QED BY <2>1, <2>2, <2>3, KidsOwned, SoundFacts
<1>1. DOMAIN s = 1 .. Len(s) /\ Len(s) \in Nat
  BY <1>0
<1> HIDE DEF h, v
<1>2. CASE p > Len(s)
  <2>1. GetArrayItem(h, c, p) = NoItem
    BY <1>0, <1>1, <1>2 DEF GetArrayItem
  <2>2. g = AddItemToArray(h, c, i)
    BY <2>1 DEF InsertItemInArray
  <2> DEFINE n == Edit(k, c, Append(k[c], i))
  <2>3. n = Edit(k, c, Append(k[c], i)) /\ n[c] = Append(s, i)
    BY <1>0 DEF Edit, Lists
  <2> HIDE DEF n, g
  <2>4. Sound(g, n, v \ {i}) /\ Kept(g, h, c)
    BY <1>0, <2>2, <2>3, SoundAdded
  <2>5. Kids(g, c) = n[c]
    BY <1>0, <2>4, KidsOwned DEF Kept, SameItem
  <2>6. Append(s, i) = InsertAt(s, Len(s) + 1, i)
    BY <1>0, AppendIs
  <2> QED BY <1>2, <2>3, <2>5, <2>6 DEF g, h
<1>3. CASE ~(p > Len(s))
  <2>1. p \in 1 .. Len(k[c])
    BY <1>1, <1>3
  <2>2. GetArrayItem(h, c, p) = k[c][p]
    BY <1>0, <1>1, <2>1 DEF GetArrayItem
  <2> DEFINE n == Edit(k, c, InsertAt(k[c], p, i))
  <2>3. n = Edit(k, c, InsertAt(k[c], p, i)) /\ n[c] = InsertAt(s, p, i)
    BY <1>0 DEF Edit, Lists
  <2> HIDE DEF n
  <2>4. Sound(g, n, v \ {i}) /\ Kept(g, h, c)
    BY <1>0, <2>1, <2>2, <2>3, SoundInserted
  <2> HIDE DEF g
  <2>5. Kids(g, c) = n[c]
    BY <1>0, <2>4, KidsOwned DEF Kept, SameItem
  <2> QED BY <1>3, <2>3, <2>5 DEF g, h
<1> QED BY <1>2, <1>3

\* So does a replacement.
LEMMA ReplaceMeant ==
  ASSUME IInv, NEW k, k = Owned(heap), NEW c, MayChange(c), NEW i \in held, MayContain(c, i),
         NEW p \in 1 .. Len(k[c]), MayFree(k[c][p])
  PROVE  Kids(ReplaceItemViaPointer(heap, c, k[c][p], i), c) = ReplaceAt(k[c], p, i)
<1> DEFINE s == k[c]
           h == heap
           v == held
           old == k[c][p]
           D == Reached(Sub(k), {old})
           n == Cleared(Edit(k, c, ReplaceAt(k[c], p, i)), D)
           f == ReplaceItemViaPointer(h, c, old, i)
<1>0. /\ Sound(h, k, v) /\ c \in Reached(Sub(k), v) /\ c \in Item /\ ~h[c].ref /\ i \in Item /\ Unseen(h, k, v, c)
      /\ c \notin Reached(Sub(k), {i}) /\ k \in Lists /\ i \in v /\ s \in Seq(Item) /\ OwnUse(h, k, v, D)
  <2>1. Sound(heap, k, held) /\ Reached(Sub(k), held) \subseteq Item /\ held \subseteq Reached(Sub(k), held)
    BY CallFacts
  <2>2. i \in Item
    BY <2>1
  <2>3. /\ c \in Reached(Sub(k), held) /\ ~heap[c].ref /\ c \notin Reached(Sub(k), {i})
        /\ Unseen(heap, k, held, c)
    BY <2>2, MayContainMeans, MayChangeMeans
  <2>4. OwnUse(heap, k, held, Reached(Sub(k), {old}))
    BY MayFreeMeans
  <2> QED BY <2>1, <2>2, <2>3, <2>4, KidsOwned, SoundFacts
<1>1. p \in 1 .. Len(k[c]) /\ old = k[c][p] /\ D = Reached(Sub(k), {old}) /\ n = Cleared(Edit(k, c, ReplaceAt(k[c], p, i)), D)
  OBVIOUS
<1> HIDE DEF h, v, D, n, old
<1>2. Replaced(f, h, n, v, c, i, D)
  BY <1>0, <1>1, SoundReplaced
<1> HIDE DEF f
<1>3. Sound(f, n, v \ {i}) /\ c \notin D
  BY <1>2 DEF Replaced
<1>4. n[c] = ReplaceAt(s, p, i)
  BY <1>0, <1>1, <1>3 DEF Cleared, Edit, Lists
<1>5. n[c] # <<>>
  <2>1. Len(ReplaceAt(s, p, i)) = Len(s) /\ Len(s) \in Nat /\ Len(s) # 0
    BY <1>0, <1>1, ReplaceAtIs
  <2> QED BY <1>4, <2>1
<1>6. ~f[c].ref
  BY <1>0, <1>3, <1>5 DEF Sound, Shape, Forward
<1>7. Kids(f, c) = n[c]
  BY <1>0, <1>3, <1>6, KidsOwned
<1> QED BY <1>4, <1>7 DEF f, h, old

\* And a removal.
LEMMA DetachMeant ==
  ASSUME IInv, NEW k, k = Owned(heap), NEW c, MayChange(c), NEW p \in 1 .. Len(k[c])
  PROVE  Kids(DetachItemViaPointer(heap, c, k[c][p]), c) = RemoveAt(k[c], p)
<1> DEFINE h == heap
           v == held
           i == k[c][p]
           n == Edit(k, c, RemoveAt(k[c], p))
           g == DetachItemViaPointer(h, c, i)
<1>0. /\ Sound(h, k, v) /\ c \in Reached(Sub(k), v) /\ c \in Item /\ ~h[c].ref /\ Unseen(h, k, v, c) /\ k \in Lists
  <2>1. Sound(heap, k, held) /\ Reached(Sub(k), held) \subseteq Item
    BY CallFacts
  <2> QED BY <2>1, MayChangeMeans, SoundFacts
<1>1. p \in 1 .. Len(k[c]) /\ i = k[c][p] /\ n = Edit(k, c, RemoveAt(k[c], p))
  OBVIOUS
<1>2. n[c] = RemoveAt(k[c], p)
  BY <1>0 DEF Edit, Lists
<1> HIDE DEF h, v, n, i
<1>3. Detached(g, h, n, k, v, c, i)
  BY <1>0, <1>1, SoundDetached
<1> HIDE DEF g
<1>4. Kids(g, c) = n[c]
  BY <1>0, <1>3, KidsOwned DEF Detached, Kept, SameItem
<1> QED BY <1>2, <1>4 DEF g, h, i

\* An index means its place when the memory is sound.
LEMMA MeantBySound ==
  ASSUME IInv
  PROVE  IndexIsMeant
<1> SUFFICES ASSUME NEW c \in Attached, MayChange(c), NEW i \in held, MayContain(c, i)
             PROVE  LET s == Kids(heap, c)
                    IN  /\ \A p \in 1 .. Len(s) + 2 :
                             Kids(InsertItemInArray(heap, c, p, i), c) =
                               InsertAt(s, IF p > Len(s) THEN Len(s) + 1 ELSE p, i)
                        /\ \A p \in DOMAIN s : MayFree(s[p]) =>
                             Kids(ReplaceItemViaPointer(heap, c, s[p], i), c) = ReplaceAt(s, p, i)
                        /\ \A p \in DOMAIN s :
                             Kids(DetachItemViaPointer(heap, c, s[p]), c) = RemoveAt(s, p)
  BY DEF IndexIsMeant
<1> DEFINE k == Owned(heap)
<1>1. Kids(heap, c) = k[c] /\ k[c] \in Seq(Item) /\ k = Owned(heap)
  BY CallFacts, KidsOwned DEF MayChange
<1>2. DOMAIN k[c] = 1 .. Len(k[c])
  BY <1>1
<1> HIDE DEF k
<1> QED BY <1>1, <1>2, InsertMeant, ReplaceMeant, DetachMeant

(***************************************************************************)
(* prev and next agree in every list of cJSON, whatever was called before, *)
(* and no pointer of an item that can be reached leads to freed memory.    *)
(***************************************************************************)
THEOREM ListsStayLinked == Spec => []ListsAreLinked
BY SoundAlways, LinkedBySound, PTL

(***************************************************************************)
(* An item has one owner, the caller or a container, so it is freed once;  *)
(* a key is freed if it is cJSON's own.                                    *)
(***************************************************************************)
THEOREM ItemsHaveOneOwner == Spec => []OneOwner
BY SoundAlways, OwnedBySound, PTL

(***************************************************************************)
(* cJSON_InsertItemInArray, cJSON_ReplaceItemViaPointer and                *)
(* cJSON_DetachItemViaPointer act where the index says, whatever was       *)
(* called before.                                                          *)
(***************************************************************************)
THEOREM IndexStaysMeant == Spec => []IndexIsMeant
BY SoundAlways, MeantBySound, PTL

-----------------------------------------------------------------------------
(***************************************************************************)
(* Copies are equal.                                                       *)
(***************************************************************************)

\* The pairs one level below the pairs x.
Deeper(g, h, x) ==
  UNION {{<<Kids(g, e[1])[p], Kids(h, e[2])[p]>> :
            p \in DOMAIN Kids(g, e[1]) \cap DOMAIN Kids(h, e[2])} : e \in x}

\* SamePlace has the value that its definition says.
LEMMA SamePlaceIs ==
  ASSUME NEW g \in Memory, NEW i \in Item, NEW h \in Memory, NEW j \in Item
  PROVE  /\ SamePlace(g, i, h, j)[0] = {<<i, j>>}
         /\ \A n \in Nat : SamePlace(g, i, h, j)[n + 1] = Deeper(g, h, SamePlace(g, i, h, j)[n])
<1> DEFINE S == SUBSET (Item \X Item)
           a == {<<i, j>>}
           F == [x \in S \X Nat |-> Deeper(g, h, x[1])]
           pairs == SamePlace(g, i, h, j)
<1>1. ASSUME NEW x \in S PROVE Deeper(g, h, x) \in S
  <2>1. ASSUME NEW e \in x, NEW p \in DOMAIN Kids(g, e[1]) \cap DOMAIN Kids(h, e[2])
        PROVE  <<Kids(g, e[1])[p], Kids(h, e[2])[p]>> \in Item \X Item
    <3>1. e[1] \in Item /\ e[2] \in Item
      OBVIOUS
    <3>2. Kids(g, e[1]) \in Seq(Item) /\ Kids(h, e[2]) \in Seq(Item)
      BY <3>1, KidsType
    <3>3. p \in 1 .. Len(Kids(g, e[1])) /\ p \in 1 .. Len(Kids(h, e[2]))
      BY <3>2
    <3> QED BY <3>2, <3>3, ElementOfSeq
  <2> QED BY <2>1 DEF Deeper
<1>2. F \in [S \X Nat -> S] /\ a \in S
  <2>1. a \in S
    OBVIOUS
  <2>2. \A x \in S \X Nat : x[1] \in S
    OBVIOUS
  <2>3. \A x \in S \X Nat : Deeper(g, h, x[1]) \in S
    <3> HIDE DEF S
    <3> QED BY <1>1, <2>2
  <2> HIDE DEF S
  <2> QED BY <2>1, <2>3
<1>3. PICK f \in [Nat -> S] : Iterates(f, a, F)
  <2> HIDE DEF S, F, a
  <2> QED BY <1>2, Recursion
<1>4. f[0] = a /\ \A n \in Nat : f[n + 1] = Deeper(g, h, f[n])
  <2>1. f[0] = a /\ \A n \in Nat : f[n + 1] = F[<<f[n], n + 1>>]
    BY <1>3 DEF Iterates
  <2>2. ASSUME NEW n \in Nat PROVE F[<<f[n], n + 1>>] = Deeper(g, h, f[n])
    <3> DEFINE x == f[n]
               N == n + 1
    <3>1. x \in S /\ N \in Nat
      <4> HIDE DEF S
      <4> QED OBVIOUS
    <3> HIDE DEF x, N, S
    <3>2. F[<<x, N>>] = Deeper(g, h, x)
      BY <3>1
    <3> QED BY <3>2 DEF x, N
  <2> HIDE DEF F, a
  <2> QED BY <2>1, <2>2
<1>5. ASSUME NEW n \in Nat PROVE f[n] = IF n = 0 THEN a ELSE Deeper(g, h, f[n - 1])
  <2>1. CASE n = 0
    BY <1>4, <2>1
  <2>2. CASE n # 0
    <3>1. n - 1 \in Nat /\ (n - 1) + 1 = n
      BY <2>2
    <3>2. f[(n - 1) + 1] = Deeper(g, h, f[n - 1])
      BY <1>4, <3>1
    <3> QED BY <2>2, <3>1, <3>2
  <2> QED BY <2>1, <2>2
<1>6. f = [n \in Nat |-> IF n = 0 THEN a ELSE Deeper(g, h, f[n - 1])]
  <2>1. f = [n \in Nat |-> f[n]]
    OBVIOUS
  <2> HIDE DEF a
  <2> QED BY <2>1, <1>5
<1> DEFINE C == CHOOSE q : q = [n \in Nat |-> IF n = 0 THEN a ELSE Deeper(g, h, q[n - 1])]
<1>7. pairs = C
  BY Zenon DEF SamePlace, Deeper
<1>8. C = [n \in Nat |-> IF n = 0 THEN a ELSE Deeper(g, h, C[n - 1])]
  <2> HIDE DEF a
  <2> QED BY <1>6
<1> HIDE DEF C, pairs, a
<1>9. pairs = [n \in Nat |-> IF n = 0 THEN a ELSE Deeper(g, h, pairs[n - 1])]
  BY <1>7, <1>8
<1>10. \A n \in Nat : n + 1 \in Nat /\ n + 1 # 0 /\ (n + 1) - 1 = n
  OBVIOUS
<1>11. \A n \in Nat : pairs[n] = IF n = 0 THEN a ELSE Deeper(g, h, pairs[n - 1])
  BY <1>9
<1>12. pairs[0] = a /\ \A n \in Nat : pairs[n + 1] = Deeper(g, h, pairs[n])
  BY <1>10, <1>11
<1> QED BY <1>12 DEF pairs, a

\* The pairs of a copy and what it is a copy of are closed under going down: the
\* copy and the original are alike.
LEMMA PartAlike ==
  ASSUME NEW h, NEW k, NEW v, NEW R, NEW i, NEW s, Source(h, k, v, R, i, s),
         NEW m, m.ok, Copying(h, k, R, i, s, m, Len(s))
  PROVE  Alike(m.h, s[1], h, i)
<1> DEFINE g == m.h
           of == m.of
           l == Len(of)
           P == {<<s[x], of[x]>> : x \in 1 .. l}
           same == SamePlace(g, s[1], h, i)
<1>0. /\ h \in Memory /\ R \subseteq Item /\ s \in Seq(Item) /\ Len(s) \in Nat
      /\ \A j \in R : h[j].type # "free"
  BY SoundFacts DEF Source
<1>1. g \in Memory /\ of \in Seq(R) /\ l \in 1 .. Len(s) /\ of[1] = i
  BY DEF Copying
<1>2. PICK K : Part(h, k, s, of, g, K, Len(s))
  BY DEF Copying
<1> HIDE DEF g, of
<1>3. /\ Shape(g, K) /\ NewTree(h, k, g, K, {s[p] : p \in 1 .. l}, s[1])
      /\ \A p \in 1 .. l : SameItem(g[s[p]], CopyOf(h, of[p]))
      /\ \A p \in 1 .. l : p <= Len(s) => Pairs(s, of, K[s[p]], Kids(h, of[p]))
  BY <1>2 DEF Part
<1>4. Owned(g) = K
  BY <1>3, OwnedAre DEF Shape
<1>5. ASSUME NEW x \in 1 .. l
      PROVE  /\ s[x] \in Item /\ of[x] \in R /\ Kids(g, s[x]) = K[s[x]] /\ K[s[x]] \in Seq(Item)
             /\ Pairs(s, of, Kids(g, s[x]), Kids(h, of[x]))
             /\ g[s[x]].type = h[of[x]].type /\ g[s[x]].name = h[of[x]].name
  <2>1. x \in 1 .. Len(s) /\ x <= Len(s)
    BY <1>0, <1>1
  <2>2. s[x] \in Item /\ of[x] \in R
    BY <1>0, <1>1, <2>1, ElementOfSeq
  <2>3. ~g[s[x]].ref
    BY <1>3 DEF NewTree
  <2>4. Kids(g, s[x]) = K[s[x]]
    BY <1>4, <2>2, <2>3 DEF Owned
  <2>5. Kids(g, s[x]) \in Seq(Item)
    BY <1>1, <2>2, KidsType
  <2>6. Copies(CopyOf(h, of[x]), h[of[x]])
    BY <1>0, <2>2, CopyIs
  <2> QED BY <1>3, <2>1, <2>2, <2>4, <2>5, <2>6 DEF SameItem, Copies
<1>6. 1 \in 1 .. l /\ s[1] \in Item /\ i \in Item
  <2>1. 1 \in 1 .. l
    BY <1>0, <1>1
  <2> QED BY <1>0, <1>1, <1>5, <2>1
<1>7. ASSUME NEW x \in 1 .. l, NEW p \in DOMAIN Kids(g, s[x]) \cap DOMAIN Kids(h, of[x])
      PROVE  <<Kids(g, s[x])[p], Kids(h, of[x])[p]>> \in P
  <2>1. p \in 1 .. Len(Kids(g, s[x]))
    BY <1>5, <1>7
  <2>2. PICK y \in 1 .. Len(of) : Kids(g, s[x])[p] = s[y] /\ Kids(h, of[x])[p] = of[y]
    BY <1>5, <2>1 DEF Pairs
  <2> QED BY <2>2
<1>8. Deeper(g, h, P) \subseteq P
  <2> SUFFICES ASSUME NEW e \in P, NEW p \in DOMAIN Kids(g, e[1]) \cap DOMAIN Kids(h, e[2])
               PROVE  <<Kids(g, e[1])[p], Kids(h, e[2])[p]>> \in P
    <3> HIDE DEF P
    <3> QED BY DEF Deeper
  <2>1. PICK x \in 1 .. l : e = <<s[x], of[x]>>
    OBVIOUS
  <2>2. e[1] = s[x] /\ e[2] = of[x]
    BY <2>1
  <2> HIDE DEF P
  <2> QED BY <1>7, <2>2
<1>9. same[0] = {<<s[1], i>>} /\ \A n \in Nat : same[n + 1] = Deeper(g, h, same[n])
  <2> DEFINE a == s[1]
  <2>1. g \in Memory /\ h \in Memory /\ a \in Item /\ i \in Item /\ same = SamePlace(g, a, h, i)
    BY <1>0, <1>1, <1>6
  <2> HIDE DEF a, same
  <2>2. same[0] = {<<a, i>>} /\ \A n \in Nat : same[n + 1] = Deeper(g, h, same[n])
    BY <2>1, SamePlaceIs
  <2> QED BY <2>2 DEF a
<1>10. <<s[1], i>> \in P
  BY <1>1, <1>6
<1>11. \A e \in P : /\ g[e[1]].type = h[e[2]].type /\ g[e[1]].name = h[e[2]].name
                    /\ Len(Kids(g, e[1])) = Len(Kids(h, e[2]))
  <2> SUFFICES ASSUME NEW e \in P
               PROVE  /\ g[e[1]].type = h[e[2]].type /\ g[e[1]].name = h[e[2]].name
                      /\ Len(Kids(g, e[1])) = Len(Kids(h, e[2]))
    OBVIOUS
  <2>1. PICK x \in 1 .. l : e = <<s[x], of[x]>>
    OBVIOUS
  <2>2. e[1] = s[x] /\ e[2] = of[x]
    BY <2>1
  <2> HIDE DEF P
  <2> QED BY <1>5, <2>2 DEF Pairs
<1> HIDE DEF P, same
<1> DEFINE T == {n \in Nat : same[n] \subseteq P}
<1>12. 0 \in T
  BY <1>9, <1>10
<1>13. ASSUME NEW n \in Nat, n \in T PROVE n + 1 \in T
  <2>1. Deeper(g, h, same[n]) \subseteq Deeper(g, h, P)
    <3>1. same[n] \subseteq P
      BY <1>13
    <3> QED BY <3>1 DEF Deeper
  <2>2. same[n + 1] = Deeper(g, h, same[n]) /\ n + 1 \in Nat
    BY <1>9
  <2>3. same[n + 1] \subseteq P
    BY <1>8, <2>1, <2>2
  <2> QED BY <2>2, <2>3
<1>14. Nat \subseteq T
  <2> HIDE DEF T
  <2> QED BY <1>12, <1>13, Induction
<1>15. \A n \in 0 .. Cardinality(Item) : same[n] \subseteq P
  <2>1. \A n \in 0 .. Cardinality(Item) : n \in Nat
    BY ItemAssumption, FS_CardinalityType
  <2> QED BY <1>14, <2>1
<1> QED BY <1>11, <1>15 DEF Alike, same, g

\* A duplicate is equal when the memory is sound.
LEMMA EqualBySound ==
  ASSUME IInv
  PROVE  DuplicateIsEqual
<1> DEFINE s == SetToSeq(Unused)
           k == Owned(heap)
           R == Reached(Sub(k), held)
<1> SUFFICES ASSUME NEW i \in Attached, Copy(heap, i, TRUE, s).ok
             PROVE  Alike(Copy(heap, i, TRUE, s).h, s[1], heap, i)
  BY DEF DuplicateIsEqual
<1>1. s # <<>>
  <2>1. Copy(heap, i, TRUE, <<>>) = [h |-> heap, of |-> <<>>, ok |-> FALSE]
    BY NothingCopied
  <2>2. [h |-> heap, of |-> <<>>, ok |-> FALSE].ok = FALSE
    OBVIOUS
  <2> HIDE DEF s
  <2> QED BY <2>1, <2>2
<1>2. Fresh(s)
  BY SetToSeqIs DEF Fresh, Unused
<1> HIDE DEF s
<1>3. Source(heap, k, held, R, i, s)
  <2>1. s \in Seq(Item) /\ Distinct(s) /\ \A p \in 1 .. Len(s) : heap[s[p]].type = "free"
    BY <1>2, FreshItems
  <2> QED BY <1>1, <2>1, CallFacts DEF Source
<1> DEFINE m == Copy(heap, i, TRUE, s)
<1>4. m = CopyAll(heap, i, s)[Len(s)]
  BY <1>1, CopyMeans
<1>5. Len(s) \in Nat
  BY <1>2 DEF Fresh
<1>6. m.ok
  OBVIOUS
<1> HIDE DEF m
<1>7. Copying(heap, k, R, i, s, m, Len(s))
  BY <1>3, <1>4, <1>5, CopiedAll
<1>8. Alike(m.h, s[1], heap, i)
  BY <1>3, <1>6, <1>7, PartAlike
<1> QED BY <1>8 DEF m

(***************************************************************************)
(* What cJSON_Duplicate gives looks like its original at every depth, with *)
(* the references that it contains resolved.                               *)
(***************************************************************************)
THEOREM CopiesAreEqual == Spec => []DuplicateIsEqual
BY SoundAlways, EqualBySound, PTL
=============================================================================
