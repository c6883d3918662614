------------------------ MODULE CommandPipe_proofs ------------------------
(***************************************************************************)
(* Proofs about CommandPipe, for any clients, commands and pipes.          *)
(***************************************************************************)
EXTENDS CommandPipe, SequenceTheorems, TLAPS

USE BodyLenAssumption, CapacityAssumption

\* The words of client c's command follow place i of the pipe s.
Follows(s, c, i) ==
  /\ i + BodyLen =< Len(s)
  /\ \A j \in 1..BodyLen : s[i + j] = [from |-> c, part |-> j]
  /\ i + CmdLen =< Len(s) => s[i + CmdLen].part = 0

\* Every head in s is followed by its body, and that by a head.
Whole(s) ==
  \A i \in 1..Len(s) : s[i].part = 0 => Follows(s, s[i].from, i)

(***************************************************************************)
(* The inductive invariant: as long as no command has been split, the      *)
(* clients have written all or nothing, and the pipe holds whole commands  *)
(* from the place on where the plugin thread is.                           *)
(***************************************************************************)
Ordered ==
  /\ \A c \in Client : written[c] \in {0, CmdLen}
  /\ Whole(pipe)
  /\ server \in {"head", "parse"} /\ pipe # << >> => pipe[1].part = 0
  /\ server = "body" => Follows(pipe, cmd_data[0].from, 0)
  /\ server = "parse" => Intact

\* Past the head, cmd_data holds one.
HeadRead == server # "head" => cmd_data[0] \in Word

IInv == TypeOK /\ HeadRead /\ (~mixed => Ordered)

\* The program starts in the invariant.
LEMMA InitIInv == Init => IInv
<1> SUFFICES ASSUME Init PROVE IInv
  OBVIOUS
<1>1. << >> \in Seq(Word) /\ << >> \in Seq(Client)
  OBVIOUS
<1>2. TypeOK
  BY <1>1 DEF Init, TypeOK, CmdLen
<1>3. Ordered
  BY DEF Init, Ordered, Whole
<1> QED
  BY <1>2, <1>3 DEF IInv, HeadRead, Init

\* The words that a write puts into the pipe.
LEMMA WordsType ==
  ASSUME NEW c \in Client, NEW from \in 0..BodyLen, NEW n \in Nat,
         from + n =< CmdLen
  PROVE  /\ Words(c, from, n) \in Seq(Word)
         /\ Len(Words(c, from, n)) = n
         /\ \A i \in 1..n : Words(c, from, n)[i]
                              = [from |-> c, part |-> from + i - 1]
<1>1. \A i \in 1..n : [from |-> c, part |-> from + i - 1] \in Word
  BY DEF Word, CmdLen
<1> QED
  BY <1>1 DEF Words

\* A whole command goes behind whole commands.
LEMMA WholeAppend ==
  ASSUME NEW s \in Seq(Word), NEW t \in Seq(Word), NEW c \in Client,
         Len(t) = CmdLen,
         \A i \in 1..CmdLen : t[i] = [from |-> c, part |-> i - 1]
  PROVE  /\ Whole(s) => Whole(s \o t)
         /\ \A d \in Client : Follows(s, d, 0) => Follows(s \o t, d, 0)
         /\ s \o t # << >>
         /\ s # << >> => (s \o t)[1] = s[1]
         /\ s = << >> => (s \o t)[1].part = 0
<1> DEFINE u == s \o t
<1>1. BodyLen \in Nat /\ BodyLen >= 1 /\ CmdLen = BodyLen + 1
  BY DEF CmdLen
<1>2. Len(s) \in Nat /\ Len(t) \in Nat
  OBVIOUS
<1>3. /\ u \in Seq(Word)
      /\ Len(u) = Len(s) + CmdLen
      /\ \A i \in 1..Len(s) : u[i] = s[i]
  <2>1. u \in Seq(Word)
    OBVIOUS
  <2>2. Len(u) = Len(s) + Len(t)
    BY ConcatProperties
  <2>3. \A i \in 1..Len(s) : u[i] = s[i]
    BY <1>2
  <2> QED
    BY <2>1, <2>2, <2>3
<1>4. \A i \in 1..CmdLen : u[Len(s) + i] = [from |-> c, part |-> i - 1]
  <2>1. \A i \in 1..Len(t) : u[Len(s) + i] = t[i]
    BY <1>2
  <2> QED
    BY <2>1
<1> HIDE DEF u
<1>5. u[Len(s) + 1] = [from |-> c, part |-> 0]
  <2>1. 1 \in 1..CmdLen
    BY <1>1
  <2>2. u[Len(s) + 1] = [from |-> c, part |-> 1 - 1]
    BY <1>4, <2>1
  <2> QED
    BY <2>2
<1>6. ASSUME NEW d \in Client, NEW i \in 0..Len(s), Follows(s, d, i)
      PROVE  Follows(u, d, i)
  <2>1. i + BodyLen =< Len(s) /\ i \in Nat
    BY <1>2, <1>6 DEF Follows
  <2>2. i + BodyLen =< Len(u)
    BY <1>1, <1>2, <1>3, <2>1
  <2>3. ASSUME NEW j \in 1..BodyLen
        PROVE  u[i + j] = [from |-> d, part |-> j]
    <3>1. i + j \in 1..Len(s)
      BY <1>1, <1>2, <2>1
    <3>2. u[i + j] = s[i + j]
      BY <1>3, <3>1
    <3> QED
      BY <1>6, <3>2 DEF Follows
  <2>4. ASSUME i + CmdLen =< Len(u) PROVE u[i + CmdLen].part = 0
    <3>1. CASE i + CmdLen =< Len(s)
      <4>1. u[i + CmdLen] = s[i + CmdLen]
        BY <1>1, <1>2, <1>3, <2>1, <3>1
      <4> QED
        BY <1>6, <3>1, <4>1 DEF Follows
    <3>2. CASE ~(i + CmdLen =< Len(s))
      <4>1. i + CmdLen = Len(s) + 1
        BY ONLY <1>1, <1>2, <2>1, <3>2
      <4> QED
        BY <1>5, <4>1
    <3> QED
      BY <3>1, <3>2
  <2> QED
    BY <2>2, <2>3, <2>4 DEF Follows
<1>7. ASSUME Whole(s), NEW i \in 1..Len(u), u[i].part = 0
      PROVE  Follows(u, u[i].from, i)
  <2>1. CASE i \in 1..Len(s)
    <3>1. u[i] = s[i] /\ s[i] \in Word
      BY <1>3, <2>1
    <3>2. s[i].from \in Client
      BY <3>1 DEF Word
    <3>3. Follows(s, s[i].from, i)
      BY <1>7, <2>1, <3>1 DEF Whole
    <3>4. i \in 0..Len(s)
      BY <2>1, <1>2
    <3> QED
      BY <1>6, <3>1, <3>2, <3>3, <3>4
  <2>2. CASE i \notin 1..Len(s)
    <3> DEFINE k == i - Len(s)
    <3>1. k \in 1..CmdLen /\ i = Len(s) + k
      BY <1>1, <1>2, <1>3, <2>2
    <3>2. u[i] = [from |-> c, part |-> k - 1]
      BY <1>4, <3>1
    <3>3. i = Len(s) + 1 /\ u[i].from = c
      <4>1. u[i].part = k - 1 /\ u[i].from = c
        BY <3>2
      <4> QED
        BY <1>2, <1>7, <3>1, <4>1
    <3>4. ASSUME NEW j \in 1..BodyLen
          PROVE  u[i + j] = [from |-> c, part |-> j]
      <4>1. j + 1 \in 1..CmdLen /\ i + j = Len(s) + (j + 1)
        BY <1>1, <1>2, <3>3
      <4>2. u[i + j] = [from |-> c, part |-> (j + 1) - 1]
        BY <1>4, <4>1
      <4>3. (j + 1) - 1 = j
        OBVIOUS
      <4> QED
        BY <4>2, <4>3
    <3>5. i + BodyLen = Len(u) /\ ~(i + CmdLen =< Len(u))
      BY <1>1, <1>2, <1>3, <3>3
    <3>6. Follows(u, c, i)
      <4>1. i + BodyLen =< Len(u)
        BY ONLY <1>1, <1>2, <3>3, <3>5
      <4> QED
        BY <3>4, <3>5, <4>1 DEF Follows
    <3> QED
      BY <3>3, <3>6
  <2> QED
    BY <2>1, <2>2
<1>8. Whole(s) => Whole(u)
  BY <1>7 DEF Whole
<1>9. \A d \in Client : Follows(s, d, 0) => Follows(u, d, 0)
  BY <1>2, <1>6
<1>10. u # << >>
  BY <1>1, <1>2, <1>3
<1>11. s # << >> => u[1] = s[1]
  BY <1>3
<1>12. s = << >> => u[1].part = 0
  BY <1>5
<1> QED
  BY <1>8, <1>9, <1>10, <1>11, <1>12 DEF u

\* Whole commands are left when words are taken from the front.
LEMMA WholeShift ==
  ASSUME NEW s \in Seq(Word), NEW t \in Seq(Word), NEW k \in Nat,
         Len(t) = Len(s) - k,
         \A i \in 1..Len(t) : t[i] = s[i + k]
  PROVE  /\ \A c \in Client, i \in Nat :
              Follows(s, c, i + k) => Follows(t, c, i)
         /\ Whole(s) => Whole(t)
<1>1. BodyLen \in Nat /\ BodyLen >= 1 /\ CmdLen = BodyLen + 1
  BY DEF CmdLen
<1>2. Len(s) \in Nat /\ Len(t) \in Nat
  OBVIOUS
<1>3. ASSUME NEW c \in Client, NEW i \in Nat, Follows(s, c, i + k)
      PROVE  Follows(t, c, i)
  <2>1. (i + k) + BodyLen =< Len(s)
    BY <1>3 DEF Follows
  <2>2. i + BodyLen =< Len(t)
    BY ONLY <1>1, <1>2, <2>1, Len(t) = Len(s) - k, k \in Nat, i \in Nat
  <2>3. ASSUME NEW j \in 1..BodyLen
        PROVE  t[i + j] = [from |-> c, part |-> j]
    <3>1. i + j \in 1..Len(t)
      BY <1>1, <1>2, <2>2
    <3>2. t[i + j] = s[(i + j) + k]
      BY <3>1
    <3>3. (i + j) + k = (i + k) + j
      OBVIOUS
    <3> QED
      BY <1>3, <3>2, <3>3 DEF Follows
  <2>4. ASSUME i + CmdLen =< Len(t) PROVE t[i + CmdLen].part = 0
    <3>1. i + CmdLen \in 1..Len(t)
      BY <1>1, <1>2, <2>4
    <3>2. t[i + CmdLen] = s[(i + CmdLen) + k]
      BY <3>1
    <3>3. /\ (i + CmdLen) + k = (i + k) + CmdLen
          /\ (i + k) + CmdLen =< Len(s)
      BY <1>1, <1>2, <2>4
    <3> QED
      BY <1>3, <3>2, <3>3 DEF Follows
  <2> QED
    BY <2>2, <2>3, <2>4 DEF Follows
<1>4. ASSUME Whole(s), NEW i \in 1..Len(t), t[i].part = 0
      PROVE  Follows(t, t[i].from, i)
  <2>1. i + k \in 1..Len(s) /\ i \in Nat
    BY <1>2
  <2>2. t[i] = s[i + k] /\ t[i] \in Word
    OBVIOUS
  <2>3. t[i].from \in Client
    BY <2>2 DEF Word
  <2>4. Follows(s, t[i].from, i + k)
    BY <1>4, <2>1, <2>2 DEF Whole
  <2> QED
    BY <1>3, <2>1, <2>3, <2>4
<1> QED
  BY <1>3, <1>4 DEF Whole

-----------------------------------------------------------------------------
(***************************************************************************)
(* The steps.                                                              *)
(***************************************************************************)
\* A write and the types.
LEMMA WriteType ==
  ASSUME TypeOK, NEW c \in Client, Write(c)
  PROVE  /\ TypeOK'
         /\ UNCHANGED <<server, cmd_data, parsed>>
         /\ \E n \in 1..CmdLen :
              /\ pipe' = pipe \o Words(c, written[c], n)
              /\ written' = [written EXCEPT ![c] = @ + n]
              /\ n =< CmdLen - written[c]
              /\ Track(n < CmdLen)
<1>1. written[c] \in 0..CmdLen /\ BodyLen \in Nat /\ CmdLen = BodyLen + 1
  BY DEF TypeOK, CmdLen
<1>2. PICK n \in 1..(CmdLen - written[c]) :
        /\ pipe' = pipe \o Words(c, written[c], n)
        /\ written' = [written EXCEPT ![c] = @ + n]
        /\ UNCHANGED <<server, cmd_data, parsed>>
        /\ Track(n < CmdLen)
  BY DEF Write
<1>3. written[c] \in 0..BodyLen /\ n \in Nat /\ written[c] + n =< CmdLen
  BY <1>1
<1>4. pipe' \in Seq(Word)
  BY <1>2, <1>3, WordsType, ConcatProperties DEF TypeOK
<1>5. written' \in [Client -> 0..CmdLen]
  <2>1. written[c] + n \in 0..CmdLen
    BY <1>1, <1>3
  <2> QED
    BY <1>2, <2>1 DEF TypeOK
<1>6. mixed' \in BOOLEAN
  BY <1>2 DEF Track
<1>7. TypeOK'
  BY <1>2, <1>4, <1>5, <1>6 DEF TypeOK
<1>8. n \in 1..CmdLen /\ n =< CmdLen - written[c]
  BY <1>1
<1> QED
  BY <1>2, <1>7, <1>8

\* A write that keeps the pipe unmixed puts a whole command in.
LEMMA WriteOrdered ==
  ASSUME TypeOK, HeadRead, Ordered, NEW c \in Client, Write(c), ~mixed,
         ~mixed'
  PROVE  Ordered'
<1>1. /\ UNCHANGED <<server, cmd_data>>
      /\ \E n \in 1..CmdLen :
           /\ pipe' = pipe \o Words(c, written[c], n)
           /\ written' = [written EXCEPT ![c] = @ + n]
           /\ n =< CmdLen - written[c]
           /\ Track(n < CmdLen)
  BY WriteType
<1>2. PICK n \in 1..CmdLen :
        /\ pipe' = pipe \o Words(c, written[c], n)
        /\ written' = [written EXCEPT ![c] = @ + n]
        /\ n =< CmdLen - written[c]
        /\ Track(n < CmdLen)
  BY <1>1
<1>3. BodyLen \in Nat /\ CmdLen = BodyLen + 1 /\ written[c] \in 0..CmdLen
  BY DEF TypeOK, CmdLen
<1> DEFINE t == Words(c, written[c], n)
<1>4. written[c] \in 0..BodyLen /\ n \in Nat /\ written[c] + n =< CmdLen
  BY <1>2, <1>3
<1>5. /\ t \in Seq(Word)
      /\ Len(t) = n
      /\ \A i \in 1..n : t[i] = [from |-> c, part |-> written[c] + i - 1]
  BY <1>4, WordsType
<1>6. pipe \in Seq(Word)
  BY DEF TypeOK
<1>7. pipe' # << >>
  <2>1. Len(pipe \o t) = Len(pipe) + n
    BY <1>5, <1>6, ConcatProperties
  <2>2. Len(pipe) \in Nat /\ n >= 1
    BY <1>6
  <2>3. pipe' = pipe \o t
    BY <1>2
  <2>4. Len(pipe') # 0
    BY ONLY <1>4, <2>1, <2>2, <2>3
  <2> QED
    BY <2>4
<1>8. n = CmdLen /\ written[c] = 0
  <2>1. ~Quiet'
    BY <1>7 DEF Quiet
  <2>2. ~(n < CmdLen)
    BY <1>2, <2>1 DEF Track
  <2> QED
    BY <1>2, <1>3, <2>2
<1>9. \A i \in 1..CmdLen : t[i] = [from |-> c, part |-> i - 1]
  <2>1. SUFFICES ASSUME NEW i \in 1..CmdLen
                 PROVE  t[i] = [from |-> c, part |-> i - 1]
    OBVIOUS
  <2>2. t[i] = [from |-> c, part |-> 0 + i - 1]
    BY <1>5, <1>8
  <2>3. 0 + i - 1 = i - 1
    OBVIOUS
  <2> QED
    BY <2>2, <2>3
<1>10. Len(t) = CmdLen
  BY <1>5, <1>8
<1> HIDE DEF t
<1>11. /\ Whole(pipe) => Whole(pipe \o t)
       /\ \A d \in Client : Follows(pipe, d, 0) => Follows(pipe \o t, d, 0)
       /\ pipe # << >> => (pipe \o t)[1] = pipe[1]
       /\ pipe = << >> => (pipe \o t)[1].part = 0
  BY <1>5, <1>6, <1>9, <1>10, WholeAppend
<1>12. pipe' = pipe \o t
  BY <1>2 DEF t
<1>13. \A d \in Client : written'[d] \in {0, CmdLen}
  <2>1. written' = [written EXCEPT ![c] = written[c] + n]
    BY <1>2
  <2>2. written[c] + n = CmdLen
    BY <1>3, <1>8
  <2> QED
    BY <2>1, <2>2 DEF Ordered, TypeOK
<1>14. Whole(pipe')
  BY <1>11, <1>12 DEF Ordered
<1>15. server' \in {"head", "parse"} => pipe'[1].part = 0
  BY <1>1, <1>11, <1>12 DEF Ordered
<1>16. server' = "body" => Follows(pipe', cmd_data'[0].from, 0)
  <2>1. SUFFICES ASSUME server' = "body"
                 PROVE  Follows(pipe', cmd_data'[0].from, 0)
    OBVIOUS
  <2>2. cmd_data[0] \in Word /\ Follows(pipe, cmd_data[0].from, 0)
    BY <1>1, <2>1 DEF Ordered, HeadRead
  <2>3. cmd_data[0].from \in Client
    BY <2>2 DEF Word
  <2> QED
    BY <1>1, <1>11, <1>12, <2>2, <2>3
<1>17. server' = "parse" => Intact'
  BY <1>1 DEF Ordered, Intact
<1> QED
  BY <1>13, <1>14, <1>15, <1>16, <1>17 DEF Ordered

\* The steps of the plugin thread and the types.
LEMMA ServerType ==
  TypeOK /\ HeadRead /\ Server => TypeOK' /\ HeadRead'
<1> SUFFICES ASSUME TypeOK, HeadRead, Server PROVE TypeOK' /\ HeadRead'
  OBVIOUS
<1>1. pipe \in Seq(Word) /\ BodyLen \in Nat /\ 0 \in 0..BodyLen
  BY DEF TypeOK
<1>2. mixed' \in BOOLEAN
  BY DEF Server, ReadHead, ReadBody, Parse, Track
<1>3. CASE ReadHead
  <2>1. Head(pipe) \in Word /\ Tail(pipe) \in Seq(Word)
    BY <1>1, <1>3, HeadTailProperties DEF ReadHead
  <2>2. cmd_data'[0] = Head(pipe)
    BY <1>1, <1>3 DEF ReadHead, TypeOK
  <2> QED
    BY <1>1, <1>2, <1>3, <2>1, <2>2 DEF ReadHead, TypeOK, HeadRead
<1>4. CASE ReadBody
  <2> DEFINE n == IF Asked =< Len(pipe) THEN Asked ELSE Len(pipe)
  <2>1. n \in Nat /\ n =< Len(pipe) /\ n =< BodyLen
    BY <1>1 DEF Asked
  <2>2. \A i \in 1..Len(pipe) : pipe[i] \in Word
    BY <1>1
  <2>3. /\ cmd_data' = [i \in 0..BodyLen |-> IF i \in 1..n
                                             THEN pipe[i] ELSE cmd_data[i]]
        /\ pipe' = SubSeq(pipe, n + 1, Len(pipe))
    BY <1>4 DEF ReadBody
  <2> HIDE DEF n
  <2>4. pipe' \in Seq(Word)
    <3>1. \A i \in (n + 1)..Len(pipe) : pipe[i] \in Word
      BY <2>1, <2>2
    <3> QED
      BY <1>1, <2>1, <2>3, <3>1, SubSeqProperties
  <2>5. cmd_data' \in [0..BodyLen -> Word \union {NoWord}]
    <3>1. \A i \in 0..BodyLen : (IF i \in 1..n THEN pipe[i] ELSE cmd_data[i])
                                   \in Word \union {NoWord}
      BY <1>1, <2>1, <2>2 DEF TypeOK
    <3> QED
      BY <2>3, <3>1
  <2>6. cmd_data'[0] = cmd_data[0]
    BY <1>1, <2>1, <2>3
  <2> QED
    BY <1>2, <1>4, <2>4, <2>5, <2>6 DEF ReadBody, TypeOK, HeadRead
<1>5. CASE Parse
  <2>1. cmd_data[0].from \in Client
    BY <1>5 DEF Parse, HeadRead, Word
  <2> QED
    BY <1>2, <1>5, <2>1 DEF Parse, TypeOK, HeadRead
<1> QED
  BY <1>3, <1>4, <1>5 DEF Server

\* On an unmixed pipe the plugin thread reads a head, then its body.
LEMMA ServerOrdered ==
  ASSUME TypeOK, HeadRead, Ordered, Server, ~mixed
  PROVE  Ordered'
<1>1. /\ pipe \in Seq(Word)
      /\ BodyLen \in Nat /\ BodyLen >= 1 /\ CmdLen = BodyLen + 1
  BY DEF TypeOK, CmdLen
<1>2. \A c \in Client : written'[c] \in {0, CmdLen}
  BY DEF Server, ReadHead, ReadBody, Parse, Ordered
<1>3. CASE ReadHead
  <2>1. /\ pipe # << >> /\ pipe' = Tail(pipe)
        /\ server = "head"
        /\ cmd_data'[0] = Head(pipe)
        /\ server' = IF HasMarks(Head(pipe)) THEN "body" ELSE "head"
    BY <1>1, <1>3 DEF ReadHead, TypeOK
  <2>2. /\ Head(pipe) = pipe[1] /\ 1 \in 1..Len(pipe)
        /\ pipe[1] \in Word
    BY <1>1, <2>1
  <2>3. pipe[1].part = 0 /\ server' = "body"
    BY <2>1, <2>2 DEF Ordered, HasMarks
  <2>4. /\ pipe' \in Seq(Word)
        /\ Len(pipe') = Len(pipe) - 1
        /\ \A i \in 1..Len(pipe') : pipe'[i] = pipe[i + 1]
    BY <1>1, <2>1, HeadTailProperties
  <2>5. Follows(pipe, pipe[1].from, 0 + 1)
    BY <2>2, <2>3 DEF Ordered, Whole
  <2>6. pipe[1].from \in Client
    BY <2>2 DEF Word
  <2>7. Follows(pipe', pipe[1].from, 0) /\ Whole(pipe')
    <3>1. PICK t \in Seq(Word) : t = pipe'
      BY <2>4
    <3>2. Follows(t, pipe[1].from, 0) /\ Whole(t)
      BY <1>1, <2>4, <2>5, <2>6, <3>1, WholeShift DEF Ordered
    <3> QED
      BY <3>1, <3>2
  <2> QED
    BY <1>2, <2>1, <2>2, <2>3, <2>7 DEF Ordered
<1>4. CASE ReadBody
  <2>1. Follows(pipe, cmd_data[0].from, 0)
    BY <1>4 DEF ReadBody, Ordered
  <2>2. /\ BodyLen =< Len(pipe)
        /\ \A j \in 1..BodyLen :
             pipe[j] = [from |-> cmd_data[0].from, part |-> j]
        /\ CmdLen =< Len(pipe) => pipe[CmdLen].part = 0
    BY <1>1, <2>1 DEF Follows
  <2>3. /\ pipe' = SubSeq(pipe, BodyLen + 1, Len(pipe))
        /\ cmd_data' = [i \in 0..BodyLen |-> IF i \in 1..BodyLen
                                             THEN pipe[i] ELSE cmd_data[i]]
        /\ server' = "parse"
    BY <1>1, <1>4, <2>2 DEF ReadBody, Asked
  <2>4. /\ pipe' \in Seq(Word)
        /\ Len(pipe') = Len(pipe) - BodyLen
        /\ \A i \in 1..Len(pipe') : pipe'[i] = pipe[i + BodyLen]
    <3>1. \A i \in (BodyLen + 1)..Len(pipe) : pipe[i] \in Word
      BY <1>1
    <3> HIDE DEF Word
    <3>2. /\ pipe' \in Seq(Word)
          /\ Len(pipe') = IF BodyLen + 1 <= Len(pipe)
                          THEN Len(pipe) - (BodyLen + 1) + 1 ELSE 0
          /\ \A i \in 1..(Len(pipe) - (BodyLen + 1) + 1) :
               pipe'[i] = pipe[(BodyLen + 1) + i - 1]
      BY <1>1, <2>3, <3>1, SubSeqProperties
    <3>3. Len(pipe) \in Nat
      BY <1>1
    <3>4. Len(pipe') = Len(pipe) - BodyLen
      BY ONLY <1>1, <2>2, <3>2, <3>3
    <3>5. ASSUME NEW i \in 1..Len(pipe') PROVE pipe'[i] = pipe[i + BodyLen]
      <4>1. i \in 1..(Len(pipe) - (BodyLen + 1) + 1)
        BY <1>1, <3>3, <3>4
      <4>2. (BodyLen + 1) + i - 1 = i + BodyLen
        BY <1>1
      <4> QED
        BY <3>2, <4>1, <4>2
    <3> QED
      BY <3>2, <3>4, <3>5
  <2>5. Whole(pipe')
    <3>1. PICK t \in Seq(Word) : t = pipe'
      BY <2>4
    <3>2. Whole(t)
      BY <1>1, <2>4, <3>1, WholeShift DEF Ordered
    <3> QED
      BY <3>1, <3>2
  <2>6. pipe' # << >> => pipe'[1].part = 0
    <3>1. SUFFICES ASSUME pipe' # << >> PROVE pipe'[1].part = 0
      OBVIOUS
    <3>2. 1 \in 1..Len(pipe')
      BY <2>4, <3>1
    <3>3. pipe'[1] = pipe[1 + BodyLen] /\ CmdLen =< Len(pipe)
      BY <1>1, <2>4, <3>2
    <3>4. 1 + BodyLen = CmdLen
      BY <1>1
    <3> QED
      BY <2>2, <3>3, <3>4
  <2>7. Intact'
    <3>1. cmd_data'[0] = cmd_data[0]
      BY <1>1, <2>3
    <3>2. \A i \in 1..BodyLen : cmd_data'[i] = pipe[i]
      BY <1>1, <2>3
    <3> QED
      BY <2>2, <3>1, <3>2 DEF Intact
  <2> QED
    BY <1>2, <2>3, <2>5, <2>6, <2>7 DEF Ordered
<1>5. CASE Parse
  BY <1>2, <1>5 DEF Parse, Ordered
<1> QED
  BY <1>3, <1>4, <1>5 DEF Server

\* Every step keeps the invariant.
LEMMA NextIInv == IInv /\ [Next]_vars => IInv'
<1> SUFFICES ASSUME IInv, [Next]_vars PROVE IInv'
  OBVIOUS
<1> USE DEF IInv
<1>1. Quiet' => Ordered'
  BY DEF Quiet, Ordered, Whole
<1>2. ASSUME NEW c \in Client, Write(c) PROVE IInv'
  <2>1. TypeOK' /\ UNCHANGED <<server, cmd_data, parsed>>
    BY <1>2, WriteType
  <2>2. HeadRead'
    BY <2>1 DEF HeadRead
  <2>3. ASSUME ~mixed' PROVE Ordered'
    <3>1. Quiet' \/ ~mixed
      <4>1. PICK n \in 1..CmdLen : Track(n < CmdLen)
        BY <1>2, WriteType
      <4> QED
        BY <2>3, <4>1 DEF Track
    <3> QED
      BY <1>1, <1>2, <2>3, <3>1, WriteOrdered
  <2> QED
    BY <2>1, <2>2, <2>3
<1>3. CASE Server
  <2>1. TypeOK' /\ HeadRead'
    BY <1>3, ServerType
  <2>2. ASSUME ~mixed' PROVE Ordered'
    <3>1. Quiet' \/ ~mixed
      BY <1>3, <2>2 DEF Server, ReadHead, ReadBody, Parse, Track
    <3> QED
      BY <1>1, <1>3, <3>1, ServerOrdered
  <2> QED
    BY <2>1, <2>2
<1>4. CASE UNCHANGED vars
  BY <1>4 DEF vars, TypeOK, HeadRead, Ordered, Intact
<1> QED
  BY <1>2, <1>3, <1>4 DEF Next

\* The invariant holds in every state.
LEMMA Invariance == Spec => []IInv
BY InitIInv, NextIInv, PTL DEF Spec

(***************************************************************************)
(* Type correctness.                                                       *)
(***************************************************************************)
THEOREM TypeCorrect == Spec => []TypeOK
<1>1. IInv => TypeOK
  BY DEF IInv
<1> QED
  BY <1>1, Invariance, PTL

(***************************************************************************)
(* What is executed is what one client sent, unless a command has been     *)
(* split since the pipe and the plugin thread were last at rest.           *)
(***************************************************************************)
THEOREM UnmixedCorrect == Spec => []UnmixedIsIntact
<1>1. IInv => UnmixedIsIntact
  BY DEF IInv, Ordered, UnmixedIsIntact, BodyBelongsToHead
<1> QED
  BY <1>1, Invariance, PTL
-----------------------------------------------------------------------------
(***************************************************************************)
(* A head is in one place only: in the pipe, in the hands of the plugin    *)
(* thread, or executed.                                                    *)
(***************************************************************************)
Once ==
  /\ \A i, j \in 1..Len(pipe) :
       pipe[i].part = 0 /\ pipe[j].part = 0 /\ pipe[i].from = pipe[j].from
         => i = j
  /\ \A i \in 1..Len(pipe) : pipe[i].part = 0 =>
       /\ written[pipe[i].from] > 0
       /\ \A m \in 1..Len(parsed) : parsed[m] # pipe[i].from
       /\ server # "head" => cmd_data[0].from # pipe[i].from
  /\ \A m \in 1..Len(parsed) : written[parsed[m]] > 0
  /\ server # "head" => /\ written[cmd_data[0].from] > 0
                        /\ \A m \in 1..Len(parsed) :
                             parsed[m] # cmd_data[0].from
  /\ ParsedOnce

\* A write brings a head only where there was none of this client.
LEMMA WriteOnce ==
  ASSUME TypeOK, HeadRead, Once, NEW c \in Client, Write(c)
  PROVE  Once'
<1>1. /\ UNCHANGED <<server, cmd_data, parsed>>
      /\ \E n \in 1..CmdLen :
           /\ pipe' = pipe \o Words(c, written[c], n)
           /\ written' = [written EXCEPT ![c] = @ + n]
           /\ n =< CmdLen - written[c]
           /\ Track(n < CmdLen)
  BY WriteType
<1>2. PICK n \in 1..CmdLen :
        /\ pipe' = pipe \o Words(c, written[c], n)
        /\ written' = [written EXCEPT ![c] = @ + n]
        /\ n =< CmdLen - written[c]
  BY <1>1
<1>3. BodyLen \in Nat /\ CmdLen = BodyLen + 1 /\ written[c] \in 0..CmdLen
  BY DEF TypeOK, CmdLen
<1> DEFINE t == Words(c, written[c], n)
<1>4. written[c] \in 0..BodyLen /\ n \in Nat /\ written[c] + n =< CmdLen
  BY <1>2, <1>3
<1>5. /\ t \in Seq(Word)
      /\ Len(t) = n
      /\ \A i \in 1..n : t[i] = [from |-> c, part |-> written[c] + i - 1]
  BY <1>4, WordsType
<1>6. pipe \in Seq(Word) /\ Len(pipe) \in Nat /\ parsed \in Seq(Client)
  BY DEF TypeOK
<1>7. pipe' = pipe \o t
  BY <1>2
<1> HIDE DEF t
<1>8. /\ Len(pipe') = Len(pipe) + n
      /\ \A i \in 1..Len(pipe) : pipe'[i] = pipe[i]
      /\ \A i \in 1..n : pipe'[Len(pipe) + i] = t[i]
  BY <1>4, <1>5, <1>6, <1>7
<1>9. /\ \A d \in Client : written[d] > 0 => written'[d] > 0
      /\ written'[c] > 0
  BY <1>2, <1>3, <1>4 DEF TypeOK
\* A head behind the old end is that of c, and its first word.
<1>10. ASSUME NEW i \in 1..Len(pipe'), i \notin 1..Len(pipe), pipe'[i].part = 0
       PROVE  i = Len(pipe) + 1 /\ pipe'[i].from = c /\ written[c] = 0
  <2> DEFINE k == i - Len(pipe)
  <2>1. k \in 1..n /\ i = Len(pipe) + k
    BY <1>4, <1>6, <1>8, <1>10
  <2>2. pipe'[i] = [from |-> c, part |-> written[c] + k - 1]
    BY <1>5, <1>8, <2>1
  <2>3. pipe'[i].from = c /\ written[c] + k - 1 = 0
    BY <1>10, <2>2
  <2>4. written[c] = 0 /\ k = 1
    BY <1>4, <2>1, <2>3
  <2> QED
    BY <2>1, <2>3, <2>4
\* A head before it is an old one.
<1>11. ASSUME NEW i \in 1..Len(pipe)
       PROVE  pipe'[i] = pipe[i] /\ pipe[i].from \in Client
  <2>1. pipe[i] \in Word
    BY <1>6
  <2> QED
    BY <1>8, <2>1 DEF Word
<1>12. ASSUME NEW i \in 1..Len(pipe'), NEW j \in 1..Len(pipe'),
              pipe'[i].part = 0, pipe'[j].part = 0, pipe'[i].from = pipe'[j].from
       PROVE  i = j
  <2>1. CASE i \in 1..Len(pipe) /\ j \in 1..Len(pipe)
    BY <1>11, <1>12, <2>1 DEF Once
  <2>2. CASE i \notin 1..Len(pipe) /\ j \notin 1..Len(pipe)
    BY <1>10, <1>12, <2>2
  <2>3. CASE i \in 1..Len(pipe) /\ j \notin 1..Len(pipe)
    <3>1. pipe[i].part = 0 /\ pipe[i].from = c /\ written[c] = 0
      BY <1>10, <1>11, <1>12, <2>3
    <3> QED
      BY <2>3, <3>1 DEF Once
  <2>4. CASE i \notin 1..Len(pipe) /\ j \in 1..Len(pipe)
    <3>1. pipe[j].part = 0 /\ pipe[j].from = c /\ written[c] = 0
      BY <1>10, <1>11, <1>12, <2>4
    <3> QED
      BY <2>4, <3>1 DEF Once
  <2> QED
    BY <2>1, <2>2, <2>3, <2>4
<1>13. \A m \in 1..Len(parsed) : parsed[m] \in Client
  BY <1>6
<1>14. server # "head" => cmd_data[0].from \in Client
  BY DEF HeadRead, Word
<1>15. ASSUME NEW i \in 1..Len(pipe'), pipe'[i].part = 0
       PROVE  /\ written'[pipe'[i].from] > 0
              /\ \A m \in 1..Len(parsed) : parsed[m] # pipe'[i].from
              /\ server # "head" => cmd_data[0].from # pipe'[i].from
  <2>1. CASE i \in 1..Len(pipe)
    <3>1. pipe'[i] = pipe[i] /\ pipe[i].from \in Client
      BY <1>11, <2>1
    <3>2. /\ written[pipe[i].from] > 0
          /\ \A m \in 1..Len(parsed) : parsed[m] # pipe[i].from
          /\ server # "head" => cmd_data[0].from # pipe[i].from
      BY <1>15, <2>1, <3>1 DEF Once
    <3> QED
      BY <1>9, <3>1, <3>2
  <2>2. CASE i \notin 1..Len(pipe)
    <3>1. pipe'[i].from = c /\ ~(written[c] > 0)
      BY <1>10, <1>15, <2>2
    <3>2. \A m \in 1..Len(parsed) : parsed[m] # c
      BY <3>1 DEF Once
    <3>3. server # "head" => cmd_data[0].from # c
      BY <3>1 DEF Once
    <3> QED
      BY <1>9, <3>1, <3>2, <3>3
  <2> QED
    BY <2>1, <2>2
<1>16. \A m \in 1..Len(parsed) : written'[parsed[m]] > 0
  BY <1>9, <1>13 DEF Once
<1>17. server # "head" => /\ written'[cmd_data[0].from] > 0
                          /\ \A m \in 1..Len(parsed) : parsed[m] # cmd_data[0].from
  BY <1>9, <1>14 DEF Once
<1>18. ParsedOnce'
  BY <1>1 DEF Once, ParsedOnce
<1> QED
  BY <1>1, <1>12, <1>15, <1>16, <1>17, <1>18 DEF Once

\* The plugin thread takes a head out of the pipe, or drops it with a body.
LEMMA ServerOnce ==
  ASSUME TypeOK, HeadRead, Once, Server
  PROVE  Once'
<1>1. /\ pipe \in Seq(Word) /\ Len(pipe) \in Nat /\ parsed \in Seq(Client)
      /\ BodyLen \in Nat /\ 0 \in 0..BodyLen
  BY DEF TypeOK
<1>2. UNCHANGED written
  BY DEF Server, ReadHead, ReadBody, Parse
<1>3. CASE ReadHead
  <2>1. /\ pipe # << >> /\ pipe' = Tail(pipe) /\ parsed' = parsed
        /\ cmd_data'[0] = Head(pipe)
        /\ server' = IF HasMarks(Head(pipe)) THEN "body" ELSE "head"
    BY <1>1, <1>3 DEF ReadHead, TypeOK
  <2>2. Head(pipe) = pipe[1] /\ 1 \in 1..Len(pipe)
    BY <1>1, <2>1
  <2>3. /\ Len(pipe') = Len(pipe) - 1
        /\ \A i \in 1..Len(pipe') : pipe'[i] = pipe[i + 1] /\ i + 1 \in 1..Len(pipe)
                                      /\ i + 1 # 1
    BY <1>1, <2>1, HeadTailProperties
  <2>4. server' # "head" => pipe[1].part = 0 /\ cmd_data'[0] = pipe[1]
    BY <2>1, <2>2 DEF HasMarks
  <2>5. \A i, j \in 1..Len(pipe') :
          pipe'[i].part = 0 /\ pipe'[j].part = 0 /\ pipe'[i].from = pipe'[j].from
            => i = j
    <3>1. SUFFICES ASSUME NEW i \in 1..Len(pipe'), NEW j \in 1..Len(pipe'),
                          pipe'[i].part = 0, pipe'[j].part = 0,
                          pipe'[i].from = pipe'[j].from
                   PROVE  i = j
      OBVIOUS
    <3>2. i + 1 = j + 1
      BY <2>3, <3>1 DEF Once
    <3> QED
      BY <3>2
  <2>6. ASSUME NEW i \in 1..Len(pipe'), pipe'[i].part = 0
        PROVE  /\ written[pipe'[i].from] > 0
               /\ \A m \in 1..Len(parsed) : parsed[m] # pipe'[i].from
               /\ server' # "head" => cmd_data'[0].from # pipe'[i].from
    <3>1. pipe'[i] = pipe[i + 1] /\ i + 1 \in 1..Len(pipe) /\ i + 1 # 1
      BY <2>3
    <3>2. server' # "head" => pipe[1].from # pipe[i + 1].from
      BY <2>2, <2>4, <2>6, <3>1 DEF Once
    <3>3. /\ written[pipe[i + 1].from] > 0
          /\ \A m \in 1..Len(parsed) : parsed[m] # pipe[i + 1].from
      BY <2>6, <3>1 DEF Once
    <3> QED
      BY <2>4, <3>1, <3>2, <3>3
  <2>7. server' # "head" => /\ written[cmd_data'[0].from] > 0
                            /\ \A m \in 1..Len(parsed) : parsed[m] # cmd_data'[0].from
    BY <2>2, <2>4 DEF Once
  <2> QED
    BY <1>2, <2>1, <2>5, <2>6, <2>7 DEF Once, ParsedOnce
<1>4. CASE ReadBody
  <2> DEFINE n == IF Asked =< Len(pipe) THEN Asked ELSE Len(pipe)
  <2>1. n \in Nat /\ n =< Len(pipe)
    BY <1>1 DEF Asked
  <2>2. /\ cmd_data' = [i \in 0..BodyLen |-> IF i \in 1..n
                                             THEN pipe[i] ELSE cmd_data[i]]
        /\ pipe' = SubSeq(pipe, n + 1, Len(pipe))
        /\ server = "body" /\ server' = "parse" /\ parsed' = parsed
    BY <1>4 DEF ReadBody
  <2> HIDE DEF n
  <2>3. cmd_data'[0] = cmd_data[0]
    BY <1>1, <2>1, <2>2
  <2>4. /\ Len(pipe') = Len(pipe) - n
        /\ \A i \in 1..Len(pipe') : pipe'[i] = pipe[i + n] /\ i + n \in 1..Len(pipe)
    BY <1>1, <2>1, <2>2
  <2>5. \A i, j \in 1..Len(pipe') :
          pipe'[i].part = 0 /\ pipe'[j].part = 0 /\ pipe'[i].from = pipe'[j].from
            => i = j
    <3>1. SUFFICES ASSUME NEW i \in 1..Len(pipe'), NEW j \in 1..Len(pipe'),
                          pipe'[i].part = 0, pipe'[j].part = 0,
                          pipe'[i].from = pipe'[j].from
                   PROVE  i = j
      OBVIOUS
    <3>2. i + n = j + n
      BY <2>4, <3>1 DEF Once
    <3> QED
      BY <2>1, <3>2
  <2>6. ASSUME NEW i \in 1..Len(pipe'), pipe'[i].part = 0
        PROVE  /\ written[pipe'[i].from] > 0
               /\ \A m \in 1..Len(parsed) : parsed[m] # pipe'[i].from
               /\ cmd_data[0].from # pipe'[i].from
    <3>1. pipe'[i] = pipe[i + n] /\ i + n \in 1..Len(pipe)
      BY <2>4
    <3> QED
      BY <2>2, <2>6, <3>1 DEF Once
  <2>7. /\ written[cmd_data[0].from] > 0
        /\ \A m \in 1..Len(parsed) : parsed[m] # cmd_data[0].from
        /\ \A m \in 1..Len(parsed) : written[parsed[m]] > 0
    BY <2>2 DEF Once
  <2>8. ParsedOnce'
    BY <2>2 DEF Once, ParsedOnce
  <2> QED
    BY <1>2, <2>2, <2>3, <2>5, <2>6, <2>7, <2>8 DEF Once
<1>5. CASE Parse
  <2>1. /\ server = "parse" /\ server' = "head"
        /\ parsed' = Append(parsed, cmd_data[0].from)
        /\ UNCHANGED <<pipe, cmd_data>>
    BY <1>5 DEF Parse
  <2>2. cmd_data[0].from \in Client
    BY <2>1 DEF HeadRead, Word
  <2>3. /\ Len(parsed) \in Nat /\ Len(parsed') = Len(parsed) + 1
        /\ \A m \in 1..Len(parsed) : parsed'[m] = parsed[m]
        /\ parsed'[Len(parsed) + 1] = cmd_data[0].from
    BY <1>1, <2>1, <2>2
  <2>4. \A m \in 1..Len(parsed') : m \in 1..Len(parsed) \/ m = Len(parsed) + 1
    BY <2>3
  <2>5. ParsedOnce'
    <3>1. SUFFICES ASSUME NEW m \in 1..Len(parsed'), NEW k \in 1..Len(parsed'),
                          parsed'[m] = parsed'[k]
                   PROVE  m = k
      BY DEF ParsedOnce
    <3>2. \A l \in 1..Len(parsed) : parsed[l] # cmd_data[0].from
      BY <2>1 DEF Once
    <3> QED
      BY <2>3, <2>4, <3>1, <3>2 DEF Once, ParsedOnce
  <2>6. ASSUME NEW i \in 1..Len(pipe'), pipe'[i].part = 0
        PROVE  /\ written[pipe'[i].from] > 0
               /\ \A m \in 1..Len(parsed') : parsed'[m] # pipe'[i].from
    BY <2>1, <2>3, <2>4, <2>6 DEF Once
  <2>7. \A m \in 1..Len(parsed') : written[parsed'[m]] > 0
    BY <2>1, <2>3, <2>4 DEF Once
  <2>8. \A i, j \in 1..Len(pipe') :
          pipe'[i].part = 0 /\ pipe'[j].part = 0 /\ pipe'[i].from = pipe'[j].from
            => i = j
    BY <2>1 DEF Once
  <2> QED
    BY <1>2, <2>1, <2>5, <2>6, <2>7, <2>8 DEF Once
<1> QED
  BY <1>3, <1>4, <1>5 DEF Server

(***************************************************************************)
(* However the commands are split and mixed in the pipe, the plugin thread *)
(* takes the head of a client for a head once at the most.                 *)
(***************************************************************************)
THEOREM OnceCorrect == Spec => []ParsedOnce
<1>1. Init => Once
  BY DEF Init, Once, ParsedOnce
<1>2. IInv /\ Once /\ [Next]_vars => Once'
  <2> SUFFICES ASSUME IInv, Once, [Next]_vars PROVE Once'
    OBVIOUS
  <2>1. TypeOK /\ HeadRead
    BY DEF IInv
  <2>2. ASSUME NEW c \in Client, Write(c) PROVE Once'
    BY <2>1, <2>2, WriteOnce
  <2>3. CASE Server
    BY <2>1, <2>3, ServerOnce
  <2>4. CASE UNCHANGED vars
    BY <2>4 DEF vars, Once, ParsedOnce
  <2> QED
    BY <2>2, <2>3, <2>4 DEF Next
<1>3. Once => ParsedOnce
  BY DEF Once
<1> QED
  BY <1>1, <1>2, <1>3, Invariance, PTL DEF Spec
=============================================================================
