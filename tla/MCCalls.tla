------------------------------ MODULE MCCalls ------------------------------
\* Calls on small inputs.
EXTENDS Calls

Bytes == {Space, Quote, Comma, 49, LBracket, RBracket, Backslash, LBrace, RBrace}
MCTexts ==
  {prefix \o t : prefix \in {<<>>, <<LBrace, Quote, Quote, Colon>>, <<LBracket, 49, Comma>>},
                 t \in UNION {[1 .. n -> Bytes] : n \in 0 .. 4}}
  \cup {<<LBracket, LBracket>> \o t \o <<RBracket, RBracket>> : t \in UNION {[1 .. n -> Bytes] : n \in 0 .. 2}}
  \cup {<<Minus, 49, 50>>, <<Minus>>, TrueText, NullText, FalseText, Tail(TrueText),
        <<239, 187, 191, 49>>, <<239, 187, 191, 49, Space>>, <<Quote, Slash, Backslash, Slash, Quote>>}

MCCodes ==
  LET c == {65, 127, 128, 2047, 2048, 55295, 55296, 56319, 56320, 57343, 57344, 65535}
  IN  c \X c

Strings == {<<>>, <<65, Space>>, <<Quote, Backslash>>, <<Backslash, Quote, 1>>, <<LF, 200>>}
Leaves == {Null, Bool(TRUE), Bool(FALSE), Number(-12), Number(7)} \cup {String(s) : s \in Strings}
Small == {Null, Number(7), String(<<Quote, Backslash>>), String(<<65, Space>>)}
Pairs(S) == {Array(k) : k \in UNION {[1 .. n -> S] : n \in 0 .. 2}}
            \cup {Object([p \in DOMAIN k |-> Named(<<64 + p, Space>>, k[p])]) :
                    k \in UNION {[1 .. n -> S] : n \in 0 .. 2}}
MCValues == Leaves \cup Pairs(Leaves) \cup {Array(<<v>>) : v \in Pairs(Small)}
            \cup {Object(<<Named(<<Backslash>>, v), Named(<<7>>, Array(<<v>>))>>) : v \in Pairs({Null})}
WithKids(S) == S \cup UNION {Range(v.kids) : v \in S}
MCItems == WithKids(WithKids(WithKids(MCValues)))
MCSizes == {0, 1, 5, 12, 13, 18}

Names2 == {<<97>>, <<98>>, <<65>>, <<Tilde, Slash>>}
Members(S) == {Object(<<>>)} \cup {Object(<<Named(n, v)>>) : n \in Names2, v \in S}
              \cup {Object(<<Named(m, v), Named(n, w)>>) :
                      m \in {<<97>>, <<98>>}, n \in Names2, v, w \in S}
Parts == {Null, Number(1), Object(<<Named(<<97>>, Number(1))>>), Array(<<Number(1), Null>>)}
MCDocuments == {Null, Number(1), String(<<97>>)} \cup Members({Null, Number(1)})
               \cup {Array(k) : k \in UNION {[1 .. n -> {Null, Number(2)}] : n \in 0 .. 2}}
               \cup {Object(<<Named(<<98>>, v), Named(<<97>>, Array(<<w, v>>))>>) : v, w \in Parts}

MCTrees == MCItems \cup WithKids(WithKids(WithKids(MCDocuments)))
RECURSIVE HeightOf(_)
HeightOf(v) == Max({0} \cup {1 + HeightOf(x) : x \in Range(v.kids)})
MCHeight == [v \in MCTrees |-> HeightOf(v)]

Paths == {<<>>, <<<<97>>>>, <<<<98>>>>, <<<<Zero>>>>, <<<<One>>>>, <<<<Dash>>>>,
          <<<<97>>, <<One>>>>, <<<<97>>, <<Dash>>>>, <<<<98>>, <<97>>>>}
Change(op, path, from, v) == [op |-> op, path |-> path, from |-> from, value |-> v]
Changes1 ==
  {Change(op, path, <<>>, v) : op \in {"add", "replace", "test"}, path \in Paths,
                              v \in {Number(1), Array(<<Null>>)}}
  \cup {Change("test", <<>>, <<>>, Object(<<Named(<<97>>, Null), Named(<<98>>, Number(1))>>))}
  \cup {Change("remove", path, <<>>, Null) : path \in Paths \ {<<>>}}
  \cup {Change(op, path, from, Null) : op \in {"move", "copy"}, path \in Paths, from \in Paths}
  \cup {Change("move", <<<<97>>, <<Zero>>>> \o below, <<<<97>>, <<Zero>>>>, Null) :
           below \in {<<>>, <<<<97>>>>}}
Changes2 == {Change("add", path, <<>>, Number(3)) : path \in {<<<<99>>>>, <<<<Dash>>>>}}
            \cup {Change("test", <<>>, <<>>, Array(<<Number(2)>>)),
                  Change("test", <<<<97>>>>, <<>>, Number(1)),
                  Change("copy", <<>>, <<<<97>>>>, Null)}
MCChanges == {<<c>> : c \in Changes1} \cup {<<c, d>> : c \in Changes1, d \in Changes2}

\* What a core does between two reads, in 10 jiffies or none; the count of the
\* time waiting for a disk may go back.
Busy == <<3, 1, 2, 2, 1, 1, 0, 0>>
Interrupted == <<1, 0, 1, 3, 0, 2, 2, 1>>
Waiting == <<0, 0, 0, 2, 8, 0, 0, 0>>
Asleep == <<0, 0, 0, 10, 0, 0, 0, 0>>
Back == <<4, 0, 2, 6, -2, 0, 0, 0>>
Stopped == [n \in 1 .. 8 |-> 0]
Plus(a, b) == [n \in DOMAIN a |-> a[n] + b[n]]
Period == {<<Busy, Interrupted>>, <<Waiting, Busy>>, <<Asleep, Asleep>>,
           <<Interrupted, Back>>, <<Stopped, Interrupted>>}

Boot == <<100, 10, 50, 500, 20, 5, 5, 0>>
Stat(gains) == LET core == [c \in 1 .. 2 |-> FoldLeft(LAMBDA a, g : Plus(a, g[c]), Boot, gains)]
               IN  <<Plus(core[1], core[2])>> \o core
MCStatContents ==
  {Stat(<<>>)} \cup {Stat(<<g>>) : g \in Period}
  \cup {Stat(<<<<Asleep, Asleep>>, <<Busy, Interrupted>>, g>>) : g \in Period}
MCTimes == 1 .. 4

Mount(device, prefix, colon, type, ro, bytes, answers) ==
  [device |-> device, prefix |-> prefix, colon |-> colon, type |-> type, ro |-> ro,
   size |-> bytes, avail |-> bytes \div 4, answers |-> answers]
MCMountLine == {Mount("sda1", "/dev/", FALSE, "ext4", ro, 400, answers) : ro, answers \in BOOLEAN}
               \cup {Mount("sdb1", "/dev/", FALSE, "xfs", FALSE, 1000, answers) : answers \in BOOLEAN}
               \cup {Mount("by-path/pci-0:0", "/dev/", TRUE, "ext4", FALSE, 70, TRUE),
                     Mount("host:/home", "other", TRUE, "nfs4", FALSE, 70, TRUE),
                     Mount("proc", "other", FALSE, "proc", FALSE, 0, TRUE)}
=============================================================================
