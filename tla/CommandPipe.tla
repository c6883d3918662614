---------------------------- MODULE CommandPipe ----------------------------
(***************************************************************************)
(* The pipe between the client (tools/plugin_client.c) and the plugin      *)
(* thread (plugin_run in core/plugin_server.c).  A client writes its       *)
(* command, a plugin_cmd_t, with one write.  The plugin thread reads four  *)
(* bytes, the head; if these have the marks of a head it reads the rest of *)
(* a plugin_cmd_t, and executes what is then in cmd_data.  The results of  *)
(* its reads are ignored.                                                  *)
(*                                                                         *)
(* Bytes come in words of four: a command is the head and BodyLen words of *)
(* body.  (It has 9224 bytes, a page 4096 and a pipe 65536, all multiples  *)
(* of four, so that neither side ever leaves off inside a word.)  A word   *)
(* is known by its client and its place; a word of the body, argc or text, *)
(* does not have the marks of a head, type 0x9X and flag 0x6b.             *)
(*                                                                         *)
(* The pipe is Linux's: a write that finds room is not interrupted, one    *)
(* that does not puts in what it can and waits.                            *)
(***************************************************************************)
EXTENDS Integers, Sequences

CONSTANTS Client,     \* the client processes, one command each
          BodyLen,    \* the words of a command's body
          Capacity    \* the words the pipe can hold

ASSUME BodyLenAssumption == BodyLen \in Nat \ {0}
ASSUME CapacityAssumption == Capacity \in Nat \ {0}

VARIABLES
  pipe,       \* the words in the pipe, oldest first
  written,    \* how many words of its command a client has written
  server,     \* what the plugin thread does next
  cmd_data,   \* the words of the plugin thread's cmd_data
  parsed,     \* the clients of the heads in cmd_data when it was executed
  mixed       \* since the pipe and the plugin thread were last at rest, a
              \* command did not go into the pipe at once

vars == <<pipe, written, server, cmd_data, parsed, mixed>>

CmdLen == BodyLen + 1

Word == [from : Client, part : 0..BodyLen]

\* What is in cmd_data before anything has been read.
NoWord == [from |-> {}, part |-> 0]

TypeOK ==
  /\ pipe \in Seq(Word)
  /\ written \in [Client -> 0..CmdLen]
  /\ server \in {"head", "body", "parse"}
  /\ cmd_data \in [0..BodyLen -> Word \union {NoWord}]
  /\ parsed \in Seq(Client)
  /\ mixed \in BOOLEAN

Init ==
  /\ pipe = << >>
  /\ written = [c \in Client |-> 0]
  /\ server = "head"
  /\ cmd_data = [i \in 0..BodyLen |-> NoWord]
  /\ parsed = << >>
  /\ mixed = FALSE

\* At rest: nothing is under way.
Quiet ==
  /\ pipe = << >>
  /\ server = "head"
  /\ \A c \in Client : written[c] \in {0, CmdLen}

Track(split) == mixed' = ((mixed \/ split) /\ ~Quiet')

-----------------------------------------------------------------------------
Room == Capacity - Len(pipe)

Words(c, from, n) == [i \in 1..n |-> [from |-> c, part |-> from + i - 1]]

(***************************************************************************)
(* The client's write: the whole command, or what fits.                    *)
(***************************************************************************)
Write(c) ==
  LET left == CmdLen - written[c]
  IN  /\ left > 0
      /\ \E n \in 1..left :
           /\ n =< Room
           /\ left =< Room => n = left
           /\ pipe' = pipe \o Words(c, written[c], n)
           /\ written' = [written EXCEPT ![c] = @ + n]
           /\ UNCHANGED <<server, cmd_data, parsed>>
           /\ Track(n < CmdLen)

-----------------------------------------------------------------------------
(***************************************************************************)
(* The plugin thread.  select returns when there is something in the pipe. *)
(***************************************************************************)
HasMarks(w) == w.part = 0

\* Mutant: the marks are not looked at.
ReadAnyHead ==
  /\ server = "head"
  /\ pipe # << >>
  /\ cmd_data' = [cmd_data EXCEPT ![0] = Head(pipe)]
  /\ pipe' = Tail(pipe)
  /\ server' = "body"
  /\ UNCHANGED <<written, parsed>>
  /\ Track(FALSE)

\* Mutant: without the marks nothing is consumed.
ReadGoodHead ==
  /\ server = "head"
  /\ pipe # << >>
  /\ HasMarks(Head(pipe))
  /\ cmd_data' = [cmd_data EXCEPT ![0] = Head(pipe)]
  /\ pipe' = Tail(pipe)
  /\ server' = "body"
  /\ UNCHANGED <<written, parsed>>
  /\ Track(FALSE)

\* Four bytes without the marks are dropped.
ReadHead ==
  /\ server = "head"
  /\ pipe # << >>
  /\ cmd_data' = [cmd_data EXCEPT ![0] = Head(pipe)]
  /\ pipe' = Tail(pipe)
  /\ server' = IF HasMarks(Head(pipe)) THEN "body" ELSE "head"
  /\ UNCHANGED <<written, parsed>>
  /\ Track(FALSE)

\* Mutant: the length of the head is taken off twice.
ReadLess == BodyLen - 1

\* Mutant: the length of the head is not taken off.
ReadMore == BodyLen + 1

\* The words that plugin_run asks for.
Asked == BodyLen

\* read blocks on an empty pipe, and returns with what there is.
ReadBody ==
  LET n == IF Asked =< Len(pipe) THEN Asked ELSE Len(pipe)
  IN  /\ server = "body"
      /\ pipe # << >>
      /\ cmd_data' = [i \in 0..BodyLen |-> IF i \in 1..n THEN pipe[i]
                                                          ELSE cmd_data[i]]
      /\ pipe' = SubSeq(pipe, n + 1, Len(pipe))
      /\ server' = "parse"
      /\ UNCHANGED <<written, parsed>>
      /\ Track(FALSE)

\* plugin_parser executes the command, see PluginMgr.
Parse ==
  /\ server = "parse"
  /\ parsed' = Append(parsed, cmd_data[0].from)
  /\ server' = "head"
  /\ UNCHANGED <<pipe, written, cmd_data>>
  /\ Track(FALSE)

-----------------------------------------------------------------------------
Server == ReadHead \/ ReadBody \/ Parse

Next == Server \/ \E c \in Client : Write(c)

Spec == Init /\ [][Next]_vars

(***************************************************************************)
(* The plugin thread is scheduled and comes back from plugin_parser        *)
(* (UnloadCompletes of Metric); a client that waits for room gets it when  *)
(* there is some again and again.                                          *)
(***************************************************************************)
FairSpec ==
  /\ Spec
  /\ WF_vars(Server)
  /\ \A c \in Client : SF_vars(written[c] > 0 /\ Write(c))

-----------------------------------------------------------------------------
\* What cmd_data holds is one command of one client.
Intact == \A i \in 1..BodyLen :
            cmd_data[i] = [from |-> cmd_data[0].from, part |-> i]

\* What the comments of plugin_run say: it reads "head of message", then "body
\* of message".  Not so once the pipe has been full: the read returns with a
\* part of the body, or with words of another client's command.
BodyBelongsToHead == server = "parse" => Intact

(***************************************************************************)
(* As long as commands go into the pipe at once, what is executed is what  *)
(* one client sent.  A full pipe spoils no more than the commands it       *)
(* holds: when all is at rest again, the next head read is a head.         *)
(***************************************************************************)
UnmixedIsIntact == ~mixed => BodyBelongsToHead

(***************************************************************************)
(* Whatever the plugin thread finds in the pipe, no client's head is taken *)
(* for a head twice.                                                       *)
(***************************************************************************)
ParsedOnce ==
  \A m, n \in 1..Len(parsed) : parsed[m] = parsed[n] => m = n

(***************************************************************************)
(* If no command is split, every command written is executed.              *)
(***************************************************************************)
UnmixedIsParsed ==
  []~mixed =>
    \A c \in Client :
      (written[c] = CmdLen) ~> (\E n \in 1..Len(parsed) : parsed[n] = c)

(***************************************************************************)
(* A pipe that has been full does not spoil it for good: the plugin thread *)
(* works through the remains of split commands, head by head, the clients  *)
(* that wait for room get it, and all comes to rest.  (The clients are     *)
(* finitely many; an unending stream of commands might never rest.)        *)
(***************************************************************************)
MixedEnds == mixed ~> ~mixed
=============================================================================
