------------------------------- MODULE Logger -------------------------------
(***************************************************************************)
(* The logger (core/log.c): any thread appends messages to log_buffer and  *)
(* signals the logging thread, which waits for a signal, or a tenth of a   *)
(* second, and writes to the file what it finds in the buffer.  The buffer *)
(* is changed under res_mtx, but the logging thread walks it without; the  *)
(* signal is sent under notify_mtx, which the logging thread holds except  *)
(* while it waits, so a signal at any other time is lost.                  *)
(*                                                                         *)
(* LogInit is the state in which init_logger returns.  A message is a      *)
(* number; levels are left out, since main asks for LEVEL_INFO, the        *)
(* highest.                                                                *)
(***************************************************************************)
EXTENDS Integers, Sequences

CONSTANTS Client,    \* the threads that log
          MaxMsg     \* bound on the messages of a run

ASSUME ClientAssumption == Client # {}
ASSUME MaxMsgAssumption == MaxMsg \in Nat

VARIABLES
  log_buffer,       \* the messages of the list, oldest first
  logfile,          \* the messages written, oldest first
  closed,           \* log_unit.closed
  thread_running,   \* log_unit.thread_running
  logging,          \* the clients: where each is in logging(), and with what
  thread,           \* where the logging thread is
  last,             \* its message was the buffer's last when it looked
  leaving,          \* where the client that calls exit_logger is
  msgs,             \* messages made so far
  appended          \* all messages that were put in the buffer, in order

logVars == <<log_buffer, logfile, closed, thread_running, logging, thread,
             last, leaving, msgs, appended>>

Msg == 1..MaxMsg
NoMsg == 0
Idle == [at |-> "idle", msg |-> NoMsg]

LogTypeOK ==
  /\ log_buffer \in Seq(Msg)
  /\ logfile \in Seq(Msg)
  /\ closed \in BOOLEAN
  /\ thread_running \in BOOLEAN
  /\ logging \in [Client -> [at  : {"idle", "append", "signal"},
                             msg : Msg \union {NoMsg}]]
  /\ thread \in {"check", "open", "wait", "walk", "write", "ended"}
  /\ last \in BOOLEAN
  /\ leaving \in {"no", "stop", "join", "clear", "left"}
  /\ msgs \in 0..MaxMsg
  /\ appended \in Seq(Msg)

LogInit ==
  /\ log_buffer = << >>
  /\ logfile = << >>
  /\ closed = FALSE
  /\ thread_running = TRUE
  /\ logging = [c \in Client |-> Idle]
  /\ thread = "wait"
  /\ last = FALSE
  /\ leaving = "no"
  /\ msgs = 0
  /\ appended = << >>

-----------------------------------------------------------------------------
(***************************************************************************)
(* A client: logging, plugin_print_log, and _print_msg that both call.     *)
(* Once the logger is closed they return at once.                          *)
(***************************************************************************)
Log(c) ==
  /\ logging[c].at = "idle"
  /\ ~closed
  /\ leaving # "left"
  /\ msgs < MaxMsg
  /\ msgs' = msgs + 1
  /\ logging' = [logging EXCEPT ![c] = [at |-> "append", msg |-> msgs + 1]]
  /\ UNCHANGED <<log_buffer, logfile, closed, thread_running, thread, last,
                 leaving, appended>>

\* Mutant: list_add in place of list_add_tail.
PutFirst(m) == log_buffer' = <<m>> \o log_buffer

Put(m) == log_buffer' = Append(log_buffer, m)

\* The message goes in, under res_mtx ...
PutMsg(c) ==
  /\ logging[c].at = "append"
  /\ leaving # "left"
  /\ Put(logging[c].msg)
  /\ appended' = Append(appended, logging[c].msg)
  /\ logging' = [logging EXCEPT ![c].at = "signal"]
  /\ UNCHANGED <<logfile, closed, thread_running, thread, last, leaving, msgs>>

\* ... and the logging thread is woken if it waits.
Signal(c) ==
  /\ logging[c].at = "signal"
  /\ leaving # "left"
  /\ thread' = IF thread = "wait" THEN "walk" ELSE thread
  /\ logging' = [logging EXCEPT ![c] = Idle]
  /\ UNCHANGED <<log_buffer, logfile, closed, thread_running, last, leaving,
                 msgs, appended>>

-----------------------------------------------------------------------------
(***************************************************************************)
(* The logging thread.                                                     *)
(***************************************************************************)
Check ==
  /\ thread = "check"
  /\ thread' = IF thread_running THEN "open" ELSE "ended"
  /\ UNCHANGED <<log_buffer, logfile, closed, thread_running, logging, last,
                 leaving, msgs, appended>>

\* Every turn of the loop opens the logger, whoever has just closed it.
Open ==
  /\ thread = "open"
  /\ closed' = FALSE
  /\ thread' = "wait"
  /\ UNCHANGED <<log_buffer, logfile, thread_running, logging, last, leaving,
                 msgs, appended>>

\* Mutant: pthread_cond_wait, which never times out.
NoTimeOut == FALSE /\ UNCHANGED logVars

\* Nobody signals for a tenth of a second: the next turn, without a look at
\* the buffer.
TimeOut ==
  /\ thread = "wait"
  /\ thread' = "check"
  /\ UNCHANGED <<log_buffer, logfile, closed, thread_running, logging, last,
                 leaving, msgs, appended>>

\* The wait may end without a signal and without a timeout.
SpuriousWakeUp ==
  /\ thread = "wait"
  /\ thread' = "walk"
  /\ UNCHANGED <<log_buffer, logfile, closed, thread_running, logging, last,
                 leaving, msgs, appended>>

\* list_for_each_safe looks for the next message before the body deletes the
\* one at hand.
Walk ==
  /\ thread = "walk"
  /\ IF log_buffer = << >>
     THEN thread' = "check" /\ UNCHANGED last
     ELSE thread' = "write" /\ last' = (Len(log_buffer) = 1)
  /\ UNCHANGED <<log_buffer, logfile, closed, thread_running, logging, leaving,
                 msgs, appended>>

\* Mutant: a wake-up writes one message.
WriteOne ==
  /\ thread = "write"
  /\ log_buffer' = Tail(log_buffer)
  /\ logfile' = Append(logfile, Head(log_buffer))
  /\ thread' = "check"
  /\ UNCHANGED <<closed, thread_running, logging, last, leaving, msgs,
                 appended>>

\* The message is taken out, under res_mtx, and written.
Write ==
  /\ thread = "write"
  /\ log_buffer' = Tail(log_buffer)
  /\ logfile' = Append(logfile, Head(log_buffer))
  /\ thread' = IF last THEN "check" ELSE "walk"
  /\ UNCHANGED <<closed, thread_running, logging, last, leaving, msgs,
                 appended>>

-----------------------------------------------------------------------------
(***************************************************************************)
(* exit_logger, by one client after its last message.                      *)
(***************************************************************************)
Close(c) ==
  /\ leaving = "no"
  /\ logging[c].at = "idle"
  /\ closed' = TRUE
  /\ leaving' = "stop"
  /\ UNCHANGED <<log_buffer, logfile, thread_running, logging, thread, last,
                 msgs, appended>>

Stop ==
  /\ leaving = "stop"
  /\ thread_running' = FALSE
  /\ leaving' = "join"
  /\ UNCHANGED <<log_buffer, logfile, closed, logging, thread, last, msgs,
                 appended>>

\* The thread is joined and the file closed.
Join ==
  /\ leaving = "join"
  /\ thread = "ended"
  /\ leaving' = "clear"
  /\ UNCHANGED <<log_buffer, logfile, closed, thread_running, logging, thread,
                 last, msgs, appended>>

\* _clear_all_bufferd_msg throws away what is left.
Clear ==
  /\ leaving = "clear"
  /\ log_buffer' = << >>
  /\ leaving' = "left"
  /\ UNCHANGED <<logfile, closed, thread_running, logging, thread, last, msgs,
                 appended>>

-----------------------------------------------------------------------------
ClientStep(c) == Log(c) \/ PutMsg(c) \/ Signal(c)

ThreadStep == Check \/ Open \/ TimeOut \/ SpuriousWakeUp \/ Walk \/ Write

Leave == Stop \/ Join \/ Clear

LogNext ==
  \/ \E c \in Client : ClientStep(c) \/ Close(c)
  \/ ThreadStep
  \/ Leave

LogSpec == LogInit /\ [][LogNext]_logVars

(***************************************************************************)
(* The logging thread and the thread in exit_logger are scheduled; a wait  *)
(* ends at the latest with its timeout.  Nobody needs to log anything or   *)
(* to leave.                                                               *)
(***************************************************************************)
Fairness ==
  /\ WF_logVars(Check \/ Open \/ TimeOut \/ Walk \/ Write)
  /\ WF_logVars(Leave)

LogFairSpec == LogSpec /\ Fairness

-----------------------------------------------------------------------------
(***************************************************************************)
(* Although the buffer is walked without its lock, no message is skipped,  *)
(* written twice or out of order: what has been written and what waits is  *)
(* what was appended, until exit_logger throws the rest away.              *)
(***************************************************************************)
WrittenInOrder ==
  /\ leaving # "left" => logfile \o log_buffer = appended
  /\ thread = "write" => log_buffer # << >>

(***************************************************************************)
(* A walk writes all that is in the buffer when it begins.                 *)
(***************************************************************************)
WalkWritesAll ==
  \A m \in Msg :
    (thread = "walk" /\ \E i \in 1..Len(log_buffer) : log_buffer[i] = m)
      ~> (\E i \in 1..Len(logfile) : logfile[i] = m)

(***************************************************************************)
(* exit_logger returns, although it does not wake the logging thread and   *)
(* that may open the logger again: the wait times out.                     *)
(***************************************************************************)
ExitCompletes == leaving = "stop" ~> leaving = "left"

(***************************************************************************)
(* A comment in exit_logger: all messages have been written when the rest  *)
(* of the buffer is thrown away.  Violated, even if the only thread that   *)
(* logs is the one that leaves: a signal is lost while the logging thread  *)
(* does not wait, and neither a timeout nor the end of the thread makes it *)
(* look at the buffer.                                                     *)
(***************************************************************************)
FlushedAtExit == leaving = "clear" => log_buffer = << >>
=============================================================================
