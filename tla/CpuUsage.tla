------------------------------ MODULE CpuUsage ------------------------------
(***************************************************************************)
(* What the cpu plugin makes of /proc/stat (plugins/mod_cpu, and           *)
(* update_file of plugins/libs/file.c).  The file is the sequence of its   *)
(* "cpu" lines, that of the machine first and then one for each core; a    *)
(* line is the sequence of its eight counters of jiffies.  A share is a    *)
(* number of percent; the code computes it in floating point, and the      *)
(* model to the nearest integer.                                           *)
(***************************************************************************)
EXTENDS Integers, Sequences

CONSTANTS
  JiffiesRange,  \* 2^64: a counter is an unsigned long long
  Lines,         \* how many lines the file has: the cores, and one
  StatContents,  \* what the file may hold
  Unreadable,    \* what is found of a file that cannot be read
  Times,         \* what the clock may show, set back or not
  MaxRuns        \* bounds run_count, a uint64_t

VARIABLES
  cpu_stat,      \* the timely_file of /proc/stat
  corenum,
  last,          \* of each line and each of the four functions, its last jiffies
  run_count,
  data,          \* the values of the item, of each line; none before the second run
  news           \* history: the reads that gave something new, and in which run

cpuVars == <<cpu_stat, corenum, last, run_count, data, news>>

\* update_file of a timely_file with thresh 0: it is read again when the clock
\* shows a later time, and keeps its content when that fails.
UpdateFile(f, now, content) ==
  IF now > f.last_read /\ content # Unreadable
  THEN [buffer |-> content, last_read |-> now] ELSE f

\* The copy of num_cpustates that cpu_data.c reads.  cpu_data.h declares the
\* variable static, and what libcpu.c sets is a copy of its own.
NumCpuStates == 0

\* core_total_jiffies_func.
CoreTotalJiffies(line) ==
  LET first == line[1] + line[2] + line[3] + line[4]
      more == line[5] + line[6] + line[7]
  IN  CASE NumCpuStates = 4 -> first
        [] NumCpuStates = 7 -> first + more
        [] OTHER -> first + more + line[8]

Stats == {"idle", "user", "system", "iowait"}

OwnJiffies(stat, line) ==
  CASE stat = "idle" -> line[4]
    [] stat = "user" -> line[1]
    [] stat = "system" -> line[3] + IF NumCpuStates > 4 THEN line[6] + line[7] ELSE 0
    [] stat = "iowait" -> line[5]

\* What each of the four functions remembers of a line.
Jiffies(line) == [s \in Stats |-> [own |-> OwnJiffies(s, line), total |-> CoreTotalJiffies(line)]]

\* No machine lives to see its jiffies wrap.
ASSUME CpuAssumption ==
  /\ JiffiesRange \in Nat /\ Lines \in Nat \ {0}
  /\ \A content \in StatContents : \A c \in 1 .. Lines :
       /\ content \in [1 .. Lines -> [1 .. 8 -> Nat]]
       /\ CoreTotalJiffies(content[c]) < JiffiesRange
  /\ Unreadable \notin StatContents
  /\ Times \subseteq Nat \ {0} /\ MaxRuns \in Nat

\* The computation of the four ..._usage functions, with its sanityCheck.
Usage(before, after) ==
  LET diff == (after.own - before.own) % JiffiesRange
      time == (after.total - before.total) % JiffiesRange
      val == (200 * diff + time) \div (2 * time)
  IN  CASE diff = 0 -> 0
        [] diff # 0 /\ time = 0 -> 100
        [] OTHER -> IF val > 100 THEN 100 ELSE val

Shares(before, after) ==
  [usage |-> 100 - Usage(before["idle"], after["idle"]),
   user |-> Usage(before["user"], after["user"]),
   system |-> Usage(before["system"], after["system"]),
   iowait |-> Usage(before["iowait"], after["iowait"])]

Zero8 == [n \in 1 .. 8 |-> 0]

CpuInit ==
  /\ cpu_stat = [buffer |-> <<>>, last_read |-> 0]
  /\ corenum = 0
  /\ last = [c \in 1 .. Lines |-> Jiffies(Zero8)]
  /\ run_count = 0
  /\ data = <<>>
  /\ news = <<>>

\* PLUGIN_ENTRY: without "SUM=false" only the line of the machine counts.
CpuEntry ==
  /\ news = <<>>
  /\ \E now \in Times, content \in StatContents, sum \in BOOLEAN :
       /\ cpu_stat' = UpdateFile(cpu_stat, now, content)
       /\ corenum' = IF sum THEN 0 ELSE Len(cpu_stat'.buffer) - 1
       /\ news' = <<[now |-> now, content |-> content, run |-> 0]>>
  /\ UNCHANGED <<last, run_count, data>>

\* The history of a read in the next run.
News(now, content) ==
  IF content # Unreadable /\ now > news[Len(news)].now
  THEN Append(news, [now |-> now, content |-> content, run |-> run_count + 1]) ELSE news

\* Mutant: the total of the last run is kept when the own counter does not move.
CpuDataCollectMoved ==
  /\ news # <<>> /\ run_count < MaxRuns
  /\ \E now \in Times, content \in StatContents \cup {Unreadable} :
       LET f == UpdateFile(cpu_stat, now, content)
           after == [c \in 1 .. corenum + 1 |-> Jiffies(f.buffer[c])]
       IN  /\ cpu_stat' = f
           /\ last' = [c \in 1 .. Lines |-> [s \in Stats |->
                 IF c \in DOMAIN after /\ after[c][s].own # last[c][s].own
                 THEN after[c][s] ELSE last[c][s]]]
           /\ data' = IF run_count = 0 THEN data
                      ELSE [c \in DOMAIN after |-> Shares(last[c], after[c])]
           /\ news' = News(now, content)
  /\ run_count' = run_count + 1
  /\ UNCHANGED corenum

\* cpu_data_collect.  The first run leaves the item as it was allocated.
CpuDataCollect ==
  /\ news # <<>> /\ run_count < MaxRuns
  /\ \E now \in Times, content \in StatContents \cup {Unreadable} :
       LET f == UpdateFile(cpu_stat, now, content)
           after == [c \in 1 .. corenum + 1 |-> Jiffies(f.buffer[c])]
       IN  /\ cpu_stat' = f
           /\ last' = [c \in 1 .. Lines |-> IF c \in DOMAIN after THEN after[c] ELSE last[c]]
           /\ data' = IF run_count = 0 THEN data
                      ELSE [c \in DOMAIN after |-> Shares(last[c], after[c])]
           /\ news' = News(now, content)
  /\ run_count' = run_count + 1
  /\ UNCHANGED corenum

CpuNext == CpuEntry \/ CpuDataCollect
CpuSpec == CpuInit /\ [][CpuNext]_cpuVars
----------------------------------------------------------------------------
CpuTypeOK ==
  /\ cpu_stat \in [buffer : StatContents \cup {<<>>}, last_read : Times \cup {0}]
  /\ corenum \in 0 .. Lines - 1
  /\ last \in [1 .. Lines -> [Stats -> [own : Nat, total : Nat]]]
  /\ run_count \in 0 .. MaxRuns
  /\ data = <<>> \/ data \in [1 .. corenum + 1 ->
                               [usage : 0 .. 100, user : 0 .. 100, system : 0 .. 100, iowait : 0 .. 100]]
  /\ news \in Seq([now : Times, content : StatContents, run : 0 .. MaxRuns])

Gain(before, after) == [n \in 1 .. 8 |-> after[n] - before[n]]
Forward(gain) == (\A n \in 1 .. 8 : gain[n] >= 0) /\ \E n \in 1 .. 8 : gain[n] > 0
Total(gain) == gain[1] + gain[2] + gain[3] + gain[4] + gain[5] + gain[6] + gain[7] + gain[8]

\* The gains of a line of the file since the read before, when the last run
\* read something new.
Gains(c) ==
  LET n == Len(news)
  IN  IF n > 1 /\ news[n].run = run_count
      THEN {Gain(news[n - 1].content[c], news[n].content[c])} ELSE {}

\* v is part of total in percent, to the nearest integer.
Near(v, part, total) ==
  /\ total * (2 * v - 1) <= 200 * part
  /\ 200 * part <= total * (2 * v + 1)

(***************************************************************************)
(* From the second run on the shares of the cpu plugin are those of the    *)
(* time since the run before, for the machine and each core, although each *)
(* of the four functions remembers its own totals: the usage is what the   *)
(* idle time leaves, the others add up to no more (but for the rounding),  *)
(* and none leaves 0 to 100, whatever the counters do.  In a run that      *)
(* reads nothing new the machine seems to be fully used, by nobody.        *)
(***************************************************************************)
SharesAreOfThePeriod ==
  run_count > 1 =>
    /\ DOMAIN data \in {1 .. 1, 1 .. Lines}
    /\ \A c \in DOMAIN data :
         LET v == data[c]
         IN  /\ {v.usage, v.user, v.system, v.iowait} \subseteq 0 .. 100
             /\ Gains(c) = {} => v = [usage |-> 100, user |-> 0, system |-> 0, iowait |-> 0]
             /\ \A g \in Gains(c) : Forward(g) =>
                  /\ Near(v.usage, Total(g) - g[4], Total(g))
                  /\ Near(v.user, g[1], Total(g))
                  /\ Near(v.iowait, g[5], Total(g))
                  /\ v.user + v.system + v.iowait <= v.usage + 2

(***************************************************************************)
(* The time in interrupts is part of the time in the system.               *)
(* (cpu_data.c:220, "intr" counted in system; 222, "sintr" counted in      *)
(* system.)                                                                *)
(***************************************************************************)
InterruptsAreSystem ==
  run_count > 1 =>
    \A c \in DOMAIN data : \A g \in Gains(c) : Forward(g) =>
      Near(data[c].system, g[3] + g[6] + g[7], Total(g))
=============================================================================
