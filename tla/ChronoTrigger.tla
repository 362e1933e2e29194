--------------------------- MODULE ChronoTrigger ---------------------------
(***************************************************************************)
(* ChronoTrigger, which keeps statistics of what passes between a tick and *)
(* a tock of a named task (src/utils, include/utils/Stats.hpp,             *)
(* ReportUtils.hpp), and the objects that own one: each operator, whose    *)
(* performance is probed with it, the pool in DO mode, and a test.         *)
(*                                                                         *)
(* Of the metrics one of each kind is kept: the time, one number, and the  *)
(* energy, one number for each socket.  The others are gathered in the     *)
(* same way.  What is gathered are natural numbers; means and variances    *)
(* are exact, in units of 1 / Unit and 1 / Unit^2.                         *)
(***************************************************************************)
EXTENDS Integers, Sequences, FiniteSetsExt, Functions

CONSTANTS
  User,         \* the owners to consider
  Size,         \* the data sizes that operators are probed with
  Socket,       \* the sockets of the machine: two, as the callers assume
  Reading,      \* what may pass between a tick and a tock
  BiasReading,  \* what may pass between those of dumpAllReport
  PROBE_REP,
  BiasRepeat,   \* BIAS_CORRECTION_REPEAT
  Jobs,         \* bound: the jobs a user does
  Unit,
  DblMax

ASSUME ChronoAssumption ==
  /\ User \subseteq {"operator", "transfer operator", "pool", "test"}
  /\ Reading \cup BiasReading \subseteq [time : Nat, energy : [Socket -> Nat]]
  /\ PROBE_REP \in Nat \ {0} /\ BiasRepeat \in Nat \ {0} /\ Jobs \in Nat
  /\ Unit \in Nat \ {0} /\ DblMax \in Nat
  /\ \A r \in Reading \cup BiasReading :
       Unit * r.time <= DblMax /\ \A s \in Socket : Unit * r.energy[s] <= DblMax
  \* Every mean and variance is a whole number of units.
  /\ \A n \in 1..(Jobs * PROBE_REP) \cup 1..(2 * Jobs * BiasRepeat) : Unit % n = 0

VARIABLES
  user,         \* the owner
  todo,         \* the calls its current job still makes
  jobs,         \* the jobs it has done
  now,          \* the counters of the machine
  task2LastProbe, task2Report,
  answer,       \* the report handed out last, of which task, and its bias
  measured,     \* history: what passed for each name since the last clear
  inJob,        \* history: what passed for each name in the current job
  asked,        \* history: a report has been asked for since the last clear
  inBounds      \* FALSE once an item of a report without items is accessed

counters == <<now, task2LastProbe, task2Report, measured, inJob>>
chronoVars == <<user, todo, jobs, counters, answer, asked, inBounds>>

----------------------------------------------------------------------------
(* Stats. *)

NoStats ==
  [rep |-> 0, mean |-> 0, variance |-> 0, upperBound |-> -DblMax, lowerBound |-> DblMax,
   upperBias |-> 0, lowerBias |-> 0, sum |-> 0]

\* Mutant: the deviations of both means enter the variance.
AddBothMeans(s, newVal) ==
  LET rep   == s.rep + 1
      mean  == s.mean + (newVal - s.mean) \div rep
      upper == IF newVal > s.upperBound THEN newVal ELSE s.upperBound
      lower == IF newVal < s.lowerBound THEN newVal ELSE s.lowerBound
  IN  [rep |-> rep, mean |-> mean,
       variance |-> IF rep = 1 THEN s.variance
                    ELSE ((rep - 2) * s.variance) \div (rep - 1)
                         + ((newVal - s.mean) * (newVal - mean)) \div rep,
       upperBound |-> upper, lowerBound |-> lower,
       upperBias |-> upper - mean, lowerBias |-> mean - lower, sum |-> s.sum + newVal]

\* The divisions leave no rest, by the choice of Unit.
Add(s, newVal) ==
  LET rep   == s.rep + 1
      mean  == s.mean + (newVal - s.mean) \div rep
      upper == IF newVal > s.upperBound THEN newVal ELSE s.upperBound
      lower == IF newVal < s.lowerBound THEN newVal ELSE s.lowerBound
  IN  [rep |-> rep, mean |-> mean,
       variance |-> IF rep = 1 THEN s.variance
                    ELSE ((rep - 2) * s.variance) \div (rep - 1)
                         + ((newVal - s.mean) * (newVal - s.mean)) \div rep,
       upperBound |-> upper, lowerBound |-> lower,
       upperBias |-> upper - mean, lowerBias |-> mean - lower, sum |-> s.sum + newVal]

\* Mutant: the bias is taken from the sum once, not once per measurement.
MinusOnce(s, bias) ==
  IF bias.mean > s.mean THEN NoStats
  ELSE [s EXCEPT !.mean = @ - bias.mean, !.sum = @ - bias.mean,
                 !.upperBound = @ - bias.mean, !.lowerBound = @ - bias.mean]

\* operator-= of a reportItem: a mean below that of the bias is noise.
Minus(s, bias) ==
  IF bias.mean > s.mean THEN NoStats
  ELSE [s EXCEPT !.mean = @ - bias.mean, !.sum = @ - s.rep * bias.mean,
                 !.upperBound = @ - bias.mean, !.lowerBound = @ - bias.mean]

----------------------------------------------------------------------------
(* Reports. *)

\* A Report made by operator[] of the map: it has no items.
EmptyReport == [items |-> FALSE]

Fresh == [items |-> TRUE, time |-> NoStats, energy |-> [s \in Socket |-> NoStats]]

AddData(report, reading) ==
  [items  |-> report.items,
   time   |-> Add(report.time, Unit * reading.time),
   energy |-> [s \in Socket |-> Add(report.energy[s], Unit * reading.energy[s])]]

\* operator-= of a Report goes through the items of the bias.
Corrected(report, bias) ==
  IF bias.items
  THEN [report EXCEPT !.time = Minus(@, bias.time),
                      !.energy = [s \in Socket |-> Minus(@[s], bias.energy[s])]]
  ELSE report

\* What metric2Func makes of two states of the counters.
Gathered(before, after) ==
  [time |-> after.time - before.time,
   energy |-> [s \in Socket |-> after.energy[s] - before.energy[s]]]

Later(state, reading) ==
  [time |-> state.time + reading.time,
   energy |-> [s \in Socket |-> state.energy[s] + reading.energy[s]]]

With(map, key, value) ==
  [k \in DOMAIN map \cup {key} |-> IF k = key THEN value ELSE map[k]]

DataOf(history, name) == IF name \in DOMAIN history THEN history[name] ELSE <<>>

OrEmpty(name) == IF name \in DOMAIN task2Report THEN task2Report[name] ELSE EmptyReport

Bias == <<"__BIAS__", 0>>

NoAnswer == [name |-> Bias, report |-> EmptyReport, bias |-> EmptyReport]

----------------------------------------------------------------------------
(* The calls. *)

OutOfBounds ==
  /\ inBounds' = FALSE
  /\ UNCHANGED <<counters, answer, asked>>

Tick(name) ==
  /\ task2LastProbe' = With(task2LastProbe, name, now)
  /\ UNCHANGED <<now, task2Report, measured, inJob, answer, asked, inBounds>>

Passing(name) == IF name = Bias THEN BiasReading ELSE Reading

\* What passes from the tick on is part of the call that ends it.
Tock(name) ==
  IF name \in DOMAIN task2Report /\ ~task2Report[name].items THEN OutOfBounds
  ELSE \E reading \in Passing(name) :
    LET after  == Later(now, reading)
        data   == Gathered(task2LastProbe[name], after)
        report == IF name \in DOMAIN task2Report THEN task2Report[name] ELSE Fresh
    IN  /\ now' = after
        /\ task2Report' = With(task2Report, name, AddData(report, data))
        /\ measured' = With(measured, name, Append(DataOf(measured, name), reading))
        /\ inJob' = With(inJob, name, Append(DataOf(inJob, name), reading))
        /\ UNCHANGED <<task2LastProbe, answer, asked, inBounds>>

\* Asking makes empty reports of those that are not there.
GetReport(name) ==
  IF OrEmpty(Bias).items /\ ~OrEmpty(name).items THEN OutOfBounds
  ELSE /\ task2Report' = With(With(task2Report, name, OrEmpty(name)), Bias, OrEmpty(Bias))
       /\ answer' = [name |-> name, report |-> Corrected(OrEmpty(name), OrEmpty(Bias)),
                     bias |-> OrEmpty(Bias)]
       /\ asked' = TRUE
       /\ UNCHANGED <<now, task2LastProbe, measured, inJob, inBounds>>

\* Mutant: the bias is erased when the files are written.
DumpAllReportErases ==
  \E name \in DOMAIN task2Report \ {Bias} :
    /\ answer' = [name |-> name, report |-> Corrected(task2Report[name], task2Report[Bias]),
                  bias |-> task2Report[Bias]]
    /\ task2Report' = With(task2Report, Bias, EmptyReport)
    /\ UNCHANGED <<now, task2LastProbe, measured, inJob, asked, inBounds>>

\* When the bias has been measured, each other report is written as getReport
\* would give it, here one of them.
DumpAllReport ==
  \E name \in DOMAIN task2Report \ {Bias} :
    /\ answer' = [name |-> name, report |-> Corrected(task2Report[name], task2Report[Bias]),
                  bias |-> task2Report[Bias]]
    /\ UNCHANGED <<counters, asked, inBounds>>

Clear ==
  /\ task2Report' = <<>>
  /\ task2LastProbe' = <<>>
  /\ measured' = <<>>
  /\ asked' = FALSE
  /\ UNCHANGED <<now, inJob, answer, inBounds>>

----------------------------------------------------------------------------
(* The users: each job is a sequence of calls. *)

Call(call, name) == [call |-> call, name |-> name]

TickTock(name, rep) ==
  [i \in 1..(2 * rep) |-> Call(IF i % 2 = 1 THEN "tick" ELSE "tock", name)]

\* Mutant: probing the CPU does not clear either.
CPUProbeKeeps(size) ==
  LET name == <<"CPU", size>>
  IN  TickTock(name, PROBE_REP) \o <<Call("getReport", name)>>

\* execCPUwithProbe; the warm-up runs are not measured.
CPUProbe(size) ==
  LET name == <<"CPU", size>>
  IN  TickTock(name, PROBE_REP) \o <<Call("getReport", name), Call("clear", name)>>

\* execDPUwithProbe does not clear.
DPUProbe(size) ==
  LET name == <<"DPU", size>>
  IN  TickTock(name, PROBE_REP) \o <<Call("getReport", name)>>

\* trainModel, for one sample: the DPUs come second, if at all.
Sample(size) == CPUProbe(size) \o DPUProbe(size)

\* execWorkload in DO mode; cleanStatus clears.
Workload ==
  LET name == <<"HCP", 0>>
  IN  <<Call("clear", name), Call("tick", name), Call("tock", name), Call("getReport", name)>>

\* dumpAllReport: the bias first.
Dump == TickTock(Bias, BiasRepeat) \o <<Call("dump", Bias)>>

\* What a program may do with a ChronoTrigger of its own: measure and look at
\* the reports, in either way, as tests/utilTest.cpp does.
Naive == <<"naive", 0>>

Looks == {<<>>, <<Call("getReport", Naive)>>, Dump}

OwnUses ==
  {TickTock(Naive, PROBE_REP) \o (first \o second) : first \in Looks, second \in Looks}

JobsOf(u) ==
  CASE u = "operator" -> {Sample(size) : size \in Size}
    [] u = "transfer operator" -> {CPUProbe(size) : size \in Size}
    [] u = "pool" -> {Workload}
    [] u = "test" -> OwnUses

ChronoInit ==
  /\ user \in User
  /\ todo = <<>>
  /\ jobs = 0
  /\ now = [time |-> 0, energy |-> [s \in Socket |-> 0]]
  /\ task2LastProbe = <<>> /\ task2Report = <<>> /\ measured = <<>>
  /\ answer = NoAnswer
  /\ inJob = <<>>
  /\ asked = FALSE
  /\ inBounds = TRUE

Begin ==
  /\ todo = <<>>
  /\ jobs < Jobs
  /\ jobs' = jobs + 1
  /\ todo' \in JobsOf(user)
  /\ inJob' = <<>>
  /\ UNCHANGED <<user, now, task2LastProbe, task2Report, measured, answer, asked, inBounds>>

DoCall ==
  /\ inBounds /\ todo # <<>>
  /\ LET name == Head(todo).name IN
     CASE Head(todo).call = "tick" -> Tick(name)
       [] Head(todo).call = "tock" -> Tock(name)
       [] Head(todo).call = "getReport" -> GetReport(name)
       [] Head(todo).call = "dump" -> DumpAllReport
       [] Head(todo).call = "clear" -> Clear
  /\ todo' = Tail(todo)
  /\ UNCHANGED <<user, jobs>>

JobsDone == (~inBounds \/ (todo = <<>> /\ jobs = Jobs)) /\ UNCHANGED chronoVars

ChronoNext == Begin \/ DoCall \/ JobsDone

ChronoSpec == ChronoInit /\ [][ChronoNext]_chronoVars

----------------------------------------------------------------------------
(* Vocabulary of the properties. *)

SumOf(data) == MapThenSumSet(LAMBDA i : data[i], DOMAIN data)

\* s holds the statistics of data by their definitions, in units.
IsStatsOf(s, data) ==
  LET rep     == Len(data)
      squares == [i \in DOMAIN data |-> data[i] * data[i]]
  IN  /\ s.rep = rep
      /\ s.sum = Unit * SumOf(data)
      /\ s.mean * rep = s.sum
      /\ s.variance * rep * (rep - 1)
           = Unit * Unit * (rep * SumOf(squares) - SumOf(data) * SumOf(data))
      /\ \A i \in DOMAIN data : s.lowerBound <= Unit * data[i] /\ Unit * data[i] <= s.upperBound
      /\ {s.lowerBound, s.upperBound} \subseteq {Unit * data[i] : i \in DOMAIN data}

Times(readings) == [i \in DOMAIN readings |-> readings[i].time]

Energies(readings, s) == [i \in DOMAIN readings |-> readings[i].energy[s]]

IsReportOf(report, readings) ==
  /\ report.items
  /\ IsStatsOf(report.time, Times(readings))
  /\ \A s \in Socket : IsStatsOf(report.energy[s], Energies(readings, s))

\* What passed for a name in the current job.
InJob(name) == DataOf(inJob, name)

\* The current job has got its answer for the name.
Answered(name) == InJob(name) # <<>> /\ Call("getReport", name) \notin Range(todo)

Shifted(s, bias) ==
  IF s.rep = 0 THEN s = NoStats
  ELSE /\ s.mean * s.rep = s.sum
       /\ 0 <= s.mean /\ s.lowerBound <= s.mean /\ s.mean <= s.upperBound
       /\ s.upperBias = s.upperBound - s.mean
       /\ s.lowerBias = s.mean - s.lowerBound
       /\ s.lowerBound + bias.mean >= 0

----------------------------------------------------------------------------
(* Properties. *)

\* Whatever is measured in between, each report holds, number by number and
\* socket by socket, the statistics of what passed between the ticks and tocks
\* of its name since the last clear: the incremental mean and variance are those
\* of the definition.
StatsMatchData ==
  inBounds =>
    \A name \in DOMAIN measured :
      name \in DOMAIN task2Report /\ IsReportOf(task2Report[name], measured[name])

\* A probe answers with the runs it has just made and no others, though the
\* operator uses the same names again for the next sample of that size and
\* probing the DPUs leaves its report behind: the probe of the CPU that comes
\* before has cleared.  The same for workload after workload of a pool.
ProbeIsFresh ==
  user # "test" /\ Answered(answer.name) =>
    IsReportOf(answer.report, InJob(answer.name))

\* A report corrected by the bias is still one report: its sum is that of its
\* mean, which lies within its bounds and is never negative, or all of it has
\* been discarded as noise.
CorrectedIsConsistent ==
  answer.report.items /\ answer.bias.items =>
    /\ Shifted(answer.report.time, answer.bias.time)
    /\ \A s \in Socket : Shifted(answer.report.energy[s], answer.bias.energy[s])

\* Whatever has no defined behaviour comes from a dump after a report has been
\* asked for, which leaves an empty report of the bias behind.
UndefinedOnlyAfterQuery == ~inBounds => asked /\ Bias \notin DOMAIN measured
=============================================================================
