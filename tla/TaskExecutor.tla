---------------------------- MODULE TaskExecutor ----------------------------
(***************************************************************************)
(* The executor on semaphores: src/Executor/sema.cpp.                      *)
(*                                                                         *)
(* Workers take the vertices of a graph by number from a shared index.     *)
(* executeTask acquires the vertex's semaphore once per input, adds the    *)
(* vertex's duration to the latest time written for it, raises the global  *)
(* timer to the sum and, edge by edge, raises the time of each successor   *)
(* and releases its semaphore.  The times of the vertices are plain        *)
(* integers in a map that no lock protects: reading one and writing it     *)
(* back are two steps.                                                     *)
(***************************************************************************)
EXTENDS Integers, Sequences, FiniteSets

CONSTANTS
  NumVertices,  \* boost::num_vertices(graph)
  OutEdges,     \* OutEdges[t]: the targets of t's out edges, in their order
  Duration,     \* Duration[t]: the predicted duration of t
  Worker,       \* the threads run() creates
  NotStarted    \* the start of a vertex that has not started

Task == 0..(NumVertices - 1)

\* The i-th out edge of s; boost::vecS allows parallel edges.
Edge == UNION {{<<s, i>> : i \in DOMAIN OutEdges[s]} : s \in Task}

Target(e) == OutEdges[e[1]][e[2]]

InEdges(t) == {e \in Edge : Target(e) = t}

ASSUME ExecutorAssumption ==
  /\ NumVertices \in Nat
  /\ OutEdges \in [Task -> Seq(Task)]
  /\ Duration \in [Task -> Nat]
  /\ NotStarted \notin Nat

VARIABLES
  index,        \* the atomic counter in run()
  pc,           \* where each worker is
  node,         \* node[w]: the vertex w has taken last
  acquired,     \* acquired[t]: how often executeTask(t) has acquired
  semaphores,   \* semaphores[t]: the permits of t
  lastWakerTime,
  start,        \* start[t]: start_time of executeTask(t)
  globalTimer,
  current,      \* current[w]: current_timer in updateGlobalTimer
  edge,         \* edge[w]: the out edge of node[w] that comes next
  latest,       \* latest[w]: the maximum that has not been written back yet
  released      \* history: the edges along which a successor was released

syncVars  == <<acquired, semaphores, released>>
timerVars == <<globalTimer, current>>
edgeVars  == <<edge, latest, lastWakerTime>>
vars == <<index, pc, node, start, syncVars, timerVars, edgeVars>>

Places == {"fetch", "acquire", "load", "raise", "read", "write", "release", "exit"}

----------------------------------------------------------------------------
(* Helpers. *)

InDegree(t) == Cardinality(InEdges(t))

MaxOf(a, b) == IF a >= b THEN a ELSE b

\* predicted_end_time of a vertex that has started.
EndOf(t) == start[t] + Duration[t]

\* The edge that w handles, and where w goes when it has handled k of them.
Handled(w) == <<node[w], edge[w]>>

AfterEdges(w, k) == IF k < Len(OutEdges[node[w]]) THEN "read" ELSE "fetch"

At(w, place) == pc[w] = place

GoTo(w, place) == pc' = [pc EXCEPT ![w] = place]

----------------------------------------------------------------------------
(* The steps of a worker: task_exec, executeTask, updateGlobalTimer. *)

Init ==
  /\ index = 0
  /\ pc = [w \in Worker |-> "fetch"]
  /\ node = [w \in Worker |-> 0]
  /\ acquired = [t \in Task |-> 0]
  /\ semaphores = [t \in Task |-> 0]
  /\ lastWakerTime = [t \in Task |-> 0]
  /\ start = [t \in Task |-> NotStarted]
  /\ globalTimer = 0
  /\ current = [w \in Worker |-> 0]
  /\ edge = [w \in Worker |-> 1]
  /\ latest = [w \in Worker |-> 0]
  /\ released = {}

Fetch(w) ==
  /\ At(w, "fetch")
  /\ index' = index + 1
  /\ IF index < NumVertices
     THEN /\ node' = [node EXCEPT ![w] = index]
          /\ edge' = [edge EXCEPT ![w] = 1]
          /\ GoTo(w, "acquire")
     ELSE /\ GoTo(w, "exit")
          /\ UNCHANGED <<node, edge>>
  /\ UNCHANGED <<start, syncVars, timerVars, latest, lastWakerTime>>

Acquire(w) ==
  /\ At(w, "acquire")
  /\ acquired[node[w]] < InDegree(node[w])
  /\ semaphores[node[w]] > 0
  /\ semaphores' = [semaphores EXCEPT ![node[w]] = @ - 1]
  /\ acquired' = [acquired EXCEPT ![node[w]] = @ + 1]
  /\ UNCHANGED <<index, pc, node, start, released, timerVars, edgeVars>>

\* Mutant: one acquisition stands for all inputs.
StartAfterFirst(w) ==
  /\ At(w, "acquire")
  /\ acquired[node[w]] > 0 \/ InDegree(node[w]) = 0
  /\ start' = [start EXCEPT ![node[w]] = lastWakerTime[node[w]]]
  /\ GoTo(w, "load")
  /\ UNCHANGED <<index, node, syncVars, timerVars, edgeVars>>

\* Mutant: the vertex starts at the time of the global timer.
StartAtTimer(w) ==
  /\ At(w, "acquire")
  /\ acquired[node[w]] = InDegree(node[w])
  /\ start' = [start EXCEPT ![node[w]] = globalTimer]
  /\ GoTo(w, "load")
  /\ UNCHANGED <<index, node, syncVars, timerVars, edgeVars>>

Start(w) ==
  /\ At(w, "acquire")
  /\ acquired[node[w]] = InDegree(node[w])
  /\ start' = [start EXCEPT ![node[w]] = lastWakerTime[node[w]]]
  /\ GoTo(w, "load")
  /\ UNCHANGED <<index, node, syncVars, timerVars, edgeVars>>

LoadTimer(w) ==
  /\ At(w, "load")
  /\ current' = [current EXCEPT ![w] = globalTimer]
  /\ GoTo(w, "raise")
  /\ UNCHANGED <<index, node, start, syncVars, globalTimer, edgeVars>>

\* Mutant: a store in place of the compare-and-exchange.
RaiseTimerStore(w) ==
  /\ At(w, "raise")
  /\ globalTimer' = IF EndOf(node[w]) > current[w] THEN EndOf(node[w]) ELSE globalTimer
  /\ GoTo(w, AfterEdges(w, 0))
  /\ UNCHANGED <<index, node, start, syncVars, current, edgeVars>>

\* Mutant: the exchange gets a copy of current, which is never reloaded.
RaiseTimerNoReload(w) ==
  /\ At(w, "raise")
  /\ \/ /\ EndOf(node[w]) <= current[w]
        /\ GoTo(w, AfterEdges(w, 0))
        /\ UNCHANGED globalTimer
     \/ /\ EndOf(node[w]) > current[w]
        /\ globalTimer = current[w]
        /\ globalTimer' = EndOf(node[w])
        /\ GoTo(w, AfterEdges(w, 0))
     \/ /\ EndOf(node[w]) > current[w]
        /\ globalTimer # current[w]
        /\ UNCHANGED <<pc, globalTimer>>
  /\ UNCHANGED <<index, node, start, syncVars, current, edgeVars>>

\* One turn of the loop around compare_exchange_weak, which reloads current
\* when it fails.  (A spurious failure changes nothing.)
RaiseTimer(w) ==
  /\ At(w, "raise")
  /\ IF EndOf(node[w]) <= current[w]
     THEN GoTo(w, AfterEdges(w, 0)) /\ UNCHANGED timerVars
     ELSE IF globalTimer = current[w]
     THEN /\ globalTimer' = EndOf(node[w])
          /\ GoTo(w, AfterEdges(w, 0))
          /\ UNCHANGED current
     ELSE /\ current' = [current EXCEPT ![w] = globalTimer]
          /\ UNCHANGED <<pc, globalTimer>>
  /\ UNCHANGED <<index, node, start, syncVars, edgeVars>>

ReadWaker(w) ==
  /\ At(w, "read")
  /\ latest' = [latest EXCEPT ![w] =
       MaxOf(lastWakerTime[Target(Handled(w))], EndOf(node[w]))]
  /\ GoTo(w, "write")
  /\ UNCHANGED <<index, node, start, syncVars, timerVars, edge, lastWakerTime>>

WriteWaker(w) ==
  /\ At(w, "write")
  /\ lastWakerTime' = [lastWakerTime EXCEPT ![Target(Handled(w))] = latest[w]]
  /\ GoTo(w, "release")
  /\ UNCHANGED <<index, node, start, syncVars, timerVars, edge, latest>>

\* counting_semaphore<1> may be released once before it is acquired; a vertex
\* with several inputs is released more often.  The counter of the build's
\* library counts on.
Release(w) ==
  /\ At(w, "release")
  /\ semaphores' = [semaphores EXCEPT ![Target(Handled(w))] = @ + 1]
  /\ released' = released \cup {Handled(w)}
  /\ edge' = [edge EXCEPT ![w] = @ + 1]
  /\ GoTo(w, AfterEdges(w, edge[w]))
  /\ UNCHANGED <<index, node, start, acquired, timerVars, latest, lastWakerTime>>

Step(w) ==
  \/ Fetch(w)
  \/ Acquire(w)
  \/ Start(w)
  \/ LoadTimer(w)
  \/ RaiseTimer(w)
  \/ ReadWaker(w)
  \/ WriteWaker(w)
  \/ Release(w)

\* run() has joined all threads.
Finished == (\A w \in Worker : At(w, "exit")) /\ UNCHANGED vars

Next == (\E w \in Worker : Step(w)) \/ Finished

Spec == Init /\ [][Next]_vars

\* Each thread is scheduled; a semaphore need not be fair, because only one
\* thread waits for it.
FairSpec == Spec /\ \A w \in Worker : WF_vars(Step(w))

----------------------------------------------------------------------------
(* Vocabulary of the properties. *)

\* The vertices are numbered in a topological order, as main() numbers them.
Ascending == \A e \in Edge : e[1] < Target(e)

Started(t) == start[t] # NotStarted

\* w is between its acquisitions and the raising of the timer.
BeforeRaise(w) == pc[w] \in {"load", "raise"}

\* w has raised the timer and is releasing successors.
Releasing(w) == pc[w] \in {"read", "write", "release"}

\* The vertices whose predicted end has been published in the timer.
Published == {t \in Task : Started(t) /\ ~\E w \in Worker : node[w] = t /\ BeforeRaise(w)}

----------------------------------------------------------------------------
(* Properties. *)

TypeOK ==
  /\ index \in Nat
  /\ pc \in [Worker -> Places]
  /\ node \in [Worker -> Nat]
  /\ \A w \in Worker : pc[w] \notin {"fetch", "exit"} => node[w] \in Task
  /\ acquired \in [Task -> Nat]
  /\ semaphores \in [Task -> Nat]
  /\ lastWakerTime \in [Task -> Nat]
  /\ start \in [Task -> Nat \cup {NotStarted}]
  /\ globalTimer \in Nat
  /\ current \in [Worker -> Nat]
  /\ edge \in [Worker -> Nat \ {0}]
  /\ latest \in [Worker -> Nat]
  /\ released \subseteq Edge

\* A vertex starts when each of its inputs has been released to it, by a
\* vertex whose end the timer already covers, however permits and workers
\* interleave: counting permits stands for knowing which inputs are there.
InputsReleased ==
  \A t \in Task : Started(t) =>
    \A e \in InEdges(t) :
      e \in released /\ Started(e[1]) /\ EndOf(e[1]) <= globalTimer

\* The compare-and-exchange loses no end: the timer is the latest of the ends
\* published, in every state.
TimerIsLatestEnd ==
  /\ \A t \in Published : EndOf(t) <= globalTimer
  /\ globalTimer = 0 \/ \E t \in Published : EndOf(t) = globalTimer

\* The unprotected maximum may lose the later of two ends, but never makes one
\* up: a vertex starts at the end of one of its inputs, exactly so where it
\* has one input only.
StartIsAnInput ==
  \A t \in Task : Started(t) =>
    IF InEdges(t) = {} THEN start[t] = 0
    ELSE \E e \in InEdges(t) : start[t] = EndOf(e[1])

\* Where edges lead to higher numbers, any number of workers brings run() to
\* its end: the least vertex that has not finished is with a worker, and all
\* its inputs have been or will be released.
Terminates == Ascending => <>(\A w \in Worker : At(w, "exit"))
===========================================================================
