------------------------ MODULE TaskExecutor_proofs ------------------------
(***************************************************************************)
(* Theorems about TaskExecutor for every graph (with parallel edges, with  *)
(* cycles, numbered in any order), all durations and any set of workers.   *)
(*                                                                         *)
(* ExecInv is the inductive invariant.  A vertex belongs to one worker at  *)
(* most (Claimed); what has been released comes from a vertex whose worker *)
(* has raised the timer and gone past that edge (Sources); the permits     *)
(* given and taken count the edges released (Permits); and the times       *)
(* written for a vertex are ends of its inputs (Written).                  *)
(***************************************************************************)
EXTENDS TaskExecutor, FiniteFolds

Active(w) == pc[w] \notin {"fetch", "exit"}

\* Workers are on different vertices below the index; nothing from the index on
\* has started, and a vertex starts when its worker leaves "acquire".
Claimed ==
  /\ \A w \in Worker : Active(w) => node[w] < index
  /\ \A v, w \in Worker : Active(v) /\ Active(w) /\ node[v] = node[w] => v = w
  /\ \A t \in Task : t >= index => ~Started(t)
  /\ \A w \in Worker : Active(w) => (Started(node[w]) <=> ~At(w, "acquire"))

\* What a worker has loaded is not ahead of the timer.
Loaded == \A w \in Worker : At(w, "raise") => current[w] <= globalTimer

\* While it releases, a worker is on an edge of its vertex; it begins with the
\* first.
OnEdge ==
  \A w \in Worker :
    /\ Releasing(w) => Handled(w) \in Edge
    /\ Active(w) /\ ~Releasing(w) => edge[w] = 1

\* A released edge leaves a vertex that has started, whose end the timer covers,
\* and whose worker, if it has not gone on, is past that edge.
Sources ==
  \A e \in released :
    /\ Started(e[1]) /\ EndOf(e[1]) <= globalTimer
    /\ \A w \in Worker : Active(w) /\ node[w] = e[1] => Releasing(w) /\ e[2] < edge[w]

\* A worker that releases has raised the timer to its vertex's end.
Raised == \A w \in Worker : Releasing(w) => EndOf(node[w]) <= globalTimer

Permits ==
  \A t \in Task : semaphores[t] + acquired[t] = Cardinality(released \cap InEdges(t))

\* x is the end of an input of t.
IsInputEnd(x, t) == \E e \in InEdges(t) : Started(e[1]) /\ x = EndOf(e[1])

\* The time written for t is 0 until an input has written; what has been
\* written, or is about to be, is the end of an input.
Written ==
  /\ \A t \in Task : lastWakerTime[t] = 0 \/ IsInputEnd(lastWakerTime[t], t)
  /\ \A e \in released : IsInputEnd(lastWakerTime[Target(e)], Target(e))
  /\ \A w \in Worker : At(w, "write") => IsInputEnd(latest[w], Target(Handled(w)))
  /\ \A w \in Worker :
       At(w, "release") =>
         IsInputEnd(lastWakerTime[Target(Handled(w))], Target(Handled(w)))

ExecInv ==
  /\ TypeOK /\ Claimed /\ Loaded /\ OnEdge /\ Raised /\ Sources /\ Permits
  /\ Written /\ InputsReleased /\ TimerIsLatestEnd /\ StartIsAnInput

----------------------------------------------------------------------------
(* The graph. *)

LEMMA EdgeTyped ==
  /\ \A e \in Edge : e[1] \in Task /\ e[2] \in Nat \ {0} /\ Target(e) \in Task /\ e = <<e[1], e[2]>>
  /\ \A t \in Task : \A i \in DOMAIN OutEdges[t] : <<t, i>> \in Edge
  /\ \A t \in Task : Len(OutEdges[t]) \in Nat /\ DOMAIN OutEdges[t] = 1..Len(OutEdges[t])
PROOF
  <1>1. \A t \in Task : OutEdges[t] \in Seq(Task)
    BY ExecutorAssumption
  <1>2. \A t \in Task : Len(OutEdges[t]) \in Nat /\ DOMAIN OutEdges[t] = 1..Len(OutEdges[t])
    BY <1>1
  <1>3. \A t \in Task : \A i \in DOMAIN OutEdges[t] : OutEdges[t][i] \in Task
    BY <1>1
  <1>4. \A t \in Task : \A i \in DOMAIN OutEdges[t] : <<t, i>> \in Edge
    BY DEF Edge
  <1>5. ASSUME NEW e \in Edge
        PROVE  e[1] \in Task /\ e[2] \in Nat \ {0} /\ Target(e) \in Task /\ e = <<e[1], e[2]>>
    <2>1. PICK s \in Task : \E i \in DOMAIN OutEdges[s] : e = <<s, i>>
      BY DEF Edge
    <2> QED  BY <2>1, <1>2, <1>3 DEF Target
  <1> QED  BY <1>2, <1>4, <1>5

\* The graph is finite, so that counting permits tells whether all are there.
LEMMA EdgesFinite == IsFiniteSet(Edge) /\ \A t \in Task : IsFiniteSet(InEdges(t))
PROOF
  <1> DEFINE f == [s \in Task |-> {<<s, i>> : i \in DOMAIN OutEdges[s]}]
  <1>1. IsFiniteSet(Task)
    BY ExecutorAssumption, FS_Interval DEF Task
  <1>2. ASSUME NEW s \in Task  PROVE IsFiniteSet(f[s])
    <2> DEFINE g == [i \in DOMAIN OutEdges[s] |-> <<s, i>>]
    <2>1. IsFiniteSet(DOMAIN OutEdges[s])
      <3>1. Len(OutEdges[s]) \in Int /\ DOMAIN OutEdges[s] = 1..Len(OutEdges[s])
        BY EdgeTyped
      <3> QED  BY <3>1, FS_Interval
    <2>2. IsFiniteSet({g[i] : i \in DOMAIN OutEdges[s]})
      <3> HIDE DEF g
      <3>1. DOMAIN g = DOMAIN OutEdges[s]
        BY DEF g
      <3> QED  BY <2>1, <3>1, FiniteImage
    <2>3. {g[i] : i \in DOMAIN OutEdges[s]} = f[s]
      OBVIOUS
    <2> QED  BY <2>2, <2>3
  <1>3. IsFiniteSet({f[s] : s \in Task})
    <2> HIDE DEF f
    <2>1. DOMAIN f = Task
      BY DEF f
    <2> QED  BY <1>1, <2>1, FiniteImage
  <1>4. IsFiniteSet(UNION {f[s] : s \in Task})
    <2> HIDE DEF f
    <2>1. \A T \in {f[s] : s \in Task} : IsFiniteSet(T)
      BY <1>2
    <2> QED  BY <1>3, <2>1, FS_UNION
  <1>5. UNION {f[s] : s \in Task} = Edge
    BY DEF Edge
  <1>6. IsFiniteSet(Edge)
    BY <1>4, <1>5
  <1>7. \A t \in Task : InEdges(t) \in SUBSET Edge
    BY DEF InEdges
  <1> QED  BY <1>6, <1>7, FS_Subset

----------------------------------------------------------------------------
(* What a step leaves alone. *)

LEMMA ActiveTyped ==
  ASSUME TypeOK, NEW w \in Worker, Active(w)
  PROVE  node[w] \in Task /\ pc[w] \in Places
  BY DEF TypeOK, Active

LEMMA EndTyped ==
  ASSUME TypeOK, NEW t \in Task, Started(t)
  PROVE  start[t] \in Nat /\ EndOf(t) \in Nat
  BY ExecutorAssumption DEF TypeOK, Started, EndOf

\* A vertex starts once: its end never changes.
LEMMA EndsStay ==
  ASSUME ExecInv, NEW w \in Worker, Step(w), NEW t \in Task, Started(t)
  PROVE  start'[t] = start[t] /\ Started(t)' /\ EndOf(t)' = EndOf(t)
PROOF
  <1>1. start'[t] = start[t]
    <2>1. CASE Start(w)
      <3>1. node[w] # t
        BY <2>1 DEF ExecInv, Claimed, Start, At, Active
      <3> QED  BY <2>1, <3>1 DEF Start, ExecInv, TypeOK
    <2>2. CASE ~Start(w)
      BY <2>2 DEF Step, Fetch, Acquire, LoadTimer, RaiseTimer, ReadWaker, WriteWaker, Release
    <2> QED  BY <2>1, <2>2
  <1> QED  BY <1>1 DEF Started, EndOf

LEMMA InputEndsStay ==
  ASSUME ExecInv, NEW w \in Worker, Step(w), NEW x, NEW t \in Task, IsInputEnd(x, t)
  PROVE  IsInputEnd(x, t)'
PROOF
  <1>1. PICK e \in InEdges(t) : Started(e[1]) /\ x = EndOf(e[1])
    BY DEF IsInputEnd
  <1>2. e[1] \in Task
    BY EdgeTyped DEF InEdges
  <1>3. Started(e[1])' /\ EndOf(e[1])' = EndOf(e[1])
    BY <1>1, <1>2, EndsStay
  <1> QED  BY <1>1, <1>3 DEF IsInputEnd

\* The others stay where they are.
LEMMA OthersStay ==
  ASSUME ExecInv, NEW w \in Worker, Step(w), NEW v \in Worker, v # w
  PROVE  pc'[v] = pc[v] /\ node'[v] = node[v] /\ edge'[v] = edge[v]
         /\ current'[v] = current[v] /\ latest'[v] = latest[v]
PROOF
  <1> USE DEF ExecInv, TypeOK, GoTo
  <1>1. CASE Fetch(w)       BY <1>1 DEF Fetch, timerVars
  <1>2. CASE Acquire(w)     BY <1>2 DEF Acquire, timerVars, edgeVars
  <1>3. CASE Start(w)       BY <1>3 DEF Start, timerVars, edgeVars
  <1>4. CASE LoadTimer(w)   BY <1>4 DEF LoadTimer, edgeVars
  <1>5. CASE RaiseTimer(w)  BY <1>5 DEF RaiseTimer, timerVars, edgeVars
  <1>6. CASE ReadWaker(w)   BY <1>6 DEF ReadWaker, timerVars
  <1>7. CASE WriteWaker(w)  BY <1>7 DEF WriteWaker, timerVars
  <1>8. CASE Release(w)     BY <1>8 DEF Release, timerVars
  <1> QED  BY <1>1, <1>2, <1>3, <1>4, <1>5, <1>6, <1>7, <1>8 DEF Step

----------------------------------------------------------------------------
(* Each part of the invariant is preserved. *)

LEMMA TypeStep ==
  ASSUME ExecInv, NEW w \in Worker, Step(w)
  PROVE  TypeOK'
PROOF
  <1> USE DEF ExecInv, TypeOK, GoTo, At, Places, Active
  <1>1. CASE Fetch(w)
    <2>1. CASE index < NumVertices
      <3>1. index \in Nat /\ index \in Task /\ index + 1 \in Nat
        BY <2>1, ExecutorAssumption DEF Task
      <3>2. pc' = [pc EXCEPT ![w] = "acquire"] /\ node' = [node EXCEPT ![w] = index]
            /\ edge' = [edge EXCEPT ![w] = 1] /\ index' = index + 1
        BY <1>1, <2>1 DEF Fetch
      <3>3. \A v \in Worker : pc'[v] \notin {"fetch", "exit"} => node'[v] \in Task
        BY <3>1, <3>2
      <3>4. pc' \in [Worker -> Places] /\ node' \in [Worker -> Nat]
            /\ edge' \in [Worker -> Nat \ {0}]
        BY <3>1, <3>2
      <3> QED  BY <1>1, <3>1, <3>2, <3>3, <3>4 DEF Fetch, timerVars, syncVars
    <2>2. CASE ~(index < NumVertices)
      BY <1>1, <2>2 DEF Fetch, timerVars, syncVars
    <2> QED  BY <2>1, <2>2
  <1>2. CASE Acquire(w)
    <2>1. semaphores[node[w]] - 1 \in Nat /\ acquired[node[w]] + 1 \in Nat
      BY <1>2 DEF Acquire
    <2> QED  BY <1>2, <2>1 DEF Acquire, timerVars, edgeVars
  <1>3. CASE Start(w)
    BY <1>3 DEF Start, timerVars, edgeVars, syncVars
  <1>4. CASE LoadTimer(w)
    BY <1>4 DEF LoadTimer, edgeVars, syncVars
  <1>5. CASE RaiseTimer(w)
    <2>1. EndOf(node[w]) \in Nat /\ AfterEdges(w, 0) \in {"read", "fetch"}
      BY <1>5, EndTyped DEF RaiseTimer, Claimed, AfterEdges
    <2> QED  BY <1>5, <2>1 DEF RaiseTimer, timerVars, edgeVars, syncVars
  <1>6. CASE ReadWaker(w)
    <2>1. EndOf(node[w]) \in Nat /\ Target(Handled(w)) \in Task
      BY <1>6, EndTyped, EdgeTyped DEF ReadWaker, Claimed, OnEdge, Releasing
    <2> QED  BY <1>6, <2>1 DEF ReadWaker, timerVars, syncVars, MaxOf
  <1>7. CASE WriteWaker(w)
    BY <1>7 DEF WriteWaker, timerVars, syncVars
  <1>8. CASE Release(w)
    <2>1. Handled(w) \in Edge /\ Target(Handled(w)) \in Task
      BY <1>8, EdgeTyped DEF Release, OnEdge, Releasing
    <2>2. edge[w] + 1 \in Nat \ {0} /\ AfterEdges(w, edge[w]) \in {"read", "fetch"}
      BY DEF AfterEdges
    <2>3. semaphores[Target(Handled(w))] + 1 \in Nat
      BY <2>1
    <2> QED  BY <1>8, <2>1, <2>2, <2>3 DEF Release, timerVars
  <1> QED  BY <1>1, <1>2, <1>3, <1>4, <1>5, <1>6, <1>7, <1>8 DEF Step

\* A worker that takes a vertex takes one that nobody has taken; the others move
\* on with the one they have.
LEMMA ClaimedStep ==
  ASSUME ExecInv, NEW w \in Worker, Step(w)
  PROVE  Claimed'
PROOF
  <1> USE DEF ExecInv, GoTo, At, Active, Started
  <1>1. CASE Fetch(w)
    <2>1. index \in Nat /\ index' = index + 1 /\ start' = start /\ pc \in [Worker -> Places]
          /\ node \in [Worker -> Nat]
      BY <1>1 DEF TypeOK, Fetch
    <2>2. \A t \in Task : t \in Nat
      BY DEF Task
    <2>3. CASE index < NumVertices
      <3>1. pc' = [pc EXCEPT ![w] = "acquire"] /\ node' = [node EXCEPT ![w] = index]
            /\ index \in Task
        BY <1>1, <2>1, <2>3, ExecutorAssumption DEF Fetch, Task
      <3> QED  BY <2>1, <2>2, <3>1 DEF Claimed
    <2>4. CASE ~(index < NumVertices)
      <3>1. pc' = [pc EXCEPT ![w] = "exit"] /\ node' = node
        BY <1>1, <2>4 DEF Fetch
      <3> QED  BY <2>1, <2>2, <3>1 DEF Claimed
    <2> QED  BY <2>3, <2>4
  <1>2. CASE Acquire(w)
    BY <1>2 DEF TypeOK, Claimed, Acquire
  <1>3. CASE Start(w)
    <2>1. node[w] \in Task
      BY <1>3 DEF TypeOK, Start
    <2>2. lastWakerTime[node[w]] \in Nat /\ NotStarted \notin Nat
      BY <2>1, ExecutorAssumption DEF TypeOK
    <2> QED  BY <1>3, <2>1, <2>2 DEF TypeOK, Claimed, Start
  <1>4. CASE LoadTimer(w)
    BY <1>4 DEF TypeOK, Claimed, LoadTimer
  <1>5. CASE RaiseTimer(w)
    <2>1. AfterEdges(w, 0) \in {"read", "fetch"}
      BY DEF AfterEdges
    <2> QED  BY <1>5, <2>1 DEF TypeOK, Claimed, RaiseTimer
  <1>6. CASE ReadWaker(w)
    BY <1>6 DEF TypeOK, Claimed, ReadWaker
  <1>7. CASE WriteWaker(w)
    BY <1>7 DEF TypeOK, Claimed, WriteWaker
  <1>8. CASE Release(w)
    <2>1. AfterEdges(w, edge[w]) \in {"read", "fetch"}
      BY DEF AfterEdges
    <2> QED  BY <1>8, <2>1 DEF TypeOK, Claimed, Release
  <1> QED  BY <1>1, <1>2, <1>3, <1>4, <1>5, <1>6, <1>7, <1>8 DEF Step

\* The timer never goes back.
LEMMA TimerGrows ==
  ASSUME ExecInv, NEW w \in Worker, Step(w)
  PROVE  globalTimer' \in Nat /\ globalTimer' >= globalTimer
PROOF
  <1>1. CASE RaiseTimer(w)
    <2>1. EndOf(node[w]) \in Nat
      BY <1>1, EndTyped DEF RaiseTimer, At, Active, ExecInv, TypeOK, Claimed
    <2> QED  BY <1>1, <2>1 DEF RaiseTimer, ExecInv, TypeOK, timerVars
  <1>2. CASE ~RaiseTimer(w)
    BY <1>2 DEF Step, Fetch, Acquire, Start, LoadTimer, ReadWaker, WriteWaker, Release,
                timerVars, ExecInv, TypeOK
  <1> QED  BY <1>1, <1>2

LEMMA LoadedStep ==
  ASSUME ExecInv, NEW w \in Worker, Step(w)
  PROVE  Loaded'
PROOF
  <1> SUFFICES ASSUME NEW v \in Worker, At(v, "raise")'
               PROVE  current'[v] <= globalTimer'
    BY DEF Loaded
  <1>0. current[v] \in Nat /\ globalTimer \in Nat /\ globalTimer' \in Nat /\ globalTimer' >= globalTimer
    BY TimerGrows DEF ExecInv, TypeOK
  <1>1. CASE v # w
    <2>1. At(v, "raise") /\ current'[v] = current[v]
      BY <1>1, OthersStay DEF At
    <2> QED  BY <1>0, <2>1 DEF ExecInv, Loaded
  <1>2. CASE v = w
    <2>1. CASE LoadTimer(w)
      BY <1>0, <1>2, <2>1 DEF LoadTimer, ExecInv, TypeOK
    <2>2. CASE RaiseTimer(w)
      <3>1. AfterEdges(w, 0) \in {"read", "fetch"}
        BY DEF AfterEdges
      <3> QED  BY <1>0, <1>2, <2>2, <3>1 DEF RaiseTimer, At, GoTo, ExecInv, TypeOK, Loaded, timerVars
    <2>3. CASE ~LoadTimer(w) /\ ~RaiseTimer(w)
      <3>1. AfterEdges(w, edge[w]) \in {"read", "fetch"}
        BY DEF AfterEdges
      <3> QED  BY <1>2, <2>3, <3>1 DEF Step, Fetch, Acquire, Start, ReadWaker, WriteWaker, Release,
                 At, GoTo, ExecInv, TypeOK
    <2> QED  BY <2>1, <2>2, <2>3
  <1> QED  BY <1>1, <1>2

LEMMA OnEdgeStep ==
  ASSUME ExecInv, NEW w \in Worker, Step(w)
  PROVE  OnEdge'
PROOF
  <1> USE DEF GoTo, At, Active, Releasing
  <1>0. pc \in [Worker -> Places] /\ edge \in [Worker -> Nat \ {0}] /\ node \in [Worker -> Nat]
    BY DEF ExecInv, TypeOK
  <1>1. ASSUME NEW v \in Worker, v # w
        PROVE  (Releasing(v)' => Handled(v)' \in Edge) /\ (Active(v)' /\ ~Releasing(v)' => edge'[v] = 1)
    BY <1>1, OthersStay DEF ExecInv, OnEdge, Handled
  <1>2. Releasing(w)' => Handled(w)' \in Edge
    <2>1. CASE RaiseTimer(w)
      <3>1. node'[w] = node[w] /\ edge'[w] = 1 /\ node[w] \in Task
        BY <1>0, <2>1 DEF RaiseTimer, ExecInv, TypeOK, OnEdge, edgeVars
      <3>2. Releasing(w)' => 0 < Len(OutEdges[node[w]])
        BY <1>0, <2>1 DEF RaiseTimer, AfterEdges
      <3>3. 0 < Len(OutEdges[node[w]]) => 1 \in DOMAIN OutEdges[node[w]]
        BY <3>1, EdgeTyped
      <3> QED  BY <3>1, <3>2, <3>3, EdgeTyped DEF Handled
    <2>2. CASE Release(w)
      <3>1. node'[w] = node[w] /\ edge'[w] = edge[w] + 1 /\ node[w] \in Task
        BY <1>0, <2>2 DEF Release, ExecInv, TypeOK
      <3>2. Releasing(w)' => edge[w] < Len(OutEdges[node[w]])
        BY <1>0, <2>2 DEF Release, AfterEdges
      <3>3. edge[w] < Len(OutEdges[node[w]]) => edge[w] + 1 \in DOMAIN OutEdges[node[w]]
        BY <1>0, <3>1, EdgeTyped
      <3> QED  BY <3>1, <3>2, <3>3, EdgeTyped DEF Handled
    <2>3. CASE ReadWaker(w) \/ WriteWaker(w)
      BY <1>0, <2>3 DEF ReadWaker, WriteWaker, ExecInv, OnEdge, Handled
    <2>4. CASE Fetch(w) \/ Acquire(w) \/ Start(w) \/ LoadTimer(w)
      BY <1>0, <2>4 DEF Fetch, Acquire, Start, LoadTimer
    <2> QED  BY <2>1, <2>2, <2>3, <2>4 DEF Step
  <1>3. Active(w)' /\ ~Releasing(w)' => edge'[w] = 1
    <2>1. AfterEdges(w, 0) \in {"read", "fetch"} /\ AfterEdges(w, edge[w]) \in {"read", "fetch"}
      BY DEF AfterEdges
    <2>2. CASE Fetch(w)
      BY <1>0, <2>2 DEF Fetch
    <2>3. CASE ~Fetch(w)
      BY <1>0, <2>1, <2>3 DEF Step, Acquire, Start, LoadTimer, RaiseTimer, ReadWaker, WriteWaker,
               Release, edgeVars, ExecInv, OnEdge
    <2> QED  BY <2>2, <2>3
  <1> QED  BY <1>1, <1>2, <1>3 DEF OnEdge

LEMMA RaisedStep ==
  ASSUME ExecInv, NEW w \in Worker, Step(w)
  PROVE  Raised'
PROOF
  <1> USE DEF GoTo, At, Active, Releasing
  <1> SUFFICES ASSUME NEW v \in Worker, Releasing(v)'
               PROVE  EndOf(node[v])' <= globalTimer'
    BY DEF Raised
  <1>0. pc \in [Worker -> Places] /\ globalTimer \in Nat /\ globalTimer' \in Nat
        /\ globalTimer' >= globalTimer
    BY TimerGrows DEF ExecInv, TypeOK
  <1>1. ASSUME Releasing(v), node'[v] = node[v]
        PROVE  EndOf(node[v])' <= globalTimer'
    <2>1. node[v] \in Task /\ Started(node[v])
      BY <1>1 DEF ExecInv, TypeOK, Claimed
    <2>2. EndOf(node[v])' = EndOf(node[v]) /\ EndOf(node[v]) \in Nat
      BY <1>1, <2>1, EndsStay, EndTyped DEF ExecInv, EndOf
    <2> QED  BY <1>0, <1>1, <2>2 DEF ExecInv, Raised
  <1>2. CASE v # w
    BY <1>1, <1>2, OthersStay
  <1>3. CASE v = w /\ RaiseTimer(w)
    <2>1. node[w] \in Task /\ Started(node[w]) /\ node' = node
      BY <1>3 DEF ExecInv, TypeOK, Claimed, RaiseTimer
    <2>2. EndOf(node[w])' = EndOf(node[w]) /\ EndOf(node[w]) \in Nat
      BY <2>1, EndsStay, EndTyped DEF ExecInv, EndOf
    <2>3. current[w] \in Nat /\ current[w] <= globalTimer
      BY <1>3 DEF ExecInv, TypeOK, Loaded, RaiseTimer
    <2>4. EndOf(node[w]) <= globalTimer'
      BY <1>0, <1>3, <2>2, <2>3 DEF RaiseTimer, timerVars
    <2> QED  BY <1>3, <2>1, <2>2, <2>4
  <1>4. CASE v = w /\ ~RaiseTimer(w)
    <2>1. Releasing(w) /\ node'[w] = node[w]
      BY <1>0, <1>4 DEF Step, Fetch, Acquire, Start, LoadTimer, ReadWaker, WriteWaker, Release
    <2> QED  BY <1>1, <1>4, <2>1
  <1> QED  BY <1>2, <1>3, <1>4

\* The edge that is being released has not been released before.
LEMMA HandledIsNew ==
  ASSUME ExecInv, NEW w \in Worker, Releasing(w)
  PROVE  Handled(w) \in Edge /\ Handled(w) \notin released
PROOF
  <1>1. Handled(w) \in Edge /\ edge[w] \in Nat
    BY DEF ExecInv, OnEdge, TypeOK
  <1>2. Active(w) /\ Handled(w)[1] = node[w] /\ Handled(w)[2] = edge[w]
    BY DEF Active, Releasing, Handled
  <1>3. Handled(w) \in released => edge[w] < edge[w]
    BY <1>2 DEF ExecInv, Sources
  <1> QED  BY <1>1, <1>3

LEMMA ReleasedGrows ==
  ASSUME ExecInv, NEW w \in Worker, Step(w)
  PROVE  IF Release(w) THEN released' = released \cup {Handled(w)} ELSE released' = released
  BY DEF Step, Fetch, Acquire, Start, LoadTimer, RaiseTimer, ReadWaker, WriteWaker, Release, syncVars

LEMMA SourcesStep ==
  ASSUME ExecInv, NEW w \in Worker, Step(w)
  PROVE  Sources'
PROOF
  <1> USE DEF GoTo, At, Active, Releasing
  <1>0. /\ pc \in [Worker -> Places] /\ edge \in [Worker -> Nat \ {0}]
        /\ node \in [Worker -> Nat]
        /\ globalTimer \in Nat /\ globalTimer' \in Nat /\ globalTimer' >= globalTimer
    BY TimerGrows DEF ExecInv, TypeOK
  <1>1. ASSUME NEW e \in released'
        PROVE  Started(e[1]) /\ EndOf(e[1]) <= globalTimer
    <2>1. CASE e \in released
      BY <2>1 DEF ExecInv, Sources
    <2>2. CASE Release(w) /\ e = Handled(w)
      <3>1. e[1] = node[w] /\ Active(w) /\ Releasing(w)
        BY <2>2 DEF Release, Handled
      <3> QED  BY <3>1 DEF ExecInv, Claimed, Raised
    <2> QED  BY <1>1, <2>1, <2>2, ReleasedGrows
  <1>2. ASSUME NEW e \in released'
        PROVE  Started(e[1])' /\ EndOf(e[1])' <= globalTimer'
    <2>1. e \in Edge
      BY <1>2, TypeStep DEF TypeOK
    <2>2. e[1] \in Task
      BY <2>1, EdgeTyped
    <2>3. EndOf(e[1]) \in Nat
      BY <1>1, <2>2, EndTyped DEF ExecInv, EndOf
    <2> QED  BY <1>0, <1>1, <2>2, <2>3, EndsStay DEF EndOf
  <1>3. ASSUME NEW e \in released', NEW v \in Worker, Active(v)', node'[v] = e[1]
        PROVE  Releasing(v)' /\ e[2] < edge'[v]
    <2>1. CASE v # w
      <3>1. Active(v) /\ node[v] = e[1]
        BY <1>3, <2>1, OthersStay
      <3>2. e \in released
        <4>1. CASE Release(w) /\ e = Handled(w)
          <5>1. Active(w) /\ node[w] = e[1]
            BY <4>1 DEF Release, Handled
          <5> QED  BY <2>1, <3>1, <5>1 DEF ExecInv, Claimed
        <4> QED  BY <1>3, <4>1, ReleasedGrows
      <3> QED  BY <2>1, <3>1, <3>2, OthersStay DEF ExecInv, Sources
    <2>2. CASE v = w /\ Fetch(w)
      <3>1. node'[w] = index /\ index \in Task
        BY <1>0, <1>3, <2>2, ExecutorAssumption DEF Fetch, ExecInv, TypeOK, Task
      <3>2. ~Started(index)
        BY <3>1 DEF ExecInv, Claimed, Task
      <3> QED  BY <1>1, <1>3, <2>2, <3>1, <3>2
    <2>3. CASE v = w /\ (Acquire(w) \/ Start(w) \/ LoadTimer(w) \/ RaiseTimer(w))
      <3>1. Active(w) /\ ~Releasing(w) /\ node[w] = e[1] /\ e \in released
        BY <1>0, <1>3, <2>3, ReleasedGrows
           DEF Acquire, Start, LoadTimer, RaiseTimer, Release
      <3> QED  BY <3>1 DEF ExecInv, Sources
    <2>4. CASE v = w /\ (ReadWaker(w) \/ WriteWaker(w))
      <3>1. /\ Active(w) /\ node[w] = e[1] /\ e \in released
            /\ Releasing(w)' /\ edge'[w] = edge[w]
        BY <1>0, <1>3, <2>4, ReleasedGrows DEF ReadWaker, WriteWaker, Release
      <3> QED  BY <2>4, <3>1 DEF ExecInv, Sources
    <2>5. CASE v = w /\ Release(w)
      <3>1. /\ Active(w) /\ node[w] = e[1] /\ edge'[w] = edge[w] + 1
            /\ AfterEdges(w, edge[w]) \in {"read", "fetch"}
        BY <1>0, <1>3, <2>5 DEF Release, AfterEdges
      <3>2. Releasing(w)'
        BY <1>0, <1>3, <2>5, <3>1 DEF Release
      <3>3. e[2] <= edge[w]
        <4>1. CASE e = Handled(w)
          BY <1>0, <4>1 DEF Handled
        <4>2. CASE e \in released
          <5>1. e[2] \in Nat /\ e[2] < edge[w]
            BY <3>1, <4>2, EdgeTyped DEF ExecInv, Sources, TypeOK
          <5> QED  BY <1>0, <5>1
        <4> QED  BY <1>3, <2>5, <4>1, <4>2, ReleasedGrows
      <3>4. e[2] \in Nat
        BY <1>3, TypeStep, EdgeTyped DEF TypeOK
      <3> QED  BY <1>0, <2>5, <3>1, <3>2, <3>3, <3>4
    <2> QED  BY <2>1, <2>2, <2>3, <2>4, <2>5 DEF Step
  <1> QED  BY <1>2, <1>3 DEF Sources

\* Each release gives a permit along an edge that had none; each acquisition
\* turns a permit into an acquisition.
LEMMA PermitsStep ==
  ASSUME ExecInv, NEW w \in Worker, Step(w)
  PROVE  Permits'
PROOF
  <1>0. semaphores \in [Task -> Nat] /\ acquired \in [Task -> Nat] /\ Permits
    BY DEF ExecInv, TypeOK
  <1>1. CASE Acquire(w)
    <2>1. node[w] \in Task /\ released' = released
      BY <1>1 DEF Acquire, At, ExecInv, TypeOK
    <2>2. ASSUME NEW t \in Task
          PROVE  semaphores'[t] + acquired'[t] = semaphores[t] + acquired[t]
      BY <1>0, <1>1, <2>1 DEF Acquire
    <2> QED  BY <1>0, <2>1, <2>2 DEF Permits
  <1>2. CASE Release(w)
    <2> DEFINE e == Handled(w)
    <2>1. e \in Edge /\ e \notin released /\ released' = released \cup {e}
          /\ acquired' = acquired /\ semaphores' = [semaphores EXCEPT ![Target(e)] = @ + 1]
      BY <1>2, HandledIsNew DEF Release, At, Releasing
    <2> HIDE DEF e
    <2> SUFFICES ASSUME NEW t \in Task
                 PROVE  semaphores'[t] + acquired'[t] = Cardinality(released' \cap InEdges(t))
      BY DEF Permits
    <2>2. IsFiniteSet(released \cap InEdges(t))
      <3>1. released \cap InEdges(t) \in SUBSET Edge
        BY DEF ExecInv, TypeOK
      <3> QED  BY <3>1, EdgesFinite, FS_Subset
    <2>3. CASE t = Target(e)
      <3>1. released' \cap InEdges(t) = (released \cap InEdges(t)) \cup {e}
        BY <2>1, <2>3 DEF InEdges
      <3>2. e \notin released \cap InEdges(t)
        BY <2>1
      <3>3. Cardinality(released' \cap InEdges(t)) = Cardinality(released \cap InEdges(t)) + 1
        BY <2>2, <3>1, <3>2, FS_AddElement
      <3>4. semaphores'[t] = semaphores[t] + 1
        BY <1>0, <2>1, <2>3
      <3>5. semaphores[t] + acquired[t] = Cardinality(released \cap InEdges(t))
        BY <1>0 DEF Permits
      <3> QED  BY <1>0, <2>1, <3>3, <3>4, <3>5
    <2>4. CASE t # Target(e)
      <3>1. released' \cap InEdges(t) = released \cap InEdges(t)
        BY <2>1, <2>4 DEF InEdges
      <3>2. semaphores'[t] = semaphores[t]
        BY <1>0, <2>1, <2>4
      <3> QED  BY <1>0, <2>1, <3>1, <3>2 DEF Permits
    <2> QED  BY <2>3, <2>4
  <1>3. CASE ~Acquire(w) /\ ~Release(w)
    <2>1. UNCHANGED syncVars
      BY <1>3 DEF Step, Fetch, Start, LoadTimer, RaiseTimer, ReadWaker, WriteWaker, syncVars
    <2> QED  BY <1>0, <2>1 DEF Permits, syncVars
  <1> QED  BY <1>1, <1>2, <1>3

\* Whoever has acquired as often as there are inputs finds all of them
\* released: as many edges as there are can only be all of them.
LEMMA AllReleased ==
  ASSUME ExecInv, NEW t \in Task, acquired[t] = InDegree(t)
  PROVE  InEdges(t) \subseteq released
PROOF
  <1> DEFINE R == released \cap InEdges(t)
  <1>1. semaphores[t] \in Nat /\ acquired[t] \in Nat /\ semaphores[t] + acquired[t] = Cardinality(R)
    BY DEF ExecInv, TypeOK, Permits
  <1>2. R \in SUBSET InEdges(t) /\ IsFiniteSet(InEdges(t))
    BY EdgesFinite
  <1> HIDE DEF R
  <1>3. Cardinality(R) <= Cardinality(InEdges(t)) /\ (Cardinality(InEdges(t)) = Cardinality(R) => InEdges(t) = R)
    BY <1>2, FS_Subset
  <1>4. Cardinality(R) \in Nat /\ Cardinality(InEdges(t)) \in Nat
    BY <1>2, FS_Subset, FS_CardinalityType
  <1>5. Cardinality(InEdges(t)) = Cardinality(R)
    BY <1>1, <1>3, <1>4 DEF InDegree
  <1> QED  BY <1>3, <1>5 DEF R

LEMMA StartedBefore ==
  ASSUME ExecInv, NEW w \in Worker, Step(w), NEW t \in Task, Started(t)'
  PROVE  \/ Started(t) /\ start'[t] = start[t]
         \/ /\ Start(w) /\ t = node[w] /\ ~Started(t)
            /\ acquired[t] = InDegree(t) /\ start'[t] = lastWakerTime[t]
PROOF
  <1>1. CASE Start(w) /\ t = node[w]
    BY <1>1 DEF Start, At, Active, ExecInv, TypeOK, Claimed
  <1>2. CASE Start(w) /\ t # node[w]
    BY <1>2 DEF Start, Started, ExecInv, TypeOK
  <1>3. CASE ~Start(w)
    BY <1>3 DEF Step, Fetch, Acquire, LoadTimer, RaiseTimer, ReadWaker, WriteWaker, Release, Started
  <1> QED  BY <1>1, <1>2, <1>3

LEMMA InputsStep ==
  ASSUME ExecInv, NEW w \in Worker, Step(w)
  PROVE  InputsReleased'
PROOF
  <1> SUFFICES ASSUME NEW t \in Task, Started(t)', NEW e \in InEdges(t)
               PROVE  e \in released' /\ Started(e[1])' /\ EndOf(e[1])' <= globalTimer'
    BY DEF InputsReleased
  <1>1. e \in released
    <2>1. CASE Started(t)
      BY <2>1 DEF ExecInv, InputsReleased
    <2>2. CASE ~Started(t)
      BY <2>2, StartedBefore, AllReleased
    <2> QED  BY <2>1, <2>2
  <1>2. e \in released'
    BY <1>1, ReleasedGrows
  <1> QED  BY <1>2, SourcesStep DEF Sources

\* A vertex is published by the step that raises the timer, and stays so.
LEMMA PublishedStep ==
  ASSUME ExecInv, NEW w \in Worker, Step(w), NEW t \in Task
  PROVE  /\ t \in Published => t \in Published'
         /\ t \in Published' => t \in Published \/ (RaiseTimer(w) /\ t = node[w])
         /\ RaiseTimer(w) /\ ~BeforeRaise(w)' => node[w] \in Published'
PROOF
  <1> USE DEF GoTo, At, Active, BeforeRaise
  <1>0. pc \in [Worker -> Places] /\ node \in [Worker -> Nat]
    BY DEF ExecInv, TypeOK
  <1>1. ASSUME t \in Published  PROVE t \in Published'
    <2>1. Started(t) /\ Started(t)'
      BY <1>1, EndsStay DEF Published
    <2>2. ASSUME NEW v \in Worker, node'[v] = t, BeforeRaise(v)'  PROVE FALSE
      <3>1. CASE v # w
        BY <1>1, <2>2, <3>1, OthersStay DEF Published
      <3>2. CASE v = w /\ (LoadTimer(w) \/ RaiseTimer(w))
        BY <1>0, <1>1, <2>2, <3>2 DEF Published, LoadTimer, RaiseTimer
      <3>3. CASE v = w /\ Start(w)
        <4>1. node[w] = t /\ ~Started(t)
          BY <1>0, <2>2, <3>3 DEF Start, ExecInv, Claimed
        <4> QED  BY <2>1, <4>1
      <3>4. CASE v = w /\ (Fetch(w) \/ Acquire(w) \/ ReadWaker(w) \/ WriteWaker(w) \/ Release(w))
        BY <1>0, <2>2, <3>4 DEF Fetch, Acquire, ReadWaker, WriteWaker, Release, AfterEdges
      <3> QED  BY <3>1, <3>2, <3>3, <3>4 DEF Step
    <2> QED  BY <2>1, <2>2 DEF Published
  <1>2. ASSUME t \in Published', ~(RaiseTimer(w) /\ t = node[w])  PROVE t \in Published
    <2>1. ASSUME NEW v \in Worker, node[v] = t, BeforeRaise(v)  PROVE FALSE
      <3>1. CASE v # w
        BY <1>2, <2>1, <3>1, OthersStay DEF Published
      <3>2. CASE v = w
        <4>1. LoadTimer(w)
          BY <1>2, <2>1, <3>2 DEF Step, Fetch, Acquire, Start, ReadWaker, WriteWaker, Release
        <4>2. node'[w] = t /\ BeforeRaise(w)'
          BY <1>0, <2>1, <3>2, <4>1 DEF LoadTimer
        <4> QED  BY <1>2, <4>2 DEF Published
      <3> QED  BY <3>1, <3>2
    <2>2. Started(t)
      <3>1. CASE Start(w) /\ t = node[w]
        <4>1. node'[w] = t /\ BeforeRaise(w)'
          BY <1>0, <3>1 DEF Start
        <4> QED  BY <1>2, <4>1 DEF Published
      <3>2. CASE ~(Start(w) /\ t = node[w])
        BY <1>2, <3>2, StartedBefore DEF Published
      <3> QED  BY <3>1, <3>2
    <2> QED  BY <2>1, <2>2 DEF Published
  <1>3. ASSUME RaiseTimer(w), ~BeforeRaise(w)'  PROVE node[w] \in Published'
    <2>1. node[w] \in Task /\ Started(node[w])' /\ node' = node
      BY <1>3, EndsStay DEF RaiseTimer, ExecInv, TypeOK, Claimed
    <2>2. ASSUME NEW v \in Worker, node'[v] = node[w], BeforeRaise(v)'  PROVE FALSE
      <3>1. v # w /\ Active(v) /\ Active(w) /\ node[v] = node[w]
        BY <1>3, <2>1, <2>2, OthersStay DEF RaiseTimer
      <3> QED  BY <3>1 DEF ExecInv, Claimed
    <2> QED  BY <2>1, <2>2 DEF Published
  <1> QED  BY <1>1, <1>2, <1>3

LEMMA TimerStep ==
  ASSUME ExecInv, NEW w \in Worker, Step(w)
  PROVE  TimerIsLatestEnd'
PROOF
  <1>0. /\ globalTimer \in Nat /\ globalTimer' \in Nat /\ globalTimer' >= globalTimer
        /\ \A t \in Published : t \in Task /\ EndOf(t) \in Nat /\ EndOf(t)' = EndOf(t)
        /\ TimerIsLatestEnd
    BY TimerGrows, EndTyped, EndsStay DEF ExecInv, TypeOK, Published, EndOf
  <1>1. CASE RaiseTimer(w)
    <2>1. PICK n \in Task : n = node[w]
      BY <1>1 DEF RaiseTimer, At, ExecInv, TypeOK
    <2>2. /\ Started(n) /\ current[w] \in Nat /\ current[w] <= globalTimer
          /\ n = node'[w] /\ pc \in [Worker -> Places]
      BY <1>1, <2>1 DEF RaiseTimer, At, Active, ExecInv, TypeOK, Claimed, Loaded
    <2>3. EndOf(n) \in Nat /\ EndOf(n)' = EndOf(n)
      BY <2>2, EndTyped, EndsStay DEF ExecInv
    <2>4. \A t \in Published' : t \in Task /\ (t \in Published \/ t = n)
      BY <2>1, PublishedStep DEF Published
    <2>5. \A t \in Published : t \in Published'
      BY <1>0, PublishedStep
    <2>6. CASE globalTimer' = globalTimer /\ (EndOf(n) <= globalTimer \/ n \notin Published')
      <3>1. ASSUME NEW t \in Published'  PROVE EndOf(t)' <= globalTimer'
        BY <1>0, <2>3, <2>4, <2>6 DEF TimerIsLatestEnd
      <3>2. globalTimer' = 0 \/ \E t \in Published' : EndOf(t)' = globalTimer'
        BY <1>0, <2>5, <2>6 DEF TimerIsLatestEnd
      <3> QED  BY <3>1, <3>2 DEF TimerIsLatestEnd
    <2>7. CASE globalTimer' = EndOf(n) /\ n \in Published'
      <3>1. ASSUME NEW t \in Published'  PROVE EndOf(t)' <= globalTimer'
        BY <1>0, <2>3, <2>4, <2>7 DEF TimerIsLatestEnd
      <3>2. \E t \in Published' : EndOf(t)' = globalTimer'
        BY <2>3, <2>7
      <3> QED  BY <3>1, <3>2 DEF TimerIsLatestEnd
    <2>8. CASE EndOf(n) <= current[w]
      <3>1. globalTimer' = globalTimer
        BY <1>1, <2>1, <2>8 DEF RaiseTimer, timerVars
      <3> QED  BY <1>0, <2>2, <2>3, <2>6, <2>8, <3>1
    <2>9. CASE ~(EndOf(n) <= current[w]) /\ globalTimer = current[w]
      <3>1. AfterEdges(w, 0) \in {"read", "fetch"}
        BY DEF AfterEdges
      <3>2. globalTimer' = EndOf(n) /\ ~BeforeRaise(w)'
        BY <1>1, <2>1, <2>2, <2>9, <3>1 DEF RaiseTimer, GoTo, BeforeRaise
      <3> QED  BY <1>1, <2>1, <2>7, <3>2, PublishedStep
    <2>10. CASE ~(EndOf(n) <= current[w]) /\ globalTimer # current[w]
      <3>1. globalTimer' = globalTimer /\ BeforeRaise(w)'
        BY <1>1, <2>1, <2>10 DEF RaiseTimer, At, BeforeRaise
      <3>2. n \notin Published'
        BY <2>2, <3>1 DEF Published
      <3> QED  BY <2>6, <3>1, <3>2
    <2> QED  BY <2>8, <2>9, <2>10
  <1>2. CASE ~RaiseTimer(w)
    <2>1. globalTimer' = globalTimer
      BY <1>2 DEF Step, Fetch, Acquire, Start, LoadTimer, ReadWaker, WriteWaker, Release, timerVars
    <2> QED  BY <1>0, <1>2, <2>1, PublishedStep DEF TimerIsLatestEnd, Published
  <1> QED  BY <1>1, <1>2

\* A time that changes becomes the end of an input; none that is one ceases to
\* be, because a vertex starts once.
LEMMA WakerStep ==
  ASSUME ExecInv, NEW w \in Worker, Step(w), NEW t \in Task
  PROVE  /\ lastWakerTime'[t] = lastWakerTime[t] \/ IsInputEnd(lastWakerTime'[t], t)
         /\ IsInputEnd(lastWakerTime[t], t) => IsInputEnd(lastWakerTime'[t], t)
PROOF
  <1>1. CASE WriteWaker(w)
    <2>1. IsInputEnd(latest[w], Target(Handled(w)))
      BY <1>1 DEF WriteWaker, ExecInv, Written
    <2>2. lastWakerTime' = [lastWakerTime EXCEPT ![Target(Handled(w))] = latest[w]]
      BY <1>1 DEF WriteWaker
    <2> QED  BY <2>1, <2>2 DEF ExecInv, TypeOK
  <1>2. CASE ~WriteWaker(w)
    BY <1>2 DEF Step, Fetch, Acquire, Start, LoadTimer, RaiseTimer, ReadWaker, Release, edgeVars
  <1> QED  BY <1>1, <1>2

LEMMA WakerStepPrimed ==
  ASSUME ExecInv, NEW w \in Worker, Step(w), NEW t \in Task
  PROVE  /\ lastWakerTime'[t] = lastWakerTime[t] \/ IsInputEnd(lastWakerTime[t], t)'
         /\ IsInputEnd(lastWakerTime[t], t) => IsInputEnd(lastWakerTime[t], t)'
PROOF
  <1>1. PICK x : x = lastWakerTime'[t]
    OBVIOUS
  <1>2. IsInputEnd(x, t) => IsInputEnd(x, t)'
    BY InputEndsStay
  <1>3. IsInputEnd(lastWakerTime'[t], t) => IsInputEnd(lastWakerTime[t], t)'
    BY <1>1, <1>2 DEF IsInputEnd
  <1> QED  BY <1>3, WakerStep

\* The maximum of two ends, or of 0 and an end, is an end.
LEMMA LatestStep ==
  ASSUME ExecInv, NEW w \in Worker, ReadWaker(w)
  PROVE  IsInputEnd(latest'[w], Target(Handled(w)))
PROOF
  <1>1. /\ At(w, "read") /\ Handled(w) \in Edge /\ Started(node[w])
        /\ node[w] \in Task /\ Handled(w)[1] = node[w]
    BY DEF ReadWaker, At, Active, Releasing, ExecInv, TypeOK, OnEdge, Claimed, Handled
  <1>2. PICK t \in Task : t = Target(Handled(w))
    BY <1>1, EdgeTyped
  <1>3. IsInputEnd(EndOf(node[w]), t)
    BY <1>1, <1>2 DEF IsInputEnd, InEdges
  <1>4. EndOf(node[w]) \in Nat /\ lastWakerTime[t] \in Nat
    BY <1>1, EndTyped DEF ExecInv, TypeOK
  <1>5. lastWakerTime[t] = 0 \/ IsInputEnd(lastWakerTime[t], t)
    BY DEF ExecInv, Written
  <1>6. latest'[w] = MaxOf(lastWakerTime[t], EndOf(node[w]))
    BY <1>2 DEF ReadWaker, ExecInv, TypeOK
  <1>7. latest'[w] = EndOf(node[w]) \/ (latest'[w] = lastWakerTime[t] /\ lastWakerTime[t] # 0)
    BY <1>4, <1>6 DEF MaxOf
  <1> QED  BY <1>2, <1>3, <1>5, <1>7

LEMMA WrittenStep ==
  ASSUME ExecInv, NEW w \in Worker, Step(w)
  PROVE  Written'
PROOF
  <1> USE DEF GoTo, At
  <1>0. pc \in [Worker -> Places] /\ latest \in [Worker -> Nat] /\ Written
    BY DEF ExecInv, TypeOK
  <1>1. ASSUME NEW t \in Task
        PROVE  lastWakerTime'[t] = 0 \/ IsInputEnd(lastWakerTime[t], t)'
    BY <1>0, <1>1, WakerStepPrimed DEF Written
  <1>2. ASSUME NEW e \in released'
        PROVE  IsInputEnd(lastWakerTime[Target(e)], Target(e))'
    <2>1. e \in Edge /\ Target(e) \in Task
      BY <1>2, TypeStep, EdgeTyped DEF TypeOK
    <2>2. IsInputEnd(lastWakerTime[Target(e)], Target(e))
      <3>1. CASE e \in released
        BY <1>0, <3>1 DEF Written
      <3>2. CASE Release(w) /\ e = Handled(w)
        BY <1>0, <3>2 DEF Written, Release
      <3> QED  BY <1>2, <3>1, <3>2, ReleasedGrows
    <2>3. PICK t \in Task : t = Target(e)
      BY <2>1
    <2>4. IsInputEnd(lastWakerTime[t], t)'
      BY <2>2, <2>3, WakerStepPrimed
    <2> QED  BY <2>3, <2>4
  <1>3. ASSUME NEW v \in Worker, pc'[v] = "write"
        PROVE  IsInputEnd(latest[v], Target(Handled(v)))'
    <2>1. IsInputEnd(latest'[v], Target(Handled(v)))
          /\ Handled(v) \in Edge /\ node'[v] = node[v] /\ edge'[v] = edge[v]
      <3>1. CASE v # w
        BY <1>0, <1>3, <3>1, OthersStay DEF Written, ExecInv, OnEdge, Releasing
      <3>2. CASE v = w
        <4>1. AfterEdges(w, 0) # "write" /\ AfterEdges(w, edge[w]) # "write"
          BY DEF AfterEdges
        <4>2. ReadWaker(w)
          BY <1>0, <1>3, <3>2, <4>1
             DEF Step, Fetch, Acquire, Start, LoadTimer, RaiseTimer, WriteWaker, Release
        <4> QED  BY <3>2, <4>2, LatestStep DEF ReadWaker, ExecInv, OnEdge, Releasing
      <3> QED  BY <3>1, <3>2
    <2>2. PICK t \in Task : t = Target(Handled(v))
      BY <2>1, EdgeTyped
    <2>3. PICK x : x = latest'[v]
      OBVIOUS
    <2>4. IsInputEnd(x, t)'
      BY <2>1, <2>2, <2>3, InputEndsStay
    <2>5. t = Target(Handled(v))'
      BY <2>1, <2>2 DEF Target, Handled
    <2> QED  BY <2>3, <2>4, <2>5 DEF IsInputEnd
  <1>4. ASSUME NEW v \in Worker, pc'[v] = "release"
        PROVE  IsInputEnd(lastWakerTime[Target(Handled(v))], Target(Handled(v)))'
    <2>1. Handled(v) \in Edge /\ node'[v] = node[v] /\ edge'[v] = edge[v]
          /\ IsInputEnd(lastWakerTime'[Target(Handled(v))], Target(Handled(v)))
      <3>1. CASE v # w
        <4>1. /\ Handled(v) \in Edge /\ node'[v] = node[v] /\ edge'[v] = edge[v]
              /\ IsInputEnd(lastWakerTime[Target(Handled(v))], Target(Handled(v)))
          BY <1>0, <1>4, <3>1, OthersStay DEF Written, ExecInv, OnEdge, Releasing
        <4> QED  BY <4>1, EdgeTyped, WakerStep
      <3>2. CASE v = w
        <4>1. AfterEdges(w, 0) # "release" /\ AfterEdges(w, edge[w]) # "release"
          BY DEF AfterEdges
        <4>2. WriteWaker(w)
          BY <1>0, <1>4, <3>2, <4>1
             DEF Step, Fetch, Acquire, Start, LoadTimer, RaiseTimer, ReadWaker, Release
        <4>3. IsInputEnd(latest[w], Target(Handled(w))) /\ Handled(w) \in Edge
              /\ lastWakerTime' = [lastWakerTime EXCEPT ![Target(Handled(w))] = latest[w]]
              /\ node' = node /\ edge' = edge
          BY <1>0, <4>2 DEF WriteWaker, Written, ExecInv, OnEdge, Releasing
        <4>4. Target(Handled(w)) \in Task
          BY <4>3, EdgeTyped
        <4> QED  BY <3>2, <4>3, <4>4 DEF ExecInv, TypeOK
      <3> QED  BY <3>1, <3>2
    <2>2. PICK t \in Task : t = Target(Handled(v))
      BY <2>1, EdgeTyped
    <2>3. PICK x : x = lastWakerTime'[t]
      OBVIOUS
    <2>4. IsInputEnd(x, t)'
      BY <2>1, <2>2, <2>3, InputEndsStay
    <2>5. t = Target(Handled(v))'
      BY <2>1, <2>2 DEF Target, Handled
    <2> QED  BY <2>3, <2>4, <2>5 DEF IsInputEnd
  <1> QED  BY <1>1, <1>2, <1>3, <1>4 DEF Written

LEMMA StartIsAnInputStep ==
  ASSUME ExecInv, NEW w \in Worker, Step(w)
  PROVE  StartIsAnInput'
PROOF
  <1> SUFFICES ASSUME NEW t \in Task, Started(t)'
               PROVE  IF InEdges(t) = {} THEN start'[t] = 0 ELSE IsInputEnd(start[t], t)'
    BY DEF StartIsAnInput, IsInputEnd, Started
  <1>1. IF InEdges(t) = {} THEN start'[t] = 0 ELSE IsInputEnd(start'[t], t)
    <2>1. CASE Started(t) /\ start'[t] = start[t]
      <3>1. InEdges(t) # {} => \E e \in InEdges(t) : start[t] = EndOf(e[1])
        BY <2>1 DEF ExecInv, StartIsAnInput
      <3>2. \A e \in InEdges(t) : Started(e[1])
        BY <2>1 DEF ExecInv, InputsReleased
      <3> QED  BY <2>1, <3>1, <3>2 DEF ExecInv, StartIsAnInput, IsInputEnd
    <2>2. CASE acquired[t] = InDegree(t) /\ start'[t] = lastWakerTime[t]
      <3>1. InEdges(t) \subseteq released
        BY <2>2, AllReleased
      <3>2. CASE InEdges(t) = {}
        BY <2>2, <3>2 DEF ExecInv, Written, IsInputEnd
      <3>3. CASE InEdges(t) # {}
        <4>1. PICK e \in InEdges(t) : e \in released /\ Target(e) = t
          BY <3>1, <3>3 DEF InEdges
        <4> QED  BY <2>2, <3>3, <4>1 DEF ExecInv, Written
      <3> QED  BY <3>2, <3>3
    <2> QED  BY <2>1, <2>2, StartedBefore
  <1>2. PICK x : x = start'[t]
    OBVIOUS
  <1>3. IsInputEnd(x, t) => IsInputEnd(x, t)'
    BY InputEndsStay
  <1> QED  BY <1>1, <1>2, <1>3 DEF IsInputEnd

----------------------------------------------------------------------------
(* The theorems. *)

LEMMA ExecInit == Init => ExecInv
PROOF
  <1> SUFFICES ASSUME Init PROVE ExecInv
    OBVIOUS
  <1> USE ExecutorAssumption DEF Init
  <1>1. \A t \in Task : ~Started(t)
    BY DEF Started
  <1>2. \A w \in Worker : pc[w] = "fetch"
    OBVIOUS
  <1>3. TypeOK
    BY DEF TypeOK, Places
  <1>4. Claimed /\ Loaded /\ OnEdge /\ Raised /\ Sources /\ Written
    BY <1>1, <1>2 DEF Claimed, Loaded, OnEdge, Raised, Sources, Written, Active, Releasing, At
  <1>5. Permits
    <2>1. \A t \in Task : released \cap InEdges(t) = {}
      OBVIOUS
    <2> QED  BY <2>1, FS_EmptySet DEF Permits
  <1>6. InputsReleased /\ TimerIsLatestEnd /\ StartIsAnInput
    BY <1>1 DEF InputsReleased, TimerIsLatestEnd, StartIsAnInput, Published
  <1> QED  BY <1>3, <1>4, <1>5, <1>6 DEF ExecInv

\* Nothing depends on a step that leaves all variables alone.
LEMMA ExecStutter == ExecInv /\ UNCHANGED vars => ExecInv'
  BY DEF ExecInv, TypeOK, Claimed, Loaded, OnEdge, Raised, Sources, Permits, Written,
         InputsReleased, TimerIsLatestEnd, StartIsAnInput, Active, Releasing, BeforeRaise,
         Published, Started, EndOf, IsInputEnd, Handled, At,
         vars, syncVars, timerVars, edgeVars

\* The invariant of the workers of sema.cpp, for every graph and any number of
\* threads.
THEOREM ExecInvariant == Spec => []ExecInv
PROOF
  <1>1. ExecInv /\ [Next]_vars => ExecInv'
    <2> SUFFICES ASSUME ExecInv, [Next]_vars PROVE ExecInv'
      OBVIOUS
    <2>1. ASSUME NEW w \in Worker, Step(w)  PROVE ExecInv'
      BY <2>1, TypeStep, ClaimedStep, LoadedStep, OnEdgeStep, RaisedStep, SourcesStep, PermitsStep,
         WrittenStep, InputsStep, TimerStep, StartIsAnInputStep DEF ExecInv
    <2>2. CASE Finished \/ UNCHANGED vars
      BY <2>2, ExecStutter DEF Finished
    <2> QED  BY <2>1, <2>2 DEF Next
  <1> QED  BY <1>1, ExecInit, PTL DEF Spec

\* Every variable of run() and its threads keeps its type; in particular no
\* semaphore goes below zero.
THEOREM ExecutorTypeCorrect == Spec => []TypeOK
PROOF
  <1>1. ExecInv => TypeOK
    BY DEF ExecInv
  <1> QED  BY <1>1, ExecInvariant, PTL

\* executeTask starts a vertex only after each of its inputs has started, been
\* entered in the global timer and been released to it.
THEOREM InputsReleasedAlways == Spec => []InputsReleased
PROOF
  <1>1. ExecInv => InputsReleased
    BY DEF ExecInv
  <1> QED  BY <1>1, ExecInvariant, PTL

\* updateGlobalTimer loses no end: the global timer is the latest of the ends
\* published so far.
THEOREM TimerIsLatestEndAlways == Spec => []TimerIsLatestEnd
PROOF
  <1>1. ExecInv => TimerIsLatestEnd
    BY DEF ExecInv
  <1> QED  BY <1>1, ExecInvariant, PTL

\* However the unprotected reads and writes of the waker times interleave, a
\* vertex starts at the end of one of its inputs, or at 0 if it has none.
THEOREM StartIsAnInputAlways == Spec => []StartIsAnInput
PROOF
  <1>1. ExecInv => StartIsAnInput
    BY DEF ExecInv
  <1> QED  BY <1>1, ExecInvariant, PTL
===========================================================================
