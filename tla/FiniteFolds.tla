----------------------------- MODULE FiniteFolds -----------------------------
(***************************************************************************)
(* What the proofs need of the folds of FiniteSetsExt: Max, which stands   *)
(* for the std::max reductions of the code, is the greatest element of a   *)
(* finite set, and MapThenSumSet, which stands for its += loops, adds up   *)
(* the summands in any order.                                              *)
(*                                                                         *)
(* The fold takes from a set, again and again, the element that CHOOSE     *)
(* picks.  SumOver is the same sum as the value of a table over all        *)
(* subsets, and what holds of every subset is shown on a smallest one for  *)
(* which it fails (SmallestSet).                                           *)
(***************************************************************************)
EXTENDS Integers, FiniteSetsExt, FiniteSetTheorems, WellFoundedInduction, TLAPS

\* A finite non-empty set of naturals has a greatest element (the operand of
\* every maximum the code takes over the inputs of a stage).
LEMMA GreatestElement ==
  ASSUME NEW S \in SUBSET Nat, IsFiniteSet(S), S # {}
  PROVE  \E x \in S : \A y \in S : x >= y
PROOF
  <1> DEFINE Above(x) == {y \in S : y > x}
             Up == {Above(x) : x \in S}
  <1>1. Up \subseteq FiniteSubsetsOf(S)
    BY FS_FiniteSubsetsOfFinite
  <1>2. Up # {}
    OBVIOUS
  <1>3. PICK U \in Up : \A V \in Up : <<V, U>> \notin StrictSubsetOrdering(S)
    <2> HIDE DEF Up
    <2> QED  BY <1>1, <1>2, WFMin, FS_StrictSubsetOrderingWellFounded, Zenon
  <1>4. PICK x \in S : U = Above(x)
    OBVIOUS
  <1>5. ASSUME NEW y \in S, y > x  PROVE FALSE
    <2>1. Above(y) \subseteq Above(x) /\ Above(y) # Above(x)
      <3>1. y \in Above(x) /\ y \notin Above(y)
        BY <1>5
      <3>2. x \in Nat /\ y \in Nat /\ \A z \in S : z \in Nat
        OBVIOUS
      <3>3. \A z \in S : z > y => z > x
        BY <3>2, <1>5
      <3> QED  BY <3>1, <3>3
    <2>2. <<Above(y), Above(x)>> \in StrictSubsetOrdering(S)
      BY <2>1 DEF StrictSubsetOrdering
    <2> QED  BY <2>2, <1>3, <1>4
  <1> QED  BY <1>5

\* Max returns that element: one of the set, and none of the set exceeds it.
LEMMA MaxIsGreatest ==
  ASSUME NEW S \in SUBSET Nat, IsFiniteSet(S), S # {}
  PROVE  Max(S) \in S /\ \A y \in S : Max(S) >= y
  BY GreatestElement DEF Max

\* A member that none exceeds is the maximum, whatever else the set holds.
LEMMA MaxIs ==
  ASSUME NEW S \in SUBSET Nat, NEW m \in S, \A y \in S : m >= y
  PROVE  m = Max(S)
PROOF
  <1>1. Max(S) \in S /\ \A y \in S : Max(S) >= y
    BY DEF Max
  <1>2. m \in Nat /\ Max(S) \in Nat /\ m >= Max(S) /\ Max(S) >= m
    BY <1>1
  <1> QED  BY <1>2

\* Max of two numbers, the form of std::max(clock, lastWaker).
LEMMA MaxOfTwo ==
  ASSUME NEW a \in Nat, NEW b \in Nat
  PROVE  Max({a, b}) \in {a, b} /\ Max({a, b}) >= a /\ Max({a, b}) >= b
PROOF
  <1>1. IsFiniteSet({a, b})
    <2>1. IsFiniteSet({a} \cup {b})
      BY FS_Singleton, FS_AddElement
    <2>2. {a, b} = {a} \cup {b}
      OBVIOUS
    <2> QED  BY <2>1, <2>2
  <1> QED  BY <1>1, MaxIsGreatest

\* The image of a finite set is finite: the operands of a maximum over the
\* dependencies of a task are finitely many.
LEMMA FiniteImage ==
  ASSUME NEW I, IsFiniteSet(I), NEW f, DOMAIN f = I
  PROVE  IsFiniteSet({f[i] : i \in I})
PROOF
  <1> DEFINE T == {f[i] : i \in I}
             g == [i \in I |-> f[i]]
  <1>1. g \in Surjection(I, T)
    BY DEF Surjection
  <1> HIDE DEF g, T
  <1>2. IsFiniteSet(T)
    BY <1>1, FS_Surjection
  <1> QED  BY <1>2 DEF T

\* Folding one more set of values into a maximum.
LEMMA MaxWith ==
  ASSUME NEW a \in Nat, NEW I, IsFiniteSet(I), NEW f \in [I -> Nat]
  PROVE  LET S == {a} \cup {f[i] : i \in I}
         IN  Max(S) \in S /\ Max(S) \in Nat /\ \A y \in S : Max(S) >= y
PROOF
  <1> DEFINE T == {f[i] : i \in I}
             S == {a} \cup T
  <1>1. IsFiniteSet(T)
    BY FiniteImage
  <1>2. IsFiniteSet(S)
    <2>1. IsFiniteSet(T \cup {a})
      <3> HIDE DEF T
      <3> QED  BY <1>1, FS_AddElement
    <2>2. S = T \cup {a}
      OBVIOUS
    <2> QED  BY <2>1, <2>2
  <1>3. S \in SUBSET Nat /\ S # {}
    OBVIOUS
  <1> HIDE DEF S
  <1>4. Max(S) \in S /\ \A y \in S : Max(S) >= y
    BY <1>2, <1>3, MaxIsGreatest
  <1> QED  BY <1>3, <1>4 DEF S

\* Every non-empty set of naturals has a least element (what a search for the
\* smallest predicted value finds).
LEMMA LeastElement ==
  ASSUME NEW S \in SUBSET Nat, S # {}
  PROVE  \E x \in S : \A y \in S : x <= y
PROOF
  <1>1. PICK x \in S : \A y \in S : ~(<<y, x>> \in OpToRel(<, Nat))
    BY NatLessThanWellFounded, WFMin
  <1>2. \A y \in S : ~(y < x)
    BY <1>1 DEF OpToRel
  <1>3. x \in Nat /\ \A y \in S : y \in Nat
    OBVIOUS
  <1>4. \A y \in S : x <= y
    BY <1>2, <1>3
  <1> QED  BY <1>4

----------------------------------------------------------------------------
(* Sums. *)

\* A non-empty collection of subsets of a finite set has one that includes no
\* other (the form of set induction the proofs below use).
LEMMA SmallestSet ==
  ASSUME NEW U, IsFiniteSet(U), NEW B \in SUBSET (SUBSET U), B # {}
  PROVE  \E T \in B : \A V \in B : V \subseteq T => V = T
PROOF
  <1>1. B \subseteq FiniteSubsetsOf(U)
    BY FS_FiniteSubsetsOfFinite
  <1>2. PICK T \in B : \A V \in B : <<V, T>> \notin StrictSubsetOrdering(U)
    BY <1>1, WFMin, FS_StrictSubsetOrderingWellFounded, Zenon
  <1>3. ASSUME NEW V \in B, V \subseteq T  PROVE V = T
    BY <1>2, <1>3 DEF StrictSubsetOrdering
  <1> QED  BY <1>3

\* The element the folds of the community modules take from a set first.
First(s) == CHOOSE x \in s : TRUE

\* g is the table of the sums of f over the subsets of S.
SumTable(f, S, g) ==
  g = [s \in SUBSET S |-> IF s = {} THEN 0 ELSE f[First(s)] + g[s \ {First(s)}]]

SumOver(f, S) == (CHOOSE g : SumTable(f, S, g))[S]

LEMMA SumTableAt ==
  ASSUME NEW f, NEW S, NEW g, SumTable(f, S, g), NEW s \in SUBSET S
  PROVE  /\ s = {} => g[s] = 0
         /\ s # {} =>
              /\ First(s) \in s
              /\ g[s] = f[First(s)] + g[s \ {First(s)}]
PROOF
  <1>1. g[s] = IF s = {} THEN 0 ELSE f[First(s)] + g[s \ {First(s)}]
    BY DEF SumTable
  <1>2. s # {} => First(s) \in s
    BY DEF First
  <1> QED  BY <1>1, <1>2

\* Two tables agree wherever both are defined.
LEMMA SumTableUnique ==
  ASSUME NEW f, NEW S, NEW U, IsFiniteSet(S),
         NEW g, SumTable(f, S, g), NEW h, SumTable(f, U, h),
         NEW s \in SUBSET S, s \in SUBSET U
  PROVE  g[s] = h[s]
PROOF
  <1> DEFINE B == {v \in SUBSET S : v \in SUBSET U /\ g[v] # h[v]}
  <1>1. SUFFICES ASSUME B # {}  PROVE FALSE
    OBVIOUS
  <1>2. B \in SUBSET (SUBSET S)
    OBVIOUS
  <1>3. PICK T \in B : \A V \in B : V \subseteq T => V = T
    <2> HIDE DEF B
    <2> QED  BY <1>1, <1>2, SmallestSet
  <1>4. T \in SUBSET S /\ T \in SUBSET U /\ g[T] # h[T]
    OBVIOUS
  <1>5. T # {}
    BY <1>4, SumTableAt
  <1> DEFINE V == T \ {First(T)}
  <1>6. First(T) \in T
    BY <1>5 DEF First
  <1>7. V \in SUBSET S /\ V \in SUBSET U /\ V \subseteq T /\ V # T
    BY <1>4, <1>6
  <1>8. g[V] = h[V]
    BY <1>3, <1>7
  <1>9. g[T] = f[First(T)] + g[V] /\ h[T] = f[First(T)] + h[V]
    BY <1>4, <1>5, SumTableAt
  <1> QED  BY <1>4, <1>8, <1>9

\* A finite set has a table.
LEMMA SumTableExists ==
  ASSUME NEW f, NEW S, IsFiniteSet(S)
  PROVE  \E g : SumTable(f, S, g)
PROOF
  <1> DEFINE B == {v \in SUBSET S : ~\E g : SumTable(f, v, g)}
  <1>1. SUFFICES ASSUME B # {}  PROVE FALSE
    OBVIOUS
  <1>2. PICK T \in B : \A V \in B : V \subseteq T => V = T
    <2>1. B \in SUBSET (SUBSET S)
      OBVIOUS
    <2> HIDE DEF B
    <2> QED  BY <1>1, <2>1, SmallestSet
  <1>3. T \in SUBSET S /\ ~\E g : SumTable(f, T, g)
    OBVIOUS
  <1> DEFINE sub == [v \in SUBSET T |-> CHOOSE g : SumTable(f, v, g)]
  <1>4. ASSUME NEW v \in SUBSET T, v # T
        PROVE  SumTable(f, v, sub[v]) /\ IsFiniteSet(v)
    <2>1. v \in SUBSET S /\ v \notin B
      BY <1>2, <1>3, <1>4
    <2>2. \E g : SumTable(f, v, g)
      BY <2>1
    <2>3. IsFiniteSet(v)
      BY <2>1, FS_Subset
    <2> HIDE DEF B
    <2> QED  BY <2>2, <2>3
  <1> DEFINE value(v) == IF v = {} THEN 0
                         ELSE f[First(v)] + sub[v \ {First(v)}][v \ {First(v)}]
             table == [v \in SUBSET T |-> value(v)]
  <1>5. ASSUME NEW v \in SUBSET T, v # T
        PROVE  sub[v][v] = value(v)
    <2>1. SumTable(f, v, sub[v]) /\ v \in SUBSET v
      BY <1>4, <1>5
    <2>2. CASE v = {}
      BY <2>1, <2>2, SumTableAt
    <2>3. CASE v # {}
      <3> DEFINE u == v \ {First(v)}
      <3>1. /\ First(v) \in v
            /\ sub[v][v] = f[First(v)] + sub[v][u]
        <4> HIDE DEF sub
        <4> QED  BY <2>1, <2>3, SumTableAt
      <3>2. u \in SUBSET T /\ u # T /\ u \in SUBSET v /\ u \in SUBSET u
        BY <1>5, <3>1
      <3>3. SumTable(f, u, sub[u]) /\ IsFiniteSet(u)
        BY <1>4, <3>2
      <3>4. sub[u][u] = sub[v][u]
        <4> HIDE DEF sub, u
        <4> QED  BY <2>1, <3>2, <3>3, SumTableUnique
      <3> QED  BY <2>3, <3>1, <3>4
    <2> QED  BY <2>2, <2>3
  <1>6. ASSUME NEW v \in SUBSET T
        PROVE  value(v) = IF v = {} THEN 0
                          ELSE f[First(v)] + table[v \ {First(v)}]
    <2>1. CASE v = {}
      BY <2>1
    <2>2. CASE v # {}
      <3> DEFINE u == v \ {First(v)}
      <3>1. First(v) \in v
        BY <2>2 DEF First
      <3>2. u \in SUBSET T /\ u # T
        BY <3>1
      <3>3. table[u] = value(u)
        BY <3>2
      <3>4. sub[u][u] = value(u)
        <4> HIDE DEF sub, value, u
        <4> QED  BY <1>5, <3>2
      <3>5. value(v) = f[First(v)] + sub[u][u]
        BY <2>2
      <3> HIDE DEF sub, value, table
      <3> QED  BY <2>2, <3>3, <3>4, <3>5
    <2> QED  BY <2>1, <2>2
  <1>7. SumTable(f, T, table)
    <2>1. table = [v \in SUBSET T |-> value(v)]
      OBVIOUS
    <2> HIDE DEF table, value
    <2> QED  BY <1>6, <2>1 DEF SumTable
  <1> HIDE DEF table
  <1> QED  BY <1>3, <1>7

LEMMA SumOfTable ==
  ASSUME NEW f, NEW S, IsFiniteSet(S), NEW U, S \subseteq U,
         NEW g, SumTable(f, U, g)
  PROVE  SumOver(f, S) = g[S]
PROOF
  <1> DEFINE h == CHOOSE h : SumTable(f, S, h)
  <1>1. SumTable(f, S, h)
    BY SumTableExists
  <1> HIDE DEF h
  <1>2. h[S] = g[S]
    BY <1>1, SumTableUnique
  <1> QED  BY <1>2 DEF SumOver, h

\* The sum of nothing, and the sum by the order in which the fold takes it.
LEMMA SumUnfolds ==
  ASSUME NEW f, NEW S, IsFiniteSet(S)
  PROVE  /\ S = {} => SumOver(f, S) = 0
         /\ S # {} =>
              /\ First(S) \in S
              /\ SumOver(f, S) = f[First(S)] + SumOver(f, S \ {First(S)})
PROOF
  <1>1. PICK g : SumTable(f, S, g)
    BY SumTableExists
  <1>2. SumOver(f, S) = g[S]
    BY <1>1, SumOfTable
  <1>3. IsFiniteSet(S \ {First(S)})
    BY FS_Subset
  <1>4. SumOver(f, S \ {First(S)}) = g[S \ {First(S)}]
    BY <1>1, <1>3, SumOfTable
  <1> QED  BY <1>1, <1>2, <1>4, SumTableAt

\* A sum of integers is an integer.
LEMMA SumTyped ==
  ASSUME NEW f, NEW S, IsFiniteSet(S), \A x \in S : f[x] \in Int
  PROVE  SumOver(f, S) \in Int
PROOF
  <1> DEFINE B == {v \in SUBSET S : SumOver(f, v) \notin Int}
  <1>1. SUFFICES ASSUME B # {}  PROVE FALSE
    OBVIOUS
  <1>2. PICK T \in B : \A V \in B : V \subseteq T => V = T
    <2>1. B \in SUBSET (SUBSET S)
      OBVIOUS
    <2> HIDE DEF B
    <2> QED  BY <1>1, <2>1, SmallestSet
  <1>3. IsFiniteSet(T)
    BY FS_Subset
  <1>4. T # {}
    <2>1. SumOver(f, T) \notin Int
      OBVIOUS
    <2>2. SumOver(f, T) # 0
      BY <2>1
    <2> HIDE DEF B
    <2> QED  BY <1>3, <2>2, SumUnfolds
  <1>5. First(T) \in T /\ SumOver(f, T) = f[First(T)] + SumOver(f, T \ {First(T)})
    BY <1>3, <1>4, SumUnfolds
  <1>6. SumOver(f, T \ {First(T)}) \in Int
    BY <1>2, <1>5
  <1>7. f[First(T)] \in Int
    BY <1>5
  <1> QED  BY <1>5, <1>6, <1>7

\* Any summand may be taken first: the threads may add in any order.
LEMMA SumRemove ==
  ASSUME NEW f, NEW S, IsFiniteSet(S), \A x \in S : f[x] \in Int, NEW x \in S
  PROVE  SumOver(f, S) = f[x] + SumOver(f, S \ {x})
PROOF
  <1> DEFINE Good(v) == \A y \in v : SumOver(f, v) = f[y] + SumOver(f, v \ {y})
             B == {v \in SUBSET S : ~Good(v)}
  <1>1. SUFFICES ASSUME B # {}  PROVE FALSE
    OBVIOUS
  <1>2. PICK T \in B : \A V \in B : V \subseteq T => V = T
    <2>1. B \in SUBSET (SUBSET S)
      OBVIOUS
    <2> HIDE DEF B
    <2> QED  BY <1>1, <2>1, SmallestSet
  <1>3. PICK y \in T : SumOver(f, T) # f[y] + SumOver(f, T \ {y})
    OBVIOUS
  <1>4. T \in SUBSET S
    OBVIOUS
  <1>5. \A v \in SUBSET S : IsFiniteSet(v) /\ SumOver(f, v) \in Int
    <2>1. ASSUME NEW v \in SUBSET S
          PROVE  IsFiniteSet(v) /\ SumOver(f, v) \in Int
      <3>1. IsFiniteSet(v)
        BY FS_Subset
      <3> QED  BY <3>1, SumTyped
    <2> QED  BY <2>1
  <1> DEFINE c == First(T)
  <1>6. c \in T /\ SumOver(f, T) = f[c] + SumOver(f, T \ {c})
    BY <1>3, <1>4, <1>5, SumUnfolds
  <1>7. c # y
    BY <1>3, <1>6
  <1>8. Good(T \ {c}) /\ Good(T \ {y})
    <2>1. T \ {c} # T /\ T \ {y} # T /\ T \ {c} \in SUBSET S /\ T \ {y} \in SUBSET S
      BY <1>3, <1>4, <1>6
    <2>2. T \ {c} \notin B /\ T \ {y} \notin B
      BY <1>2, <2>1
    <2> HIDE DEF Good, c
    <2> QED  BY <2>1, <2>2
  <1>9. /\ SumOver(f, T \ {c}) = f[y] + SumOver(f, (T \ {c}) \ {y})
        /\ SumOver(f, T \ {y}) = f[c] + SumOver(f, (T \ {y}) \ {c})
    BY <1>3, <1>6, <1>7, <1>8
  <1>10. (T \ {c}) \ {y} = (T \ {y}) \ {c}
    OBVIOUS
  <1>11. f[c] \in Int /\ f[y] \in Int /\ SumOver(f, (T \ {c}) \ {y}) \in Int
    BY <1>3, <1>4, <1>5, <1>6
  <1>12. f[y] + (f[c] + SumOver(f, (T \ {c}) \ {y})) =
           f[c] + (f[y] + SumOver(f, (T \ {c}) \ {y}))
    <2> HIDE DEF B, c
    <2> QED  BY <1>11
  <1> HIDE DEF B, c
  <1> QED  BY <1>3, <1>6, <1>9, <1>10, <1>12

\* One more summand.
LEMMA SumAdd ==
  ASSUME NEW f, NEW S, IsFiniteSet(S), NEW x, x \notin S,
         \A y \in S \cup {x} : f[y] \in Int
  PROVE  SumOver(f, S \cup {x}) = f[x] + SumOver(f, S)
PROOF
  <1>1. IsFiniteSet(S \cup {x})
    BY FS_AddElement
  <1>2. (S \cup {x}) \ {x} = S /\ x \in S \cup {x}
    OBVIOUS
  <1> QED  BY <1>1, <1>2, SumRemove

\* Only the summands matter.
LEMMA SumSame ==
  ASSUME NEW f, NEW h, NEW S, \A x \in S : f[x] = h[x]
  PROVE  SumOver(f, S) = SumOver(h, S)
PROOF
  <1>1. ASSUME NEW g
        PROVE  SumTable(f, S, g) <=> SumTable(h, S, g)
    <2>1. ASSUME NEW s \in SUBSET S, s # {}
          PROVE  f[First(s)] = h[First(s)]
      <3>1. First(s) \in s
        BY <2>1 DEF First
      <3> QED  BY <3>1
    <2> QED  BY <2>1 DEF SumTable
  <1> QED  BY <1>1 DEF SumOver

\* One summand changes.
LEMMA SumChange ==
  ASSUME NEW S, IsFiniteSet(S), NEW x \in S,
         NEW f, \A y \in S : f[y] \in Int,
         NEW h, \A y \in S : h[y] \in Int,
         \A y \in S : y # x => h[y] = f[y]
  PROVE  SumOver(h, S) = SumOver(f, S) - f[x] + h[x]
PROOF
  <1> DEFINE R == S \ {x}
  <1>1. IsFiniteSet(R)
    BY FS_Subset
  <1>2. SumOver(f, R) = SumOver(h, R) /\ SumOver(f, R) \in Int
    BY <1>1, SumSame, SumTyped
  <1>3. SumOver(f, S) = f[x] + SumOver(f, R) /\ SumOver(h, S) = h[x] + SumOver(h, R)
    BY SumRemove
  <1> QED  BY <1>2, <1>3

\* A sum of zeros.
LEMMA SumOfZeros ==
  ASSUME NEW f, NEW S, IsFiniteSet(S), \A x \in S : f[x] = 0
  PROVE  SumOver(f, S) = 0
PROOF
  <1> DEFINE B == {v \in SUBSET S : SumOver(f, v) # 0}
  <1>1. SUFFICES ASSUME B # {}  PROVE FALSE
    OBVIOUS
  <1>2. PICK T \in B : \A V \in B : V \subseteq T => V = T
    <2>1. B \in SUBSET (SUBSET S)
      OBVIOUS
    <2> HIDE DEF B
    <2> QED  BY <1>1, <2>1, SmallestSet
  <1>3. IsFiniteSet(T) /\ T \subseteq S /\ SumOver(f, T) # 0
    BY FS_Subset
  <1>4. T # {}
    BY <1>3, SumUnfolds
  <1>5. First(T) \in T /\ SumOver(f, T) = f[First(T)] + SumOver(f, T \ {First(T)})
    BY <1>3, <1>4, SumUnfolds
  <1>6. SumOver(f, T \ {First(T)}) = 0
    BY <1>2, <1>3, <1>5
  <1> QED  BY <1>3, <1>5, <1>6
=============================================================================
