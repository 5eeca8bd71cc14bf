---------------------------- MODULE FoldTheorems ----------------------------
(***************************************************************************)
(* Induction over finite sets, and what the folds of the community modules *)
(* compute.  The provers cannot instantiate a theorem that takes an        *)
(* operator, so induction is stated for the set of the things a property   *)
(* holds of, and the recursive function inside a fold is shown to exist by *)
(* counting.                                                               *)
(***************************************************************************)
EXTENDS Integers, Sequences, SequencesExt, FiniteSetTheorems, TLAPS

(***************************************************************************)
(* Induction over finite sets, and sums.                                   *)
(***************************************************************************)

\* What holds of a set as soon as it holds of its proper subsets holds of
\* every finite set.
LEMMA SubsetInduction ==
    ASSUME NEW S, IsFiniteSet(S), NEW G,
           \A T \in SUBSET S : (\A U \in SUBSET T : U # T => U \in G) => T \in G
    PROVE  \A T \in SUBSET S : T \in G
<1> DEFINE bad == {T \in SUBSET S : T \notin G}
<1>1. SUFFICES ASSUME bad # {} PROVE FALSE
  OBVIOUS
<1>2. IsWellFoundedOn(StrictSubsetOrdering(S), FiniteSubsetsOf(S))
  BY FS_StrictSubsetOrderingWellFounded
<1>3. bad \subseteq FiniteSubsetsOf(S)
  BY FS_FiniteSubsetsOfFinite
<1> HIDE DEF bad
<1>4. PICK T \in bad : \A U \in bad : ~ (<<U, T>> \in StrictSubsetOrdering(S))
  BY <1>1, <1>2, <1>3, WFMin
<1>5. ASSUME NEW U \in SUBSET T, U # T PROVE U \in G
  BY <1>4, <1>5 DEF StrictSubsetOrdering, bad
<1> QED
  BY <1>4, <1>5 DEF bad

\* What holds of the empty set and survives the addition of an element holds of
\* every finite set.
LEMMA ElementInduction ==
    ASSUME NEW S, IsFiniteSet(S), NEW G, {} \in G,
           \A T \in SUBSET S : \A x \in S \ T : T \in G => T \cup {x} \in G
    PROVE  S \in G
<1>1. ASSUME NEW T \in SUBSET S, \A U \in SUBSET T : U # T => U \in G
      PROVE  T \in G
  <2>1. CASE T = {}
    BY <2>1
  <2>2. CASE T # {}
    <3>1. PICK x \in T : TRUE
      BY <2>2
    <3>2. T \ {x} \in G /\ T \ {x} \in SUBSET S /\ x \in S \ (T \ {x})
      BY <1>1, <3>1
    <3>3. (T \ {x}) \cup {x} = T
      BY <3>1
    <3> QED
      BY <3>2, <3>3
  <2> QED
    BY <2>1, <2>2
<1> QED
  BY <1>1, SubsetInduction

\* Induction up to a natural number.
LEMMA CountingInduction ==
    ASSUME NEW n \in Nat, NEW G, 0 \in G,
           \A k \in 0 .. n - 1 : k \in G => k + 1 \in G
    PROVE  \A k \in 0 .. n : k \in G
<1>1. ASSUME NEW k \in 0 .. n PROVE k \in G
  <2> DEFINE S == 1 .. k
             C == {T \in SUBSET S : Cardinality(T) \in G}
  <2>1. IsFiniteSet(S) /\ Cardinality(S) = k
    BY FS_Interval
  <2>2. {} \in C
    BY FS_EmptySet
  <2>3. ASSUME NEW T \in SUBSET S, NEW x \in S \ T, T \in C
        PROVE  T \cup {x} \in C
    <3>1. IsFiniteSet(T) /\ Cardinality(T) \in Nat
      BY <2>1, FS_Subset, FS_CardinalityType
    <3>2. T \cup {x} \in SUBSET S /\ Cardinality(T \cup {x}) = Cardinality(T) + 1
      BY <3>1, FS_AddElement
    <3>3. Cardinality(T \cup {x}) <= k
      BY <2>1, <3>2, FS_Subset
    <3>4. Cardinality(T) \in 0 .. n - 1
      BY <3>1, <3>2, <3>3
    <3> QED
      BY <2>3, <3>2, <3>4
  <2> HIDE DEF C, S
  <2>4. S \in C
    BY <2>1, <2>2, <2>3, ElementInduction
  <2> QED
    BY <2>1, <2>4 DEF C
<1> QED
  BY <1>1

\* A set of numbers with a bound has a greatest one.
LEMMA MaxExists ==
    ASSUME NEW N \in Nat, NEW S \in SUBSET (0 .. N), S # {}
    PROVE  Max(S) \in S /\ \A y \in S : Max(S) >= y
<1> DEFINE G == {k \in 0 .. N : \A T \in SUBSET (0 .. k) :
                    T # {} => \E x \in T : \A y \in T : x >= y}
<1>1. 0 \in G
  <2>1. ASSUME NEW T \in SUBSET (0 .. 0), T # {}
        PROVE  \E x \in T : \A y \in T : x >= y
    <3>1. \A x \in T : x = 0
      OBVIOUS
    <3>2. PICK x \in T : x = 0
      BY <2>1, <3>1
    <3>3. \A y \in T : x >= y
      BY <3>1, <3>2
    <3> QED
      BY <3>2, <3>3
  <2> QED
    BY <2>1
<1>2. ASSUME NEW k \in 0 .. N - 1, k \in G PROVE k + 1 \in G
  <2>1. ASSUME NEW T \in SUBSET (0 .. k + 1), T # {}
        PROVE  \E x \in T : \A y \in T : x >= y
    <3>1. CASE k + 1 \in T
      BY <3>1
    <3>2. CASE k + 1 \notin T
      <4>1. T \in SUBSET (0 .. k)
        BY <3>2
      <4> QED
        BY <1>2, <2>1, <4>1
    <3> QED
      BY <3>1, <3>2
  <2> QED
    BY <2>1
<1> HIDE DEF G
<1>3. \A k \in 0 .. N : k \in G
  BY <1>1, <1>2, CountingInduction
<1>4. \E x \in S : \A y \in S : x >= y
  BY <1>3 DEF G
<1> QED
  BY <1>4 DEF Max

\* The element a sum takes next.
Pick(s) == CHOOSE x \in s : TRUE

\* g sums f over the subsets of S.
SumsUp(g, f, S) ==
    g = [s \in SUBSET S |-> IF s = {} THEN 0 ELSE f[Pick(s)] + g[s \ {Pick(s)}]]

\* Removing the picked element.
LEMMA PickSmaller ==
    ASSUME NEW S, IsFiniteSet(S), NEW s \in SUBSET S, s # {}
    PROVE  /\ Pick(s) \in s /\ s \ {Pick(s)} \in SUBSET S
           /\ Cardinality(s) \in Nat /\ Cardinality(s \ {Pick(s)}) = Cardinality(s) - 1
           /\ Cardinality(s) <= Cardinality(S)
<1>1. Pick(s) \in s
  BY DEF Pick
<1>2. IsFiniteSet(s) /\ Cardinality(s) <= Cardinality(S)
  BY FS_Subset
<1> QED
  BY <1>1, <1>2, FS_RemoveElement, FS_CardinalityType

\* There is such a g.
LEMMA SumExists ==
    ASSUME NEW S, IsFiniteSet(S), NEW f
    PROVE  \E g : SumsUp(g, f, S)
<1> DEFINE Step(g) == [s \in SUBSET S |-> IF s = {} THEN 0 ELSE f[Pick(s)] + g[s \ {Pick(s)}]]
           Upto(n) == \E g : \A s \in SUBSET S : Cardinality(s) <= n => g[s] = Step(g)[s]
           N == Cardinality(S)
           G == {n \in 0 .. N : Upto(n)}
<1>1. N \in Nat
  BY FS_CardinalityType
<1>2. ASSUME NEW g, NEW n \in Nat, \A s \in SUBSET S : Cardinality(s) <= n => g[s] = Step(g)[s]
      PROVE  \A s \in SUBSET S : Cardinality(s) <= n + 1 => Step(g)[s] = Step(Step(g))[s]
  <2>1. SUFFICES ASSUME NEW s \in SUBSET S, Cardinality(s) <= n + 1, s # {}
                 PROVE  Step(g)[s] = Step(Step(g))[s]
    OBVIOUS
  <2> DEFINE r == s \ {Pick(s)}
  <2>2. r \in SUBSET S /\ Cardinality(r) <= n
    BY <2>1, PickSmaller
  <2>3. g[r] = Step(g)[r]
    BY <1>2, <2>2
  <2>4. Step(g)[s] = f[Pick(s)] + g[r] /\ Step(Step(g))[s] = f[Pick(s)] + Step(g)[r]
    BY <2>1
  <2> QED
    BY <2>3, <2>4
<1> HIDE DEF Step
<1>3. Upto(0)
  <2>1. \A s \in SUBSET S : Cardinality(s) <= 0 => s = {}
    <3>1. ASSUME NEW s \in SUBSET S PROVE IsFiniteSet(s) /\ Cardinality(s) \in Nat
      BY FS_Subset, FS_CardinalityType
    <3>2. \A s \in SUBSET S : Cardinality(s) = 0 => s = {}
      BY <3>1, FS_EmptySet
    <3> QED
      BY <3>1, <3>2
  <2>2. \A g : Step(g)[{}] = 0
    BY DEF Step
  <2> DEFINE z == [s \in SUBSET S |-> 0]
  <2>3. \A s \in SUBSET S : Cardinality(s) <= 0 => z[s] = Step(z)[s]
    BY <2>1, <2>2
  <2> QED
    BY <2>3
<1>4. ASSUME NEW n \in 0 .. N - 1, Upto(n) PROVE Upto(n + 1)
  <2>1. PICK g : \A s \in SUBSET S : Cardinality(s) <= n => g[s] = Step(g)[s]
    BY <1>4
  <2> HIDE DEF N
  <2>2. \A s \in SUBSET S : Cardinality(s) <= n + 1 => Step(g)[s] = Step(Step(g))[s]
    BY <1>1, <1>2, <2>1
  <2> QED
    BY <2>2
<1> HIDE DEF N, Upto
<1>5. 0 \in G /\ \A n \in 0 .. N - 1 : n \in G => n + 1 \in G
  BY <1>1, <1>3, <1>4
<1>6. N \in G
  <2> HIDE DEF G
  <2> QED BY <1>1, <1>5, CountingInduction
<1>7. PICK g : \A s \in SUBSET S : Cardinality(s) <= N => g[s] = Step(g)[s]
  BY <1>6 DEF Upto
<1>8. \A s \in SUBSET S : Cardinality(s) <= N
  BY FS_Subset DEF N
<1>9. \A s \in SUBSET S : g[s] = Step(g)[s]
  BY <1>7, <1>8
<1> DEFINE h == Step(g)
<1>10. h = [s \in SUBSET S |-> IF s = {} THEN 0 ELSE f[Pick(s)] + h[s \ {Pick(s)}]]
  <2>1. \A s \in SUBSET S : s \ {Pick(s)} \in SUBSET S
    OBVIOUS
  <2>2. \A s \in SUBSET S : g[s \ {Pick(s)}] = h[s \ {Pick(s)}]
    BY <1>9, <2>1
  <2>3. h = [s \in SUBSET S |-> IF s = {} THEN 0 ELSE f[Pick(s)] + g[s \ {Pick(s)}]]
    BY DEF Step
  <2> HIDE DEF h
  <2> QED
    BY <2>2, <2>3
<1> QED
  BY <1>10 DEF SumsUp

\* A sum of naturals is a natural, and adds up in any order.
LEMMA SumIsNat ==
    ASSUME NEW S, IsFiniteSet(S), NEW f, NEW g, SumsUp(g, f, S),
           \A x \in S : f[x] \in Nat
    PROVE  \A T \in SUBSET S : g[T] \in Nat
<1> DEFINE G == {T \in SUBSET S : g[T] \in Nat}
<1>1. ASSUME NEW T \in SUBSET S, \A U \in SUBSET T : U # T => U \in G
      PROVE  T \in G
  <2>1. CASE T = {}
    BY <2>1 DEF SumsUp
  <2>2. CASE T # {}
    <3>1. Pick(T) \in T
      BY <2>2 DEF Pick
    <3>2. g[T \ {Pick(T)}] \in Nat
      BY <1>1, <3>1
    <3>3. g[T] = f[Pick(T)] + g[T \ {Pick(T)}]
      BY <2>2 DEF SumsUp
    <3> QED
      BY <3>1, <3>2, <3>3
  <2> QED
    BY <2>1, <2>2
<1> HIDE DEF G
<1>2. \A T \in SUBSET S : T \in G
  BY <1>1, SubsetInduction
<1> QED
  BY <1>2 DEF G

\* Any element may be taken first.
AddsUp(g, f, S) ==
    \A T \in SUBSET S : g[T] \in Nat /\ \A x \in T : g[T] = f[x] + g[T \ {x}]

\* The order does not matter.
LEMMA SumAnyFirst ==
    ASSUME NEW S, IsFiniteSet(S), NEW f, NEW g, SumsUp(g, f, S),
           \A x \in S : f[x] \in Nat
    PROVE  AddsUp(g, f, S)
<1> DEFINE G == {T \in SUBSET S : \A x \in T : g[T] = f[x] + g[T \ {x}]}
<1>1. ASSUME NEW T \in SUBSET S, \A U \in SUBSET T : U # T => U \in G
      PROVE  T \in G
  <2>1. SUFFICES ASSUME NEW x \in T PROVE g[T] = f[x] + g[T \ {x}]
    OBVIOUS
  <2> DEFINE y == Pick(T)
             rest == (T \ {x}) \ {y}
  <2>2. y \in T /\ g[T] = f[y] + g[T \ {y}]
    BY DEF SumsUp, Pick
  <2> HIDE DEF y
  <2>3. CASE x = y
    BY <2>2, <2>3
  <2>4. CASE x # y
    <3>1. T \ {y} \in G /\ T \ {x} \in G
      BY <1>1, <2>2
    <3>2. g[T \ {y}] = f[x] + g[(T \ {y}) \ {x}] /\ g[T \ {x}] = f[y] + g[rest]
      BY <2>2, <2>4, <3>1
    <3>3. (T \ {y}) \ {x} = rest
      OBVIOUS
    <3>4. f[x] \in Nat /\ f[y] \in Nat /\ g[rest] \in Nat
      <4>1. rest \in SUBSET S
        OBVIOUS
      <4> HIDE DEF rest
      <4> QED
        BY <2>2, <4>1, SumIsNat
    <3> HIDE DEF rest
    <3>5. g[T \ {y}] = f[x] + g[rest]
      BY <3>2, <3>3
    <3>6. f[y] + (f[x] + g[rest]) = f[x] + (f[y] + g[rest])
      BY <3>4
    <3> QED
      BY <2>2, <3>2, <3>5, <3>6
  <2> QED
    BY <2>3, <2>4
<1> HIDE DEF G
<1>2. \A T \in SUBSET S : T \in G
  BY <1>1, SubsetInduction
<1> QED
  BY <1>2, SumIsNat DEF G, AddsUp

\* The sums of functions that agree are equal.
LEMMA SumsAgree ==
    ASSUME NEW S, IsFiniteSet(S), NEW f, NEW g, SumsUp(g, f, S),
           NEW k, NEW h, SumsUp(h, k, S),
           NEW R \in SUBSET S, \A x \in R : f[x] = k[x]
    PROVE  g[R] = h[R]
<1> DEFINE G == {T \in SUBSET R : g[T] = h[T]}
<1>1. ASSUME NEW T \in SUBSET R, \A U \in SUBSET T : U # T => U \in G
      PROVE  T \in G
  <2>1. CASE T = {}
    BY <2>1 DEF SumsUp
  <2>2. CASE T # {}
    <3>1. Pick(T) \in T
      BY <2>2 DEF Pick
    <3>2. g[T \ {Pick(T)}] = h[T \ {Pick(T)}] /\ f[Pick(T)] = k[Pick(T)]
      BY <1>1, <3>1
    <3>3. /\ g[T] = f[Pick(T)] + g[T \ {Pick(T)}]
          /\ h[T] = k[Pick(T)] + h[T \ {Pick(T)}]
      BY <2>2 DEF SumsUp
    <3> QED
      BY <3>2, <3>3
  <2> QED
    BY <2>1, <2>2
<1> HIDE DEF G
<1>2. IsFiniteSet(R)
  BY FS_Subset
<1>3. \A T \in SUBSET R : T \in G
  BY <1>1, <1>2, SubsetInduction
<1>4. R \in G
  BY <1>3
<1> QED
  BY <1>4 DEF G

\* A sum is also one over the subsets of a smaller set.
LEMMA SumRestricts ==
    ASSUME NEW S, NEW R \in SUBSET S, NEW f, NEW g, SumsUp(g, f, S)
    PROVE  \E h : SumsUp(h, f, R) /\ h[R] = g[R]
<1> DEFINE h == [s \in SUBSET R |-> g[s]]
<1>1. \A s \in SUBSET R : s \in SUBSET S /\ s \ {Pick(s)} \in SUBSET R
  OBVIOUS
<1>2. \A s \in SUBSET R : g[s] = IF s = {} THEN 0 ELSE f[Pick(s)] + g[s \ {Pick(s)}]
  BY <1>1 DEF SumsUp
<1>3. \A s \in SUBSET R : h[s \ {Pick(s)}] = g[s \ {Pick(s)}]
  BY <1>1
<1>4. h = [s \in SUBSET R |-> IF s = {} THEN 0 ELSE f[Pick(s)] + h[s \ {Pick(s)}]]
  BY <1>2, <1>3
<1>5. SumsUp(h, f, R)
  <2> HIDE DEF h
  <2> QED BY <1>4 DEF SumsUp
<1> QED
  BY <1>5

(***************************************************************************)
(* Folds over the positions 1 .. N of a sequence, the last one outermost.  *)
(***************************************************************************)
FoldsUp(g, step, base, N) ==
    g = [s \in SUBSET (1 .. N) |->
            IF s = {} THEN base ELSE step[<<g[s \ {Max(s)}], Max(s)>>]]

\* The greatest position of a set.
LEMMA MaxSmaller ==
    ASSUME NEW N \in Nat, NEW s \in SUBSET (1 .. N), s # {}
    PROVE  /\ Max(s) \in s /\ s \ {Max(s)} \in SUBSET (1 .. N)
           /\ Cardinality(s) \in Nat /\ Cardinality(s \ {Max(s)}) = Cardinality(s) - 1
           /\ Cardinality(s) <= N
<1>1. s \in SUBSET (0 .. N)
  OBVIOUS
<1>2. Max(s) \in s
  BY <1>1, MaxExists
<1>3. IsFiniteSet(1 .. N) /\ Cardinality(1 .. N) = N
  BY FS_Interval
<1>4. IsFiniteSet(s) /\ Cardinality(s) <= N
  BY <1>3, FS_Subset
<1> QED
  BY <1>2, <1>4, FS_RemoveElement, FS_CardinalityType

\* The last position of a prefix.
LEMMA MaxOfPrefix ==
    ASSUME NEW n \in Nat \ {0}
    PROVE  Max(1 .. n) = n /\ (1 .. n) \ {n} = 1 .. n - 1
<1>1. 1 .. n \in SUBSET (0 .. n) /\ 1 .. n # {} /\ n \in 1 .. n
  OBVIOUS
<1>2. Max(1 .. n) \in 1 .. n /\ Max(1 .. n) >= n
  BY <1>1, MaxExists
<1> QED
  BY <1>2

\* A fold with steps in D exists.
LEMMA FoldExists ==
    ASSUME NEW N \in Nat, NEW D, NEW base \in D, NEW step \in [D \X (1 .. N) -> D]
    PROVE  \E g : FoldsUp(g, step, base, N)
<1> DEFINE S == 1 .. N
           Step(g) == [s \in SUBSET S |->
                          IF s = {} THEN base ELSE step[<<g[s \ {Max(s)}], Max(s)>>]]
           Upto(n) == \E g : \A s \in SUBSET S : Cardinality(s) <= n => g[s] = Step(g)[s]
           G == {n \in 0 .. N : Upto(n)}
<1>1. IsFiniteSet(S) /\ Cardinality(S) = N
  BY FS_Interval
<1>2. ASSUME NEW g, NEW n \in Nat, \A s \in SUBSET S : Cardinality(s) <= n => g[s] = Step(g)[s]
      PROVE  \A s \in SUBSET S : Cardinality(s) <= n + 1 => Step(g)[s] = Step(Step(g))[s]
  <2>1. SUFFICES ASSUME NEW s \in SUBSET S, Cardinality(s) <= n + 1, s # {}
                 PROVE  Step(g)[s] = Step(Step(g))[s]
    OBVIOUS
  <2> DEFINE r == s \ {Max(s)}
  <2>2. r \in SUBSET S /\ Cardinality(r) <= n
    <3>1. /\ r \in SUBSET S /\ Cardinality(s) \in Nat
          /\ Cardinality(r) = Cardinality(s) - 1
      BY <2>1, MaxSmaller
    <3> QED
      BY <2>1, <3>1
  <2>3. g[r] = Step(g)[r]
    BY <1>2, <2>2
  <2>4. Step(g)[s] = step[<<g[r], Max(s)>>] /\ Step(Step(g))[s] = step[<<Step(g)[r], Max(s)>>]
    BY <2>1
  <2> QED
    BY <2>3, <2>4
<1> HIDE DEF Step
<1>3. Upto(0)
  <2>1. \A s \in SUBSET S : Cardinality(s) <= 0 => s = {}
    <3>1. ASSUME NEW s \in SUBSET S PROVE IsFiniteSet(s) /\ Cardinality(s) \in Nat
      BY <1>1, FS_Subset, FS_CardinalityType
    <3>2. \A s \in SUBSET S : Cardinality(s) = 0 => s = {}
      BY <3>1, FS_EmptySet
    <3> QED
      BY <3>1, <3>2
  <2>2. \A g : Step(g)[{}] = base
    BY DEF Step
  <2> DEFINE z == [s \in SUBSET S |-> base]
  <2>3. \A s \in SUBSET S : Cardinality(s) <= 0 => z[s] = Step(z)[s]
    BY <2>1, <2>2
  <2> QED
    BY <2>3
<1>4. ASSUME NEW n \in 0 .. N - 1, Upto(n) PROVE Upto(n + 1)
  <2>1. PICK g : \A s \in SUBSET S : Cardinality(s) <= n => g[s] = Step(g)[s]
    BY <1>4
  <2>2. \A s \in SUBSET S : Cardinality(s) <= n + 1 => Step(g)[s] = Step(Step(g))[s]
    BY <1>2, <2>1
  <2> QED
    BY <2>2
<1> HIDE DEF Upto
<1>5. 0 \in G /\ \A n \in 0 .. N - 1 : n \in G => n + 1 \in G
  BY <1>3, <1>4
<1>6. N \in G
  <2> HIDE DEF G
  <2> QED BY <1>5, CountingInduction
<1>7. PICK g : \A s \in SUBSET S : Cardinality(s) <= N => g[s] = Step(g)[s]
  BY <1>6 DEF Upto
<1>8. ASSUME NEW s \in SUBSET S PROVE Cardinality(s) <= N
  <2> HIDE DEF S
  <2> QED BY <1>1, FS_Subset
<1>9. \A s \in SUBSET S : g[s] = Step(g)[s]
  BY <1>7, <1>8
<1> DEFINE h == Step(g)
<1>10. h = [s \in SUBSET S |-> IF s = {} THEN base ELSE step[<<h[s \ {Max(s)}], Max(s)>>]]
  <2>1. \A s \in SUBSET S : s \ {Max(s)} \in SUBSET S
    OBVIOUS
  <2>2. \A s \in SUBSET S : g[s \ {Max(s)}] = h[s \ {Max(s)}]
    BY <1>9, <2>1
  <2>3. h = [s \in SUBSET S |-> IF s = {} THEN base ELSE step[<<g[s \ {Max(s)}], Max(s)>>]]
    BY DEF Step
  <2> HIDE DEF h
  <2> QED
    BY <2>2, <2>3
<1> QED
  BY <1>10 DEF FoldsUp

\* What it gives for the prefixes.
LEMMA FoldPrefixes ==
    ASSUME NEW N \in Nat, NEW D, NEW base \in D, NEW step \in [D \X (1 .. N) -> D],
           NEW g, FoldsUp(g, step, base, N)
    PROVE  /\ \A s \in SUBSET (1 .. N) : g[s] \in D
           /\ g[{}] = base
           /\ \A n \in 1 .. N : g[1 .. n] = step[<<g[1 .. n - 1], n>>]
<1>1. g[{}] = base
  BY DEF FoldsUp
<1>2. \A n \in 1 .. N : g[1 .. n] = step[<<g[1 .. n - 1], n>>]
  <2>1. SUFFICES ASSUME NEW n \in 1 .. N PROVE g[1 .. n] = step[<<g[1 .. n - 1], n>>]
    OBVIOUS
  <2>2. Max(1 .. n) = n /\ (1 .. n) \ {n} = 1 .. n - 1
    BY MaxOfPrefix
  <2>3. 1 .. n \in SUBSET (1 .. N) /\ 1 .. n # {}
    OBVIOUS
  <2>4. g[1 .. n] = step[<<g[(1 .. n) \ {Max(1 .. n)}], Max(1 .. n)>>]
    BY <2>3 DEF FoldsUp
  <2> QED
    BY <2>2, <2>4
<1> DEFINE G == {s \in SUBSET (1 .. N) : g[s] \in D}
<1>3. ASSUME NEW T \in SUBSET (1 .. N), \A U \in SUBSET T : U # T => U \in G
      PROVE  T \in G
  <2>1. CASE T = {}
    BY <1>1, <2>1
  <2>2. CASE T # {}
    <3>1. Max(T) \in T
      BY <2>2, MaxSmaller
    <3>2. T \ {Max(T)} \in SUBSET T /\ T \ {Max(T)} # T
      BY <3>1
    <3>3. g[T \ {Max(T)}] \in D /\ Max(T) \in 1 .. N
      BY <1>3, <3>1, <3>2
    <3>4. g[T] = step[<<g[T \ {Max(T)}], Max(T)>>]
      BY <2>2 DEF FoldsUp
    <3>5. step[<<g[T \ {Max(T)}], Max(T)>>] \in D
      BY <3>3
    <3> QED
      BY <3>4, <3>5
  <2> QED
    BY <2>1, <2>2
<1> HIDE DEF G
<1>4. IsFiniteSet(1 .. N)
  BY FS_Interval
<1>5. \A T \in SUBSET (1 .. N) : T \in G
  BY <1>3, <1>4, SubsetInduction
<1> QED
  BY <1>1, <1>2, <1>5 DEF G
=============================================================================
