------------------------- MODULE ElectiveFill_proofs -------------------------
(***************************************************************************)
(* Of plans of any length, over any catalog, with requirements of any kind *)
(* that ask for nothing not to be held: what has been filled in keeps the  *)
(* rules, nothing ranked higher would fit, and the ways in which the       *)
(* program lists electives agree.                                          *)
(***************************************************************************)
EXTENDS ElectiveFill, FiniteSetTheorems, TLAPS

-----------------------------------------------------------------------------
(* Least numbers, and induction up to a number and over finite sets        *)

\* A set of natural numbers up to n has a least one.
LEMMA LeastOf ==
    ASSUME NEW n \in Nat, NEW T, T \subseteq 0..n, T # {}
    PROVE  \E i \in T : \A j \in T : i <= j
  <1> DEFINE U == {1..i : i \in T}
  <1>1. IsWellFoundedOn(StrictSubsetOrdering(Nat), FiniteSubsetsOf(Nat))
    BY FS_StrictSubsetOrderingWellFounded
  <1>2. U \subseteq FiniteSubsetsOf(Nat)
    <2> SUFFICES ASSUME NEW i \in T PROVE 1..i \in FiniteSubsetsOf(Nat)
      OBVIOUS
    <2>1. i \in Int /\ 1..i \subseteq Nat
      BY SMT
    <2>2. IsFiniteSet(1..i)
      BY <2>1, FS_Interval
    <2> QED
      BY <2>1, <2>2 DEF FiniteSubsetsOf
  <1>3. U # {}
    OBVIOUS
  <1> HIDE DEF U
  <1>4. \E x \in U : \A y \in U : ~ (<<y, x>> \in StrictSubsetOrdering(Nat))
    BY <1>1, <1>2, <1>3, WFMin
  <1> USE DEF U
  <1>5. PICK i \in T : \A j \in T : <<1..j, 1..i>> \notin StrictSubsetOrdering(Nat)
    BY <1>4
  <1>6. ASSUME NEW j \in T, ~(i <= j) PROVE FALSE
    <2>1. i \in Nat /\ j \in Nat /\ j < i
      BY <1>6
    <2>2. 1..j \subseteq 1..i /\ 1..j \subseteq Nat /\ 1..i \subseteq Nat
      BY <2>1
    <2>3. i \in 1..i /\ i \notin 1..j
      BY <2>1
    <2>4. 1..j # 1..i
      BY <2>3
    <2>5. <<1..j, 1..i>> \in StrictSubsetOrdering(Nat)
      BY <2>2, <2>4 DEF StrictSubsetOrdering
    <2> QED
      BY <2>5, <1>5
  <1> QED
    BY <1>6

\* What holds of 0 and of each successor holds up to n.
LEMMA UpTo ==
    ASSUME NEW n \in Nat, NEW T, 0 \in T,
           \A i \in 0..n : i \in T /\ i < n => i + 1 \in T
    PROVE  \A i \in 0..n : i \in T
  <1> DEFINE Out == {i \in 0..n : i \notin T}
  <1>1. CASE Out = {}
    BY <1>1
  <1>2. CASE Out # {}
    <2>1. PICK i \in Out : \A j \in Out : i <= j
      <3> HIDE DEF Out
      <3>1. Out \subseteq 0..n
        BY DEF Out
      <3> QED
        BY <1>2, <3>1, LeastOf
    <2>2. i \in 0..n /\ i # 0
      OBVIOUS
    <2>3. i - 1 \in 0..n /\ i - 1 < n /\ i - 1 \notin Out
      BY <2>1, <2>2
    <2>4. (i - 1) + 1 \in T
      BY <2>3
    <2> QED
      BY <2>4, <2>2
  <1> QED
    BY <1>1, <1>2

\* What holds of a finite set whenever it holds of its smaller subsets.
LEMMA SmallerFirst ==
    ASSUME NEW S, IsFiniteSet(S), NEW P,
           \A T \in SUBSET S : (\A U \in SUBSET T : U # T => U \in P) => T \in P
    PROVE  \A T \in SUBSET S : T \in P
  <1> DEFINE Out == {T \in SUBSET S : T \notin P}
  <1>1. IsWellFoundedOn(StrictSubsetOrdering(S), FiniteSubsetsOf(S))
    BY FS_StrictSubsetOrderingWellFounded
  <1>2. Out \subseteq FiniteSubsetsOf(S)
    <2> SUFFICES ASSUME NEW T \in SUBSET S PROVE T \in FiniteSubsetsOf(S)
      OBVIOUS
    <2>1. IsFiniteSet(T)
      BY FS_Subset
    <2> QED
      BY <2>1 DEF FiniteSubsetsOf
  <1>3. SUFFICES ASSUME Out # {} PROVE FALSE
    OBVIOUS
  <1>4. PICK T \in Out : \A U \in Out : <<U, T>> \notin StrictSubsetOrdering(S)
    <2> HIDE DEF Out
    <2> QED
      BY <1>1, <1>2, <1>3, WFMin
  <1>5. ASSUME NEW U \in SUBSET T, U # T PROVE U \in P
    <2>1. <<U, T>> \in StrictSubsetOrdering(S)
      BY <1>5 DEF StrictSubsetOrdering
    <2>2. U \notin Out
      BY <1>4, <2>1
    <2> QED
      BY <2>2
  <1> QED
    BY <1>5

-----------------------------------------------------------------------------
(* Sums over finite sets                                                   *)

Pick(s) == CHOOSE x \in s : TRUE

LEMMA PickIsThere == \A s : s # {} => Pick(s) \in s
  BY DEF Pick

\* The sums of f over the subsets of S.
Adds(it, f, S) ==
    it = [s \in SUBSET S |-> IF s = {} THEN 0 ELSE f[Pick(s)] + it[s \ {Pick(s)}]]

Tally(f, S) == (CHOOSE it : Adds(it, f, S))[S]

LEMMA AddsIs ==
    ASSUME NEW it, NEW f, NEW S, Adds(it, f, S), NEW T \in SUBSET S
    PROVE  it[T] = IF T = {} THEN 0 ELSE f[Pick(T)] + it[T \ {Pick(T)}]
  <1> DEFINE F == [s \in SUBSET S |-> IF s = {} THEN 0 ELSE f[Pick(s)] + it[s \ {Pick(s)}]]
  <1>1. it = F
    BY DEF Adds
  <1>2. F[T] = IF T = {} THEN 0 ELSE f[Pick(T)] + it[T \ {Pick(T)}]
    OBVIOUS
  <1> HIDE DEF F
  <1> QED
    BY <1>1, <1>2

\* Sums over a common subset agree.
LEMMA AddsAgree ==
    ASSUME NEW S, IsFiniteSet(S), NEW f, NEW A, NEW B, S \subseteq A, S \subseteq B,
           NEW a, Adds(a, f, A), NEW b, Adds(b, f, B)
    PROVE  \A T \in SUBSET S : a[T] = b[T]
  <1> DEFINE P == {T \in SUBSET S : a[T] = b[T]}
  <1>1. ASSUME NEW T \in SUBSET S, \A U \in SUBSET T : U # T => U \in P PROVE T \in P
    <2>1. T \in SUBSET A /\ T \in SUBSET B
      OBVIOUS
    <2>2. a[T] = IF T = {} THEN 0 ELSE f[Pick(T)] + a[T \ {Pick(T)}]
      BY ZenonT(90), <2>1, AddsIs
    <2>3. b[T] = IF T = {} THEN 0 ELSE f[Pick(T)] + b[T \ {Pick(T)}]
      BY ZenonT(90), <2>1, AddsIs
    <2>4. T # {} => T \ {Pick(T)} \in P
      BY <1>1, PickIsThere
    <2> QED
      BY <2>2, <2>3, <2>4
  <1> HIDE DEF P
  <1>2. \A T \in SUBSET S : T \in P
    BY <1>1, SmallerFirst
  <1> QED
    BY <1>2 DEF P

\* There are such sums.
LEMMA AddsExists ==
    ASSUME NEW S, IsFiniteSet(S), NEW f
    PROVE  \E it : Adds(it, f, S)
  <1> DEFINE P == {T \in SUBSET S : \E it : Adds(it, f, T)}
  <1>1. ASSUME NEW T \in SUBSET S, \A U \in SUBSET T : U # T => U \in P PROVE T \in P
    <2> DEFINE For(U) == CHOOSE it : Adds(it, f, U)
               val(s) == IF s = {} THEN 0 ELSE f[Pick(s)] + For(s \ {Pick(s)})[s \ {Pick(s)}]
               it == [s \in SUBSET T |-> val(s)]
    <2>1. ASSUME NEW U \in SUBSET T, U # T PROVE Adds(For(U), f, U)
      BY <1>1, <2>1
    <2> HIDE DEF For
    <2>2. ASSUME NEW s \in SUBSET T, s # {}
          PROVE  For(s \ {Pick(s)})[s \ {Pick(s)}] = it[s \ {Pick(s)}]
      <3> DEFINE u == s \ {Pick(s)}
      <3>1. u \in SUBSET T /\ u # T /\ IsFiniteSet(u)
        BY <2>2, PickIsThere, FS_Subset
      <3> HIDE DEF u
      <3>2. Adds(For(u), f, u)
        BY <2>1, <3>1
      <3>3. For(u)[u] = IF u = {} THEN 0 ELSE f[Pick(u)] + For(u)[u \ {Pick(u)}]
        BY <3>2, AddsIs
      <3>4. u # {} => For(u)[u \ {Pick(u)}] = For(u \ {Pick(u)})[u \ {Pick(u)}]
        <4> SUFFICES ASSUME u # {}
                     PROVE  For(u)[u \ {Pick(u)}] = For(u \ {Pick(u)})[u \ {Pick(u)}]
          OBVIOUS
        <4> DEFINE v == u \ {Pick(u)}
        <4>1. v \in SUBSET T /\ v # T /\ IsFiniteSet(v) /\ v \subseteq u
          BY <3>1, PickIsThere, FS_Subset
        <4> HIDE DEF v
        <4>2. Adds(For(v), f, v)
          BY <2>1, <4>1
        <4>3. \A w \in SUBSET v : For(u)[w] = For(v)[w]
          BY <3>2, <4>1, <4>2, AddsAgree
        <4>4. For(u)[v] = For(v)[v]
          BY <4>3
        <4> QED
          BY <4>4 DEF v
      <3>5. it[u] = val(u)
        BY <3>1
      <3>6. For(u)[u] = it[u]
        BY <3>3, <3>4, <3>5
      <3> QED
        BY <3>6 DEF u
    <2>3. it = [s \in SUBSET T |-> IF s = {} THEN 0 ELSE f[Pick(s)] + it[s \ {Pick(s)}]]
      <3>1. \A s \in SUBSET T : val(s) = IF s = {} THEN 0 ELSE f[Pick(s)] + it[s \ {Pick(s)}]
        BY <2>2
      <3> DEFINE now == it
      <3>2. \A s \in SUBSET T : val(s) = IF s = {} THEN 0 ELSE f[Pick(s)] + now[s \ {Pick(s)}]
        BY <3>1
      <3>3. now = [s \in SUBSET T |-> val(s)]
        OBVIOUS
      <3> HIDE DEF now, val
      <3>4. now = [s \in SUBSET T |-> IF s = {} THEN 0 ELSE f[Pick(s)] + now[s \ {Pick(s)}]]
        BY <3>2, <3>3
      <3> QED
        BY <3>4 DEF now
    <2> HIDE DEF it
    <2>4. Adds(it, f, T)
      BY <2>3 DEF Adds
    <2> QED
      BY <2>4
  <1> HIDE DEF P
  <1>2. \A T \in SUBSET S : T \in P
    BY <1>1, SmallerFirst
  <1>3. S \in P
    BY <1>2
  <1> QED
    BY <1>3 DEF P

LEMMA SumIs ==
    ASSUME NEW S, IsFiniteSet(S), NEW f
    PROVE  Tally(f, S) = IF S = {} THEN 0 ELSE f[Pick(S)] + Tally(f, S \ {Pick(S)})
  <1> DEFINE For(U) == CHOOSE it : Adds(it, f, U)
             v == S \ {Pick(S)}
  <1>1. v \in SUBSET S /\ IsFiniteSet(v) /\ S \in SUBSET S
    BY FS_Subset
  <1> HIDE DEF v
  <1>2. Adds(For(S), f, S) /\ Adds(For(v), f, v)
    BY <1>1, AddsExists
  <1> HIDE DEF For
  <1>3. For(S)[S] = IF S = {} THEN 0 ELSE f[Pick(S)] + For(S)[S \ {Pick(S)}]
    BY <1>1, <1>2, AddsIs
  <1>4. \A w \in SUBSET v : For(S)[w] = For(v)[w]
    BY <1>1, <1>2, AddsAgree
  <1>5. For(S)[v] = For(v)[v]
    BY <1>4
  <1> QED
    BY <1>3, <1>5 DEF v, For, Tally

\* Any element may be added last.
LEMMA SumAdd ==
    ASSUME NEW S, IsFiniteSet(S), NEW f, \A x \in S : f[x] \in Int
    PROVE  /\ Tally(f, S) \in Int
           /\ \A x \in S : Tally(f, S) = f[x] + Tally(f, S \ {x})
  <1> DEFINE P == {T \in SUBSET S : /\ Tally(f, T) \in Int
                                    /\ \A x \in T : Tally(f, T) = f[x] + Tally(f, T \ {x})}
  <1>1. ASSUME NEW T \in SUBSET S, \A U \in SUBSET T : U # T => U \in P PROVE T \in P
    <2>1. IsFiniteSet(T)
      BY FS_Subset
    <2>2. Tally(f, T) = IF T = {} THEN 0 ELSE f[Pick(T)] + Tally(f, T \ {Pick(T)})
      BY <2>1, SumIs
    <2>3. CASE T = {}
      BY <2>2, <2>3
    <2>4. CASE T # {}
      <3> DEFINE p == Pick(T)
      <3>1. p \in T
        BY <2>4, PickIsThere
      <3> HIDE DEF p
      <3>2. Tally(f, T) = f[p] + Tally(f, T \ {p})
        BY <2>2, <2>4 DEF p
      <3>3. \A U \in SUBSET T : U # T =>
              Tally(f, U) \in Int /\ \A x \in U : Tally(f, U) = f[x] + Tally(f, U \ {x})
        BY <1>1
      <3>4. T \ {p} \in SUBSET T /\ T \ {p} # T
        BY <3>1
      <3>5. Tally(f, T \ {p}) \in Int /\ f[p] \in Int
        BY <3>1, <3>3, <3>4
      <3>6. ASSUME NEW x \in T, x # p PROVE Tally(f, T) = f[x] + Tally(f, T \ {x})
        <4> DEFINE R == (T \ {p}) \ {x}
        <4>1. Tally(f, T \ {p}) = f[x] + Tally(f, R)
          BY <3>3, <3>4, <3>6
        <4>2. T \ {x} \in SUBSET T /\ T \ {x} # T /\ p \in T \ {x} /\ (T \ {x}) \ {p} = R
          BY <3>1, <3>6
        <4>3. Tally(f, T \ {x}) = f[p] + Tally(f, R)
          BY <3>3, <4>2
        <4>4. R \in SUBSET T /\ R # T
          BY <3>1
        <4>5. Tally(f, R) \in Int
          BY <3>3, <4>4
        <4>6. f[x] \in Int
          OBVIOUS
        <4> DEFINE r == Tally(f, R)
                   fx == f[x]
                   fp == f[p]
        <4> HIDE DEF r, fx, fp
        <4>7. Tally(f, T) = fp + (fx + r) /\ Tally(f, T \ {x}) = fp + r
          BY <3>2, <4>1, <4>3 DEF r, fx, fp
        <4>8. r \in Int /\ fx \in Int /\ fp \in Int
          BY <3>5, <4>5, <4>6 DEF r, fx, fp
        <4>9. fp + (fx + r) = fx + (fp + r)
          BY <4>8
        <4> QED
          BY <4>7, <4>9 DEF fx
      <3>7. Tally(f, T) \in Int
        BY <3>2, <3>5
      <3> QED
        BY <3>2, <3>6, <3>7
    <2> QED
      BY <2>3, <2>4
  <1> HIDE DEF P
  <1>2. \A T \in SUBSET S : T \in P
    BY <1>1, SmallerFirst
  <1>3. S \in P
    BY <1>2
  <1> QED
    BY <1>3 DEF P

LEMMA SumOnSetIs ==
    ASSUME NEW f, NEW S
    PROVE  SumFunctionOnSet(f, S) = Tally(f, S)
  BY DEF SumFunctionOnSet, FoldFunctionOnSet, MapThenFoldSet, Pick, Tally, Adds

\* Credit points only grow when more is held.
LEMMA SumGrows ==
    ASSUME NEW S, IsFiniteSet(S), NEW f, \A x \in S : f[x] \in Nat
    PROVE  /\ Tally(f, S) \in Nat
           /\ \A U \in SUBSET S : Tally(f, U) \in Nat /\ Tally(f, U) <= Tally(f, S)
  <1> DEFINE Ok(T) == /\ Tally(f, T) \in Nat
                      /\ \A U \in SUBSET T : Tally(f, U) \in Nat /\ Tally(f, U) <= Tally(f, T)
             P == {T \in SUBSET S : Ok(T)}
  <1>1. ASSUME NEW T \in SUBSET S, \A U \in SUBSET T : U # T => U \in P PROVE T \in P
    <2>1. IsFiniteSet(T) /\ \A x \in T : f[x] \in Int
      BY FS_Subset
    <2>2. Tally(f, T) = IF T = {} THEN 0 ELSE f[Pick(T)] + Tally(f, T \ {Pick(T)})
      BY <2>1, SumIs
    <2>3. Tally(f, T) \in Nat
      <3>1. CASE T = {}
        BY <2>2, <3>1
      <3>2. CASE T # {}
        <4>1. Pick(T) \in T /\ f[Pick(T)] \in Nat
          BY <3>2, PickIsThere
        <4>2. T \ {Pick(T)} \in P
          BY <1>1, <4>1
        <4> QED
          BY <2>2, <3>2, <4>1, <4>2
      <3> QED
        BY <3>1, <3>2
    <2>4. ASSUME NEW U \in SUBSET T, U # T PROVE Tally(f, U) \in Nat /\ Tally(f, U) <= Tally(f, T)
      <3>1. PICK x \in T : x \notin U
        BY <2>4
      <3> DEFINE V == T \ {x}
      <3>2. V \in SUBSET T /\ V # T /\ U \in SUBSET V
        BY <3>1
      <3> HIDE DEF V
      <3>3. V \in P
        BY <1>1, <3>2
      <3>4. Tally(f, T) = f[x] + Tally(f, V)
        BY <2>1, <3>1, SumAdd DEF V
      <3>5. Tally(f, V) \in Nat /\ Tally(f, U) \in Nat /\ Tally(f, U) <= Tally(f, V)
        BY <3>2, <3>3
      <3>6. f[x] \in Nat
        OBVIOUS
      <3> QED
        BY <3>4, <3>5, <3>6
    <2>5. ASSUME NEW U \in SUBSET T PROVE Tally(f, U) \in Nat /\ Tally(f, U) <= Tally(f, T)
      <3>1. CASE U = T
        BY <2>3, <3>1
      <3> QED
        BY <2>4, <3>1
    <2> QED
      BY <2>3, <2>5
  <1> HIDE DEF P
  <1>2. S \in P
    BY <1>1, SmallerFirst
  <1> QED
    BY <1>2 DEF P

LEMMA PointsGrow ==
    ASSUME NEW B \in SUBSET Subjects, NEW A \in SUBSET B
    PROVE  /\ FirstYearPoints(A) \in Nat /\ FirstYearPoints(B) \in Nat
           /\ FirstYearPoints(A) <= FirstYearPoints(B)
  <1> DEFINE a == {c \in A : Level[c] = 100}
             b == {c \in B : Level[c] = 100}
  <1>1. IsFiniteSet(b) /\ a \in SUBSET b /\ \A x \in b : Points[x] \in Nat
    BY SubjectsAssumption, FS_Subset
  <1>2. FirstYearPoints(A) = Tally(Points, a) /\ FirstYearPoints(B) = Tally(Points, b)
    BY SumOnSetIs DEF FirstYearPoints, PointsAtLevel
  <1> HIDE DEF a, b
  <1> QED
    BY <1>1, <1>2, SumGrows

-----------------------------------------------------------------------------
(* Equivalents: expand_held ends with the least set closed under them      *)

Closed(s) == \A e \in Satisfies : e[1] \in s <=> e[2] \in s

Rounds(f, n, held) ==
    f = [k \in 0..n |-> IF k = 0 THEN held ELSE WithLinked(f[k - 1])]

LEMMA RoundsAre ==
    ASSUME NEW f, NEW n \in Nat, NEW held, Rounds(f, n, held)
    PROVE  f[0] = held /\ \A k \in 1..n : f[k] = WithLinked(f[k - 1])
  <1> DEFINE F == [k \in 0..n |-> IF k = 0 THEN held ELSE WithLinked(f[k - 1])]
  <1>1. f = F
    BY DEF Rounds
  <1>2. F[0] = held /\ \A k \in 1..n : F[k] = WithLinked(f[k - 1])
    OBVIOUS
  <1> HIDE DEF F
  <1> QED
    BY <1>1, <1>2

LEMMA RoundsExist ==
    ASSUME NEW n \in Nat, NEW held
    PROVE  \E f : Rounds(f, n, held)
  <1> DEFINE T == {m \in 0..n : \E f : Rounds(f, m, held)}
  <1>1. 0 \in T
    <2> DEFINE f == [k \in 0..0 |-> held]
    <2>1. f = [k \in 0..0 |-> IF k = 0 THEN held ELSE WithLinked(f[k - 1])]
      OBVIOUS
    <2> HIDE DEF f
    <2>2. Rounds(f, 0, held)
      BY <2>1 DEF Rounds
    <2> QED
      BY <2>2
  <1>2. ASSUME NEW m \in 0..n, m \in T, m < n PROVE m + 1 \in T
    <2>1. PICK f : Rounds(f, m, held)
      BY <1>2
    <2>2. f[0] = held /\ \A k \in 1..m : f[k] = WithLinked(f[k - 1])
      BY <2>1, RoundsAre
    <2> DEFINE g == [k \in 0..(m + 1) |-> IF k = m + 1 THEN WithLinked(f[m]) ELSE f[k]]
               G == [k \in 0..(m + 1) |-> IF k = 0 THEN held ELSE WithLinked(g[k - 1])]
    <2>3. ASSUME NEW k \in 0..(m + 1) PROVE g[k] = IF k = 0 THEN held ELSE WithLinked(g[k - 1])
      <3>1. CASE k = 0
        BY <2>2, <3>1
      <3>2. CASE k = m + 1
        BY <3>2
      <3>3. CASE k # 0 /\ k # m + 1
        <4>1. k \in 1..m /\ k - 1 \in 0..(m + 1) /\ k - 1 # m + 1
          BY <3>3
        <4>2. g[k] = f[k] /\ g[k - 1] = f[k - 1]
          BY <4>1, <3>3
        <4> QED
          BY <4>1, <4>2, <2>2, <3>3
      <3> QED
        BY <3>1, <3>2, <3>3
    <2>4. g = G
      BY <2>3
    <2> HIDE DEF g
    <2>5. Rounds(g, m + 1, held)
      BY <2>4 DEF Rounds
    <2>6. m + 1 \in 0..n
      BY <1>2
    <2> HIDE DEF G
    <2> QED
      BY <2>5, <2>6
  <1> HIDE DEF T
  <1>3. n \in T
    <2>1. n \in 0..n
      OBVIOUS
    <2> QED
      BY <1>1, <1>2, <2>1, UpTo
  <1> QED
    BY <1>3 DEF T

\* The rounds of the loop.
LEMMA ExpandRounds ==
    ASSUME NEW held, NEW n, n = Cardinality(Satisfies)
    PROVE  /\ n \in Nat /\ IsFiniteSet(Satisfies)
           /\ \E f : /\ f[0] = held /\ \A k \in 1..n : f[k] = WithLinked(f[k - 1])
                     /\ ExpandHeld(held) = f[n]
  <1>1. IsFiniteSet(Subjects \X Subjects)
    BY SubjectsAssumption, FS_Product
  <1>2. IsFiniteSet(Satisfies) /\ n \in Nat
    BY <1>1, SatisfiesAssumption, FS_Subset, FS_CardinalityType
  <1> DEFINE f == CHOOSE f : Rounds(f, n, held)
  <1>3. ExpandHeld(held) = f[n]
    BY DEF ExpandHeld, Rounds
  <1>4. Rounds(f, n, held)
    BY <1>2, RoundsExist
  <1> HIDE DEF f
  <1>5. f[0] = held /\ \A k \in 1..n : f[k] = WithLinked(f[k - 1])
    BY <1>2, <1>4, RoundsAre
  <1> QED
    BY <1>2, <1>3, <1>5

\* The equivalences between subjects of s.
Inside(s) == {e \in Satisfies : e[1] \in s /\ e[2] \in s}

LEMMA RoundIs ==
    ASSUME NEW s \in SUBSET Subjects
    PROVE  /\ s \subseteq WithLinked(s) /\ WithLinked(s) \in SUBSET Subjects
           /\ Closed(s) => WithLinked(s) = s
           /\ \A t : Closed(t) /\ s \subseteq t => WithLinked(s) \subseteq t
           /\ ~Closed(s) => \E e \in Satisfies : e \notin Inside(s) /\ e \in Inside(WithLinked(s))
           /\ Inside(s) \subseteq Inside(WithLinked(s))
  <1>1. \A e \in Satisfies : e[1] \in Subjects /\ e[2] \in Subjects
    BY SatisfiesAssumption
  <1>2. \A x : x \in WithLinked(s) <=>
          \/ x \in s
          \/ \E e \in Satisfies : e[2] \in s /\ x = e[1]
          \/ \E e \in Satisfies : e[1] \in s /\ x = e[2]
    BY DEF WithLinked
  <1>3. s \subseteq WithLinked(s) /\ WithLinked(s) \in SUBSET Subjects
    BY <1>1, <1>2
  <1>4. \A t : Closed(t) /\ s \subseteq t => WithLinked(s) \subseteq t
    BY <1>2 DEF Closed
  <1>5. ~Closed(s) => \E e \in Satisfies : e \notin Inside(s) /\ e \in Inside(WithLinked(s))
    BY <1>2 DEF Closed, Inside
  <1> QED
    BY <1>3, <1>4, <1>5 DEF Inside

\* The loop ends with the least set that holds what is held and that no equivalence
\* leads out of: each round that changes anything takes in another equivalence.
LEMMA ExpandIsLeast ==
    ASSUME NEW held \in SUBSET Subjects
    PROVE  /\ held \subseteq ExpandHeld(held) /\ ExpandHeld(held) \in SUBSET Subjects
           /\ Closed(ExpandHeld(held))
           /\ \A t : Closed(t) /\ held \subseteq t => ExpandHeld(held) \subseteq t
  <1> DEFINE n == Cardinality(Satisfies)
  <1>1. /\ n \in Nat /\ IsFiniteSet(Satisfies)
        /\ \E f : /\ f[0] = held /\ \A k \in 1..n : f[k] = WithLinked(f[k - 1])
                  /\ ExpandHeld(held) = f[n]
    BY ExpandRounds
  <1>2. PICK f : /\ f[0] = held /\ \A k \in 1..n : f[k] = WithLinked(f[k - 1])
                 /\ ExpandHeld(held) = f[n]
    BY <1>1
  <1> DEFINE Least(s) == /\ held \subseteq s /\ s \in SUBSET Subjects
                         /\ \A t : Closed(t) /\ held \subseteq t => s \subseteq t
             Far(s, k) == Closed(s) \/ Cardinality(Inside(s)) >= k
             T == {k \in 0..n : Least(f[k]) /\ Far(f[k], k)}
  <1>3. \A s : Inside(s) \in SUBSET Satisfies
    BY DEF Inside
  <1>4. \A s : IsFiniteSet(Inside(s)) /\ Cardinality(Inside(s)) \in Nat
    BY <1>1, <1>3, FS_Subset, FS_CardinalityType
  <1>5. 0 \in T
    <2>1. Least(held) /\ Far(held, 0)
      BY <1>4
    <2> HIDE DEF Least, Far
    <2> QED
      BY <2>1, <1>1, <1>2
  <1>6. ASSUME NEW k \in 0..n, k \in T, k < n PROVE k + 1 \in T
    <2> DEFINE s == f[k]
               u == WithLinked(s)
    <2>1. f[k + 1] = u
      <3>1. k + 1 \in 1..n /\ (k + 1) - 1 = k
        BY <1>1, <1>6
      <3> HIDE DEF n
      <3> QED
        BY <3>1, <1>2
    <2>2. Least(s) /\ Far(s, k)
      BY <1>6
    <2> HIDE DEF s
    <2>3. Least(u)
      BY <2>2, RoundIs
    <2>4. Far(u, k + 1)
      <3>1. CASE Closed(s)
        <4>1. u = s
          BY <2>2, <3>1, RoundIs
        <4> QED
          BY <3>1, <4>1
      <3>2. CASE ~Closed(s)
        <4>1. Cardinality(Inside(s)) >= k
          BY <2>2, <3>2
        <4>2. Inside(s) \in SUBSET Inside(u) /\ Inside(s) # Inside(u)
          BY <2>2, <3>2, RoundIs
        <4>3. Cardinality(Inside(s)) <= Cardinality(Inside(u))
              /\ Cardinality(Inside(s)) # Cardinality(Inside(u))
          BY <4>2, <1>4, FS_Subset
        <4> DEFINE a == Cardinality(Inside(s))
                   b == Cardinality(Inside(u))
        <4>4. a \in Nat /\ b \in Nat /\ a >= k /\ a <= b /\ a # b
          BY <4>1, <4>3, <1>4
        <4> HIDE DEF a, b
        <4>5. b >= k + 1
          BY <4>4
        <4> QED
          BY <4>5 DEF b
      <3> QED
        BY <3>1, <3>2
    <2> HIDE DEF u, Least, Far
    <2>5. k + 1 \in 0..n
      BY <1>1, <1>6
    <2> QED
      BY <2>1, <2>3, <2>4, <2>5
  <1>7. n \in T
    <2> HIDE DEF T
    <2>1. n \in 0..n
      BY <1>1
    <2> QED
      BY <1>1, <1>5, <1>6, <2>1, UpTo
  <1>8. Closed(f[n])
    <2>1. CASE Cardinality(Inside(f[n])) >= n
      <3>1. Cardinality(Inside(f[n])) = n
        <4>1. Cardinality(Inside(f[n])) <= n
          BY <1>1, <1>3, FS_Subset
        <4> QED
          BY <1>1, <1>4, <2>1, <4>1
      <3>2. Inside(f[n]) = Satisfies
        BY <1>1, <1>3, <3>1, FS_Subset
      <3> QED
        BY <3>2 DEF Inside, Closed
    <2> QED
      BY <1>7, <2>1
  <1> QED
    BY <1>2, <1>7, <1>8

LEMMA ExpandGrows ==
    ASSUME NEW B \in SUBSET Subjects, NEW A \in SUBSET B
    PROVE  ExpandHeld(A) \subseteq ExpandHeld(B)
  <1>1. Closed(ExpandHeld(B)) /\ A \subseteq ExpandHeld(B)
    BY ExpandIsLeast
  <1> QED
    BY <1>1, ExpandIsLeast

\* expand_held gives the subjects that are linked to one that is held.
LEMMA ExpandIsLinked ==
    ASSUME NEW held \in SUBSET Subjects
    PROVE  ExpandHeld(held) = {e \in Subjects : \E d \in held : <<e, d>> \in Linked}
  <1> DEFINE closed == {s \in SUBSET Subjects : Closed(s)}
             L == {e \in Subjects : \E d \in held : <<e, d>> \in Linked}
  <1>1. \A e, d : <<e, d>> \in Linked <=>
          e \in Subjects /\ d \in Subjects /\ \A s \in closed : e \in s <=> d \in s
    BY DEF Linked, Closed
  <1>2. ASSUME NEW e \in L PROVE e \in ExpandHeld(held)
    <2>1. PICK d \in held : <<e, d>> \in Linked
      BY <1>2
    <2>2. ExpandHeld(held) \in closed /\ d \in ExpandHeld(held)
      BY ExpandIsLeast
    <2> QED
      BY <1>1, <2>1, <2>2
  <1>3. Closed(L)
    <2> SUFFICES ASSUME NEW e \in Satisfies PROVE e[1] \in L <=> e[2] \in L
      BY DEF Closed
    <2>1. e[1] \in Subjects /\ e[2] \in Subjects /\ \A s \in closed : e[1] \in s <=> e[2] \in s
      BY SatisfiesAssumption DEF Closed
    <2>2. \A d : <<e[1], d>> \in Linked <=> <<e[2], d>> \in Linked
      <3> HIDE DEF closed
      <3> QED
        BY <1>1, <2>1
    <2> QED
      BY <2>1, <2>2
  <1>4. held \subseteq L
    BY <1>1
  <1>5. ExpandHeld(held) \subseteq L
    <2> HIDE DEF L
    <2> QED
      BY <1>3, <1>4, ExpandIsLeast
  <1> QED
    BY <1>2, <1>5

-----------------------------------------------------------------------------
(* Ranked lists                                                            *)

LEMMA MinOfTwo ==
    ASSUME NEW a \in Nat, NEW b \in Nat
    PROVE  Min({a, b}) = IF a <= b THEN a ELSE b
  BY DEF Min

\* d comes before c in every ranked list.
Precedes(d, c) ==
    \/ problem.score[d] > problem.score[c]
    \/ problem.score[d] = problem.score[c] /\ Position[d] < Position[c]

Relevant(codes) == {c \in codes : problem.score[c] > 0}
Over(codes, c) == {d \in Relevant(codes) : Precedes(d, c)}

LEMMA PrecedesIsTotal ==
    ASSUME problem.score \in [Subjects -> Nat],
           NEW c \in Subjects, NEW d \in Subjects, NEW e \in Subjects
    PROVE  /\ ~Precedes(c, c)
           /\ c = d \/ Precedes(c, d) \/ Precedes(d, c)
           /\ Precedes(c, d) /\ Precedes(d, e) => Precedes(c, e)
  <1>1. /\ problem.score[c] \in Nat /\ problem.score[d] \in Nat /\ problem.score[e] \in Nat
        /\ Position[c] \in Nat /\ Position[d] \in Nat /\ Position[e] \in Nat
        /\ Position[c] = Position[d] => c = d
    BY CatalogAssumption
  <1> QED
    BY <1>1 DEF Precedes

\* The number of those that precede it is another for each, and every number up to
\* that of the last occurs.
LEMMA RanksAreDistinct ==
    ASSUME problem.score \in [Subjects -> Nat], NEW S \in SUBSET Subjects,
           NEW n, n = Cardinality(Relevant(S))
    PROVE  /\ n \in Nat /\ IsFiniteSet(Relevant(S))
           /\ \A c \in Relevant(S) : Cardinality(Over(S, c)) \in 0..(n - 1)
           /\ \A c, d \in Relevant(S) :
                Cardinality(Over(S, c)) = Cardinality(Over(S, d)) => c = d
           /\ \A k \in 0..(n - 1) : \E c \in Relevant(S) : Cardinality(Over(S, c)) = k
  <1> DEFINE R == Relevant(S)
             rank == [c \in R |-> Cardinality(Over(S, c))]
  <1>1. R \in SUBSET Subjects /\ IsFiniteSet(R) /\ n \in Nat
    BY SubjectsAssumption, FS_Subset, FS_CardinalityType DEF Relevant
  <1>2. \A c : Over(S, c) \in SUBSET R
    BY DEF Over
  <1>3. \A c : IsFiniteSet(Over(S, c)) /\ Cardinality(Over(S, c)) \in Nat
    BY <1>1, <1>2, FS_Subset, FS_CardinalityType
  <1>4. ASSUME NEW c \in R PROVE Cardinality(Over(S, c)) \in 0..(n - 1)
    <2>1. Over(S, c) # R
      BY <1>1, <1>4, PrecedesIsTotal DEF Over
    <2>2. Cardinality(Over(S, c)) <= n /\ Cardinality(Over(S, c)) # n
      BY <1>1, <1>2, <2>1, FS_Subset
    <2> QED
      BY <1>1, <1>3, <2>2
  <1>5. ASSUME NEW c \in R, NEW d \in R, Precedes(c, d)
        PROVE  Cardinality(Over(S, c)) # Cardinality(Over(S, d))
    <2>1. ASSUME NEW e \in Over(S, c) PROVE e \in Over(S, d)
      <3>1. e \in R /\ Precedes(e, c)
        BY DEF Over
      <3> HIDE DEF R
      <3>2. Precedes(e, d)
        BY <1>1, <1>5, <3>1, PrecedesIsTotal
      <3> QED
        BY <3>1, <3>2 DEF Over, R
    <2>2. c \in Over(S, d) /\ c \notin Over(S, c)
      BY <1>1, <1>5, PrecedesIsTotal DEF Over
    <2>3. Over(S, c) \in SUBSET Over(S, d) /\ Over(S, c) # Over(S, d)
      BY <2>1, <2>2
    <2> QED
      BY <1>3, <2>3, FS_Subset
  <1>6. ASSUME NEW c \in R, NEW d \in R, Cardinality(Over(S, c)) = Cardinality(Over(S, d))
        PROVE  c = d
    <2> HIDE DEF R
    <2> QED
      BY <1>1, <1>5, <1>6, PrecedesIsTotal
  <1>7. ASSUME NEW k \in 0..(n - 1) PROVE \E c \in R : Cardinality(Over(S, c)) = k
    <2>1. rank \in Injection(R, 0..(n - 1))
      BY <1>4, <1>6 DEF Injection, IsInjective
    <2>2. IsFiniteSet(0..(n - 1)) /\ Cardinality(0..(n - 1)) = n
      <3>1. IsFiniteSet(0..(n - 1))
            /\ Cardinality(0..(n - 1)) = IF 0 > n - 1 THEN 0 ELSE (n - 1) - 0 + 1
        <4>1. 0 \in Int /\ n - 1 \in Int
          BY <1>1
        <4> QED
          BY <4>1, FS_Interval
      <3> QED
        BY <1>1, <3>1
    <2> HIDE DEF rank
    <2>3. rank \in Surjection(R, 0..(n - 1))
      BY <2>1, <2>2, FS_Injection
    <2>4. \E c \in R : rank[c] = k
      BY <2>3 DEF Surjection
    <2> QED
      BY <2>4 DEF rank
  <1> QED
    BY <1>1, <1>4, <1>6, <1>7

\* A ranked list has each relevant subject once, behind those that precede it.
LEMMA SortedIs ==
    ASSUME problem.score \in [Subjects -> Nat], NEW S \in SUBSET Subjects,
           NEW n, n = Cardinality(Relevant(S))
    PROVE  /\ Sorted(S) \in [1..n -> Relevant(S)]
           /\ \A k \in 1..n : Cardinality(Over(S, Sorted(S)[k])) = k - 1
           /\ \A c \in Relevant(S) : /\ Cardinality(Over(S, c)) + 1 \in 1..n
                                     /\ Sorted(S)[Cardinality(Over(S, c)) + 1] = c
  <1> DEFINE At(k) == CHOOSE c \in Relevant(S) : Cardinality(Over(S, c)) = k - 1
  <1>1. Sorted(S) = [k \in 1..n |-> At(k)]
    BY DEF Sorted, Relevant, Over, Precedes
  <1>2. /\ n \in Nat
        /\ \A c \in Relevant(S) : Cardinality(Over(S, c)) \in 0..(n - 1)
        /\ \A c, d \in Relevant(S) :
             Cardinality(Over(S, c)) = Cardinality(Over(S, d)) => c = d
        /\ \A k \in 0..(n - 1) : \E c \in Relevant(S) : Cardinality(Over(S, c)) = k
    BY RanksAreDistinct
  <1>3. ASSUME NEW k \in 1..n
        PROVE  At(k) \in Relevant(S) /\ Cardinality(Over(S, At(k))) = k - 1
    <2>1. k - 1 \in 0..(n - 1)
      BY <1>2
    <2>2. \E c \in Relevant(S) : Cardinality(Over(S, c)) = k - 1
      BY <1>2, <2>1
    <2> QED
      BY <2>2
  <1> HIDE DEF At
  <1>4. Sorted(S) \in [1..n -> Relevant(S)]
    BY <1>1, <1>3
  <1>5. \A k \in 1..n : Cardinality(Over(S, Sorted(S)[k])) = k - 1
    BY <1>1, <1>3
  <1>6. ASSUME NEW c \in Relevant(S)
        PROVE  /\ Cardinality(Over(S, c)) + 1 \in 1..n
               /\ Sorted(S)[Cardinality(Over(S, c)) + 1] = c
    <2> DEFINE r == Cardinality(Over(S, c))
    <2>1. r \in 0..(n - 1)
      BY <1>2
    <2> HIDE DEF r
    <2>2. r + 1 \in 1..n /\ (r + 1) - 1 = r
      BY <1>2, <2>1
    <2>3. Sorted(S)[r + 1] \in Relevant(S) /\ Cardinality(Over(S, Sorted(S)[r + 1])) = r
      BY <1>4, <1>5, <2>2
    <2>4. Sorted(S)[r + 1] = c
      BY <1>2, <2>3 DEF r
    <2> QED
      BY <2>2, <2>4 DEF r
  <1> QED
    BY <1>4, <1>5, <1>6

LEMMA SortedIsList ==
    ASSUME problem.score \in [Subjects -> Nat], NEW S \in SUBSET Subjects
    PROVE  /\ Sorted(S) \in Seq(Relevant(S)) /\ Len(Sorted(S)) = Cardinality(Relevant(S))
           /\ Cardinality(Relevant(S)) \in Nat
           /\ \A i, j \in DOMAIN Sorted(S) : Sorted(S)[i] = Sorted(S)[j] => i = j
  <1> DEFINE n == Cardinality(Relevant(S))
             s == Sorted(S)
  <1>1. n \in Nat
    BY RanksAreDistinct
  <1>2. s \in [1..n -> Relevant(S)] /\ \A k \in 1..n : Cardinality(Over(S, s[k])) = k - 1
    BY SortedIs
  <1> HIDE DEF n, s
  <1>3. s \in Seq(Relevant(S)) /\ Len(s) = n /\ DOMAIN s = 1..n
    BY <1>1, <1>2
  <1>4. \A i, j \in 1..n : s[i] = s[j] => i = j
    BY <1>1, <1>2
  <1> QED
    BY <1>1, <1>3, <1>4 DEF n, s

\* A shortlist is the start of a ranked list.
LEMMA ShortlistIs ==
    ASSUME problem.score \in [Subjects -> Nat], NEW S \in SUBSET Subjects,
           NEW n, n = Cardinality(Relevant(S)), NEW m, m = IF LIMIT <= n THEN LIMIT ELSE n
    PROVE  /\ n \in Nat /\ m \in Nat /\ m <= n /\ m <= LIMIT
           /\ Shortlist(S) \in Seq(Relevant(S)) /\ Len(Shortlist(S)) = m
           /\ DOMAIN Shortlist(S) = 1..m
           /\ \A k \in 1..m : Shortlist(S)[k] = Sorted(S)[k]
  <1> DEFINE s == Sorted(S)
  <1>1. s \in Seq(Relevant(S)) /\ Len(s) = n /\ n \in Nat /\ LIMIT \in Nat
    BY SortedIsList, LimitAssumption
  <1>2. Min({LIMIT, n}) = m /\ m \in Nat /\ m <= n /\ m <= LIMIT
    BY <1>1, MinOfTwo
  <1>3. Shortlist(S) = SubSeq(s, 1, m)
    BY <1>1, <1>2 DEF Shortlist
  <1> HIDE DEF s
  <1>4. /\ SubSeq(s, 1, m) \in Seq(Relevant(S)) /\ Len(SubSeq(s, 1, m)) = m
        /\ \A k \in 1..m : SubSeq(s, 1, m)[k] = s[k]
    BY <1>1, <1>2
  <1>5. DOMAIN SubSeq(s, 1, m) = 1..m
    BY <1>4
  <1> QED
    BY <1>1, <1>2, <1>3, <1>4, <1>5 DEF s

-----------------------------------------------------------------------------
(* What may be taken                                                       *)

LEMMA LeastNumber ==
    ASSUME NEW T \in SUBSET Nat, T # {}
    PROVE  \E i \in T : \A j \in T : i <= j
  <1>1. PICK n \in T : TRUE
    OBVIOUS
  <1> DEFINE U == {i \in T : i <= n}
  <1>2. n \in Nat /\ U \subseteq 0..n /\ U # {}
    <2>1. n \in Nat /\ n <= n
      <3>1. n \in Nat
        BY <1>1
      <3> QED
        BY <3>1
    <2>2. \A i \in T : i \in Nat
      OBVIOUS
    <2>3. ASSUME NEW i \in U PROVE i \in 0..n
      <3>1. i \in Nat /\ i <= n
        BY <2>2
      <3> QED
        BY <2>1, <3>1
    <2>4. n \in U
      BY <2>1
    <2> QED
      BY <2>1, <2>3, <2>4
  <1> HIDE DEF U
  <1>3. PICK i \in U : \A j \in U : i <= j
    BY <1>2, LeastOf
  <1> QED
    BY <1>2, <1>3 DEF U

LEMMA MinOfNumbers ==
    ASSUME NEW T \in SUBSET Nat, T # {}
    PROVE  Min(T) \in T /\ \A j \in T : Min(T) <= j
  <1>1. \E i \in T : \A j \in T : j >= i
    BY LeastNumber
  <1> QED
    BY <1>1 DEF Min

LEMMA MaxOfTwo ==
    ASSUME NEW a \in Nat, NEW b \in Nat
    PROVE  Max({a, b}) = IF a <= b THEN b ELSE a
  BY DEF Max

LEMMA PoolIsCatalog ==
    ASSUME NEW pool, NEW forbidden, NEW c \in PoolCandidates(pool, forbidden)
    PROVE  c \in Catalog \ forbidden /\ c \in Subjects /\ Level[c] \in ALLOWED_ELECTIVE_LEVELS
  BY CatalogAssumption DEF PoolCandidates, Named

\* Blocked is what forbids, or replaces, one of the subjects that are held.
LEMMA BlockedIs ==
    ASSUME NEW held \in SUBSET Subjects, NEW c
    PROVE  /\ ExclusionBlocked(c, held) <=> \E d \in held : Forbids(c, d)
           /\ ReplacementBlocked(c, held) <=>
                \E d \in held : \E e \in Satisfies : e[2] = c /\ <<e[1], d>> \in Linked
  <1>1. ExpandHeld(held) = {e \in Subjects : \E d \in held : <<e, d>> \in Linked}
    BY ExpandIsLinked
  <1>2. \A e, d : <<e, d>> \in Linked => e \in Subjects
    BY DEF Linked
  <1>3. \A e : e \in ExpandHeld(held) <=> \E d \in held : <<e, d>> \in Linked
    BY <1>1, <1>2
  <1>4. ExclusionBlocked(c, held) <=> \E d \in held : Forbids(c, d)
    BY <1>3 DEF ExclusionBlocked, Forbids
  <1>5. ReplacementBlocked(c, held) <=>
          \E d \in held : \E e \in Satisfies : e[2] = c /\ <<e[1], d>> \in Linked
    BY <1>3 DEF ReplacementBlocked
  <1> QED
    BY <1>4, <1>5

\* Holding less never rules a subject out, its requirements aside.
LEMMA RulesShrink ==
    ASSUME NEW B \in SUBSET Subjects, NEW A \in SUBSET B, NEW c \in Subjects,
           NEW prior, NEW through, RulesAllow(c, B, prior, through)
    PROVE  RulesAllow(c, A, prior, through)
  <1>1. ExpandHeld(A) \subseteq ExpandHeld(B)
    BY ExpandGrows
  <1>2. ~ExclusionBlocked(c, A) /\ ~ReplacementBlocked(c, A)
    BY <1>1 DEF RulesAllow, ExclusionBlocked, ReplacementBlocked
  <1>3. UnderCap(c, A)
    <2> DEFINE a == A \union {c}
               b == B \union {c}
    <2>1. b \in SUBSET Subjects /\ a \in SUBSET b
      OBVIOUS
    <2> HIDE DEF a, b
    <2>2. /\ FirstYearPoints(a) \in Nat /\ FirstYearPoints(b) \in Nat
          /\ FirstYearPoints(a) <= FirstYearPoints(b)
      BY <2>1, PointsGrow
    <2>3. Level[c] = 100 => FirstYearPoints(b) <= MAX_100_LEVEL_CP
      BY DEF RulesAllow, UnderCap, b
    <2>4. Level[c] = 100 => FirstYearPoints(a) <= MAX_100_LEVEL_CP
      BY <2>2, <2>3, LimitAssumption
    <2> QED
      BY <2>4 DEF UnderCap, a
  <1> QED
    BY <1>2, <1>3 DEF RulesAllow

-----------------------------------------------------------------------------
(* The plan while it is walked                                             *)

Visited == Slots \ todo

\* Rows keep their times and levels; a code changes from the placeholder to a
\* subject of the catalog, and only in a row that was visited.
Shape ==
    /\ problem \in Problems
    /\ todo \subseteq Slots
    /\ DOMAIN plan = DOMAIN problem.rows
    /\ \A i \in DOMAIN plan :
        /\ plan[i] \in PlanRows
        /\ plan[i].year = problem.rows[i].year
        /\ plan[i].session = problem.rows[i].session
        /\ plan[i].level = problem.rows[i].level
        /\ plan[i].code = problem.rows[i].code \/ (i \in Visited /\ plan[i].code \in Catalog)

Before(i, k) == When(plan[i]) < When(plan[k]) \/ (When(plan[i]) = When(plan[k]) /\ i < k)

\* Rows are visited in calendar order.
InOrder == \A i \in Visited : \A k \in todo : Before(i, k)

\* What one step does to the row i.
Visits(i) ==
    /\ i \in todo /\ todo' = todo \ {i} /\ UNCHANGED problem
    /\ \A k \in todo \ {i} : Before(i, k)

Leaves(i) ==
    /\ plan' = plan
    /\ \A n \in DOMAIN Ranked : ~Fits(Ranked[n], i)

Fills(i, m) ==
    /\ plan' = [plan EXCEPT ![i].code = Ranked[m]]
    /\ m \in DOMAIN Ranked /\ Fits(Ranked[m], i)
    /\ \A n \in DOMAIN Ranked : n < m => ~Fits(Ranked[n], i)

LEMMA ProblemIs ==
    ASSUME problem \in Problems
    PROVE  /\ problem.completed \in SUBSET Subjects /\ problem.planned \in SUBSET Subjects
           /\ Known \in SUBSET Subjects
           /\ problem.score \in [Subjects -> Nat]
           /\ problem.rows \in Seq(PlanRows)
           /\ Fixed \in SUBSET Subjects
           /\ \A i \in DOMAIN problem.rows : i \in Nat /\ problem.rows[i] \in PlanRows
  <1>1. /\ problem.completed \in SUBSET Subjects /\ problem.planned \in SUBSET Subjects
        /\ problem.score \in [Subjects -> Nat]
        /\ problem.rows \in Seq(PlanRows)
    BY ProblemsAssumption
  <1>2. \A i \in DOMAIN problem.rows : i \in Nat /\ problem.rows[i] \in PlanRows
    BY <1>1
  <1>3. \A i \in DOMAIN problem.rows \ Slots : problem.rows[i].code \in Subjects
    BY <1>2 DEF Slots, IsPlaceholder, PlanRows
  <1> QED
    BY <1>1, <1>2, <1>3 DEF Known, Fixed

\* The ranking names electives of the catalog, each once.
LEMMA RankedIs ==
    ASSUME problem \in Problems
    PROVE  /\ \A n \in DOMAIN Ranked :
                /\ n \in Nat
                /\ Ranked[n] \in Catalog /\ Ranked[n] \in Subjects
                /\ Level[Ranked[n]] \in ALLOWED_ELECTIVE_LEVELS
           /\ \A n, m \in DOMAIN Ranked : Ranked[n] = Ranked[m] => n = m
  <1> DEFINE S == PoolCandidates(problem.pool, Core \union Known \union Fixed)
             n == Cardinality(Relevant(S))
             l == IF LIMIT <= n THEN LIMIT ELSE n
  <1>1. S \in SUBSET Subjects
    BY PoolIsCatalog
  <1>2. problem.score \in [Subjects -> Nat]
    BY ProblemIs
  <1>3. \A c \in S : c \in Catalog /\ c \in Subjects /\ Level[c] \in ALLOWED_ELECTIVE_LEVELS
    BY PoolIsCatalog
  <1>4. Ranked = Shortlist(S)
    BY DEF Ranked
  <1> HIDE DEF S
  <1>5. /\ n \in Nat /\ l \in Nat /\ l <= n
        /\ DOMAIN Shortlist(S) = 1..l /\ Shortlist(S) \in Seq(Relevant(S))
        /\ \A k \in 1..l : Shortlist(S)[k] = Sorted(S)[k]
    BY <1>1, <1>2, ShortlistIs
  <1>6. /\ Len(Sorted(S)) = n /\ Sorted(S) \in Seq(Relevant(S))
        /\ \A i, j \in DOMAIN Sorted(S) : Sorted(S)[i] = Sorted(S)[j] => i = j
    BY <1>1, <1>2, SortedIsList
  <1> HIDE DEF n, l
  <1>7. DOMAIN Sorted(S) = 1..n
    BY <1>5, <1>6
  <1>8. 1..l \subseteq DOMAIN Sorted(S)
    BY <1>5, <1>7
  <1>9. \A i \in 1..l : i \in Nat /\ Shortlist(S)[i] \in S
    BY <1>5 DEF Relevant
  <1>10. \A i, j \in 1..l : Shortlist(S)[i] = Shortlist(S)[j] => i = j
    BY <1>5, <1>6, <1>8
  <1> QED
    BY <1>3, <1>4, <1>5, <1>9, <1>10

LEMMA WhenIs ==
    ASSUME NEW row \in PlanRows
    PROVE  When(row) \in Nat /\ SessionRank(row.session) \in 0..9
  <1>1. row.year \in Nat
    BY DEF PlanRows
  <1>2. SessionRank(row.session) \in {0, 1, 2, 9}
    BY DEF SessionRank
  <1> HIDE DEF SessionRank
  <1> QED
    BY <1>1, <1>2 DEF When

\* Sessions compare as years, and in a year as their ranks.
LEMMA WhenIsCalendar ==
    ASSUME NEW a \in PlanRows, NEW b \in PlanRows
    PROVE  /\ When(a) < When(b) <=> (a.year < b.year \/ (a.year = b.year
                  /\ SessionRank(a.session) < SessionRank(b.session)))
           /\ When(a) = When(b) <=>
                a.year = b.year /\ SessionRank(a.session) = SessionRank(b.session)
  <1> DEFINE y == a.year
             z == b.year
             s == SessionRank(a.session)
             t == SessionRank(b.session)
  <1>1. y \in Nat /\ z \in Nat
    BY DEF PlanRows
  <1>2. s \in 0..9 /\ t \in 0..9
    BY WhenIs
  <1>3. When(a) = 10 * y + s /\ When(b) = 10 * z + t
    BY DEF When
  <1> HIDE DEF y, z, s, t
  <1>4. /\ 10 * y + s < 10 * z + t <=> (y < z \/ (y = z /\ s < t))
        /\ 10 * y + s = 10 * z + t <=> y = z /\ s = t
    BY <1>1, <1>2
  <1> QED
    BY <1>3, <1>4 DEF y, z, s, t

LEMMA RowsAre ==
    ASSUME Shape
    PROVE  \A i \in DOMAIN plan : /\ i \in Nat /\ When(plan[i]) \in Nat
                                  /\ plan[i].code \in Subjects \union {Placeholder}
  <1>1. \A i \in DOMAIN plan : i \in Nat /\ plan[i] \in PlanRows
    BY ProblemIs DEF Shape
  <1>2. \A i \in DOMAIN plan : plan[i].code \in Subjects \union {Placeholder}
    BY <1>1 DEF PlanRows
  <1> QED
    BY <1>1, <1>2, WhenIs

\* The next row is the earliest of those still to be visited.
LEMMA NextIs ==
    ASSUME Shape, todo # {}
    PROVE  NextSlot(todo) \in todo /\ \A k \in todo \ {NextSlot(todo)} : Before(NextSlot(todo), k)
  <1> DEFINE W == {When(plan[i]) : i \in todo}
  <1>1. /\ todo \subseteq DOMAIN plan
        /\ \A i \in todo : i \in Nat /\ When(plan[i]) \in Nat
    BY RowsAre DEF Shape, Slots
  <1>2. W \in SUBSET Nat /\ W # {}
    BY <1>1
  <1> HIDE DEF W
  <1>3. PICK w \in W : \A v \in W : w <= v
    BY <1>2, LeastNumber
  <1> DEFINE First == {i \in todo : When(plan[i]) = w}
  <1>4. First \in SUBSET Nat /\ First # {}
    BY <1>1, <1>3 DEF W
  <1> HIDE DEF First
  <1>5. PICK i \in First : \A k \in First : i <= k
    BY <1>4, LeastNumber
  <1>6. i \in todo /\ When(plan[i]) = w
    BY <1>5 DEF First
  <1>7. ASSUME NEW k \in todo \ {i} PROVE Before(i, k)
    <2>1. When(plan[k]) \in W
      BY DEF W
    <2>2. w <= When(plan[k]) /\ i \in Nat /\ k \in Nat /\ When(plan[k]) \in Nat /\ w \in Nat
      BY <1>1, <1>2, <1>3, <1>6, <2>1
    <2>3. CASE When(plan[k]) = w
      <3>1. i <= k
        BY <1>5, <2>3 DEF First
      <3> QED
        BY <1>6, <2>2, <2>3, <3>1 DEF Before
    <2>4. CASE When(plan[k]) # w
      BY <1>6, <2>2, <2>4 DEF Before
    <2> QED
      BY <2>3, <2>4
  <1> QED
    BY <1>6, <1>7 DEF NextSlot, Before

\* A step leaves the row where nothing fits, or takes the first that does.
LEMMA FillStep ==
    ASSUME Shape, FillSlot
    PROVE  \E i : Visits(i) /\ (Leaves(i) \/ \E m : Fills(i, m))
  <1> DEFINE i == NextSlot(todo)
             fitting == {n \in DOMAIN Ranked : Fits(Ranked[n], i)}
  <1>1. i \in todo /\ \A k \in todo \ {i} : Before(i, k)
    BY NextIs DEF FillSlot
  <1>2. /\ plan' = IF fitting = {} THEN plan ELSE [plan EXCEPT ![i].code = Ranked[Min(fitting)]]
        /\ todo' = todo \ {i} /\ UNCHANGED problem
    BY DEF FillSlot
  <1> HIDE DEF i
  <1>3. Visits(i)
    BY <1>1, <1>2 DEF Visits
  <1>4. CASE fitting = {}
    BY <1>2, <1>3, <1>4 DEF Leaves
  <1>5. CASE fitting # {}
    <2>1. fitting \in SUBSET Nat
      BY RankedIs DEF Shape
    <2>2. Min(fitting) \in fitting /\ \A n \in fitting : Min(fitting) <= n
      BY <1>5, <2>1, MinOfNumbers
    <2>3. plan' = [plan EXCEPT ![i].code = Ranked[Min(fitting)]]
      BY <1>2, <1>5
    <2> DEFINE m == Min(fitting)
    <2>4. \A n \in fitting : n \in Nat
      BY <2>1
    <2> HIDE DEF m
    <2>5. m \in fitting /\ \A n \in fitting : m <= n
      BY <2>2 DEF m
    <2>6. m \in DOMAIN Ranked /\ Fits(Ranked[m], i)
      BY <2>5
    <2>7. ASSUME NEW n \in DOMAIN Ranked, n < m PROVE ~Fits(Ranked[n], i)
      <3>1. n \in fitting => m <= n /\ n \in Nat /\ m \in Nat
        BY <2>4, <2>5
      <3>2. n \notin fitting
        BY <2>7, <3>1
      <3> QED
        BY <3>2
    <2>8. Fills(i, m)
      BY <2>3, <2>6, <2>7 DEF Fills, m
    <2> QED
      BY <1>3, <2>8
  <1> QED
    BY <1>4, <1>5

-----------------------------------------------------------------------------
(* What one step changes                                                   *)

LEMMA SameProblem ==
    ASSUME UNCHANGED problem
    PROVE  Known' = Known /\ Slots' = Slots /\ Fixed' = Fixed /\ Ranked' = Ranked
  <1>1. Known' = Known /\ Slots' = Slots /\ Fixed' = Fixed
    BY DEF Known, Slots, Fixed, IsPlaceholder
  <1> DEFINE S == PoolCandidates(problem.pool, Core \union Known \union Fixed)
  <1>2. S' = S
    BY <1>1
  <1> HIDE DEF S
  <1>3. Sorted(S)' = Sorted(S)
    BY <1>2 DEF Sorted
  <1>4. Shortlist(S)' = Shortlist(S)
    BY <1>3 DEF Shortlist
  <1> QED
    BY <1>1, <1>4 DEF Ranked, S

\* A row that is not a placeholder came so or was visited.
LEMMA RowsSplit ==
    ASSUME Shape
    PROVE  /\ Rows \subseteq DOMAIN plan /\ Filled \subseteq Visited
           /\ \A i \in Rows : plan[i].code \in Subjects
           /\ \A i \in DOMAIN plan \ Slots :
                i \in Rows /\ plan[i].code = problem.rows[i].code
           /\ CodesAt(Rows) = Fixed \union CodesAt(Filled)
           /\ Scheduled = Known \union Fixed \union CodesAt(Filled)
           /\ Scheduled \in SUBSET Subjects
  <1>1. \A i \in Rows : i \in DOMAIN plan /\ plan[i].code \in Subjects
    BY RowsAre DEF Rows, IsPlaceholder
  <1>2. \A i \in DOMAIN plan \ Slots :
          plan[i].code = problem.rows[i].code /\ plan[i].code # Placeholder
    BY DEF Shape, Slots, IsPlaceholder, Visited
  <1>3. \A i \in DOMAIN plan \ Slots : i \in Rows
    BY <1>2 DEF Rows, IsPlaceholder
  <1>4. Filled \subseteq Visited
    BY DEF Filled, Rows, Visited, Shape, Slots, IsPlaceholder
  <1>5. CodesAt(Rows) = Fixed \union CodesAt(Filled)
    <2>1. ASSUME NEW i \in Rows PROVE plan[i].code \in Fixed \union CodesAt(Filled)
      <3>1. CASE i \in Slots
        BY <3>1 DEF Filled, CodesAt
      <3>2. CASE i \notin Slots
        BY <1>1, <1>2, <3>2 DEF Fixed, Shape
      <3> QED
        BY <3>1, <3>2
    <2>2. ASSUME NEW i \in DOMAIN problem.rows \ Slots
          PROVE  problem.rows[i].code \in CodesAt(Rows)
      BY <1>2, <1>3 DEF CodesAt, Shape
    <2> QED
      BY <2>1, <2>2 DEF CodesAt, Fixed, Filled
  <1> QED
    BY <1>1, <1>2, <1>3, <1>4, <1>5, ProblemIs, ZenonT(90) DEF Scheduled, CodesAt, Shape

\* What a step that fills a row changes, and what it does not.
LEMMA FillChanges ==
    ASSUME Shape, NEW i, NEW m, Visits(i), Fills(i, m)
    PROVE  /\ i \in Slots /\ i \in DOMAIN plan /\ i \notin Rows /\ i \notin Visited
           /\ Ranked[m] \in Catalog /\ Ranked[m] \in Subjects
           /\ Shape' /\ DOMAIN plan' = DOMAIN plan
           /\ \A k \in DOMAIN plan \ {i} : plan'[k] = plan[k]
           /\ plan'[i].code = Ranked[m] /\ Ranked[m] # Placeholder
           /\ \A k \in DOMAIN plan :
                /\ When(plan'[k]) = When(plan[k])
                /\ plan'[k].session = plan[k].session /\ plan'[k].level = plan[k].level
           /\ Rows' = Rows \union {i} /\ Visited' = Visited \union {i}
           /\ Filled' = Filled \union {i}
           /\ Known' = Known /\ Slots' = Slots /\ Fixed' = Fixed /\ Ranked' = Ranked
  <1> DEFINE c == Ranked[m]
  <1>1. Known' = Known /\ Slots' = Slots /\ Fixed' = Fixed /\ Ranked' = Ranked
    BY SameProblem DEF Visits
  <1>2. i \in todo /\ todo' = todo \ {i} /\ problem' = problem
    BY DEF Visits
  <1>3. i \in Slots /\ i \in DOMAIN plan /\ i \notin Visited
    BY <1>2 DEF Shape, Slots, Visited
  <1>4. c \in Catalog /\ c \in Subjects
    BY RankedIs DEF Fills, Shape
  <1>5. c # Placeholder
    BY <1>4, PlaceholderAssumption
  <1>6. plan' = [plan EXCEPT ![i].code = c]
    BY DEF Fills
  <1> HIDE DEF c
  <1>7. \A k \in DOMAIN plan : plan[k] \in PlanRows
    BY DEF Shape
  <1>8. DOMAIN plan' = DOMAIN plan /\ \A k \in DOMAIN plan \ {i} : plan'[k] = plan[k]
    BY <1>6
  <1>9. plan'[i] = [plan[i] EXCEPT !.code = c]
    BY <1>3, <1>6
  <1>10. /\ plan'[i] \in PlanRows /\ plan'[i].code = c
         /\ plan'[i].year = plan[i].year /\ plan'[i].session = plan[i].session
         /\ plan'[i].level = plan[i].level
    BY <1>3, <1>4, <1>7, <1>9 DEF PlanRows
  <1>11. \A k \in DOMAIN plan :
           /\ When(plan'[k]) = When(plan[k])
           /\ plan'[k].session = plan[k].session /\ plan'[k].level = plan[k].level
    BY <1>8, <1>10 DEF When
  <1>12. Visited' = Visited \union {i}
    BY <1>1, <1>2, <1>3 DEF Visited
  <1>13. i \notin Rows
    BY <1>3, RowsSplit DEF Filled
  <1>14. Rows' = Rows \union {i}
    BY <1>3, <1>5, <1>8, <1>10 DEF Rows, IsPlaceholder
  <1>15. Shape'
    <2>1. problem' \in Problems /\ todo' \subseteq Slots' /\ DOMAIN plan' = DOMAIN problem'.rows
      BY <1>1, <1>2, <1>8 DEF Shape
    <2>2. ASSUME NEW k \in DOMAIN plan
          PROVE  /\ plan'[k] \in PlanRows
                 /\ plan'[k].year = problem.rows[k].year
                 /\ plan'[k].session = problem.rows[k].session
                 /\ plan'[k].level = problem.rows[k].level
                 /\ plan'[k].code = problem.rows[k].code
                    \/ (k \in Visited \union {i} /\ plan'[k].code \in Catalog)
      <3>1. CASE k = i
        BY <1>3, <1>4, <1>10, <3>1 DEF Shape
      <3>2. CASE k # i
        BY <1>8, <3>2 DEF Shape
      <3> QED
        BY <3>1, <3>2
    <2> QED
      BY <1>2, <1>8, <1>12, <2>1, <2>2 DEF Shape
  <1>16. Filled' = Filled \union {i}
    BY <1>1, <1>3, <1>14 DEF Filled
  <1> QED
    BY <1>1, <1>3, <1>4, <1>5, <1>8, <1>10, <1>11, <1>12, <1>13, <1>14, <1>15, <1>16 DEF c

LEMMA LeaveChanges ==
    ASSUME Shape, NEW i, Visits(i), Leaves(i)
    PROVE  /\ i \in Slots /\ i \in DOMAIN plan /\ i \notin Rows
           /\ Shape' /\ plan' = plan
           /\ Rows' = Rows /\ Visited' = Visited \union {i} /\ Filled' = Filled
           /\ Known' = Known /\ Slots' = Slots /\ Fixed' = Fixed /\ Ranked' = Ranked
  <1>1. Known' = Known /\ Slots' = Slots /\ Fixed' = Fixed /\ Ranked' = Ranked
    BY SameProblem DEF Visits
  <1>2. i \in todo /\ todo' = todo \ {i} /\ problem' = problem /\ plan' = plan
    BY DEF Visits, Leaves
  <1>3. i \in Slots /\ i \in DOMAIN plan /\ i \notin Visited
    BY <1>2 DEF Shape, Slots, Visited
  <1>4. Rows' = Rows /\ Filled' = Filled
    BY <1>1, <1>2 DEF Rows, Filled, IsPlaceholder
  <1>5. Visited' = Visited \union {i}
    BY <1>1, <1>2, <1>3 DEF Visited
  <1>6. i \notin Rows
    BY <1>3, RowsSplit DEF Filled
  <1>7. Shape'
    BY <1>1, <1>2, <1>5 DEF Shape
  <1> QED
    BY <1>1, <1>2, <1>3, <1>4, <1>5, <1>6, <1>7

\* Filling a row adds its subject to what is held in that session and after it.
LEMMA HeldGrows ==
    ASSUME Shape, NEW i, NEW m, Visits(i), Fills(i, m), NEW j \in DOMAIN plan
    PROVE  /\ Prior(j)' = IF When(plan[i]) < When(plan[j]) THEN Prior(j) \union {Ranked[m]}
                          ELSE Prior(j)
           /\ Through(j)' = IF When(plan[i]) <= When(plan[j]) THEN Through(j) \union {Ranked[m]}
                            ELSE Through(j)
           /\ Scheduled' = Scheduled \union {Ranked[m]}
  <1> DEFINE c == Ranked[m]
             At(S) == {plan'[k].code : k \in S}
  <1>1. /\ i \in DOMAIN plan /\ i \notin Rows /\ Rows \subseteq DOMAIN plan
        /\ \A k \in DOMAIN plan \ {i} : plan'[k] = plan[k]
        /\ plan'[i].code = c
        /\ \A k \in DOMAIN plan : When(plan'[k]) = When(plan[k])
        /\ Rows' = Rows \union {i} /\ Known' = Known
    BY FillChanges, RowsSplit
  <1> HIDE DEF c
  <1>2. \A S \in SUBSET Rows : At(S) = CodesAt(S) /\ At(S \union {i}) = CodesAt(S) \union {c}
    BY <1>1 DEF CodesAt
  <1> HIDE DEF At
  <1>3. Prior(j)' = IF When(plan[i]) < When(plan[j]) THEN Prior(j) \union {c} ELSE Prior(j)
    <2> DEFINE S == {k \in Rows : When(plan[k]) < When(plan[j])}
    <2>1. {k \in Rows' : When(plan'[k]) < When(plan'[j])}
            = IF When(plan[i]) < When(plan[j]) THEN S \union {i} ELSE S
      BY <1>1
    <2>2. Prior(j)' = Known \union At({k \in Rows' : When(plan'[k]) < When(plan'[j])})
      BY <1>1 DEF Prior, CodesAt, At
    <2>3. Prior(j) = Known \union CodesAt(S) /\ S \in SUBSET Rows
      BY DEF Prior
    <2> HIDE DEF S
    <2> QED
      BY <1>2, <2>1, <2>2, <2>3, ZenonT(90)
  <1>4. Through(j)' = IF When(plan[i]) <= When(plan[j]) THEN Through(j) \union {c} ELSE Through(j)
    <2> DEFINE S == {k \in Rows : When(plan[k]) <= When(plan[j])}
    <2>1. {k \in Rows' : When(plan'[k]) <= When(plan'[j])}
            = IF When(plan[i]) <= When(plan[j]) THEN S \union {i} ELSE S
      BY <1>1
    <2>2. Through(j)' = Known \union At({k \in Rows' : When(plan'[k]) <= When(plan'[j])})
      BY <1>1 DEF Through, CodesAt, At
    <2>3. Through(j) = Known \union CodesAt(S) /\ S \in SUBSET Rows
      BY DEF Through
    <2> HIDE DEF S
    <2> QED
      BY <1>2, <2>1, <2>2, <2>3, ZenonT(90)
  <1>5. Scheduled' = Scheduled \union {c}
    <2>1. Scheduled' = Known \union At(Rows \union {i})
      BY <1>1 DEF Scheduled, CodesAt, At
    <2> QED
      BY <1>2, <2>1 DEF Scheduled
  <1> QED
    BY <1>3, <1>4, <1>5 DEF c

LEMMA HeldAre ==
    ASSUME Shape, NEW j \in DOMAIN plan
    PROVE  Prior(j) \in SUBSET Subjects /\ Through(j) \in SUBSET Subjects
  BY RowsSplit, ProblemIs DEF Prior, Through, CodesAt, Shape

-----------------------------------------------------------------------------
(* The invariant                                                           *)

\* Asked for the row's place in the plan as it stands.
RequirementsKept ==
    \A i \in Filled : /\ Satisfied(problem.needs[plan[i].code], Prior(i))
                      /\ Satisfied(Corequisites[plan[i].code], Through(i))

Beside(i) == {k \in Rows : When(plan[k]) = When(plan[i]) /\ (k \in Slots => k < i)}

\* The subject would fit the row in the plan as it stands.
Suits(i, b) ==
    /\ plan[i].level \in {0, Level[b]}
    /\ plan[i].session \in Offered[b]
    /\ RulesAllow(b, Known \union CodesAt(Rows \ {i}), Prior(i),
                  Prior(i) \union CodesAt(Beside(i)))

\* The n-th subject was not taken, and the row is empty or holds one ranked lower.
Passed(i, n) ==
    /\ Ranked[n] \notin Scheduled
    /\ plan[i].code = Placeholder \/ \E m \in DOMAIN Ranked : n < m /\ Ranked[m] = plan[i].code

NoneSuits ==
    \A i \in Visited : \A n \in DOMAIN Ranked : \A b \in Subjects :
        Ranked[n] = b /\ Passed(i, n) => ~Suits(i, b)

IInv ==
    /\ Shape /\ InOrder
    /\ RequirementsKept /\ NothingClashes /\ FirstYearCapKept
    /\ NoneSuits

LEMMA InOrderHolds ==
    ASSUME IInv, NEW i, Visits(i), Leaves(i) \/ \E m : Fills(i, m)
    PROVE  InOrder'
  <1>1. /\ todo \subseteq DOMAIN plan /\ Visited \subseteq DOMAIN plan
        /\ i \in todo /\ todo' = todo \ {i} /\ \A k \in todo \ {i} : Before(i, k)
        /\ \A k \in Visited : \A l \in todo : Before(k, l)
    BY DEF Visits, IInv, Shape, InOrder, Slots, Visited
  <1>2. Visited' = Visited \union {i} /\ \A k \in DOMAIN plan : When(plan'[k]) = When(plan[k])
    BY FillChanges, LeaveChanges DEF IInv
  <1>3. ASSUME NEW k \in Visited', NEW l \in todo' PROVE Before(k, l)'
    <2>1. Before(k, l) /\ k \in DOMAIN plan /\ l \in DOMAIN plan
      BY <1>1, <1>2
    <2> QED
      BY <1>2, <2>1 DEF Before
  <1> QED
    BY <1>3 DEF InOrder

LEMMA RequirementsHold ==
    ASSUME IInv, NEW i, Visits(i), Leaves(i) \/ \E m : Fills(i, m)
    PROVE  RequirementsKept'
  <1>1. CASE Leaves(i)
    <2>1. /\ plan' = plan /\ Rows' = Rows /\ Filled' = Filled /\ Known' = Known
          /\ problem' = problem
      BY <1>1, LeaveChanges DEF IInv, Visits
    <2>2. \A j : Prior(j)' = Prior(j) /\ Through(j)' = Through(j)
      BY <2>1 DEF Prior, Through, CodesAt
    <2> QED
      BY <2>1, <2>2 DEF IInv, RequirementsKept
  <1>2. ASSUME NEW m, Fills(i, m) PROVE RequirementsKept'
    <2> DEFINE c == Ranked[m]
    <2>1. /\ i \in DOMAIN plan /\ c \in Subjects
          /\ \A k \in DOMAIN plan \ {i} : plan'[k] = plan[k]
          /\ plan'[i].code = c /\ Filled' = Filled \union {i} /\ i \notin Filled
      BY <1>2, FillChanges DEF IInv, Filled
    <2>2. /\ \A k \in DOMAIN plan : When(plan[k]) \in Nat
          /\ Filled \subseteq Visited /\ Filled \subseteq DOMAIN plan
          /\ \A k \in Filled : plan[k].code \in Subjects
      BY RowsAre, RowsSplit DEF IInv, Filled
    <2>3. problem' = problem
      BY DEF Visits
    <2>4. ASSUME NEW j \in Filled
          PROVE  /\ Satisfied(problem'.needs[plan'[j].code], Prior(j)')
                 /\ Satisfied(Corequisites[plan'[j].code], Through(j)')
      <3>1. Before(j, i)
        BY <2>2 DEF IInv, InOrder, Visits
      <3>2. ~(When(plan[i]) < When(plan[j]))
        BY <2>1, <2>2, <3>1 DEF Before
      <3>3. j \in DOMAIN plan /\ j # i /\ plan'[j] = plan[j]
        BY <2>1, <2>2
      <3>4. /\ Satisfied(problem.needs[plan[j].code], Prior(j))
            /\ Satisfied(Corequisites[plan[j].code], Through(j))
        BY DEF IInv, RequirementsKept
      <3>5. Prior(j)' = Prior(j) /\ Through(j)' \in {Through(j), Through(j) \union {c}}
        BY <1>2, <3>2, <3>3, HeldGrows DEF IInv
      <3>6. Through(j) \in SUBSET Subjects /\ plan[j].code \in Subjects
        BY <2>2, <3>3, HeldAre DEF IInv
      <3>7. Satisfied(Corequisites[plan[j].code], Through(j) \union {c})
        BY <2>1, <3>4, <3>6, MoreSatisfiesAssumption
      <3>8. Satisfied(Corequisites[plan[j].code], Through(j)')
        BY <3>4, <3>5, <3>7
      <3> QED
        BY <2>3, <3>3, <3>4, <3>5, <3>8
    <2>5. /\ Satisfied(problem'.needs[plan'[i].code], Prior(i)')
          /\ Satisfied(Corequisites[plan'[i].code], Through(i)')
      <3>1. Satisfied(problem.needs[c], Prior(i)) /\ Satisfied(Corequisites[c], Through(i))
        BY <1>2 DEF Fills, Fits, RulesAllow
      <3>2. Prior(i)' = Prior(i) /\ Through(i)' = Through(i) \union {c}
        BY <1>2, <2>1, <2>2, HeldGrows DEF IInv
      <3>3. Through(i) \in SUBSET Subjects
        BY <2>1, HeldAre DEF IInv
      <3>4. Satisfied(Corequisites[c], Through(i) \union {c})
        BY <2>1, <3>1, <3>3, MoreSatisfiesAssumption
      <3> QED
        BY <2>1, <2>3, <3>1, <3>2, <3>4
    <2> QED
      BY <2>1, <2>4, <2>5 DEF RequirementsKept
  <1> QED
    BY <1>1, <1>2

LEMMA ClashesHold ==
    ASSUME IInv, NEW i, Visits(i), Leaves(i) \/ \E m : Fills(i, m)
    PROVE  NothingClashes'
  <1>1. CASE Leaves(i)
    <2>1. plan' = plan /\ Filled' = Filled /\ Known' = Known /\ Fixed' = Fixed
      BY <1>1, LeaveChanges DEF IInv
    <2> QED
      BY <2>1 DEF IInv, NothingClashes
  <1>2. ASSUME NEW m, Fills(i, m) PROVE NothingClashes'
    <2> DEFINE c == Ranked[m]
               given == Known \union Fixed
               Replaces(x, d) == \E e \in Satisfies : e[2] = x /\ <<e[1], d>> \in Linked
    <2>1. /\ \A k \in DOMAIN plan \ {i} : plan'[k] = plan[k]
          /\ plan'[i].code = c /\ Filled' = Filled \union {i} /\ i \notin Filled
          /\ Known' = Known /\ Fixed' = Fixed
      BY <1>2, FillChanges DEF IInv, Filled
    <2>2. Filled \subseteq DOMAIN plan
      BY DEF Filled, Rows
    <2>3. /\ Scheduled = given \union CodesAt(Filled)
          /\ Scheduled \in SUBSET Subjects
      BY RowsSplit DEF IInv
    <2>4. \A k \in Filled : plan[k].code \in Scheduled
      BY <2>3 DEF CodesAt
    <2>5. /\ c \notin Scheduled
          /\ ~ExclusionBlocked(c, Scheduled) /\ ~ReplacementBlocked(c, Scheduled)
      BY <1>2 DEF Fills, Fits, RulesAllow
    <2>6. \A d \in Scheduled : ~Forbids(c, d) /\ ~Replaces(c, d)
      BY <2>3, <2>5, BlockedIs
    <2> HIDE DEF c, given, Replaces
    <2>7. ASSUME NEW j \in Filled
          PROVE  /\ plan[j].code \notin given
                 /\ \A d \in given : ~Forbids(plan[j].code, d) /\ ~Replaces(plan[j].code, d)
                 /\ \A k \in Filled \ {j} :
                      /\ plan[k].code # plan[j].code
                      /\ ~(/\ Forbids(plan[j].code, plan[k].code)
                           /\ Forbids(plan[k].code, plan[j].code))
      BY DEF IInv, NothingClashes, given, Replaces
    <2>8. \A j \in Filled : plan'[j].code = plan[j].code
      BY <2>1, <2>2
    <2>9. ASSUME NEW j \in Filled'
          PROVE  /\ plan'[j].code \notin given
                 /\ \A d \in given : ~Forbids(plan'[j].code, d) /\ ~Replaces(plan'[j].code, d)
                 /\ \A k \in Filled' \ {j} :
                      /\ plan'[k].code # plan'[j].code
                      /\ ~(/\ Forbids(plan'[j].code, plan'[k].code)
                           /\ Forbids(plan'[k].code, plan'[j].code))
      <3>1. CASE j = i
        <4>1. \A k \in Filled' \ {j} : k \in Filled /\ plan'[k].code \in Scheduled
          BY <2>1, <2>4, <2>8, <3>1
        <4>2. \A d \in given : d \in Scheduled
          BY <2>3
        <4> QED
          BY <2>1, <2>5, <2>6, <3>1, <4>1, <4>2 DEF c
      <3>2. CASE j # i
        <4>1. j \in Filled /\ plan'[j].code = plan[j].code /\ plan[j].code \in Scheduled
          BY <2>1, <2>4, <2>8, <3>2
        <4>2. ASSUME NEW k \in Filled' \ {j}
              PROVE  /\ plan'[k].code # plan'[j].code
                     /\ ~(/\ Forbids(plan'[j].code, plan'[k].code)
                          /\ Forbids(plan'[k].code, plan'[j].code))
          <5>1. CASE k = i
            BY <2>1, <2>5, <2>6, <4>1, <5>1 DEF c
          <5>2. CASE k # i
            <6>1. k \in Filled \ {j} /\ plan'[k].code = plan[k].code
              BY <2>1, <2>8, <5>2
            <6> QED
              BY <2>7, <4>1, <6>1
          <5> QED
            BY <5>1, <5>2
        <4> QED
          BY <2>7, <4>1, <4>2
      <3> QED
        BY <3>1, <3>2
    <2> QED
      BY <2>1, <2>9 DEF NothingClashes, given, Replaces, Forbids
  <1> QED
    BY <1>1, <1>2

LEMMA CapHolds ==
    ASSUME IInv, NEW i, Visits(i), Leaves(i) \/ \E m : Fills(i, m)
    PROVE  FirstYearCapKept'
  <1>1. CASE Leaves(i)
    <2>1. plan' = plan /\ Rows' = Rows /\ Known' = Known /\ Fixed' = Fixed
      BY <1>1, LeaveChanges DEF IInv
    <2>2. Scheduled' = Scheduled
      BY <2>1 DEF Scheduled, CodesAt
    <2> QED
      BY <2>1, <2>2 DEF IInv, FirstYearCapKept
  <1>2. ASSUME NEW m, Fills(i, m) PROVE FirstYearCapKept'
    <2> DEFINE c == Ranked[m]
               given == Known \union Fixed
               old == Scheduled
               all == Scheduled \union {c}
    <2>1. i \in DOMAIN plan /\ c \in Subjects /\ Known' = Known /\ Fixed' = Fixed
      BY <1>2, FillChanges DEF IInv
    <2>2. Scheduled' = all
      BY <1>2, <2>1, HeldGrows DEF IInv
    <2>3. old \in SUBSET Subjects /\ given \in SUBSET old
      BY RowsSplit DEF IInv
    <2>4. Level[c] = 100 => FirstYearPoints(all) <= MAX_100_LEVEL_CP
      BY <1>2 DEF Fills, Fits, RulesAllow, UnderCap
    <2>5. Level[c] # 100 => FirstYearPoints(all) = FirstYearPoints(old)
      <3> HIDE DEF c
      <3>1. Level[c] # 100 => {x \in all : Level[x] = 100} = {x \in old : Level[x] = 100}
        OBVIOUS
      <3> HIDE DEF all, old
      <3> QED
        BY <3>1 DEF FirstYearPoints, PointsAtLevel
    <2>6. FirstYearPoints(old) <= Max({MAX_100_LEVEL_CP, FirstYearPoints(given)})
      BY DEF IInv, FirstYearCapKept
    <2> HIDE DEF given, old
    <2>7. FirstYearPoints(given) \in Nat /\ FirstYearPoints(old) \in Nat
      BY <2>3, PointsGrow
    <2>8. all \in SUBSET Subjects
      BY <2>1, <2>3 DEF old
    <2> HIDE DEF all, c
    <2>9. FirstYearPoints(all) \in Nat
      BY <2>8, PointsGrow
    <2> DEFINE g == FirstYearPoints(given)
               p == FirstYearPoints(all)
               most == Max({MAX_100_LEVEL_CP, g})
    <2>10. most = IF MAX_100_LEVEL_CP <= g THEN g ELSE MAX_100_LEVEL_CP
      BY <2>7, MaxOfTwo, LimitAssumption
    <2>11. p <= most
      <3> HIDE DEF g, p, most
      <3>1. CASE Level[c] = 100
        BY <2>4, <2>7, <2>9, <2>10, <3>1, LimitAssumption DEF g, p
      <3>2. CASE Level[c] # 100
        BY <2>5, <2>6, <3>2 DEF g, p, most
      <3> QED
        BY <3>1, <3>2
    <2>12. FirstYearPoints(Scheduled')
             <= Max({MAX_100_LEVEL_CP, FirstYearPoints(Known' \union Fixed')})
      BY <2>1, <2>2, <2>11 DEF g, p, most, given
    <2> QED
      BY <2>12 DEF FirstYearCapKept, FirstYearPoints, PointsAtLevel
  <1> QED
    BY <1>1, <1>2

\* Of the rows of a session the ones that were visited stand before the next.
LEMMA ThroughIs ==
    ASSUME IInv, NEW i \in todo
    PROVE  Through(i) = Prior(i) \union CodesAt(Beside(i))
  <1> DEFINE A == {k \in Rows : When(plan[k]) < When(plan[i])}
             B == {k \in Rows : When(plan[k]) <= When(plan[i])}
  <1>1. /\ i \in DOMAIN plan /\ Rows \subseteq DOMAIN plan
        /\ \A k \in DOMAIN plan : k \in Nat /\ When(plan[k]) \in Nat
    BY RowsAre, RowsSplit DEF IInv, Shape, Slots
  <1>2. ASSUME NEW k \in Rows, k \in Slots, When(plan[k]) = When(plan[i]) PROVE k < i
    <2>1. k \in Visited
      BY <1>2, RowsSplit DEF IInv, Filled
    <2>2. Before(k, i)
      BY <2>1 DEF IInv, InOrder
    <2> QED
      BY <1>1, <1>2, <2>2 DEF Before
  <1>3. Beside(i) = {k \in Rows : When(plan[k]) = When(plan[i])}
    BY <1>2 DEF Beside
  <1>4. B = A \union Beside(i)
    BY <1>1, <1>3
  <1>5. Prior(i) = Known \union CodesAt(A) /\ Through(i) = Known \union CodesAt(B)
    BY DEF Prior, Through
  <1> HIDE DEF A, B
  <1> QED
    BY <1>4, <1>5 DEF CodesAt

\* A subject that suits a row now fits it as it did when the row was visited.
LEMMA SuitedFits ==
    ASSUME IInv, NEW i, Visits(i), NEW n \in DOMAIN Ranked, NEW b, Ranked[n] = b,
           b \notin Scheduled, Suits(i, b)
    PROVE  Fits(b, i)
  <1>1. b \in Subjects /\ Level[b] \in ALLOWED_ELECTIVE_LEVELS
    BY RankedIs DEF IInv, Shape
  <1>2. i \in todo /\ i \in Slots /\ i \notin Rows
    BY RowsSplit DEF Visits, IInv, Shape, Visited, Filled
  <1>3. Rows \ {i} = Rows
    BY <1>2
  <1>4. Through(i) = Prior(i) \union CodesAt(Beside(i))
    BY <1>2, ThroughIs
  <1>5. /\ plan[i].level \in {0, Level[b]} /\ plan[i].session \in Offered[b]
        /\ RulesAllow(b, Scheduled, Prior(i), Through(i))
    BY <1>3, <1>4 DEF Suits, Scheduled
  <1>6. plan[i].level # 0 => Level[b] = plan[i].level
    BY <1>5
  <1> QED
    BY <1>1, <1>5, <1>6 DEF Fits

LEMMA SuitsThen ==
    ASSUME problem' = problem, NEW j, NEW b, Suits(j, b)'
    PROVE  /\ plan'[j].level \in {0, Level[b]} /\ plan'[j].session \in Offered[b]
           /\ RulesAllow(b, Known' \union {plan'[k].code : k \in Rows' \ {j}},
                         Prior(j)', Prior(j)' \union CodesAt(Beside(j))')
  <1> DEFINE O == Known \union CodesAt(Rows \ {j})
             P == Prior(j)
             T == Prior(j) \union CodesAt(Beside(j))
  <1>1. /\ plan'[j].level \in {0, Level[b]} /\ plan'[j].session \in Offered[b]
        /\ RulesAllow(b, O, P, T)'
    BY DEF Suits
  <1>2. O' = Known' \union {plan'[k].code : k \in Rows' \ {j}}
    BY DEF CodesAt
  <1>3. P' = Prior(j)' /\ T' = Prior(j)' \union CodesAt(Beside(j))'
    OBVIOUS
  <1> HIDE DEF O, P, T
  <1>4. RulesAllow(b, O', P', T')
    <2>1. problem' = problem
      OBVIOUS
    <2>2. /\ Satisfied(problem'.needs[b], P') /\ Satisfied(Corequisites[b], T')
          /\ ~ExclusionBlocked(b, O)' /\ ~ReplacementBlocked(b, O)' /\ UnderCap(b, O)'
      BY <1>1 DEF RulesAllow
    <2>3. ~ExclusionBlocked(b, O') /\ ~ReplacementBlocked(b, O')
      BY <2>2 DEF ExclusionBlocked, ReplacementBlocked
    <2>4. UnderCap(b, O')
      BY <2>2 DEF UnderCap, FirstYearPoints, PointsAtLevel
    <2> QED
      BY <2>1, <2>2, <2>3, <2>4 DEF RulesAllow
  <1> QED
    BY <1>1, <1>2, <1>3, <1>4

\* What suits a row after another was filled suited it before.
LEMMA SuitsShrinks ==
    ASSUME IInv, NEW i, NEW m, Visits(i), Fills(i, m), NEW j \in Visited \union {i},
           NEW b \in Subjects, Suits(j, b)'
    PROVE  Suits(j, b)
  <1>1. /\ i \in DOMAIN plan /\ i \notin Rows /\ Rows \subseteq DOMAIN plan
        /\ \A k \in DOMAIN plan \ {i} : plan'[k] = plan[k]
        /\ \A k \in DOMAIN plan :
             /\ When(plan'[k]) = When(plan[k])
             /\ plan'[k].session = plan[k].session /\ plan'[k].level = plan[k].level
        /\ Rows' = Rows \union {i} /\ Known' = Known /\ Slots' = Slots /\ i \in Slots
    BY FillChanges, RowsSplit DEF IInv
  <1>2. j \in DOMAIN plan /\ \A k \in DOMAIN plan : k \in Nat /\ When(plan[k]) \in Nat
    BY <1>1, RowsAre DEF IInv, Shape, Visited, Slots
  <1>3. j = i \/ Before(j, i)
    BY DEF IInv, InOrder, Visits
  <1>4. ~(When(plan[i]) < When(plan[j])) /\ ~(When(plan[i]) = When(plan[j]) /\ i < j)
    BY <1>1, <1>2, <1>3 DEF Before
  <1>5. Prior(j)' = Prior(j)
    BY <1>2, <1>4, HeldGrows DEF IInv
  <1>6. Beside(j)' = Beside(j)
    <2>1. {k \in Rows \union {i} : When(plan'[k]) = When(plan'[j]) /\ (k \in Slots => k < j)}
            = {k \in Rows : When(plan[k]) = When(plan[j]) /\ (k \in Slots => k < j)}
      BY <1>1, <1>2, <1>4
    <2> QED
      BY <1>1, <2>1 DEF Beside
  <1>7. \A k \in Rows : plan'[k].code = plan[k].code
    BY <1>1
  <1>8. CodesAt(Beside(j))' = CodesAt(Beside(j))
    <2>1. \A k \in Beside(j) : plan'[k].code = plan[k].code
      BY <1>7 DEF Beside
    <2>2. {plan'[k].code : k \in Beside(j)} = {plan[k].code : k \in Beside(j)}
      BY <2>1
    <2> QED
      BY <1>6, <2>2 DEF CodesAt
  <1> DEFINE before == Known \union CodesAt(Rows \ {j})
             after  == Known' \union {plan'[k].code : k \in Rows' \ {j}}
  <1>9. before \subseteq after
    BY <1>1, <1>7 DEF CodesAt
  <1>10. after \subseteq Scheduled'
    BY DEF Scheduled, CodesAt
  <1>11. after \in SUBSET Subjects
    <2>1. Scheduled' = Scheduled \union {Ranked[m]} /\ Ranked[m] \in Subjects
      BY <1>2, FillChanges, HeldGrows DEF IInv
    <2>2. Scheduled \in SUBSET Subjects
      BY RowsSplit DEF IInv
    <2> QED
      BY <1>10, <2>1, <2>2
  <1>12. /\ plan'[j].level \in {0, Level[b]} /\ plan'[j].session \in Offered[b]
         /\ RulesAllow(b, after, Prior(j)', Prior(j)' \union CodesAt(Beside(j))')
    BY SuitsThen DEF Visits
  <1> HIDE DEF before, after
  <1>13. RulesAllow(b, after, Prior(j), Prior(j) \union CodesAt(Beside(j)))
    BY <1>5, <1>8, <1>12
  <1>14. RulesAllow(b, before, Prior(j), Prior(j) \union CodesAt(Beside(j)))
    BY <1>9, <1>11, <1>13, RulesShrink
  <1> QED
    BY <1>1, <1>2, <1>12, <1>14 DEF Suits, before

LEMMA NoneSuitsHolds ==
    ASSUME IInv, NEW i, Visits(i), Leaves(i) \/ \E m : Fills(i, m)
    PROVE  NoneSuits'
  <1>1. CASE Leaves(i)
    <2>1. /\ plan' = plan /\ Rows' = Rows /\ Known' = Known /\ Slots' = Slots
          /\ Visited' = Visited \union {i} /\ Ranked' = Ranked
      BY <1>1, LeaveChanges DEF IInv
    <2>2. Scheduled' = Scheduled /\ \A j : Prior(j)' = Prior(j) /\ Beside(j)' = Beside(j)
      BY <2>1 DEF Scheduled, Prior, Beside, CodesAt
    <2>3. ASSUME NEW j \in Visited', NEW n \in DOMAIN Ranked', NEW b \in Subjects,
                 Ranked'[n] = b, Passed(j, n)', Suits(j, b)'
          PROVE  FALSE
      <3>1. Passed(j, n) /\ n \in DOMAIN Ranked /\ Ranked[n] = b
        BY <2>1, <2>2, <2>3 DEF Passed
      <3>2. Suits(j, b)
        <4>1. /\ plan'[j].level \in {0, Level[b]} /\ plan'[j].session \in Offered[b]
              /\ RulesAllow(b, Known' \union {plan'[k].code : k \in Rows' \ {j}},
                            Prior(j)', Prior(j)' \union CodesAt(Beside(j))')
          BY <2>3, SuitsThen DEF Visits
        <4>2. CodesAt(Beside(j))' = CodesAt(Beside(j))
          BY <2>1, <2>2 DEF CodesAt
        <4>3. {plan'[k].code : k \in Rows' \ {j}} = CodesAt(Rows \ {j})
          BY <2>1 DEF CodesAt
        <4> QED
          BY <2>1, <2>2, <4>1, <4>2, <4>3 DEF Suits
      <3>3. CASE j \in Visited
        BY <2>1, <3>1, <3>2, <3>3 DEF IInv, NoneSuits
      <3>4. CASE j = i
        <4>1. Fits(b, i)
          BY <3>1, <3>2, <3>4, SuitedFits DEF Passed
        <4> QED
          BY <1>1, <3>1, <4>1 DEF Leaves
      <3> QED
        BY <2>1, <3>3, <3>4
    <2> QED
      BY <2>3 DEF NoneSuits
  <1>2. ASSUME NEW m, Fills(i, m) PROVE NoneSuits'
    <2> DEFINE c == Ranked[m]
    <2>1. /\ \A k \in DOMAIN plan \ {i} : plan'[k] = plan[k]
          /\ plan'[i].code = c /\ c # Placeholder
          /\ Visited' = Visited \union {i} /\ Ranked' = Ranked
          /\ i \in DOMAIN plan /\ i \notin Visited
      BY <1>2, FillChanges DEF IInv
    <2>2. Scheduled' = Scheduled \union {c}
      BY <1>2, <2>1, HeldGrows DEF IInv
    <2>3. /\ \A n \in DOMAIN Ranked : n \in Nat /\ Ranked[n] \in Subjects
          /\ \A n, l \in DOMAIN Ranked : Ranked[n] = Ranked[l] => n = l
      BY RankedIs DEF IInv, Shape
    <2>4. Visited \subseteq DOMAIN plan
      BY DEF IInv, Shape, Visited, Slots
    <2>5. ASSUME NEW j \in Visited', NEW n \in DOMAIN Ranked', NEW b \in Subjects,
                 Ranked'[n] = b, Passed(j, n)', Suits(j, b)'
          PROVE  FALSE
      <3>1. n \in DOMAIN Ranked /\ Ranked[n] = b
        BY <2>1, <2>5
      <3>2. j \in Visited \union {i}
        BY <2>1
      <3>3. Suits(j, b)
        BY <1>2, <2>5, <3>2, SuitsShrinks
      <3>4. /\ Ranked[n] \notin Scheduled /\ Ranked[n] # c
            /\ plan'[j].code = Placeholder
               \/ \E l \in DOMAIN Ranked : n < l /\ Ranked[l] = plan'[j].code
        BY <2>1, <2>2, <2>5 DEF Passed
      <3>5. CASE j \in Visited
        <4>1. plan'[j] = plan[j]
          BY <2>1, <2>4, <3>5
        <4>2. Passed(j, n)
          BY <3>4, <4>1 DEF Passed
        <4> QED
          BY <3>1, <3>3, <3>5, <4>2 DEF IInv, NoneSuits
      <3>6. CASE j = i
        <4>1. PICK l \in DOMAIN Ranked : n < l /\ Ranked[l] = c
          BY <2>1, <3>4, <3>6
        <4>2. m \in DOMAIN Ranked
          BY <1>2 DEF Fills
        <4>3. l = m
          BY <2>3, <4>1, <4>2
        <4>4. ~Fits(b, i)
          BY <1>2, <3>1, <4>1, <4>3 DEF Fills
        <4>5. Fits(b, i)
          BY <3>1, <3>3, <3>4, <3>6, SuitedFits
        <4> QED
          BY <4>4, <4>5
      <3> QED
        BY <3>2, <3>5, <3>6
    <2> QED
      BY <2>5 DEF NoneSuits
  <1> QED
    BY <1>1, <1>2

LEMMA InitHolds == ASSUME Init PROVE IInv
  <1>1. problem \in Problems /\ plan = problem.rows /\ todo = Slots
    BY DEF Init
  <1>2. Shape
    <2>1. \A i \in DOMAIN plan : plan[i] \in PlanRows
      BY <1>1, ProblemIs
    <2> QED
      BY <1>1, <2>1 DEF Shape
  <1>3. Visited = {} /\ Filled = {}
    <2>1. Visited = {}
      BY <1>1 DEF Visited
    <2> QED
      BY <1>2, <2>1, RowsSplit
  <1>4. Scheduled = Known \union Fixed
    BY <1>2, <1>3, RowsSplit DEF CodesAt
  <1>5. FirstYearCapKept
    <2> DEFINE g == FirstYearPoints(Known \union Fixed)
    <2>1. g \in Nat
      BY <1>1, ProblemIs, PointsGrow
    <2>2. FirstYearPoints(Scheduled) = g
      BY <1>4
    <2> HIDE DEF g
    <2>3. g <= Max({MAX_100_LEVEL_CP, g})
      BY <2>1, MaxOfTwo, LimitAssumption
    <2> QED
      BY <2>2, <2>3 DEF FirstYearCapKept, g
  <1>6. InOrder /\ RequirementsKept /\ NothingClashes /\ NoneSuits
    BY <1>3 DEF InOrder, RequirementsKept, NothingClashes, NoneSuits
  <1> QED
    BY <1>2, <1>5, <1>6 DEF IInv

LEMMA StutterHolds == ASSUME IInv, UNCHANGED vars PROVE IInv'
  <1>1. problem' = problem /\ plan' = plan /\ todo' = todo
    BY DEF vars
  <1>2. Known' = Known /\ Slots' = Slots /\ Fixed' = Fixed /\ Ranked' = Ranked
    BY <1>1, SameProblem
  <1>3. Rows' = Rows /\ Visited' = Visited
    BY <1>1, <1>2 DEF Rows, Visited, IsPlaceholder
  <1>4. Filled' = Filled /\ Scheduled' = Scheduled
    BY <1>1, <1>2, <1>3 DEF Filled, Scheduled, CodesAt
  <1>5. \A j : Prior(j)' = Prior(j) /\ Through(j)' = Through(j)
    BY <1>1, <1>2, <1>3 DEF Prior, Through, CodesAt
  <1>6. \A j : Beside(j)' = Beside(j)
    BY <1>1, <1>2, <1>3 DEF Beside
  <1>7. Shape'
    BY <1>1, <1>2, <1>3 DEF IInv, Shape
  <1>8. InOrder'
    BY <1>1, <1>3 DEF IInv, InOrder, Before
  <1>9. RequirementsKept'
    BY <1>1, <1>4, <1>5 DEF IInv, RequirementsKept
  <1>10. NothingClashes'
    BY <1>1, <1>2, <1>4 DEF IInv, NothingClashes
  <1>11. FirstYearCapKept'
    BY <1>2, <1>4 DEF IInv, FirstYearCapKept
  <1>12. NoneSuits'
    <2>1. ASSUME NEW j \in Visited', NEW n \in DOMAIN Ranked', NEW b \in Subjects,
                 Ranked'[n] = b, Passed(j, n)', Suits(j, b)'
          PROVE  FALSE
      <3>1. Passed(j, n) /\ n \in DOMAIN Ranked /\ Ranked[n] = b /\ j \in Visited
        BY <1>1, <1>2, <1>3, <1>4, <2>1 DEF Passed
      <3>2. /\ plan'[j].level \in {0, Level[b]} /\ plan'[j].session \in Offered[b]
            /\ RulesAllow(b, Known' \union {plan'[k].code : k \in Rows' \ {j}},
                          Prior(j)', Prior(j)' \union CodesAt(Beside(j))')
        BY <1>1, <2>1, SuitsThen
      <3>3. /\ CodesAt(Beside(j))' = CodesAt(Beside(j))
            /\ {plan'[k].code : k \in Rows' \ {j}} = CodesAt(Rows \ {j})
        BY <1>1, <1>3, <1>6 DEF CodesAt
      <3>4. Suits(j, b)
        BY <1>1, <1>2, <1>5, <3>2, <3>3 DEF Suits
      <3> QED
        BY <3>1, <3>4 DEF IInv, NoneSuits
    <2> QED
      BY <2>1 DEF NoneSuits
  <1> QED
    BY <1>7, <1>8, <1>9, <1>10, <1>11, <1>12 DEF IInv

\* Every step of the walk (fill_elective_slots) keeps the invariant, whatever it finds.
THEOREM ElectivesInvHolds == Spec => []IInv
  <1>1. Init => IInv
    BY InitHolds
  <1>2. ASSUME IInv, [Next]_vars PROVE IInv'
    <2>1. CASE FillSlot
      <3>1. PICK i : Visits(i) /\ (Leaves(i) \/ \E m : Fills(i, m))
        BY <1>2, <2>1, FillStep DEF IInv
      <3>2. Shape'
        BY <1>2, <3>1, FillChanges, LeaveChanges DEF IInv
      <3>3. InOrder' /\ RequirementsKept'
        BY <1>2, <3>1, InOrderHolds, RequirementsHold
      <3>4. NothingClashes' /\ FirstYearCapKept'
        BY <1>2, <3>1, ClashesHold, CapHolds
      <3>5. NoneSuits'
        BY <1>2, <3>1, NoneSuitsHolds
      <3> QED
        BY <3>2, <3>3, <3>4, <3>5 DEF IInv
    <2>2. CASE UNCHANGED vars
      BY <1>2, <2>2, StutterHolds
    <2> QED
      BY <1>2, <2>1, <2>2 DEF Next
  <1> QED
    BY <1>1, <1>2, PTL DEF Spec

-----------------------------------------------------------------------------
(* What it shows                                                           *)

\* Rows keep their times, and only placeholders are filled, with subjects of the
\* catalog (fill_elective_slots).
THEOREM ElectiveTypesHold == Spec => []TypeOK
  <1>1. IInv => TypeOK
    <2> SUFFICES ASSUME IInv PROVE TypeOK
      OBVIOUS
    <2>1. ASSUME NEW i \in DOMAIN plan
          PROVE  \/ plan[i] = problem.rows[i]
                 \/ /\ i \in Slots \ todo
                    /\ plan[i].code \in Catalog
                    /\ plan[i] = [problem.rows[i] EXCEPT !.code = plan[i].code]
      <3>1. /\ problem.rows[i] \in PlanRows /\ plan[i] \in PlanRows
            /\ plan[i].year = problem.rows[i].year
            /\ plan[i].session = problem.rows[i].session
            /\ plan[i].level = problem.rows[i].level
            /\ \/ plan[i].code = problem.rows[i].code
               \/ i \in Slots \ todo /\ plan[i].code \in Catalog
        BY ProblemIs DEF IInv, Shape, Visited
      <3>2. plan[i] = [problem.rows[i] EXCEPT !.code = plan[i].code]
        BY <3>1 DEF PlanRows
      <3>3. plan[i].code = problem.rows[i].code => plan[i] = problem.rows[i]
        BY <3>1 DEF PlanRows
      <3> QED
        BY <3>1, <3>2, <3>3
    <2> QED
      BY <2>1 DEF IInv, Shape, TypeOK
  <1> QED
    BY <1>1, ElectivesInvHolds, PTL

\* The rows of earlier sessions than that of a row, and of the same.
Earlier(i) ==
    {k \in Rows : \/ plan[k].year < plan[i].year
                  \/ /\ plan[k].year = plan[i].year
                     /\ SessionRank(plan[k].session) < SessionRank(plan[i].session)}

Alongside(i) ==
    {k \in Rows : /\ plan[k].year = plan[i].year
                  /\ SessionRank(plan[k].session) = SessionRank(plan[i].session)}

LEMMA HeldByCalendar ==
    ASSUME Shape, NEW i \in Filled
    PROVE  /\ Prior(i) = Known \union CodesAt(Earlier(i))
           /\ Through(i) = Known \union CodesAt(Earlier(i) \union Alongside(i))
  <1>1. \A k \in Rows : plan[k] \in PlanRows /\ When(plan[k]) \in Nat
    BY RowsAre DEF Shape, Rows
  <1>2. i \in Rows
    BY DEF Filled
  <1>3. \A k \in Rows : /\ When(plan[k]) < When(plan[i]) <=> k \in Earlier(i)
                        /\ When(plan[k]) = When(plan[i]) <=> k \in Alongside(i)
    BY <1>1, <1>2, WhenIsCalendar DEF Earlier, Alongside
  <1>4. Earlier(i) \subseteq Rows /\ Alongside(i) \subseteq Rows
    BY DEF Earlier, Alongside
  <1>5. {k \in Rows : When(plan[k]) < When(plan[i])} = Earlier(i)
    BY <1>3, <1>4
  <1>6. \A k \in Rows : When(plan[k]) <= When(plan[i])
                          <=> When(plan[k]) < When(plan[i]) \/ When(plan[k]) = When(plan[i])
    BY <1>1, <1>2
  <1>7. {k \in Rows : When(plan[k]) <= When(plan[i])} = Earlier(i) \union Alongside(i)
    BY <1>3, <1>4, <1>6
  <1> QED
    BY <1>5, <1>7 DEF Prior, Through

\* What is filled in keeps the prerequisites, corequisites, exclusions and the cap in
\* the plan that comes out, for any plan and any catalog (_rules_allow).
THEOREM FilledRowsKeepTheRules == Spec => []RulesKept
  <1>1. ASSUME IInv PROVE RequirementsMet
    <2>1. \A i \in Filled : /\ Prior(i) = Known \union CodesAt(Earlier(i))
                            /\ Through(i) = Known \union CodesAt(Earlier(i) \union Alongside(i))
      BY <1>1, HeldByCalendar DEF IInv
    <2> QED
      BY <1>1, <2>1 DEF IInv, RequirementsKept, RequirementsMet, Earlier, Alongside
  <1>2. IInv => RulesKept
    BY <1>1 DEF IInv, RulesKept
  <1> QED
    BY <1>2, ElectivesInvHolds, PTL

\* No ranked subject outside the finished plan would fit an empty row, or one that
\* holds a subject ranked lower, as the plan stands (_first_fit).
THEOREM NothingRankedHigherFits == Spec => []NothingBetterFits
  <1>1. ASSUME IInv PROVE NothingBetterFits
    <2>1. ASSUME todo = {}, NEW i \in Slots, NEW n \in DOMAIN Ranked,
                 Ranked[n] \notin Scheduled,
                 plan[i].code = Placeholder
                   \/ \E m \in DOMAIN Ranked : n < m /\ Ranked[m] = plan[i].code
          PROVE  ~Suits(i, Ranked[n])
      <3>1. i \in Visited /\ Passed(i, n)
        BY <2>1 DEF Visited, Passed
      <3>2. Ranked[n] \in Subjects
        BY <1>1, RankedIs DEF IInv, Shape
      <3> QED
        BY <1>1, <3>1, <3>2 DEF IInv, NoneSuits
    <2> QED
      BY <2>1 DEF NothingBetterFits, Suits, Beside
  <1> QED
    BY <1>1, ElectivesInvHolds, PTL

-----------------------------------------------------------------------------
(* The lists of electives                                                  *)

\* The pool builder and the ranked list differ by nothing but clashes with what is
\* planned (build_eligible_elective_pool, get_elective_priorities).
THEOREM ElectiveListsAgree == Spec => []ListsAgree
  <1>1. ASSUME IInv, NEW session
        PROVE  EligiblePool(session) \subseteq PriorityCandidates(problem.pool, session)
    <2> SUFFICES ASSUME NEW c \in EligiblePool(session)
                 PROVE  c \in PriorityCandidates(problem.pool, session)
      OBVIOUS
    <2>1. /\ c \in PoolCandidates(problem.pool, Core \union Known)
          /\ session \in Offered[c] /\ RulesAllow(c, Known, Known, Known)
      BY DEF EligiblePool
    <2>2. c \in Catalog \ (Core \union Known) /\ c \in Subjects
      BY <2>1, PoolIsCatalog
    <2>3. Known \in SUBSET Subjects /\ problem.completed \in SUBSET Known
      BY <1>1, ProblemIs DEF IInv, Shape, Known
    <2>4. RulesAllow(c, problem.completed, Known, Known)
      BY <2>1, <2>2, <2>3, RulesShrink
    <2>5. c \in EligibleSubjects(session)
      BY <2>1, <2>2, <2>4 DEF EligibleSubjects, HeldForPrerequisites, RulesAllow
    <2> QED
      BY <2>1, <2>2, <2>5 DEF PriorityCandidates
  <1>2. ASSUME IInv, NEW session,
               NEW c \in PriorityCandidates(problem.pool, session) \ EligiblePool(session)
        PROVE  \E d \in problem.planned :
                 \/ Forbids(c, d)
                 \/ \E e \in Satisfies : e[2] = c /\ <<e[1], d>> \in Linked
    <2> DEFINE Replaces(d) == \E e \in Satisfies : e[2] = c /\ <<e[1], d>> \in Linked
    <2>1. /\ c \in PoolCandidates(problem.pool, Core \union Known)
          /\ c \in EligibleSubjects(session)
      BY DEF PriorityCandidates
    <2>2. /\ session \in Offered[c]
          /\ Satisfied(problem.needs[c], Known) /\ Satisfied(Corequisites[c], Known)
          /\ ~ExclusionBlocked(c, problem.completed) /\ ~ReplacementBlocked(c, problem.completed)
          /\ UnderCap(c, Known)
      BY <2>1 DEF EligibleSubjects, HeldForPrerequisites
    <2>3. ~RulesAllow(c, Known, Known, Known)
      BY <2>1, <2>2 DEF EligiblePool
    <2>4. ExclusionBlocked(c, Known) \/ ReplacementBlocked(c, Known)
      BY <2>2, <2>3 DEF RulesAllow
    <2>5. Known \in SUBSET Subjects /\ problem.completed \in SUBSET Subjects
      BY <1>2, ProblemIs DEF IInv, Shape
    <2>6. \E d \in Known : Forbids(c, d) \/ Replaces(d)
      BY <2>4, <2>5, BlockedIs
    <2>7. ~\E d \in problem.completed : Forbids(c, d) \/ Replaces(d)
      BY <2>2, <2>5, BlockedIs
    <2> HIDE DEF Replaces
    <2>8. \E d \in problem.planned : Forbids(c, d) \/ Replaces(d)
      BY <2>6, <2>7 DEF Known
    <2> QED
      BY <2>8 DEF Replaces
  <1>3. IInv => ListsAgree
    BY <1>1, <1>2 DEF ListsAgree
  <1> QED
    BY <1>3, ElectivesInvHolds, PTL

\* What a shortlist holds.
Best(codes) == {c \in Relevant(codes) : Cardinality(Over(codes, c)) < LIMIT}

LEMMA ShortlistHoldsBest ==
    ASSUME problem.score \in [Subjects -> Nat], NEW S \in SUBSET Subjects
    PROVE  ToSet(Shortlist(S)) = Best(S)
  <1> DEFINE n == Cardinality(Relevant(S))
             m == IF LIMIT <= n THEN LIMIT ELSE n
  <1>1. /\ n \in Nat /\ m \in Nat /\ m <= n /\ m <= LIMIT /\ DOMAIN Shortlist(S) = 1..m
        /\ \A k \in 1..m : Shortlist(S)[k] = Sorted(S)[k]
    BY ShortlistIs
  <1>2. /\ Sorted(S) \in [1..n -> Relevant(S)]
        /\ \A k \in 1..n : Cardinality(Over(S, Sorted(S)[k])) = k - 1
        /\ \A c \in Relevant(S) : /\ Cardinality(Over(S, c)) + 1 \in 1..n
                                  /\ Sorted(S)[Cardinality(Over(S, c)) + 1] = c
    BY SortedIs
  <1>3. \A c \in Relevant(S) : Cardinality(Over(S, c)) \in 0..(n - 1)
    BY RanksAreDistinct
  <1>4. LIMIT \in Nat /\ (m = LIMIT \/ m = n)
    BY LimitAssumption
  <1> HIDE DEF n, m
  <1>5. ASSUME NEW k \in 1..m PROVE Shortlist(S)[k] \in Best(S)
    <2>1. k \in 1..n /\ k - 1 < LIMIT
      BY <1>1, <1>4
    <2>2. Sorted(S)[k] \in Relevant(S) /\ Cardinality(Over(S, Sorted(S)[k])) = k - 1
      BY <1>2, <2>1
    <2> QED
      BY <1>1, <2>1, <2>2 DEF Best
  <1>6. ASSUME NEW c \in Best(S) PROVE \E k \in 1..m : Shortlist(S)[k] = c
    <2> DEFINE r == Cardinality(Over(S, c))
    <2>1. c \in Relevant(S) /\ r < LIMIT
      BY DEF Best
    <2>2. r \in 0..(n - 1) /\ r + 1 \in 1..n /\ Sorted(S)[r + 1] = c
      BY <1>2, <1>3, <2>1
    <2> HIDE DEF r
    <2>3. r + 1 \in 1..m
      BY <1>1, <1>4, <2>1, <2>2
    <2> QED
      BY <1>1, <2>2, <2>3
  <1> QED
    BY <1>1, <1>5, <1>6 DEF ToSet

LEMMA OverIsFinite ==
    ASSUME NEW S \in SUBSET Subjects, NEW T \in SUBSET S, NEW c, NEW d,
           Over(T, c) \subseteq Over(S, d)
    PROVE  /\ IsFiniteSet(Over(S, d)) /\ Cardinality(Over(T, c)) \in Nat
           /\ Cardinality(Over(S, d)) \in Nat
           /\ Cardinality(Over(T, c)) <= Cardinality(Over(S, d))
  <1>1. Over(S, d) \in SUBSET Subjects
    BY DEF Over, Relevant
  <1> QED
    BY <1>1, SubjectsAssumption, FS_Subset, FS_CardinalityType

\* Leaving out subjects that are not among the best changes nothing at the top.
LEMMA BestSuffice ==
    ASSUME problem.score \in [Subjects -> Nat], NEW A \in SUBSET Subjects,
           NEW U \in SUBSET Relevant(A), Best(A) \subseteq U
    PROVE  Shortlist(U) = Shortlist(A)
  <1> DEFINE n == Cardinality(Relevant(A))
             m == IF LIMIT <= n THEN LIMIT ELSE n
             l == Cardinality(Relevant(U))
             p == IF LIMIT <= l THEN LIMIT ELSE l
  <1>1. U \in SUBSET Subjects /\ U \in SUBSET A /\ Relevant(U) = U
    BY DEF Relevant
  <1>2. /\ n \in Nat /\ m \in Nat /\ m <= n /\ m <= LIMIT
        /\ Shortlist(A) \in Seq(Relevant(A)) /\ DOMAIN Shortlist(A) = 1..m
        /\ \A k \in 1..m : Shortlist(A)[k] = Sorted(A)[k]
    BY ShortlistIs
  <1>3. /\ l \in Nat /\ p \in Nat
        /\ Shortlist(U) \in Seq(Relevant(U)) /\ DOMAIN Shortlist(U) = 1..p
        /\ \A k \in 1..p : Shortlist(U)[k] = Sorted(U)[k]
    BY <1>1, ShortlistIs
  <1>4. /\ Sorted(A) \in [1..n -> Relevant(A)]
        /\ \A k \in 1..n : Cardinality(Over(A, Sorted(A)[k])) = k - 1
    BY SortedIs
  <1>5. \A c \in Relevant(U) : /\ Cardinality(Over(U, c)) + 1 \in 1..l
                               /\ Sorted(U)[Cardinality(Over(U, c)) + 1] = c
    BY <1>1, SortedIs
  <1>6. l <= n
    BY <1>1, RanksAreDistinct, FS_Subset
  <1>7. LIMIT \in Nat /\ (m = LIMIT \/ m = n) /\ p = (IF LIMIT <= l THEN LIMIT ELSE l)
    BY LimitAssumption
  <1> HIDE DEF n, m, l, p
  <1>8. ASSUME NEW c \in Best(A) PROVE Over(U, c) = Over(A, c)
    <2>1. c \in Relevant(A) /\ c \in Subjects /\ Cardinality(Over(A, c)) < LIMIT
      BY DEF Best, Relevant
    <2>2. ASSUME NEW d \in Over(A, c) PROVE d \in Over(U, c)
      <3>1. d \in Relevant(A) /\ d \in Subjects /\ Precedes(d, c)
        BY DEF Over, Relevant
      <3>2. ASSUME NEW e \in Over(A, d) PROVE e \in Over(A, c)
        <4>1. e \in Relevant(A) /\ e \in Subjects /\ Precedes(e, d)
          BY DEF Over, Relevant
        <4>2. Precedes(e, c)
          BY <2>1, <3>1, <4>1, PrecedesIsTotal
        <4> QED
          BY <4>1, <4>2 DEF Over
      <3>3. /\ Cardinality(Over(A, d)) \in Nat /\ Cardinality(Over(A, c)) \in Nat
            /\ Cardinality(Over(A, d)) <= Cardinality(Over(A, c))
        BY <3>2, OverIsFinite
      <3>4. Cardinality(Over(A, d)) < LIMIT
        BY <1>7, <2>1, <3>3
      <3>5. d \in U
        BY <3>1, <3>4 DEF Best
      <3> QED
        BY <1>1, <3>1, <3>5 DEF Over
    <2>3. Over(U, c) \subseteq Over(A, c)
      BY <1>1 DEF Over
    <2> QED
      BY <2>2, <2>3
  <1>9. ASSUME NEW k \in 1..m PROVE k \in 1..l /\ Sorted(U)[k] = Sorted(A)[k]
    <2> DEFINE c == Sorted(A)[k]
    <2>1. k \in 1..n /\ k \in Int /\ k - 1 < LIMIT /\ (k - 1) + 1 = k
      BY <1>2, <1>7
    <2>2. c \in Relevant(A) /\ Cardinality(Over(A, c)) = k - 1
      BY <1>4, <2>1
    <2>3. c \in Best(A) /\ c \in Relevant(U)
      BY <1>1, <2>1, <2>2 DEF Best
    <2> HIDE DEF c
    <2>4. Cardinality(Over(U, c)) = k - 1
      BY <1>8, <2>2, <2>3
    <2> QED
      BY <1>5, <2>1, <2>3, <2>4 DEF c
  <1>10. m <= l
    <2>1. CASE m = 0
      BY <1>3, <2>1
    <2>2. CASE m # 0
      <3>1. m \in 1..m
        BY <1>2, <2>2
      <3>2. m \in 1..l
        BY <1>9, <3>1
      <3> QED
        BY <3>2
    <2> QED
      BY <2>1, <2>2
  <1>11. p = m
    BY <1>2, <1>3, <1>6, <1>7, <1>10
  <1>12. /\ Shortlist(A) = [k \in 1..m |-> Shortlist(A)[k]]
         /\ Shortlist(U) = [k \in 1..m |-> Shortlist(U)[k]]
    BY <1>2, <1>3, <1>11
  <1>13. \A k \in 1..m : Shortlist(U)[k] = Shortlist(A)[k]
    BY <1>2, <1>3, <1>9, <1>11
  <1> QED
    BY <1>12, <1>13

LEMMA SortedHolds ==
    ASSUME problem.score \in [Subjects -> Nat], NEW S \in SUBSET Subjects
    PROVE  ToSet(Sorted(S)) = Relevant(S) /\ Len(Sorted(S)) = Cardinality(Relevant(S))
  <1> DEFINE n == Cardinality(Relevant(S))
  <1>1. /\ Sorted(S) \in [1..n -> Relevant(S)]
        /\ \A c \in Relevant(S) : /\ Cardinality(Over(S, c)) + 1 \in 1..n
                                  /\ Sorted(S)[Cardinality(Over(S, c)) + 1] = c
    BY SortedIs
  <1>2. Len(Sorted(S)) = n
    BY SortedIsList
  <1> HIDE DEF n
  <1>3. ToSet(Sorted(S)) = Relevant(S)
    BY <1>1 DEF ToSet
  <1> QED
    BY <1>2, <1>3 DEF n

AreBest(U, Pools) == U = UNION {Best(S) : S \in Pools}

\* Cutting off each pool on its own loses none of the best over all of them.
LEMMA BestOfEach ==
    ASSUME problem.score \in [Subjects -> Nat], NEW Pools \in SUBSET SUBSET Subjects,
           NEW A, A = UNION Pools, NEW U, AreBest(U, Pools)
    PROVE  A \in SUBSET Subjects /\ U \in SUBSET Relevant(A) /\ Best(A) \subseteq U
  <1>1. A \in SUBSET Subjects
    OBVIOUS
  <1>2. U \in SUBSET Relevant(A)
    BY DEF Best, Relevant, AreBest
  <1>3. ASSUME NEW c \in Best(A) PROVE c \in U
    <2>1. PICK S \in Pools : c \in S
      BY DEF Best, Relevant
    <2>2. S \in SUBSET A /\ Over(S, c) \subseteq Over(A, c)
      BY DEF Over, Relevant
    <2>3. /\ Cardinality(Over(S, c)) \in Nat /\ Cardinality(Over(A, c)) \in Nat
          /\ Cardinality(Over(S, c)) <= Cardinality(Over(A, c))
      BY <1>1, <2>2, OverIsFinite
    <2>4. c \in Relevant(S) /\ Cardinality(Over(A, c)) < LIMIT
      BY <2>1 DEF Best, Relevant
    <2>5. Cardinality(Over(S, c)) < LIMIT
      BY <2>3, <2>4, LimitAssumption
    <2> QED
      BY <2>1, <2>4, <2>5 DEF Best, AreBest
  <1> QED
    BY <1>1, <1>2, <1>3

\* The merged list starts with the best over all pools and names none twice, for any
\* pools and any limit (flatten_ranked_electives).
THEOREM AdvisorSeesTheBest == Spec => []BestOfAllPools
  <1>1. ASSUME IInv, NEW session
        PROVE  LET list == Merged(Shortlists(session))
                   all  == UNION {PriorityCandidates(pool, session) :
                                    pool \in {problem.pool} \union OtherPools}
               IN  /\ SubSeq(list, 1, Min({LIMIT, Len(list)})) = Shortlist(all)
                   /\ Len(list) = Cardinality(ToSet(list))
    <2> DEFINE Pools == {PriorityCandidates(pool, session) :
                            pool \in {problem.pool} \union OtherPools}
               all == UNION Pools
               best == UNION {Best(S) : S \in Pools}
               list == Merged(Shortlists(session))
    <2>1. problem.score \in [Subjects -> Nat]
      BY <1>1, ProblemIs DEF IInv, Shape
    <2>2. Pools \in SUBSET SUBSET Subjects
      BY PoolIsCatalog DEF PriorityCandidates
    <2>3. UNION {ToSet(l) : l \in Shortlists(session)} = best
      <3>1. \A S \in Pools : ToSet(Shortlist(S)) = Best(S)
        BY <2>1, <2>2, ShortlistHoldsBest
      <3>2. Shortlists(session) = {Shortlist(S) : S \in Pools}
        BY DEF Shortlists
      <3> HIDE DEF Pools
      <3>3. {ToSet(l) : l \in {Shortlist(S) : S \in Pools}} = {ToSet(Shortlist(S)) : S \in Pools}
        OBVIOUS
      <3>4. {ToSet(Shortlist(S)) : S \in Pools} = {Best(S) : S \in Pools}
        BY <3>1
      <3> QED
        BY <3>2, <3>3, <3>4
    <2>4. list = Sorted(best)
      BY <2>3 DEF Merged
    <2> HIDE DEF Pools, all, best
    <2>5. all \in SUBSET Subjects /\ best \in SUBSET Relevant(all) /\ Best(all) \subseteq best
      <3>1. all = UNION Pools /\ AreBest(best, Pools)
        BY DEF all, best, AreBest
      <3> QED
        BY <2>1, <2>2, <3>1, BestOfEach
    <2>6. best \in SUBSET Subjects
      BY <2>5 DEF Relevant
    <2> HIDE DEF list
    <2>7. Shortlist(best) = Shortlist(all)
      BY <2>1, <2>5, BestSuffice
    <2>8. SubSeq(list, 1, Min({LIMIT, Len(list)})) = Shortlist(best)
      BY <2>4 DEF Shortlist
    <2>9. Len(list) = Cardinality(ToSet(list))
      BY <2>1, <2>4, <2>6, SortedHolds
    <2> QED
      BY <2>7, <2>8, <2>9 DEF all, Pools, list
  <1>2. IInv => BestOfAllPools
    BY <1>1 DEF BestOfAllPools
  <1> QED
    BY <1>2, ElectivesInvHolds, PTL
=============================================================================
