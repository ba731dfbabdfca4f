------------------------- MODULE ChatSessions_proofs -------------------------
(***************************************************************************)
(* Of however many turns on a session, of any length: the rebuilt history  *)
(* is the conversation, replies are the turn's own and remembered unless   *)
(* turns overlapped, and whatever overlaps, shown history only grows.      *)
(***************************************************************************)
EXTENDS ChatSessions, Integers, SequenceTheorems, FiniteSetTheorems, TLAPS

-----------------------------------------------------------------------------
(* Induction and recursion up to a natural number, of sets and functions   *)

\* A set of natural numbers up to n has a least one.
LEMMA LeastOf ==
    ASSUME NEW n \in Nat, NEW T, T \subseteq 0..n, T # {}
    PROVE  \E i \in T : \A j \in T : i <= j
  <1> DEFINE U == {1..i : i \in T}
  <1>1. IsWellFoundedOn(StrictSubsetOrdering(Nat), FiniteSubsetsOf(Nat))
    BY FS_StrictSubsetOrderingWellFounded
  <1>2. U \subseteq FiniteSubsetsOf(Nat)
    <2> SUFFICES ASSUME NEW i \in T PROVE 1..i \in FiniteSubsetsOf(Nat)
      OBVIOUS
    <2>1. i \in Int /\ 1..i \subseteq Nat
      BY SMT
    <2>2. IsFiniteSet(1..i)
      BY <2>1, FS_Interval
    <2> QED
      BY <2>1, <2>2 DEF FiniteSubsetsOf
  <1>3. U # {}
    OBVIOUS
  <1> HIDE DEF U
  <1>4. \E x \in U : \A y \in U : ~ (<<y, x>> \in StrictSubsetOrdering(Nat))
    BY <1>1, <1>2, <1>3, WFMin
  <1> USE DEF U
  <1>5. PICK i \in T : \A j \in T : <<1..j, 1..i>> \notin StrictSubsetOrdering(Nat)
    BY <1>4
  <1>6. ASSUME NEW j \in T, ~(i <= j) PROVE FALSE
    <2>1. i \in Nat /\ j \in Nat /\ j < i
      BY <1>6
    <2>2. 1..j \subseteq 1..i /\ 1..j \subseteq Nat /\ 1..i \subseteq Nat
      BY <2>1
    <2>3. i \in 1..i /\ i \notin 1..j
      BY <2>1
    <2>4. 1..j # 1..i
      BY <2>3
    <2>5. <<1..j, 1..i>> \in StrictSubsetOrdering(Nat)
      BY <2>2, <2>4 DEF StrictSubsetOrdering
    <2> QED
      BY <2>5, <1>5
  <1> QED
    BY <1>6

\* What holds of 0 and of each successor holds up to n.
LEMMA UpTo ==
    ASSUME NEW n \in Nat, NEW T, 0 \in T,
           \A i \in 0..n : i \in T /\ i < n => i + 1 \in T
    PROVE  \A i \in 0..n : i \in T
  <1> DEFINE Out == {i \in 0..n : i \notin T}
  <1>1. CASE Out = {}
    BY <1>1
  <1>2. CASE Out # {}
    <2>1. PICK i \in Out : \A j \in Out : i <= j
      <3> HIDE DEF Out
      <3>1. Out \subseteq 0..n
        BY DEF Out
      <3> QED
        BY <1>2, <3>1, LeastOf
    <2>2. i \in 0..n /\ i # 0
      OBVIOUS
    <2>3. i - 1 \in 0..n /\ i - 1 < n /\ i - 1 \notin Out
      BY <2>1, <2>2
    <2>4. (i - 1) + 1 \in T
      BY <2>3
    <2> QED
      BY <2>4, <2>2
  <1> QED
    BY <1>1, <1>2

\* A recursion up to n that takes each value to the next by the function step[i].
Steps(n, S) == [1..n -> [S -> S]]
Solves(f, n, base, step) == f[0] = base /\ \A i \in 1..n : f[i] = step[i][f[i - 1]]

\* It has a solution.
LEMMA Solvable ==
    ASSUME NEW n \in Nat, NEW S, NEW base \in S, NEW step \in Steps(n, S)
    PROVE  \E f \in [0..n -> S] : Solves(f, n, base, step)
  <1> USE DEF Steps, Solves
  <1> DEFINE Part(f, m) ==
                f[0] = base /\ \A i \in 1..m : f[i] = step[i][f[i - 1]]
             T == {m \in 0..n : \E f \in [0..m -> S] : Part(f, m)}
  <1>1. 0 \in T
    <2>1. [j \in 0..0 |-> base] \in [0..0 -> S] /\ Part([j \in 0..0 |-> base], 0)
      OBVIOUS
    <2>2. 0 \in 0..n
      OBVIOUS
    <2>3. \E f \in [0..0 -> S] : Part(f, 0)
      <3> HIDE DEF Part
      <3> QED
        BY <2>1
    <2> QED
      BY <2>2, <2>3
  <1>2. ASSUME NEW m \in 0..n, m \in T, m < n PROVE m + 1 \in T
    <2>1. PICK f \in [0..m -> S] : Part(f, m)
      BY <1>2
    <2> DEFINE g == [j \in 0..(m + 1) |-> IF j = m + 1 THEN step[m + 1][f[m]] ELSE f[j]]
    <2>2. m \in 0..m /\ m + 1 \in 1..n /\ f[m] \in S
      BY <1>2
    <2>3. step[m + 1][f[m]] \in S
      BY <2>2
    <2>4. g \in [0..(m + 1) -> S]
      BY <2>3
    <2>5. g[0] = base
      BY <2>1
    <2>6. ASSUME NEW i \in 1..(m + 1) PROVE g[i] = step[i][g[i - 1]]
      <3>1. CASE i = m + 1
        <4>1. g[m + 1] = step[m + 1][f[m]] /\ g[m] = f[m] /\ (m + 1) - 1 = m
          BY <1>2
        <4> QED
          BY <3>1, <4>1
      <3>2. CASE i # m + 1
        <4>1. i \in 1..m /\ g[i] = f[i] /\ g[i - 1] = f[i - 1]
          BY <3>2
        <4> QED
          BY <4>1, <2>1
      <3> QED
        BY <3>1, <3>2
    <2> HIDE DEF g
    <2>7. Part(g, m + 1)
      BY <2>5, <2>6
    <2> QED
      BY SMTT(60), <2>4, <2>7, <1>2
  <1>3. n \in T
    <2> HIDE DEF T
    <2>1. n \in 0..n
      OBVIOUS
    <2>2. \A i \in 0..n : i \in T
      BY <1>1, <1>2, UpTo
    <2> QED
      BY <2>1, <2>2
  <1> QED
    BY <1>3

\* It has only one.
LEMMA OneSolution ==
    ASSUME NEW n \in Nat, NEW base, NEW step, NEW f, NEW g,
           Solves(f, n, base, step), Solves(g, n, base, step)
    PROVE  \A i \in 0..n : f[i] = g[i]
  <1> USE DEF Solves
  <1> DEFINE T == {i \in 0..n : f[i] = g[i]}
  <1>1. 0 \in T
    OBVIOUS
  <1>2. ASSUME NEW i \in 0..n, i \in T, i < n PROVE i + 1 \in T
    <2>1. i + 1 \in 1..n /\ (i + 1) - 1 = i /\ f[i] = g[i]
      BY <1>2
    <2>2. f[i + 1] = step[i + 1][f[i]] /\ g[i + 1] = step[i + 1][g[i]]
      BY <2>1
    <2> QED
      BY <2>1, <2>2
  <1>3. \A i \in 0..n : i \in T
    <2> HIDE DEF T
    <2> QED
      BY <1>1, <1>2, UpTo
  <1> QED
    BY <1>3

-----------------------------------------------------------------------------
(* Only                                                                    *)

\* The recursion of Only, unrolled.
Keeps(k, s, set) ==
    /\ k[0] = <<>>
    /\ \A i \in 1..Len(s) :
        k[i] = IF s[i] \in set THEN Append(k[i - 1], s[i]) ELSE k[i - 1]

LEMMA OnlyUnrolled ==
    ASSUME NEW M, NEW s \in Seq(M), NEW set
    PROVE  \E k \in [0..Len(s) -> Seq(M)] : Keeps(k, s, set) /\ Only(s, set) = k[Len(s)]
  <1> DEFINE step == [i \in 1..Len(s) |-> [a \in Seq(M) |->
                        IF s[i] \in set THEN Append(a, s[i]) ELSE a]]
             Rec(k) == [i \in 0..Len(s) |->
                          IF i = 0 THEN <<>>
                          ELSE IF s[i] \in set THEN Append(k[i - 1], s[i])
                          ELSE k[i - 1]]
             kept == CHOOSE k : k = Rec(k)
  <1>1. Len(s) \in Nat /\ \A i \in 1..Len(s) : s[i] \in M
    OBVIOUS
  <1>2. step \in [1..Len(s) -> [Seq(M) -> Seq(M)]]
    BY <1>1
  <1>3. <<>> \in Seq(M)
    OBVIOUS
  <1>4. PICK f \in [0..Len(s) -> Seq(M)] :
            f[0] = <<>> /\ \A i \in 1..Len(s) : f[i] = step[i][f[i - 1]]
    <2> DEFINE n == Len(s)
               Lists == Seq(M)
               base == <<>>
    <2>1. n \in Nat /\ base \in Lists /\ step \in Steps(n, Lists)
      BY <1>1, <1>2, <1>3 DEF Steps
    <2> HIDE DEF step, n, Lists, base
    <2>2. \E f \in [0..n -> Lists] : Solves(f, n, base, step)
      BY <2>1, Solvable
    <2> QED
      BY <2>2 DEF n, Lists, base, Solves
  <1>5. f = Rec(f)
    <2>1. ASSUME NEW i \in 0..Len(s) PROVE f[i] = Rec(f)[i]
      <3>1. CASE i = 0
        BY <3>1, <1>4
      <3>2. CASE i # 0
        <4>1. i \in 1..Len(s) /\ i - 1 \in 0..Len(s)
          BY <3>2, <1>1
        <4>2. f[i] = step[i][f[i - 1]] /\ f[i - 1] \in Seq(M)
          BY <4>1, <1>4
        <4> QED
          BY <4>1, <4>2, <3>2
      <3> QED
        BY <3>1, <3>2
    <2> HIDE DEF step
    <2>2. /\ DOMAIN Rec(f) = 0..Len(s) /\ DOMAIN f = 0..Len(s)
          /\ Rec(f) = [i \in 0..Len(s) |-> Rec(f)[i]]
      OBVIOUS
    <2> QED
      BY <2>1, <2>2
  <1>6. kept = Rec(kept)
    <2> HIDE DEF Rec
    <2> QED
      BY <1>5
  <1>7. kept[0] = <<>> /\ DOMAIN kept = 0..Len(s) /\ kept = [i \in 0..Len(s) |-> kept[i]]
    <2> HIDE DEF kept
    <2> QED
      BY <1>6, <1>1
  <1>8. ASSUME NEW i \in 1..Len(s)
        PROVE  kept[i] = IF s[i] \in set THEN Append(kept[i - 1], s[i]) ELSE kept[i - 1]
    <2> HIDE DEF kept
    <2>1. i \in 0..Len(s) /\ i # 0
      BY <1>1
    <2> QED
      BY <2>1, <1>6
  <1>9. \A i \in 0..Len(s) : kept[i] \in Seq(M)
    <2> HIDE DEF kept
    <2> DEFINE T == {i \in 0..Len(s) : kept[i] \in Seq(M)}
    <2>1. 0 \in T
      <3>1. 0 \in 0..Len(s) /\ kept[0] = <<>> /\ <<>> \in Seq(M)
        BY <1>7, <1>1, <1>3
      <3> HIDE DEF kept
      <3> QED
        BY <3>1
    <2>2. ASSUME NEW i \in 0..Len(s), i \in T, i < Len(s) PROVE i + 1 \in T
      <3>1. i + 1 \in 1..Len(s) /\ (i + 1) - 1 = i /\ kept[i] \in Seq(M) /\ s[i + 1] \in M
        BY <2>2, <1>1
      <3>2. kept[i + 1] = IF s[i + 1] \in set THEN Append(kept[i], s[i + 1]) ELSE kept[i]
        <4> DEFINE j == i + 1
        <4>1. kept[j] = IF s[j] \in set THEN Append(kept[j - 1], s[j]) ELSE kept[j - 1]
          BY <3>1, <1>8
        <4> QED
          BY <4>1, <3>1
      <3>3. kept[i + 1] \in Seq(M)
        BY <3>1, <3>2
      <3> QED
        BY <3>1, <3>3
    <2> HIDE DEF T
    <2>3. \A i \in 0..Len(s) : i \in T
      <3> DEFINE n == Len(s)
      <3>1. n \in Nat /\ \A i \in 0..n : i \in T /\ i < n => i + 1 \in T
        BY <2>2, <1>1
      <3> HIDE DEF n
      <3>2. \A i \in 0..n : i \in T
        BY <2>1, <3>1, UpTo
      <3> QED
        BY <3>2 DEF n
    <2> QED
      BY <2>3 DEF T
  <1>10. Only(s, set) = kept[Len(s)]
    BY DEF Only
  <1> HIDE DEF kept
  <1> QED
    BY <1>7, <1>8, <1>9, <1>10 DEF Keeps

LEMMA OnlyEmpty == \A set : Only(<<>>, set) = <<>>
  <1> SUFFICES ASSUME NEW set PROVE Only(<<>>, set) = <<>>
    OBVIOUS
  <1>1. <<>> \in Seq({}) /\ Len(<<>>) = 0
    OBVIOUS
  <1>2. PICK k : Keeps(k, <<>>, set) /\ Only(<<>>, set) = k[Len(<<>>)]
    BY <1>1, OnlyUnrolled
  <1> QED
    BY <1>1, <1>2 DEF Keeps

LEMMA OnlyAppend ==
    ASSUME NEW M, NEW s \in Seq(M), NEW e \in M, NEW set
    PROVE  Only(Append(s, e), set)
                = IF e \in set THEN Append(Only(s, set), e) ELSE Only(s, set)
  <1> DEFINE n == Len(s)
             t == Append(s, e)
             step == [i \in 1..n |-> [a \in Seq(M) |->
                        IF s[i] \in set THEN Append(a, s[i]) ELSE a]]
  <1>1. /\ n \in Nat /\ t \in Seq(M) /\ Len(t) = n + 1 /\ t[n + 1] = e
        /\ \A i \in 1..n : t[i] = s[i]
    OBVIOUS
  <1>2. PICK k \in [0..Len(t) -> Seq(M)] : Keeps(k, t, set) /\ Only(t, set) = k[Len(t)]
    <2> HIDE DEF t
    <2> QED
      BY <1>1, OnlyUnrolled
  <1>3. PICK j \in [0..n -> Seq(M)] : Keeps(j, s, set) /\ Only(s, set) = j[n]
    BY OnlyUnrolled
  <1> HIDE DEF t
  <1>4. ASSUME NEW i \in 1..n
        PROVE  k[i] = step[i][k[i - 1]] /\ j[i] = step[i][j[i - 1]]
    <2>1. i \in 1..Len(t) /\ i - 1 \in 0..n /\ i - 1 \in 0..Len(t)
      BY <1>1
    <2>2. k[i - 1] \in Seq(M) /\ j[i - 1] \in Seq(M)
      BY <2>1
    <2>3. k[i] = IF s[i] \in set THEN Append(k[i - 1], s[i]) ELSE k[i - 1]
      BY <2>1, <1>1, <1>2 DEF Keeps
    <2>4. j[i] = IF s[i] \in set THEN Append(j[i - 1], s[i]) ELSE j[i - 1]
      BY <1>3 DEF Keeps
    <2> QED
      BY <2>2, <2>3, <2>4
  <1>5. Solves(k, n, <<>>, step) /\ Solves(j, n, <<>>, step)
    <2> HIDE DEF n, step
    <2>1. k[0] = <<>> /\ j[0] = <<>>
      BY <1>2, <1>3 DEF Keeps
    <2> QED
      BY <2>1, <1>4 DEF Solves
  <1>6. k[n] = j[n]
    <2> DEFINE base == <<>>
    <2>1. Solves(k, n, base, step) /\ Solves(j, n, base, step)
      BY <1>5
    <2>2. n \in Nat
      BY <1>1
    <2> HIDE DEF n, step, base
    <2>3. \A i \in 0..n : k[i] = j[i]
      <3>1. ASSUME NEW f, NEW g, Solves(f, n, base, step), Solves(g, n, base, step)
            PROVE  \A i \in 0..n : f[i] = g[i]
        BY <3>1, <2>2, OneSolution
      <3> QED
        BY <2>1, <3>1
    <2>4. n \in 0..n
      BY <2>2
    <2> QED
      BY <2>3, <2>4
  <1>7. k[n + 1] = IF e \in set THEN Append(k[n], e) ELSE k[n]
    <2> HIDE DEF n
    <2>1. n + 1 \in 1..Len(t) /\ (n + 1) - 1 = n
      BY <1>1
    <2> DEFINE m == n + 1
    <2>2. k[m] = IF t[m] \in set THEN Append(k[m - 1], t[m]) ELSE k[m - 1]
      BY <2>1, <1>2 DEF Keeps
    <2> QED
      BY <2>1, <2>2, <1>1
  <1> QED
    BY <1>1, <1>2, <1>3, <1>6, <1>7 DEF t

\* What Only returns is a list of what it was given.
LEMMA OnlyIsList ==
    ASSUME NEW M, NEW s \in Seq(M), NEW set
    PROVE  Only(s, set) \in Seq(M)
  <1>1. PICK k \in [0..Len(s) -> Seq(M)] : Only(s, set) = k[Len(s)]
    BY OnlyUnrolled
  <1>2. Len(s) \in 0..Len(s)
    OBVIOUS
  <1> QED
    BY <1>1, <1>2

\* Induction over lists, of a set: what holds of the empty list and, with a list, of the
\* list with one more element.
LEMMA ListInduction ==
    ASSUME NEW M, NEW T, <<>> \in T,
           \A s \in Seq(M) : \A e \in M : s \in T => Append(s, e) \in T
    PROVE  \A s \in Seq(M) : s \in T
  <1> SUFFICES ASSUME NEW s \in Seq(M) PROVE s \in T
    OBVIOUS
  <1> DEFINE n == Len(s)
             First(i) == SubSeq(s, 1, i)
             P == {i \in 0..n : First(i) \in T}
  <1>1. n \in Nat /\ n \in 0..n
    OBVIOUS
  <1>2. 0 \in P
    <2>1. SubSeq(s, 1, 0) = <<>>
      OBVIOUS
    <2>2. 0 \in 0..n
      OBVIOUS
    <2>3. First(0) \in T
      BY <2>1, Zenon
    <2> HIDE DEF n, First
    <2> QED
      BY <2>2, <2>3
  <1>3. ASSUME NEW i \in 0..n, i \in P, i < n PROVE i + 1 \in P
    <2>1. i + 1 \in 1..n /\ s[i + 1] \in M /\ SubSeq(s, 1, i) \in Seq(M)
      BY <1>3
    <2>2. SubSeq(s, 1, i + 1) = Append(SubSeq(s, 1, i), s[i + 1])
      BY <1>3
    <2>3. SubSeq(s, 1, i) \in T
      BY <1>3
    <2>4. Append(SubSeq(s, 1, i), s[i + 1]) \in T
      BY <2>1, <2>3
    <2>5. i + 1 \in 0..n
      BY <1>3
    <2>6. First(i + 1) \in T
      BY <2>2, <2>4, Zenon
    <2> HIDE DEF n, First
    <2> QED
      BY <2>5, <2>6
  <1>4. \A i \in 0..n : i \in P
    <2> HIDE DEF P, n
    <2> QED
      BY <1>1, <1>2, <1>3, UpTo
  <1>5. SubSeq(s, 1, n) = s
    OBVIOUS
  <1> QED
    BY <1>1, <1>4, <1>5

\* No element of the set, nothing is kept.
LEMMA OnlyOfNone ==
    ASSUME NEW M, NEW set, \A e \in M : e \notin set
    PROVE  \A s \in Seq(M) : Only(s, set) = <<>>
  <1> DEFINE T == {s \in Seq(M) : Only(s, set) = <<>>}
  <1>1. <<>> \in T
    <2>1. <<>> \in Seq(M)
      OBVIOUS
    <2> QED
      BY <2>1, OnlyEmpty
  <1>2. ASSUME NEW s \in Seq(M), NEW e \in M, s \in T PROVE Append(s, e) \in T
    <2>1. Append(s, e) \in Seq(M)
      OBVIOUS
    <2>2. Only(Append(s, e), set) = Only(s, set)
      BY OnlyAppend
    <2> QED
      BY <1>2, <2>1, <2>2
  <1>3. \A s \in Seq(M) : s \in T
    <2> HIDE DEF T
    <2> QED
      BY <1>1, <1>2, ListInduction
  <1> QED
    BY <1>3

-----------------------------------------------------------------------------
(* Prefixes                                                                *)

LEMMA PrefixOfItself == ASSUME NEW M, NEW s \in Seq(M) PROVE IsPrefix(s, s)
  BY DEF IsPrefix

LEMMA PrefixOfLonger ==
    ASSUME NEW M, NEW s \in Seq(M), NEW t \in Seq(M), NEW e \in M, IsPrefix(s, t)
    PROVE  IsPrefix(s, Append(t, e))
  <1>1. Len(s) <= Len(t) /\ SubSeq(s, 1, Len(s)) = SubSeq(t, 1, Len(s))
    BY DEF IsPrefix
  <1>2. SubSeq(Append(t, e), 1, Len(s)) = SubSeq(t, 1, Len(s))
    BY <1>1
  <1>3. Len(Append(t, e)) = Len(t) + 1 /\ Len(t) \in Nat /\ Len(s) \in Nat
    OBVIOUS
  <1> QED
    BY <1>1, <1>2, <1>3 DEF IsPrefix

LEMMA OnlyGrows ==
    ASSUME NEW M, NEW s \in Seq(M), NEW set
    PROVE  \A w \in Seq(M) : IsPrefix(Only(s, set), Only(s \o w, set))
  <1> DEFINE T == {w \in Seq(M) : IsPrefix(Only(s, set), Only(s \o w, set))}
  <1>1. <<>> \in T
    <2>1. <<>> \in Seq(M) /\ s \o <<>> = s
      OBVIOUS
    <2>2. IsPrefix(Only(s, set), Only(s, set))
      BY OnlyIsList, PrefixOfItself
    <2> QED
      BY <2>1, <2>2
  <1>2. ASSUME NEW w \in Seq(M), NEW e \in M, w \in T PROVE Append(w, e) \in T
    <2>1. /\ Append(w, e) \in Seq(M) /\ s \o w \in Seq(M)
          /\ s \o Append(w, e) = Append(s \o w, e)
      OBVIOUS
    <2> DEFINE t == s \o w
    <2>2. IsPrefix(Only(s, set), Only(t, set))
      BY <1>2
    <2>3. t \in Seq(M)
      BY <2>1
    <2> HIDE DEF t
    <2>4. Only(s, set) \in Seq(M) /\ Only(t, set) \in Seq(M)
      BY <2>3, OnlyIsList
    <2>5. Only(Append(t, e), set)
            = IF e \in set THEN Append(Only(t, set), e) ELSE Only(t, set)
      BY <2>3, OnlyAppend
    <2>6. IsPrefix(Only(s, set), Only(Append(t, e), set))
      BY <2>2, <2>4, <2>5, PrefixOfLonger
    <2>7. IsPrefix(Only(s, set), Only(s \o Append(w, e), set))
      BY <2>1, <2>6 DEF t
    <2> QED
      BY <2>1, <2>7
  <1>3. \A w \in Seq(M) : w \in T
    <2> HIDE DEF T
    <2> QED
      BY <1>1, <1>2, ListInduction
  <1> QED
    BY <1>3

-----------------------------------------------------------------------------
(* Reading                                                                 *)

Readings(M) == [seen: Nat, views: Seq(M)]
NothingRead == [seen |-> 0, views |-> <<>>]

LEMMA RestIsList ==
    ASSUME NEW M, NEW s \in Seq(M), NEW n \in Nat
    PROVE  SubSeq(s, n + 1, Len(s)) \in Seq(M)
  <1>1. CASE n + 1 > Len(s)
    <2>1. SubSeq(s, n + 1, Len(s)) = <<>>
      BY <1>1, SubSeqEmpty
    <2> QED
      BY <2>1
  <1>2. CASE n + 1 <= Len(s)
    BY <1>2
  <1> QED
    BY <1>1, <1>2

LEMMA SnapshotIsRead ==
    ASSUME NEW M, NEW read \in Readings(M), NEW s \in Seq(M)
    PROVE  ReadSnapshot(read, s) \in Readings(M)
  <1>1. read.seen \in Nat /\ read.views \in Seq(M)
    BY DEF Readings
  <1>2. SubSeq(s, read.seen + 1, Len(s)) \in Seq(M)
    BY <1>1, RestIsList
  <1> DEFINE rest == SubSeq(s, read.seen + 1, Len(s))
  <1>3. rest \in Seq(M)
    BY <1>2
  <1>4. ReadSnapshot(read, s) = [seen |-> Len(s), views |-> read.views \o rest]
    BY DEF ReadSnapshot
  <1> HIDE DEF rest
  <1>5. Len(s) \in Nat /\ read.views \o rest \in Seq(M)
    BY <1>1, <1>3
  <1> QED
    BY <1>4, <1>5 DEF Readings

\* The recursion of Reading, unrolled.
Reads(k, c) ==
    /\ k[0] = NothingRead
    /\ \A i \in 1..Len(c) : k[i] = ReadSnapshot(k[i - 1], c[i])

LEMMA ReadingUnrolled ==
    ASSUME NEW M, NEW c \in Seq(Seq(M))
    PROVE  \E k \in [0..Len(c) -> Readings(M)] : Reads(k, c) /\ Reading(c) = k[Len(c)]
  <1> DEFINE n == Len(c)
             R == Readings(M)
             step == [i \in 1..n |-> [a \in R |-> ReadSnapshot(a, c[i])]]
             Rec(k) == [i \in 0..n |->
                          IF i = 0 THEN NothingRead ELSE ReadSnapshot(k[i - 1], c[i])]
             read == CHOOSE k : k = Rec(k)
  <1>1. n \in Nat /\ n \in 0..n /\ \A i \in 1..n : c[i] \in Seq(M)
    OBVIOUS
  <1>2. Reading(c) = read[n]
    BY DEF Reading, NothingRead
  <1>3. NothingRead \in R
    BY DEF NothingRead, Readings
  <1>4. \A a \in R : \A i \in 1..n : ReadSnapshot(a, c[i]) \in R
    BY <1>1, SnapshotIsRead
  <1> HIDE DEF n, R
  <1>5. step \in Steps(n, R)
    BY <1>4 DEF Steps
  <1>6. PICK f \in [0..n -> R] : Solves(f, n, NothingRead, step)
    <2> HIDE DEF step
    <2> QED
      BY <1>1, <1>3, <1>5, Solvable
  <1>7. f = Rec(f)
    <2>1. ASSUME NEW i \in 0..n PROVE f[i] = Rec(f)[i]
      <3>1. CASE i = 0
        BY <3>1, <1>6 DEF Solves
      <3>2. CASE i # 0
        <4>1. i \in 1..n /\ i - 1 \in 0..n
          BY <3>2, <1>1
        <4>2. f[i] = step[i][f[i - 1]] /\ f[i - 1] \in R
          BY <4>1, <1>6 DEF Solves
        <4>3. step[i][f[i - 1]] = ReadSnapshot(f[i - 1], c[i])
          BY <4>1, <4>2
        <4> QED
          BY <4>2, <4>3, <3>2
      <3> QED
        BY <3>1, <3>2
    <2> HIDE DEF step
    <2>2. Rec(f) = [i \in 0..n |-> Rec(f)[i]]
      OBVIOUS
    <2>3. f = [i \in 0..n |-> f[i]]
      OBVIOUS
    <2> HIDE DEF Rec
    <2> QED
      BY <2>1, <2>2, <2>3
  <1>8. read = Rec(read)
    <2> HIDE DEF Rec
    <2> QED
      BY <1>7
  <1> HIDE DEF read
  <1>9. read[0] = NothingRead /\ read = [i \in 0..n |-> read[i]]
    BY <1>8, <1>1
  <1>10. ASSUME NEW i \in 1..n PROVE read[i] = ReadSnapshot(read[i - 1], c[i])
    <2>1. i \in 0..n /\ i # 0
      BY <1>1
    <2> QED
      BY <2>1, <1>8
  <1>11. \A i \in 0..n : read[i] \in R
    <2> DEFINE T == {i \in 0..n : read[i] \in R}
    <2>1. 0 \in T
      <3>1. 0 \in 0..n
        BY <1>1
      <3> QED
        BY <3>1, <1>3, <1>9
    <2>2. ASSUME NEW i \in 0..n, i \in T, i < n PROVE i + 1 \in T
      <3> DEFINE j == i + 1
      <3>1. j \in 1..n /\ j \in 0..n /\ j - 1 = i /\ read[i] \in R
        BY <2>2, <1>1
      <3> HIDE DEF j
      <3>2. read[j] = ReadSnapshot(read[i], c[j])
        BY <3>1, <1>10
      <3>3. j \in T
        BY <3>1, <3>2, <1>4
      <3> QED
        BY <3>3 DEF j
    <2> HIDE DEF T
    <2>3. \A i \in 0..n : i \in T
      BY <2>1, <2>2, <1>1, UpTo
    <2> QED
      BY <2>3 DEF T
  <1>12. read \in [0..n -> R]
    BY <1>9, <1>11
  <1>13. Reads(read, c)
    BY <1>9, <1>10 DEF Reads, n
  <1> QED
    BY <1>2, <1>12, <1>13 DEF n, R

LEMMA ReadingOfNothing == Reading(<<>>) = NothingRead
  <1>1. <<>> \in Seq(Seq({})) /\ Len(<<>>) = 0
    OBVIOUS
  <1>2. PICK k : Reads(k, <<>>) /\ Reading(<<>>) = k[Len(<<>>)]
    BY <1>1, ReadingUnrolled
  <1> QED
    BY <1>1, <1>2 DEF Reads

LEMMA ReadingIsList ==
    ASSUME NEW M, NEW c \in Seq(Seq(M))
    PROVE  Reading(c) \in Readings(M)
  <1>1. PICK k \in [0..Len(c) -> Readings(M)] : Reading(c) = k[Len(c)]
    BY ReadingUnrolled
  <1>2. Len(c) \in 0..Len(c)
    OBVIOUS
  <1> QED
    BY <1>1, <1>2

\* One more checkpoint is one more snapshot read.
LEMMA ReadingOfOneMore ==
    ASSUME NEW M, NEW c \in Seq(Seq(M)), NEW s \in Seq(M)
    PROVE  Reading(Append(c, s)) = ReadSnapshot(Reading(c), s)
  <1> DEFINE n == Len(c)
             d == Append(c, s)
             R == Readings(M)
             step == [i \in 1..n |-> [a \in R |-> ReadSnapshot(a, c[i])]]
  <1>1. /\ n \in Nat /\ d \in Seq(Seq(M)) /\ Len(d) = n + 1 /\ d[n + 1] = s
        /\ \A i \in 1..n : d[i] = c[i]
    OBVIOUS
  <1>2. PICK j \in [0..n -> R] : Reads(j, c) /\ Reading(c) = j[n]
    BY ReadingUnrolled
  <1>3. PICK k \in [0..Len(d) -> R] : Reads(k, d) /\ Reading(d) = k[Len(d)]
    <2> HIDE DEF d
    <2> QED
      BY <1>1, ReadingUnrolled
  <1> HIDE DEF d, R
  <1>4. ASSUME NEW i \in 1..n
        PROVE  k[i] = step[i][k[i - 1]] /\ j[i] = step[i][j[i - 1]]
    <2>1. i \in 1..Len(d) /\ i - 1 \in 0..n /\ i - 1 \in 0..Len(d)
      BY <1>1
    <2>2. k[i - 1] \in R /\ j[i - 1] \in R
      BY <2>1
    <2>3. k[i] = ReadSnapshot(k[i - 1], c[i])
      BY <2>1, <1>1, <1>3 DEF Reads
    <2>4. j[i] = ReadSnapshot(j[i - 1], c[i])
      BY <1>2 DEF Reads
    <2> QED
      BY <2>2, <2>3, <2>4
  <1> HIDE DEF step
  <1>5. Solves(k, n, NothingRead, step) /\ Solves(j, n, NothingRead, step)
    <2>1. k[0] = NothingRead /\ j[0] = NothingRead
      BY <1>2, <1>3 DEF Reads
    <2> HIDE DEF n
    <2> QED
      BY <2>1, <1>4 DEF Solves
  <1> HIDE DEF n
  <1>6. k[n] = j[n]
    <2>1. n \in Nat
      BY <1>1
    <2>2. \A i \in 0..n : k[i] = j[i]
      BY SMTT(60), <2>1, <1>5, OneSolution
    <2>3. n \in 0..n
      BY <2>1
    <2> QED
      BY <2>2, <2>3
  <1>7. k[n + 1] = ReadSnapshot(k[n], s)
    <2> DEFINE m == n + 1
    <2>1. m \in 1..Len(d) /\ m - 1 = n
      BY <1>1
    <2> HIDE DEF m
    <2>2. k[m] = ReadSnapshot(k[m - 1], d[m])
      BY <2>1, <1>3 DEF Reads
    <2>3. d[m] = s
      BY <1>1 DEF m
    <2>4. k[m] = ReadSnapshot(k[n], s)
      BY <2>1, <2>2, <2>3
    <2> QED
      BY <2>4 DEF m
  <1>8. Reading(d) = k[n + 1]
    BY <1>1, <1>3
  <1> QED
    BY <1>2, <1>6, <1>7, <1>8 DEF d

-----------------------------------------------------------------------------
(* The invariant                                                           *)

MessagesOfOthers(t) == [of: Turns \ {t}, n: 1..MaxSteps, kind: Kinds]

\* A request that was not made yet has changed nothing and said nothing.
Unmade(t) ==
    turn[t].pc = "idle" =>
        /\ turn[t] = Unasked
        /\ checkpoints \in Seq(Seq(MessagesOfOthers(t)))
        /\ \A u \in Turns : turn[u].mem \in Seq(MessagesOfOthers(t))

\* The last words of a turn are the last words in its list.
EndsWithItsWords(t, mem) ==
    LET words == Said(Only(mem, MessagesOf(t)))
        all == Said(Only(mem, Visible))
    IN  words # <<>> => all # <<>> /\ Last(all) = Last(words)

\* Without overlap: one turn runs, on the newest checkpoint, with its input before it.
Alone == \A t, u \in Turns : Running(t) /\ Running(u) => t = u

OnNewest(t) ==
    /\ turn[t].steps = 0 =>
        /\ turn[t].pc = "graph"
        /\ turn[t].mem = Append(Newest, [of |-> t, n |-> 1, kind |-> "human"])
    /\ turn[t].steps # 0 => turn[t].mem = Newest

\* What is read of the checkpoints is all of the newest.
AllIsRead == Reading(checkpoints) = [seen |-> Len(Newest), views |-> Newest]

Remembered(t) == turn[t].answer = "ok" => turn[t].reply \in ToSet(Newest)

RepliesOwnWords(t) ==
    LET words == Said(Only(turn[t].mem, MessagesOf(t)))
    IN  turn[t].answer = "ok" /\ words # <<>> => turn[t].reply = Last(words)

Undisturbed ==
    /\ Alone
    /\ AllIsRead
    /\ \A t \in Turns :
        /\ Running(t) => OnNewest(t)
        /\ Remembered(t)
        /\ RepliesOwnWords(t)

IInv ==
    /\ TypeOK
    /\ \A t \in Turns : Unmade(t) /\ EndsWithItsWords(t, turn[t].mem)
    /\ ~overlapped => Undisturbed

-----------------------------------------------------------------------------
(* Words                                                                   *)

LEMMA MessageSets ==
    ASSUME NEW t \in Turns, NEW m \in Messages
    PROVE  /\ m.of = t => m \in MessagesOf(t)
           /\ m.of # t => m \in MessagesOfOthers(t)
           /\ m \in Says => m \in Visible
           /\ m.kind # "say" => m \notin Says
           /\ m \in MessagesOfOthers(t) => m.of # t
           /\ m.of \in Turns /\ m.n \in 1..MaxSteps /\ m.kind \in Kinds
  <1>1. m.of \in Turns /\ m.n \in 1..MaxSteps /\ m.kind \in Kinds
        /\ m = [of |-> m.of, n |-> m.n, kind |-> m.kind]
    BY DEF Messages
  <1>2. m.of = t => m \in MessagesOf(t)
    BY <1>1 DEF MessagesOf
  <1>3. m.of # t => m \in MessagesOfOthers(t)
    BY <1>1 DEF MessagesOfOthers
  <1>4. m \in Says => m \in Visible
    BY <1>1 DEF Says, Visible
  <1>5. m.kind # "say" => m \notin Says
    BY DEF Says
  <1>6. m \in MessagesOfOthers(t) => m.of # t
    BY DEF MessagesOfOthers
  <1> QED
    BY <1>1, <1>2, <1>3, <1>4, <1>5, <1>6

LEMMA WordsGrow ==
    ASSUME NEW t \in Turns, NEW mem \in Seq(Messages), NEW m \in Messages, m.of = t,
           EndsWithItsWords(t, mem)
    PROVE  EndsWithItsWords(t, Append(mem, m))
  <1> DEFINE own == Only(mem, MessagesOf(t))
             vis == Only(mem, Visible)
             more == Append(mem, m)
  <1>1. own \in Seq(Messages) /\ vis \in Seq(Messages)
    BY OnlyIsList
  <1>2. Said(own) \in Seq(Messages) /\ Said(vis) \in Seq(Messages)
    <2> HIDE DEF own, vis
    <2> QED
      BY <1>1, OnlyIsList DEF Said
  <1>3. Only(more, MessagesOf(t)) = Append(own, m)
    BY MessageSets, OnlyAppend
  <1>4. Only(more, Visible) = IF m \in Visible THEN Append(vis, m) ELSE vis
    BY OnlyAppend
  <1>5. Said(own) # <<>> => Said(vis) # <<>> /\ Last(Said(vis)) = Last(Said(own))
    BY DEF EndsWithItsWords
  <1> HIDE DEF own, vis, more
  <1>6. Said(Append(own, m)) = IF m \in Says THEN Append(Said(own), m) ELSE Said(own)
    BY <1>1, OnlyAppend DEF Said
  <1>7. Said(Append(vis, m)) = IF m \in Says THEN Append(Said(vis), m) ELSE Said(vis)
    BY <1>1, OnlyAppend DEF Said
  <1>8. CASE m \in Says
    <2>1. m \in Visible
      BY <1>8, MessageSets
    <2>2. Said(Only(more, MessagesOf(t))) = Append(Said(own), m)
      BY <1>3, <1>6, <1>8
    <2>3. Said(Only(more, Visible)) = Append(Said(vis), m)
      BY <1>4, <1>7, <1>8, <2>1
    <2>4. Last(Append(Said(own), m)) = m /\ Last(Append(Said(vis), m)) = m
          /\ Append(Said(vis), m) # <<>>
      BY <1>2 DEF Last
    <2> QED
      BY <2>2, <2>3, <2>4 DEF EndsWithItsWords, more
  <1>9. CASE m \notin Says
    <2>1. Said(Only(more, MessagesOf(t))) = Said(own)
      BY <1>3, <1>6, <1>9
    <2>2. Said(Only(more, Visible)) = Said(vis)
      BY <1>4, <1>7, <1>9
    <2> QED
      BY <2>1, <2>2, <1>5 DEF EndsWithItsWords, more
  <1> QED
    BY <1>8, <1>9

LEMMA NoWordsYet ==
    ASSUME NEW t \in Turns, NEW mem \in Seq(MessagesOfOthers(t))
    PROVE  EndsWithItsWords(t, mem)
  <1>1. \A e \in MessagesOfOthers(t) : e \notin MessagesOf(t)
    BY DEF MessagesOfOthers, MessagesOf
  <1>2. Only(mem, MessagesOf(t)) = <<>>
    BY <1>1, OnlyOfNone
  <1>3. Said(<<>>) = <<>>
    BY OnlyEmpty DEF Said
  <1> QED
    BY <1>2, <1>3 DEF EndsWithItsWords

\* The last reply is among the messages it is looked for in.
LEMMA LatestIsThere ==
    ASSUME NEW mem \in Seq(Messages), Said(Only(mem, Visible)) # <<>>
    PROVE  /\ Last(Said(Only(mem, Visible))) \in ToSet(mem)
           /\ Last(Said(Only(mem, Visible))) \in Messages
  <1> DEFINE M == ToSet(mem)
  <1>1. mem \in Seq(M) /\ M \subseteq Messages
    BY DEF ToSet
  <1> HIDE DEF M
  <1>2. Said(Only(mem, Visible)) \in Seq(M)
    BY <1>1, OnlyIsList DEF Said
  <1> DEFINE said == Said(Only(mem, Visible))
  <1>3. said \in Seq(M) /\ said # <<>>
    BY <1>2
  <1> HIDE DEF said
  <1>4. Last(said) \in M
    BY <1>3 DEF Last
  <1> QED
    BY <1>1, <1>4 DEF M, said

-----------------------------------------------------------------------------
(* The steps                                                               *)

LEMMA UnaskedIsTyped ==
    Unasked \in TurnStates /\ Unasked.pc = "idle" /\ Unasked.answer = "none"
      /\ Unasked.reply = NoReply /\ Unasked.mem = <<>> /\ Unasked.steps = 0
  BY MaxStepsAssumption DEF Unasked, TurnStates

LEMMA InitHolds == Init => IInv
  <1> SUFFICES ASSUME Init PROVE IInv
    OBVIOUS
  <1>1. checkpoints = <<>> /\ row = FALSE /\ overlapped = FALSE
        /\ turn \in [Turns -> TurnStates] /\ \A t \in Turns : turn[t] = Unasked
    BY UnaskedIsTyped DEF Init
  <1>2. TypeOK
    <2>1. checkpoints \in Seq(Seq(Messages))
      BY <1>1
    <2>2. row \in BOOLEAN /\ overlapped \in BOOLEAN
      BY <1>1
    <2>3. ASSUME NEW t \in Turns
          PROVE  /\ turn[t].pc = "idle" /\ turn[t].answer = "none"
                 /\ turn[t].reply = NoReply
      BY <1>1, UnaskedIsTyped
    <2> QED
      BY <1>1, <2>1, <2>2, <2>3 DEF TypeOK
  <1>3. ASSUME NEW t \in Turns PROVE Unmade(t) /\ EndsWithItsWords(t, turn[t].mem)
    <2>1. <<>> \in Seq(MessagesOfOthers(t)) /\ <<>> \in Seq(Seq(MessagesOfOthers(t)))
      OBVIOUS
    <2>2. EndsWithItsWords(t, <<>>)
      BY <2>1, NoWordsYet
    <2> QED
      BY <1>1, <2>1, <2>2, UnaskedIsTyped DEF Unmade
  <1>4. Newest = <<>> /\ Len(<<>>) = 0
    BY <1>1 DEF Newest
  <1>5. AllIsRead
    BY <1>1, <1>4, ReadingOfNothing DEF AllIsRead, NothingRead
  <1>6. Undisturbed
    BY <1>1, <1>5, UnaskedIsTyped
       DEF Undisturbed, Alone, Running, Remembered, RepliesOwnWords
  <1> QED
    BY <1>2, <1>3, <1>6 DEF IInv

\* The newest checkpoint is a list of messages.
LEMMA NewestIsList ==
    ASSUME NEW M, checkpoints \in Seq(Seq(M))
    PROVE  Newest \in Seq(M)
  <1>1. CASE checkpoints = <<>>
    BY <1>1 DEF Newest
  <1>2. CASE checkpoints # <<>>
    BY <1>2 DEF Newest, Last
  <1> QED
    BY <1>1, <1>2

LEMMA AskedIsTyped ==
    ASSUME NEW first \in BOOLEAN, NEW mem \in Seq(Messages)
    PROVE  Asked(first, mem) \in TurnStates
  <1>1. 0 \in 0..MaxSteps
    BY MaxStepsAssumption
  <1> QED
    BY <1>1 DEF TurnStates, Asked

\* A turn begins.
LEMMA AskKeeps ==
    ASSUME IInv, NEW t \in Turns, NEW first \in BOOLEAN, turn[t] = Unasked, Ask(t, first)
    PROVE  IInv'
  <1> DEFINE m == [of |-> t, n |-> 1, kind |-> "human"]
             r == Asked(first, Append(Newest, m))
  <1>1. TypeOK /\ turn \in [Turns -> TurnStates] /\ checkpoints \in Seq(Seq(Messages))
    BY DEF IInv, TypeOK
  <1>2. Message(t, "human") = m
    <2>1. Only(turn[t].mem, MessagesOf(t)) = <<>>
      BY UnaskedIsTyped, OnlyEmpty
    <2>2. Own(t) = 0
      BY <2>1 DEF Own
    <2> QED
      BY <2>2 DEF Message
  <1>3. m \in Messages
    BY MaxStepsAssumption DEF Messages, Kinds
  <1>4. Newest \in Seq(Messages)
    BY <1>1, NewestIsList
  <1>5. turn' = [turn EXCEPT ![t] = r] /\ UNCHANGED <<checkpoints, row>>
        /\ overlapped' = (overlapped \/ \E u \in Turns : Running(u))
    BY <1>2 DEF Ask, Input
  <1>6. r.pc = "graph" /\ r.first = first /\ r.mem = Append(Newest, m) /\ r.steps = 0
        /\ r.noHandbook = FALSE /\ r.answer = "none" /\ r.reply = NoReply
    BY DEF Asked
  <1>7. r \in TurnStates
    <2>1. Append(Newest, m) \in Seq(Messages)
      BY <1>3, <1>4
    <2> QED
      BY <2>1, AskedIsTyped
  <1> HIDE DEF r
  <1>8. turn'[t] = r /\ (\A u \in Turns : u # t => turn'[u] = turn[u])
        /\ turn' \in [Turns -> TurnStates]
    BY <1>1, <1>5, <1>7
  <1>9. TypeOK'
    <2>1. overlapped' \in BOOLEAN /\ row' \in BOOLEAN /\ checkpoints' \in Seq(Seq(Messages))
      BY <1>1, <1>5 DEF TypeOK
    <2>2. ASSUME NEW u \in Turns
          PROVE  /\ turn'[u].pc # "done" <=> turn'[u].answer = "none"
                 /\ IF turn'[u].answer = "ok" THEN turn'[u].reply \in Messages
                                              ELSE turn'[u].reply = NoReply
      <3>1. CASE u = t
        BY <3>1, <1>6, <1>8
      <3>2. CASE u # t
        BY <3>2, <1>1, <1>8 DEF TypeOK
      <3> QED
        BY <3>1, <3>2
    <2> QED
      BY <2>1, <2>2, <1>8 DEF TypeOK
  <1>10. ASSUME NEW u \in Turns PROVE (Unmade(u) /\ EndsWithItsWords(u, turn[u].mem))'
    <2>1. Unmade(u) /\ EndsWithItsWords(u, turn[u].mem) /\ Unmade(t)
      BY DEF IInv
    <2>2. CASE u = t
      <3>1. checkpoints \in Seq(Seq(MessagesOfOthers(t)))
        BY <2>1, UnaskedIsTyped DEF Unmade
      <3>2. Newest \in Seq(MessagesOfOthers(t))
        BY <3>1, NewestIsList
      <3>3. EndsWithItsWords(t, Newest)
        BY <3>2, NoWordsYet
      <3>4. EndsWithItsWords(t, Append(Newest, m))
        BY <3>3, <1>3, <1>4, WordsGrow
      <3>5. EndsWithItsWords(t, r.mem) /\ r.pc # "idle"
        BY <3>4, <1>6
      <3> QED
        BY <2>2, <3>5, <1>8 DEF Unmade, EndsWithItsWords
    <2>3. CASE u # t
      <3>1. turn'[u] = turn[u]
        BY <2>3, <1>8
      <3>2. Unmade(u)'
        <4> SUFFICES ASSUME turn[u].pc = "idle" PROVE Unmade(u)'
          BY <3>1 DEF Unmade
        <4>1. /\ turn[u] = Unasked
              /\ checkpoints \in Seq(Seq(MessagesOfOthers(u)))
              /\ \A w \in Turns : turn[w].mem \in Seq(MessagesOfOthers(u))
          BY <2>1 DEF Unmade
        <4>2. Newest \in Seq(MessagesOfOthers(u)) /\ m \in MessagesOfOthers(u)
          BY <4>1, <1>3, <2>3, NewestIsList, MessageSets
        <4>3. r.mem \in Seq(MessagesOfOthers(u))
          BY <4>2, <1>6
        <4>4. \A w \in Turns : turn'[w].mem \in Seq(MessagesOfOthers(u))
          BY <4>1, <4>3, <1>8
        <4> QED
          BY <4>1, <4>4, <3>1, <1>5 DEF Unmade
      <3> QED
        BY <2>1, <3>1, <3>2 DEF EndsWithItsWords
    <2> QED
      BY <2>2, <2>3
  <1>11. ~overlapped' => Undisturbed'
    <2> SUFFICES ASSUME ~overlapped' PROVE Undisturbed'
      OBVIOUS
    <2>1. ~overlapped /\ \A u \in Turns : ~Running(u)
      BY <1>5
    <2>2. Undisturbed
      BY <2>1 DEF IInv
    <2>3. Newest' = Newest /\ AllIsRead'
      BY <2>2, <1>5 DEF Undisturbed, AllIsRead, Newest
    <2>4. \A u \in Turns : Running(u)' => u = t
      BY <2>1, <1>8 DEF Running
    <2>5. Alone'
      BY <2>4 DEF Alone
    <2>6. ASSUME NEW u \in Turns
          PROVE  (Running(u) => OnNewest(u))' /\ Remembered(u)' /\ RepliesOwnWords(u)'
      <3>1. CASE u = t
        <4>1. OnNewest(t)'
          BY <1>6, <1>8, <2>3 DEF OnNewest
        <4> QED
          BY <3>1, <4>1, <1>6, <1>8 DEF Remembered, RepliesOwnWords
      <3>2. CASE u # t
        <4>1. Remembered(u) /\ RepliesOwnWords(u)
          BY <2>2 DEF Undisturbed
        <4> QED
          BY <3>2, <4>1, <2>3, <2>4, <1>8 DEF Remembered, RepliesOwnWords
      <3> QED
        BY <3>1, <3>2
    <2> QED
      BY <2>3, <2>5, <2>6 DEF Undisturbed
  <1> QED
    BY <1>9, <1>10, <1>11 DEF IInv

LEMMA LongerList ==
    ASSUME NEW M, NEW s \in Seq(M), NEW e \in M
    PROVE  /\ Append(s, e) \in Seq(M) /\ Append(s, e) # <<>>
           /\ Last(Append(s, e)) = e
           /\ ToSet(s) \subseteq ToSet(Append(s, e))
  <1>1. Append(s, e) \in Seq(M) /\ Len(Append(s, e)) = Len(s) + 1 /\ Len(s) \in Nat
        /\ Append(s, e)[Len(s) + 1] = e
    OBVIOUS
  <1>2. \A i \in DOMAIN s : i \in DOMAIN Append(s, e) /\ s[i] = Append(s, e)[i]
    OBVIOUS
  <1>3. ToSet(s) \subseteq ToSet(Append(s, e))
    BY <1>2 DEF ToSet
  <1>4. Append(s, e) # <<>>
    BY AppendProperties
  <1> QED
    BY <1>1, <1>3, <1>4 DEF Last

\* A turn's list is the newest checkpoint, perhaps with one more message: reading it goes on
\* where the last one ended.
LEMMA ReadsNothingNew ==
    ASSUME NEW M, NEW s \in Seq(M)
    PROVE  s \o SubSeq(s, Len(s) + 1, Len(s)) = s
  <1>1. SubSeq(s, Len(s) + 1, Len(s)) = <<>>
    OBVIOUS
  <1>2. s \o <<>> = s
    OBVIOUS
  <1> QED
    BY <1>1, <1>2

LEMMA ReadsOneMore ==
    ASSUME NEW M, NEW s \in Seq(M), NEW e \in M
    PROVE  s \o SubSeq(Append(s, e), Len(s) + 1, Len(Append(s, e))) = Append(s, e)
  <1> DEFINE t == Append(s, e)
             n == Len(t)
             rest == SubSeq(t, n, n)
  <1>1. t \in Seq(M) /\ n = Len(s) + 1 /\ n \in Nat /\ t[n] = e /\ n \in 1..n
    OBVIOUS
  <1>2. rest = <<t[n]>>
    <2> HIDE DEF t
    <2>1. rest \in Seq(M) /\ Len(rest) = 1 /\ rest[1] = t[n]
      BY <1>1, SubSeqProperties
    <2> HIDE DEF rest
    <2> QED
      BY <2>1
  <1>3. s \o <<e>> = t
    OBVIOUS
  <1>4. s \o SubSeq(t, Len(s) + 1, n) = s \o rest
    <2> HIDE DEF t, n
    <2> QED
      BY <1>1 DEF rest
  <1> HIDE DEF t, n, rest
  <1>5. s \o SubSeq(t, Len(s) + 1, n) = t
    BY <1>1, <1>2, <1>3, <1>4
  <1> QED
    BY <1>5 DEF t, n

Stepped(r, mem, n) == [r EXCEPT !.mem = mem, !.steps = n]

LEMMA SteppedIsTyped ==
    ASSUME NEW r \in TurnStates, NEW mem \in Seq(Messages), NEW n \in 0..MaxSteps
    PROVE  LET s == Stepped(r, mem, n)
           IN  /\ s \in TurnStates /\ s.mem = mem /\ s.steps = n
               /\ s.pc = r.pc /\ s.first = r.first
               /\ s.answer = r.answer /\ s.reply = r.reply
  BY DEF TurnStates, Stepped

\* A superstep.
LEMMA SuperstepKeeps ==
    ASSUME IInv, NEW t \in Turns, NEW mem, Superstep(t, mem),
           \/ mem = turn[t].mem
           \/ /\ ~overlapped => turn[t].steps # 0
              /\ \E m \in Messages : m.of = t /\ mem = Append(turn[t].mem, m)
    PROVE  IInv'
  <1>1. TypeOK /\ turn \in [Turns -> TurnStates] /\ checkpoints \in Seq(Seq(Messages))
    BY DEF IInv, TypeOK
  <1>2. /\ turn[t] \in TurnStates /\ turn[t].mem \in Seq(Messages)
        /\ turn[t].steps \in 0..MaxSteps
    BY <1>1 DEF TurnStates
  <1>3. /\ turn[t].pc = "graph" /\ turn[t].steps < MaxSteps
        /\ checkpoints' = Append(checkpoints, mem)
        /\ turn' = [turn EXCEPT ![t].mem = mem, ![t].steps = @ + 1]
        /\ UNCHANGED <<row, overlapped>>
    BY DEF Superstep
  <1> DEFINE n == turn[t].steps + 1
             r == Stepped(turn[t], mem, n)
  <1>4. mem \in Seq(Messages)
    BY SMTT(60), <1>2, LongerList
  <1>5. n \in 0..MaxSteps /\ n # 0
    BY <1>2, <1>3, MaxStepsAssumption
  <1>6. /\ r.pc = turn[t].pc /\ r.first = turn[t].first /\ r.answer = turn[t].answer
        /\ r.reply = turn[t].reply /\ r.mem = mem /\ r.steps = n
        /\ r \in TurnStates
    <2> HIDE DEF n
    <2> QED
      BY <1>2, <1>4, <1>5, SteppedIsTyped
  <1>7. turn' = [turn EXCEPT ![t] = r]
    BY <1>1, <1>3 DEF Stepped
  <1> HIDE DEF r, n
  <1>9. turn'[t] = r /\ (\A u \in Turns : u # t => turn'[u] = turn[u])
        /\ turn' \in [Turns -> TurnStates]
    BY <1>1, <1>6, <1>7
  <1>10. TypeOK'
    <2>1. overlapped' \in BOOLEAN /\ row' \in BOOLEAN /\ checkpoints' \in Seq(Seq(Messages))
      BY <1>1, <1>3, <1>4 DEF TypeOK
    <2>2. ASSUME NEW u \in Turns
          PROVE  /\ turn'[u].pc # "done" <=> turn'[u].answer = "none"
                 /\ IF turn'[u].answer = "ok" THEN turn'[u].reply \in Messages
                                              ELSE turn'[u].reply = NoReply
      <3>1. CASE u = t
        BY <3>1, <1>1, <1>6, <1>9 DEF TypeOK
      <3>2. CASE u # t
        BY <3>2, <1>1, <1>9 DEF TypeOK
      <3> QED
        BY <3>1, <3>2
    <2> QED
      BY <2>1, <2>2, <1>9 DEF TypeOK
  <1>11. ASSUME NEW u \in Turns PROVE (Unmade(u) /\ EndsWithItsWords(u, turn[u].mem))'
    <2>1. Unmade(u) /\ EndsWithItsWords(u, turn[u].mem)
      BY DEF IInv
    <2>2. CASE u = t
      <3>1. EndsWithItsWords(t, mem)
        BY <2>1, <2>2, <1>2, WordsGrow
      <3> QED
        BY <2>2, <3>1, <1>3, <1>6, <1>9 DEF Unmade, EndsWithItsWords
    <2>3. CASE u # t
      <3>1. turn'[u] = turn[u]
        BY <2>3, <1>9
      <3>2. Unmade(u)'
        <4> SUFFICES ASSUME turn[u].pc = "idle" PROVE Unmade(u)'
          BY <3>1 DEF Unmade
        <4>1. /\ turn[u] = Unasked
              /\ checkpoints \in Seq(Seq(MessagesOfOthers(u)))
              /\ \A w \in Turns : turn[w].mem \in Seq(MessagesOfOthers(u))
          BY <2>1 DEF Unmade
        <4>2. \A m \in Messages : m.of = t => m \in MessagesOfOthers(u)
          BY <2>3, MessageSets
        <4>3. mem \in Seq(MessagesOfOthers(u))
          <5> DEFINE own == turn[t].mem
                     M == MessagesOfOthers(u)
          <5>1. own \in Seq(M)
            BY <4>1
          <5>2. mem = own \/ \E m \in M : mem = Append(own, m)
            BY <4>2
          <5> HIDE DEF own, M
          <5> QED
            BY <5>1, <5>2, LongerList DEF M
        <4>4. \A w \in Turns : turn'[w].mem \in Seq(MessagesOfOthers(u))
          BY <4>1, <4>3, <1>6, <1>9
        <4>5. checkpoints' \in Seq(Seq(MessagesOfOthers(u)))
          BY <4>1, <4>3, <1>3
        <4> QED
          BY <4>1, <4>4, <4>5, <3>1 DEF Unmade
      <3> QED
        BY <2>1, <3>1, <3>2 DEF EndsWithItsWords
    <2> QED
      BY <2>2, <2>3
  <1>12. ~overlapped' => Undisturbed'
    <2> SUFFICES ASSUME ~overlapped' PROVE Undisturbed'
      OBVIOUS
    <2>1. Undisturbed
      BY <1>3 DEF IInv
    <2>2. Running(t) /\ OnNewest(t)
      BY <2>1, <1>3 DEF Undisturbed, Running
    <2>3. Newest' = mem
      <3>1. Append(checkpoints, mem) # <<>> /\ Last(Append(checkpoints, mem)) = mem
        BY <1>1, <1>4, LongerList
      <3> QED
        BY <3>1, <1>3 DEF Newest
    <2> ~overlapped
      BY <1>3
    <2>4. mem = Newest \/ \E m \in Messages : mem = Append(Newest, m)
      <3>1. CASE turn[t].steps = 0
        <4>1. [of |-> t, n |-> 1, kind |-> "human"] \in Messages
          BY MaxStepsAssumption DEF Messages, Kinds
        <4> QED
          BY <3>1, <4>1, <2>2 DEF OnNewest
      <3>2. CASE turn[t].steps # 0
        BY <3>2, <2>2 DEF OnNewest
      <3> QED
        BY <3>1, <3>2
    <2>5. Newest \in Seq(Messages)
      BY <1>1, NewestIsList
    <2>6. Newest \o SubSeq(mem, Len(Newest) + 1, Len(mem)) = mem
          /\ ToSet(Newest) \subseteq ToSet(mem)
      <3>1. CASE mem = Newest
        BY <3>1, <2>5, ReadsNothingNew
      <3>2. ASSUME NEW e \in Messages, mem = Append(Newest, e)
            PROVE  Newest \o SubSeq(mem, Len(Newest) + 1, Len(mem)) = mem
                   /\ ToSet(Newest) \subseteq ToSet(mem)
        <4> DEFINE s == Newest
        <4>1. s \in Seq(Messages)
          BY <2>5
        <4> HIDE DEF s
        <4>2. s \o SubSeq(Append(s, e), Len(s) + 1, Len(Append(s, e))) = Append(s, e)
              /\ ToSet(s) \subseteq ToSet(Append(s, e))
          BY <4>1, ReadsOneMore, LongerList
        <4> QED
          BY <3>2, <4>2 DEF s
      <3> QED
        BY <3>1, <3>2, <2>4
    <2>7. AllIsRead'
      <3>1. Reading(checkpoints') = ReadSnapshot(Reading(checkpoints), mem)
        BY <1>1, <1>3, <1>4, ReadingOfOneMore
      <3>2. Reading(checkpoints) = [seen |-> Len(Newest), views |-> Newest]
        BY <2>1 DEF Undisturbed, AllIsRead
      <3>3. ReadSnapshot([seen |-> Len(Newest), views |-> Newest], mem)
                = [seen |-> Len(mem), views |-> mem]
        BY <2>6 DEF ReadSnapshot
      <3> QED
        BY <3>1, <3>2, <3>3, <2>3 DEF AllIsRead
    <2>8. \A u \in Turns : Running(u)' => u = t
      BY <2>1, <2>2, <1>9 DEF Undisturbed, Alone, Running
    <2>9. Alone'
      BY <2>8 DEF Alone
    <2>10. ASSUME NEW u \in Turns
           PROVE  (Running(u) => OnNewest(u))' /\ Remembered(u)' /\ RepliesOwnWords(u)'
      <3>1. CASE u = t
        <4>1. OnNewest(t)'
          BY <1>5, <1>6, <1>9, <2>3 DEF OnNewest
        <4>2. turn'[t].answer = "none"
          BY <1>1, <1>3, <1>6, <1>9 DEF TypeOK
        <4> QED
          BY <3>1, <4>1, <4>2 DEF Remembered, RepliesOwnWords
      <3>2. CASE u # t
        <4>1. Remembered(u) /\ RepliesOwnWords(u)
          BY <2>1 DEF Undisturbed
        <4> QED
          BY <3>2, <4>1, <2>3, <2>6, <2>8, <1>9 DEF Remembered, RepliesOwnWords
      <3> QED
        BY <3>1, <3>2
    <2> QED
      BY <2>7, <2>9, <2>10 DEF Undisturbed
  <1> QED
    BY <1>10, <1>11, <1>12 DEF IInv

\* A step that leaves messages and checkpoints alone.
LEMMA QuietStepKeeps ==
    ASSUME IInv, NEW t \in Turns, NEW r \in TurnStates,
           turn' = [turn EXCEPT ![t] = r], row' \in BOOLEAN,
           UNCHANGED <<checkpoints, overlapped>>,
           r.mem = turn[t].mem, r.steps = turn[t].steps, r.pc # "idle",
           r.pc # "done" <=> r.answer = "none",
           IF r.answer = "ok" THEN r.reply \in Messages ELSE r.reply = NoReply,
           r.pc # "done" => Running(t) /\ (~overlapped => turn[t].steps # 0),
           r.answer = "ok" /\ ~overlapped =>
                LET words == Said(Only(turn[t].mem, MessagesOf(t)))
                IN  r.reply \in ToSet(Newest) /\ (words # <<>> => r.reply = Last(words))
    PROVE  IInv'
  <1>1. TypeOK /\ turn \in [Turns -> TurnStates]
    BY DEF IInv, TypeOK
  <1>2. turn'[t] = r /\ (\A u \in Turns : u # t => turn'[u] = turn[u])
        /\ turn' \in [Turns -> TurnStates] /\ \A u \in Turns : turn'[u].mem = turn[u].mem
    BY <1>1
  <1>3. TypeOK'
    BY <1>1, <1>2 DEF TypeOK
  <1>4. ASSUME NEW u \in Turns PROVE (Unmade(u) /\ EndsWithItsWords(u, turn[u].mem))'
    <2>1. Unmade(u) /\ EndsWithItsWords(u, turn[u].mem)
      BY DEF IInv
    <2>2. Unmade(u)'
      <3>1. CASE u = t
        BY <3>1, <1>2 DEF Unmade
      <3>2. CASE u # t
        BY <3>2, <2>1, <1>2 DEF Unmade
      <3> QED
        BY <3>1, <3>2
    <2> QED
      BY <2>1, <2>2, <1>2 DEF EndsWithItsWords
  <1>5. ~overlapped' => Undisturbed'
    <2> SUFFICES ASSUME ~overlapped' PROVE Undisturbed'
      OBVIOUS
    <2>1. Undisturbed /\ ~overlapped
      BY DEF IInv
    <2>2. Newest' = Newest /\ AllIsRead'
      BY <2>1 DEF Undisturbed, AllIsRead, Newest
    <2>3. \A u \in Turns : Running(u)' => Running(u)
      BY <1>2 DEF Running
    <2>4. Alone'
      BY <2>1, <2>3 DEF Undisturbed, Alone
    <2>5. ASSUME NEW u \in Turns
          PROVE  (Running(u) => OnNewest(u))' /\ Remembered(u)' /\ RepliesOwnWords(u)'
      <3>1. (Running(u) => OnNewest(u)) /\ Remembered(u) /\ RepliesOwnWords(u)
        BY <2>1 DEF Undisturbed
      <3>2. CASE u = t
        <4>1. (Running(u) => OnNewest(u))'
          BY <3>1, <3>2, <2>1, <2>2, <1>2 DEF OnNewest, Running
        <4>2. Remembered(u)' /\ RepliesOwnWords(u)'
          BY <3>2, <2>1, <2>2, <1>2 DEF Remembered, RepliesOwnWords
        <4> QED
          BY <4>1, <4>2
      <3>3. CASE u # t
        BY <3>1, <3>3, <2>2, <2>3, <1>2 DEF OnNewest, Remembered, RepliesOwnWords, Running
      <3> QED
        BY <3>2, <3>3
    <2> QED
      BY <2>2, <2>4, <2>5 DEF Undisturbed
  <1> QED
    BY <1>3, <1>4, <1>5 DEF IInv

\* Until the input is checkpointed nothing follows it.
LEMMA InputComesFirst ==
    ASSUME IInv, ~overlapped, NEW t \in Turns, Running(t), turn[t].steps = 0
    PROVE  Last(turn[t].mem).kind = "human"
  <1>1. OnNewest(t)
    BY DEF IInv, Undisturbed
  <1> DEFINE m == [of |-> t, n |-> 1, kind |-> "human"]
  <1>2. m \in Messages /\ Newest \in Seq(Messages)
    BY MaxStepsAssumption, NewestIsList DEF IInv, TypeOK, Messages, Kinds
  <1>3. turn[t].mem = Append(Newest, m)
    BY <1>1 DEF OnNewest
  <1>4. Last(turn[t].mem) = m
    <2> HIDE DEF m
    <2> QED
      BY <1>2, <1>3, LongerList
  <1> QED
    BY <1>4

LEMMA EndKeeps == ASSUME IInv, NEW t \in Turns, End(t) PROVE IInv'
  <1> DEFINE pc == IF turn[t].first THEN "save" ELSE "reply"
             late == Last(turn[t].mem).kind = "result"
             r == [turn[t] EXCEPT !.pc = pc, !.noHandbook = late]
  <1>1. turn \in [Turns -> TurnStates] /\ TypeOK
    BY DEF IInv, TypeOK
  <1>2. turn' = [turn EXCEPT ![t] = r] /\ UNCHANGED <<checkpoints, row, overlapped>>
        /\ turn[t].pc = "graph" /\ Last(turn[t].mem).kind # "human"
    BY <1>1 DEF End
  <1>3. turn[t] \in TurnStates /\ turn[t].answer = "none" /\ turn[t].reply = NoReply
    BY <1>1, <1>2 DEF TypeOK
  <1>4. /\ r \in TurnStates /\ r.mem = turn[t].mem /\ r.steps = turn[t].steps
        /\ r.pc \in {"save", "reply"} /\ r.answer = "none" /\ r.reply = NoReply
    <2>1. late \in BOOLEAN /\ pc \in {"save", "reply"}
      OBVIOUS
    <2> HIDE DEF late, pc
    <2> QED
      BY <1>3, <2>1 DEF TurnStates
  <1>5. ~overlapped => turn[t].steps # 0
    BY <1>2, InputComesFirst DEF Running
  <1> HIDE DEF r
  <1>6. Running(t) /\ row' \in BOOLEAN
    BY <1>1, <1>2 DEF Running, TypeOK
  <1> QED
    BY <1>2, <1>4, <1>5, <1>6, QuietStepKeeps

LEMMA SaveSessionKeeps == ASSUME IInv, NEW t \in Turns, SaveSession(t) PROVE IInv'
  <1> DEFINE r == [turn[t] EXCEPT !.pc = "reply"]
  <1>1. turn \in [Turns -> TurnStates] /\ TypeOK
    BY DEF IInv, TypeOK
  <1>2. turn' = [turn EXCEPT ![t] = r] /\ UNCHANGED <<checkpoints, overlapped>>
        /\ turn[t].pc = "save" /\ row' = TRUE
    BY <1>1 DEF SaveSession
  <1>3. turn[t] \in TurnStates /\ turn[t].answer = "none" /\ turn[t].reply = NoReply
    BY <1>1, <1>2 DEF TypeOK
  <1>4. /\ r \in TurnStates /\ r.mem = turn[t].mem /\ r.steps = turn[t].steps
        /\ r.pc = "reply" /\ r.answer = "none" /\ r.reply = NoReply
    BY <1>3 DEF TurnStates
  <1>5. Running(t)
    BY <1>2 DEF Running
  <1>6. ~overlapped => turn[t].steps # 0
    BY <1>2, <1>5 DEF IInv, Undisturbed, OnNewest
  <1>7. row' \in BOOLEAN
    BY <1>2
  <1> HIDE DEF r
  <1> QED
    BY <1>2, <1>4, <1>5, <1>6, <1>7, QuietStepKeeps

Finished(r, answer, reply) == [r EXCEPT !.pc = "done", !.answer = answer, !.reply = reply]

LEMMA FinishedIsTyped ==
    ASSUME NEW r \in TurnStates, NEW answer \in {"ok"} \cup Errors,
           NEW reply \in Messages \cup {NoReply}
    PROVE  LET s == Finished(r, answer, reply)
           IN  /\ s \in TurnStates /\ s.pc = "done" /\ s.answer = answer /\ s.reply = reply
               /\ s.mem = r.mem /\ s.steps = r.steps
  BY DEF TurnStates, Finished, Errors

\* A turn without an answer ends.
LEMMA FailureKeeps ==
    ASSUME IInv, NEW t \in Turns, NEW answer \in Errors, Finish(t, answer, NoReply),
           UNCHANGED <<checkpoints, row, overlapped>>
    PROVE  IInv'
  <1> DEFINE r == Finished(turn[t], answer, NoReply)
  <1>1. turn \in [Turns -> TurnStates] /\ TypeOK
    BY DEF IInv, TypeOK
  <1>2. turn' = [turn EXCEPT ![t] = r]
    BY <1>1 DEF Finish, Finished
  <1>3. turn[t] \in TurnStates
    BY <1>1
  <1>4. /\ r \in TurnStates /\ r.pc = "done" /\ r.answer = answer /\ r.reply = NoReply
        /\ r.mem = turn[t].mem /\ r.steps = turn[t].steps
    BY <1>3, FinishedIsTyped
  <1>5. answer # "none" /\ answer # "ok" /\ row' \in BOOLEAN
    BY <1>1 DEF Errors, TypeOK
  <1> HIDE DEF r
  <1> QED
    BY <1>2, <1>4, <1>5, QuietStepKeeps

\* A turn is answered.
LEMMA ReplyKeeps == ASSUME IInv, NEW t \in Turns, Reply(t) PROVE IInv'
  <1> DEFINE reply == LatestReply(checkpoints)
             answer == Answer(reply)
             views == Reading(checkpoints).views
             said == Said(Only(views, Visible))
             r == Finished(turn[t], answer, reply)
  <1>1. turn \in [Turns -> TurnStates] /\ TypeOK /\ checkpoints \in Seq(Seq(Messages))
    BY DEF IInv, TypeOK
  <1>2. turn' = [turn EXCEPT ![t] = r] /\ UNCHANGED <<checkpoints, row, overlapped>>
        /\ turn[t].pc = "reply"
    BY <1>1 DEF Reply, Finish, Finished
  <1>3. views \in Seq(Messages)
    BY <1>1, ReadingIsList DEF Readings
  <1>4. reply = IF said = <<>> THEN NoReply ELSE Last(said)
    BY DEF LatestReply, BuildHistory
  <1> HIDE DEF reply, views
  <1>5. said # <<>> => reply \in ToSet(views) /\ reply \in Messages
    BY <1>3, <1>4, LatestIsThere
  <1>6. answer \in {"ok"} \cup Errors /\ reply \in Messages \cup {NoReply}
        /\ (answer = "ok" => said # <<>>) /\ (answer # "ok" => reply = NoReply)
        /\ answer # "none"
    BY <1>4, <1>5 DEF Answer, Errors
  <1> HIDE DEF answer
  <1>7. /\ r \in TurnStates /\ r.pc = "done" /\ r.answer = answer /\ r.reply = reply
        /\ r.mem = turn[t].mem /\ r.steps = turn[t].steps
    BY <1>1, <1>6, FinishedIsTyped
  <1>8. ASSUME answer = "ok", ~overlapped
        PROVE  LET words == Said(Only(turn[t].mem, MessagesOf(t)))
               IN  reply \in ToSet(Newest) /\ (words # <<>> => reply = Last(words))
    <2>1. Undisturbed
      BY <1>8 DEF IInv
    <2>2. OnNewest(t) /\ turn[t].mem = Newest
      BY <2>1, <1>2 DEF Undisturbed, Running, OnNewest
    <2>3. views = Newest
      BY <2>1 DEF Undisturbed, AllIsRead, views
    <2>4. EndsWithItsWords(t, turn[t].mem)
      BY DEF IInv
    <2>5. reply = Last(said) /\ reply \in ToSet(Newest)
      BY <1>4, <1>5, <1>6, <1>8, <2>3
    <2> QED
      BY <2>2, <2>3, <2>4, <2>5 DEF EndsWithItsWords
  <1>9. row' \in BOOLEAN
    BY <1>1, <1>2 DEF TypeOK
  <1> HIDE DEF r, said
  <1> QED
    BY <1>2, <1>5, <1>6, <1>7, <1>8, <1>9, QuietStepKeeps

LEMMA StepKeeps == IInv /\ [Next]_vars => IInv'
  <1> SUFFICES ASSUME IInv, [Next]_vars PROVE IInv'
    OBVIOUS
  <1>1. CASE UNCHANGED vars
    BY <1>1 DEF vars, IInv, TypeOK, Unmade, Undisturbed, Alone, AllIsRead, Running,
       OnNewest, Newest, Remembered, RepliesOwnWords, EndsWithItsWords
  <1>2. ASSUME NEW t \in Turns, Start(t) PROVE IInv'
    BY <1>2, AskKeeps DEF Start
  <1>3. ASSUME NEW t \in Turns, Continue(t) PROVE IInv'
    BY <1>3, AskKeeps DEF Continue
  <1>4. ASSUME NEW t \in Turns, ContinueOnUnknownModel(t) PROVE IInv'
    BY <1>4, FailureKeeps DEF ContinueOnUnknownModel, Errors
  <1>5. ASSUME NEW t \in Turns, Silent(t) PROVE IInv'
    BY <1>5, SuperstepKeeps DEF Silent
  <1>6. ASSUME NEW t \in Turns, NEW kind \in Kinds, Own(t) < MaxSteps
        PROVE  Message(t, kind) \in Messages /\ Message(t, kind).of = t
    <2>1. turn[t] \in TurnStates
      BY DEF IInv, TypeOK
    <2>2. turn[t].mem \in Seq(Messages)
      BY <2>1 DEF TurnStates
    <2>3. Own(t) \in Nat
      <3> DEFINE own == Only(turn[t].mem, MessagesOf(t))
      <3>1. own \in Seq(Messages)
        BY <2>2, OnlyIsList
      <3> HIDE DEF own
      <3>2. Len(own) \in Nat
        BY <3>1
      <3> QED
        BY <3>2 DEF Own, own
    <2>4. Own(t) + 1 \in 1..MaxSteps
      BY <1>6, <2>3, MaxStepsAssumption
    <2> QED
      BY <2>4 DEF Message, Messages
  <1>7. ASSUME NEW t \in Turns, Speak(t) PROVE IInv'
    <2>1. PICK kind \in {"say", "call"} :
            Superstep(t, Append(turn[t].mem, Message(t, kind)))
      BY <1>7 DEF Speak
    <2>2. turn[t].steps # 0 /\ Own(t) < MaxSteps
      <3>1. turn[t].steps > 0 /\ Own(t) < MaxSteps
        BY <1>7 DEF Speak
      <3> QED
        BY <3>1
    <2>3. Message(t, kind) \in Messages /\ Message(t, kind).of = t
      BY <1>6, <2>2 DEF Kinds
    <2> QED
      BY <2>1, <2>2, <2>3, SuperstepKeeps
  <1>8. ASSUME NEW t \in Turns, RunTools(t) PROVE IInv'
    <2>1. Superstep(t, Append(turn[t].mem, Message(t, "result"))) /\ Own(t) < MaxSteps
          /\ Running(t) /\ Last(turn[t].mem).kind = "call"
      BY <1>8 DEF RunTools, Calling
    <2>2. Message(t, "result") \in Messages /\ Message(t, "result").of = t
      BY <1>6, <2>1 DEF Kinds
    <2>3. ASSUME ~overlapped PROVE turn[t].steps # 0
      BY <2>1, <2>3, InputComesFirst
    <2> QED
      BY <2>1, <2>2, <2>3, SuperstepKeeps
  <1>9. ASSUME NEW t \in Turns, Fail(t) PROVE IInv'
    BY <1>9, FailureKeeps DEF Fail, Errors
  <1> QED
    BY <1>1, <1>2, <1>3, <1>4, <1>5, <1>7, <1>8, <1>9, EndKeeps, SaveSessionKeeps,
       ReplyKeeps DEF Next

LEMMA InvariantHolds == Spec => []IInv
  <1> QED
    BY InitHolds, StepKeeps, PTL DEF Spec

\* Every variable has its type: every request of a session gets an answer or an error,
\* never both (agent_chat_service.py:113).
THEOREM TypesHold == Spec => []TypeOK
  <1>1. IInv => TypeOK
    BY DEF IInv
  <1> QED
    BY <1>1, InvariantHolds, PTL

\* The history rebuilt from the checkpoints (history.py:82) is the conversation in the
\* newest one, unless turns overlapped: of any number of turns of any length, failed or not.
THEOREM HistoryIsConversationHolds == Spec => []HistoryIsConversation
  <1>1. IInv => HistoryIsConversation
    <2> SUFFICES ASSUME IInv, ~overlapped
                 PROVE  BuildHistory(checkpoints) = Only(Newest, Visible)
      BY DEF HistoryIsConversation
    <2>1. AllIsRead
      BY DEF IInv, Undisturbed
    <2> QED
      BY <2>1 DEF AllIsRead, BuildHistory
  <1> QED
    BY <1>1, InvariantHolds, PTL

\* latest_reply() (history.py:108) answers a turn that spoke with its own last words,
\* unless turns overlapped.
THEOREM ReplyIsOwnHolds == Spec => []ReplyIsOwn
  <1>1. IInv => ReplyIsOwn
    BY DEF IInv, Undisturbed, RepliesOwnWords, ReplyIsOwn
  <1> QED
    BY <1>1, InvariantHolds, PTL

\* Unless turns overlapped, the words that answered a turn are in the checkpoint the next
\* turn reads (agent_chat_service.py:113), whatever failed in between.
THEOREM AnswersAreRememberedHolds == Spec => []AnswersAreRemembered
  <1>1. IInv => AnswersAreRemembered
    BY DEF IInv, Undisturbed, Remembered, AnswersAreRemembered
  <1> QED
    BY <1>1, InvariantHolds, PTL

\* One more checkpoint adds to the end of the history.
LEMMA HistoryGrowsBy ==
    ASSUME NEW M, NEW c \in Seq(Seq(M)), NEW s \in Seq(M)
    PROVE  IsPrefix(BuildHistory(c), BuildHistory(Append(c, s)))
  <1> DEFINE read == Reading(c)
             views == read.views
             rest == SubSeq(s, read.seen + 1, Len(s))
  <1>1. read.seen \in Nat /\ views \in Seq(M)
    <2>1. read \in Readings(M)
      BY ReadingIsList
    <2> HIDE DEF read
    <2> QED
      BY <2>1 DEF Readings
  <1>2. rest \in Seq(M)
    BY <1>1, RestIsList
  <1>3. Reading(Append(c, s)) = ReadSnapshot(read, s)
    BY ReadingOfOneMore
  <1>4. Reading(Append(c, s)).views = views \o rest
    <2>1. ReadSnapshot(read, s).views = views \o rest
      <3> HIDE DEF read
      <3> QED
        BY DEF ReadSnapshot
    <2> HIDE DEF read, views, rest
    <2> QED
      BY <1>3, <2>1
  <1>5. BuildHistory(c) = Only(views, Visible)
        /\ BuildHistory(Append(c, s)) = Only(views \o rest, Visible)
    BY <1>4 DEF BuildHistory
  <1> HIDE DEF views, rest, read
  <1>6. IsPrefix(Only(views, Visible), Only(views \o rest, Visible))
    BY <1>1, <1>2, OnlyGrows
  <1> QED
    BY <1>5, <1>6

\* What a student has been shown is never taken back or moved (history.py:90), even when
\* turns overlap: every step leaves the history or adds to its end.
THEOREM HistoryOnlyGrowsHolds == Spec => HistoryOnlyGrows
  <1>1. ASSUME IInv, [Next]_vars
        PROVE  [IsPrefix(BuildHistory(checkpoints), BuildHistory(checkpoints'))]_checkpoints
    <2>1. checkpoints \in Seq(Seq(Messages)) /\ checkpoints' \in Seq(Seq(Messages))
      BY <1>1, StepKeeps DEF IInv, TypeOK
    <2>2. ASSUME NEW t \in Turns, NEW mem, Superstep(t, mem)
          PROVE  IsPrefix(BuildHistory(checkpoints), BuildHistory(checkpoints'))
      <3>1. checkpoints' = Append(checkpoints, mem)
        BY <2>2 DEF Superstep
      <3>2. turn' \in [Turns -> TurnStates] /\ turn \in [Turns -> TurnStates]
        BY <1>1, StepKeeps DEF IInv, TypeOK
      <3>3. turn'[t].mem = mem
        BY <2>2, <3>2 DEF Superstep, TurnStates
      <3>4. turn'[t] \in TurnStates
        BY <3>2
      <3>5. mem \in Seq(Messages)
        BY <3>3, <3>4 DEF TurnStates
      <3> QED
        BY <2>1, <3>1, <3>5, HistoryGrowsBy
    <2>3. CASE \E t \in Turns : Silent(t) \/ Speak(t) \/ RunTools(t)
      BY <2>2, <2>3 DEF Silent, Speak, RunTools
    <2>4. CASE ~\E t \in Turns : Silent(t) \/ Speak(t) \/ RunTools(t)
      BY <1>1, <2>4 DEF Next, vars, Start, Continue, Ask, ContinueOnUnknownModel, End,
         SaveSession, Reply, Fail
    <2> QED
      BY <2>3, <2>4
  <1> QED
    BY <1>1, InvariantHolds, PTL DEF Spec, HistoryOnlyGrows
=============================================================================
