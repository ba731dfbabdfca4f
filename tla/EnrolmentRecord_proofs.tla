----------------------- MODULE EnrolmentRecord_proofs -----------------------
(***************************************************************************)
(* Of pastes of any length: the table parser reads exactly the rows under  *)
(* their headings, and where the flat parser accepts the same lines too it *)
(* reads the same rows.  Of records of any length: the average is the      *)
(* truncated mean of the results that count, and repeats and the order of  *)
(* the rows do not change it.                                              *)
(***************************************************************************)
EXTENDS EnrolmentRecord, FiniteSetTheorems, TLAPS

-----------------------------------------------------------------------------
(* Numbers                                                                 *)

\* A set of natural numbers up to n has a least one.
LEMMA LeastOf ==
    ASSUME NEW n \in Nat, NEW T, T \subseteq 0..n, T # {}
    PROVE  \E i \in T : \A j \in T : i <= j
  <1> DEFINE U == {1..i : i \in T}
  <1>1. IsWellFoundedOn(StrictSubsetOrdering(Nat), FiniteSubsetsOf(Nat))
    BY FS_StrictSubsetOrderingWellFounded
  <1>2. U \subseteq FiniteSubsetsOf(Nat)
    <2> SUFFICES ASSUME NEW i \in T PROVE 1..i \in FiniteSubsetsOf(Nat)
      OBVIOUS
    <2>1. i \in Int /\ 1..i \subseteq Nat
      BY SMT
    <2>2. IsFiniteSet(1..i)
      BY <2>1, FS_Interval
    <2> QED
      BY <2>1, <2>2 DEF FiniteSubsetsOf
  <1>3. U # {}
    OBVIOUS
  <1> HIDE DEF U
  <1>4. \E x \in U : \A y \in U : ~ (<<y, x>> \in StrictSubsetOrdering(Nat))
    BY <1>1, <1>2, <1>3, WFMin
  <1> USE DEF U
  <1>5. PICK i \in T : \A j \in T : <<1..j, 1..i>> \notin StrictSubsetOrdering(Nat)
    BY <1>4
  <1>6. ASSUME NEW j \in T, ~(i <= j) PROVE FALSE
    <2>1. i \in Nat /\ j \in Nat /\ j < i
      BY <1>6
    <2>2. 1..j \subseteq 1..i /\ 1..j \subseteq Nat /\ 1..i \subseteq Nat
      BY <2>1
    <2>3. i \in 1..i /\ i \notin 1..j
      BY <2>1
    <2>4. 1..j # 1..i
      BY <2>3
    <2>5. <<1..j, 1..i>> \in StrictSubsetOrdering(Nat)
      BY <2>2, <2>4 DEF StrictSubsetOrdering
    <2> QED
      BY <2>5, <1>5
  <1> QED
    BY <1>6

\* And a greatest one.
LEMMA GreatestOf ==
    ASSUME NEW n \in Nat, NEW T, T \subseteq 0..n, T # {}
    PROVE  \E i \in T : \A j \in T : j <= i
  <1> DEFINE U == {n - i : i \in T}
  <1>1. U \subseteq 0..n /\ U # {}
    <2>1. \A i \in T : n - i \in 0..n
      OBVIOUS
    <2> QED
      BY <2>1
  <1>2. PICK u \in U : \A v \in U : u <= v
    <2> HIDE DEF U
    <2> QED
      BY <1>1, LeastOf
  <1>3. PICK i \in T : u = n - i
    OBVIOUS
  <1>4. \A j \in T : n - i <= n - j
    BY <1>2, <1>3
  <1>5. ASSUME NEW j \in T PROVE j <= i
    <2>1. j \in Int /\ i \in Int /\ n - i <= n - j
      BY <1>4
    <2> QED
      BY <2>1
  <1> QED
    BY <1>5

-----------------------------------------------------------------------------
(* Lists of lines                                                          *)

LEMMA LineKinds ==
    ASSUME NEW e \in Lines
    PROVE  /\ e.kind \in Texts \cup Bars \cup {"row"}
           /\ e.kind = "row" => e.row \in Subjects
  BY DEF Lines, Texts, Bars

LEMMA Longer ==
    ASSUME NEW M, NEW s \in Seq(M), NEW e \in M
    PROVE  /\ Append(s, e) \in Seq(M) /\ Len(s) \in Nat /\ Len(Append(s, e)) = Len(s) + 1
           /\ DOMAIN s = 1..Len(s) /\ DOMAIN Append(s, e) = 1..Len(s) + 1
           /\ \A i \in 1..Len(s) : s[i] \in M /\ Append(s, e)[i] = s[i]
           /\ Append(s, e)[Len(s) + 1] = e
  OBVIOUS

\* What a line adds is behind all that came before.
LEMMA SinceSame ==
    ASSUME NEW M, NEW s \in Seq(M), NEW e \in M, NEW kind, NEW ends, NEW i \in 1..Len(s) + 1
    PROVE  Since(Append(s, e), kind, ends, i) <=> Since(s, kind, ends, i)
  <1> DEFINE t == Append(s, e)
             n == Len(s)
  <1>1. n \in Nat /\ i \in 1..n + 1 /\ \A h \in 1..n : t[h] = s[h]
    BY Longer
  <1> HIDE DEF t, n
  <1>2. \A h \in 1..i - 1 : t[h] = s[h] /\ \A k \in h + 1..i - 1 : t[k] = s[k]
    BY <1>1
  <1>3. Since(t, kind, ends, i) <=> Since(s, kind, ends, i)
    BY SMTT(60), <1>2 DEF Since
  <1> QED
    BY <1>3 DEF t

LEMMA SinceNext ==
    ASSUME NEW M, NEW s \in Seq(M), NEW e \in M, NEW kind, NEW ends
    PROVE  Since(Append(s, e), kind, ends, Len(Append(s, e)) + 1)
            <=> e.kind = kind \/ (e.kind \notin ends /\ Since(s, kind, ends, Len(s) + 1))
  <1> DEFINE t == Append(s, e)
             n == Len(s)
  <1>1. n \in Nat /\ Len(t) = n + 1 /\ t[n + 1] = e /\ \A h \in 1..n : t[h] = s[h]
    BY Longer
  <1> HIDE DEF t, n
  <1>2. ASSUME e.kind = kind PROVE Since(t, kind, ends, Len(t) + 1)
    <2>1. n + 1 \in 1..(Len(t) + 1) - 1 /\ t[n + 1].kind = kind
      BY <1>1, <1>2
    <2>2. \A k \in (n + 1) + 1..(Len(t) + 1) - 1 : t[k].kind \notin ends
      BY <1>1
    <2> QED
      BY <2>1, <2>2 DEF Since
  <1>3. ASSUME e.kind \notin ends, Since(s, kind, ends, n + 1)
        PROVE  Since(t, kind, ends, Len(t) + 1)
    <2>1. PICK h \in 1..(n + 1) - 1 :
            s[h].kind = kind /\ \A k \in h + 1..(n + 1) - 1 : s[k].kind \notin ends
      BY <1>3 DEF Since
    <2>2. h \in 1..(Len(t) + 1) - 1 /\ t[h].kind = kind
      BY <1>1, <2>1
    <2>3. ASSUME NEW k \in h + 1..(Len(t) + 1) - 1 PROVE t[k].kind \notin ends
      <3>1. k = n + 1 \/ k \in h + 1..(n + 1) - 1
        BY <1>1
      <3>2. k \in h + 1..(n + 1) - 1 => t[k] = s[k]
        BY <1>1
      <3> QED
        BY <1>1, <1>3, <2>1, <3>1, <3>2
    <2> QED
      BY <2>2, <2>3 DEF Since
  <1>4. ASSUME Since(t, kind, ends, Len(t) + 1), e.kind # kind
        PROVE  e.kind \notin ends /\ Since(s, kind, ends, n + 1)
    <2>1. PICK h \in 1..(Len(t) + 1) - 1 :
            t[h].kind = kind /\ \A k \in h + 1..(Len(t) + 1) - 1 : t[k].kind \notin ends
      BY <1>4 DEF Since
    <2>2. h # n + 1
      BY <1>1, <1>4, <2>1
    <2>3. h \in 1..(n + 1) - 1 /\ t[h] = s[h] /\ n + 1 \in h + 1..(Len(t) + 1) - 1
      BY <1>1, <2>2
    <2>4. \A k \in h + 1..(n + 1) - 1 : k \in h + 1..(Len(t) + 1) - 1 /\ t[k] = s[k]
      BY <1>1
    <2> QED
      BY <1>1, <2>1, <2>3, <2>4 DEF Since
  <1>5. Since(t, kind, ends, Len(t) + 1)
            <=> e.kind = kind \/ (e.kind \notin ends /\ Since(s, kind, ends, n + 1))
    BY <1>2, <1>3, <1>4
  <1> QED
    BY <1>5 DEF t, n

\* Nothing comes before the first line.
LEMMA SinceNothing == \A s, kind, ends : ~Since(s, kind, ends, 1)
  BY DEF Since

-----------------------------------------------------------------------------
(* Lines by their index                                                    *)

\* Every rank is taken.
Ranked(S) == IsFiniteSet(S) /\ \A n \in 1..Cardinality(S) : AtRank(n, S) # {}

Below(S, i) == {j \in S : j <= i}

LEMMA OneMoreRank ==
    ASSUME NEW n \in Nat, NEW S \in SUBSET (1..n), Ranked(S)
    PROVE  LET T == S \cup {n + 1}
           IN  /\ Ranked(T) /\ Cardinality(T) = Cardinality(S) + 1
               /\ \A m \in 1..Cardinality(S) : AtRank(m, T) = AtRank(m, S)
               /\ AtRank(Cardinality(T), T) = {n + 1}
  <1> DEFINE T == S \cup {n + 1}
             c == Cardinality(S)
  <1>1. IsFiniteSet(S) /\ c \in Nat
    BY FS_CardinalityType DEF Ranked
  <1>2. n + 1 \notin S
    OBVIOUS
  <1>3. IsFiniteSet(T) /\ Cardinality(T) = c + 1
    BY <1>1, <1>2, FS_AddElement
  <1>4. ASSUME NEW i \in S
        PROVE  /\ Below(T, i) = Below(S, i)
               /\ Cardinality(Below(S, i)) \in Nat /\ Cardinality(Below(S, i)) <= c
    <2>1. Below(T, i) = Below(S, i)
      BY DEF Below
    <2>2. Below(S, i) \subseteq S
      BY DEF Below
    <2> QED
      BY <1>1, <2>1, <2>2, FS_Subset, FS_CardinalityType
  <1>5. Below(T, n + 1) = T
    <2>1. \A i \in T : i <= n + 1
      OBVIOUS
    <2> HIDE DEF T
    <2> QED
      BY <2>1 DEF Below
  <1>6. \A m, U : AtRank(m, U) = {i \in U : Cardinality(Below(U, i)) = m}
    BY DEF AtRank, Below
  <1>7. ASSUME NEW m \in 1..c PROVE AtRank(m, T) = AtRank(m, S)
    <2>1. m # c + 1
      BY <1>1
    <2> HIDE DEF c
    <2>2. Cardinality(Below(T, n + 1)) # m
      BY <1>3, <1>5, <2>1
    <2>3. \A i \in S : Cardinality(Below(T, i)) = Cardinality(Below(S, i))
      BY <1>4
    <2>4. AtRank(m, T) = {i \in T : Cardinality(Below(T, i)) = m}
          /\ AtRank(m, S) = {i \in S : Cardinality(Below(S, i)) = m}
      BY <1>6
    <2> QED
      BY <2>2, <2>3, <2>4
  <1>8. AtRank(c + 1, T) = {n + 1}
    <2>1. \A i \in S : Cardinality(Below(T, i)) # c + 1
      BY <1>1, <1>4
    <2> HIDE DEF c
    <2>2. Cardinality(Below(T, n + 1)) = c + 1
      BY <1>3, <1>5
    <2>4. AtRank(c + 1, T) = {i \in T : Cardinality(Below(T, i)) = c + 1}
      BY <1>6
    <2> QED
      BY <2>1, <2>2, <2>4
  <1>9. Ranked(T)
    <2> SUFFICES ASSUME NEW m \in 1..Cardinality(T) PROVE AtRank(m, T) # {}
      BY <1>3 DEF Ranked
    <2>1. m \in 1..c \/ m = c + 1
      BY <1>1, <1>3
    <2> HIDE DEF c
    <2>2. m \in 1..c => AtRank(m, S) # {}
      BY DEF Ranked, c
    <2> QED
      BY <2>1, <2>2, <1>7, <1>8
  <1> QED
    BY <1>3, <1>7, <1>8, <1>9

At(m, S) == CHOOSE i \in AtRank(m, S) : TRUE

LEMMA AtIsThere ==
    ASSUME NEW n \in Nat, NEW S \in SUBSET (1..n), Ranked(S), NEW m \in 1..Cardinality(S)
    PROVE  At(m, S) \in S
  <1>1. AtRank(m, S) # {} /\ AtRank(m, S) \subseteq S
    BY DEF Ranked, AtRank
  <1>2. At(m, S) \in AtRank(m, S)
    BY <1>1 DEF At
  <1> QED
    BY <1>1, <1>2

LEMMA LinesAtIsList ==
    ASSUME NEW M, NEW s \in Seq(M), NEW S \in SUBSET (1..Len(s)), Ranked(S)
    PROVE  /\ Cardinality(S) \in Nat
           /\ LinesAt(s, S) \in Seq(M) /\ Len(LinesAt(s, S)) = Cardinality(S)
           /\ LinesAt(s, S) = [m \in 1..Cardinality(S) |-> s[At(m, S)]]
  <1>1. Cardinality(S) \in Nat
    BY FS_CardinalityType DEF Ranked
  <1>2. LinesAt(s, S) = [m \in 1..Cardinality(S) |-> s[At(m, S)]]
    BY DEF LinesAt, At
  <1>3. ASSUME NEW m \in 1..Cardinality(S) PROVE s[At(m, S)] \in M
    <2>1. At(m, S) \in S
      <3>1. Len(s) \in Nat
        OBVIOUS
      <3> QED
        BY <3>1, AtIsThere
    <2> DEFINE i == At(m, S)
    <2> HIDE DEF i
    <2>2. i \in 1..Len(s)
      BY <2>1 DEF i
    <2>3. s[i] \in M
      BY <2>2
    <2> QED
      BY <2>3 DEF i
  <1> DEFINE c == Cardinality(S)
             l == LinesAt(s, S)
  <1>4. l \in [1..c -> M]
    BY <1>2, <1>3
  <1>5. c \in Nat
    BY <1>1
  <1> HIDE DEF c, l
  <1>6. l \in Seq(M) /\ Len(l) = c
    BY <1>4, <1>5
  <1> QED
    BY <1>1, <1>2, <1>6 DEF l, c

LEMMA LinesAtSame ==
    ASSUME NEW M, NEW s \in Seq(M), NEW e \in M, NEW S \in SUBSET (1..Len(s)), Ranked(S)
    PROVE  LinesAt(Append(s, e), S) = LinesAt(s, S)
  <1> DEFINE t == Append(s, e)
             n == Len(s)
             c == Cardinality(S)
  <1>1. n \in Nat /\ (\A i \in 1..n : t[i] = s[i]) /\ S \in SUBSET (1..n)
    BY Longer
  <1> HIDE DEF t, n
  <1>2. \A m \in 1..c : At(m, S) \in S
    BY <1>1, AtIsThere
  <1>3. \A m \in 1..c : t[At(m, S)] = s[At(m, S)]
    BY <1>1, <1>2
  <1>4. /\ LinesAt(t, S) = [m \in 1..c |-> t[At(m, S)]]
        /\ LinesAt(s, S) = [m \in 1..c |-> s[At(m, S)]]
    BY DEF LinesAt, At
  <1>5. LinesAt(t, S) = LinesAt(s, S)
    BY <1>3, <1>4
  <1> QED
    BY <1>5 DEF t

LEMMA LinesAtLonger ==
    ASSUME NEW M, NEW s \in Seq(M), NEW e \in M, NEW S \in SUBSET (1..Len(s)), Ranked(S)
    PROVE  LinesAt(Append(s, e), S \cup {Len(s) + 1}) = Append(LinesAt(s, S), e)
  <1> DEFINE t == Append(s, e)
             n == Len(s)
             c == Cardinality(S)
             T == S \cup {n + 1}
             l == LinesAt(s, S)
             k == LinesAt(t, T)
  <1>1. n \in Nat /\ (\A i \in 1..n : t[i] = s[i]) /\ t[n + 1] = e /\ S \in SUBSET (1..n)
        /\ t \in Seq(M) /\ Len(t) = n + 1
    BY Longer
  <1>2. l \in Seq(M) /\ Len(l) = c /\ c \in Nat /\ l = [m \in 1..c |-> s[At(m, S)]]
    BY LinesAtIsList
  <1> HIDE DEF n
  <1>3. /\ Ranked(T) /\ Cardinality(T) = c + 1
        /\ \A m \in 1..c : AtRank(m, T) = AtRank(m, S)
        /\ AtRank(Cardinality(T), T) = {n + 1}
    BY <1>1, OneMoreRank
  <1> HIDE DEF t
  <1>4. T \in SUBSET (1..Len(t))
    BY <1>1
  <1> HIDE DEF T
  <1>5. k \in Seq(M) /\ Len(k) = c + 1 /\ k = [m \in 1..c + 1 |-> t[At(m, T)]]
    <2>1. /\ k \in Seq(M) /\ Len(k) = Cardinality(T)
          /\ k = [m \in 1..Cardinality(T) |-> t[At(m, T)]]
      BY SMTT(60), <1>1, <1>3, <1>4, LinesAtIsList
    <2> QED
      BY <2>1, <1>3
  <1>6. ASSUME NEW m \in 1..c PROVE k[m] = l[m]
    <2>1. At(m, T) = At(m, S)
      BY <1>3 DEF At
    <2>2. At(m, S) \in S
      BY <1>1, AtIsThere
    <2>3. t[At(m, T)] = s[At(m, S)]
      BY <1>1, <2>1, <2>2
    <2> HIDE DEF k, l, c
    <2>4. m \in 1..c + 1
      BY <1>2
    <2> QED
      BY <2>3, <2>4, <1>2, <1>5
  <1>7. k[c + 1] = e
    <2>1. At(c + 1, T) = n + 1
      BY <1>3 DEF At
    <2> HIDE DEF k, l, c
    <2>2. c + 1 \in 1..c + 1
      BY <1>2
    <2> QED
      BY <2>1, <2>2, <1>1, <1>5
  <1> HIDE DEF k, l, c
  <1>8. k = Append(l, e)
    <2>1. Append(l, e) \in Seq(M) /\ Len(Append(l, e)) = c + 1 /\ Append(l, e)[c + 1] = e
          /\ \A m \in 1..c : Append(l, e)[m] = l[m]
      BY <1>2, Longer
    <2> DEFINE a == Append(l, e)
    <2> HIDE DEF a
    <2>2. a \in Seq(M) /\ Len(a) = Len(k) /\ \A m \in 1..Len(k) : a[m] = k[m]
      <3>1. \A m \in 1..c + 1 : m \in 1..c \/ m = c + 1
        BY <1>2
      <3> QED
        BY ZenonT(90), <2>1, <3>1, <1>5, <1>6, <1>7 DEF a
    <2>3. a = k
      BY <2>2, <1>5
    <2> QED
      BY <2>3 DEF a
  <1> QED
    BY <1>8 DEF k, l, t, T, n

LEMMA SameLonger ==
    ASSUME NEW M, NEW r \in Seq(M), NEW x \in M, NEW q \in Seq(M), Len(q) = Len(r) + 1,
           \A i \in 1..Len(r) : q[i] = r[i], q[Len(r) + 1] = x
    PROVE  q = Append(r, x)
  <1> DEFINE a == Append(r, x)
             n == Len(r)
  <1>1. /\ n \in Nat /\ a \in Seq(M) /\ Len(a) = n + 1 /\ a[n + 1] = x
        /\ \A i \in 1..n : a[i] = r[i]
    BY Longer
  <1> HIDE DEF a
  <1>2. \A i \in 1..n + 1 : a[i] = q[i]
    <2>1. \A i \in 1..n + 1 : i \in 1..n \/ i = n + 1
      BY <1>1
    <2> QED
      BY <1>1, <2>1
  <1>3. a = q
    BY <1>1, <1>2
  <1> QED
    BY <1>3 DEF a

\* The rows, and the kinds, of one more line.
LEMMA RowsOfLonger ==
    ASSUME NEW s \in Seq(Lines), NEW e \in Lines
    PROVE  RowsOf(Append(s, e)) = Append(RowsOf(s), e.row)
  <1> DEFINE M == {x.row : x \in Lines}
             t == Append(s, e)
             n == Len(s)
             r == RowsOf(s)
             q == RowsOf(t)
  <1>1. /\ n \in Nat /\ DOMAIN s = 1..n /\ DOMAIN t = 1..n + 1 /\ t \in Seq(Lines)
        /\ (\A i \in 1..n : s[i] \in Lines /\ t[i] = s[i]) /\ t[n + 1] = e
    BY Longer
  <1> HIDE DEF n, t
  <1>2. e.row \in M /\ (\A i \in 1..n : s[i].row \in M) /\ \A i \in 1..n + 1 : t[i].row \in M
    <2>1. \A x \in Lines : x.row \in M
      OBVIOUS
    <2>2. \A i \in 1..n + 1 : i \in 1..n \/ i = n + 1
      BY <1>1
    <2> HIDE DEF M
    <2> QED
      BY <1>1, <2>1, <2>2
  <1> HIDE DEF M
  <1>3. r = [i \in 1..n |-> s[i].row] /\ q = [i \in 1..n + 1 |-> t[i].row]
    BY <1>1 DEF RowsOf
  <1>4. r \in [1..n -> M] /\ q \in [1..n + 1 -> M]
    BY <1>2, <1>3
  <1> HIDE DEF r, q
  <1>5. r \in Seq(M) /\ q \in Seq(M) /\ Len(r) = n /\ Len(q) = n + 1
    BY <1>1, <1>4
  <1>6. (\A i \in 1..n : q[i] = r[i]) /\ q[n + 1] = e.row
    BY <1>1, <1>3
  <1>7. q = Append(r, e.row)
    BY <1>2, <1>5, <1>6, SameLonger
  <1> QED
    BY <1>7 DEF q, r, t

LEMMA KindsOfLonger ==
    ASSUME NEW s \in Seq(Lines), NEW e \in Lines
    PROVE  KindsOf(Append(s, e)) = Append(KindsOf(s), e.kind)
  <1> DEFINE M == {x.kind : x \in Lines}
             t == Append(s, e)
             n == Len(s)
             r == KindsOf(s)
             q == KindsOf(t)
  <1>1. /\ n \in Nat /\ DOMAIN s = 1..n /\ DOMAIN t = 1..n + 1 /\ t \in Seq(Lines)
        /\ (\A i \in 1..n : s[i] \in Lines /\ t[i] = s[i]) /\ t[n + 1] = e
    BY Longer
  <1> HIDE DEF n, t
  <1>2. e.kind \in M /\ (\A i \in 1..n : s[i].kind \in M) /\ \A i \in 1..n + 1 : t[i].kind \in M
    <2>1. \A x \in Lines : x.kind \in M
      OBVIOUS
    <2>2. \A i \in 1..n + 1 : i \in 1..n \/ i = n + 1
      BY <1>1
    <2> HIDE DEF M
    <2> QED
      BY <1>1, <2>1, <2>2
  <1> HIDE DEF M
  <1>3. r = [i \in 1..n |-> s[i].kind] /\ q = [i \in 1..n + 1 |-> t[i].kind]
    BY <1>1 DEF KindsOf
  <1>4. r \in [1..n -> M] /\ q \in [1..n + 1 -> M]
    BY <1>2, <1>3
  <1> HIDE DEF r, q
  <1>5. r \in Seq(M) /\ q \in Seq(M) /\ Len(r) = n /\ Len(q) = n + 1
    BY <1>1, <1>4
  <1>6. (\A i \in 1..n : q[i] = r[i]) /\ q[n + 1] = e.kind
    BY <1>1, <1>3
  <1>7. q = Append(r, e.kind)
    BY <1>2, <1>5, <1>6, SameLonger
  <1> QED
    BY <1>7 DEF q, r, t

LEMMA ListsGrow ==
    ASSUME NEW s \in Seq(Lines), NEW e \in Lines, NEW S \in SUBSET (1..Len(s)), Ranked(S)
    PROVE  LET t == Append(s, e)
               T == S \cup {Len(s) + 1}
           IN  /\ RowsOf(LinesAt(t, S)) = RowsOf(LinesAt(s, S))
               /\ KindsOf(LinesAt(t, S)) = KindsOf(LinesAt(s, S))
               /\ Ranked(T) /\ Cardinality(T) = Cardinality(S) + 1
               /\ RowsOf(LinesAt(t, T)) = Append(RowsOf(LinesAt(s, S)), e.row)
               /\ KindsOf(LinesAt(t, T)) = Append(KindsOf(LinesAt(s, S)), e.kind)
  <1> DEFINE t == Append(s, e)
             n == Len(s)
             T == S \cup {n + 1}
             l == LinesAt(s, S)
  <1>1. LinesAt(t, S) = l /\ LinesAt(t, T) = Append(l, e)
    BY LinesAtSame, LinesAtLonger
  <1>2. n \in Nat /\ l \in Seq(Lines)
    BY LinesAtIsList
  <1> HIDE DEF t, l, n
  <1>3. Ranked(T) /\ Cardinality(T) = Cardinality(S) + 1
    <2>1. S \in SUBSET (1..n)
      BY DEF n
    <2> QED
      BY <1>2, <2>1, OneMoreRank
  <1>4. RowsOf(Append(l, e)) = Append(RowsOf(l), e.row)
        /\ KindsOf(Append(l, e)) = Append(KindsOf(l), e.kind)
    BY <1>2, RowsOfLonger, KindsOfLonger
  <1> HIDE DEF T
  <1>5. /\ RowsOf(LinesAt(t, S)) = RowsOf(l)
        /\ KindsOf(LinesAt(t, S)) = KindsOf(l)
        /\ RowsOf(LinesAt(t, T)) = Append(RowsOf(l), e.row)
        /\ KindsOf(LinesAt(t, T)) = Append(KindsOf(l), e.kind)
    BY <1>1, <1>4
  <1> QED
    BY <1>3, <1>5 DEF t, l, n, T

-----------------------------------------------------------------------------
(* What a line adds                                                        *)

Headings == {"enrolment", "credit"}

\* The lines under a heading that can be read there; and is there one that cannot?
Fitting(lines, kind) == {i \in EntriesUnder(lines, kind) : Fits(lines[i], kind)}
Misfits(lines, kind) == EntriesUnder(lines, kind) \ Fitting(lines, kind)

LEMMA NextPlace ==
    ASSUME NEW s \in Seq(Lines), NEW e \in Lines, NEW kind
    PROVE  LET t == Append(s, e)
               n == Len(s)
           IN  /\ Under(t, kind, Len(t) + 1)
                    <=> e.kind = kind \/ (~IsText(e) /\ ~Heading(e) /\ Under(s, kind, n + 1))
               /\ BehindLabel(t, Len(t) + 1)
                    <=> e.kind = "emptyMajor" \/ (~IsText(e) /\ BehindLabel(s, n + 1))
  BY SinceNext DEF Under, BehindLabel, IsText, Heading

LEMMA NextEntry ==
    ASSUME NEW s \in Seq(Lines), NEW e \in Lines, NEW kind
    PROVE  LET t == Append(s, e)
               n == Len(s)
           IN  /\ EntriesUnder(t, kind) = EntriesUnder(s, kind) \cup
                    {i \in {n + 1} : Entry(e) /\ Under(s, kind, n + 1)}
               /\ Fitting(t, kind) = Fitting(s, kind) \cup
                    {i \in {n + 1} : Entry(e) /\ Under(s, kind, n + 1) /\ Fits(e, kind)}
               /\ EntriesUnder(s, kind) \in SUBSET (1..n) /\ Fitting(s, kind) \in SUBSET (1..n)
  <1> DEFINE t == Append(s, e)
             n == Len(s)
  <1>1. /\ n \in Nat /\ DOMAIN s = 1..n /\ DOMAIN t = 1..n + 1
        /\ (\A i \in 1..n : t[i] = s[i]) /\ t[n + 1] = e
    BY Longer
  <1>2. \A i \in 1..n + 1 : Under(t, kind, i) <=> Under(s, kind, i)
    BY SinceSame DEF Under
  <1> HIDE DEF t, n
  <1>3. \A i \in 1..n + 1 : i \in 1..n \/ i = n + 1
    BY <1>1
  <1>4. n + 1 \notin 1..n /\ n + 1 \in 1..n + 1 /\ 1..n \subseteq 1..n + 1
    BY <1>1
  <1>5. EntriesUnder(s, kind) \in SUBSET (1..n) /\ Fitting(s, kind) \in SUBSET (1..n)
    BY <1>1 DEF EntriesUnder, Fitting
  <1>6. ASSUME NEW i
        PROVE  i \in EntriesUnder(t, kind) <=>
                i \in EntriesUnder(s, kind)
                \/ (i = n + 1 /\ Entry(e) /\ Under(s, kind, n + 1))
    BY <1>1, <1>2, <1>3, <1>4 DEF EntriesUnder
  <1>7. ASSUME NEW i
        PROVE  i \in Fitting(t, kind) <=>
                i \in Fitting(s, kind)
                \/ (i = n + 1 /\ Entry(e) /\ Under(s, kind, n + 1) /\ Fits(e, kind))
    BY <1>1, <1>4, <1>5, <1>6 DEF Fitting
  <1>8. EntriesUnder(t, kind) = EntriesUnder(s, kind) \cup
            {i \in {n + 1} : Entry(e) /\ Under(s, kind, n + 1)}
    BY <1>6
  <1>9. Fitting(t, kind) = Fitting(s, kind) \cup
            {i \in {n + 1} : Entry(e) /\ Under(s, kind, n + 1) /\ Fits(e, kind)}
    BY <1>7
  <1> QED
    BY <1>5, <1>8, <1>9 DEF t, n

LEMMA NextMajor ==
    ASSUME NEW s \in Seq(Lines), NEW e \in Lines
    PROVE  LET t == Append(s, e)
               n == Len(s)
           IN  /\ MajorLines(t) = MajorLines(s) \cup
                    {i \in {n + 1} : \/ e.kind = "major"
                                     \/ e.kind \in {"title", "label"} /\ BehindLabel(s, n + 1)}
               /\ MajorLines(s) \in SUBSET (1..n)
  <1> DEFINE t == Append(s, e)
             n == Len(s)
  <1>1. /\ n \in Nat /\ DOMAIN s = 1..n /\ DOMAIN t = 1..n + 1
        /\ (\A i \in 1..n : t[i] = s[i]) /\ t[n + 1] = e
    BY Longer
  <1>2. \A i \in 1..n + 1 : BehindLabel(t, i) <=> BehindLabel(s, i)
    BY SinceSame DEF BehindLabel
  <1> HIDE DEF t, n
  <1>3. \A i \in 1..n + 1 : i \in 1..n \/ i = n + 1
    BY <1>1
  <1>4. n + 1 \notin 1..n /\ n + 1 \in 1..n + 1 /\ 1..n \subseteq 1..n + 1
    BY <1>1
  <1>5. MajorLines(s) \in SUBSET (1..n)
    BY <1>1 DEF MajorLines
  <1>6. ASSUME NEW i
        PROVE  i \in MajorLines(t) <=>
                i \in MajorLines(s)
                \/ (i = n + 1 /\ (\/ e.kind = "major"
                                  \/ e.kind \in {"title", "label"} /\ BehindLabel(s, n + 1)))
    BY <1>1, <1>2, <1>3, <1>4 DEF MajorLines
  <1>7. MajorLines(t) = MajorLines(s) \cup
            {i \in {n + 1} : \/ e.kind = "major"
                             \/ e.kind \in {"title", "label"} /\ BehindLabel(s, n + 1)}
    BY <1>6
  <1> QED
    BY <1>5, <1>7 DEF t, n

\* What has been read of some lines.
RowsSeen(lines) == RowsOf(LinesAt(lines, Fitting(lines, "enrolment")))
MajorsSeen(lines) == KindsOf(LinesAt(lines, MajorLines(lines)))
CreditSeen(lines) == Cardinality(Fitting(lines, "credit"))
HasMisfit(lines) == \E kind \in Headings : Misfits(lines, kind) # {}

AllRanked(lines) ==
    /\ Ranked(Fitting(lines, "enrolment"))
    /\ Ranked(MajorLines(lines))
    /\ IsFiniteSet(Fitting(lines, "credit"))

LEMMA SeenNext ==
    ASSUME NEW s \in Seq(Lines), NEW e \in Lines, AllRanked(s)
    PROVE  LET t == Append(s, e)
               n == Len(s)
               Here(kind) == Entry(e) /\ Under(s, kind, n + 1)
           IN  /\ AllRanked(t)
               /\ RowsSeen(t) = IF Here("enrolment") /\ Fits(e, "enrolment")
                                THEN Append(RowsSeen(s), e.row) ELSE RowsSeen(s)
               /\ CreditSeen(t) = IF Here("credit") /\ Fits(e, "credit")
                                  THEN CreditSeen(s) + 1 ELSE CreditSeen(s)
               /\ MajorsSeen(t) = IF \/ e.kind = "major"
                                     \/ e.kind \in {"title", "label"} /\ BehindLabel(s, n + 1)
                                  THEN Append(MajorsSeen(s), e.kind) ELSE MajorsSeen(s)
               /\ HasMisfit(t) <=> HasMisfit(s)
                                    \/ \E kind \in Headings : Here(kind) /\ ~Fits(e, kind)
  <1> DEFINE t == Append(s, e)
             n == Len(s)
             Here(kind) == Entry(e) /\ Under(s, kind, n + 1)
             Takes == \/ e.kind = "major"
                      \/ e.kind \in {"title", "label"} /\ BehindLabel(s, n + 1)
  <1>1. ASSUME NEW kind
        PROVE  /\ EntriesUnder(t, kind) = EntriesUnder(s, kind) \cup {i \in {n + 1} : Here(kind)}
               /\ Fitting(t, kind)
                    = Fitting(s, kind) \cup {i \in {n + 1} : Here(kind) /\ Fits(e, kind)}
               /\ EntriesUnder(s, kind) \in SUBSET (1..n) /\ Fitting(s, kind) \in SUBSET (1..n)
    BY NextEntry
  <1>2. /\ MajorLines(t) = MajorLines(s) \cup {i \in {n + 1} : Takes}
        /\ MajorLines(s) \in SUBSET (1..n)
    BY NextMajor
  <1>3. ASSUME NEW S \in SUBSET (1..n), Ranked(S)
        PROVE  /\ RowsOf(LinesAt(t, S)) = RowsOf(LinesAt(s, S))
               /\ KindsOf(LinesAt(t, S)) = KindsOf(LinesAt(s, S))
               /\ Ranked(S \cup {n + 1})
               /\ RowsOf(LinesAt(t, S \cup {n + 1})) = Append(RowsOf(LinesAt(s, S)), e.row)
               /\ KindsOf(LinesAt(t, S \cup {n + 1})) = Append(KindsOf(LinesAt(s, S)), e.kind)
    BY ZenonT(90), <1>3, ListsGrow
  <1>4. n \in Nat
    BY Longer
  <1> HIDE DEF t, n, Takes, Here
  <1>5. /\ Ranked(Fitting(t, "enrolment"))
        /\ RowsSeen(t) = IF Here("enrolment") /\ Fits(e, "enrolment")
                         THEN Append(RowsSeen(s), e.row) ELSE RowsSeen(s)
    <2> DEFINE S == Fitting(s, "enrolment")
               T == Fitting(t, "enrolment")
    <2>1. S \in SUBSET (1..n) /\ Ranked(S)
      BY <1>1 DEF AllRanked
    <2>2. T = S \cup {i \in {n + 1} : Here("enrolment") /\ Fits(e, "enrolment")}
      BY <1>1
    <2>3. RowsSeen(s) = RowsOf(LinesAt(s, S)) /\ RowsSeen(t) = RowsOf(LinesAt(t, T))
      BY DEF RowsSeen
    <2> HIDE DEF S, T
    <2>4. CASE Here("enrolment") /\ Fits(e, "enrolment")
      <3>1. T = S \cup {n + 1}
        BY <2>2, <2>4
      <3> QED
        BY <3>1, <2>1, <2>3, <2>4, <1>3 DEF T
    <2>5. CASE ~(Here("enrolment") /\ Fits(e, "enrolment"))
      <3>1. T = S
        BY <2>2, <2>5
      <3> QED
        BY <3>1, <2>1, <2>3, <2>5, <1>3 DEF T
    <2> QED
      BY <2>4, <2>5
  <1>6. /\ Ranked(MajorLines(t))
        /\ MajorsSeen(t) = IF Takes THEN Append(MajorsSeen(s), e.kind) ELSE MajorsSeen(s)
    <2> DEFINE S == MajorLines(s)
               T == MajorLines(t)
    <2>1. S \in SUBSET (1..n) /\ Ranked(S)
      BY <1>2 DEF AllRanked
    <2>2. T = S \cup {i \in {n + 1} : Takes}
      BY <1>2
    <2>3. MajorsSeen(s) = KindsOf(LinesAt(s, S)) /\ MajorsSeen(t) = KindsOf(LinesAt(t, T))
      BY DEF MajorsSeen
    <2> HIDE DEF S, T
    <2>4. CASE Takes
      <3>1. T = S \cup {n + 1}
        BY <2>2, <2>4
      <3> QED
        BY <3>1, <2>1, <2>3, <2>4, <1>3 DEF T
    <2>5. CASE ~Takes
      <3>1. T = S
        BY <2>2, <2>5
      <3> QED
        BY <3>1, <2>1, <2>3, <2>5, <1>3 DEF T
    <2> QED
      BY <2>4, <2>5
  <1>7. /\ IsFiniteSet(Fitting(t, "credit"))
        /\ CreditSeen(t) = IF Here("credit") /\ Fits(e, "credit")
                           THEN CreditSeen(s) + 1 ELSE CreditSeen(s)
    <2> DEFINE S == Fitting(s, "credit")
               T == Fitting(t, "credit")
    <2>1. S \in SUBSET (1..n) /\ IsFiniteSet(S)
      BY <1>1 DEF AllRanked
    <2>2. T = S \cup {i \in {n + 1} : Here("credit") /\ Fits(e, "credit")}
      BY <1>1
    <2>3. CreditSeen(s) = Cardinality(S) /\ CreditSeen(t) = Cardinality(T)
      BY DEF CreditSeen
    <2>4. n + 1 \notin S
      <3> HIDE DEF S
      <3> QED
        BY <2>1, <1>4
    <2> HIDE DEF S, T
    <2>5. IsFiniteSet(S \cup {n + 1}) /\ Cardinality(S \cup {n + 1}) = Cardinality(S) + 1
      BY <2>1, <2>4, FS_AddElement
    <2>6. CASE Here("credit") /\ Fits(e, "credit")
      <3>1. T = S \cup {n + 1}
        BY <2>2, <2>6
      <3> QED
        BY <3>1, <2>3, <2>5, <2>6 DEF T
    <2>7. CASE ~(Here("credit") /\ Fits(e, "credit"))
      <3>1. T = S
        BY <2>2, <2>7
      <3> QED
        BY <3>1, <2>1, <2>3, <2>7 DEF T
    <2> QED
      BY <2>6, <2>7
  <1>8. HasMisfit(t) <=> HasMisfit(s) \/ \E kind \in Headings : Here(kind) /\ ~Fits(e, kind)
    <2>1. ASSUME NEW kind
          PROVE  Misfits(t, kind) # {} <=> Misfits(s, kind) # {} \/ (Here(kind) /\ ~Fits(e, kind))
      <3>1. n + 1 \notin EntriesUnder(s, kind) /\ n + 1 \notin Fitting(s, kind)
        BY <1>1, <1>4
      <3>2. EntriesUnder(t, kind) = EntriesUnder(s, kind) \cup {i \in {n + 1} : Here(kind)}
            /\ Fitting(t, kind)
                = Fitting(s, kind) \cup {i \in {n + 1} : Here(kind) /\ Fits(e, kind)}
        BY <1>1
      <3>3. ASSUME NEW i
            PROVE  i \in Misfits(t, kind)
                    <=> i \in Misfits(s, kind) \/ (i = n + 1 /\ Here(kind) /\ ~Fits(e, kind))
        BY <3>1, <3>2 DEF Misfits
      <3> QED
        BY <3>3
    <2> QED
      BY <2>1 DEF HasMisfit
  <1>9. AllRanked(t)
    BY <1>5, <1>6, <1>7 DEF AllRanked
  <1> QED
    BY <1>5, <1>6, <1>7, <1>8, <1>9 DEF t, n, Here, Takes

-----------------------------------------------------------------------------
(* The table reader                                                        *)

\* The reader r has read the lines: it knows the heading and the label it stands
\* behind, holds what fits, and has refused if there is a misfit.
Follows(lines, r) ==
    /\ r \in Reads
    /\ AllRanked(lines)
    /\ \A kind \in Headings : r.table = kind <=> Under(lines, kind, Len(lines) + 1)
    /\ r.pending <=> BehindLabel(lines, Len(lines) + 1)
    /\ r.rows = RowsSeen(lines)
    /\ r.credit = CreditSeen(lines)
    /\ r.majors = MajorsSeen(lines)
    /\ r.refused <=> HasMisfit(lines)

IInv ==
    /\ layout \in {"table", "flat"} /\ paste \in Seq(Lines)
    /\ layout = "table" => Follows(paste, read) /\ (record = NoRecord \/ record = TableRecord)

\* Before the first line.
LEMMA NothingFollows == Follows(<<>>, Fresh)
  <1>1. EntriesUnder(<<>>, "enrolment") = {} /\ EntriesUnder(<<>>, "credit") = {}
        /\ MajorLines(<<>>) = {}
    BY DEF EntriesUnder, MajorLines
  <1>2. Fitting(<<>>, "enrolment") = {} /\ Fitting(<<>>, "credit") = {}
    BY <1>1 DEF Fitting
  <1>3. IsFiniteSet({}) /\ Cardinality({}) = 0
    BY FS_EmptySet
  <1>4. Ranked({})
    BY <1>3 DEF Ranked
  <1>5. LinesAt(<<>>, {}) = <<>>
    <2>1. 1..Cardinality({}) = {}
      BY <1>3
    <2> QED
      BY <2>1 DEF LinesAt
  <1>6. RowsOf(<<>>) = <<>> /\ KindsOf(<<>>) = <<>>
    BY DEF RowsOf, KindsOf
  <1>7. /\ AllRanked(<<>>)
        /\ RowsSeen(<<>>) = <<>> /\ CreditSeen(<<>>) = 0 /\ MajorsSeen(<<>>) = <<>>
    BY <1>1, <1>2, <1>3, <1>4, <1>5, <1>6 DEF AllRanked, RowsSeen, CreditSeen, MajorsSeen
  <1>8. ~HasMisfit(<<>>)
    BY <1>1 DEF HasMisfit, Misfits, Headings
  <1>9. Len(<<>>) + 1 = 1
    OBVIOUS
  <1>10. (\A kind : ~Under(<<>>, kind, 1)) /\ ~BehindLabel(<<>>, 1)
    BY SinceNothing DEF Under, BehindLabel
  <1>11. /\ Fresh \in Reads /\ Fresh.table = "none" /\ ~Fresh.pending /\ ~Fresh.refused
         /\ Fresh.rows = <<>> /\ Fresh.majors = <<>> /\ Fresh.credit = 0
    BY DEF Fresh, Reads
  <1> QED
    BY <1>7, <1>8, <1>9, <1>10, <1>11 DEF Follows, Headings

\* What a reader r makes of one more line.
Reacts(e, r, q) ==
    /\ q \in Reads
    /\ \A kind \in Headings : q.table = kind
            <=> e.kind = kind \/ (~IsText(e) /\ ~Heading(e) /\ r.table = kind)
    /\ q.pending <=> e.kind = "emptyMajor" \/ (~IsText(e) /\ r.pending)
    /\ q.rows = IF Entry(e) /\ r.table = "enrolment" /\ Fits(e, "enrolment")
                THEN Append(r.rows, e.row) ELSE r.rows
    /\ q.credit = IF Entry(e) /\ r.table = "credit" /\ Fits(e, "credit")
                  THEN r.credit + 1 ELSE r.credit
    /\ q.majors = IF e.kind = "major" \/ (e.kind \in {"title", "label"} /\ r.pending)
                  THEN Append(r.majors, e.kind) ELSE r.majors
    /\ q.refused <=> r.refused \/ \E kind \in Headings :
                                    Entry(e) /\ r.table = kind /\ ~Fits(e, kind)

LEMMA NextFollows ==
    ASSUME NEW s \in Seq(Lines), NEW e \in Lines, NEW r, Follows(s, r), NEW q, Reacts(e, r, q)
    PROVE  Follows(Append(s, e), q)
  <1> DEFINE t == Append(s, e)
             n == Len(s)
             Here(kind) == Entry(e) /\ Under(s, kind, n + 1)
  <1>1. /\ r \in Reads /\ AllRanked(s)
        /\ \A kind \in Headings : r.table = kind <=> Under(s, kind, n + 1)
        /\ r.pending <=> BehindLabel(s, n + 1)
        /\ r.rows = RowsSeen(s) /\ r.credit = CreditSeen(s) /\ r.majors = MajorsSeen(s)
        /\ r.refused <=> HasMisfit(s)
    BY DEF Follows
  <1>2. /\ AllRanked(t)
        /\ RowsSeen(t) = IF Here("enrolment") /\ Fits(e, "enrolment")
                         THEN Append(RowsSeen(s), e.row) ELSE RowsSeen(s)
        /\ CreditSeen(t) = IF Here("credit") /\ Fits(e, "credit")
                           THEN CreditSeen(s) + 1 ELSE CreditSeen(s)
        /\ MajorsSeen(t) = IF \/ e.kind = "major"
                              \/ e.kind \in {"title", "label"} /\ BehindLabel(s, n + 1)
                           THEN Append(MajorsSeen(s), e.kind) ELSE MajorsSeen(s)
        /\ HasMisfit(t) <=> HasMisfit(s) \/ \E kind \in Headings : Here(kind) /\ ~Fits(e, kind)
    BY <1>1, SeenNext
  <1>3. ASSUME NEW kind
        PROVE  /\ Under(t, kind, Len(t) + 1)
                    <=> e.kind = kind \/ (~IsText(e) /\ ~Heading(e) /\ Under(s, kind, n + 1))
               /\ BehindLabel(t, Len(t) + 1)
                    <=> e.kind = "emptyMajor" \/ (~IsText(e) /\ BehindLabel(s, n + 1))
    BY NextPlace
  <1> HIDE DEF t, n
  <1> USE DEF Reacts
  <1>4. "enrolment" \in Headings /\ "credit" \in Headings
    BY DEF Headings
  <1>5. q.rows = RowsSeen(t)
    BY <1>1, <1>2, <1>4
  <1>6. q.credit = CreditSeen(t)
    BY <1>1, <1>2, <1>4
  <1>7. q.majors = MajorsSeen(t)
    BY <1>1, <1>2
  <1>8. q.refused <=> HasMisfit(t)
    BY <1>1, <1>2
  <1>9. (\A kind \in Headings : q.table = kind <=> Under(t, kind, Len(t) + 1))
        /\ (q.pending <=> BehindLabel(t, Len(t) + 1))
    BY <1>1, <1>3
  <1> HIDE DEF Here
  <1>10. Follows(t, q)
    BY <1>2, <1>5, <1>6, <1>7, <1>8, <1>9 DEF Follows
  <1> QED
    BY <1>10 DEF t

\* Each action of the reader keeps up with the lines.
LEMMA LineFollows ==
    ASSUME paste \in Seq(Lines), NEW e \in Lines, Follows(paste, read),
           \/ ReadText(e) \/ SkipSeparator(e) \/ OpenTable(e)
           \/ SkipEntry(e) \/ RefuseEntry(e) \/ TakeRow(e) \/ TakeCredit(e)
    PROVE  Follows(Append(paste, e), read')
  <1>1. read \in Reads
    BY DEF Follows
  <1>2. /\ e.kind \in Texts \cup Bars \cup {"row"}
        /\ e.kind = "row" => e.row \in Subjects
    BY LineKinds
  <1>3. /\ read.rows \in Seq(Subjects) /\ read.majors \in Seq({"major", "title", "label"})
        /\ read.credit \in Nat /\ read.table \in {"none", "enrolment", "credit"}
        /\ read.pending \in BOOLEAN /\ read.refused \in BOOLEAN
    BY <1>1 DEF Reads
  <1> USE DEF IsText, Heading, Entry, Fits, Headings, Texts, Bars
  <1>4. ASSUME ReadText(e) PROVE Reacts(e, read, read')
    <2> DEFINE majors == IF TakesMajor(e) THEN Append(read.majors, e.kind) ELSE read.majors
               pending == (e.kind = "emptyMajor")
    <2>1. e.kind \in Texts
          /\ read' = [read EXCEPT !.table = "none", !.pending = pending, !.majors = majors]
      BY <1>4 DEF ReadText, TableAfter
    <2>2. pending \in BOOLEAN
      OBVIOUS
    <2>3. TakesMajor(e) <=> e.kind = "major" \/ (e.kind \in {"title", "label"} /\ read.pending)
      BY DEF TakesMajor
    <2>4. majors \in Seq({"major", "title", "label"})
      BY <1>3, <2>3
    <2> HIDE DEF majors, pending
    <2>5. read' \in Reads /\ read'.table = "none" /\ read'.pending = pending
          /\ read'.majors = majors /\ read'.rows = read.rows /\ read'.credit = read.credit
          /\ read'.refused = read.refused
      BY <1>1, <2>1, <2>2, <2>4 DEF Reads
    <2>6. read'.pending <=> e.kind = "emptyMajor"
      BY <2>5 DEF pending
    <2>7. read'.majors = IF e.kind = "major" \/ (e.kind \in {"title", "label"} /\ read.pending)
                         THEN Append(read.majors, e.kind) ELSE read.majors
      BY <2>3, <2>5 DEF majors
    <2> QED
      BY <2>1, <2>5, <2>6, <2>7 DEF Reacts
  <1>5. ASSUME SkipSeparator(e) PROVE Reacts(e, read, read')
    <2>1. e.kind = "separator" /\ read' = read
      BY <1>5 DEF SkipSeparator
    <2> QED
      BY <1>1, <2>1 DEF Reacts
  <1>6. ASSUME OpenTable(e) PROVE Reacts(e, read, read')
    <2>1. e.kind \in Headings /\ read' = [read EXCEPT !.table = e.kind]
      BY <1>6 DEF OpenTable
    <2>2. read' \in Reads /\ read'.table = e.kind /\ read'.pending = read.pending
          /\ read'.majors = read.majors /\ read'.rows = read.rows /\ read'.credit = read.credit
          /\ read'.refused = read.refused
      BY <1>1, <2>1 DEF Reads
    <2> QED
      BY <2>1, <2>2 DEF Reacts
  <1>7. ASSUME SkipEntry(e) PROVE Reacts(e, read, read')
    <2>1. e.kind \in {"row", "creditRow", "alien"} /\ read.table = "none" /\ read' = read
      BY <1>7 DEF SkipEntry
    <2> QED
      BY <1>1, <2>1 DEF Reacts
  <1>8. ASSUME RefuseEntry(e) PROVE Reacts(e, read, read')
    <2>1. e.kind \in {"row", "creditRow", "alien"} /\ read.table # "none"
          /\ ~Fits(e, read.table) /\ read' = [read EXCEPT !.refused = TRUE]
      BY <1>8 DEF RefuseEntry
    <2>2. read' \in Reads /\ read'.table = read.table /\ read'.pending = read.pending
          /\ read'.majors = read.majors /\ read'.rows = read.rows /\ read'.credit = read.credit
          /\ read'.refused
      BY <1>1, <2>1 DEF Reads
    <2> QED
      BY <1>3, <2>1, <2>2 DEF Reacts
  <1>9. ASSUME TakeRow(e) PROVE Reacts(e, read, read')
    <2>1. e.kind = "row" /\ read.table = "enrolment"
          /\ read' = [read EXCEPT !.rows = Append(read.rows, e.row)]
      BY <1>9 DEF TakeRow
    <2>2. Append(read.rows, e.row) \in Seq(Subjects)
      BY <1>2, <1>3, <2>1
    <2>3. read' \in Reads /\ read'.table = read.table /\ read'.pending = read.pending
          /\ read'.majors = read.majors /\ read'.credit = read.credit
          /\ read'.refused = read.refused /\ read'.rows = Append(read.rows, e.row)
      BY <1>1, <2>1, <2>2 DEF Reads
    <2> QED
      BY <2>1, <2>3 DEF Reacts
  <1>10. ASSUME TakeCredit(e) PROVE Reacts(e, read, read')
    <2>1. e.kind = "creditRow" /\ read.table = "credit"
          /\ read' = [read EXCEPT !.credit = read.credit + 1]
      BY <1>10 DEF TakeCredit
    <2>2. read.credit + 1 \in Nat
      BY <1>3
    <2>3. read' \in Reads /\ read'.table = read.table /\ read'.pending = read.pending
          /\ read'.majors = read.majors /\ read'.rows = read.rows
          /\ read'.refused = read.refused /\ read'.credit = read.credit + 1
      BY <1>1, <2>1, <2>2 DEF Reads
    <2> QED
      BY <2>1, <2>3 DEF Reacts
  <1>11. Reacts(e, read, read')
    BY <1>4, <1>5, <1>6, <1>7, <1>8, <1>9, <1>10
  <1> QED
    BY <1>11, NextFollows

-----------------------------------------------------------------------------
(* The invariant                                                           *)

LEMMA InitHolds == Init => IInv
  BY NothingFollows DEF Init, IInv

LEMMA StepKeeps == IInv /\ [Next]_vars => IInv'
  <1> SUFFICES ASSUME IInv, [Next]_vars PROVE IInv'
    OBVIOUS
  <1>1. CASE UNCHANGED vars
    BY <1>1 DEF vars, IInv, TableRecord
  <1>2. ASSUME NEW e \in Lines, ReadLine(e) PROVE IInv'
    <2>1. /\ paste' = Append(paste, e) /\ layout' = layout
          /\ record = NoRecord /\ record' = NoRecord
      BY <1>2 DEF ReadLine
    <2>2. paste \in Seq(Lines) /\ layout \in {"table", "flat"}
      BY DEF IInv
    <2>3. paste' \in Seq(Lines)
      BY <2>1, <2>2
    <2>4. ASSUME layout = "table" PROVE Follows(paste, read)'
      <3>1. Follows(paste, read)
        BY <2>4 DEF IInv
      <3>2. \/ ReadText(e) \/ SkipSeparator(e) \/ OpenTable(e)
            \/ SkipEntry(e) \/ RefuseEntry(e) \/ TakeRow(e) \/ TakeCredit(e)
        BY <1>2, <2>4 DEF ReadLine
      <3>3. Follows(Append(paste, e), read')
        BY <2>2, <3>1, <3>2, LineFollows
      <3> QED
        BY <2>1, <3>3
    <2> QED
      BY <2>1, <2>2, <2>3, <2>4 DEF IInv
  <1>3. ASSUME Finish PROVE IInv'
    <2>1. UNCHANGED <<layout, paste, read>> /\ (layout = "table" => record' = TableRecord)
      BY <1>3 DEF Finish
    <2> QED
      BY <2>1 DEF IInv, TableRecord
  <1> QED
    BY <1>1, <1>2, <1>3 DEF Next

LEMMA InvariantHolds == Spec => []IInv
  <1> QED
    BY InitHolds, StepKeeps, PTL DEF Spec

\* What parse_enrolment (enrolment.py:483) promises of a paste that kept its tables, of any
\* length: the record is exactly the rows under the headings, in order, majors are read
\* from the lines that name them, and one line that cannot be read refuses the paste.
THEOREM ReadsItsTablesHolds == Spec => []ReadsItsTables
  <1>1. ASSUME IInv, layout = "table", record # NoRecord
        PROVE  LET history == EntriesUnder(paste, "enrolment")
                   credit == EntriesUnder(paste, "credit")
               IN  /\ read.majors = KindsOf(LinesAt(paste, MajorLines(paste)))
                   /\ record = IF \/ history = {}
                                  \/ \E i \in history : ~Fits(paste[i], "enrolment")
                                  \/ \E i \in credit : ~Fits(paste[i], "credit")
                               THEN Refused
                               ELSE Accepted(RowsOf(LinesAt(paste, history)), Cardinality(credit))
    <2> DEFINE history == EntriesUnder(paste, "enrolment")
               credit == EntriesUnder(paste, "credit")
               rows == RowsOf(LinesAt(paste, history))
               misfit == \/ \E i \in history : ~Fits(paste[i], "enrolment")
                         \/ \E i \in credit : ~Fits(paste[i], "credit")
    <2>1. record = TableRecord /\ Follows(paste, read) /\ paste \in Seq(Lines)
      BY <1>1 DEF IInv
    <2>2. read.majors = KindsOf(LinesAt(paste, MajorLines(paste)))
      BY <2>1 DEF Follows, MajorsSeen
    <2>3. read.refused <=> misfit
      BY <2>1 DEF Follows, HasMisfit, Misfits, Fitting, Headings
    <2>4. ASSUME ~misfit
          PROVE  /\ read.rows = rows /\ read.credit = Cardinality(credit)
                 /\ read.rows = <<>> <=> history = {}
      <3>1. Fitting(paste, "enrolment") = history /\ Fitting(paste, "credit") = credit
        BY <2>4 DEF Fitting
      <3>2. read.rows = rows /\ read.credit = Cardinality(credit) /\ Ranked(history)
        BY <2>1, <3>1 DEF Follows, RowsSeen, CreditSeen, AllRanked
      <3>3. history \in SUBSET (1..Len(paste))
        BY <2>1 DEF EntriesUnder
      <3> DEFINE l == LinesAt(paste, history)
      <3>4. l \in Seq(Lines) /\ Len(l) = Cardinality(history) /\ Cardinality(history) \in Nat
        <4> HIDE DEF history
        <4> QED
          BY <2>1, <3>2, <3>3, LinesAtIsList
      <3>5. Cardinality(history) = 0 <=> history = {}
        BY <3>2, FS_EmptySet DEF Ranked
      <3>6. rows = [n \in DOMAIN l |-> l[n].row]
        BY DEF RowsOf
      <3> HIDE DEF history, l, rows
      <3>7. DOMAIN rows = 1..Cardinality(history)
        BY <3>4, <3>6
      <3>8. rows = <<>> <=> Cardinality(history) = 0
        <4>1. ASSUME rows = <<>> PROVE Cardinality(history) = 0
          <5>1. DOMAIN rows = {}
            BY <4>1
          <5>2. 1..Cardinality(history) = {}
            BY <3>7, <5>1
          <5> QED
            BY <3>4, <5>2
        <4>2. ASSUME Cardinality(history) = 0 PROVE rows = <<>>
          <5>1. l = <<>>
            BY <3>4, <4>2
          <5> QED
            BY <5>1, <3>6
        <4> QED
          BY <4>1, <4>2
      <3> QED
        BY <3>2, <3>5, <3>8
    <2> HIDE DEF history, credit, rows, misfit
    <2>5. record = IF history = {} \/ misfit THEN Refused ELSE Accepted(rows, Cardinality(credit))
      BY <2>1, <2>3, <2>4 DEF TableRecord
    <2> QED
      BY <2>2, <2>5 DEF history, credit, rows, misfit
  <1>2. IInv => ReadsItsTables
    BY <1>1 DEF ReadsItsTables
  <1> QED
    BY <1>2, InvariantHolds, PTL

-----------------------------------------------------------------------------
(* The two parsers                                                         *)

LEMMA Extremes ==
    ASSUME NEW n \in Nat, NEW T, T \subseteq 1..n, T # {}
    PROVE  /\ Max(T) \in T /\ \A j \in T : j <= Max(T)
           /\ Min(T) \in T /\ \A j \in T : Min(T) <= j
  <1>1. T \subseteq 0..n /\ T \subseteq Int
    BY SMT
  <1>2. PICK a \in T : \A j \in T : j <= a
    BY <1>1, GreatestOf
  <1>3. PICK b \in T : \A j \in T : b <= j
    BY <1>1, LeastOf
  <1>4. \E x \in T : \A y \in T : x >= y
    BY <1>1, <1>2
  <1>5. Max(T) \in T /\ \A y \in T : Max(T) >= y
    BY <1>4 DEF Max
  <1>6. \E x \in T : \A y \in T : x <= y
    BY <1>1, <1>3
  <1>7. Min(T) \in T /\ \A y \in T : Min(T) <= y
    BY <1>6 DEF Min
  <1>8. \A y \in T : y <= Max(T)
    BY <1>1, <1>5
  <1> QED
    BY <1>5, <1>7, <1>8

Matches(s) == {i \in DOMAIN s : Matched(s[i])}
LastMatch(s) == CHOOSE i \in Matches(s) : \A j \in Matches(s) : j <= i

\* When the flat parser accepts a paste.
LEMMA FlatAccepts ==
    ASSUME NEW s \in Seq(Lines), IsRecord(FlatRecord(s))
    PROVE  /\ Matches(s) # {}
           /\ \A i, j \in Matches(s) : i < j => Between(s, i, j) \subseteq Matches(s)
           /\ ~CreditBehind(s, LastMatch(s))
           /\ FlatRecord(s).rows = RowsOf(LinesAt(s, Matches(s)))
  <1>1. FlatRecord(s) =
          IF \/ Matches(s) = {}
             \/ \E i, j \in Matches(s) : i < j /\ Between(s, i, j) \ Matches(s) # {}
             \/ CreditBehind(s, LastMatch(s))
          THEN Refused ELSE Accepted(RowsOf(LinesAt(s, Matches(s))), 0)
    BY DEF FlatRecord, Matches, LastMatch
  <1>2. ~IsRecord(Refused)
    BY DEF IsRecord, Refused
  <1>3. /\ Matches(s) # {} /\ ~CreditBehind(s, LastMatch(s))
        /\ ~\E i, j \in Matches(s) : i < j /\ Between(s, i, j) \ Matches(s) # {}
        /\ FlatRecord(s) = Accepted(RowsOf(LinesAt(s, Matches(s))), 0)
    BY <1>1, <1>2
  <1>4. FlatRecord(s).rows = RowsOf(LinesAt(s, Matches(s)))
    BY <1>3 DEF Accepted
  <1> QED
    BY <1>3, <1>4

LEMMA LastMatchIsLast ==
    ASSUME NEW s \in Seq(Lines), Matches(s) # {}
    PROVE  LastMatch(s) \in Matches(s) /\ \A j \in Matches(s) : j <= LastMatch(s)
  <1>1. Len(s) \in Nat /\ Matches(s) \subseteq 0..Len(s)
    BY DEF Matches
  <1>2. \E i \in Matches(s) : \A j \in Matches(s) : j <= i
    BY <1>1, GreatestOf
  <1> QED
    BY <1>2 DEF LastMatch

\* Between two matches every row matches: if the first and the last row do, all do.
LEMMA AllRowsMatch ==
    ASSUME paste \in Seq(Lines), IsRecord(FlatRecord(paste)),
           paste[Min(SubjectLines)].row.spelt, paste[Max(SubjectLines)].row.spelt
    PROVE  Matches(paste) = SubjectLines
  <1> DEFINE n == Len(paste)
  <1>1. n \in Nat /\ SubjectLines \subseteq 1..n /\ Matches(paste) \subseteq SubjectLines
    BY DEF SubjectLines, Matches, Matched
  <1>2. Matches(paste) # {}
        /\ \A i, j \in Matches(paste) : i < j => Between(paste, i, j) \subseteq Matches(paste)
    BY FlatAccepts
  <1> HIDE DEF n
  <1>3. /\ Max(SubjectLines) \in SubjectLines /\ \A j \in SubjectLines : j <= Max(SubjectLines)
        /\ Min(SubjectLines) \in SubjectLines /\ \A j \in SubjectLines : Min(SubjectLines) <= j
    BY <1>1, <1>2, Extremes
  <1>4. Max(SubjectLines) \in Matches(paste) /\ Min(SubjectLines) \in Matches(paste)
    BY <1>3 DEF Matches, Matched, SubjectLines
  <1>5. ASSUME NEW k \in SubjectLines PROVE k \in Matches(paste)
    <2>1. CASE k = Max(SubjectLines) \/ k = Min(SubjectLines)
      BY <2>1, <1>4
    <2>2. CASE k # Max(SubjectLines) /\ k # Min(SubjectLines)
      <3>1. Min(SubjectLines) < k /\ k < Max(SubjectLines)
            /\ Min(SubjectLines) \in Int /\ Max(SubjectLines) \in Int /\ k \in Int
        <4> DEFINE lo == Min(SubjectLines)
                   hi == Max(SubjectLines)
        <4>1. lo <= k /\ k <= hi /\ lo # k /\ hi # k
          BY <1>3, <2>2
        <4>2. lo \in SubjectLines /\ hi \in SubjectLines /\ SubjectLines \subseteq Int
          BY <1>1, <1>3, SMT
        <4> HIDE DEF lo, hi
        <4>3. lo \in Int /\ hi \in Int /\ k \in Int
          BY <4>2
        <4>4. lo < k /\ k < hi
          BY <4>1, <4>3
        <4> QED
          BY <4>3, <4>4 DEF lo, hi
      <3>2. Words(paste[k])
        BY DEF SubjectLines, Words
      <3>3. k \in Between(paste, Min(SubjectLines), Max(SubjectLines))
        BY <3>1, <3>2 DEF Between
      <3> QED
        BY <1>2, <1>4, <3>1, <3>3
    <2> QED
      BY <2>1, <2>2
  <1> QED
    BY <1>1, <1>5

\* Credit below the last row that the flat parser passed over has another section between
\* itself and any line that announces credit there.
LEMMA CreditStandsApart ==
    ASSUME paste \in Seq(Lines), IsRecord(FlatRecord(paste)),
           NEW i \in DOMAIN paste, Entry(paste[i]),
           NEW s \in Max(SubjectLines) + 1 .. i - 1, paste[s].kind = "creditSection"
    PROVE  \E k \in s + 1 .. i - 1 : paste[k].kind = "section"
  <1> DEFINE n == Len(paste)
             T == {k \in s .. i - 1 : paste[k].kind = "creditSection"}
             last == LastMatch(paste)
  <1>1. n \in Nat /\ SubjectLines \subseteq 1..n /\ Matches(paste) \subseteq SubjectLines
        /\ i \in 1..n /\ DOMAIN paste = 1..n
    BY DEF SubjectLines, Matches, Matched
  <1>2. Matches(paste) # {} /\ ~CreditBehind(paste, last)
    BY FlatAccepts
  <1>3. last \in Matches(paste)
    BY <1>2, LastMatchIsLast
  <1> HIDE DEF n, last
  <1>4. Max(SubjectLines) \in SubjectLines /\ last <= Max(SubjectLines)
    BY <1>1, <1>3, Extremes
  <1>5. s \in Int /\ last < s /\ 1 <= last /\ s < i /\ last \in Int
    <2> DEFINE hi == Max(SubjectLines)
    <2>1. hi \in 1..n /\ last \in 1..n /\ last <= hi
      BY <1>1, <1>3, <1>4
    <2>2. s \in hi + 1 .. i - 1
      OBVIOUS
    <2> HIDE DEF hi
    <2> QED
      BY <1>1, <2>1, <2>2
  <1>6. PICK m \in T : \A k \in T : k <= m
    <2>1. T \subseteq 0..n /\ T # {}
      BY <1>1, <1>5
    <2> HIDE DEF T
    <2> QED
      BY <1>1, <2>1, GreatestOf
  <1>7. m \in last + 1 .. n /\ paste[m].kind = "creditSection" /\ m \in Int /\ s <= m /\ m < i
    BY <1>1, <1>5, <1>6
  <1>8. i \in m + 1 .. n /\ HoldsDigit(paste[i])
    BY <1>1, <1>7 DEF Entry, HoldsDigit
  <1>9. PICK k \in m + 1 .. i : paste[k].kind \in {"section", "creditSection"}
    <2>1. ~\A k \in m + 1 .. i : paste[k].kind \notin {"section", "creditSection"}
      BY <1>2, <1>7, <1>8 DEF CreditBehind, n
    <2> QED
      BY <2>1
  <1>10. k # i /\ k \in s + 1 .. i - 1
    <2>1. k # i
      BY <1>9 DEF Entry
    <2> QED
      BY <2>1, <1>5, <1>7
  <1>11. paste[k].kind # "creditSection"
    <2>1. ASSUME paste[k].kind = "creditSection" PROVE FALSE
      <3>1. k \in T
        BY <1>5, <1>10, <2>1
      <3>2. k <= m
        BY <1>6, <3>1
      <3> QED
        BY <3>2, <1>7, <1>9
    <2> QED
      BY <2>1
  <1> QED
    BY <1>9, <1>10, <1>11

\* Where the table parser and the flat one both accept a paste, they read the same rows of it
\* if its first and its last row can be matched; and credit announced behind the history is
\* not dropped by the flat one (enrolment.py:377, "a refusal rather than a silent drop").
THEOREM LayoutsAgreeHolds == Spec => []LayoutsAgree
  <1>1. ASSUME IInv, ReadsItsTables, layout = "table", IsRecord(record),
               IsRecord(FlatRecord(paste))
        PROVE  /\ /\ SubjectLines = EntriesUnder(paste, "enrolment")
                  /\ paste[Min(SubjectLines)].row.spelt
                  /\ paste[Max(SubjectLines)].row.spelt
                  => FlatRecord(paste).rows = record.rows
               /\ \A i \in EntriesUnder(paste, "credit") :
                     \A s \in Max(SubjectLines) + 1 .. i-1 :
                       paste[s].kind = "creditSection" =>
                           \E k \in s+1 .. i-1 : paste[k].kind = "section"
    <2>1. paste \in Seq(Lines)
      BY <1>1 DEF IInv
    <2>2. record # NoRecord /\ record # Refused
      BY <1>1 DEF IsRecord, NoRecord, Refused
    <2>3. record.rows = RowsOf(LinesAt(paste, EntriesUnder(paste, "enrolment")))
      <3>1. record = Accepted(RowsOf(LinesAt(paste, EntriesUnder(paste, "enrolment"))),
                              Cardinality(EntriesUnder(paste, "credit")))
        BY <1>1, <2>2 DEF ReadsItsTables
      <3> QED
        BY <3>1 DEF Accepted
    <2>4. ASSUME SubjectLines = EntriesUnder(paste, "enrolment"),
                 paste[Min(SubjectLines)].row.spelt, paste[Max(SubjectLines)].row.spelt
          PROVE  FlatRecord(paste).rows = record.rows
      <3>1. Matches(paste) = SubjectLines
        BY <1>1, <2>1, <2>4, AllRowsMatch
      <3>2. FlatRecord(paste).rows = RowsOf(LinesAt(paste, Matches(paste)))
        BY <1>1, <2>1, FlatAccepts
      <3> QED
        BY <2>3, <2>4, <3>1, <3>2
    <2>5. ASSUME NEW i \in EntriesUnder(paste, "credit"),
                 NEW s \in Max(SubjectLines) + 1 .. i-1, paste[s].kind = "creditSection"
          PROVE  \E k \in s+1 .. i-1 : paste[k].kind = "section"
      <3>1. i \in DOMAIN paste /\ Entry(paste[i])
        BY DEF EntriesUnder
      <3> QED
        BY <1>1, <2>1, <2>5, <3>1, CreditStandsApart
    <2> QED
      BY <2>4, <2>5
  <1>2. IInv /\ ReadsItsTables => LayoutsAgree
    BY <1>1 DEF LayoutsAgree
  <1> QED
    BY <1>2, InvariantHolds, ReadsItsTablesHolds, PTL

-----------------------------------------------------------------------------
(* Sums                                                                    *)

\* What holds of a finite set whenever it holds of its smaller subsets.
LEMMA SmallerFirst ==
    ASSUME NEW S, IsFiniteSet(S), NEW P,
           \A T \in SUBSET S : (\A U \in SUBSET T : U # T => U \in P) => T \in P
    PROVE  \A T \in SUBSET S : T \in P
  <1> DEFINE Out == {T \in SUBSET S : T \notin P}
  <1>1. IsWellFoundedOn(StrictSubsetOrdering(S), FiniteSubsetsOf(S))
    BY FS_StrictSubsetOrderingWellFounded
  <1>2. Out \subseteq FiniteSubsetsOf(S)
    <2> SUFFICES ASSUME NEW T \in SUBSET S PROVE T \in FiniteSubsetsOf(S)
      OBVIOUS
    <2>1. IsFiniteSet(T)
      BY FS_Subset
    <2> QED
      BY <2>1 DEF FiniteSubsetsOf
  <1>3. SUFFICES ASSUME Out # {} PROVE FALSE
    OBVIOUS
  <1>4. PICK T \in Out : \A U \in Out : <<U, T>> \notin StrictSubsetOrdering(S)
    <2> HIDE DEF Out
    <2> QED
      BY <1>1, <1>2, <1>3, WFMin
  <1>5. ASSUME NEW U \in SUBSET T, U # T PROVE U \in P
    <2>1. <<U, T>> \in StrictSubsetOrdering(S)
      BY <1>5 DEF StrictSubsetOrdering
    <2>2. U \notin Out
      BY <1>4, <2>1
    <2> QED
      BY <2>2
  <1> QED
    BY <1>5

Pick(s) == CHOOSE x \in s : TRUE

LEMMA PickIsThere == \A s : s # {} => Pick(s) \in s
  BY DEF Pick

\* The sums of f over the subsets of S.
Adds(it, f, S) ==
    it = [s \in SUBSET S |-> IF s = {} THEN 0 ELSE f[Pick(s)] + it[s \ {Pick(s)}]]

Tally(f, S) == (CHOOSE it : Adds(it, f, S))[S]

LEMMA AddsIs ==
    ASSUME NEW it, NEW f, NEW S, Adds(it, f, S), NEW T \in SUBSET S
    PROVE  it[T] = IF T = {} THEN 0 ELSE f[Pick(T)] + it[T \ {Pick(T)}]
  <1> DEFINE F == [s \in SUBSET S |-> IF s = {} THEN 0 ELSE f[Pick(s)] + it[s \ {Pick(s)}]]
  <1>1. it = F
    BY DEF Adds
  <1>2. F[T] = IF T = {} THEN 0 ELSE f[Pick(T)] + it[T \ {Pick(T)}]
    OBVIOUS
  <1> HIDE DEF F
  <1> QED
    BY <1>1, <1>2

\* Sums over a common subset agree.
LEMMA AddsAgree ==
    ASSUME NEW S, IsFiniteSet(S), NEW f, NEW A, NEW B, S \subseteq A, S \subseteq B,
           NEW a, Adds(a, f, A), NEW b, Adds(b, f, B)
    PROVE  \A T \in SUBSET S : a[T] = b[T]
  <1> DEFINE P == {T \in SUBSET S : a[T] = b[T]}
  <1>1. ASSUME NEW T \in SUBSET S, \A U \in SUBSET T : U # T => U \in P PROVE T \in P
    <2>1. T \in SUBSET A /\ T \in SUBSET B
      OBVIOUS
    <2>2. a[T] = IF T = {} THEN 0 ELSE f[Pick(T)] + a[T \ {Pick(T)}]
      BY ZenonT(90), <2>1, AddsIs
    <2>3. b[T] = IF T = {} THEN 0 ELSE f[Pick(T)] + b[T \ {Pick(T)}]
      BY ZenonT(90), <2>1, AddsIs
    <2>4. T # {} => T \ {Pick(T)} \in P
      BY <1>1, PickIsThere
    <2> QED
      BY <2>2, <2>3, <2>4
  <1> HIDE DEF P
  <1>2. \A T \in SUBSET S : T \in P
    BY <1>1, SmallerFirst
  <1> QED
    BY <1>2 DEF P

\* There are such sums.
LEMMA AddsExists ==
    ASSUME NEW S, IsFiniteSet(S), NEW f
    PROVE  \E it : Adds(it, f, S)
  <1> DEFINE P == {T \in SUBSET S : \E it : Adds(it, f, T)}
  <1>1. ASSUME NEW T \in SUBSET S, \A U \in SUBSET T : U # T => U \in P PROVE T \in P
    <2> DEFINE For(U) == CHOOSE it : Adds(it, f, U)
               val(s) == IF s = {} THEN 0 ELSE f[Pick(s)] + For(s \ {Pick(s)})[s \ {Pick(s)}]
               it == [s \in SUBSET T |-> val(s)]
    <2>1. ASSUME NEW U \in SUBSET T, U # T PROVE Adds(For(U), f, U)
      BY <1>1, <2>1
    <2> HIDE DEF For
    <2>2. ASSUME NEW s \in SUBSET T, s # {}
          PROVE  For(s \ {Pick(s)})[s \ {Pick(s)}] = it[s \ {Pick(s)}]
      <3> DEFINE u == s \ {Pick(s)}
      <3>1. u \in SUBSET T /\ u # T /\ IsFiniteSet(u)
        BY <2>2, PickIsThere, FS_Subset
      <3> HIDE DEF u
      <3>2. Adds(For(u), f, u)
        BY <2>1, <3>1
      <3>3. For(u)[u] = IF u = {} THEN 0 ELSE f[Pick(u)] + For(u)[u \ {Pick(u)}]
        BY <3>2, AddsIs
      <3>4. u # {} => For(u)[u \ {Pick(u)}] = For(u \ {Pick(u)})[u \ {Pick(u)}]
        <4> SUFFICES ASSUME u # {}
                     PROVE  For(u)[u \ {Pick(u)}] = For(u \ {Pick(u)})[u \ {Pick(u)}]
          OBVIOUS
        <4> DEFINE v == u \ {Pick(u)}
        <4>1. v \in SUBSET T /\ v # T /\ IsFiniteSet(v) /\ v \subseteq u
          BY <3>1, PickIsThere, FS_Subset
        <4> HIDE DEF v
        <4>2. Adds(For(v), f, v)
          BY <2>1, <4>1
        <4>3. \A w \in SUBSET v : For(u)[w] = For(v)[w]
          BY <3>2, <4>1, <4>2, AddsAgree
        <4>4. For(u)[v] = For(v)[v]
          BY <4>3
        <4> QED
          BY <4>4 DEF v
      <3>5. it[u] = val(u)
        BY <3>1
      <3>6. For(u)[u] = it[u]
        BY <3>3, <3>4, <3>5
      <3> QED
        BY <3>6 DEF u
    <2>3. it = [s \in SUBSET T |-> IF s = {} THEN 0 ELSE f[Pick(s)] + it[s \ {Pick(s)}]]
      <3>1. \A s \in SUBSET T : val(s) = IF s = {} THEN 0 ELSE f[Pick(s)] + it[s \ {Pick(s)}]
        BY <2>2
      <3> DEFINE now == it
      <3>2. \A s \in SUBSET T : val(s) = IF s = {} THEN 0 ELSE f[Pick(s)] + now[s \ {Pick(s)}]
        BY <3>1
      <3>3. now = [s \in SUBSET T |-> val(s)]
        OBVIOUS
      <3> HIDE DEF now, val
      <3>4. now = [s \in SUBSET T |-> IF s = {} THEN 0 ELSE f[Pick(s)] + now[s \ {Pick(s)}]]
        BY <3>2, <3>3
      <3> QED
        BY <3>4 DEF now
    <2> HIDE DEF it
    <2>4. Adds(it, f, T)
      BY <2>3 DEF Adds
    <2> QED
      BY <2>4
  <1> HIDE DEF P
  <1>2. \A T \in SUBSET S : T \in P
    BY <1>1, SmallerFirst
  <1>3. S \in P
    BY <1>2
  <1> QED
    BY <1>3 DEF P

LEMMA SumIs ==
    ASSUME NEW S, IsFiniteSet(S), NEW f
    PROVE  Tally(f, S) = IF S = {} THEN 0 ELSE f[Pick(S)] + Tally(f, S \ {Pick(S)})
  <1> DEFINE For(U) == CHOOSE it : Adds(it, f, U)
             v == S \ {Pick(S)}
  <1>1. v \in SUBSET S /\ IsFiniteSet(v) /\ S \in SUBSET S
    BY FS_Subset
  <1> HIDE DEF v
  <1>2. Adds(For(S), f, S) /\ Adds(For(v), f, v)
    BY <1>1, AddsExists
  <1> HIDE DEF For
  <1>3. For(S)[S] = IF S = {} THEN 0 ELSE f[Pick(S)] + For(S)[S \ {Pick(S)}]
    BY <1>1, <1>2, AddsIs
  <1>4. \A w \in SUBSET v : For(S)[w] = For(v)[w]
    BY <1>1, <1>2, AddsAgree
  <1>5. For(S)[v] = For(v)[v]
    BY <1>4
  <1> QED
    BY <1>3, <1>5 DEF v, For, Tally

LEMMA SumFunctionIs ==
    ASSUME NEW f
    PROVE  SumFunction(f) = Tally(f, DOMAIN f)
  BY DEF SumFunction, SumFunctionOnSet, FoldFunctionOnSet, MapThenFoldSet, Pick, Tally, Adds

\* Any element may be added last.
LEMMA SumAdd ==
    ASSUME NEW S, IsFiniteSet(S), NEW f, \A x \in S : f[x] \in Int
    PROVE  /\ Tally(f, S) \in Int
           /\ \A x \in S : Tally(f, S) = f[x] + Tally(f, S \ {x})
  <1> DEFINE P == {T \in SUBSET S : /\ Tally(f, T) \in Int
                                    /\ \A x \in T : Tally(f, T) = f[x] + Tally(f, T \ {x})}
  <1>1. ASSUME NEW T \in SUBSET S, \A U \in SUBSET T : U # T => U \in P PROVE T \in P
    <2>1. IsFiniteSet(T)
      BY FS_Subset
    <2>2. Tally(f, T) = IF T = {} THEN 0 ELSE f[Pick(T)] + Tally(f, T \ {Pick(T)})
      BY <2>1, SumIs
    <2>3. CASE T = {}
      BY <2>2, <2>3
    <2>4. CASE T # {}
      <3> DEFINE p == Pick(T)
      <3>1. p \in T
        BY <2>4, PickIsThere
      <3> HIDE DEF p
      <3>2. Tally(f, T) = f[p] + Tally(f, T \ {p})
        BY <2>2, <2>4 DEF p
      <3>3. \A U \in SUBSET T : U # T =>
              Tally(f, U) \in Int /\ \A x \in U : Tally(f, U) = f[x] + Tally(f, U \ {x})
        BY <1>1
      <3>4. T \ {p} \in SUBSET T /\ T \ {p} # T
        BY <3>1
      <3>5. Tally(f, T \ {p}) \in Int /\ f[p] \in Int
        BY <3>1, <3>3, <3>4
      <3>6. ASSUME NEW x \in T, x # p PROVE Tally(f, T) = f[x] + Tally(f, T \ {x})
        <4> DEFINE R == (T \ {p}) \ {x}
        <4>1. Tally(f, T \ {p}) = f[x] + Tally(f, R)
          BY <3>3, <3>4, <3>6
        <4>2. T \ {x} \in SUBSET T /\ T \ {x} # T /\ p \in T \ {x} /\ (T \ {x}) \ {p} = R
          BY <3>1, <3>6
        <4>3. Tally(f, T \ {x}) = f[p] + Tally(f, R)
          BY <3>3, <4>2
        <4>4. R \in SUBSET T /\ R # T
          BY <3>1
        <4>5. Tally(f, R) \in Int
          BY <3>3, <4>4
        <4>6. f[x] \in Int
          OBVIOUS
        <4> DEFINE r == Tally(f, R)
                   fx == f[x]
                   fp == f[p]
        <4> HIDE DEF r, fx, fp
        <4>7. Tally(f, T) = fp + (fx + r) /\ Tally(f, T \ {x}) = fp + r
          BY <3>2, <4>1, <4>3 DEF r, fx, fp
        <4>8. r \in Int /\ fx \in Int /\ fp \in Int
          BY <3>5, <4>5, <4>6 DEF r, fx, fp
        <4>9. fp + (fx + r) = fx + (fp + r)
          BY <4>8
        <4> QED
          BY <4>7, <4>9 DEF fx
      <3>7. Tally(f, T) \in Int
        BY <3>2, <3>5
      <3> QED
        BY <3>2, <3>6, <3>7
    <2> QED
      BY <2>3, <2>4
  <1> HIDE DEF P
  <1>2. \A T \in SUBSET S : T \in P
    BY <1>1, SmallerFirst
  <1>3. S \in P
    BY <1>2
  <1> QED
    BY <1>3 DEF P

LEMMA SumNothing == \A f : Tally(f, {}) = 0
  <1> TAKE f
  <1> QED
    BY FS_EmptySet, SumIs

\* A sum over a renamed set.
LEMMA SumRenamed ==
    ASSUME NEW S, IsFiniteSet(S), NEW f, NEW h, NEW g,
           \A x \in S : f[x] \in Int /\ g[h[x]] = f[x],
           \A x, y \in S : h[x] = h[y] => x = y
    PROVE  Tally(g, {h[x] : x \in S}) = Tally(f, S)
  <1> DEFINE Im(T) == {h[x] : x \in T}
             P == {T \in SUBSET S : Tally(g, Im(T)) = Tally(f, T)}
  <1>1. ASSUME NEW T \in SUBSET S, \A U \in SUBSET T : U # T => U \in P PROVE T \in P
    <2>1. IsFiniteSet(T)
      BY FS_Subset
    <2>2. CASE T = {}
      <3>1. Im(T) = {}
        BY <2>2
      <3> QED
        BY <2>2, <3>1, SumNothing
    <2>3. CASE T # {}
      <3>1. PICK x : x \in T
        BY <2>3
      <3> DEFINE U == T \ {x}
      <3>2. U \in SUBSET T /\ U # T
        BY <3>1
      <3>3. Tally(g, Im(U)) = Tally(f, U)
        <4> HIDE DEF U, Im
        <4> QED
          BY <1>1, <3>2
      <3>4. \A y \in T : f[y] \in Int
        OBVIOUS
      <3>5. Tally(f, T) = f[x] + Tally(f, U)
        <4> HIDE DEF P, Im
        <4> QED
          BY <2>1, <3>1, <3>4, SumAdd
      <3>6. IsFiniteSet(Im(T))
        <4> DEFINE F == [y \in T |-> h[y]]
        <4>1. F \in Surjection(T, Im(T))
          BY DEF Surjection
        <4> HIDE DEF Im, F
        <4> QED
          BY <2>1, <4>1, FS_Surjection
      <3>7. ASSUME NEW y \in Im(T) PROVE g[y] \in Int
        <4>1. PICK z \in T : y = h[z]
          OBVIOUS
        <4> HIDE DEF Im, P
        <4>2. g[h[z]] = f[z] /\ f[z] \in Int
          OBVIOUS
        <4> QED
          BY <4>1, <4>2
      <3>8. h[x] \in Im(T) /\ Im(T) \ {h[x]} = Im(U) /\ g[h[x]] = f[x]
        BY <3>1
      <3> HIDE DEF Im
      <3>9. Tally(g, Im(T)) = g[h[x]] + Tally(g, Im(T) \ {h[x]})
        BY <3>6, <3>7, <3>8, SumAdd
      <3> HIDE DEF U
      <3>10. Tally(g, Im(T)) = Tally(f, T)
        BY <3>3, <3>5, <3>8, <3>9
      <3> QED
        BY <3>10
    <2> QED
      BY <2>2, <2>3
  <1> HIDE DEF P
  <1>2. \A T \in SUBSET S : T \in P
    BY <1>1, SmallerFirst
  <1>3. S \in P
    BY <1>2
  <1> QED
    BY <1>3 DEF P

\* Numbers up to a hundred times others add up to at most a hundred times their sum.
LEMMA SumBounded ==
    ASSUME NEW S, IsFiniteSet(S), NEW c, NEW w,
           \A x \in S : c[x] \in Nat /\ w[x] \in Nat /\ w[x] <= 100 * c[x]
    PROVE  Tally(c, S) \in Nat /\ Tally(w, S) \in Nat /\ Tally(w, S) <= 100 * Tally(c, S)
  <1> DEFINE Ok(T) == /\ Tally(c, T) \in Nat /\ Tally(w, T) \in Nat
                      /\ Tally(w, T) <= 100 * Tally(c, T)
             P == {T \in SUBSET S : Ok(T)}
  <1>1. ASSUME NEW T \in SUBSET S, \A U \in SUBSET T : U # T => U \in P PROVE T \in P
    <2>1. IsFiniteSet(T)
      BY FS_Subset
    <2>2. CASE T = {}
      BY <2>2, SumNothing
    <2>3. CASE T # {}
      <3>1. PICK x : x \in T
        BY <2>3
      <3> DEFINE U == T \ {x}
      <3>2. Ok(U)
        <4>1. U \in SUBSET T /\ U # T
          BY <3>1
        <4> HIDE DEF U, Ok
        <4> QED
          BY <1>1, <4>1
      <3>3. (\A y \in T : c[y] \in Int) /\ (\A y \in T : w[y] \in Int)
        OBVIOUS
      <3>4. Tally(c, T) = c[x] + Tally(c, U) /\ Tally(w, T) = w[x] + Tally(w, U)
        <4> HIDE DEF P, Ok
        <4> QED
          BY <2>1, <3>1, <3>3, SumAdd
      <3>5. c[x] \in Nat /\ w[x] \in Nat /\ w[x] <= 100 * c[x]
        BY <3>1
      <3> HIDE DEF U
      <3> DEFINE a == Tally(c, U)
                 b == Tally(w, U)
                 cx == c[x]
                 wx == w[x]
      <3> HIDE DEF a, b, cx, wx
      <3>6. a \in Nat /\ b \in Nat /\ b <= 100 * a
            /\ cx \in Nat /\ wx \in Nat /\ wx <= 100 * cx
        BY <3>2, <3>5 DEF a, b, cx, wx
      <3>7. cx + a \in Nat /\ wx + b \in Nat /\ wx + b <= 100 * (cx + a)
        BY <3>6
      <3>8. Tally(c, T) = cx + a /\ Tally(w, T) = wx + b
        BY <3>4 DEF a, b, cx, wx
      <3>9. Ok(T)
        BY <3>7, <3>8
      <3> QED
        BY <3>9
    <2> QED
      BY <2>2, <2>3
  <1> HIDE DEF P
  <1>2. \A T \in SUBSET S : T \in P
    BY <1>1, SmallerFirst
  <1>3. S \in P
    BY <1>2
  <1> QED
    BY <1>3 DEF P

LEMMA Division ==
    ASSUME NEW a \in Nat, NEW t \in Nat, t > 0
    PROVE  LET q == a \div t IN q \in Nat /\ q * t <= a /\ a < (q + 1) * t
  OBVIOUS

-----------------------------------------------------------------------------
(* The rows that count                                                     *)

\* The places of a record's rows that count, and what counts of them.
Final(rows) == {i \in First(rows) : rows[i].status \in CountedStatuses}
Marked(rows) == {i \in Final(rows) : CountedMark(rows[i]) # NoMark}
Credits(rows) == [i \in Marked(rows) |-> rows[i].cp]
Weights(rows) == [i \in Marked(rows) |-> rows[i].cp * CountedMark(rows[i])]

Mean(weighted, total) ==
    IF total = 0 THEN NotAvailable ELSE Average(Hundredths(weighted, total), total)

MarkOff(row) == row.mark \notin 0..100 \union {NoMark}
Differ(r, q) == r.key = q.key /\ <<r.mark, r.cp>> # <<q.mark, q.cp>>

\* The note on the average of these rows, as the program makes it.
Note(rows) ==
    IF \/ \E i \in DOMAIN rows : MarkOff(rows[i])
       \/ \E i \in First(rows), j \in DOMAIN rows : Differ(rows[j], rows[i])
       \/ \E i \in Final(rows) : Untrusted(rows[i])
    THEN Unreadable
    ELSE Mean(SumFunction(Weights(rows)), SumFunction(Credits(rows)))

LEMMA NoteForIs == \A parsed : NoteFor(parsed) = Note(parsed.rows)
  <1> TAKE parsed
  <1> DEFINE rows == parsed.rows
             off == \E i \in DOMAIN rows : MarkOff(rows[i])
             clash == \E i \in First(rows), j \in DOMAIN rows : Differ(rows[j], rows[i])
             doubt == \E i \in Final(rows) : Untrusted(rows[i])
  <1>1. NoteFor(parsed) = IF off THEN Unreadable ELSE CalculateWam(rows)
    BY DEF NoteFor, MarkOff
  <1>2. Unique(rows).clash <=> clash
    BY DEF Unique, Differ
  <1>3. Unique(rows).kept = First(rows)
    BY DEF Unique
  <1>4. CalculateWam(rows) =
          IF Unique(rows).clash \/ doubt THEN Unreadable
          ELSE Mean(SumFunction(Weights(rows)), SumFunction(Credits(rows)))
    BY <1>3 DEF CalculateWam, Mean, Final, Marked, Weights, Credits
  <1> HIDE DEF off, clash, doubt
  <1>5. NoteFor(parsed) = IF off \/ clash \/ doubt THEN Unreadable
                          ELSE Mean(SumFunction(Weights(rows)), SumFunction(Credits(rows)))
    BY <1>1, <1>2, <1>4
  <1> QED
    BY <1>5 DEF Note, off, clash, doubt

\* Every row has a first one of its subject.
LEMMA FirstIsThere ==
    ASSUME NEW M, NEW rows \in Seq(M), NEW j \in DOMAIN rows
    PROVE  \E i \in First(rows) : rows[i].key = rows[j].key
  <1> DEFINE T == {i \in DOMAIN rows : rows[i].key = rows[j].key}
  <1>1. Len(rows) \in Nat /\ T \subseteq 0..Len(rows) /\ T # {} /\ DOMAIN rows = 1..Len(rows)
    OBVIOUS
  <1> HIDE DEF T
  <1>2. PICK i \in T : \A k \in T : i <= k
    BY <1>1, LeastOf
  <1> USE DEF T
  <1>3. ASSUME NEW k \in 1..i - 1 PROVE rows[k].key # rows[i].key
    <2>1. k \in DOMAIN rows /\ ~(i <= k)
      BY <1>1
    <2>2. k \notin T
      BY <1>2, <2>1
    <2> QED
      BY <2>1, <2>2
  <1> QED
    BY <1>3 DEF First

LEMMA PlacesAreFinite ==
    ASSUME NEW M, NEW rows \in Seq(M)
    PROVE  /\ IsFiniteSet(DOMAIN rows) /\ First(rows) \subseteq DOMAIN rows
           /\ Marked(rows) \subseteq First(rows) /\ IsFiniteSet(Marked(rows))
  <1>1. First(rows) \subseteq DOMAIN rows /\ Marked(rows) \subseteq First(rows)
    BY DEF First, Marked, Final
  <1>2. DOMAIN rows = 1..Len(rows) /\ Len(rows) \in Nat
    OBVIOUS
  <1>3. IsFiniteSet(1..Len(rows))
    BY <1>2, FS_Interval
  <1>4. IsFiniteSet(DOMAIN rows) /\ Marked(rows) \subseteq DOMAIN rows
    BY <1>1, <1>2, <1>3
  <1>5. IsFiniteSet(Marked(rows))
    BY <1>4, FS_Subset
  <1> QED
    BY <1>1, <1>4, <1>5

-----------------------------------------------------------------------------
(* A record pasted twice                                                   *)

LEMMA TwiceIsOnce ==
    ASSUME NEW M, NEW rows \in Seq(M)
    PROVE  Note(rows \o rows) = Note(rows)
  <1> DEFINE n == Len(rows)
             t == rows \o rows
  <1>1. /\ n \in Nat /\ DOMAIN rows = 1..n /\ DOMAIN t = 1..n + n
        /\ \A i \in 1..n : t[i] = rows[i] /\ t[n + i] = rows[i]
    OBVIOUS
  <1> HIDE DEF n, t
  <1>2. ASSUME NEW i \in 1..n + n
        PROVE  i \in 1..n \/ \E k \in 1..n : k < i /\ i = n + k /\ t[i] = rows[k] /\ t[k] = t[i]
    <2>1. i \in 1..n \/ (i - n \in 1..n /\ i - n < i /\ i = n + (i - n))
      <3>1. i \notin 1..n => n < i
        BY <1>1
      <3> QED
        BY <3>1, <1>1
    <2>2. i - n \in 1..n => t[n + (i - n)] = rows[i - n] /\ t[i - n] = rows[i - n]
      BY <1>1
    <2> QED
      BY <2>1, <2>2
  <1>3. First(t) = First(rows)
    <2>1. ASSUME NEW i \in First(t) PROVE i \in First(rows)
      <3>1. i \in 1..n + n /\ \A j \in 1 .. i-1 : t[j].key # t[i].key
        BY <1>1 DEF First
      <3>2. i \in 1..n
        <4>1. ASSUME NEW k \in 1..n, k < i, t[k] = t[i] PROVE FALSE
          <5>1. k \in 1 .. i-1
            BY <3>1, <4>1
          <5> QED
            BY <3>1, <4>1, <5>1
        <4> QED
          BY <1>2, <3>1, <4>1
      <3>3. \A j \in 1 .. i-1 : j \in 1..n
        BY <1>1, <3>2
      <3>4. \A j \in 1 .. i-1 : rows[j].key # rows[i].key
        BY <1>1, <3>1, <3>2, <3>3
      <3> QED
        BY <1>1, <3>2, <3>4 DEF First
    <2>2. ASSUME NEW i \in First(rows) PROVE i \in First(t)
      <3>1. i \in 1..n /\ \A j \in 1 .. i-1 : rows[j].key # rows[i].key
        BY <1>1 DEF First
      <3>2. \A j \in 1 .. i-1 : j \in 1..n
        BY <1>1, <3>1
      <3>3. \A j \in 1 .. i-1 : t[j].key # t[i].key
        BY <1>1, <3>1, <3>2
      <3>4. i \in 1..n + n
        BY <1>1, <3>1
      <3> QED
        BY <1>1, <3>3, <3>4 DEF First
    <2> QED
      BY <2>1, <2>2
  <1>4. \A i \in First(rows) : i \in 1..n /\ t[i] = rows[i]
    BY <1>1 DEF First
  <1>5. Final(t) = Final(rows)
    BY <1>3, <1>4 DEF Final
  <1>6. \A i \in Final(rows) : t[i] = rows[i]
    BY <1>4 DEF Final
  <1>7. Marked(t) = Marked(rows)
    BY <1>5, <1>6 DEF Marked
  <1>8. \A i \in Marked(rows) : t[i] = rows[i]
    BY <1>6 DEF Marked
  <1>9. Credits(t) = Credits(rows) /\ Weights(t) = Weights(rows)
    BY <1>7, <1>8 DEF Credits, Weights
  <1>10. ASSUME NEW i \in DOMAIN t PROVE \E j \in DOMAIN rows : t[i] = rows[j]
    BY <1>1, <1>2
  <1>11. \A j \in DOMAIN rows : j \in DOMAIN t /\ t[j] = rows[j]
    BY <1>1
  <1>12. (\E i \in DOMAIN t : MarkOff(t[i])) <=> \E i \in DOMAIN rows : MarkOff(rows[i])
    BY <1>10, <1>11
  <1>13. (\E i \in First(t), j \in DOMAIN t : Differ(t[j], t[i]))
          <=> \E i \in First(rows), j \in DOMAIN rows : Differ(rows[j], rows[i])
    BY <1>3, <1>4, <1>10, <1>11
  <1>14. (\E i \in Final(t) : Untrusted(t[i])) <=> \E i \in Final(rows) : Untrusted(rows[i])
    BY <1>5, <1>6
  <1>15. Note(t) = Note(rows)
    BY <1>9, <1>12, <1>13, <1>14 DEF Note
  <1> QED
    BY <1>15 DEF t

-----------------------------------------------------------------------------
(* The average of a set of rows                                            *)

Score(row) == [key |-> row.key, cp |-> row.cp, mark |-> CountedMark(row)]
Scores(R) ==
    {Score(r) : r \in {q \in R : q.status \in CountedStatuses /\ CountedMark(q) # NoMark}}
ScoreCredits(R) == [r \in Scores(R) |-> r.cp]
ScoreWeights(R) == [r \in Scores(R) |-> r.cp * r.mark]

\* What makes a set of rows unreadable.
Doubtful(R) ==
    \/ \E r \in R : MarkOff(r)
    \/ \E r, q \in R : Differ(r, q)
    \/ \E r \in R : r.status \in CountedStatuses /\ Untrusted(r)

NoteOf(R) ==
    IF Doubtful(R) THEN Unreadable
    ELSE Mean(SumFunction(ScoreWeights(R)), SumFunction(ScoreCredits(R)))

Silent(R) ==
    \E r, q \in R : /\ r.key = q.key /\ r.mark = q.mark /\ r.cp = q.cp
                    /\ <<r.grade, r.status>> # <<q.grade, q.status>>

LEMMA SilentIs == \A rows : SilentConflict(rows) <=> Silent(ToSet(rows))
  BY DEF SilentConflict, Silent, ToSet

Alike(r, q) == r.cp = q.cp /\ r.mark = q.mark /\ r.grade = q.grade /\ r.status = q.status

LEMMA AlikeRows ==
    ASSUME NEW r, NEW q, Alike(r, q)
    PROVE  /\ CountedMark(r) = CountedMark(q) /\ (Untrusted(r) <=> Untrusted(q))
  BY DEF Alike, CountedMark, Untrusted

LEMMA SubjectsAlike ==
    ASSUME NEW R, ~Silent(R), ~\E r, q \in R : Differ(r, q),
           NEW r \in R, NEW q \in R, r.key = q.key
    PROVE  Alike(r, q)
  <1>1. <<r.mark, r.cp>> = <<q.mark, q.cp>>
    BY DEF Differ
  <1>2. r.mark = q.mark /\ r.cp = q.cp
    BY <1>1
  <1>3. <<r.grade, r.status>> = <<q.grade, q.status>>
    BY <1>2 DEF Silent
  <1> QED
    BY <1>2, <1>3 DEF Alike

\* Marks and credit points of rows without doubt.
LEMMA ScoreBounds ==
    ASSUME NEW r \in Subjects, ~MarkOff(r), CountedMark(r) # NoMark
    PROVE  /\ r.cp \in Nat /\ CountedMark(r) \in 0..100
           /\ r.cp * CountedMark(r) \in Nat /\ r.cp * CountedMark(r) <= 100 * r.cp
  <1>1. r.cp \in Nat /\ CountedMark(r) \in 0..100
    BY SubjectsAssumption DEF SubjectRow, MarkOff, CountedMark, TECHNICAL_FAIL_MARK
  <1> DEFINE a == r.cp
             m == CountedMark(r)
  <1> HIDE DEF a, m
  <1>2. a \in Nat /\ m \in 0..100
    BY <1>1 DEF a, m
  <1>3. a * m \in Nat /\ a * m <= 100 * a
    BY <1>2
  <1> QED
    BY <1>1, <1>3 DEF a, m

LEMMA NoteIsOfSet ==
    ASSUME NEW rows \in Seq(Subjects), ~SilentConflict(rows)
    PROVE  Note(rows) = NoteOf(ToSet(rows))
  <1> DEFINE R == ToSet(rows)
  <1>1. R = {rows[i] : i \in DOMAIN rows} /\ ~Silent(R) /\ R \subseteq Subjects
    <2>1. R \subseteq Subjects
      BY DEF ToSet
    <2> QED
      BY <2>1, SilentIs DEF ToSet
  <1> HIDE DEF R
  <1>2. \A j \in DOMAIN rows : rows[j] \in R /\ \E i \in First(rows) : rows[i].key = rows[j].key
    BY <1>1, FirstIsThere
  <1>3. First(rows) \subseteq DOMAIN rows /\ Marked(rows) \subseteq First(rows)
        /\ IsFiniteSet(Marked(rows))
    BY PlacesAreFinite
  <1>4. (\E i \in DOMAIN rows : MarkOff(rows[i])) <=> \E r \in R : MarkOff(r)
    BY <1>1
  <1>5. (\E i \in First(rows), j \in DOMAIN rows : Differ(rows[j], rows[i]))
          <=> \E r, q \in R : Differ(r, q)
    <2>1. ASSUME NEW r \in R, NEW q \in R, Differ(r, q)
          PROVE  \E i \in First(rows), j \in DOMAIN rows : Differ(rows[j], rows[i])
      <3>1. PICK j \in DOMAIN rows, k \in DOMAIN rows : r = rows[j] /\ q = rows[k]
        BY <1>1
      <3>2. PICK i \in First(rows) : rows[i].key = rows[j].key
        BY <1>2
      <3>3. Differ(rows[j], rows[i]) \/ Differ(rows[k], rows[i])
        BY <2>1, <3>1, <3>2 DEF Differ
      <3> QED
        BY <3>3
    <2> QED
      BY <2>1, <1>2, <1>3
  <1>6. ASSUME ~\E r, q \in R : Differ(r, q)
        PROVE  \A j \in DOMAIN rows : \E i \in First(rows) :
                  rows[i].key = rows[j].key /\ Alike(rows[i], rows[j])
    BY <1>1, <1>2, <1>3, <1>6, SubjectsAlike
  <1>7. ASSUME ~\E r, q \in R : Differ(r, q)
        PROVE  (\E i \in Final(rows) : Untrusted(rows[i]))
                <=> \E r \in R : r.status \in CountedStatuses /\ Untrusted(r)
    <2>1. ASSUME NEW i \in Final(rows), Untrusted(rows[i])
          PROVE  \E r \in R : r.status \in CountedStatuses /\ Untrusted(r)
      <3>1. i \in DOMAIN rows /\ rows[i].status \in CountedStatuses
        BY <1>3 DEF Final
      <3> QED
        BY <1>2, <2>1, <3>1
    <2>2. ASSUME NEW r \in R, r.status \in CountedStatuses, Untrusted(r)
          PROVE  \E i \in Final(rows) : Untrusted(rows[i])
      <3>1. PICK j \in DOMAIN rows : r = rows[j]
        BY <1>1
      <3>2. PICK i \in First(rows) : Alike(rows[i], rows[j])
        BY <1>6, <1>7
      <3>3. rows[i].status = r.status
        BY <3>1, <3>2 DEF Alike
      <3>4. Untrusted(rows[i])
        BY <2>2, <3>1, <3>2, AlikeRows
      <3> QED
        BY <2>2, <3>3, <3>4 DEF Final
    <2> QED
      BY <2>1, <2>2
  <1>8. ASSUME ~Doubtful(R)
        PROVE  /\ SumFunction(Credits(rows)) = SumFunction(ScoreCredits(R))
               /\ SumFunction(Weights(rows)) = SumFunction(ScoreWeights(R))
    <2> DEFINE S == Marked(rows)
               h == [i \in S |-> Score(rows[i])]
               c == Credits(rows)
               w == Weights(rows)
               cs == ScoreCredits(R)
               ws == ScoreWeights(R)
    <2>1. ~(\E r, q \in R : Differ(r, q)) /\ ~\E r \in R : MarkOff(r)
      BY <1>8 DEF Doubtful
    <2>2. \A i \in S : /\ rows[i] \in R /\ rows[i].status \in CountedStatuses
                       /\ CountedMark(rows[i]) # NoMark /\ i \in First(rows)
      BY <1>2, <1>3 DEF Marked, Final
    <2>3. {h[i] : i \in S} = Scores(R)
      <3>1. ASSUME NEW i \in S PROVE h[i] \in Scores(R)
        BY <2>2 DEF Scores
      <3>2. ASSUME NEW s \in Scores(R) PROVE \E i \in S : s = h[i]
        <4>1. PICK r \in R :
                r.status \in CountedStatuses /\ CountedMark(r) # NoMark /\ s = Score(r)
          BY DEF Scores
        <4>2. PICK j \in DOMAIN rows : r = rows[j]
          BY <1>1
        <4>3. PICK i \in First(rows) : rows[i].key = rows[j].key /\ Alike(rows[i], rows[j])
          BY <1>6, <2>1
        <4>4. CountedMark(rows[i]) = CountedMark(r) /\ rows[i].status = r.status
              /\ rows[i].cp = r.cp /\ rows[i].key = r.key
          BY <4>2, <4>3, AlikeRows DEF Alike
        <4>5. i \in S
          BY <4>1, <4>4 DEF Marked, Final
        <4>6. Score(rows[i]) = s
          BY <4>1, <4>4 DEF Score
        <4> QED
          BY <4>5, <4>6
      <3> HIDE DEF h, S
      <3> QED
        BY <3>1, <3>2
    <2>4. ASSUME NEW i \in S, NEW j \in S, h[i] = h[j] PROVE i = j
      <3>1. rows[i].key = rows[j].key
        BY <2>4 DEF Score
      <3>2. i \in First(rows) /\ j \in First(rows) /\ i \in Int /\ j \in Int
        BY <2>2 DEF First
      <3>3. ~(i < j) /\ ~(j < i)
        <4>1. i < j => i \in 1 .. j-1
          BY <3>2 DEF First
        <4>2. j < i => j \in 1 .. i-1
          BY <3>2 DEF First
        <4> QED
          BY <3>1, <3>2, <4>1, <4>2 DEF First
      <3> QED
        BY <3>2, <3>3
    <2>5. ASSUME NEW i \in S
          PROVE  /\ c[i] \in Int /\ cs[h[i]] = c[i]
                 /\ w[i] \in Int /\ ws[h[i]] = w[i]
      <3>1. rows[i] \in Subjects /\ ~MarkOff(rows[i]) /\ CountedMark(rows[i]) # NoMark
        BY <1>1, <2>1, <2>2
      <3>2. rows[i].cp \in Nat /\ rows[i].cp * CountedMark(rows[i]) \in Nat
        BY <3>1, ScoreBounds
      <3>3. h[i] \in Scores(R)
        BY <2>3
      <3>4. h[i].cp = rows[i].cp /\ h[i].mark = CountedMark(rows[i])
        BY DEF Score
      <3>5. c[i] = rows[i].cp /\ w[i] = rows[i].cp * CountedMark(rows[i])
        BY DEF Credits, Weights
      <3> HIDE DEF h
      <3>6. cs[h[i]] = h[i].cp /\ ws[h[i]] = h[i].cp * h[i].mark
        BY <3>3 DEF ScoreCredits, ScoreWeights
      <3> QED
        BY <3>2, <3>4, <3>5, <3>6
    <2>6. DOMAIN c = S /\ DOMAIN w = S /\ DOMAIN cs = Scores(R) /\ DOMAIN ws = Scores(R)
      BY DEF Credits, Weights, ScoreCredits, ScoreWeights
    <2> HIDE DEF S, h, c, w, cs, ws
    <2>7. IsFiniteSet(S)
      BY <1>3 DEF S
    <2>8. Tally(cs, {h[i] : i \in S}) = Tally(c, S)
      BY SMTT(60), <2>4, <2>5, <2>7, SumRenamed
    <2>9. Tally(ws, {h[i] : i \in S}) = Tally(w, S)
      BY SMTT(60), <2>4, <2>5, <2>7, SumRenamed
    <2>10. SumFunction(c) = SumFunction(cs) /\ SumFunction(w) = SumFunction(ws)
      BY <2>3, <2>6, <2>8, <2>9, SumFunctionIs
    <2> QED
      BY <2>10 DEF c, w, cs, ws
  <1> DEFINE off == \E r \in R : MarkOff(r)
             clash == \E r, q \in R : Differ(r, q)
             doubt == \E r \in R : r.status \in CountedStatuses /\ Untrusted(r)
             doubtHere == \E i \in Final(rows) : Untrusted(rows[i])
             mean == Mean(SumFunction(Weights(rows)), SumFunction(Credits(rows)))
             meanOf == Mean(SumFunction(ScoreWeights(R)), SumFunction(ScoreCredits(R)))
  <1>9. Note(rows) = IF off \/ clash \/ doubtHere THEN Unreadable ELSE mean
    BY <1>4, <1>5 DEF Note
  <1>10. Doubtful(R) <=> off \/ clash \/ doubt
    BY DEF Doubtful
  <1>11. NoteOf(R) = IF Doubtful(R) THEN Unreadable ELSE meanOf
    BY DEF NoteOf
  <1>12. ~clash => (doubtHere <=> doubt)
    BY <1>7
  <1>13. ~Doubtful(R) => mean = meanOf
    BY <1>8
  <1> HIDE DEF off, clash, doubt, doubtHere, mean, meanOf
  <1>14. Note(rows) = NoteOf(R)
    BY <1>9, <1>10, <1>11, <1>12, <1>13
  <1> QED
    BY <1>14 DEF R

-----------------------------------------------------------------------------
(* The second invariant: what the note is made from                        *)

LEMMA AnyRanked ==
    ASSUME NEW n \in Nat, NEW S \in SUBSET (1..n)
    PROVE  Ranked(S)
  <1> DEFINE Bad == {m \in 0..n : ~\A T \in SUBSET (1..m) : Ranked(T)}
  <1>1. SUFFICES ASSUME Bad # {} PROVE FALSE
    <2>1. n \in 0..n
      OBVIOUS
    <2> QED
      BY <2>1
  <1>2. PICK m \in Bad : \A k \in Bad : m <= k
    <2>1. Bad \subseteq 0..n
      OBVIOUS
    <2> HIDE DEF Bad
    <2> QED
      BY <1>1, <2>1, LeastOf
  <1>3. PICK T \in SUBSET (1..m) : ~Ranked(T)
    OBVIOUS
  <1>4. CASE m = 0
    <2>1. T = {} /\ IsFiniteSet({}) /\ Cardinality({}) = 0
      BY <1>4, FS_EmptySet
    <2> QED
      BY <1>3, <2>1 DEF Ranked
  <1>5. CASE m # 0
    <2> DEFINE U == T \ {m}
    <2>1. m \in Nat /\ m - 1 \in Nat /\ m - 1 \in 0..n /\ ~(m <= m - 1) /\ (m - 1) + 1 = m
      BY <1>5
    <2>2. m - 1 \notin Bad
      BY <1>2, <2>1
    <2>3. U \in SUBSET (1..m - 1)
      BY <2>1
    <2>4. Ranked(U)
      BY <2>1, <2>2, <2>3
    <2>5. Ranked(U \cup {(m - 1) + 1})
      <3> HIDE DEF U
      <3> QED
        BY <2>1, <2>3, <2>4, OneMoreRank
    <2>6. T = U \/ T = U \cup {(m - 1) + 1}
      BY <2>1
    <2> QED
      BY <1>3, <2>4, <2>5, <2>6
  <1> QED
    BY <1>4, <1>5

\* The flat parser reads rows of the paste.
LEMMA FlatRows ==
    ASSUME NEW s \in Seq(Lines)
    PROVE  \/ FlatRecord(s) = Refused
           \/ IsRecord(FlatRecord(s)) /\ FlatRecord(s).rows \in Seq(Subjects)
  <1> DEFINE S == Matches(s)
             l == LinesAt(s, S)
             n == Len(s)
  <1>1. n \in Nat /\ DOMAIN s = 1..n /\ S \in SUBSET (1..n) /\ \A i \in 1..n : s[i] \in Lines
    BY DEF Matches
  <1> HIDE DEF S, n
  <1>2. Ranked(S)
    BY <1>1, AnyRanked
  <1>3. /\ Cardinality(S) \in Nat /\ l = [m \in 1..Cardinality(S) |-> s[At(m, S)]]
    BY <1>1, <1>2, LinesAtIsList DEF n
  <1>4. ASSUME NEW m \in 1..Cardinality(S) PROVE l[m].row \in Subjects
    <2> DEFINE i == At(m, S)
    <2>1. i \in S
      BY <1>1, <1>2, AtIsThere
    <2> HIDE DEF i
    <2>2. s[i] \in Lines /\ s[i].kind = "row"
      BY <1>1, <2>1 DEF S, Matches, Matched
    <2>3. s[i].row \in Subjects
      BY <2>2, LineKinds
    <2>4. l[m] = s[i]
      BY <1>3 DEF i
    <2> QED
      BY <2>3, <2>4
  <1>5. RowsOf(l) \in Seq(Subjects)
    <2> DEFINE c == Cardinality(S)
    <2>1. DOMAIN l = 1..c
      BY <1>3
    <2>2. RowsOf(l) = [m \in 1..c |-> l[m].row]
      BY <2>1 DEF RowsOf
    <2> HIDE DEF l, c
    <2>3. RowsOf(l) \in [1..c -> Subjects]
      BY <1>4, <2>2 DEF c
    <2>4. c \in Nat
      BY <1>3 DEF c
    <2> QED
      BY <2>3, <2>4
  <1>6. FlatRecord(s) = Refused \/ FlatRecord(s) = Accepted(RowsOf(l), 0)
    BY DEF FlatRecord, Matches, S
  <1> HIDE DEF l
  <1>7. FlatRecord(s) = Accepted(RowsOf(l), 0)
          => IsRecord(FlatRecord(s)) /\ FlatRecord(s).rows = RowsOf(l)
    BY DEF Accepted, IsRecord
  <1> QED
    BY <1>5, <1>6, <1>7

\* What was read is rows of the paste, and the note is the one made from them.
NotedInv ==
    /\ read \in Reads
    /\ \/ record \in {NoRecord, Refused} /\ wam = NoRecord
       \/ /\ IsRecord(record) /\ record.rows \in Seq(Subjects)
          /\ wam = NoteFor(record)

LEMMA NotedInit == Init => NotedInv
  BY NothingFollows DEF Init, NotedInv, Follows

LEMMA NotedStep == IInv /\ IInv' /\ NotedInv /\ [Next]_vars => NotedInv'
  <1> SUFFICES ASSUME IInv, IInv', NotedInv, [Next]_vars PROVE NotedInv'
    OBVIOUS
  <1>1. CASE UNCHANGED vars
    BY <1>1 DEF vars, NotedInv
  <1>2. ASSUME NEW e \in Lines, ReadLine(e) PROVE NotedInv'
    <2>1. UNCHANGED <<layout, record, wam>>
      BY <1>2 DEF ReadLine
    <2>2. read' \in Reads
      <3>1. CASE layout = "table"
        BY <2>1, <3>1 DEF IInv, Follows
      <3>2. CASE layout # "table"
        <4>1. read' = read
          BY <1>2, <3>2 DEF ReadLine, IInv
        <4> QED
          BY <4>1 DEF NotedInv
      <3> QED
        BY <3>1, <3>2
    <2> QED
      BY <2>1, <2>2 DEF NotedInv
  <1>3. ASSUME Finish PROVE NotedInv'
    <2>1. /\ record' = IF layout = "table" THEN TableRecord ELSE FlatRecord(paste)
          /\ wam' = IF record' = Refused THEN NoRecord ELSE NoteFor(record')
          /\ read' = read
      BY <1>3 DEF Finish
    <2>2. read \in Reads /\ paste \in Seq(Lines)
      BY DEF NotedInv, IInv
    <2>3. \/ TableRecord = Refused
          \/ IsRecord(TableRecord) /\ TableRecord.rows \in Seq(Subjects)
      <3>1. read.rows \in Seq(Subjects)
        BY <2>2 DEF Reads
      <3>2. TableRecord = Refused \/ TableRecord = Accepted(read.rows, read.credit)
        BY DEF TableRecord
      <3>3. Accepted(read.rows, read.credit).rows = read.rows
            /\ IsRecord(Accepted(read.rows, read.credit))
        BY DEF Accepted, IsRecord
      <3> QED
        BY <3>1, <3>2, <3>3
    <2>4. \/ record' = Refused
          \/ IsRecord(record') /\ record'.rows \in Seq(Subjects)
      BY <2>1, <2>2, <2>3, FlatRows
    <2>5. \/ record' \in {NoRecord, Refused} /\ wam' = NoRecord
          \/ /\ IsRecord(record') /\ record'.rows \in Seq(Subjects)
             /\ wam' = NoteFor(record')
      BY <2>1, <2>4
    <2>6. wam' = NoteFor(record') => (wam = NoteFor(record))'
      BY DEF NoteFor
    <2> QED
      BY <2>1, <2>2, <2>5, <2>6 DEF NotedInv, IsRecord
  <1> QED
    BY <1>1, <1>2, <1>3 DEF Next

LEMMA NotedHolds == Spec => []NotedInv
  <1> QED
    BY NotedInit, NotedStep, InvariantHolds, PTL DEF Spec

LEMMA RecordsAreNoted ==
    ASSUME NotedInv, IsRecord(record)
    PROVE  record.rows \in Seq(Subjects) /\ wam = Note(record.rows)
  <1>1. record # NoRecord /\ record # Refused
    BY DEF IsRecord, NoRecord, Refused
  <1> QED
    BY <1>1, NoteForIs DEF NotedInv

LEMMA NoteOfRows == \A rows, credit : NoteFor(Accepted(rows, credit)) = Note(rows)
  <1> TAKE rows, credit
  <1>1. Accepted(rows, credit).rows = rows
    BY DEF Accepted
  <1> QED
    BY <1>1, NoteForIs

LEMMA SwappedRows ==
    ASSUME NEW M, NEW rows \in Seq(M), NEW i \in DOMAIN rows, NEW j \in DOMAIN rows
    PROVE  Swapped(rows, i, j) \in Seq(M) /\ ToSet(Swapped(rows, i, j)) = ToSet(rows)
  <1> DEFINE n == Len(rows)
             t == Swapped(rows, i, j)
             there(k) == IF k = j THEN i ELSE IF k = i THEN j ELSE k
  <1>1. n \in Nat /\ DOMAIN rows = 1..n /\ rows \in [1..n -> M]
    OBVIOUS
  <1>2. DOMAIN t = 1..n /\ \A k \in 1..n : t[k] = rows[there(k)]
    BY <1>1 DEF Swapped
  <1>3. \A k \in 1..n : there(k) \in 1..n /\ there(there(k)) = k
    BY <1>1
  <1>4. t \in [1..n -> M]
    BY <1>1 DEF Swapped
  <1> HIDE DEF n, t, there
  <1>5. t \in Seq(M)
    BY <1>1, <1>4
  <1>6. \A k \in 1..n : rows[k] = t[there(k)]
    BY <1>2, <1>3
  <1>7. {t[k] : k \in 1..n} = {rows[k] : k \in 1..n}
    BY <1>2, <1>3, <1>6
  <1>8. ToSet(t) = ToSet(rows)
    BY <1>1, <1>2, <1>7 DEF ToSet
  <1> QED
    BY <1>5, <1>8 DEF t

\* The average, or the refusal of one, is that of the set of rows (_unique, wam.py:90): it is
\* the same for a record pasted twice, and in whichever order the rows stand.
THEOREM RepeatsAndOrderIrrelevantHolds == Spec => []RepeatsAndOrderIrrelevant
  <1>1. ASSUME NotedInv, IsRecord(record)
        PROVE  NoteFor(Accepted(record.rows \o record.rows, record.credit)) = wam
    BY <1>1, RecordsAreNoted, NoteOfRows, TwiceIsOnce
  <1>2. ASSUME NotedInv, IsRecord(record), ~SilentConflict(record.rows),
               NEW i \in DOMAIN record.rows, NEW j \in DOMAIN record.rows
        PROVE  NoteFor(Accepted(Swapped(record.rows, i, j), record.credit)) = wam
    <2> DEFINE rows == record.rows
               t == Swapped(rows, i, j)
    <2>1. rows \in Seq(Subjects) /\ wam = Note(rows) /\ ~SilentConflict(rows)
      BY <1>2, RecordsAreNoted
    <2>2. t \in Seq(Subjects) /\ ToSet(t) = ToSet(rows)
      BY <2>1, SwappedRows
    <2> HIDE DEF t, rows
    <2>3. ~SilentConflict(t)
      BY <2>1, <2>2, SilentIs
    <2>4. Note(t) = Note(rows)
      BY <2>1, <2>2, <2>3, NoteIsOfSet
    <2> QED
      BY <2>1, <2>4, NoteOfRows DEF t, rows
  <1>3. NotedInv => RepeatsAndOrderIrrelevant
    BY <1>1, <1>2 DEF RepeatsAndOrderIrrelevant, PastedTwice, OrderIrrelevant
  <1> QED
    BY <1>3, NotedHolds, PTL

-----------------------------------------------------------------------------
(* The mean                                                                *)

IsMean(note, weighted, total) ==
    IF total = 0 THEN note = NotAvailable ELSE IsTruncated(note, weighted, total)

LEMMA MeanIs ==
    ASSUME NEW total \in Nat, NEW weighted \in Nat, weighted <= 100 * total
    PROVE  IsMean(Mean(weighted, total), weighted, total)
  <1> DEFINE a == 100 * weighted
             q == a \div total
             note == Mean(weighted, total)
  <1>1. CASE total = 0
    BY <1>1 DEF Mean, IsMean
  <1>2. CASE total # 0
    <2>1. a \in Nat /\ a <= 10000 * total /\ total > 0
      BY <1>2
    <2>2. note.cp = total /\ note.wam = q
      BY <1>2 DEF Mean, Average, Hundredths
    <2> HIDE DEF a, note
    <2>3. q \in Nat /\ q * total <= a /\ a < (q + 1) * total
      BY <2>1, Division
    <2> HIDE DEF q
    <2>4. q <= 10000
      BY <2>1, <2>3
    <2>5. IsTruncated(note, weighted, total)
      BY <2>2, <2>3, <2>4 DEF a, IsTruncated
    <2> QED
      BY <1>2, <2>5 DEF IsMean, note
  <1> QED
    BY <1>1, <1>2

\* The sums that an average is made from.
LEMMA SumsAreBounded ==
    ASSUME NEW S, IsFiniteSet(S), NEW c, NEW w, DOMAIN c = S, DOMAIN w = S,
           \A x \in S : c[x] \in Nat /\ w[x] \in Nat /\ w[x] <= 100 * c[x]
    PROVE  /\ SumFunction(c) \in Nat /\ SumFunction(w) \in Nat
           /\ SumFunction(w) <= 100 * SumFunction(c)
  BY SumBounded, SumFunctionIs

\* "WAMs are not rounded up, so the result is truncated" (wam.py:5): an average is the mean of
\* the results that count, by credit points, cut off after two decimals.
THEOREM WamIsTruncatedMeanHolds == Spec => []WamIsTruncatedMean
  <1>1. ASSUME NotedInv, IsRecord(record), wam # Unreadable, ~SilentConflict(record.rows)
        PROVE  LET results  == Results(record.rows)
                   total    == SumFunction([r \in results |-> r.cp])
                   weighted == SumFunction([r \in results |-> r.cp * r.mark])
               IN  IsMean(wam, weighted, total)
    <2> DEFINE rows == record.rows
               R == ToSet(rows)
               S == Scores(R)
               c == ScoreCredits(R)
               w == ScoreWeights(R)
               total == SumFunction(c)
               weighted == SumFunction(w)
    <2>1. rows \in Seq(Subjects) /\ wam = NoteOf(R)
      BY <1>1, RecordsAreNoted, NoteIsOfSet
    <2>2. Results(rows) = S
      BY DEF Results, Scores, Score
    <2>3. [r \in S |-> r.cp] = c /\ [r \in S |-> r.cp * r.mark] = w
      BY DEF ScoreCredits, ScoreWeights
    <2>4. ~Doubtful(R) /\ wam = Mean(weighted, total)
      BY <1>1, <2>1 DEF NoteOf
    <2>5. R \subseteq Subjects /\ IsFiniteSet(R)
      <3>1. R = {rows[i] : i \in DOMAIN rows}
        BY DEF ToSet
      <3>2. IsFiniteSet(DOMAIN rows)
        BY <2>1, PlacesAreFinite
      <3>3. rows \in Surjection(DOMAIN rows, R)
        BY <2>1, <3>1 DEF Surjection
      <3> HIDE DEF rows, R
      <3>4. IsFiniteSet(R)
        BY <3>2, <3>3, FS_Surjection
      <3> QED
        BY <2>1, <3>1, <3>4
    <2> HIDE DEF R
    <2>6. IsFiniteSet(S)
      <3> DEFINE T == {q \in R : q.status \in CountedStatuses /\ CountedMark(q) # NoMark}
                 F == [q \in T |-> Score(q)]
      <3>1. IsFiniteSet(T)
        BY <2>5, FS_Subset
      <3>2. S = {Score(q) : q \in T}
        BY DEF Scores
      <3>3. F \in Surjection(T, S)
        BY <3>2 DEF Surjection
      <3> HIDE DEF T, F, S
      <3> QED
        BY <3>1, <3>3, FS_Surjection
    <2>7. ASSUME NEW s \in S PROVE c[s] \in Nat /\ w[s] \in Nat /\ w[s] <= 100 * c[s]
      <3>1. PICK q \in R : CountedMark(q) # NoMark /\ s = Score(q)
        BY DEF Scores
      <3>2. q \in Subjects /\ ~MarkOff(q)
        BY <2>4, <2>5 DEF Doubtful
      <3>3. /\ q.cp \in Nat /\ q.cp * CountedMark(q) \in Nat
            /\ q.cp * CountedMark(q) <= 100 * q.cp
        BY <3>1, <3>2, ScoreBounds
      <3>4. s.cp = q.cp /\ s.mark = CountedMark(q)
        BY <3>1 DEF Score
      <3>5. c[s] = s.cp /\ w[s] = s.cp * s.mark
        BY DEF ScoreCredits, ScoreWeights
      <3> QED
        BY <3>3, <3>4, <3>5
    <2>8. DOMAIN c = S /\ DOMAIN w = S
      BY DEF ScoreCredits, ScoreWeights
    <2> HIDE DEF S, c, w
    <2>9. total \in Nat /\ weighted \in Nat /\ weighted <= 100 * total
      BY <2>6, <2>7, <2>8, SumsAreBounded
    <2> HIDE DEF total, weighted
    <2>10. IsMean(wam, weighted, total)
      BY <2>4, <2>9, MeanIs
    <2> HIDE DEF rows
    <2> QED
      BY <2>2, <2>3, <2>10 DEF total, weighted, rows, c, w
  <1>2. NotedInv => WamIsTruncatedMean
    BY <1>1, SMTT(30) DEF WamIsTruncatedMean, IsMean
  <1> QED
    BY <1>2, NotedHolds, PTL

\* An average lies between 0 and 100.
LEMMA AverageIsBounded ==
    ASSUME NEW rows \in Seq(Subjects), Note(rows).kind = "wam"
    PROVE  Note(rows).wam \in 0..10000
  <1> DEFINE S == Marked(rows)
             c == Credits(rows)
             w == Weights(rows)
             total == SumFunction(c)
             weighted == SumFunction(w)
  <1>1. Unreadable.kind # "wam" /\ NotAvailable.kind # "wam"
    BY DEF Unreadable, NotAvailable
  <1>2. Note(rows) = Mean(weighted, total) /\ \A i \in DOMAIN rows : ~MarkOff(rows[i])
    BY <1>1 DEF Note
  <1>3. IsFiniteSet(S) /\ S \subseteq DOMAIN rows /\ DOMAIN c = S /\ DOMAIN w = S
    BY PlacesAreFinite DEF Credits, Weights
  <1>4. ASSUME NEW i \in S PROVE c[i] \in Nat /\ w[i] \in Nat /\ w[i] <= 100 * c[i]
    <2>1. rows[i] \in Subjects /\ ~MarkOff(rows[i]) /\ CountedMark(rows[i]) # NoMark
      BY <1>2, <1>3 DEF Marked
    <2>2. c[i] = rows[i].cp /\ w[i] = rows[i].cp * CountedMark(rows[i])
      BY DEF Credits, Weights
    <2> HIDE DEF S, c, w
    <2> QED
      BY <2>1, <2>2, ScoreBounds
  <1> HIDE DEF S, c, w
  <1>5. total \in Nat /\ weighted \in Nat /\ weighted <= 100 * total
    BY <1>3, <1>4, SumsAreBounded
  <1> HIDE DEF total, weighted
  <1>6. IsMean(Note(rows), weighted, total)
    BY <1>2, <1>5, MeanIs
  <1>7. total # 0
    BY Zenon, <1>1, <1>6 DEF IsMean
  <1>8. IsTruncated(Note(rows), weighted, total)
    BY Zenon, <1>6, <1>7 DEF IsMean
  <1> QED
    BY Z3, <1>8 DEF IsTruncated

\* Every reading holds rows of the paste, and a note is an average between 0 and 100, if it
\* is one, also where rows of one subject disagree on its grade.
THEOREM TypesHold == Spec => []TypeOK
  <1>1. ASSUME NotedInv PROVE wam.kind = "wam" => wam.wam \in 0..10000
    <2>1. CASE wam = NoRecord
      BY <2>1, SMTT(30) DEF NoRecord
    <2>2. CASE IsRecord(record)
      <3>1. record.rows \in Seq(Subjects) /\ wam = Note(record.rows)
        BY <1>1, <2>2, RecordsAreNoted
      <3>2. PICK rows \in Seq(Subjects) : wam = Note(rows)
        BY <3>1
      <3>3. Note(rows).kind = "wam" => Note(rows).wam \in 0..10000
        BY AverageIsBounded, SMTT(30)
      <3> QED
        BY <3>2, <3>3, SMTT(30)
    <2> QED
      BY <1>1, <2>1, <2>2 DEF NotedInv
  <1>2. IInv /\ NotedInv => TypeOK
    BY <1>1 DEF TypeOK, IInv, NotedInv
  <1> QED
    BY <1>2, InvariantHolds, NotedHolds, PTL
=============================================================================
