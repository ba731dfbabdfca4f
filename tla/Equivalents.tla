----------------------------- MODULE Equivalents -----------------------------
(***************************************************************************)
(* Subjects, their levels and credit points, and which of them count for   *)
(* one another (app/services/prerequisite_parser.py): what requirements    *)
(* (Requirements) and the choice of electives (ElectiveFill) both rest on. *)
(***************************************************************************)
EXTENDS Integers, FiniteSets, Sequences, SequencesExt

CONSTANTS
    Subjects,   \* the codes in play
    Level,      \* Level[c]: the level of subject c, a multiple of 100
    Points,     \* Points[c]: its credit points
    Satisfies   \* set of <<base, alternate>>: the alternate counts as the base

ASSUME SubjectsAssumption == IsFiniteSet(Subjects) /\ Points \in [Subjects -> Nat]
ASSUME SatisfiesAssumption == Satisfies \subseteq Subjects \X Subjects

-----------------------------------------------------------------------------
\* One round of expand_held: what is linked to one of these codes.
WithLinked(codes) ==
    codes \union {e[1] : e \in {x \in Satisfies : x[2] \in codes}}
          \union {e[2] : e \in {x \in Satisfies : x[1] \in codes}}

\* expand_held: whatever is linked by equivalences to a subject that is held,
\* through any number of them and in either direction.  The loop runs until nothing
\* changes; that takes no more rounds than there are equivalences.
ExpandHeld(held) ==
    LET grown[n \in 0..Cardinality(Satisfies)] ==
            IF n = 0 THEN held ELSE WithLinked(grown[n - 1])
    IN  grown[Cardinality(Satisfies)]

PointsAtLevel(level, codes) ==
    SumFunctionOnSet(Points, {c \in codes : Level[c] = level})

\* _cp_at_level_satisfied; equivalents do not count here.
EnoughAtLevel(phrase, held) == PointsAtLevel(phrase.level, held) >= phrase.cp

-----------------------------------------------------------------------------
\* Two subjects count as one when no set closed under the equivalences tells
\* them apart.
Linked ==
    LET closed == {s \in SUBSET Subjects : \A e \in Satisfies : e[1] \in s <=> e[2] \in s}
    IN  {p \in Subjects \X Subjects : \A s \in closed : p[1] \in s <=> p[2] \in s}
=============================================================================
