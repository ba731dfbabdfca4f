--------------------------- MODULE MCAdvisorGraph ---------------------------
(* The advisor graph for TLC.                                              *)
EXTENDS AdvisorGraph, TLC

\* The two programmes are interchangeable, and so are the two sets of majors:
\* no definition names one of them.
Interchangeable == Permutations(Keys) \union Permutations(Details)

\* What decides the future and the safety invariants other than TurnIsBounded:
\* BeginTurn overwrites the rest of an idle thread's variables, and no guard
\* reads steps, replied or the approved major.
StateThatMatters ==
    IF pc = "idle"
    THEN <<st, session, judged.plan>>
    ELSE <<st, session, judged.plan, pc, msg, calls, used>>
=============================================================================
