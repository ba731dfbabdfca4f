------------------------ MODULE ElectiveRequirements ------------------------
(***************************************************************************)
(* The choice of electives with the requirements it asks after: Satisfied  *)
(* is ExpressionsSatisfied (elective_service.py and                        *)
(* prerequisite_parser.py).                                                *)
(***************************************************************************)
EXTENDS ElectiveFill, Requirements

\* Every requirement that the parser is safe on is decided as it is meant, for all
\* that a student could hold (evaluate_expression and _evaluate_term,
\* prerequisite_parser.py).  Asked once of each problem.
RequirementsAreMeant ==
    todo = {} =>
        \A c \in Catalog : \A n \in DOMAIN problem.needs[c] :
            Plain(problem.needs[c][n]) => IsMeant(problem.needs[c][n])

-----------------------------------------------------------------------------
(* What the repository says and the code does not do.                      *)

\* "Parse and evaluate UOW handbook prerequisite / corequisite expressions"
\* (prerequisite_parser.py:1): of nested parentheses the outer ones are cut off
\* with the inner ones, and "((A or B) and (C or D)) or E", which the handbook
\* has, is met by D alone.
EveryRequirementIsMeant ==
    \A c \in Catalog : \A n \in DOMAIN problem.needs[c] : IsMeant(problem.needs[c][n])
=============================================================================
