---------------------------- MODULE Requirements ----------------------------
(***************************************************************************)
(* Prerequisites and corequisites as the handbook writes them, and how     *)
(* app/services/prerequisite_parser.py decides whether a student who holds *)
(* certain subjects meets them.                                            *)
(*                                                                         *)
(* An expression is a sequence of tokens: subject codes, phrases such as   *)
(* "12cp at 100-level", "or", "and", ",", "+" (also "plus") and            *)
(* parentheses.  Words that carry nothing are left out.                    *)
(***************************************************************************)
EXTENDS Equivalents

Code(c) == [tok |-> "code", code |-> c]
AtLevel(cp, level) == [tok |-> "cp", cp |-> cp, level |-> level]
Or == [tok |-> "or"]
And == [tok |-> "and"]
Comma == [tok |-> "comma"]
Plus == [tok |-> "plus"]
Open == [tok |-> "open"]
Close == [tok |-> "close"]

-----------------------------------------------------------------------------
\* How many parentheses are open before position i; negative behind a stray one.
Depth(expr, i) ==
    FoldLeft(LAMBDA d, t : CASE t = Open -> d + 1 [] t = Close -> d - 1 [] OTHER -> d,
             0, SubSeq(expr, 1, i - 1))

\* The separators of expr, at any depth and outside parentheses.
SeparatorsAnywhere(expr, seps) == {i \in DOMAIN expr : expr[i] \in seps}

Separators(expr, seps) == {i \in DOMAIN expr : expr[i] \in seps /\ Depth(expr, i) = 0}

\* The stretches between separators that hold anything.
Stretches(expr, at) ==
    LET cuts == at \union {0, Len(expr) + 1}
    IN  {p \in cuts \X cuts : p[1] + 1 < p[2] /\ \A c \in cuts : ~(p[1] < c /\ c < p[2])}

Part(expr, p) == SubSeq(expr, p[1] + 1, p[2] - 1)

\* split_top_level, as the set of places of its parts.
SplitTopLevel(expr, seps) == Stretches(expr, Separators(expr, seps))

\* Slip: a group is looked at with its parentheses on.
Unstripped(expr) == expr

\* strip("()"): every parenthesis at either end goes, matched or not.
Strip(expr) ==
    LET inner == {i \in DOMAIN expr : expr[i] \notin {Open, Close}}
    IN  IF inner = {} THEN <<>> ELSE SubSeq(expr, Min(inner), Max(inner))

Codes(expr) == SelectSeq(expr, LAMBDA t : t.tok = "code")
Phrases(expr) == SelectSeq(expr, LAMBDA t : t.tok = "cp")

RECURSIVE EvaluateTerm(_, _)

\* _evaluate_term.
EvaluateTerm(term, held) ==
    LET cleaned == Strip(term)
        ors  == SplitTopLevel(cleaned, {Or})
        ands == SplitTopLevel(cleaned, {And, Comma})
        plus == Stretches(cleaned, SeparatorsAnywhere(cleaned, {Plus}))
        All(parts) == \A p \in parts : EvaluateTerm(Part(cleaned, p), held)
        codesHeld == \A c \in ToSet(Codes(cleaned)) : c.code \in ExpandHeld(held)
    IN  IF Cardinality(ors) > 1
            THEN \E p \in ors : EvaluateTerm(Part(cleaned, p), held)
        ELSE IF Phrases(cleaned) # <<>>
            THEN codesHeld /\ EnoughAtLevel(Head(Phrases(cleaned)), held)
        ELSE IF Len(Codes(cleaned)) = 1 THEN codesHeld
        ELSE IF Plus \in ToSet(cleaned) THEN All(plus)
        ELSE IF Cardinality(ands) > 1 THEN All(ands)
        ELSE codesHeld

RECURSIVE EvaluateExpression(_, _)

\* evaluate_expression.
EvaluateExpression(expr, held) ==
    LET ors  == SplitTopLevel(expr, {Or})
        ands == SplitTopLevel(expr, {And})
    IN  IF expr = <<>> THEN TRUE
        ELSE IF Cardinality(ors) > 1
            THEN \E p \in ors : EvaluateExpression(Part(expr, p), held)
        ELSE IF Cardinality(ands) > 1
            THEN \A p \in ands : EvaluateTerm(Part(expr, p), held)
        ELSE EvaluateTerm(expr, held)

\* expressions_satisfied, over the list of a subject's requirements.
ExpressionsSatisfied(exprs, held) ==
    \A i \in DOMAIN exprs : EvaluateExpression(exprs[i], held)

-----------------------------------------------------------------------------
(* What an expression means: "or" binds weaker than what joins its terms,  *)
(* and parentheses group.                                                  *)

RECURSIVE Meaning(_, _)
Meaning(expr, held) ==
    LET ors  == SplitTopLevel(expr, {Or})
        ands == SplitTopLevel(expr, {And, Comma, Plus})
    IN  CASE Cardinality(ors) > 1 -> \E p \in ors : Meaning(Part(expr, p), held)
          [] Cardinality(ors) <= 1 /\ Cardinality(ands) > 1 ->
                \A p \in ands : Meaning(Part(expr, p), held)
          [] expr = <<>> -> TRUE
          [] Len(expr) = 1 /\ expr[1].tok = "code" -> expr[1].code \in ExpandHeld(held)
          [] Len(expr) = 1 /\ expr[1].tok = "cp" -> EnoughAtLevel(expr[1], held)
          [] OTHER -> Meaning(SubSeq(expr, 2, Len(expr) - 1), held)

\* The expressions the parser is safe on: parentheses do not nest, they are not
\* mixed with "," or "+", and none of the three joins two phrases of credit points.
Plain(expr) ==
    /\ \A i \in DOMAIN expr : Depth(expr, i + 1) \in 0..1
    /\ Open \in ToSet(expr) => {Comma, Plus} \intersect ToSet(expr) = {}
    /\ {Open, Comma, Plus} \intersect ToSet(expr) # {} => Len(Phrases(expr)) <= 1

\* The subjects that can make a difference to an expression.
Matter(expr) ==
    {d \in Subjects : \/ \E i \in DOMAIN expr : expr[i].tok = "cp" /\ expr[i].level = Level[d]
                      \/ \E i \in DOMAIN expr : expr[i].tok = "code" /\ <<expr[i].code, d>> \in Linked}

\* The evaluator decides expr as it is meant, for all that a student could hold.
IsMeant(expr) ==
    \A held \in SUBSET Matter(expr) : EvaluateExpression(expr, held) = Meaning(expr, held)
=============================================================================
