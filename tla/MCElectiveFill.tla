--------------------------- MODULE MCElectiveFill ---------------------------
(* ElectiveRequirements on small instances.                                *)
EXTENDS ElectiveRequirements

\* a to e: electives; k: a core subject, r an alternate of k, q one of r; p: a
\* postgraduate subject.
MCSubjects == {"a", "b", "c", "d", "e", "k", "p", "q", "r"}
MCCatalog == MCSubjects \ {"q"}
MCLevel == [x \in MCSubjects |->
    CASE x \in {"a", "d", "e", "k"} -> 100 [] x = "p" -> 900 [] OTHER -> 200]
MCPoints == [x \in MCSubjects |-> 6]
MCSatisfies == {<<"k", "r">>, <<"r", "q">>}
MCPosition == [x \in MCSubjects |->
    CASE x = "a" -> 1 [] x = "b" -> 2 [] x = "c" -> 3 [] x = "d" -> 4
      [] x = "e" -> 5 [] x = "k" -> 6 [] x = "p" -> 7 [] x = "q" -> 8 [] x = "r" -> 9]
MCOffered == [x \in MCSubjects |->
    CASE x \in {"a", "p"} -> {"autumn", "spring"} [] x = "b" -> {"spring", "summer"}
      [] x = "c" -> {"autumn", "spring"} [] x \in {"d", "e"} -> {"spring", "summer"}
      [] OTHER -> {"spring"}]
MCCorequisites == [x \in MCSubjects |-> IF x = "c" THEN <<<<Code("a")>>>> ELSE <<>>]
MCExcludes == [x \in MCSubjects |->
    CASE x = "a" -> {"d"} [] x = "d" -> {"a"} [] x = "c" -> {"k"} [] OTHER -> {}]
MCPrefix == [x \in MCSubjects |-> IF x \in {"a", "b", "k", "r"} THEN "CSIT" ELSE "MATH"]

-----------------------------------------------------------------------------
(* Requirements: everything of up to three terms, and two groups.          *)

Atoms == {<<Code("a")>>, <<Code("k")>>, <<AtLevel(12, 100)>>}
Joined(xs, ops, ys) == {x \o <<op>> \o y : x \in xs, op \in ops, y \in ys}
Grouped(xs) == {<<Open>> \o x \o <<Close>> : x \in xs}

Joints == {Or, And, Comma, Plus}
Pairs == Joined(Atoms, Joints, Atoms)
Triples == Joined(Atoms, Joints, Pairs)
Groups == Grouped(Joined(Atoms, {Or, And}, Atoms))
WithGroups == Groups \union Joined(Atoms, Joints, Groups) \union Joined(Groups, Joints, Atoms)
TwoGroups == Joined(Groups, {Or, And}, Groups)

\* "((MATH188 or MATH110 or MATH142) and (STAT101 or STAT131)) or MATH283" has
\* this shape; the parser is not safe on it.
Nested == Joined(Grouped(Joined(Groups, {And}, Groups)), {Or}, {<<Code("k")>>})

NeedsOf(b) == [x \in MCSubjects |-> IF x = "b" THEN <<b>> ELSE <<>>]

-----------------------------------------------------------------------------
Row(year, session, code, level) ==
    [year |-> year, session |-> session, code |-> code, level |-> level]

OpenPool == [mode |-> "open", codes |-> {}, prefixes |-> {}, general |-> FALSE, levels |-> {}]

MCOtherPools == {[OpenPool EXCEPT !.prefixes = {"MATH"}]}

\* Placeholders out of calendar order, beside a core subject, some that ask for a
\* level, and several in one session.
Rows1 == <<Row(2, "summer", Placeholder, 0), Row(1, "spring", "k", 0),
           Row(1, "autumn", Placeholder, 0), Row(1, "spring", Placeholder, 200)>>
Rows2 == <<Row(1, "spring", Placeholder, 0), Row(1, "spring", Placeholder, 0),
           Row(1, "summer", Placeholder, 0), Row(1, "autumn", Placeholder, 0)>>

Rows3 == <<Row(1, "spring", Placeholder, 200), Row(1, "spring", Placeholder, 0),
           Row(1, "spring", Placeholder, 0), Row(1, "summer", Placeholder, 0)>>

Even == [x \in MCSubjects |-> 1]

\* Some electives above the others, or some of them not relevant at all.
Electives == {"a", "b", "c", "d", "e"}
Relevance == {f @@ Even : f \in [Electives -> {1, 2}] \union [Electives -> {0, 1}]}

Problem(b, pool, score, completed, planned, rows) ==
    [needs |-> NeedsOf(b), pool |-> pool, score |-> score,
     completed |-> completed, planned |-> planned, rows |-> rows]

\* Every requirement once, and a few of them in every other circumstance.
MCProblems ==
    {Problem(b, OpenPool, Even, {}, {}, Rows1) :
        b \in Atoms \union Pairs \union Triples \union WithGroups \union TwoGroups
               \union Nested}
    \union
    {Problem(b, pool, score, done, planned, rows) :
        b \in Atoms \union {<<>>},
        pool \in { OpenPool,
                   [OpenPool EXCEPT !.mode = "prefix_level", !.prefixes = {"CSIT"},
                                    !.general = TRUE, !.levels = {100, 200, 900}],
                   [OpenPool EXCEPT !.mode = "named_list", !.codes = {"b", "c", "d", "p", "q"}] },
        score \in Relevance,
        done \in {{}, {"a"}, {"q"}},
        planned \in {{}, {"d"}, {"q"}},
        rows \in {Rows1, Rows2, Rows3} }
=============================================================================
