------------------------- MODULE MCEnrolmentRecord -------------------------
(* EnrolmentRecord on small instances.                                     *)
EXTENDS EnrolmentRecord

Row(key, cp, mark, grade, status, spelt) ==
    [key |-> key, cp |-> cp, mark |-> mark, grade |-> grade, status |-> status,
     spelt |-> spelt]

\* Two attempts at one subject that disagree, its repeat with another grade, a
\* technical fail with and without a mark, an unfinished subject, a mark out of
\* range, and a row without its grade that only the table parser reads.
MCSubjects ==
    { Row("a", 6, 67, "C", "Complete", TRUE),
      Row("a", 6, 40, "F", "Failed", TRUE),
      Row("a", 6, 40, "TF", "Failed", TRUE),
      Row("b", 12, NoMark, "TF", "Failed", TRUE),
      Row("c", 6, 101, "P", "Complete", TRUE),
      Row("d", 6, NoMark, "none", "Enrolled", TRUE),
      Row("e", 12, 68, "none", "Complete", FALSE) }
=============================================================================
