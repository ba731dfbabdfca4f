-------------------------------- MODULE Wam --------------------------------
(***************************************************************************)
(* The weighted average mark of an enrolment record                        *)
(* (app/services/wam.py): rows that repeat a subject are dropped or        *)
(* refused, each remaining row gives a mark, no mark or a refusal, and the *)
(* mean of the marks by credit points is cut off after two decimals.       *)
(*                                                                         *)
(* A row is a record with the fields key (year, session and subject),      *)
(* cp (nominal credit points), mark, grade and status.  A mark is at most  *)
(* 100, or NoMark; the reader turns another one down before it gets here.  *)
(***************************************************************************)
EXTENDS Integers, Sequences, SequencesExt

CONSTANT NoMark

ASSUME NoMarkAssumption == NoMark \notin 0..100

TECHNICAL_FAIL_MARK == 49
PASS_MARK == 50
MAX_SUBJECT_CP == 48

MarkedGrades == {"HD", "D", "C", "P", "F"}
NotFinalGrades == {"WH", "WD", "WS", "ND", "IPC", "IPR"}
CountedStatuses == {"Complete", "Failed"}

NoGrade == "none"

-----------------------------------------------------------------------------
\* The rows that are the first of their subject, by their places.
First(rows) == {i \in DOMAIN rows : \A j \in 1 .. i-1 : rows[j].key # rows[i].key}

\* Slip: every repeat is dropped, whatever result it shows.
UniqueWithoutComparing(rows) == [kept |-> First(rows), clash |-> FALSE]

\* _unique: the rows kept, and whether another row of the same subject shows another
\* mark or other credit points.
Unique(rows) ==
    [kept  |-> First(rows),
     clash |-> \E i \in First(rows), j \in DOMAIN rows :
                  /\ rows[j].key = rows[i].key
                  /\ <<rows[j].mark, rows[j].cp>> # <<rows[i].mark, rows[i].cp>>]

\* _checked_mark raises: the row cannot be trusted.  The order of the checks
\* matters: a result that is not final is not asked for its mark.
Untrusted(row) ==
    \/ row.cp \notin 0..MAX_SUBJECT_CP
    \/ /\ row.grade \notin NotFinalGrades
       /\ IF row.mark = NoMark
          THEN row.grade \in MarkedGrades \union {NoGrade}
          ELSE /\ row.grade \in MarkedGrades
               /\ (row.mark >= PASS_MARK) # (row.grade # "F")

\* What _checked_mark and _mark_for return for a row that can be trusted.
CountedMark(row) ==
    IF row.grade \in NotFinalGrades THEN NoMark
    ELSE IF row.mark = NoMark /\ row.grade = "TF" THEN TECHNICAL_FAIL_MARK
    ELSE row.mark

\* Slip: the mean is rounded to the nearest hundredth.
HundredthsRounded(weighted, total) == (100 * weighted + total \div 2) \div total

\* quantize(0.01, ROUND_DOWN), in hundredths.
Hundredths(weighted, total) == (100 * weighted) \div total

Unreadable == [kind |-> "unreadable"]
NotAvailable == [kind |-> "none"]
Average(hundredths, total) == [kind |-> "wam", wam |-> hundredths, cp |-> total]

\* calculate_wam, after the paste has been read.
CalculateWam(rows) ==
    LET unique  == Unique(rows)
        final   == {i \in unique.kept : rows[i].status \in CountedStatuses}
        marked  == {i \in final : CountedMark(rows[i]) # NoMark}
        total   == SumFunction([i \in marked |-> rows[i].cp])
        weighted == SumFunction([i \in marked |-> rows[i].cp * CountedMark(rows[i])])
    IN  IF unique.clash \/ \E i \in final : Untrusted(rows[i])
        THEN Unreadable
        ELSE IF total = 0 THEN NotAvailable
             ELSE Average(Hundredths(weighted, total), total)
=============================================================================
