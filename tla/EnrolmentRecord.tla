--------------------------- MODULE EnrolmentRecord ---------------------------
(***************************************************************************)
(* Reading a pasted enrolment record (app/services/enrolment.py) and the   *)
(* weighted average mark noted below it (wam.py, and _with_wam of          *)
(* agent_chat_service.py).                                                 *)
(*                                                                         *)
(* A paste is a sequence of lines.  One that kept its tables is read line  *)
(* by line, one action per kind of line; one that lost them is collected   *)
(* and matched as a whole.  A table that covers one line only is read the  *)
(* second way, like a paste whose line breaks are gone.                    *)
(*                                                                         *)
(* Data kept: of a subject row what Wam needs, and whether the parsers can *)
(* read it; of other lines, which expression of the reader they match.     *)
(* Texts, campuses, and what a flat paste says of course and majors are    *)
(* left out.                                                               *)
(***************************************************************************)
EXTENDS Wam

CONSTANTS
    Subjects,   \* the subject rows a paste can hold, see SubjectRow
    MaxLines    \* lines of a paste

VARIABLES
    layout,     \* "table" or "flat": which of the two parsers reads the paste
    paste,      \* the lines so far
    read,       \* the table reader's variables
    record,     \* what parse_enrolment returned, NoRecord before
    wam         \* the note on the average, NoRecord before

vars == <<layout, paste, read, record, wam>>

-----------------------------------------------------------------------------
\* A row every cell of which passes its shape check, except that the mark may be
\* above 100, which only the reading for the average looks at.  spelt: session,
\* subject and grade are written as the flat expression wants them.
SubjectRow == [key : STRING, cp : Nat, mark : 0..999 \union {NoMark},
               grade : STRING, status : STRING, spelt : BOOLEAN]

ASSUME SubjectsAssumption == Subjects \subseteq SubjectRow
ASSUME MaxLinesAssumption == MaxLines \in Nat

\* Lines outside tables, by what they mean to a reader:
\*   blank           nothing
\*   section         a "#" line, creditSection one that announces credit
\*   title           a line that could be a major, so could label ("GPA: 5.1")
\*   major           "Major: <name>", emptyMajor "Major:" alone
\*   course          "Course: <code>", or a campus line
Texts == {"blank", "section", "creditSection", "title", "label",
          "major", "emptyMajor", "course"}

\* Lines of tables.  An alien line does not fit the table it stands in: it has
\* another number of cells, a cell that fails its check, or belongs to a table
\* that is not read; it holds a digit and no flat expression matches it.
Bars == {"separator", "enrolment", "credit", "creditRow", "alien"}

Lines == [kind : Texts \union Bars] \union [kind : {"row"}, row : Subjects]

IsText(line) == line.kind \in Texts
TableLines(lines) == SelectSeq(lines, LAMBDA line : ~IsText(line))

Heading(line) == line.kind \in {"enrolment", "credit"}

\* The lines with these indices, in order.
AtRank(n, indices) == {i \in indices : Cardinality({j \in indices : j <= i}) = n}
LinesAt(lines, indices) ==
    [n \in 1..Cardinality(indices) |-> lines[CHOOSE i \in AtRank(n, indices) : TRUE]]

RowsOf(lines) == [n \in DOMAIN lines |-> lines[n].row]
KindsOf(lines) == [n \in DOMAIN lines |-> lines[n].kind]

Fresh == [table |-> "none", rows |-> <<>>, credit |-> 0, majors |-> <<>>,
          pending |-> FALSE, refused |-> FALSE]

NoRecord == [kind |-> "unread"]
Refused == [kind |-> "refused"]
Accepted(rows, credit) == [kind |-> "record", rows |-> rows, credit |-> credit]

-----------------------------------------------------------------------------
(* A paste that kept its tables: _parse_table                              *)

\* Slip: a text line leaves the table open.
KeepsTable(line) == read.table

\* "a non-table line closes the table"
TableAfter(line) == "none"

\* _read_header_line: a major is taken from its own line, or after an empty label from any line
\* that has the shape of one and is not itself a course, campus or major line.
TakesMajor(line) ==
    \/ line.kind = "major"
    \/ read.pending /\ line.kind \in {"title", "label"}

ReadText(line) ==
    /\ IsText(line)
    /\ read' = [read EXCEPT
                  !.table = TableAfter(line),
                  !.pending = line.kind = "emptyMajor",
                  !.majors = IF TakesMajor(line) THEN Append(@, line.kind) ELSE @]

SkipSeparator(line) ==
    /\ line.kind = "separator"
    /\ UNCHANGED read

OpenTable(line) ==
    /\ Heading(line)
    /\ read' = [read EXCEPT !.table = line.kind]

Entry(line) == line.kind \in {"row", "creditRow", "alien"}

\* Rows of a table that is not read stay behind.
SkipEntry(line) ==
    /\ Entry(line) /\ read.table = "none"
    /\ UNCHANGED read

\* Does the line fit the open table: as many cells, every one readable?
Fits(line, table) ==
    line.kind = IF table = "enrolment" THEN "row" ELSE "creditRow"

RefuseEntry(line) ==
    /\ Entry(line) /\ read.table # "none" /\ ~Fits(line, read.table)
    /\ read' = [read EXCEPT !.refused = TRUE]

TakeRow(line) ==
    /\ read.table = "enrolment" /\ Entry(line) /\ Fits(line, "enrolment")
    /\ read' = [read EXCEPT !.rows = Append(@, line.row)]

TakeCredit(line) ==
    /\ read.table = "credit" /\ Entry(line) /\ Fits(line, "credit")
    /\ read' = [read EXCEPT !.credit = @ + 1]

TableRecord ==
    IF read.refused \/ read.rows = <<>> THEN Refused
                                        ELSE Accepted(read.rows, read.credit)

-----------------------------------------------------------------------------
(* A paste that lost its tables: _parse_flat                               *)

Matched(line) == line.kind = "row" /\ line.row.spelt

\* Lines of which something is left once pipes and spaces are gone.
Words(line) == line.kind # "blank"

\* Slip: what stands between two rows is passed over.
NothingBetween(lines, i, j) == {}

Between(lines, i, j) == {k \in i+1 .. j-1 : Words(lines[k])}

HoldsDigit(line) == line.kind \in {"row", "creditRow", "alien", "label", "course"}

\* A credit section behind the last row, up to the next "#", that holds a digit.
CreditBehind(lines, last) ==
    \E s \in last+1 .. Len(lines) :
        /\ lines[s].kind = "creditSection"
        /\ \E k \in s+1 .. Len(lines) :
              /\ HoldsDigit(lines[k])
              /\ \A n \in s+1 .. k :
                    lines[n].kind \notin {"section", "creditSection"}

FlatRecord(lines) ==
    LET matches == {i \in DOMAIN lines : Matched(lines[i])}
    IN  IF \/ matches = {}
           \/ \E i, j \in matches :
                /\ i < j
                /\ Between(lines, i, j) \ matches # {}
           \/ CreditBehind(lines, CHOOSE i \in matches : \A j \in matches : j <= i)
        THEN Refused
        ELSE Accepted(RowsOf(LinesAt(lines, matches)), 0)

-----------------------------------------------------------------------------
\* The second reading of a record, for the average, also looks at its marks.
\* _with_wam: whatever goes wrong there ends in a note.
NoteFor(parsed) ==
    IF \E i \in DOMAIN parsed.rows : parsed.rows[i].mark \notin 0..100 \union {NoMark}
    THEN Unreadable
    ELSE CalculateWam(parsed.rows)

Init ==
    /\ layout \in {"table", "flat"}
    /\ paste = <<>> /\ read = Fresh /\ record = NoRecord /\ wam = NoRecord

\* The next line of the paste, while nothing has been refused.
ReadLine(line) ==
    /\ record = NoRecord /\ Len(paste) < MaxLines /\ ~read.refused
    /\ paste' = Append(paste, line)
    /\ IF layout = "flat" THEN UNCHANGED read
       ELSE \/ ReadText(line) \/ SkipSeparator(line) \/ OpenTable(line)
            \/ SkipEntry(line) \/ RefuseEntry(line)
            \/ TakeRow(line)   \/ TakeCredit(line)
    /\ UNCHANGED <<layout, record, wam>>

\* The end of parse_enrolment and of _with_wam.
Finish ==
    /\ record = NoRecord
    /\ layout = "table" => Len(TableLines(paste)) > 1
    /\ record' = IF layout = "table" THEN TableRecord ELSE FlatRecord(paste)
    /\ wam' = IF record' = Refused THEN NoRecord ELSE NoteFor(record')
    /\ UNCHANGED <<layout, paste, read>>

Next == (\E line \in Lines : ReadLine(line)) \/ Finish

Spec == Init /\ [][Next]_vars

-----------------------------------------------------------------------------
(* Properties                                                              *)

IsRecord(r) == r.kind = "record"

Reads == [table : {"none", "enrolment", "credit"}, rows : Seq(Subjects), credit : Nat,
          majors : Seq({"major", "title", "label"}), pending : BOOLEAN, refused : BOOLEAN]

\* Readings hold rows of the paste, and an average lies between 0 and 100.
TypeOK ==
    /\ layout \in {"table", "flat"}
    /\ paste \in Seq(Lines)
    /\ read \in Reads
    /\ record \in {NoRecord, Refused} \/ record.rows \in Seq(Subjects)
    /\ wam.kind = "wam" => wam.wam \in 0..10000

\* A line of this kind comes before the i-th, and none between them ends its reach.
Since(lines, kind, ends, i) ==
    \E h \in 1 .. i-1 :
        /\ lines[h].kind = kind
        /\ \A k \in h+1 .. i-1 : lines[k].kind \notin ends

\* Where a line stands: under the latest heading, unless a text line or another
\* heading comes between; or behind a label without a name.
Under(lines, kind, i) == Since(lines, kind, Texts \union {"enrolment", "credit"}, i)
BehindLabel(lines, i) == Since(lines, "emptyMajor", Texts, i)

EntriesUnder(lines, kind) ==
    {i \in DOMAIN lines : Entry(lines[i]) /\ Under(lines, kind, i)}

\* The lines a major is read from: one that names it, or one of its shape right
\* behind a label without a name.
MajorLines(lines) ==
    {i \in DOMAIN lines :
        \/ lines[i].kind = "major"
        \/ lines[i].kind \in {"title", "label"} /\ BehindLabel(lines, i)}

\* What parse_enrolment promises of a paste that kept its tables: the record
\* holds every row under an enrolment heading and every credit row under a
\* credit heading, in order, and nothing else; one line there that cannot be
\* read refuses the paste, and so does a paste without rows.
ReadsItsTables ==
    layout = "table" /\ record # NoRecord =>
        LET history == EntriesUnder(paste, "enrolment")
            credit  == EntriesUnder(paste, "credit")
        IN  /\ read.majors = KindsOf(LinesAt(paste, MajorLines(paste)))
            /\ record = IF \/ history = {}
                           \/ \E i \in history : ~Fits(paste[i], "enrolment")
                           \/ \E i \in credit : ~Fits(paste[i], "credit")
                        THEN Refused
                        ELSE Accepted(RowsOf(LinesAt(paste, history)), Cardinality(credit))

SubjectLines == {i \in DOMAIN paste : paste[i].kind = "row"}

\* Both parsers read the same record out of the same lines, whenever both accept
\* it, every row stands under its heading, and the first and the last row are
\* spelt as the flat expression wants them; credit announced behind the history
\* is never lost ("that is a refusal rather than a silent drop").
LayoutsAgree ==
    layout = "table" /\ IsRecord(record) /\ IsRecord(FlatRecord(paste)) =>
        /\ /\ SubjectLines = EntriesUnder(paste, "enrolment")
           /\ paste[Min(SubjectLines)].row.spelt
           /\ paste[Max(SubjectLines)].row.spelt
           => FlatRecord(paste).rows = record.rows
        /\ \A i \in EntriesUnder(paste, "credit") :
              \A s \in Max(SubjectLines) + 1 .. i-1 :
                paste[s].kind = "creditSection" =>
                    \E k \in s+1 .. i-1 : paste[k].kind = "section"

\* Repeats whose grade or status differ though mark and credit points agree.
SilentConflict(rows) ==
    \E i, j \in DOMAIN rows :
        /\ rows[i].key = rows[j].key /\ rows[i].mark = rows[j].mark
        /\ rows[i].cp = rows[j].cp
        /\ <<rows[i].grade, rows[i].status>> # <<rows[j].grade, rows[j].status>>

\* "Drop exact repeats (a record pasted twice)": pasting a record twice changes
\* nothing of its average (_unique, wam.py).
PastedTwice ==
    IsRecord(record) =>
        NoteFor(Accepted(record.rows \o record.rows, record.credit)) = wam

Swapped(rows, i, j) == [rows EXCEPT ![i] = rows[j], ![j] = rows[i]]

\* The average does not depend on the order of the rows, as long as no two of
\* them disagree on the grade or status of one and the same result.
OrderIrrelevant ==
    IsRecord(record) /\ ~SilentConflict(record.rows) =>
        \A i, j \in DOMAIN record.rows :
            NoteFor(Accepted(Swapped(record.rows, i, j), record.credit)) = wam

\* The average, or the refusal of one, is that of the set of rows (_unique, wam.py).
RepeatsAndOrderIrrelevant == PastedTwice /\ OrderIrrelevant

\* The results that count, one for each subject and attempt.
Results(rows) ==
    {[key |-> row.key, cp |-> row.cp, mark |-> CountedMark(row)] :
        row \in {r \in ToSet(rows) : r.status \in CountedStatuses /\ CountedMark(r) # NoMark}}

\* The note holds the greatest number of hundredths that does not exceed the mean.
IsTruncated(note, weighted, total) ==
    /\ note.cp = total /\ note.wam \in 0..10000
    /\ note.wam * total <= 100 * weighted
    /\ 100 * weighted < (note.wam + 1) * total

\* "WAMs are not rounded up, so the result is truncated": an average is the
\* greatest number of hundredths that does not exceed the mean of the results
\* by credit points, and there is none exactly when no credit points count.
WamIsTruncatedMean ==
    IsRecord(record) /\ wam # Unreadable /\ ~SilentConflict(record.rows) =>
        LET results  == Results(record.rows)
            total    == SumFunction([r \in results |-> r.cp])
            weighted == SumFunction([r \in results |-> r.cp * r.mark])
        IN  IF total = 0 THEN wam = NotAvailable
                         ELSE IsTruncated(wam, weighted, total)

-----------------------------------------------------------------------------
(* What the repository says and the code does not do.                      *)

\* "Fail grades count, with a technical fail (TF) entered as 49" (wam.py:4): a
\* technical fail beside which a mark is printed counts with that mark.
TechnicalFailIs49 ==
    IsRecord(record) =>
        \A i \in DOMAIN record.rows :
            record.rows[i].grade = "TF" => CountedMark(record.rows[i]) = TECHNICAL_FAIL_MARK

\* "refuse conflicting ones" (wam.py:91): of two rows of one attempt that
\* disagree on its grade or status only, the first decides.
ConflictsAreRefused ==
    IsRecord(record) /\ SilentConflict(record.rows) => wam = Unreadable

\* "Text left over between two rows means a row was only partly understood, and
\* that is a refusal rather than a silent drop" (enrolment.py:381): a row that
\* cannot be read before the first or behind the last one that can is dropped.
FlatKeepsEveryRow ==
    layout = "flat" /\ IsRecord(record) =>
        Len(record.rows) = Cardinality(SubjectLines)

\* A blank line inside a table drops the rows behind it without a word.
TableKeepsEveryRow ==
    layout = "table" /\ IsRecord(record) =>
        Len(record.rows) = Cardinality(SubjectLines)

\* "Do not mistake another header label for a major name" (enrolment.py:313): a
\* label other than course, campus or major is taken for one.
LabelsAreNotMajors == \A n \in DOMAIN read.majors : read.majors[n] # "label"

=============================================================================
