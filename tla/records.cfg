SPECIFICATION Spec
CONSTANTS
    NoMark = NoMark
    Subjects <- MCSubjects
    MaxLines = 5
INVARIANTS ReadsItsTables LayoutsAgree RepeatsAndOrderIrrelevant WamIsTruncatedMean
CHECK_DEADLOCK FALSE
