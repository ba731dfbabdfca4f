SPECIFICATION Spec
CONSTANTS
    Turns = {t1, t2, t3}
    MaxSteps = 3
    NoReply = NoReply
SYMMETRY Interchangeable
INVARIANTS HistoryIsConversation ReplyIsOwn AnswersAreRemembered
PROPERTY HistoryOnlyGrows
CHECK_DEADLOCK FALSE
