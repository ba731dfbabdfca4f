----------------------------- MODULE MCTurnKeys -----------------------------
(* The keys of chat turns for TLC.                                         *)
EXTENDS TurnKeys, TLC

\* Two keys of the project's provider and one of another; with three models, one is
\* only run when asked for by name.
Flash == [provider |-> "gemini", name |-> "flash"]
Pro == [provider |-> "gemini", name |-> "pro"]
Sonnet == [provider |-> "anthropic", name |-> "sonnet"]

TwoModels == {Flash, Sonnet}
ThreeModels == {Flash, Pro, Sonnet}
Defaults == [gemini |-> Flash, anthropic |-> Sonnet]
ThreeKeys == <<"gemini", "gemini", "anthropic">>

Interchangeable == Permutations(Turns)

\* What can still be read of a turn: not its answer; once its own key is revealed,
\* neither what it was asked for nor what was watched for it; and of a title that is
\* being generated, nothing.
Readable(t) ==
    IF turn[t].pc \notin {"graph", "save"} \/ turn[t].key = NoKey
    THEN [turn[t] EXCEPT !.answer = "none"]
    ELSE IF turn[t].title
    THEN [Idle("none") EXCEPT !.pc = "graph", !.title = TRUE]
    ELSE [turn[t] EXCEPT !.answer = "none", !.asked = NoModel, !.steady = {},
                         !.preferred = {}]

StateThatMatters ==
    <<keys, session, kept, [t \in Turns |-> Readable(t)]>>
=============================================================================
