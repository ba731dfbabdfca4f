---------------------------- MODULE ChatSessions ----------------------------
(***************************************************************************)
(* One chat session as its requests see it: AgentChatService around the    *)
(* advisor graph, the checkpoints LangGraph keeps of the thread, and the   *)
(* history that is rebuilt from them (agents/history.py).                  *)
(*                                                                         *)
(* A turn reads the newest checkpoint once, works on its own copy of the   *)
(* message list, and writes a checkpoint after every superstep.  Nothing   *)
(* keeps two requests on one session from running turns at the same time.  *)
(* What a node decides is left to AdvisorGraph: here a superstep speaks,   *)
(* calls tools, carries them out, or adds no message.                      *)
(***************************************************************************)
EXTENDS Naturals, Sequences, SequencesExt

CONSTANTS
    Turns,      \* the requests made of this session
    MaxSteps,   \* bound: supersteps of a turn
    NoReply

ASSUME MaxStepsAssumption == MaxSteps \in Nat \ {0}

VARIABLES
    checkpoints,  \* the message list of each checkpoint of the thread, oldest first
    row,          \* is there a chat_session row?
    turn,         \* what each request is doing and what it was answered
    overlapped    \* history: two turns have run at the same time

vars == <<checkpoints, row, turn, overlapped>>

\* The n-th message of a turn.  Only "human" and "say" are shown to students.
Kinds == {"human", "say", "call", "result"}
Messages == [of: Turns, n: 1..MaxSteps, kind: Kinds]
Visible == [of: Turns, n: 1..MaxSteps, kind: {"human", "say"}]
Says == [of: Turns, n: 1..MaxSteps, kind: {"say"}]
MessagesOf(t) == [of: {t}, n: 1..MaxSteps, kind: Kinds]

\* The messages of a set, in their order (SelectSeq, as a recursive function).
Only(messages, set) ==
    LET kept[i \in 0..Len(messages)] ==
            IF i = 0 THEN <<>>
            ELSE IF messages[i] \in set THEN Append(kept[i - 1], messages[i])
            ELSE kept[i - 1]
    IN  kept[Len(messages)]

Errors == {"timeout", "failed", "notFound", "unavailable", "invalid"}

Unasked == [pc |-> "idle", first |-> FALSE, mem |-> <<>>, steps |-> 0,
            noHandbook |-> FALSE, answer |-> "none", reply |-> NoReply]

TurnStates ==
    [pc: {"idle", "graph", "save", "reply", "done"}, first: BOOLEAN,
     mem: Seq(Messages), steps: 0..MaxSteps, noHandbook: BOOLEAN,
     answer: {"none", "ok"} \cup Errors, reply: Messages \cup {NoReply}]

TypeOK ==
    /\ checkpoints \in Seq(Seq(Messages))
    /\ row \in BOOLEAN
    /\ overlapped \in BOOLEAN
    /\ turn \in [Turns -> TurnStates]
    /\ \A t \in Turns :
        /\ turn[t].pc # "done" <=> turn[t].answer = "none"
        /\ IF turn[t].answer = "ok" THEN turn[t].reply \in Messages
                                   ELSE turn[t].reply = NoReply

Init ==
    /\ checkpoints = <<>>
    /\ row = FALSE
    /\ turn = [t \in Turns |-> Unasked]
    /\ overlapped = FALSE

-----------------------------------------------------------------------------
(* history.py                                                              *)

\* Slip: the number of messages seen is summed up instead of replaced.
ReadSnapshotSumming(read, messages) ==
    [seen |-> read.seen + Len(messages),
     views |-> read.views \o SubSeq(messages, read.seen + 1, Len(messages))]

ReadSnapshot(read, messages) ==
    [seen |-> Len(messages),
     views |-> read.views \o SubSeq(messages, read.seen + 1, Len(messages))]

\* Slip: the newest checkpoint is taken for the whole history.
HistoryOfNewest(snapshots) ==
    IF snapshots = <<>> THEN <<>> ELSE Only(Last(snapshots), Visible)

\* All snapshots, oldest first.
Reading(snapshots) ==
    LET read[i \in 0..Len(snapshots)] ==
            IF i = 0 THEN [seen |-> 0, views |-> <<>>]
                     ELSE ReadSnapshot(read[i - 1], snapshots[i])
    IN  read[Len(snapshots)]

BuildHistory(snapshots) == Only(Reading(snapshots).views, Visible)

Said(messages) == Only(messages, Says)

\* Slip: the history is searched from its beginning.
FirstReply(snapshots) ==
    LET said == Said(BuildHistory(snapshots))
    IN  IF said = <<>> THEN NoReply ELSE Head(said)

LatestReply(snapshots) ==
    LET said == Said(BuildHistory(snapshots))
    IN  IF said = <<>> THEN NoReply ELSE Last(said)

-----------------------------------------------------------------------------
(* A turn                                                                  *)

Own(t) == Len(Only(turn[t].mem, MessagesOf(t)))
Message(t, kind) == [of |-> t, n |-> Own(t) + 1, kind |-> kind]
Newest == IF checkpoints = <<>> THEN <<>> ELSE Last(checkpoints)
Running(t) == turn[t].pc \notin {"idle", "done"}

\* Slip: the thread is not named in the configuration, so nothing is read.
FreshInput(t) == <<Message(t, "human")>>
Input(t) == Append(Newest, Message(t, "human"))

Asked(first, mem) ==
    [pc |-> "graph", first |-> first, mem |-> mem, steps |-> 0,
     noHandbook |-> FALSE, answer |-> "none", reply |-> NoReply]

Ask(t, first) ==
    /\ turn' = [turn EXCEPT ![t] = Asked(first, Input(t))]
    /\ overlapped' = (overlapped \/ \E u \in Turns : Running(u))
    /\ UNCHANGED <<checkpoints, row>>

\* start_session: a fresh session id, so an empty thread.
Start(t) ==
    /\ \A u \in Turns : turn[u] = Unasked
    /\ Ask(t, TRUE)

\* The client learns the id of the session from the answer to its first turn.
Known == \E u \in Turns : turn[u].first /\ turn[u].answer = "ok"

\* continue_session, after _owned_session() has found the row.
Continue(t) ==
    /\ turn[t] = Unasked
    /\ Known /\ row
    /\ Ask(t, FALSE)

Finish(t, answer, reply) ==
    turn' = [turn EXCEPT ![t].pc = "done", ![t].answer = answer, ![t].reply = reply]

\* A requested model that no provider runs: the resolver's ValueError, which the
\* endpoint answers with 404.
ContinueOnUnknownModel(t) ==
    /\ turn[t] = Unasked
    /\ Known /\ row
    /\ Finish(t, "notFound", NoReply)
    /\ UNCHANGED <<checkpoints, row, overlapped>>

\* A superstep leaves a checkpoint of this turn's message list.
Superstep(t, mem) ==
    /\ turn[t].pc = "graph"
    /\ turn[t].steps < MaxSteps
    /\ checkpoints' = Append(checkpoints, mem)
    /\ turn' = [turn EXCEPT ![t].mem = mem, ![t].steps = @ + 1]
    /\ UNCHANGED <<row, overlapped>>

Calling(t) == Running(t) /\ Last(turn[t].mem).kind = "call"

\* The input is checkpointed first; later, a node that adds no message.
Silent(t) == ~Calling(t) /\ Superstep(t, turn[t].mem)

Speak(t) ==
    /\ turn[t].steps > 0 /\ ~Calling(t)
    /\ Own(t) < MaxSteps
    /\ \E kind \in {"say", "call"} :
        Superstep(t, Append(turn[t].mem, Message(t, kind)))

RunTools(t) ==
    /\ Calling(t)
    /\ Own(t) < MaxSteps
    /\ Superstep(t, Append(turn[t].mem, Message(t, "result")))

\* The graph ends after an answer, or, for want of a handbook, after tool results.
End(t) ==
    /\ turn[t].pc = "graph"
    /\ Last(turn[t].mem).of = t
    /\ Last(turn[t].mem).kind \in {"say", "result"}
    /\ turn' = [turn EXCEPT
            ![t].pc = IF turn[t].first THEN "save" ELSE "reply",
            ![t].noHandbook = (Last(turn[t].mem).kind = "result")]
    /\ UNCHANGED <<checkpoints, row, overlapped>>

SaveSession(t) ==
    /\ turn[t].pc = "save"
    /\ row' = TRUE
    /\ turn' = [turn EXCEPT ![t].pc = "reply"]
    /\ UNCHANGED <<checkpoints, overlapped>>

\* MessageOut.model_validate(None) raises a ValidationError, a ValueError, which
\* start_session answers with 422.
Answer(reply) == IF reply = NoReply THEN "invalid" ELSE "ok"

Reply(t) ==
    /\ turn[t].pc = "reply"
    /\ LET reply == LatestReply(checkpoints) IN Finish(t, Answer(reply), reply)
    /\ UNCHANGED <<checkpoints, row, overlapped>>

\* A node raises, or the provider times out; or the database fails afterwards.
\* What was checkpointed stays.
Fail(t) ==
    /\ Running(t)
    /\ \E answer \in {"timeout", "failed"} :
        /\ answer = "timeout" => turn[t].pc = "graph" /\ turn[t].steps > 0 /\ ~Calling(t)
        /\ Finish(t, answer, NoReply)
    /\ UNCHANGED <<checkpoints, row, overlapped>>

Next ==
    \E t \in Turns :
        \/ Start(t) \/ Continue(t) \/ ContinueOnUnknownModel(t)
        \/ Silent(t) \/ Speak(t) \/ RunTools(t)
        \/ End(t) \/ SaveSession(t) \/ Reply(t) \/ Fail(t)

Spec == Init /\ [][Next]_vars

-----------------------------------------------------------------------------
(* Properties                                                              *)

\* build_history() (history.py:82) shows the conversation: unless turns overlapped,
\* every message the thread holds now, once and in order, whatever turns failed.
HistoryIsConversation ==
    ~overlapped => BuildHistory(checkpoints) = Only(Newest, Visible)

\* latest_reply() (history.py:108) answers a turn that spoke with its own last words,
\* unless turns overlapped.
ReplyIsOwn ==
    \A t \in Turns :
        LET words == Said(Only(turn[t].mem, MessagesOf(t)))
        IN  ~overlapped /\ turn[t].answer = "ok" /\ words # <<>>
                => turn[t].reply = Last(words)

\* What a student has been shown of the history is never taken back or moved, even
\* when overlapping turns build on different checkpoints (history.py:90-102).
HistoryOnlyGrows ==
    [][IsPrefix(BuildHistory(checkpoints), BuildHistory(checkpoints'))]_checkpoints

\* The checkpoints "hold the conversation" (README.md:254): unless turns overlapped,
\* the words that answered a turn are in the state the next turn reads, whatever
\* turns failed in between.
AnswersAreRemembered ==
    ~overlapped /\ (\A u \in Turns : ~Running(u)) =>
        \A t \in Turns : turn[t].answer = "ok" => turn[t].reply \in ToSet(Newest)

-----------------------------------------------------------------------------
(* What the repository says and the code does not do.                      *)

\* "Each message gets the timestamp of the turn that produced it" (history.py:86):
\* it is listed once.
EachMessageOnce == IsInjective(BuildHistory(checkpoints))

\* "Retrieve full message history for a session" (README.md:123).
FullHistory ==
    \A i \in DOMAIN checkpoints :
        \A m \in ToSet(checkpoints[i]) :
            m \in Visible => m \in ToSet(BuildHistory(checkpoints))

\* The same as AnswersAreRemembered when turns overlapped.
AnsweredIsRemembered ==
    (\A u \in Turns : ~Running(u)) =>
        \A t \in Turns : turn[t].answer = "ok" => turn[t].reply \in ToSet(Newest)

\* "Check your saved chat before retrying" (chat.py:100): after a timeout there is
\* a saved chat.
TimedOutChatIsSaved == \A t \in Turns : turn[t].answer = "timeout" => row

\* A missing handbook is answered with 503 (handbook_service.py:12, chat.py:182).
MissingHandbookIsUnavailable ==
    [][\A t \in Turns :
        Reply(t) /\ turn[t].noHandbook
            => turn'[t].answer \in {"ok", "unavailable"}]_vars

\* "Keep this mapping only if ValueError from this service specifically means that
\* the session was not found" (chat.py:255).
NotFoundMeansNoSession == \A t \in Turns : turn[t].answer = "notFound" => ~row
=============================================================================
