---------------------------- MODULE AdvisorGraph ----------------------------
(***************************************************************************)
(* One conversation thread of the study advisor: the LangGraph wired in    *)
(* app/agents/graphAPI.py, its nodes in app/agents/nodes/, the pure        *)
(* updates of app/agents/state.py they apply, and the two service calls    *)
(* that start a turn (app/services/agent_chat_service.py).                 *)
(*                                                                         *)
(* A step of the graph (a superstep, after which the state is              *)
(* checkpointed) is one action.  What a language model, the handbook       *)
(* table or the student supplies is chosen nondeterministically.           *)
(*                                                                         *)
(* Data kept: which programme the metadata names (a handbook identity, or  *)
(* NoKey while degree, year or campus is missing) and the rest of the      *)
(* metadata (majors, session) as one value; which programme the stored     *)
(* handbook is for; the metadata a stored plan was written for; whether    *)
(* each feedback text is present; the counters.  Texts are left out.       *)
(***************************************************************************)
EXTENDS Naturals, Sequences

CONSTANTS
    Keys,                     \* handbook identities <<degree, year, campus>>
    Details,                  \* the rest of the metadata: majors, session
    NoKey,                    \* metadata that identifies no handbook
    NoPlan,
    MAX_TOOL_CALLS_PER_TURN,
    MAX_STAGE1_RETRIES,
    MAX_STAGE2_RETRIES,
    MAX_STAGE2_TOOL_LOOPS

ASSUME KeysAssumption == NoKey \notin Keys
ASSUME PlanAssumption == NoPlan \notin [key : Keys \union {NoKey}, detail : Details]
ASSUME LimitsAssumption ==
    /\ MAX_TOOL_CALLS_PER_TURN \in Nat
    /\ MAX_STAGE1_RETRIES \in Nat \ {0}
    /\ MAX_STAGE2_RETRIES \in Nat \ {0}
    /\ MAX_STAGE2_TOOL_LOOPS \in Nat

VARIABLES
    st,         \* AdvisorState, as checkpointed after the last superstep
    pc,         \* the node that runs next, "idle" between turns
    msg,        \* what the student's latest message asks for
    calls,      \* tool calls of the conversation that wait for their results
    used,       \* tool_calls_this_turn
    session,    \* is there a chat_session row for the thread?
    steps,      \* supersteps taken in this turn
    replied,    \* has this turn put visible text before the student?
    judged      \* the verdicts behind the state (see Judged)

vars == <<st, pc, msg, calls, used, session, steps, replied, judged>>

-----------------------------------------------------------------------------
Meta == [key : Keys \union {NoKey}, detail : Details]

AdvisorState == [
    meta         : Meta,
    confirmed    : BOOLEAN,                               \* meta_confirmed
    planning     : BOOLEAN,                               \* planning_requested
    pending      : {"none", "recommend", "populate_plan"},
    mode         : {"collecting", "planning", "post_plan"},
    handbook     : Keys \union {NoKey},   \* identity stored with the handbook
    validated    : BOOLEAN,                    \* major_validation_passed
    coreFeedback : BOOLEAN,                    \* remaining_feedback present
    coreRetries  : Nat,                        \* stage1_retry_count
    plan         : Meta \union {NoPlan},
    planFeedback : BOOLEAN,                    \* plan_feedback present
    planRetries  : Nat,                        \* stage2_retry_count
    toolLoops    : Nat ]                       \* stage2_tool_loop_count

Messages == [electives : BOOLEAN, question : BOOLEAN]

\* The tools, by what their results do to the state: "other" are lookups of
\* subjects, majors and policy.
Tools == {"confirm", "change", "lookup", "other"}

\* Batches of one or two calls stand for every batch: a longer one spends the
\* tool budget like one of two, and folds to the effect of two of its calls.
BatchesOf(tools) ==
    {<<>>} \union {<<a>> : a \in tools} \union {<<a, b>> : a \in tools, b \in tools}

\* major: the metadata the last major validation approved; plan: what the plan
\* evaluator last said of the stored plan ("blank": not valid, without saying why).
Judged == [major : Meta \union {NoPlan},
           plan : {"unjudged", "valid", "invalid", "blank"}]

Nodes == {"agent", "tools", "capture_tool_results", "ensure_handbook",
          "handbook_missing", "start_planning", "fetch_elective_list",
          "populate_plan_electives", "stage1_review_must_includes",
          "eval_stage1_lists", "stage2_make_plan", "stage2_tools",
          "capture_stage2_tool_results", "evaluate_stage2", "format_output"}

\* The nodes that read the handbook on the student's behalf.
PlanningStages == {"stage1_review_must_includes", "eval_stage1_lists",
                   "stage2_make_plan", "stage2_tools",
                   "capture_stage2_tool_results", "evaluate_stage2", "format_output"}
HandbookNodes == PlanningStages \union
                 {"start_planning", "fetch_elective_list", "populate_plan_electives"}

-----------------------------------------------------------------------------
(* Pure updates of app/agents/state.py                                     *)

\* Slip: any stored handbook will do.
HandbookLoaded(s) == s.meta.key # NoKey /\ s.handbook # NoKey

HandbookMatches(s) == s.meta.key # NoKey /\ s.handbook = s.meta.key

\* PLANNING_RESET, and the same fields in the metadata updates.
PlanningReset(s) ==
    [s EXCEPT !.coreFeedback = FALSE, !.coreRetries = 0, !.plan = NoPlan,
              !.planFeedback = FALSE, !.planRetries = 0, !.toolLoops = 0]

\* Slip: only a change of programme wipes the plan, a change of major does not.
ApplyMetadataKeepingPlan(s, m) ==
    IF m.key = NoKey
    THEN [s EXCEPT !.confirmed = FALSE, !.planning = FALSE]
    ELSE [s EXCEPT !.meta = m, !.confirmed = TRUE, !.planning = TRUE,
                   !.coreRetries = 0, !.planRetries = 0, !.toolLoops = 0,
                   !.plan = IF m.key = s.meta.key THEN s.plan ELSE NoPlan,
                   !.handbook = IF m.key = s.meta.key THEN s.handbook ELSE NoKey]

\* apply_confirm_metadata; apply_plan_change_request ends in the same update.
ApplyMetadata(s, m) ==
    IF m.key = NoKey
    THEN [s EXCEPT !.confirmed = FALSE, !.planning = FALSE]
    ELSE [PlanningReset(s) EXCEPT
            !.meta = m, !.confirmed = TRUE, !.planning = TRUE, !.mode = "planning",
            !.handbook = IF m.key = s.meta.key THEN s.handbook ELSE NoKey]

\* Slip: the new run inherits the counters of the last one.
ChangeInterestsKeepingCounters(s) ==
    [s EXCEPT !.planning = TRUE, !.mode = "planning", !.coreFeedback = FALSE,
              !.planFeedback = FALSE]

\* A change of elective interests replans but keeps the plan until then.
ChangeInterests(s) ==
    [s EXCEPT !.planning = TRUE, !.mode = "planning", !.coreFeedback = FALSE,
              !.planFeedback = FALSE, !.coreRetries = 0, !.planRetries = 0,
              !.toolLoops = 0]

\* sanitize_confirmed_metadata: a field once known may be replaced by what the
\* student stated, never removed.
SanitizedMeta(s) == {m \in Meta : s.meta.key # NoKey => m.key # NoKey}

\* A plan change touches one field of the metadata, or none.
ChangedMeta(s) ==
    {m \in SanitizedMeta(s) : m.key = s.meta.key \/ m.detail = s.meta.detail}

\* What one tool result can do to the state.  An unreadable result or a
\* rejected request leaves it alone, as lookups do.
Captured(s, call) ==
    CASE call = "confirm" -> {s} \union {ApplyMetadata(s, m) : m \in SanitizedMeta(s)}
      [] call = "change" -> {s, ChangeInterests(s)}
                            \union {ApplyMetadata(s, m) : m \in ChangedMeta(s)}
      [] OTHER -> {s}

-----------------------------------------------------------------------------
(* Routers                                                                 *)

\* With the right handbook, a pending elective action comes before a plan.
RequestedNode(s) ==
    CASE s.pending = "populate_plan" -> "populate_plan_electives"
      [] s.pending = "recommend" -> "fetch_elective_list"
      [] s.pending = "none" -> "start_planning"

RouteAfterAgent(s, batch) ==
    LET wanted == s.confirmed /\ (s.pending # "none" \/ s.planning)
    IN  CASE batch # <<>> -> "tools"
          [] batch = <<>> /\ ~wanted -> "idle"
          [] batch = <<>> /\ wanted ->
                IF HandbookMatches(s) THEN RequestedNode(s) ELSE "ensure_handbook"

RouteAfterToolResults(s, batch) ==
    IF /\ \E i \in DOMAIN batch : batch[i] = "confirm"
       /\ s.confirmed
       /\ s.planning \/ s.pending # "none"
       /\ ~HandbookMatches(s)
    THEN "ensure_handbook"
    ELSE "agent"

RouteAfterFetch(s) ==
    IF HandbookMatches(s) THEN RequestedNode(s) ELSE "handbook_missing"

RouteStage1Eval(s) ==
    IF s.coreFeedback /\ s.coreRetries < MAX_STAGE1_RETRIES
    THEN "stage1_review_must_includes"
    ELSE "stage2_make_plan"

\* Slip: one retry too many.
RouteEvaluationOneMore(s) ==
    IF s.planFeedback /\ s.planRetries <= MAX_STAGE2_RETRIES
    THEN "stage2_make_plan"
    ELSE "format_output"

RouteEvaluation(s) ==
    IF s.planFeedback /\ s.planRetries < MAX_STAGE2_RETRIES
    THEN "stage2_make_plan"
    ELSE "format_output"

-----------------------------------------------------------------------------
(* Turns                                                                   *)

\* A pass of stage 2: the tool loops (plan, tools, capture), then plan and verdict.
PassSteps == 3 * MAX_STAGE2_TOOL_LOOPS + 2

\* The conversation, the handbook, the major's validation, both stages, the reply.
TurnBound == (3 * MAX_TOOL_CALLS_PER_TURN + 1) + 2 + 2 * MAX_STAGE1_RETRIES
             + PassSteps * MAX_STAGE2_RETRIES + 1

\* start_session's initial state for a paste (record) or plain words.
FreshState(record, m) == [
    meta |-> m, confirmed |-> FALSE, planning |-> record, pending |-> "none",
    mode |-> "collecting", handbook |-> NoKey, validated |-> FALSE,
    coreFeedback |-> FALSE, coreRetries |-> 0, plan |-> NoPlan,
    planFeedback |-> FALSE, planRetries |-> 0, toolLoops |-> 0]

NothingJudged == [major |-> NoPlan, plan |-> "unjudged"]

Init ==
    /\ \E m \in Meta : m.key = NoKey /\ st = FreshState(FALSE, m)
    /\ pc = "idle"
    /\ msg = [electives |-> FALSE, question |-> FALSE]
    /\ calls = <<>>
    /\ used = 0
    /\ session = "none"
    /\ steps = 0
    /\ replied = FALSE
    /\ judged = NothingJudged

\* What both service calls hand to the graph with the new message.
BeginTurn ==
    /\ pc = "idle"
    /\ pc' = "agent"
    /\ calls' = <<>>
    /\ used' = 0
    /\ steps' = 0
    /\ replied' = FALSE

\* AgentChatService.start_session: a new thread, and no chat_session row before
\* the turn is over.  Plain words may name a year but no whole programme.
StartSession ==
    /\ session \in {"none", "lost"}
    /\ BeginTurn
    /\ session' = "starting"
    /\ \E record \in BOOLEAN, m \in Meta :
        /\ ~record => m.key = NoKey
        /\ st' = FreshState(record, m)
    /\ msg' \in Messages
    /\ judged' = NothingJudged

\* AgentChatService.continue_session with an ordinary message.
ContinueSession ==
    /\ session = "open"
    /\ BeginTurn
    /\ msg' \in Messages
    /\ UNCHANGED <<st, session, judged>>

\* Slip: the pasted metadata counts as confirmed because the old one was.
PasteRecordConfirmed ==
    /\ session = "open"
    /\ BeginTurn
    /\ \E m \in Meta :
        st' = [st EXCEPT !.planning = TRUE, !.plan = NoPlan, !.meta = m]
    /\ msg' \in Messages
    /\ UNCHANGED <<session, judged>>

\* AgentChatService.continue_session with a message that parses as an enrolment
\* record: its metadata (a record always has a year) replaces the stored one.
PasteRecord ==
    /\ session = "open"
    /\ BeginTurn
    /\ \E m \in Meta :
        st' = [st EXCEPT !.planning = TRUE, !.plan = NoPlan, !.meta = m,
                         !.confirmed = FALSE]
    /\ msg' \in Messages
    /\ UNCHANGED <<session, judged>>

\* A node raises (the model's provider fails, a tool fails) or the process
\* dies: the node's update is lost, the checkpoint before it stays.  The first
\* turn's thread then has no chat_session row.
TurnFails ==
    /\ pc # "idle"
    /\ pc' = "idle"
    /\ calls' = <<>>
    /\ session' = IF session = "starting" THEN "lost" ELSE session
    /\ UNCHANGED <<st, msg, used, steps, replied, judged>>

\* A node has run and the router names the next one ("idle" is END).  The count of supersteps
\* stops one past the bound, so that a loop without end is a cycle of states.
Goto(next) ==
    /\ pc' = next
    /\ steps' = IF steps > TurnBound THEN steps ELSE steps + 1
    /\ session' = IF next = "idle" THEN "open" ELSE session
    /\ UNCHANGED msg

-----------------------------------------------------------------------------
(* ConversationNodes                                                       *)

\* Slip: a name the routers do not know.
WantedElectivesMisnamed ==
    IF st.pending = "none" /\ msg.electives THEN "populate" ELSE st.pending

\* requested_elective_action, unless an action is already pending.
WantedElectives ==
    CASE st.pending # "none" -> st.pending
      [] st.pending = "none" /\ ~msg.electives -> "none"
      [] OTHER -> IF st.plan = NoPlan THEN "recommend" ELSE "populate_plan"

\* The tools bound to the model for this state: kinds "confirm", "qa", "full".
BoundTools ==
    CASE ~st.confirmed -> {"confirm", "change", "other"}
      [] st.confirmed /\ st.mode = "post_plan" /\ msg.question -> {"lookup", "other"}
      [] OTHER -> Tools

\* The agent's message and the pending action it leaves behind.
AgentSays(batch, pending) ==
    /\ pc = "agent"
    /\ calls' = batch
    /\ st' = [st EXCEPT !.pending = pending]
    /\ Goto(RouteAfterAgent(st', batch))
    /\ UNCHANGED <<used, judged>>

\* Text next to tool calls is shown to the student too.
MaySpeak == replied' \in {replied, TRUE}

AgentAtLimit ==
    /\ used >= MAX_TOOL_CALLS_PER_TURN
    /\ AgentSays(<<>>, st.pending)
    /\ replied' = TRUE

AgentWithoutLookup ==
    /\ used < MAX_TOOL_CALLS_PER_TURN
    /\ \E batch \in BatchesOf(BoundTools \ {"lookup"}) :
        /\ AgentSays(batch, WantedElectives)
        /\ IF batch = <<>> THEN replied' = TRUE ELSE MaySpeak

\* An elective lookup with a topic answers the request itself.
AgentLooksUpElectives ==
    /\ used < MAX_TOOL_CALLS_PER_TURN
    /\ "lookup" \in BoundTools
    /\ st.pending = "none"
    /\ \E batch \in BatchesOf(BoundTools) :
        /\ \E i \in DOMAIN batch : batch[i] = "lookup"
        /\ AgentSays(batch, "none")
    /\ MaySpeak

\* No topic: the lookup is dropped; with nothing else to run, the agent asks.
AgentLookupWithoutTopic ==
    /\ used < MAX_TOOL_CALLS_PER_TURN
    /\ "lookup" \in BoundTools
    /\ st.pending = "none"
    /\ \E batch \in BatchesOf(BoundTools \ {"lookup"}) :
        /\ AgentSays(batch, IF batch = <<>> THEN "none" ELSE WantedElectives)
        /\ IF batch = <<>> THEN replied' = TRUE ELSE MaySpeak

\* With an action pending the lookup is dropped, and nothing may be left.
AgentLookupSuppressed ==
    /\ used < MAX_TOOL_CALLS_PER_TURN
    /\ "lookup" \in BoundTools
    /\ st.pending # "none"
    /\ \E batch \in BatchesOf(BoundTools \ {"lookup"}) :
        AgentSays(batch, st.pending)
    /\ MaySpeak

RunTools ==
    /\ pc = "tools"
    /\ Goto("capture_tool_results")
    /\ used' = used + Len(calls)
    /\ UNCHANGED <<st, calls, replied, judged>>

\* capture_tool_results folds the batch in order, then the router looks at it;
\* nothing reads these calls again.
CaptureToolResults ==
    /\ pc = "capture_tool_results"
    /\ \E s \in Captured(st, calls[1]) :
        st' \in IF Len(calls) = 1 THEN {s} ELSE Captured(s, calls[2])
    /\ Goto(RouteAfterToolResults(st', calls))
    /\ calls' = <<>>
    /\ UNCHANGED <<used, replied, judged>>

-----------------------------------------------------------------------------
(* HandbookNodes                                                           *)

\* The fetched content is stored under the identity that was asked for; a
\* failed or empty fetch clears the handbook and the request.
EnsureHandbook ==
    /\ pc = "ensure_handbook"
    /\ \E found \in BOOLEAN :
        st' = IF found /\ st.meta.key # NoKey
              THEN [st EXCEPT !.handbook = st.meta.key]
              ELSE [st EXCEPT !.handbook = NoKey, !.planning = FALSE]
    /\ Goto(RouteAfterFetch(st'))
    /\ UNCHANGED <<calls, used, replied, judged>>

HandbookMissing ==
    /\ pc = "handbook_missing"
    /\ Goto("idle")
    /\ st' = [st EXCEPT !.planning = FALSE, !.plan = NoPlan,
                        !.coreFeedback = FALSE, !.planFeedback = FALSE]
    /\ UNCHANGED <<calls, used, replied, judged>>

-----------------------------------------------------------------------------
(* Stage1Nodes                                                             *)

\* The validator approves the major, refuses it with an explanation to the
\* student, or fails (provider error, verdict that is not an object).
StartPlanningUpdate(outcome) ==
    CASE ~HandbookMatches(st) -> [st EXCEPT !.planning = FALSE]
      [] HandbookMatches(st) /\ outcome = "valid" ->
            [PlanningReset(st) EXCEPT !.planning = FALSE, !.validated = TRUE,
                                      !.mode = "planning"]
      [] HandbookMatches(st) /\ outcome = "refused" ->
            [st EXCEPT !.planning = FALSE, !.validated = FALSE]
      [] OTHER -> [st EXCEPT !.planning = FALSE, !.planFeedback = TRUE]

StartPlanning ==
    /\ pc = "start_planning"
    /\ \E outcome \in {"valid", "refused", "error"} :
        /\ st' = StartPlanningUpdate(outcome)
        /\ replied' = (replied \/ outcome = "refused")
        /\ judged' = CASE outcome = "valid" -> [major |-> st.meta, plan |-> "unjudged"]
                       [] outcome = "refused" -> [judged EXCEPT !.major = NoPlan]
                       [] OTHER -> judged
    /\ Goto(IF st'.validated THEN "stage1_review_must_includes" ELSE "idle")
    /\ UNCHANGED <<calls, used>>

FetchElectiveList ==
    /\ pc = "fetch_elective_list"
    /\ Goto("idle")
    /\ st' = IF HandbookMatches(st) THEN [st EXCEPT !.pending = "none"] ELSE st
    /\ replied' = (replied \/ HandbookMatches(st))
    /\ UNCHANGED <<calls, used, judged>>

\* The model's answer becomes the plan and the reply, whatever it is: an empty
\* answer (written = FALSE) leaves no plan and nothing to show.
PopulatePlanElectives ==
    /\ pc = "populate_plan_electives"
    /\ Goto("idle")
    /\ \E written \in BOOLEAN :
        LET allowed == HandbookMatches(st)
            hasPlan == st.plan # NoPlan
        IN /\ st' = CASE ~allowed -> st
                      [] allowed /\ ~hasPlan -> [st EXCEPT !.pending = "recommend"]
                      [] OTHER -> [st EXCEPT !.pending = "none",
                                     !.plan = IF written THEN st.meta ELSE NoPlan]
           /\ replied' = (replied \/ (allowed /\ hasPlan /\ written))
           /\ judged' = IF allowed /\ hasPlan
                        THEN [judged EXCEPT !.plan = "unjudged"] ELSE judged
    /\ UNCHANGED <<calls, used>>

GenerateCoreSubjects ==
    /\ pc = "stage1_review_must_includes"
    /\ Goto("eval_stage1_lists")
    /\ st' = IF HandbookMatches(st) THEN [st EXCEPT !.coreFeedback = FALSE] ELSE st
    /\ UNCHANGED <<calls, used, replied, judged>>

EvaluateStage1 ==
    /\ pc = "eval_stage1_lists"
    /\ \E accepted \in BOOLEAN :
        st' = [st EXCEPT !.coreFeedback = ~accepted, !.coreRetries = st.coreRetries + 1]
    /\ Goto(RouteStage1Eval(st'))
    /\ UNCHANGED <<calls, used, replied, judged>>

-----------------------------------------------------------------------------
(* Stage2Nodes                                                             *)

\* The model asks for tools.  Past the loop limit it has none bound; calls it
\* makes all the same cannot run, and the turn is formatted as it stands.
MakePlanCallsTools ==
    /\ pc = "stage2_make_plan"
    /\ HandbookMatches(st)
    /\ Goto(IF st.toolLoops >= MAX_STAGE2_TOOL_LOOPS
                 THEN "format_output" ELSE "stage2_tools")
    /\ MaySpeak
    /\ UNCHANGED <<st, calls, used, judged>>

\* The model answers in text; an empty answer keeps the plan of the pass before.
\* Without the handbook the node answers nothing and drops the plan.
MakePlanAnswers ==
    /\ pc = "stage2_make_plan"
    /\ Goto("evaluate_stage2")
    /\ \E written \in {HandbookMatches(st), FALSE} :
        /\ st' = IF HandbookMatches(st)
                 THEN [st EXCEPT !.toolLoops = 0,
                                 !.plan = IF written THEN st.meta ELSE st.plan]
                 ELSE [st EXCEPT !.planning = FALSE, !.plan = NoPlan]
        /\ replied' = (replied \/ written)
        /\ judged' = IF written THEN [judged EXCEPT !.plan = "unjudged"] ELSE judged
    /\ UNCHANGED <<calls, used>>

Stage2Tools ==
    /\ pc = "stage2_tools"
    /\ Goto("capture_stage2_tool_results")
    /\ UNCHANGED <<st, calls, used, replied, judged>>

\* Slip: the loop is not counted.
CaptureWithoutCounting ==
    /\ pc = "capture_stage2_tool_results"
    /\ Goto("stage2_make_plan")
    /\ UNCHANGED <<st, calls, used, replied, judged>>

\* Slip: the feedback counts as consumed once the model has used it.
CaptureConsumingFeedback ==
    /\ pc = "capture_stage2_tool_results"
    /\ Goto("stage2_make_plan")
    /\ st' = [st EXCEPT !.toolLoops = st.toolLoops + 1, !.planFeedback = FALSE]
    /\ UNCHANGED <<calls, used, replied, judged>>

CaptureStage2ToolResults ==
    /\ pc = "capture_stage2_tool_results"
    /\ Goto("stage2_make_plan")
    /\ st' = [st EXCEPT !.toolLoops = st.toolLoops + 1]
    /\ UNCHANGED <<calls, used, replied, judged>>

\* Without a plan there is nothing to evaluate.  A verdict that is not valid
\* may come without feedback text ("blank").
EvaluateStage2 ==
    /\ pc = "evaluate_stage2"
    /\ \E verdict \in IF st.plan = NoPlan THEN {"unjudged"}
                      ELSE {"valid", "invalid", "blank"} :
        /\ st' = [st EXCEPT !.planFeedback = verdict \in {"unjudged", "invalid"},
                            !.planRetries = IF verdict = "valid" THEN 0
                                            ELSE st.planRetries + 1]
        /\ judged' = [judged EXCEPT !.plan = verdict]
    /\ Goto(RouteEvaluation(st'))
    /\ UNCHANGED <<calls, used, replied>>

FormatOutput ==
    /\ pc = "format_output"
    /\ Goto("idle")
    /\ st' = [st EXCEPT !.planning = FALSE, !.mode = "post_plan"]
    /\ replied' = TRUE
    /\ UNCHANGED <<calls, used, judged>>

-----------------------------------------------------------------------------
Turn == StartSession \/ ContinueSession \/ PasteRecord

Agent ==
    \/ AgentAtLimit
    \/ AgentWithoutLookup
    \/ AgentLooksUpElectives
    \/ AgentLookupWithoutTopic
    \/ AgentLookupSuppressed

Node ==
    \/ Agent
    \/ RunTools
    \/ CaptureToolResults
    \/ EnsureHandbook
    \/ HandbookMissing
    \/ StartPlanning
    \/ FetchElectiveList
    \/ PopulatePlanElectives
    \/ GenerateCoreSubjects
    \/ EvaluateStage1
    \/ MakePlanCallsTools
    \/ MakePlanAnswers
    \/ Stage2Tools
    \/ CaptureStage2ToolResults
    \/ EvaluateStage2
    \/ FormatOutput

Next == Turn \/ Node \/ TurnFails

Spec == Init /\ [][Next]_vars

\* A turn is one request of the service, which awaits each node in turn: a node
\* that can run does, or raises.  The student need not send another message.
FairSpec == Spec /\ WF_vars(Node)
-----------------------------------------------------------------------------
(* Properties                                                              *)

TypeOK ==
    /\ st \in AdvisorState
    /\ pc \in Nodes \union {"idle"}
    /\ msg \in Messages
    /\ calls \in BatchesOf(Tools)
    /\ used \in Nat
    /\ session \in {"none", "starting", "open", "lost"}
    /\ steps \in Nat
    /\ replied \in BOOLEAN
    /\ judged \in Judged

\* The handbook gate ("HARD INVARIANT", handbook_matches_current_meta): every
\* node that plans or recommends from the handbook runs with confirmed metadata
\* and with the handbook of exactly that metadata, whatever the student pasted,
\* switched or re-confirmed, in this turn or an earlier one.
HandbookGate ==
    pc \in HandbookNodes => st.confirmed /\ st.meta.key \in Keys /\ st.handbook = st.meta.key

\* A stored plan was written for the metadata now in the state: no change of
\* programme or major, no new record and no failed turn leaves an old plan.
PlanFitsMeta == st.plan # NoPlan => st.plan = st.meta

\* Confirmed metadata always identifies a handbook (validate_metadata agrees with
\* metadata_handbook_key), also after a record replaced the metadata.
ConfirmedIdentifiesHandbook == st.confirmed => st.meta.key \in Keys

\* A run about to be planned has its whole budget of retries and tool loops,
\* although the counters outlive turns and failed turns leave them anywhere.
FullBudget ==
    st.confirmed /\ st.planning =>
        st.coreRetries = 0 /\ st.planRetries = 0 /\ st.toolLoops = 0

\* However the model and the evaluators behave, a turn is over within
\* TurnBound supersteps: the retry and tool limits bound every loop together.
TurnIsBounded == steps <= TurnBound

\* A plan the evaluator rejected with a reason is never shown without feedback.
RejectionShown ==
    pc = "format_output" /\ judged.plan = "invalid" => st.planFeedback

\* Every turn ends: the request is answered or fails, it never hangs in the graph.
TurnEnds == pc # "idle" ~> pc = "idle"

Ledger == INSTANCE PlanLedger
            WITH meta <- st.meta, confirmed <- st.confirmed,
                 handbook <- st.handbook, plan <- st.plan

\* Every step of the graph is a step of the ledger or changes nothing it records:
\* whatever order the nodes run in and wherever they fail, a plan comes only from the
\* handbook of the confirmed programme, and metadata moves only as the ledger says.
KeepsLedger == Ledger!Spec

(* What the repository says of the program and the code does not do.         *)

\* start_planning's docstring, "Validate handbook metadata and major before
\* starting planning": the stages run only for metadata whose major the
\* validator approved.
StagesRunOnValidatedMajor == pc \in PlanningStages => judged.major = st.meta

\* handbook_matches_current_meta: "The handbook can only be used if its identity
\* exactly matches the current metadata", the agent's prompts included.
PromptHandbookMatches ==
    pc = "agent" /\ used < MAX_TOOL_CALLS_PER_TURN /\ st.handbook # NoKey
        => st.handbook = st.meta.key

\* format_output without feedback says the plan "has passed the evaluation
\* checks": an evaluated plan passed with a valid verdict.
PassClaimNeedsValidVerdict ==
    pc = "format_output" /\ ~st.planFeedback => judged.plan \in {"valid", "unjudged"}

\* The same claim is only made of a plan that was evaluated at all.
PassClaimNeedsEvaluation ==
    pc = "format_output" /\ ~st.planFeedback => judged.plan # "unjudged"

\* The agent's comment, "A question about the existing plan is answered
\* conversationally, never replanned".
QuestionNeverReplans ==
    msg.question /\ st.mode = "post_plan" /\ st.plan # NoPlan
        => pc # "populate_plan_electives"

\* The comment on MAX_STAGE1_RETRIES, "The evaluator is skipped on the last pass".
EvaluatorSkippedOnLastPass ==
    pc = "eval_stage1_lists" => st.coreRetries + 1 < MAX_STAGE1_RETRIES

\* continue_session's comment, "Update metadata only when the new record provides
\* it": a record does not erase the programme that is already known.
RecordKeepsKnownProgramme ==
    [][session = "open" /\ st.meta.key # NoKey => st'.meta.key # NoKey]_vars

\* The agent's prompt, "If requested to make a plan from a degree you do not have
\* the handbook for, respond to the student": the turn that gives up for want of
\* a handbook has said something.
UnsupportedDegreeAnswered == pc = "handbook_missing" => replied

\* populate_plan_electives's docstring, "Add valid elective candidates to the
\* existing plan without rebuilding it": the student still has a plan afterwards.
PopulateKeepsPlan ==
    [][pc = "populate_plan_electives" /\ st.plan # NoPlan => st'.plan # NoPlan]_vars
=============================================================================
