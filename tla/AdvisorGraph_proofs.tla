------------------------ MODULE AdvisorGraph_proofs ------------------------
(***************************************************************************)
(* Proofs about the advisor graph, for every set of programmes and majors  *)
(* and every value of the limits: its invariants, and that it implements   *)
(* the plan ledger.                                                        *)
(***************************************************************************)
EXTENDS AdvisorGraph, TLAPS

-----------------------------------------------------------------------------
(* Batches of tool calls                                                   *)

\* A batch has at most two calls, all of them from the tools it was drawn from.
LEMMA BatchShape ==
    ASSUME NEW tools, NEW batch \in BatchesOf(tools)
    PROVE  /\ batch \in Seq(tools)
           /\ Len(batch) \in 0..2
           /\ batch # <<>> => Len(batch) \in 1..2 /\ batch[1] \in tools
           /\ Len(batch) = 2 => batch[2] \in tools
<1>1. CASE batch = <<>>
  BY <1>1
<1>2. ASSUME NEW a \in tools, batch = <<a>>
      PROVE  /\ batch \in Seq(tools)
             /\ Len(batch) = 1
             /\ batch[1] \in tools
  BY <1>2
<1>3. ASSUME NEW a \in tools, NEW b \in tools, batch = <<a, b>>
      PROVE  /\ batch \in Seq(tools)
             /\ Len(batch) = 2
             /\ batch[1] \in tools /\ batch[2] \in tools
  BY <1>3
<1> QED
  BY <1>1, <1>2, <1>3 DEF BatchesOf

\* Fewer tools bound, fewer batches possible.
LEMMA BatchesMonotone ==
    ASSUME NEW few, NEW many, few \subseteq many, NEW batch \in BatchesOf(few)
    PROVE  batch \in BatchesOf(many)
  BY DEF BatchesOf

\* Every tool the agent can have bound is one of the tools.
LEMMA BoundToolsAreTools == BoundTools \subseteq Tools
  BY DEF BoundTools, Tools

-----------------------------------------------------------------------------
(* The captured tool results                                               *)

\* What the state must satisfy for the gate to be safe, as a predicate on the
\* state alone, so that it can be carried through a fold over tool results.
Sound(s) ==
    /\ s.confirmed => s.meta.key \in Keys
    /\ s.plan # NoPlan => s.plan = s.meta
    /\ s.confirmed /\ s.planning =>
          s.coreRetries = 0 /\ s.planRetries = 0 /\ s.toolLoops = 0

LEMMA ApplyMetadataSound ==
    ASSUME NEW s \in AdvisorState, NEW m \in Meta
    PROVE  /\ ApplyMetadata(s, m) \in AdvisorState
           /\ Sound(s) => Sound(ApplyMetadata(s, m))
<1>1. CASE m.key = NoKey
  BY ZenonT(90), <1>1 DEF ApplyMetadata, AdvisorState, Sound
<1>2. CASE m.key # NoKey
  BY ZenonT(90), <1>2 DEF ApplyMetadata, PlanningReset, AdvisorState, Meta, Sound
<1> QED
  BY <1>1, <1>2

LEMMA ChangeInterestsSound ==
    ASSUME NEW s \in AdvisorState
    PROVE  /\ ChangeInterests(s) \in AdvisorState
           /\ Sound(s) => Sound(ChangeInterests(s))
  BY DEF ChangeInterests, AdvisorState, Sound

\* A tool result, whatever it says, leaves a well-typed and sound state.
LEMMA CapturedSound ==
    ASSUME NEW s \in AdvisorState, NEW call, NEW t \in Captured(s, call)
    PROVE  t \in AdvisorState /\ (Sound(s) => Sound(t))
<1>1. SanitizedMeta(s) \subseteq Meta /\ ChangedMeta(s) \subseteq Meta
  BY DEF SanitizedMeta, ChangedMeta
<1>2. CASE t = s
  BY <1>2
<1>3. CASE t = ChangeInterests(s)
  BY <1>3, ChangeInterestsSound
<1>4. ASSUME NEW m \in Meta, t = ApplyMetadata(s, m)
      PROVE  t \in AdvisorState /\ (Sound(s) => Sound(t))
  BY <1>4, ApplyMetadataSound
<1>5. t = s \/ t = ChangeInterests(s) \/ \E m \in Meta : t = ApplyMetadata(s, m)
  BY <1>1 DEF Captured
<1> QED
  BY <1>2, <1>3, <1>4, <1>5

-----------------------------------------------------------------------------
(* The routers                                                             *)

\* Whatever the state, every router names a node of the graph, or its end.
LEMMA RoutersNameNodes ==
    ASSUME NEW s \in AdvisorState, NEW batch
    PROVE  /\ RouteAfterAgent(s, batch) \in Nodes \union {"idle"}
           /\ RouteAfterToolResults(s, batch) \in {"ensure_handbook", "agent"}
           /\ RouteAfterFetch(s) \in Nodes
           /\ RouteStage1Eval(s) \in Nodes
           /\ RouteEvaluation(s) \in Nodes
<1>1. RequestedNode(s) \in {"populate_plan_electives", "fetch_elective_list",
                            "start_planning"}
  BY DEF RequestedNode, AdvisorState
<1>2. RouteAfterAgent(s, batch) \in Nodes \union {"idle"}
  <2>1. CASE batch # <<>>
    BY <2>1 DEF RouteAfterAgent, Nodes
  <2>2. CASE batch = <<>>
    BY <2>2, <1>1 DEF RouteAfterAgent, Nodes
  <2> QED
    BY <2>1, <2>2
<1>3. RouteAfterToolResults(s, batch) \in {"ensure_handbook", "agent"}
  BY DEF RouteAfterToolResults
<1>4. RouteAfterFetch(s) \in Nodes
  BY <1>1 DEF RouteAfterFetch, Nodes
<1>5. RouteStage1Eval(s) \in Nodes /\ RouteEvaluation(s) \in Nodes
  BY DEF RouteStage1Eval, RouteEvaluation, Nodes
<1> QED
  BY <1>2, <1>3, <1>4, <1>5

-----------------------------------------------------------------------------
(* Types                                                                   *)

\* Tool calls wait while the tools and their capture are still to run.
CallsWait == pc \in {"tools", "capture_tool_results"} => calls # <<>>

TypeInv == TypeOK /\ CallsWait

LEMMA GotoTypes ==
    ASSUME TypeOK, NEW next \in Nodes \union {"idle"}, Goto(next)
    PROVE  /\ pc' = next
           /\ pc' \in Nodes \union {"idle"}
           /\ msg' \in Messages
           /\ session' \in {"none", "starting", "open", "lost"}
           /\ steps' \in Nat
  BY DEF TypeOK, Goto

LEMMA FreshStateTyped ==
    ASSUME NEW record \in BOOLEAN, NEW m \in Meta
    PROVE  FreshState(record, m) \in AdvisorState
  BY DEF FreshState, AdvisorState

LEMMA InitTypes == Init => TypeInv
<1> SUFFICES ASSUME Init PROVE TypeInv
  OBVIOUS
<1>1. st \in AdvisorState
  BY FreshStateTyped DEF Init
<1>2. calls \in BatchesOf(Tools)
  BY DEF Init, BatchesOf
<1>3. judged \in Judged
  BY DEF Init, NothingJudged, Judged
<1> QED
  BY <1>1, <1>2, <1>3 DEF Init, TypeInv, TypeOK, CallsWait, Messages

\* The two service calls and a failure.
LEMMA TurnTypes == TypeInv /\ (Turn \/ TurnFails) => TypeInv'
<1> SUFFICES ASSUME TypeInv, Turn \/ TurnFails PROVE TypeInv'
  OBVIOUS
<1> USE DEF TypeInv, TypeOK, CallsWait
<1>0. "agent" \in Nodes /\ <<>> \in BatchesOf(Tools)
  BY DEF Nodes, BatchesOf
<1>1. CASE StartSession
  <2>1. st' \in AdvisorState
    BY <1>1, FreshStateTyped DEF StartSession
  <2>2. judged' \in Judged
    BY <1>1 DEF StartSession, NothingJudged, Judged
  <2> QED
    BY <1>0, <1>1, <2>1, <2>2 DEF StartSession, BeginTurn
<1>2. CASE ContinueSession
  BY <1>0, <1>2 DEF ContinueSession, BeginTurn
<1>3. CASE PasteRecord
  <2>1. st' \in AdvisorState
    BY ZenonT(90), <1>3 DEF PasteRecord, AdvisorState
  <2> QED
    BY <1>0, <1>3, <2>1 DEF PasteRecord, BeginTurn
<1>4. CASE TurnFails
  BY <1>0, <1>4 DEF TurnFails
<1> QED
  BY <1>1, <1>2, <1>3, <1>4 DEF Turn

LEMMA AgentSaysTypes ==
    ASSUME TypeInv, NEW batch \in BatchesOf(Tools),
           NEW pending \in {"none", "recommend", "populate_plan"},
           AgentSays(batch, pending), replied' \in BOOLEAN
    PROVE  TypeInv'
<1>1. st' \in AdvisorState
  BY DEF AgentSays, TypeInv, TypeOK, AdvisorState
<1>2. RouteAfterAgent(st', batch) \in Nodes \union {"idle"}
  BY <1>1, RoutersNameNodes
<1>3. RouteAfterAgent(st', batch) \in {"tools", "capture_tool_results"} => batch # <<>>
  BY <1>1 DEF RouteAfterAgent, RequestedNode, AdvisorState
<1>4. Goto(RouteAfterAgent(st', batch))
  BY DEF AgentSays
<1>5. /\ pc' = RouteAfterAgent(st', batch)
      /\ msg' \in Messages
      /\ session' \in {"none", "starting", "open", "lost"}
      /\ steps' \in Nat
  BY <1>2, <1>4, GotoTypes DEF TypeInv
<1> QED
  BY <1>1, <1>2, <1>3, <1>5 DEF AgentSays, TypeInv, TypeOK, CallsWait

LEMMA AgentTypes == TypeInv /\ Agent => TypeInv'
<1> SUFFICES ASSUME TypeInv, Agent PROVE TypeInv'
  OBVIOUS
<1>1. WantedElectives \in {"none", "recommend", "populate_plan"}
  BY DEF TypeInv, TypeOK, AdvisorState, Messages, WantedElectives
<1>2. st.pending \in {"none", "recommend", "populate_plan"} /\ replied \in BOOLEAN
  BY DEF TypeInv, TypeOK, AdvisorState
<1>3. \A batch : \/ batch \in BatchesOf(BoundTools)
                 \/ batch \in BatchesOf(BoundTools \ {"lookup"})
                 \/ batch = <<>>
                 => batch \in BatchesOf(Tools)
  <2>1. BoundTools \subseteq Tools /\ BoundTools \ {"lookup"} \subseteq Tools
    BY BoundToolsAreTools
  <2>2. <<>> \in BatchesOf(Tools)
    BY DEF BatchesOf
  <2> QED
    BY <2>1, <2>2, BatchesMonotone
<1>4. CASE AgentAtLimit
  <2>1. <<>> \in BatchesOf(Tools)
    BY <1>3
  <2> QED
    BY <1>2, <1>4, <2>1, AgentSaysTypes DEF AgentAtLimit
<1>5. CASE AgentWithoutLookup
  BY <1>1, <1>2, <1>3, <1>5, AgentSaysTypes DEF AgentWithoutLookup, MaySpeak
<1>6. CASE AgentLooksUpElectives
  BY <1>1, <1>2, <1>3, <1>6, AgentSaysTypes DEF AgentLooksUpElectives, MaySpeak
<1>7. CASE AgentLookupWithoutTopic
  BY <1>1, <1>2, <1>3, <1>7, AgentSaysTypes DEF AgentLookupWithoutTopic, MaySpeak
<1>8. CASE AgentLookupSuppressed
  BY <1>1, <1>2, <1>3, <1>8, AgentSaysTypes DEF AgentLookupSuppressed, MaySpeak
<1> QED
  BY <1>4, <1>5, <1>6, <1>7, <1>8 DEF Agent

\* A node that leaves the waiting calls alone and does not go back to the tools.
LEMMA NodeTypes ==
    ASSUME TypeInv, NEW next \in Nodes \union {"idle"}, Goto(next),
           next \notin {"tools", "capture_tool_results"},
           st' \in AdvisorState, calls' \in BatchesOf(Tools), used' \in Nat,
           replied' \in BOOLEAN, judged' \in Judged
    PROVE  TypeInv'
  BY GotoTypes DEF TypeInv, TypeOK, CallsWait

LEMMA ConversationTypes ==
    TypeInv /\ (RunTools \/ CaptureToolResults) => TypeInv'
<1>1. ASSUME TypeInv, RunTools PROVE TypeInv'
  <2>1. "capture_tool_results" \in Nodes
    BY DEF Nodes
  <2>2. calls # <<>> /\ Len(calls) \in Nat
    BY <1>1, BatchShape DEF TypeInv, TypeOK, CallsWait, RunTools
  <2> QED
    BY <1>1, <2>1, <2>2, GotoTypes DEF RunTools, TypeInv, TypeOK, CallsWait
<1>2. ASSUME TypeInv, CaptureToolResults PROVE TypeInv'
  <2>1. PICK s \in Captured(st, calls[1]) :
          st' \in IF Len(calls) = 1 THEN {s} ELSE Captured(s, calls[2])
    BY <1>2 DEF CaptureToolResults
  <2>2. s \in AdvisorState
    BY <1>2, <2>1, CapturedSound DEF TypeInv, TypeOK
  <2>3. st' \in AdvisorState
    BY <2>1, <2>2, CapturedSound
  <2>4. RouteAfterToolResults(st', calls) \in {"ensure_handbook", "agent"}
    BY <2>3, RoutersNameNodes
  <2>5. RouteAfterToolResults(st', calls) \in Nodes
    BY <2>4 DEF Nodes
  <2>6. <<>> \in BatchesOf(Tools)
    BY DEF BatchesOf
  <2> QED
    BY <1>2, <2>3, <2>4, <2>5, <2>6, NodeTypes DEF CaptureToolResults, TypeInv, TypeOK
<1> QED
  BY <1>1, <1>2

LEMMA HandbookTypes ==
    TypeInv /\ (EnsureHandbook \/ HandbookMissing) => TypeInv'
<1>1. ASSUME TypeInv, EnsureHandbook PROVE TypeInv'
  <2>1. st' \in AdvisorState
    <3>1. st \in AdvisorState /\ st.meta.key \in Keys \union {NoKey}
      BY <1>1 DEF TypeInv, TypeOK, AdvisorState, Meta
    <3>2. \/ st' = [st EXCEPT !.handbook = st.meta.key]
          \/ st' = [st EXCEPT !.handbook = NoKey, !.planning = FALSE]
      BY <1>1 DEF EnsureHandbook
    <3> QED
      BY ZenonT(90), <3>1, <3>2 DEF AdvisorState
  <2>2. RouteAfterFetch(st') \in Nodes \ {"tools", "capture_tool_results"}
    BY <2>1 DEF RouteAfterFetch, RequestedNode, AdvisorState, Nodes
  <2> QED
    BY <1>1, <2>1, <2>2, NodeTypes DEF EnsureHandbook, TypeInv, TypeOK
<1>2. ASSUME TypeInv, HandbookMissing PROVE TypeInv'
  <2>1. st' \in AdvisorState
    BY <1>2 DEF HandbookMissing, TypeInv, TypeOK, AdvisorState
  <2> QED
    BY <1>2, <2>1, NodeTypes DEF HandbookMissing, TypeInv, TypeOK
<1> QED
  BY <1>1, <1>2

LEMMA StartPlanningUpdateTyped ==
    ASSUME st \in AdvisorState, NEW outcome
    PROVE  StartPlanningUpdate(outcome) \in AdvisorState
<1>1. CASE ~HandbookMatches(st)
  BY <1>1 DEF StartPlanningUpdate, AdvisorState
<1>2. CASE HandbookMatches(st) /\ outcome = "valid"
  BY <1>2 DEF StartPlanningUpdate, PlanningReset, AdvisorState
<1>3. CASE HandbookMatches(st) /\ outcome = "refused"
  BY <1>3 DEF StartPlanningUpdate, AdvisorState
<1>4. CASE HandbookMatches(st) /\ outcome \notin {"valid", "refused"}
  BY <1>4 DEF StartPlanningUpdate, AdvisorState
<1> QED
  BY <1>1, <1>2, <1>3, <1>4

LEMMA Stage1Types ==
    TypeInv /\ \/ StartPlanning \/ FetchElectiveList \/ PopulatePlanElectives
               \/ GenerateCoreSubjects \/ EvaluateStage1
    => TypeInv'
<1> SUFFICES ASSUME TypeInv PROVE \/ StartPlanning \/ FetchElectiveList
               \/ PopulatePlanElectives \/ GenerateCoreSubjects \/ EvaluateStage1
               => TypeInv'
  OBVIOUS
<1>0. /\ st \in AdvisorState /\ judged \in Judged /\ replied \in BOOLEAN
      /\ calls \in BatchesOf(Tools) /\ used \in Nat
  BY DEF TypeInv, TypeOK
<1>1. ASSUME StartPlanning PROVE TypeInv'
  <2>1. st' \in AdvisorState
    BY <1>0, <1>1, StartPlanningUpdateTyped DEF StartPlanning
  <2>2. judged' \in Judged /\ replied' \in BOOLEAN
    BY <1>0, <1>1 DEF StartPlanning, Judged, AdvisorState
  <2> QED
    BY <1>0, <1>1, <2>1, <2>2, NodeTypes DEF StartPlanning, Nodes
<1>2. ASSUME FetchElectiveList PROVE TypeInv'
  <2>1. st' \in AdvisorState /\ replied' \in BOOLEAN
    BY <1>0, <1>2 DEF FetchElectiveList, AdvisorState, HandbookMatches
  <2> QED
    BY <1>0, <1>2, <2>1, NodeTypes DEF FetchElectiveList
<1>3. ASSUME PopulatePlanElectives PROVE TypeInv'
  <2>1. st' \in AdvisorState
    BY ZenonT(90), <1>0, <1>3 DEF PopulatePlanElectives, AdvisorState
  <2>2. judged' \in Judged /\ replied' \in BOOLEAN
    BY <1>0, <1>3 DEF PopulatePlanElectives, Judged, HandbookMatches
  <2> QED
    BY <1>0, <1>3, <2>1, <2>2, NodeTypes DEF PopulatePlanElectives
<1>4. ASSUME GenerateCoreSubjects PROVE TypeInv'
  <2>1. st' \in AdvisorState
    BY <1>0, <1>4 DEF GenerateCoreSubjects, AdvisorState
  <2> QED
    BY <1>0, <1>4, <2>1, NodeTypes DEF GenerateCoreSubjects, Nodes
<1>5. ASSUME EvaluateStage1 PROVE TypeInv'
  <2>1. st' \in AdvisorState
    <3>1. st.coreRetries + 1 \in Nat
      BY <1>0 DEF AdvisorState
    <3>2. \E feedback \in BOOLEAN :
            st' = [st EXCEPT !.coreFeedback = feedback,
                             !.coreRetries = st.coreRetries + 1]
      BY <1>5 DEF EvaluateStage1
    <3> QED
      BY ZenonT(90), <1>0, <3>1, <3>2 DEF AdvisorState
  <2>2. RouteStage1Eval(st') \in Nodes \ {"tools", "capture_tool_results"}
    BY DEF RouteStage1Eval, Nodes
  <2> QED
    BY <1>0, <1>5, <2>1, <2>2, NodeTypes DEF EvaluateStage1
<1> QED
  BY <1>1, <1>2, <1>3, <1>4, <1>5

LEMMA Stage2Types ==
    TypeInv /\ \/ MakePlanCallsTools \/ MakePlanAnswers \/ Stage2Tools
               \/ CaptureStage2ToolResults \/ EvaluateStage2 \/ FormatOutput
    => TypeInv'
<1> SUFFICES ASSUME TypeInv PROVE \/ MakePlanCallsTools \/ MakePlanAnswers
               \/ Stage2Tools \/ CaptureStage2ToolResults \/ EvaluateStage2
               \/ FormatOutput
               => TypeInv'
  OBVIOUS
<1>0. /\ st \in AdvisorState /\ judged \in Judged /\ replied \in BOOLEAN
      /\ calls \in BatchesOf(Tools) /\ used \in Nat
  BY DEF TypeInv, TypeOK
<1>1. ASSUME MakePlanCallsTools PROVE TypeInv'
  <2>1. (IF st.toolLoops >= MAX_STAGE2_TOOL_LOOPS
         THEN "format_output" ELSE "stage2_tools")
        \in Nodes \ {"tools", "capture_tool_results"}
    BY DEF Nodes
  <2> QED
    BY <1>0, <1>1, <2>1, NodeTypes DEF MakePlanCallsTools, MaySpeak
<1>2. ASSUME MakePlanAnswers PROVE TypeInv'
  <2>0. PICK written \in {HandbookMatches(st), FALSE} :
        /\ st' = IF HandbookMatches(st)
                 THEN [st EXCEPT !.toolLoops = 0,
                                 !.plan = IF written THEN st.meta ELSE st.plan]
                 ELSE [st EXCEPT !.planning = FALSE, !.plan = NoPlan]
        /\ replied' = (replied \/ written)
        /\ judged' = IF written THEN [judged EXCEPT !.plan = "unjudged"] ELSE judged
    BY <1>2 DEF MakePlanAnswers
  <2>1. st' \in AdvisorState
    BY ZenonT(90), <1>0, <2>0 DEF AdvisorState
  <2>2. judged' \in Judged /\ replied' \in BOOLEAN
    BY <1>0, <2>0 DEF Judged, HandbookMatches
  <2> QED
    BY <1>0, <1>2, <2>1, <2>2, NodeTypes DEF MakePlanAnswers, Nodes
<1>3. ASSUME Stage2Tools PROVE TypeInv'
  BY <1>0, <1>3, NodeTypes DEF Stage2Tools, Nodes
<1>4. ASSUME CaptureStage2ToolResults PROVE TypeInv'
  <2>1. st' \in AdvisorState
    BY <1>0, <1>4 DEF CaptureStage2ToolResults, AdvisorState
  <2> QED
    BY <1>0, <1>4, <2>1, NodeTypes DEF CaptureStage2ToolResults, Nodes
<1>5. ASSUME EvaluateStage2 PROVE TypeInv'
  <2>1. PICK verdict \in {"unjudged", "valid", "invalid", "blank"} :
          /\ st' = [st EXCEPT !.planFeedback = verdict \in {"unjudged", "invalid"},
                              !.planRetries = IF verdict = "valid" THEN 0
                                              ELSE st.planRetries + 1]
          /\ judged' = [judged EXCEPT !.plan = verdict]
    BY <1>5 DEF EvaluateStage2
  <2>2. st' \in AdvisorState
    <3> DEFINE feedback == verdict \in {"unjudged", "invalid"}
               retries == IF verdict = "valid" THEN 0 ELSE st.planRetries + 1
    <3>1. retries \in Nat /\ feedback \in BOOLEAN
      BY <1>0 DEF AdvisorState
    <3>2. st' = [st EXCEPT !.planFeedback = feedback, !.planRetries = retries]
      BY <2>1
    <3> HIDE DEF feedback, retries
    <3> QED
      BY <1>0, <3>1, <3>2 DEF AdvisorState
  <2>3. judged' \in Judged
    BY <1>0, <2>1 DEF Judged
  <2>4. RouteEvaluation(st') \in Nodes \ {"tools", "capture_tool_results"}
    BY DEF RouteEvaluation, Nodes
  <2> QED
    BY <1>0, <1>5, <2>2, <2>3, <2>4, NodeTypes DEF EvaluateStage2
<1>6. ASSUME FormatOutput PROVE TypeInv'
  <2>1. st' \in AdvisorState
    BY <1>0, <1>6 DEF FormatOutput, AdvisorState
  <2> QED
    BY <1>0, <1>6, <2>1, NodeTypes DEF FormatOutput
<1> QED
  BY <1>1, <1>2, <1>3, <1>4, <1>5, <1>6

LEMMA TypeInvInvariant == Spec => []TypeInv
<1>1. TypeInv /\ Next => TypeInv'
  BY TurnTypes, AgentTypes, ConversationTypes, HandbookTypes, Stage1Types, Stage2Types
     DEF Next, Node
<1>2. TypeInv /\ UNCHANGED vars => TypeInv'
  BY DEF TypeInv, TypeOK, CallsWait, vars
<1> QED
  BY InitTypes, <1>1, <1>2, PTL DEF Spec

\* Type correctness: every counter, flag and identity of the advisor's state stays
\* in its domain through every node, turn and failure.
THEOREM TypeCorrect == Spec => []TypeOK
  BY TypeInvInvariant, PTL DEF TypeInv

-----------------------------------------------------------------------------
(* The handbook gate                                                       *)

\* What holds on the way to the planning stages: nothing is fetched or started
\* without a request, the request is consumed once a stage runs, and from then on
\* the evaluator's rejection and the feedback in the state go together.
OnRoute ==
    /\ pc = "ensure_handbook" => st.confirmed /\ (st.planning \/ st.pending # "none")
    /\ pc = "start_planning" => st.planning
    /\ pc \in PlanningStages => ~st.planning
    /\ pc \in PlanningStages /\ judged.plan = "invalid" => st.planFeedback

GateInv == Sound(st) /\ HandbookGate /\ OnRoute

\* The nodes outside the handbook's reach need nothing of the state.
LEMMA OffRoute ==
    ASSUME pc' \notin HandbookNodes \union {"ensure_handbook"}
    PROVE  HandbookGate' /\ OnRoute'
  BY DEF HandbookGate, OnRoute, HandbookNodes

LEMMA InitGate == Init => GateInv
<1> SUFFICES ASSUME Init PROVE GateInv
  OBVIOUS
<1>1. Sound(st)
  BY DEF Init, FreshState, Sound
<1>2. pc = "idle"
  BY DEF Init
<1> QED
  BY <1>1, <1>2 DEF GateInv, HandbookGate, OnRoute, HandbookNodes, PlanningStages

LEMMA TurnGate == TypeInv /\ GateInv /\ (Turn \/ TurnFails) => GateInv'
<1> SUFFICES ASSUME TypeInv, GateInv, Turn \/ TurnFails PROVE GateInv'
  OBVIOUS
<1>0. st \in AdvisorState
  BY DEF TypeInv, TypeOK
<1>1. CASE StartSession
  BY <1>1 DEF StartSession, BeginTurn, FreshState, Sound, GateInv, HandbookGate, OnRoute,
              HandbookNodes, PlanningStages
<1>2. CASE ContinueSession
  BY <1>2 DEF ContinueSession, BeginTurn, GateInv, HandbookGate, OnRoute,
              HandbookNodes, PlanningStages
<1>3. CASE PasteRecord
  <2>1. Sound(st')
    BY <1>0, <1>3 DEF PasteRecord, Sound, AdvisorState
  <2> QED
    BY <1>3, <2>1 DEF PasteRecord, BeginTurn, GateInv, HandbookGate, OnRoute,
                      HandbookNodes, PlanningStages
<1>4. CASE TurnFails
  BY <1>4 DEF TurnFails, GateInv, HandbookGate, OnRoute, HandbookNodes, PlanningStages
<1> QED
  BY <1>1, <1>2, <1>3, <1>4 DEF Turn

\* Behind the gate, the requested node finds what it needs.
LEMMA RequestedNodeGuarded ==
    ASSUME NEW s \in AdvisorState, Sound(s), s.confirmed, HandbookMatches(s),
           s.planning \/ s.pending # "none"
    PROVE  /\ s.meta.key \in Keys /\ s.handbook = s.meta.key
           /\ RequestedNode(s) \in {"start_planning", "fetch_elective_list",
                                    "populate_plan_electives"}
           /\ RequestedNode(s) = "start_planning" => s.planning
  BY DEF RequestedNode, AdvisorState, Sound, HandbookMatches

LEMMA AgentGate ==
    ASSUME TypeInv, GateInv, NEW batch, NEW pending, AgentSays(batch, pending), TypeInv'
    PROVE  GateInv'
<1>1. st \in AdvisorState /\ st' \in AdvisorState
  BY DEF TypeInv, TypeOK
<1>2. Sound(st')
  BY <1>1 DEF AgentSays, GateInv, Sound, AdvisorState
<1>3. pc' = RouteAfterAgent(st', batch)
  BY DEF AgentSays, Goto
<1>4. CASE pc' \in {"tools", "idle"}
  BY <1>2, <1>4, OffRoute DEF GateInv, HandbookNodes, PlanningStages
<1>5. CASE pc' = "ensure_handbook" /\ st'.confirmed /\ (st'.planning \/ st'.pending # "none")
  BY <1>2, <1>5 DEF GateInv, HandbookGate, OnRoute, HandbookNodes, PlanningStages
<1>6. CASE /\ pc' = RequestedNode(st') /\ HandbookMatches(st') /\ st'.confirmed
           /\ st'.planning \/ st'.pending # "none"
  BY <1>1, <1>2, <1>6, RequestedNodeGuarded
     DEF GateInv, HandbookGate, OnRoute, PlanningStages
<1>7. \/ pc' \in {"tools", "idle"}
      \/ pc' = "ensure_handbook" /\ st'.confirmed /\ (st'.planning \/ st'.pending # "none")
      \/ /\ pc' = RequestedNode(st') /\ HandbookMatches(st') /\ st'.confirmed
         /\ st'.planning \/ st'.pending # "none"
  <2>1. CASE batch # <<>>
    BY <1>3, <2>1 DEF RouteAfterAgent
  <2>2. CASE batch = <<>>
    BY <1>1, <1>3, <2>2 DEF RouteAfterAgent, AdvisorState
  <2> QED
    BY <2>1, <2>2
<1> QED
  BY <1>4, <1>5, <1>6, <1>7

LEMMA ConversationGate ==
    TypeInv /\ TypeInv' /\ GateInv /\ (Agent \/ RunTools \/ CaptureToolResults) => GateInv'
<1> SUFFICES ASSUME TypeInv, TypeInv', GateInv, Agent \/ RunTools \/ CaptureToolResults
             PROVE  GateInv'
  OBVIOUS
<1>1. CASE Agent
  BY <1>1, AgentGate DEF Agent, AgentAtLimit, AgentWithoutLookup, AgentLooksUpElectives,
                         AgentLookupWithoutTopic, AgentLookupSuppressed
<1>2. CASE RunTools
  <2>1. Sound(st') /\ pc' = "capture_tool_results"
    BY <1>2 DEF RunTools, Goto, GateInv
  <2> QED
    BY <2>1, OffRoute DEF GateInv, HandbookNodes, PlanningStages
<1>3. CASE CaptureToolResults
  <2>1. st \in AdvisorState /\ st' \in AdvisorState /\ Sound(st)
    BY DEF TypeInv, TypeOK, GateInv
  <2>2. PICK s \in Captured(st, calls[1]) :
          st' \in IF Len(calls) = 1 THEN {s} ELSE Captured(s, calls[2])
    BY <1>3 DEF CaptureToolResults
  <2>3. s \in AdvisorState /\ Sound(s)
    BY <2>1, <2>2, CapturedSound
  <2>4. Sound(st')
    BY <2>2, <2>3, CapturedSound
  <2>5. pc' = RouteAfterToolResults(st', calls)
    BY <1>3 DEF CaptureToolResults, Goto
  <2>6. CASE pc' = "agent"
    BY <2>4, <2>6, OffRoute DEF GateInv, HandbookNodes, PlanningStages
  <2>7. CASE pc' = "ensure_handbook" /\ st'.confirmed /\ (st'.planning \/ st'.pending # "none")
    BY <2>4, <2>7 DEF GateInv, HandbookGate, OnRoute, HandbookNodes, PlanningStages
  <2> QED
    BY <2>5, <2>6, <2>7 DEF RouteAfterToolResults
<1> QED
  BY <1>1, <1>2, <1>3

LEMMA HandbookNodesGate ==
    TypeInv /\ TypeInv' /\ GateInv /\ (EnsureHandbook \/ HandbookMissing) => GateInv'
<1> SUFFICES ASSUME TypeInv, TypeInv', GateInv, EnsureHandbook \/ HandbookMissing
             PROVE  GateInv'
  OBVIOUS
<1>0. st \in AdvisorState /\ st' \in AdvisorState /\ Sound(st)
  BY DEF TypeInv, TypeOK, GateInv
<1>1. CASE EnsureHandbook
  <2>1. st.confirmed /\ (st.planning \/ st.pending # "none")
    BY <1>1 DEF EnsureHandbook, GateInv, OnRoute
  <2>2. \/ st' = [st EXCEPT !.handbook = st.meta.key]
        \/ st' = [st EXCEPT !.handbook = NoKey, !.planning = FALSE]
    BY <1>1 DEF EnsureHandbook
  <2>3. Sound(st') /\ st'.confirmed
    BY ZenonT(90), <1>0, <2>1, <2>2 DEF Sound, AdvisorState
  <2>4. HandbookMatches(st') => st'.planning \/ st'.pending # "none"
    BY <1>0, <2>1, <2>2 DEF HandbookMatches, AdvisorState
  <2>5. pc' = RouteAfterFetch(st')
    BY <1>1 DEF EnsureHandbook, Goto
  <2>6. CASE HandbookMatches(st')
    <3>1. pc' = RequestedNode(st')
      BY <2>5, <2>6 DEF RouteAfterFetch
    <3> QED
      BY <1>0, <2>3, <2>4, <2>6, <3>1, RequestedNodeGuarded
         DEF GateInv, HandbookGate, OnRoute, PlanningStages
  <2>7. CASE ~HandbookMatches(st')
    <3>1. pc' = "handbook_missing"
      BY <2>5, <2>7 DEF RouteAfterFetch
    <3> QED
      BY <2>3, <3>1, OffRoute DEF GateInv, HandbookNodes, PlanningStages
  <2> QED
    BY <2>6, <2>7
<1>2. CASE HandbookMissing
  <2>1. Sound(st')
    BY <1>0, <1>2 DEF HandbookMissing, Sound, AdvisorState
  <2>2. pc' = "idle"
    BY <1>2 DEF HandbookMissing, Goto
  <2> QED
    BY <2>1, <2>2, OffRoute DEF GateInv, HandbookNodes, PlanningStages
<1> QED
  BY <1>1, <1>2

\* A step from a handbook node to a planning stage, or out of the graph, that keeps
\* the confirmed programme and its handbook, and leaves no request behind.
LEMMA StageGate ==
    ASSUME GateInv, pc \in HandbookNodes, pc' \in PlanningStages \union {"idle"},
           st'.confirmed = st.confirmed, st'.meta = st.meta, st'.handbook = st.handbook,
           ~st'.planning, st'.plan # NoPlan => st'.plan = st'.meta,
           pc' # "idle" /\ judged'.plan = "invalid" => st'.planFeedback
    PROVE  GateInv'
<1>1. Sound(st')
  BY DEF GateInv, HandbookGate, Sound
<1>2. HandbookGate'
  BY DEF GateInv, HandbookGate
<1>3. OnRoute'
  BY DEF OnRoute, PlanningStages
<1> QED
  BY <1>1, <1>2, <1>3 DEF GateInv

LEMMA Stage1Gate ==
    TypeInv /\ GateInv
    /\ \/ StartPlanning \/ FetchElectiveList \/ PopulatePlanElectives
       \/ GenerateCoreSubjects \/ EvaluateStage1
    => GateInv'
<1> SUFFICES ASSUME TypeInv, GateInv
             PROVE  \/ StartPlanning \/ FetchElectiveList \/ PopulatePlanElectives
                    \/ GenerateCoreSubjects \/ EvaluateStage1
                    => GateInv'
  OBVIOUS
<1>0. st \in AdvisorState /\ judged \in Judged /\ Sound(st) /\ HandbookGate /\ OnRoute
  BY DEF TypeInv, TypeOK, GateInv
<1>1. ASSUME StartPlanning PROVE GateInv'
  <2>1. PICK outcome \in {"valid", "refused", "error"} :
          /\ st' = StartPlanningUpdate(outcome)
          /\ judged' = CASE outcome = "valid" -> [major |-> st.meta, plan |-> "unjudged"]
                         [] outcome = "refused" -> [judged EXCEPT !.major = NoPlan]
                         [] OTHER -> judged
    BY <1>1 DEF StartPlanning
  <2>2. HandbookMatches(st)
    BY <1>0, <1>1, KeysAssumption
       DEF StartPlanning, HandbookGate, HandbookNodes, HandbookMatches
  <2>3. pc' = IF st'.validated THEN "stage1_review_must_includes" ELSE "idle"
    BY <1>1 DEF StartPlanning, Goto
  <2>4. /\ pc' \in PlanningStages \union {"idle"}
        /\ pc \in HandbookNodes
    BY <1>1, <2>3 DEF StartPlanning, PlanningStages, HandbookNodes
  <2>5. CASE outcome = "valid"
    <3>1. st' = [PlanningReset(st) EXCEPT !.planning = FALSE, !.validated = TRUE,
                                          !.mode = "planning"]
      BY <2>1, <2>2, <2>5 DEF StartPlanningUpdate
    <3>2. /\ st'.confirmed = st.confirmed /\ st'.meta = st.meta
          /\ st'.handbook = st.handbook /\ ~st'.planning /\ st'.plan = NoPlan
      BY <1>0, <3>1 DEF PlanningReset, AdvisorState
    <3>3. judged'.plan = "unjudged"
      BY <2>1, <2>5
    <3> QED
      BY <2>4, <3>2, <3>3, StageGate
  <2>6. CASE outcome = "refused"
    <3>1. st' = [st EXCEPT !.planning = FALSE, !.validated = FALSE]
      BY <2>1, <2>2, <2>6 DEF StartPlanningUpdate
    <3>2. /\ st'.confirmed = st.confirmed /\ st'.meta = st.meta
          /\ st'.handbook = st.handbook /\ ~st'.planning /\ st'.plan = st.plan
          /\ st'.validated = FALSE
      BY <1>0, <3>1 DEF AdvisorState
    <3>3. pc' = "idle"
      BY <2>3, <3>2
    <3> QED
      BY <1>0, <2>4, <3>2, <3>3, StageGate DEF Sound
  <2>7. CASE outcome = "error"
    <3>1. st' = [st EXCEPT !.planning = FALSE, !.planFeedback = TRUE]
      BY <2>1, <2>2, <2>7 DEF StartPlanningUpdate
    <3>2. /\ st'.confirmed = st.confirmed /\ st'.meta = st.meta
          /\ st'.handbook = st.handbook /\ ~st'.planning /\ st'.plan = st.plan
          /\ st'.planFeedback
      BY <1>0, <3>1 DEF AdvisorState
    <3> QED
      BY <1>0, <2>4, <3>2, StageGate DEF Sound
  <2> QED
    BY <2>1, <2>5, <2>6, <2>7
<1>2. ASSUME FetchElectiveList PROVE GateInv'
  <2>1. pc' = "idle" /\ Sound(st')
    BY <1>0, <1>2 DEF FetchElectiveList, Goto, Sound, AdvisorState
  <2> QED
    BY <2>1, OffRoute DEF GateInv, HandbookNodes, PlanningStages
<1>3. ASSUME PopulatePlanElectives PROVE GateInv'
  <2>1. \/ st' = st
        \/ st' = [st EXCEPT !.pending = "recommend"]
        \/ st' = [st EXCEPT !.pending = "none", !.plan = st.meta]
        \/ st' = [st EXCEPT !.pending = "none", !.plan = NoPlan]
    BY <1>3 DEF PopulatePlanElectives
  <2>2. Sound(st')
    BY ZenonT(90), <1>0, <2>1 DEF Sound, AdvisorState
  <2>3. pc' = "idle"
    BY <1>3 DEF PopulatePlanElectives, Goto
  <2> QED
    BY <2>2, <2>3, OffRoute DEF GateInv, HandbookNodes, PlanningStages
<1>4. ASSUME GenerateCoreSubjects PROVE GateInv'
  <2>1. /\ pc' = "eval_stage1_lists" /\ pc = "stage1_review_must_includes"
        /\ judged' = judged
        /\ st' = st \/ st' = [st EXCEPT !.coreFeedback = FALSE]
    BY <1>4 DEF GenerateCoreSubjects, Goto
  <2>2. pc \in PlanningStages /\ pc \in HandbookNodes /\ pc' \in PlanningStages
    BY <2>1 DEF PlanningStages, HandbookNodes
  <2>3. /\ st'.confirmed = st.confirmed /\ st'.meta = st.meta
        /\ st'.handbook = st.handbook /\ st'.planning = st.planning
        /\ st'.plan = st.plan /\ st'.planFeedback = st.planFeedback
    BY <1>0, <2>1 DEF AdvisorState
  <2> QED
    BY <1>0, <2>1, <2>2, <2>3, StageGate DEF OnRoute, Sound
<1>5. ASSUME EvaluateStage1 PROVE GateInv'
  <2>1. /\ pc' = RouteStage1Eval(st') /\ pc = "eval_stage1_lists" /\ judged' = judged
        /\ \E accepted \in BOOLEAN :
             st' = [st EXCEPT !.coreFeedback = ~accepted, !.coreRetries = st.coreRetries + 1]
    BY <1>5 DEF EvaluateStage1, Goto
  <2>2. pc \in PlanningStages /\ pc \in HandbookNodes /\ pc' \in PlanningStages
    BY <2>1 DEF PlanningStages, HandbookNodes, RouteStage1Eval
  <2>3. /\ st'.confirmed = st.confirmed /\ st'.meta = st.meta
        /\ st'.handbook = st.handbook /\ st'.planning = st.planning
        /\ st'.plan = st.plan /\ st'.planFeedback = st.planFeedback
    BY <1>0, <2>1 DEF AdvisorState
  <2> QED
    BY <1>0, <2>1, <2>2, <2>3, StageGate DEF OnRoute, Sound
<1> QED
  BY <1>1, <1>2, <1>3, <1>4, <1>5

LEMMA Stage2Gate ==
    TypeInv /\ GateInv
    /\ \/ MakePlanCallsTools \/ MakePlanAnswers \/ Stage2Tools
       \/ CaptureStage2ToolResults \/ EvaluateStage2 \/ FormatOutput
    => GateInv'
<1> SUFFICES ASSUME TypeInv, GateInv
             PROVE  \/ MakePlanCallsTools \/ MakePlanAnswers \/ Stage2Tools
                    \/ CaptureStage2ToolResults \/ EvaluateStage2 \/ FormatOutput
                    => GateInv'
  OBVIOUS
<1>0. st \in AdvisorState /\ judged \in Judged /\ Sound(st) /\ OnRoute
  BY DEF TypeInv, TypeOK, GateInv
<1>1. ASSUME MakePlanCallsTools PROVE GateInv'
  <2>1. /\ pc \in PlanningStages /\ pc \in HandbookNodes /\ pc' \in PlanningStages
        /\ st' = st /\ judged' = judged
    BY <1>1 DEF MakePlanCallsTools, Goto, PlanningStages, HandbookNodes
  <2> QED
    BY <1>0, <2>1, StageGate DEF OnRoute, Sound
<1>2. ASSUME MakePlanAnswers PROVE GateInv'
  <2>1. PICK written \in {HandbookMatches(st), FALSE} :
        /\ st' = IF HandbookMatches(st)
                 THEN [st EXCEPT !.toolLoops = 0,
                                 !.plan = IF written THEN st.meta ELSE st.plan]
                 ELSE [st EXCEPT !.planning = FALSE, !.plan = NoPlan]
        /\ judged' = IF written THEN [judged EXCEPT !.plan = "unjudged"] ELSE judged
    BY <1>2 DEF MakePlanAnswers
  <2>2. /\ pc \in PlanningStages /\ pc \in HandbookNodes /\ pc' \in PlanningStages
    BY <1>2 DEF MakePlanAnswers, Goto, PlanningStages, HandbookNodes
  <2>3. /\ st'.confirmed = st.confirmed /\ st'.meta = st.meta
        /\ st'.handbook = st.handbook /\ st'.planFeedback = st.planFeedback
        /\ ~st'.planning
        /\ st'.plan # NoPlan => st'.plan = st'.meta
    BY <1>0, <2>1, <2>2 DEF AdvisorState, OnRoute, Sound
  <2>4. judged'.plan = "invalid" => judged.plan = "invalid"
    BY <1>0, <2>1 DEF Judged
  <2> QED
    BY <1>0, <2>2, <2>3, <2>4, StageGate DEF OnRoute
<1>3. ASSUME Stage2Tools PROVE GateInv'
  <2>1. /\ pc \in PlanningStages /\ pc \in HandbookNodes /\ pc' \in PlanningStages
        /\ st' = st /\ judged' = judged
    BY <1>3 DEF Stage2Tools, Goto, PlanningStages, HandbookNodes
  <2> QED
    BY <1>0, <2>1, StageGate DEF OnRoute, Sound
<1>4. ASSUME CaptureStage2ToolResults PROVE GateInv'
  <2>1. /\ pc \in PlanningStages /\ pc \in HandbookNodes /\ pc' \in PlanningStages
        /\ st' = [st EXCEPT !.toolLoops = st.toolLoops + 1] /\ judged' = judged
    BY <1>4 DEF CaptureStage2ToolResults, Goto, PlanningStages, HandbookNodes
  <2>2. /\ st'.confirmed = st.confirmed /\ st'.meta = st.meta
        /\ st'.handbook = st.handbook /\ st'.planning = st.planning
        /\ st'.plan = st.plan /\ st'.planFeedback = st.planFeedback
    BY <1>0, <2>1 DEF AdvisorState
  <2> QED
    BY <1>0, <2>1, <2>2, StageGate DEF OnRoute, Sound
<1>5. ASSUME EvaluateStage2 PROVE GateInv'
  <2>1. PICK verdict :
          /\ st' = [st EXCEPT !.planFeedback = verdict \in {"unjudged", "invalid"},
                              !.planRetries = IF verdict = "valid" THEN 0
                                              ELSE st.planRetries + 1]
          /\ judged' = [judged EXCEPT !.plan = verdict]
    BY <1>5 DEF EvaluateStage2
  <2>2. pc \in PlanningStages /\ pc \in HandbookNodes /\ pc' \in PlanningStages
    BY <1>5 DEF EvaluateStage2, Goto, RouteEvaluation, PlanningStages, HandbookNodes
  <2>3. /\ st'.confirmed = st.confirmed /\ st'.meta = st.meta
        /\ st'.handbook = st.handbook /\ st'.planning = st.planning
        /\ st'.plan = st.plan
    BY <1>0, <2>1 DEF AdvisorState
  <2>4. judged'.plan = "invalid" => st'.planFeedback
    BY <1>0, <2>1 DEF AdvisorState, Judged
  <2> QED
    BY <1>0, <2>2, <2>3, <2>4, StageGate DEF OnRoute, Sound
<1>6. ASSUME FormatOutput PROVE GateInv'
  <2>1. pc' = "idle" /\ Sound(st')
    BY <1>0, <1>6 DEF FormatOutput, Goto, Sound, AdvisorState
  <2> QED
    BY <2>1, OffRoute DEF GateInv, HandbookNodes, PlanningStages
<1> QED
  BY <1>1, <1>2, <1>3, <1>4, <1>5, <1>6

LEMMA GateInvInvariant == Spec => []GateInv
<1>1. TypeInv /\ TypeInv' /\ GateInv /\ Next => GateInv'
  BY TurnGate, ConversationGate, HandbookNodesGate, Stage1Gate, Stage2Gate DEF Next, Node
<1>2. GateInv /\ UNCHANGED vars => GateInv'
  BY DEF GateInv, Sound, HandbookGate, OnRoute, vars
<1> QED
  BY InitGate, <1>1, <1>2, TypeInvInvariant, PTL DEF Spec

\* Every node that uses the handbook on the student's behalf runs with confirmed
\* metadata and the handbook of exactly that programme (the "HARD INVARIANT" of
\* handbook_matches_current_meta), for any programmes, limits and turns.
THEOREM HandbookGateHolds == Spec => []HandbookGate
  BY GateInvInvariant, PTL DEF GateInv

\* No stored plan outlives the metadata it was written for.
THEOREM PlanFitsMetaHolds == Spec => []PlanFitsMeta
<1>1. GateInv => PlanFitsMeta
  BY DEF GateInv, Sound, PlanFitsMeta
<1> QED
  BY <1>1, GateInvInvariant, PTL

\* Metadata the code calls confirmed always identifies a handbook.
THEOREM ConfirmedIdentifiesHandbookHolds == Spec => []ConfirmedIdentifiesHandbook
<1>1. GateInv => ConfirmedIdentifiesHandbook
  BY DEF GateInv, Sound, ConfirmedIdentifiesHandbook
<1> QED
  BY <1>1, GateInvInvariant, PTL

\* A run that is about to be planned has all its retries and tool loops left.
THEOREM FullBudgetHolds == Spec => []FullBudget
<1>1. GateInv => FullBudget
  BY DEF GateInv, Sound, FullBudget
<1> QED
  BY <1>1, GateInvInvariant, PTL

\* A plan rejected with a reason reaches the student with feedback.
THEOREM RejectionShownHolds == Spec => []RejectionShown
<1>1. GateInv => RejectionShown
  BY DEF GateInv, OnRoute, RejectionShown, PlanningStages
<1> QED
  BY <1>1, GateInvInvariant, PTL

-----------------------------------------------------------------------------
(* The length of a turn                                                    *)

\* Supersteps taken at the latest when the conversation, when stage 1, and when
\* the plan evaluator's retries are over.
ConversationEnd == 3 * MAX_TOOL_CALLS_PER_TURN + 1
Stage1End == ConversationEnd + 2 + 2 * MAX_STAGE1_RETRIES
Stage2End == Stage1End + PassSteps * MAX_STAGE2_RETRIES

\* The supersteps so far are paid for by the tool calls already spent,
ConversationBudget ==
    /\ pc = "agent" => steps <= 3 * used /\ steps < ConversationEnd
    /\ pc = "tools" => used < MAX_TOOL_CALLS_PER_TURN /\ steps <= 3 * used + 1
    /\ pc = "capture_tool_results" =>
          /\ Len(calls) <= used
          /\ used - Len(calls) < MAX_TOOL_CALLS_PER_TURN
          /\ steps <= 3 * (used - Len(calls)) + 2
    /\ pc = "ensure_handbook" => steps <= ConversationEnd
    /\ pc \in {"handbook_missing", "start_planning", "fetch_elective_list",
               "populate_plan_electives"} => steps <= ConversationEnd + 1
    /\ pc = "idle" => steps <= Stage2End + 1

\* by the retries of stage 1, during which stage 2 keeps its whole budget,
Stage1Budget ==
    pc \in {"stage1_review_must_includes", "eval_stage1_lists"} =>
        /\ st.planRetries = 0 /\ st.toolLoops = 0
        /\ st.coreRetries < MAX_STAGE1_RETRIES
        /\ steps <= ConversationEnd + 2 + 2 * st.coreRetries
                    + (IF pc = "eval_stage1_lists" THEN 1 ELSE 0)

\* and by the passes of stage 2 and the tool loops of the current one.
Stage2Budget ==
    /\ pc \in {"stage2_make_plan", "stage2_tools", "capture_stage2_tool_results"} =>
          /\ st.planRetries < MAX_STAGE2_RETRIES
          /\ st.toolLoops <= MAX_STAGE2_TOOL_LOOPS
          /\ pc # "stage2_make_plan" => st.toolLoops < MAX_STAGE2_TOOL_LOOPS
          /\ steps <= Stage1End + PassSteps * st.planRetries + 3 * st.toolLoops
                      + (CASE pc = "stage2_make_plan" -> 0
                           [] pc = "stage2_tools" -> 1
                           [] pc = "capture_stage2_tool_results" -> 2)
    /\ pc = "evaluate_stage2" =>
          /\ st.planRetries < MAX_STAGE2_RETRIES /\ st.toolLoops = 0
          /\ steps < Stage1End + PassSteps * st.planRetries + PassSteps
    /\ pc = "format_output" => steps <= Stage2End

BudgetInv == ConversationBudget /\ Stage1Budget /\ Stage2Budget

LEMMA BudgetNumbers ==
    /\ ConversationEnd \in Nat /\ ConversationEnd = 3 * MAX_TOOL_CALLS_PER_TURN + 1
    /\ Stage1End \in Nat /\ Stage1End = ConversationEnd + 2 + 2 * MAX_STAGE1_RETRIES
    /\ PassSteps \in Nat /\ PassSteps = 3 * MAX_STAGE2_TOOL_LOOPS + 2
    /\ Stage2End \in Nat /\ Stage1End <= Stage2End
    /\ TurnBound = Stage2End + 1
<1>1. PassSteps \in Nat /\ MAX_STAGE2_RETRIES \in Nat
  BY LimitsAssumption DEF PassSteps
<1>2. PassSteps * MAX_STAGE2_RETRIES \in Nat
  BY <1>1
<1>3. ConversationEnd \in Nat
  BY LimitsAssumption DEF ConversationEnd
<1>4. Stage1End \in Nat
  BY <1>3, LimitsAssumption DEF Stage1End
<1>5. Stage2End \in Nat /\ Stage1End <= Stage2End
  BY <1>2, <1>4 DEF Stage2End
<1>6. TurnBound = Stage2End + 1
  BY DEF TurnBound, Stage2End, Stage1End, ConversationEnd
<1> QED
  BY <1>1, <1>3, <1>4, <1>5, <1>6 DEF ConversationEnd, Stage1End, PassSteps

\* One more pass of p supersteps fits while there is a retry left.
LEMMA OneMorePass ==
    ASSUME NEW p \in Nat, NEW a \in Nat, NEW b \in Nat, a < b
    PROVE  /\ p * a \in Nat
           /\ p * (a + 1) = p * a + p
           /\ p * a + p <= p * b
<1>1. PICK c \in Nat : b = (a + 1) + c
  <2>1. b - (a + 1) \in Nat /\ b = (a + 1) + (b - (a + 1))
    OBVIOUS
  <2> QED
    BY <2>1
<1>2. p * a \in Nat /\ p * c \in Nat
  OBVIOUS
<1>3. p * (a + 1) = p * a + p
  OBVIOUS
<1>4. p * b = p * (a + 1) + p * c
  BY <1>1
<1> QED
  BY <1>2, <1>3, <1>4

LEMMA OneStep ==
    ASSUME TypeOK, NEW next, Goto(next)
    PROVE  steps' \in Nat /\ steps' <= steps + 1 /\ pc' = next
  BY DEF TypeOK, Goto

\* While it runs, a turn is at least one superstep short of its end.
LEMMA InTurnBounded ==
    ASSUME TypeOK, BudgetInv, pc \in Nodes
    PROVE  steps <= Stage2End
<1>0. /\ st \in AdvisorState /\ steps \in Nat /\ used \in Nat
      /\ st.planRetries \in Nat /\ st.toolLoops \in Nat /\ st.coreRetries \in Nat
  BY DEF TypeOK, AdvisorState
<1>1. CASE pc \in {"agent", "ensure_handbook", "handbook_missing", "start_planning",
                   "fetch_elective_list", "populate_plan_electives"}
  BY <1>0, <1>1, BudgetNumbers, LimitsAssumption DEF BudgetInv, ConversationBudget
<1>2. CASE pc \in {"tools", "capture_tool_results"}
  <2>1. Len(calls) \in Nat
    BY BatchShape DEF TypeOK
  <2> QED
    BY <1>0, <1>2, <2>1, BudgetNumbers, LimitsAssumption DEF BudgetInv, ConversationBudget
<1>3. CASE pc \in {"stage1_review_must_includes", "eval_stage1_lists"}
  <2>1. /\ st.coreRetries < MAX_STAGE1_RETRIES
        /\ steps <= ConversationEnd + 2 + 2 * st.coreRetries + 1
    BY <1>0, <1>3, BudgetNumbers DEF BudgetInv, Stage1Budget
  <2> QED
    BY <1>0, <2>1, BudgetNumbers, LimitsAssumption
<1>4. CASE pc \in {"stage2_make_plan", "stage2_tools", "capture_stage2_tool_results",
                   "evaluate_stage2"}
  <2>1. st.planRetries < MAX_STAGE2_RETRIES
    BY <1>4 DEF BudgetInv, Stage2Budget
  <2>2. /\ PassSteps * st.planRetries \in Nat
        /\ PassSteps * st.planRetries + PassSteps <= PassSteps * MAX_STAGE2_RETRIES
    BY <1>0, <2>1, OneMorePass, BudgetNumbers, LimitsAssumption
  <2>3. steps <= Stage1End + PassSteps * st.planRetries + PassSteps
    <3>1. CASE pc = "stage2_make_plan"
      BY <1>0, <2>2, <3>1, BudgetNumbers, LimitsAssumption DEF BudgetInv, Stage2Budget
    <3>2. CASE pc = "stage2_tools"
      BY <1>0, <2>2, <3>2, BudgetNumbers, LimitsAssumption DEF BudgetInv, Stage2Budget
    <3>3. CASE pc = "capture_stage2_tool_results"
      BY <1>0, <2>2, <3>3, BudgetNumbers, LimitsAssumption DEF BudgetInv, Stage2Budget
    <3>4. CASE pc = "evaluate_stage2"
      BY <1>0, <2>2, <3>4, BudgetNumbers, LimitsAssumption DEF BudgetInv, Stage2Budget
    <3> QED
      BY <1>4, <3>1, <3>2, <3>3, <3>4
  <2> QED
    BY <1>0, <2>2, <2>3, BudgetNumbers, LimitsAssumption DEF Stage2End
<1>5. CASE pc = "format_output"
  BY <1>5 DEF BudgetInv, Stage2Budget
<1> QED
  BY <1>1, <1>2, <1>3, <1>4, <1>5 DEF Nodes

\* Outside the two stages only the conversation's budget counts.
LEMMA BudgetOutsideStages ==
    ASSUME pc' \notin PlanningStages, ConversationBudget'
    PROVE  BudgetInv'
  BY DEF BudgetInv, Stage1Budget, Stage2Budget, PlanningStages

LEMMA InitBudget == Init => BudgetInv
<1> SUFFICES ASSUME Init PROVE BudgetInv
  OBVIOUS
<1>1. pc = "idle" /\ steps = 0
  BY DEF Init
<1> QED
  BY <1>1, BudgetNumbers DEF BudgetInv, ConversationBudget, Stage1Budget, Stage2Budget

\* A turn starts with nothing spent; a failed one stops where it is.
LEMMA TurnBudget == TypeInv /\ BudgetInv /\ (Turn \/ TurnFails) => BudgetInv'
<1> SUFFICES ASSUME TypeInv, BudgetInv, Turn \/ TurnFails PROVE BudgetInv'
  OBVIOUS
<1>1. CASE Turn
  <2>1. pc' = "agent" /\ steps' = 0 /\ used' = 0
    BY <1>1 DEF Turn, StartSession, ContinueSession, PasteRecord, BeginTurn
  <2>2. ConversationBudget'
    BY <2>1, BudgetNumbers, LimitsAssumption DEF ConversationBudget
  <2> QED
    BY <2>1, <2>2, BudgetOutsideStages DEF PlanningStages
<1>2. CASE TurnFails
  <2>1. pc \in Nodes /\ pc' = "idle" /\ steps' = steps
    BY <1>2 DEF TypeInv, TypeOK, TurnFails
  <2>2. steps <= Stage2End + 1
    <3>1. steps <= Stage2End /\ steps \in Nat
      BY <2>1, InTurnBounded DEF TypeInv, TypeOK
    <3> QED
      BY <3>1, BudgetNumbers
  <2>3. ConversationBudget'
    BY <2>1, <2>2 DEF ConversationBudget
  <2> QED
    BY <2>1, <2>3, BudgetOutsideStages DEF PlanningStages
<1> QED
  BY <1>1, <1>2

LEMMA AgentBudget ==
    ASSUME TypeInv, BudgetInv, NEW batch, NEW pending, AgentSays(batch, pending), TypeInv',
           batch # <<>> => used < MAX_TOOL_CALLS_PER_TURN
    PROVE  BudgetInv'
<1>1. pc = "agent" /\ steps \in Nat /\ used \in Nat /\ used' = used
  BY DEF TypeInv, TypeOK, AgentSays
<1>2. steps <= 3 * used /\ steps < ConversationEnd
  BY <1>1 DEF BudgetInv, ConversationBudget
<1>3. steps' \in Nat /\ steps' <= steps + 1 /\ pc' = RouteAfterAgent(st', batch)
  BY OneStep DEF AgentSays, TypeInv
<1>4. st' \in AdvisorState
  BY DEF TypeInv, TypeOK
<1>5. CASE batch # <<>>
  <2>1. pc' = "tools"
    BY <1>3, <1>5 DEF RouteAfterAgent
  <2>2. ConversationBudget'
    BY <1>1, <1>2, <1>3, <1>5, <2>1 DEF ConversationBudget
  <2> QED
    BY <2>1, <2>2, BudgetOutsideStages DEF PlanningStages
<1>6. CASE batch = <<>>
  <2>1. pc' \in {"idle", "ensure_handbook", "start_planning", "fetch_elective_list",
                 "populate_plan_electives"}
    BY <1>3, <1>4, <1>6 DEF RouteAfterAgent, RequestedNode, AdvisorState
  <2>2. steps' <= ConversationEnd /\ steps' <= ConversationEnd + 1 /\ steps' <= Stage2End + 1
    BY <1>1, <1>2, <1>3, BudgetNumbers, LimitsAssumption
  <2>3. ConversationBudget'
    BY <2>1, <2>2 DEF ConversationBudget
  <2> QED
    BY <2>1, <2>3, BudgetOutsideStages DEF PlanningStages
<1> QED
  BY <1>5, <1>6

LEMMA ConversationNodesBudget ==
    TypeInv /\ TypeInv' /\ BudgetInv
    /\ (Agent \/ RunTools \/ CaptureToolResults \/ EnsureHandbook \/ HandbookMissing)
    => BudgetInv'
<1> SUFFICES ASSUME TypeInv, TypeInv', BudgetInv
             PROVE  Agent \/ RunTools \/ CaptureToolResults \/ EnsureHandbook
                    \/ HandbookMissing => BudgetInv'
  OBVIOUS
<1>0. steps \in Nat /\ used \in Nat /\ st' \in AdvisorState /\ calls \in BatchesOf(Tools)
  BY DEF TypeInv, TypeOK
<1>1. ASSUME Agent PROVE BudgetInv'
  BY <1>1, AgentBudget DEF Agent, AgentAtLimit, AgentWithoutLookup, AgentLooksUpElectives,
                           AgentLookupWithoutTopic, AgentLookupSuppressed
<1>2. ASSUME RunTools PROVE BudgetInv'
  <2>1. /\ pc = "tools" /\ pc' = "capture_tool_results"
        /\ steps' \in Nat /\ steps' <= steps + 1
        /\ used' = used + Len(calls) /\ calls' = calls
    BY <1>2, OneStep DEF RunTools, TypeInv
  <2>2. Len(calls) \in Nat
    BY <1>0, BatchShape
  <2>3. used < MAX_TOOL_CALLS_PER_TURN /\ steps <= 3 * used + 1
    BY <2>1 DEF BudgetInv, ConversationBudget
  <2>4. used' - Len(calls') = used /\ Len(calls') <= used'
    BY <1>0, <2>1, <2>2
  <2>5. ConversationBudget'
    BY <1>0, <2>1, <2>3, <2>4 DEF ConversationBudget
  <2> QED
    BY <2>1, <2>5, BudgetOutsideStages DEF PlanningStages
<1>3. ASSUME CaptureToolResults PROVE BudgetInv'
  <2>1. /\ pc = "capture_tool_results"
        /\ pc' = RouteAfterToolResults(st', calls)
        /\ steps' \in Nat /\ steps' <= steps + 1
        /\ used' = used
    BY <1>3, OneStep DEF CaptureToolResults, TypeInv
  <2>2. Len(calls) \in 1..2
    BY <1>0, <2>1, BatchShape DEF TypeInv, CallsWait
  <2>3. /\ Len(calls) <= used
        /\ used - Len(calls) < MAX_TOOL_CALLS_PER_TURN
        /\ steps <= 3 * (used - Len(calls)) + 2
    BY <2>1 DEF BudgetInv, ConversationBudget
  <2>4. steps' <= 3 * used /\ steps' < ConversationEnd
    <3>1. PICK n \in 1..2 : n = Len(calls)
      BY <2>2
    <3>2. used - n < MAX_TOOL_CALLS_PER_TURN /\ n <= used /\ steps <= 3 * (used - n) + 2
      BY <2>3, <3>1
    <3>3. MAX_TOOL_CALLS_PER_TURN \in Nat
      BY LimitsAssumption
    <3>4. steps' <= 3 * (used - n) + 3
      BY <1>0, <2>1, <3>2
    <3> QED
      BY <1>0, <2>1, <3>2, <3>3, <3>4, BudgetNumbers
  <2>5. pc' \in {"ensure_handbook", "agent"}
    BY <1>0, <2>1, RoutersNameNodes
  <2>6. ConversationBudget'
    BY SMTT(60), <2>1, <2>4, <2>5, BudgetNumbers DEF ConversationBudget
  <2> QED
    BY <2>5, <2>6, BudgetOutsideStages DEF PlanningStages
<1>4. ASSUME EnsureHandbook PROVE BudgetInv'
  <2>1. /\ pc = "ensure_handbook"
        /\ pc' = RouteAfterFetch(st')
        /\ steps' \in Nat /\ steps' <= steps + 1
    BY <1>4, OneStep DEF EnsureHandbook, TypeInv
  <2>2. pc' \in {"handbook_missing", "start_planning", "fetch_elective_list",
                 "populate_plan_electives"}
    BY <1>0, <2>1 DEF RouteAfterFetch, RequestedNode, AdvisorState
  <2>3. steps <= ConversationEnd
    BY <2>1 DEF BudgetInv, ConversationBudget
  <2>4. ConversationBudget'
    BY SMTT(60), <1>0, <2>1, <2>2, <2>3, BudgetNumbers DEF ConversationBudget
  <2> QED
    BY <2>2, <2>4, BudgetOutsideStages DEF PlanningStages
<1>5. ASSUME HandbookMissing PROVE BudgetInv'
  <2>1. pc = "handbook_missing" /\ pc' = "idle" /\ steps' \in Nat /\ steps' <= steps + 1
    BY <1>5, OneStep DEF HandbookMissing, TypeInv
  <2>2. ConversationBudget'
    BY <1>0, <2>1, BudgetNumbers, LimitsAssumption DEF BudgetInv, ConversationBudget
  <2> QED
    BY <2>1, <2>2, BudgetOutsideStages DEF PlanningStages
<1> QED
  BY <1>1, <1>2, <1>3, <1>4, <1>5

\* Stage 1 starts with every counter at zero, and retries within its limit.
LEMMA Stage1NodesBudget ==
    TypeInv /\ TypeInv' /\ GateInv /\ BudgetInv
    /\ \/ StartPlanning \/ FetchElectiveList \/ PopulatePlanElectives
       \/ GenerateCoreSubjects \/ EvaluateStage1
    => BudgetInv'
<1> SUFFICES ASSUME TypeInv, TypeInv', GateInv, BudgetInv
             PROVE  \/ StartPlanning \/ FetchElectiveList \/ PopulatePlanElectives
                    \/ GenerateCoreSubjects \/ EvaluateStage1
                    => BudgetInv'
  OBVIOUS
<1>0. /\ TypeOK /\ steps \in Nat /\ st \in AdvisorState /\ st' \in AdvisorState
      /\ st.coreRetries \in Nat
      /\ MAX_STAGE1_RETRIES \in Nat \ {0} /\ MAX_STAGE2_RETRIES \in Nat \ {0}
      /\ MAX_STAGE2_TOOL_LOOPS \in Nat
  BY LimitsAssumption DEF TypeInv, TypeOK, AdvisorState
<1>1. ASSUME StartPlanning PROVE BudgetInv'
  <2>1. /\ pc = "start_planning" /\ steps' \in Nat /\ steps' <= steps + 1
        /\ pc' = IF st'.validated THEN "stage1_review_must_includes" ELSE "idle"
    BY <1>0, <1>1, OneStep DEF StartPlanning
  <2>2. steps' <= ConversationEnd + 2 /\ steps' <= Stage2End + 1
    BY <1>0, <2>1, BudgetNumbers DEF BudgetInv, ConversationBudget
  <2>3. st.coreRetries = 0 /\ st.planRetries = 0 /\ st.toolLoops = 0
    BY <2>1 DEF GateInv, Sound, HandbookGate, HandbookNodes, OnRoute
  <2>4. PICK outcome : st' = StartPlanningUpdate(outcome)
    BY <1>1 DEF StartPlanning
  <2>5. st'.coreRetries = 0 /\ st'.planRetries = 0 /\ st'.toolLoops = 0
    <3>1. \/ st' = [st EXCEPT !.planning = FALSE]
          \/ st' = [PlanningReset(st) EXCEPT !.planning = FALSE, !.validated = TRUE,
                                             !.mode = "planning"]
          \/ st' = [st EXCEPT !.planning = FALSE, !.validated = FALSE]
          \/ st' = [st EXCEPT !.planning = FALSE, !.planFeedback = TRUE]
      <4>1. CASE ~HandbookMatches(st)
        BY <2>4, <4>1 DEF StartPlanningUpdate
      <4>2. CASE HandbookMatches(st) /\ outcome = "valid"
        BY <2>4, <4>2 DEF StartPlanningUpdate
      <4>3. CASE HandbookMatches(st) /\ outcome = "refused"
        BY <2>4, <4>3 DEF StartPlanningUpdate
      <4>4. CASE HandbookMatches(st) /\ outcome \notin {"valid", "refused"}
        BY <2>4, <4>4 DEF StartPlanningUpdate
      <4> QED
        BY <4>1, <4>2, <4>3, <4>4
    <3> QED
      BY ZenonT(90), <1>0, <2>3, <3>1 DEF PlanningReset, AdvisorState
  <2>6. Stage1Budget'
    BY <1>0, <2>1, <2>2, <2>5, BudgetNumbers DEF Stage1Budget
  <2> QED
    BY <2>1, <2>2, <2>6 DEF BudgetInv, ConversationBudget, Stage2Budget
<1>2. ASSUME FetchElectiveList \/ PopulatePlanElectives PROVE BudgetInv'
  <2>1. /\ pc \in {"fetch_elective_list", "populate_plan_electives"}
        /\ pc' = "idle" /\ steps' \in Nat /\ steps' <= steps + 1
    BY <1>0, <1>2, OneStep DEF FetchElectiveList, PopulatePlanElectives
  <2>2. ConversationBudget'
    BY SMTT(60), <1>0, <2>1, BudgetNumbers DEF BudgetInv, ConversationBudget
  <2> QED
    BY <2>1, <2>2, BudgetOutsideStages DEF PlanningStages
<1>3. ASSUME GenerateCoreSubjects PROVE BudgetInv'
  <2>1. /\ pc = "stage1_review_must_includes" /\ pc' = "eval_stage1_lists"
        /\ steps' \in Nat /\ steps' <= steps + 1
        /\ st' = st \/ st' = [st EXCEPT !.coreFeedback = FALSE]
    BY <1>0, <1>3, OneStep DEF GenerateCoreSubjects
  <2>2. /\ st'.coreRetries = st.coreRetries /\ st'.planRetries = st.planRetries
        /\ st'.toolLoops = st.toolLoops
    BY <1>0, <2>1 DEF AdvisorState
  <2>3. Stage1Budget'
    BY <1>0, <2>1, <2>2, BudgetNumbers DEF BudgetInv, Stage1Budget
  <2> QED
    BY <2>1, <2>3 DEF BudgetInv, ConversationBudget, Stage2Budget
<1>4. ASSUME EvaluateStage1 PROVE BudgetInv'
  <2>1. /\ pc = "eval_stage1_lists" /\ pc' = RouteStage1Eval(st')
        /\ steps' \in Nat /\ steps' <= steps + 1
        /\ \E accepted \in BOOLEAN :
             st' = [st EXCEPT !.coreFeedback = ~accepted, !.coreRetries = st.coreRetries + 1]
    BY <1>0, <1>4, OneStep DEF EvaluateStage1
  <2>2. /\ st'.coreRetries = st.coreRetries + 1 /\ st'.planRetries = st.planRetries
        /\ st'.toolLoops = st.toolLoops
    BY <1>0, <2>1 DEF AdvisorState
  <2>3. /\ st.planRetries = 0 /\ st.toolLoops = 0 /\ st.coreRetries < MAX_STAGE1_RETRIES
        /\ steps' <= ConversationEnd + 2 + 2 * (st.coreRetries + 1)
    BY <1>0, <2>1, BudgetNumbers DEF BudgetInv, Stage1Budget
  <2>4. CASE pc' = "stage1_review_must_includes"
    <3>1. st'.coreRetries < MAX_STAGE1_RETRIES
      BY <2>1, <2>4 DEF RouteStage1Eval
    <3>2. Stage1Budget'
      BY <1>0, <2>2, <2>3, <2>4, <3>1, BudgetNumbers DEF Stage1Budget
    <3> QED
      BY <2>4, <3>2 DEF BudgetInv, ConversationBudget, Stage2Budget
  <2>5. CASE pc' = "stage2_make_plan"
    <3>1. steps' <= Stage1End
      BY <1>0, <2>1, <2>3, BudgetNumbers
    <3>2. PassSteps * st'.planRetries = 0
      BY <2>2, <2>3, BudgetNumbers
    <3>3. Stage2Budget'
      BY <1>0, <2>1, <2>2, <2>3, <2>5, <3>1, <3>2, BudgetNumbers DEF Stage2Budget
    <3> QED
      BY <2>5, <3>3 DEF BudgetInv, ConversationBudget, Stage1Budget
  <2> QED
    BY <2>1, <2>4, <2>5 DEF RouteStage1Eval
<1> QED
  BY <1>1, <1>2, <1>3, <1>4

\* Stage 2 pays three supersteps for a tool loop, and its passes for the rest.
LEMMA Stage2NodesBudget ==
    TypeInv /\ TypeInv' /\ GateInv /\ BudgetInv
    /\ \/ MakePlanCallsTools \/ MakePlanAnswers \/ Stage2Tools
       \/ CaptureStage2ToolResults \/ EvaluateStage2 \/ FormatOutput
    => BudgetInv'
<1> SUFFICES ASSUME TypeInv, TypeInv', GateInv, BudgetInv
             PROVE  \/ MakePlanCallsTools \/ MakePlanAnswers \/ Stage2Tools
                    \/ CaptureStage2ToolResults \/ EvaluateStage2 \/ FormatOutput
                    => BudgetInv'
  OBVIOUS
<1> DEFINE spent == Stage1End + PassSteps * st.planRetries
<1>0. /\ TypeOK /\ steps \in Nat /\ st \in AdvisorState /\ st' \in AdvisorState
      /\ st.planRetries \in Nat /\ st.toolLoops \in Nat
      /\ MAX_STAGE2_RETRIES \in Nat /\ MAX_STAGE2_TOOL_LOOPS \in Nat
  BY LimitsAssumption DEF TypeInv, TypeOK, AdvisorState
<1>a. st.planRetries < MAX_STAGE2_RETRIES =>
        /\ spent \in Nat
        /\ spent + PassSteps <= Stage2End
        /\ PassSteps * (st.planRetries + 1) = PassSteps * st.planRetries + PassSteps
  BY <1>0, OneMorePass, BudgetNumbers DEF Stage2End
<1>b. ASSUME pc' \in {"stage2_make_plan", "stage2_tools", "capture_stage2_tool_results",
                      "evaluate_stage2", "format_output"},
             Stage2Budget'
      PROVE  BudgetInv'
  BY <1>b DEF BudgetInv, ConversationBudget, Stage1Budget
<1>1. ASSUME MakePlanCallsTools PROVE BudgetInv'
  <2>1. /\ pc = "stage2_make_plan" /\ st' = st
        /\ pc' = IF st.toolLoops >= MAX_STAGE2_TOOL_LOOPS
                 THEN "format_output" ELSE "stage2_tools"
        /\ steps' \in Nat /\ steps' <= steps + 1
    BY <1>0, <1>1, OneStep DEF MakePlanCallsTools
  <2>2. /\ st.planRetries < MAX_STAGE2_RETRIES /\ st.toolLoops <= MAX_STAGE2_TOOL_LOOPS
        /\ steps <= spent + 3 * st.toolLoops
    <3>1. steps <= Stage1End + PassSteps * st.planRetries + 3 * st.toolLoops + 0
      BY <2>1 DEF BudgetInv, Stage2Budget
    <3>2. st.planRetries < MAX_STAGE2_RETRIES /\ st.toolLoops <= MAX_STAGE2_TOOL_LOOPS
      BY <2>1 DEF BudgetInv, Stage2Budget
    <3> QED
      BY <1>0, <1>a, <3>1, <3>2
  <2> HIDE DEF spent
  <2>3. CASE pc' = "format_output"
    <3>1. steps' <= Stage2End
      BY <1>0, <1>a, <2>1, <2>2, BudgetNumbers
    <3> QED
      BY <1>b, <2>3, <3>1 DEF Stage2Budget
  <2>4. CASE pc' = "stage2_tools"
    <3>1. st.toolLoops < MAX_STAGE2_TOOL_LOOPS
      BY <1>0, <2>1, <2>4
    <3>2. steps' <= spent + 3 * st.toolLoops + 1
      BY <1>0, <1>a, <2>1, <2>2
    <3> QED
      BY <1>b, <2>1, <2>2, <2>4, <3>1, <3>2 DEF Stage2Budget, spent
  <2> QED
    BY <2>1, <2>3, <2>4
<1>2. ASSUME MakePlanAnswers PROVE BudgetInv'
  <2>1. /\ pc = "stage2_make_plan" /\ pc' = "evaluate_stage2"
        /\ steps' \in Nat /\ steps' <= steps + 1
    BY <1>0, <1>2, OneStep DEF MakePlanAnswers
  <2>2. HandbookMatches(st)
    BY <2>1, KeysAssumption
       DEF GateInv, HandbookGate, HandbookNodes, PlanningStages, HandbookMatches
  <2>3. \E plan : st' = [st EXCEPT !.toolLoops = 0, !.plan = plan]
    BY <1>2, <2>2 DEF MakePlanAnswers
  <2>4. st'.planRetries = st.planRetries /\ st'.toolLoops = 0
    BY <1>0, <2>3 DEF AdvisorState
  <2>5. /\ st.planRetries < MAX_STAGE2_RETRIES /\ st.toolLoops <= MAX_STAGE2_TOOL_LOOPS
        /\ steps <= Stage1End + PassSteps * st.planRetries + 3 * st.toolLoops + 0
    BY <2>1 DEF BudgetInv, Stage2Budget
  <2>6. steps' < spent + PassSteps
    <3>1. steps <= spent + 3 * st.toolLoops
      BY <1>0, <1>a, <2>5
    <3> HIDE DEF spent
    <3> QED
      BY <1>0, <1>a, <2>1, <2>5, <3>1, BudgetNumbers
  <2> QED
    BY <1>b, <2>1, <2>4, <2>5, <2>6 DEF Stage2Budget
<1>3. ASSUME Stage2Tools PROVE BudgetInv'
  <2>1. /\ pc = "stage2_tools" /\ pc' = "capture_stage2_tool_results" /\ st' = st
        /\ steps' \in Nat /\ steps' <= steps + 1
    BY <1>0, <1>3, OneStep DEF Stage2Tools
  <2>2. /\ st.planRetries < MAX_STAGE2_RETRIES /\ st.toolLoops < MAX_STAGE2_TOOL_LOOPS
        /\ steps <= spent + 3 * st.toolLoops + 1
    BY <2>1 DEF BudgetInv, Stage2Budget
  <2>3. steps' <= spent + 3 * st.toolLoops + 2
    <3> HIDE DEF spent
    <3> QED
      BY <1>0, <1>a, <2>1, <2>2
  <2> QED
    BY <1>0, <1>b, <2>1, <2>2, <2>3 DEF Stage2Budget
<1>4. ASSUME CaptureStage2ToolResults PROVE BudgetInv'
  <2>1. /\ pc = "capture_stage2_tool_results" /\ pc' = "stage2_make_plan"
        /\ st' = [st EXCEPT !.toolLoops = st.toolLoops + 1]
        /\ steps' \in Nat /\ steps' <= steps + 1
    BY <1>0, <1>4, OneStep DEF CaptureStage2ToolResults
  <2>2. st'.planRetries = st.planRetries /\ st'.toolLoops = st.toolLoops + 1
    BY <1>0, <2>1 DEF AdvisorState
  <2>3. /\ st.planRetries < MAX_STAGE2_RETRIES /\ st.toolLoops < MAX_STAGE2_TOOL_LOOPS
        /\ steps <= spent + 3 * st.toolLoops + 2
    BY <2>1 DEF BudgetInv, Stage2Budget
  <2>4. steps' <= spent + 3 * (st.toolLoops + 1) + 0
    <3> HIDE DEF spent
    <3> QED
      BY <1>0, <1>a, <2>1, <2>3
  <2>5. st.toolLoops + 1 <= MAX_STAGE2_TOOL_LOOPS
    BY <1>0, <2>3
  <2> QED
    BY <1>b, <2>1, <2>2, <2>3, <2>4, <2>5 DEF Stage2Budget
<1>5. ASSUME EvaluateStage2 PROVE BudgetInv'
  <2>1. /\ pc = "evaluate_stage2" /\ pc' = RouteEvaluation(st')
        /\ steps' \in Nat /\ steps' <= steps + 1
    BY <1>0, <1>5, OneStep DEF EvaluateStage2
  <2>2. /\ st.planRetries < MAX_STAGE2_RETRIES /\ st.toolLoops = 0
        /\ steps < spent + PassSteps
    BY <2>1 DEF BudgetInv, Stage2Budget
  <2>3. steps' <= spent + PassSteps
    <3> HIDE DEF spent
    <3> QED
      BY <1>0, <1>a, <2>1, <2>2, BudgetNumbers
  <2>4. CASE pc' = "format_output"
    <3>1. steps' <= Stage2End
      <4> HIDE DEF spent
      <4> QED
        BY <1>a, <2>1, <2>2, <2>3, BudgetNumbers
    <3> QED
      BY <1>b, <2>4, <3>1 DEF Stage2Budget
  <2>5. CASE pc' = "stage2_make_plan"
    <3>1. st'.planFeedback /\ st'.planRetries < MAX_STAGE2_RETRIES
      BY <2>1, <2>5 DEF RouteEvaluation
    <3>2. PICK verdict :
            st' = [st EXCEPT !.planFeedback = verdict \in {"unjudged", "invalid"},
                             !.planRetries = IF verdict = "valid" THEN 0
                                             ELSE st.planRetries + 1]
      BY <1>5 DEF EvaluateStage2
    <3>3. st'.planRetries = st.planRetries + 1 /\ st'.toolLoops = 0
      BY <1>0, <2>2, <3>1, <3>2 DEF AdvisorState
    <3>4. steps' <= Stage1End + PassSteps * st'.planRetries + 3 * st'.toolLoops + 0
      <4>1. steps' <= Stage1End + PassSteps * (st.planRetries + 1)
        <5>1. PassSteps * st.planRetries \in Nat
          BY <1>0, BudgetNumbers
        <5> QED
          BY <1>a, <2>1, <2>2, <2>3, <5>1, BudgetNumbers
      <4>2. PassSteps * (st.planRetries + 1) \in Nat
        BY <1>0, BudgetNumbers
      <4> QED
        BY <3>3, <4>1, <4>2, BudgetNumbers
    <3> QED
      BY <1>0, <1>b, <2>5, <3>1, <3>3, <3>4 DEF Stage2Budget
  <2> QED
    BY <2>1, <2>4, <2>5 DEF RouteEvaluation
<1>6. ASSUME FormatOutput PROVE BudgetInv'
  <2>1. pc = "format_output" /\ pc' = "idle" /\ steps' \in Nat /\ steps' <= steps + 1
    BY <1>0, <1>6, OneStep DEF FormatOutput
  <2>2. steps' <= Stage2End + 1
    BY <1>0, <2>1, BudgetNumbers DEF BudgetInv, Stage2Budget
  <2>3. ConversationBudget'
    BY <2>1, <2>2 DEF ConversationBudget
  <2> QED
    BY <2>1, <2>3, BudgetOutsideStages DEF PlanningStages
<1> QED
  BY <1>1, <1>2, <1>3, <1>4, <1>5, <1>6

LEMMA BudgetInvInvariant == Spec => []BudgetInv
<1>1. TypeInv /\ TypeInv' /\ GateInv /\ BudgetInv /\ Next => BudgetInv'
  BY TurnBudget, ConversationNodesBudget, Stage1NodesBudget, Stage2NodesBudget DEF Next, Node
<1>2. BudgetInv /\ UNCHANGED vars => BudgetInv'
  BY DEF BudgetInv, ConversationBudget, Stage1Budget, Stage2Budget, vars
<1> QED
  BY InitBudget, <1>1, <1>2, TypeInvInvariant, GateInvInvariant, PTL DEF Spec

\* Whatever the models answer, a turn is over within TurnBound supersteps: the
\* limits on tool calls, retries and tool loops bound every cycle of the graph at
\* once, also when counters are left over from a failed turn.
THEOREM TurnIsBoundedHolds == Spec => []TurnIsBounded
<1>1. TypeInv /\ BudgetInv => TurnIsBounded
  <2> SUFFICES ASSUME TypeInv, BudgetInv PROVE steps <= TurnBound
    BY DEF TurnIsBounded
  <2>1. steps \in Nat /\ pc \in Nodes \union {"idle"}
    BY DEF TypeInv, TypeOK
  <2>2. steps <= Stage2End + 1
    <3>1. CASE pc = "idle"
      BY <3>1 DEF BudgetInv, ConversationBudget
    <3>2. CASE pc \in Nodes
      BY <2>1, <3>2, InTurnBounded, BudgetNumbers DEF TypeInv
    <3> QED
      BY <2>1, <3>1, <3>2
  <2> QED
    BY <2>2, BudgetNumbers
<1> QED
  BY <1>1, TypeInvInvariant, BudgetInvInvariant, PTL

-----------------------------------------------------------------------------
(* The refinement of PlanLedger: the conversation                          *)

\* Ledger!Settle between two states, so that it can be carried through the fold
\* over a batch of tool results.
Settles(s, t) ==
    /\ t.meta \in Meta
    /\ s.meta.key # NoKey => t.meta.key # NoKey
    /\ t.confirmed \in BOOLEAN
    /\ t.confirmed => t.meta.key \in Keys
    /\ t.plan \in {s.plan, NoPlan}
    /\ t.meta # s.meta \/ (t.confirmed /\ ~s.confirmed) => t.plan = NoPlan
    /\ t.handbook \in {s.handbook, NoKey}
    /\ t.meta.key # s.meta.key => t.handbook = NoKey

LEMMA SettlesTransitive ==
    ASSUME NEW s, NEW t, NEW u, Settles(s, t), Settles(t, u)
    PROVE  Settles(s, u)
  BY DEF Settles

LEMMA ApplyMetadataSettles ==
    ASSUME NEW s \in AdvisorState, Sound(s), NEW m \in SanitizedMeta(s)
    PROVE  Settles(s, ApplyMetadata(s, m))
<1>1. m \in Meta /\ (s.meta.key # NoKey => m.key # NoKey)
  BY DEF SanitizedMeta
<1>2. CASE m.key = NoKey
  BY <1>1, <1>2 DEF ApplyMetadata, AdvisorState, Settles
<1>3. CASE m.key # NoKey
  BY <1>1, <1>3 DEF ApplyMetadata, PlanningReset, AdvisorState, Meta, Settles
<1> QED
  BY <1>2, <1>3

\* What any tool result does to the state, the conversation may do.
LEMMA CapturedSettles ==
    ASSUME NEW s \in AdvisorState, Sound(s), NEW call, NEW t \in Captured(s, call)
    PROVE  Settles(s, t)
<1>1. CASE t = s
  BY <1>1 DEF Settles, Sound, AdvisorState
<1>2. CASE t = ChangeInterests(s)
  BY <1>2 DEF ChangeInterests, Settles, Sound, AdvisorState
<1>3. ASSUME NEW m \in SanitizedMeta(s), t = ApplyMetadata(s, m)
      PROVE  Settles(s, t)
  BY <1>3, ApplyMetadataSettles
<1>4. ChangedMeta(s) \subseteq SanitizedMeta(s)
  BY DEF ChangedMeta
<1> QED
  BY <1>1, <1>2, <1>3, <1>4 DEF Captured

-----------------------------------------------------------------------------
(* The refinement of PlanLedger: steps                                     *)

\* What the ledger records, as the graph keeps it.
Recorded == <<st.meta, st.confirmed, st.handbook, st.plan>>

LEMMA InitKeepsLedger == Init => Ledger!Init
  BY DEF Init, Ledger!Init, FreshState, Meta, Ledger!Meta

LEMMA TurnKeepsLedger ==
    TypeInv /\ (Turn \/ TurnFails) => Ledger!Next \/ UNCHANGED Recorded
<1> SUFFICES ASSUME TypeInv, Turn \/ TurnFails
             PROVE  Ledger!Next \/ UNCHANGED Recorded
  OBVIOUS
<1>0. st \in AdvisorState
  BY DEF TypeInv, TypeOK
<1>1. CASE StartSession
  <2>1. Ledger!NewThread
    BY <1>1 DEF StartSession, FreshState, Ledger!NewThread, Meta, Ledger!Meta
  <2> QED
    BY <2>1 DEF Ledger!Next
<1>2. CASE ContinueSession \/ TurnFails
  BY <1>2 DEF ContinueSession, TurnFails, Recorded
<1>3. CASE PasteRecord
  <2>1. Ledger!NewRecord
    BY <1>0, <1>3 DEF PasteRecord, AdvisorState, Ledger!NewRecord, Meta, Ledger!Meta
  <2> QED
    BY <2>1 DEF Ledger!Next
<1> QED
  BY <1>1, <1>2, <1>3 DEF Turn

LEMMA ConversationKeepsLedger ==
    TypeInv /\ GateInv /\ (Agent \/ RunTools \/ CaptureToolResults)
        => Ledger!Next \/ UNCHANGED Recorded
<1> SUFFICES ASSUME TypeInv, GateInv, Agent \/ RunTools \/ CaptureToolResults
             PROVE  Ledger!Next \/ UNCHANGED Recorded
  OBVIOUS
<1>0. st \in AdvisorState /\ Sound(st)
  BY DEF TypeInv, TypeOK, GateInv
<1>1. CASE Agent
  <2>1. \E pending : st' = [st EXCEPT !.pending = pending]
    BY <1>1 DEF Agent, AgentAtLimit, AgentWithoutLookup, AgentLooksUpElectives,
                AgentLookupWithoutTopic, AgentLookupSuppressed, AgentSays
  <2> QED
    BY <1>0, <2>1 DEF AdvisorState, Recorded
<1>2. CASE RunTools
  BY <1>2 DEF RunTools, Recorded
<1>3. CASE CaptureToolResults
  <2>1. PICK s \in Captured(st, calls[1]) :
          st' \in IF Len(calls) = 1 THEN {s} ELSE Captured(s, calls[2])
    BY <1>3 DEF CaptureToolResults
  <2>2. s \in AdvisorState /\ Sound(s) /\ Settles(st, s)
    BY <1>0, <2>1, CapturedSound, CapturedSettles
  <2>3. Settles(st, st')
    BY <2>1, <2>2, CapturedSettles, SettlesTransitive
  <2>4. Ledger!Settle
    BY <2>3 DEF Settles, Ledger!Settle, Meta, Ledger!Meta
  <2> QED
    BY <2>4 DEF Ledger!Next
<1> QED
  BY <1>1, <1>2, <1>3

LEMMA HandbookNodesKeepLedger ==
    TypeInv /\ GateInv /\ (EnsureHandbook \/ HandbookMissing)
        => Ledger!Next \/ UNCHANGED Recorded
<1> SUFFICES ASSUME TypeInv, GateInv, EnsureHandbook \/ HandbookMissing
             PROVE  Ledger!Next \/ UNCHANGED Recorded
  OBVIOUS
<1>0. st \in AdvisorState
  BY DEF TypeInv, TypeOK
<1>1. CASE EnsureHandbook
  <2>1. st.confirmed
    BY <1>1 DEF EnsureHandbook, GateInv, OnRoute
  <2>2. \/ st' = [st EXCEPT !.handbook = st.meta.key]
        \/ st' = [st EXCEPT !.handbook = NoKey, !.planning = FALSE]
    BY <1>1 DEF EnsureHandbook
  <2>3. Ledger!Fetch
    BY <1>0, <2>1, <2>2 DEF Ledger!Fetch, AdvisorState
  <2> QED
    BY <2>3 DEF Ledger!Next
<1>2. CASE HandbookMissing
  <2>1. Ledger!DropPlan
    BY <1>0, <1>2 DEF HandbookMissing, Ledger!DropPlan, AdvisorState
  <2> QED
    BY <2>1 DEF Ledger!Next
<1> QED
  BY <1>1, <1>2

\* At a node behind the gate, storing a plan for the metadata in the state is what
\* the ledger calls writing one, and storing none is dropping it.
LEMMA StageKeepsLedger ==
    ASSUME GateInv, pc \in HandbookNodes,
           st'.meta = st.meta, st'.confirmed = st.confirmed,
           st'.handbook = st.handbook, st'.plan \in {st.plan, st.meta, NoPlan}
    PROVE  Ledger!Next \/ UNCHANGED Recorded
<1>1. CASE st'.plan = st.plan
  BY <1>1 DEF Recorded
<1>2. CASE st'.plan = st.meta
  <2>1. st.confirmed /\ st.meta.key \in Keys /\ st.handbook = st.meta.key
    BY DEF GateInv, HandbookGate
  <2>2. Ledger!WritePlan
    BY <1>2, <2>1 DEF Ledger!WritePlan
  <2> QED
    BY <2>2 DEF Ledger!Next
<1>3. CASE st'.plan = NoPlan
  <2>1. Ledger!DropPlan
    BY <1>3 DEF Ledger!DropPlan
  <2> QED
    BY <2>1 DEF Ledger!Next
<1> QED
  BY <1>1, <1>2, <1>3

LEMMA Stage1KeepsLedger ==
    TypeInv /\ GateInv
    /\ \/ StartPlanning \/ FetchElectiveList \/ PopulatePlanElectives
       \/ GenerateCoreSubjects \/ EvaluateStage1
    => Ledger!Next \/ UNCHANGED Recorded
<1> SUFFICES ASSUME TypeInv, GateInv
             PROVE  \/ StartPlanning \/ FetchElectiveList \/ PopulatePlanElectives
                    \/ GenerateCoreSubjects \/ EvaluateStage1
                    => Ledger!Next \/ UNCHANGED Recorded
  OBVIOUS
<1> DEFINE Keeps == /\ st'.meta = st.meta /\ st'.confirmed = st.confirmed
                    /\ st'.handbook = st.handbook
                    /\ st'.plan \in {st.plan, st.meta, NoPlan}
<1>0. st \in AdvisorState
  BY DEF TypeInv, TypeOK
<1>1. ASSUME StartPlanning PROVE pc \in HandbookNodes /\ Keeps
  <2>1. PICK outcome \in {"valid", "refused", "error"} : st' = StartPlanningUpdate(outcome)
    BY <1>1 DEF StartPlanning
  <2>2. Keeps
    BY <1>0, <2>1 DEF StartPlanningUpdate, PlanningReset, AdvisorState
  <2> QED
    BY <1>1, <2>2 DEF StartPlanning, HandbookNodes
<1>2. ASSUME FetchElectiveList PROVE pc \in HandbookNodes /\ Keeps
  BY <1>0, <1>2 DEF FetchElectiveList, HandbookNodes, AdvisorState
<1>3. ASSUME PopulatePlanElectives PROVE pc \in HandbookNodes /\ Keeps
  <2>1. \/ st' = st
        \/ st' = [st EXCEPT !.pending = "recommend"]
        \/ st' = [st EXCEPT !.pending = "none", !.plan = st.meta]
        \/ st' = [st EXCEPT !.pending = "none", !.plan = NoPlan]
    BY <1>3 DEF PopulatePlanElectives
  <2>2. Keeps
    BY ZenonT(90), <1>0, <2>1 DEF AdvisorState
  <2> QED
    BY <1>3, <2>2 DEF PopulatePlanElectives, HandbookNodes
<1>4. ASSUME GenerateCoreSubjects PROVE pc \in HandbookNodes /\ Keeps
  BY <1>0, <1>4 DEF GenerateCoreSubjects, HandbookNodes, PlanningStages, AdvisorState
<1>5. ASSUME EvaluateStage1 PROVE pc \in HandbookNodes /\ Keeps
  BY <1>0, <1>5 DEF EvaluateStage1, HandbookNodes, PlanningStages, AdvisorState
<1> QED
  BY <1>1, <1>2, <1>3, <1>4, <1>5, StageKeepsLedger

LEMMA Stage2KeepsLedger ==
    TypeInv /\ GateInv
    /\ \/ MakePlanCallsTools \/ MakePlanAnswers \/ Stage2Tools
       \/ CaptureStage2ToolResults \/ EvaluateStage2 \/ FormatOutput
    => Ledger!Next \/ UNCHANGED Recorded
<1> SUFFICES ASSUME TypeInv, GateInv
             PROVE  \/ MakePlanCallsTools \/ MakePlanAnswers \/ Stage2Tools
                    \/ CaptureStage2ToolResults \/ EvaluateStage2 \/ FormatOutput
                    => Ledger!Next \/ UNCHANGED Recorded
  OBVIOUS
<1> DEFINE Keeps == /\ st'.meta = st.meta /\ st'.confirmed = st.confirmed
                    /\ st'.handbook = st.handbook
                    /\ st'.plan \in {st.plan, st.meta, NoPlan}
<1> USE DEF HandbookNodes, PlanningStages
<1>0. st \in AdvisorState
  BY DEF TypeInv, TypeOK
<1>1. ASSUME MakePlanCallsTools \/ Stage2Tools PROVE pc \in HandbookNodes /\ Keeps
  BY <1>1 DEF MakePlanCallsTools, Stage2Tools
<1>2. ASSUME MakePlanAnswers PROVE pc \in HandbookNodes /\ Keeps
  BY <1>0, <1>2 DEF MakePlanAnswers, AdvisorState
<1>3. ASSUME CaptureStage2ToolResults PROVE pc \in HandbookNodes /\ Keeps
  BY <1>0, <1>3 DEF CaptureStage2ToolResults, AdvisorState
<1>4. ASSUME EvaluateStage2 PROVE pc \in HandbookNodes /\ Keeps
  BY <1>0, <1>4 DEF EvaluateStage2, AdvisorState
<1>5. ASSUME FormatOutput PROVE pc \in HandbookNodes /\ Keeps
  BY <1>0, <1>5 DEF FormatOutput, AdvisorState
<1> QED
  BY <1>1, <1>2, <1>3, <1>4, <1>5, StageKeepsLedger

-----------------------------------------------------------------------------
\* The graph implements the ledger: through any turns, tool batches, retries and
\* failures, a plan is only written for confirmed metadata from the handbook of that
\* programme, and metadata, confirmation, handbook and plan move together.
THEOREM KeepsLedgerHolds == Spec => KeepsLedger
<1>1. TypeInv /\ GateInv /\ [Next]_vars => [Ledger!Next]_Recorded
  <2>1. TypeInv /\ GateInv /\ Next => Ledger!Next \/ UNCHANGED Recorded
    BY TurnKeepsLedger, ConversationKeepsLedger, HandbookNodesKeepLedger,
       Stage1KeepsLedger, Stage2KeepsLedger DEF Next, Node
  <2>2. UNCHANGED vars => UNCHANGED Recorded
    BY DEF vars, Recorded
  <2> QED
    BY <2>1, <2>2
<1>2. [Ledger!Next]_Recorded => [Ledger!Next]_(Ledger!ledger)
  BY DEF Recorded, Ledger!ledger
<1> QED
  BY InitKeepsLedger, <1>1, <1>2, TypeInvInvariant, GateInvInvariant, PTL
     DEF Spec, KeepsLedger, Ledger!Spec
=============================================================================
