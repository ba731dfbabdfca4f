----------------------------- MODULE PlanLedger -----------------------------
(***************************************************************************)
(* What the advisor promises of one conversation, whatever its nodes and   *)
(* models do in between: a plan is only ever written for confirmed         *)
(* metadata, from the handbook of exactly that programme, and is gone as   *)
(* soon as the metadata is another.                                        *)
(***************************************************************************)
CONSTANTS Keys, Details, NoKey, NoPlan

VARIABLES meta, confirmed, handbook, plan

ledger == <<meta, confirmed, handbook, plan>>

Meta == [key : Keys \union {NoKey}, detail : Details]

\* A thread begins with what a record or plain words say, and knows nothing else.
Init ==
    /\ meta \in Meta
    /\ confirmed = FALSE
    /\ handbook = NoKey
    /\ plan = NoPlan

\* The thread of a failed first turn is given up for another one.
NewThread ==
    /\ meta' \in Meta
    /\ confirmed' = FALSE
    /\ handbook' = NoKey
    /\ plan' = NoPlan

\* A pasted record replaces the metadata, which must be confirmed again.
NewRecord ==
    /\ meta' \in Meta
    /\ confirmed' = FALSE
    /\ plan' = NoPlan
    /\ UNCHANGED handbook

\* The conversation confirms, changes or withdraws metadata: a known programme is
\* never forgotten, only a whole one is confirmed, and neither a plan nor a handbook
\* goes over to another programme.
Settle ==
    /\ meta' \in Meta
    /\ meta.key # NoKey => meta'.key # NoKey
    /\ confirmed' \in BOOLEAN
    /\ confirmed' => meta'.key \in Keys
    /\ plan' \in {plan, NoPlan}
    /\ meta' # meta \/ (confirmed' /\ ~confirmed) => plan' = NoPlan
    /\ handbook' \in {handbook, NoKey}
    /\ meta'.key # meta.key => handbook' = NoKey

\* A handbook is fetched for the confirmed programme, or found missing.
Fetch ==
    /\ confirmed
    /\ handbook' \in {meta.key, NoKey}
    /\ UNCHANGED <<meta, confirmed, plan>>

WritePlan ==
    /\ confirmed
    /\ meta.key \in Keys
    /\ handbook = meta.key
    /\ plan' = meta
    /\ UNCHANGED <<meta, confirmed, handbook>>

\* A new run or a failed one leaves no plan.
DropPlan ==
    /\ plan' = NoPlan
    /\ UNCHANGED <<meta, confirmed, handbook>>

Next == NewThread \/ NewRecord \/ Settle \/ Fetch \/ WritePlan \/ DropPlan

Spec == Init /\ [][Next]_ledger
=============================================================================
