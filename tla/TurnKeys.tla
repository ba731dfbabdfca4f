------------------------------ MODULE TurnKeys ------------------------------
(***************************************************************************)
(* The key a chat turn runs on: CredentialResolver.resolve() as            *)
(* start_session, continue_session and generate_title call it, the turn on *)
(* the key it found (AgentChatService._invoke), and the key and model the  *)
(* chat_session row keeps for the next turn.                               *)
(*                                                                         *)
(* A turn reads the keys several times and then runs for minutes, while    *)
(* the student adds, replaces, prefers and deletes keys.  What the vault's *)
(* own requests do to each other is left to KeyVault: here each is one     *)
(* step.                                                                   *)
(***************************************************************************)
EXTENDS Naturals, FiniteSets, FiniteSetsExt

CONSTANTS
    Keys,            \* credential ids, numbered in the order of their creation
    ProviderOf,      \* the provider of each key
    Models,          \* [provider, name]
    DefaultModel,    \* DEFAULT_MODEL_BY_PROVIDER
    ProjectModel,    \* settings.GEMINI_MODEL, a model of the project's provider
    Fallback,        \* ALLOW_SYSTEM_FALLBACK_KEY, with a key of the project's own
    Turns,           \* concurrent requests
    NoKey, NoModel, NoSession

Providers == {m.provider : m \in Models}

ASSUME KeysAssumption ==
    /\ Keys \subseteq Nat
    /\ ProviderOf \in [Keys -> Providers]
    /\ NoKey \notin Keys
    /\ Fallback \in BOOLEAN

ASSUME ModelsAssumption ==
    /\ DefaultModel \in [Providers -> Models]
    /\ \A p \in Providers : DefaultModel[p].provider = p
    /\ ProjectModel \in Models
    /\ NoModel \notin Models

VARIABLES
    drawn,     \* the keys created so far
    there,     \* the llm_credential rows
    active,    \* those whose status is active
    default,   \* those with is_default
    session,   \* the model and credential of the chat_session row
    turn,      \* what each request is doing
    kept       \* history: the key of the last turn that was answered, while it has
               \* been active ever since and no turns overlapped

vars == <<drawn, there, active, default, session, turn, kept>>

keys == <<drawn, there, active, default>>

\* The provider column is left out: nothing reads it.
Sessions == [model: Models, key: Keys \cup {NoKey}]

ASSUME AbsentAssumption == NoSession \notin Sessions

Answers == {"none", "ok", "addKey", "rejected", "unreadable", "keyRejected", "failed"}

Idle(answer) ==
    [pc |-> "idle", title |-> FALSE, asked |-> NoModel, loaded |-> NoSession,
     model |-> NoModel, key |-> NoKey, answer |-> answer, alone |-> TRUE,
     steady |-> {}, preferred |-> {}]

TurnStates ==
    [pc: {"idle", "active", "other", "again", "refuse", "reveal", "graph", "save"},
     title: BOOLEAN, asked: Models \cup {NoModel}, loaded: Sessions \cup {NoSession},
     model: Models \cup {NoModel}, key: Keys \cup {NoKey}, answer: Answers,
     alone: BOOLEAN, steady: SUBSET Keys, preferred: SUBSET Keys]

TypeOK ==
    /\ active \cup default \subseteq there /\ there \subseteq drawn /\ drawn \subseteq Keys
    /\ session \in Sessions \cup {NoSession}
    /\ kept \in Keys \cup {NoKey}
    /\ turn \in [Turns -> TurnStates]
    /\ \A t \in Turns : turn[t].preferred \subseteq turn[t].steady

Init ==
    /\ drawn = {} /\ there = {} /\ active = {} /\ default = {}
    /\ session = NoSession
    /\ turn = [t \in Turns |-> Idle("none")]
    /\ kept = NoKey

-----------------------------------------------------------------------------
(* Keys                                                                    *)

Of(p) == {k \in there : ProviderOf[k] = p}
Running(t) == turn[t].pc # "idle"

\* The history of each turn, as the keys change: the keys that have been active, and
\* those that have been active and default, ever since it began.
Watched(act, def) ==
    [t \in Turns |->
        IF Running(t)
        THEN [turn[t] EXCEPT !.steady = @ \cap act, !.preferred = @ \cap act \cap def]
        ELSE turn[t]]

\* The keys become these, and all the turns see it from now on.
KeysBecome(rows, act, def) ==
    /\ there' = rows /\ active' = act /\ default' = def
    /\ turn' = Watched(act, def)
    /\ kept' = IF kept \in act THEN kept ELSE NoKey

\* create_key: the first key for a provider is the default whether asked or not.
CreateKey ==
    /\ \E k \in Keys \ drawn, makeDefault \in BOOLEAN :
        /\ \A j \in Keys : j < k /\ ProviderOf[j] = ProviderOf[k] => j \in drawn
        /\ drawn' = drawn \cup {k}
        /\ KeysBecome(there \cup {k}, active \cup {k},
                      IF makeDefault \/ Of(ProviderOf[k]) = {}
                      THEN (default \ Of(ProviderOf[k])) \cup {k} ELSE default)
    /\ UNCHANGED session

\* update_key and verify_stored_key, where they change anything that is kept here.
PreferKey ==
    /\ \E k \in there \ default :
        KeysBecome(there, active, (default \ Of(ProviderOf[k])) \cup {k})
    /\ UNCHANGED <<drawn, session>>

ReplaceKey ==
    /\ \E k \in there \ active : KeysBecome(there, active \cup {k}, default)
    /\ UNCHANGED <<drawn, session>>

CheckRefusesKey ==
    /\ \E k \in active : KeysBecome(there, active \ {k}, default)
    /\ UNCHANGED <<drawn, session>>

\* _promote_replacement: the oldest active key that is left for the provider.
Heirs(k) ==
    LET others == (active \cap Of(ProviderOf[k])) \ {k}
    IN  IF k \in default /\ others # {} THEN {Min(others)} ELSE {}

\* delete_key; the row of the session lets go of the key (ON DELETE SET NULL).
DeleteKey ==
    /\ \E k \in there :
        /\ KeysBecome(there \ {k}, active \ {k}, (default \ {k}) \cup Heirs(k))
        /\ session' = IF session # NoSession /\ session.key = k
                      THEN [session EXCEPT !.key = NoKey] ELSE session
    /\ UNCHANGED drawn

-----------------------------------------------------------------------------
(* resolve()                                                               *)

\* start_session, or continue_session and generate_title once they have loaded the
\* row; the session followed here is the student's only one.  A title is generated on
\* whatever key the student would get without a session.  Bound: it is generated while
\* no turn runs, since it reads and writes nothing that a turn writes.
Begin(t) ==
    /\ ~Running(t)
    /\ \E title \in BOOLEAN, asked \in Models \cup {NoModel} :
        /\ title => session # NoSession /\ asked = NoModel
        /\ title \/ session = NoSession => \A u \in Turns : ~Running(u)
        /\ \A u \in Turns : ~(Running(u) /\ turn[u].title)
        /\ turn' = [u \in Turns |->
            IF u = t
            THEN LET loaded == IF title THEN NoSession ELSE session
                 IN  [Idle("none") EXCEPT
                        !.pc = "active", !.title = title, !.asked = asked,
                        !.loaded = loaded,
                        !.model = CASE asked # NoModel -> asked
                                    [] asked = NoModel /\ loaded # NoSession -> loaded.model
                                    [] OTHER -> ProjectModel,
                        !.alone = \A v \in Turns : ~Running(v),
                        !.steady = active, !.preferred = active \cap default]
            ELSE [turn[u] EXCEPT !.alone = @ /\ ~Running(u)]]
    /\ UNCHANGED <<keys, session, kept>>

Goto(t, pc) == turn' = [turn EXCEPT ![t].pc = pc]
Ends(t, answer) == turn' = [turn EXCEPT ![t] = Idle(answer)]

\* Slip: keys of any provider are candidates.
ActiveForAny(p) == active
ActiveFor(p) == active \cap Of(p)

\* The pinned key if it is a candidate, else default first, then oldest.
Choose(candidates, pinned) ==
    CASE pinned \in candidates -> pinned
      [] pinned \notin candidates /\ candidates \cap default # {} ->
            Min(candidates \cap default)
      [] OTHER -> Min(candidates)

Pinned(t) == IF turn[t].loaded = NoSession THEN NoKey ELSE turn[t].loaded.key

AfterNoCandidate(t) ==
    IF Fallback /\ turn[t].model.provider = ProjectModel.provider THEN "graph" ELSE "refuse"

\* Candidates were read: the key is chosen among them, or the project's is used.
Settle(t) ==
    LET candidates == ActiveFor(turn[t].model.provider)
    IN  turn' = [turn EXCEPT
            ![t].pc = IF candidates # {} THEN "reveal" ELSE AfterNoCandidate(t),
            ![t].key = IF candidates # {} THEN Choose(candidates, Pinned(t)) ELSE NoKey]

ReadActive(t) ==
    /\ turn[t].pc = "active"
    /\ IF ActiveFor(turn[t].model.provider) = {} /\ turn[t].asked = NoModel
       THEN Goto(t, "other")
       ELSE Settle(t)
    /\ UNCHANGED <<keys, session, kept>>

\* Nobody asked for this model: with keys for exactly one other provider, use that.
ReadOther(t) ==
    /\ turn[t].pc = "other"
    /\ LET others == {ProviderOf[k] : k \in active} \ {turn[t].model.provider}
       IN  IF Cardinality(others) = 1
           THEN \E p \in others :
                    turn' = [turn EXCEPT ![t].pc = "again", ![t].model = DefaultModel[p]]
           ELSE Goto(t, AfterNoCandidate(t))
    /\ UNCHANGED <<keys, session, kept>>

ReadAgain(t) ==
    /\ turn[t].pc = "again"
    /\ Settle(t)
    /\ UNCHANGED <<keys, session, kept>>

\* NoCredentialError, worded by whether there is any key for the provider.
Refuse(t) ==
    /\ turn[t].pc = "refuse"
    /\ Ends(t, IF Of(turn[t].model.provider) # {} THEN "rejected" ELSE "addKey")
    /\ UNCHANGED <<keys, session, kept>>

\* The secret store or the master key may fail.
Reveal(t) ==
    /\ turn[t].pc = "reveal"
    /\ Goto(t, "graph") \/ Ends(t, "unreadable")
    /\ UNCHANGED <<keys, session, kept>>

-----------------------------------------------------------------------------
(* The turn                                                                *)

\* Any node or the database may fail.
Fail(t) ==
    /\ Running(t)
    /\ Ends(t, "failed")
    /\ UNCHANGED <<keys, session, kept>>

\* A title is not saved, and its model is not called through _invoke().
EndTurn(t) ==
    /\ turn[t].pc = "graph"
    /\ IF turn[t].title THEN Ends(t, "ok") ELSE Goto(t, "save")
    /\ UNCHANGED <<keys, session, kept>>

\* The provider refuses the key: mark_rejected(), and StaleDataError if it is gone.
KeyRejected(t) ==
    /\ turn[t].pc = "graph"
    /\ turn[t].key # NoKey /\ ~turn[t].title
    /\ LET act == active \ {turn[t].key}
       IN  /\ active' = act
           /\ turn' = [Watched(act, default) EXCEPT
                        ![t] = Idle(IF turn[t].key \in there THEN "keyRejected" ELSE "failed")]
           /\ kept' = IF kept \in act THEN kept ELSE NoKey
    /\ UNCHANGED <<drawn, there, default, session>>

Outcome(t) == [model |-> turn[t].model, key |-> turn[t].key]

\* What the turn writes: the whole row of a new session; of a loaded one the
\* attributes that differ from those loaded.
\* Slip: a session that goes on with the same model is left alone.
WrittenOnSwitch(t) ==
    CASE turn[t].loaded = NoSession -> DOMAIN Outcome(t)
      [] turn[t].loaded # NoSession /\ turn[t].loaded.model = turn[t].model -> {}
      [] OTHER -> {f \in DOMAIN Outcome(t) : turn[t].loaded[f] # Outcome(t)[f]}

Written(t) ==
    IF turn[t].loaded = NoSession
    THEN DOMAIN Outcome(t)
    ELSE {f \in DOMAIN Outcome(t) : turn[t].loaded[f] # Outcome(t)[f]}

\* A credential that is gone by now fails the foreign key.
Dangling(t) == "key" \in Written(t) /\ turn[t].key \notin there \cup {NoKey}

Save(t) ==
    /\ turn[t].pc = "save"
    /\ ~Dangling(t)
    /\ session' = [f \in DOMAIN Outcome(t) |->
                    IF f \in Written(t) THEN Outcome(t)[f] ELSE session[f]]
    /\ Ends(t, "ok")
    /\ kept' = IF turn[t].alone /\ turn[t].key \in active THEN turn[t].key ELSE NoKey
    /\ UNCHANGED keys

SaveFails(t) ==
    /\ turn[t].pc = "save"
    /\ Dangling(t)
    /\ Ends(t, "failed")
    /\ UNCHANGED <<keys, session, kept>>

-----------------------------------------------------------------------------

Vault == CreateKey \/ PreferKey \/ ReplaceKey \/ CheckRefusesKey \/ DeleteKey

Resolve(t) == Begin(t) \/ ReadActive(t) \/ ReadOther(t) \/ ReadAgain(t) \/ Refuse(t)
              \/ Reveal(t)

Run(t) == EndTurn(t) \/ KeyRejected(t) \/ Save(t) \/ SaveFails(t) \/ Fail(t)

Next == Vault \/ \E t \in Turns : Resolve(t) \/ Run(t)

Spec == Init /\ [][Next]_vars

-----------------------------------------------------------------------------
(* Properties                                                              *)

\* The model the turn was asked to run, or would run if there were a key for it.
Wanted(t) ==
    CASE turn[t].asked # NoModel -> turn[t].asked
      [] turn[t].asked = NoModel /\ turn[t].loaded # NoSession -> turn[t].loaded.model
      [] OTHER -> ProjectModel

\* The key has just been chosen, among the student's or for want of any.
Chosen(t) == turn[t].pc = "reveal"
OnProjectKey(t) == turn[t].pc = "graph" /\ turn[t].key = NoKey
Fits(k, model) == ProviderOf[k] = model.provider

\* No key is sent to another provider (registry.py:3), whatever is switched and
\* changed between the reads of resolve(): a turn runs the model it was asked for by
\* name, on a key of that model's provider; the project's key runs its own models
\* only (test_vault_logic.py:210).
KeyFitsModel ==
    \A t \in Turns :
        /\ Chosen(t) => Fits(turn[t].key, turn[t].model)
        /\ OnProjectKey(t) => turn[t].model.provider = ProjectModel.provider
        /\ Chosen(t) \/ OnProjectKey(t) => turn[t].asked \in {NoModel, turn[t].model}

\* "A student's own key outranks the fallback" (test_vault_logic.py:221), and nobody
\* who has a key is told to get one: the project's key is used and a turn is refused
\* only if no key of the provider asked for, nor of the one switched to, was active
\* all the time.
OwnKeyFirst ==
    \A t \in Turns :
        OnProjectKey(t) \/ turn[t].pc = "refuse" =>
            \A k \in turn[t].steady : ~Fits(k, turn[t].model) /\ ~Fits(k, Wanted(t))

\* "The student's default key for the model's provider" (credential_resolver.py:6): a
\* key that was the default all the time yields only to the one pinned on the session.
PreferredWins ==
    \A t \in Turns : Chosen(t) =>
        \A d \in turn[t].preferred :
            Fits(d, turn[t].model) => turn[t].key \in {d, Pinned(t)}

\* "A long chat keeps using one key even if the student changes their default"
\* (models/session.py:27): a turn runs on the key of the turn before, if that has
\* been active ever since, turns did not overlap, and no model of another provider
\* is asked for.
OneKeyThroughout ==
    \A t \in Turns :
        /\ Chosen(t) \/ OnProjectKey(t)
        /\ ~turn[t].title
        /\ kept # NoKey /\ Fits(kept, Wanted(t))
        => turn[t].key = kept

\* The order of resolve(), for any changes of the keys between its reads: the key of
\* the session, then the default, then any other of the student's, then the project's.
OrderOfKeys == OneKeyThroughout /\ PreferredWins /\ OwnKeyFirst

-----------------------------------------------------------------------------
(* What the repository says and the code does not do.                      *)

\* "Keep the session in step" (agent_chat_service.py:339): its credential runs its
\* model.  When turns overlap, each writes only the columns it changes.
PinFitsModel ==
    session # NoSession /\ session.key # NoKey => Fits(session.key, session.model)

\* "Nobody asked for this model by name" (credential_resolver.py:77) is also said of
\* a model that was asked for in an earlier turn of the session.
NamedModelIsKept ==
    \A t \in Turns :
        /\ Chosen(t) /\ turn[t].loaded # NoSession /\ turn[t].asked = NoModel
        /\ turn[t].loaded.model \notin {ProjectModel} \cup {DefaultModel[p] : p \in Providers}
        => turn[t].model = turn[t].loaded.model

\* "Your key was rejected the last time we used it" (credential_resolver.py:43) is
\* said only when a key of the provider is.
RejectedWasRejected ==
    [][\A t \in Turns :
        Refuse(t) /\ turn'[t].answer = "rejected"
            => Of(turn[t].model.provider) \ active # {}]_vars

\* "Telling them which provider needs a key" (credential_resolver.py:9): the one of
\* the model asked for, not one switched to whose key has been deleted since.
RefusalNamesWanted ==
    \A t \in Turns : turn[t].pc = "refuse" => turn[t].model.provider = Wanted(t).provider

\* A session outlives its key (ON DELETE SET NULL, models/session.py:31): deleting the
\* key during a turn does not cost the turn's answer, nor the session.
DeletionCostsNoAnswer == \A t \in Turns : turn[t].pc = "save" => ~Dangling(t)

\* OneKeyThroughout for the title of the chat.
TitleOnSessionKey ==
    \A t \in Turns :
        Chosen(t) /\ turn[t].title /\ kept # NoKey /\ session.key = kept
            => turn[t].key = kept
=============================================================================
