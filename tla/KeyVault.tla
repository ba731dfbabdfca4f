------------------------------ MODULE KeyVault ------------------------------
(***************************************************************************)
(* The vault of one student's keys for one provider:                       *)
(* app/services/vault_service.py over the llm_credential table and the     *)
(* secret stores, with the chat turns that use a stored key and report its *)
(* rejection.  Several requests run at once, each in a database session    *)
(* and transaction of its own (READ COMMITTED); one action is the work     *)
(* between two awaits that another request can see.                        *)
(*                                                                         *)
(* A session keeps the attributes of a row as it first read them, and a    *)
(* flush writes only the attributes whose value differs from the one read. *)
(* Written rows stay locked until the transaction ends.                    *)
(*                                                                         *)
(* Left out: the audit trail, timestamps, envelope encryption, and the     *)
(* requests that end before they change anything (an unknown key, a key    *)
(* that visibly belongs to another provider, one the provider refuses).    *)
(***************************************************************************)
EXTENDS FiniteSets

CONSTANTS
    Keys,           \* credential ids, each drawn at most once
    Materials,      \* the API keys a student may paste
    Labels,
    Requests,       \* concurrent requests
    Backends,       \* SECRET_BACKEND over time, a part of {"local", "infisical"}
    VerifyOnWrite,  \* settings.VAULT_VERIFY_ON_WRITE
    NoRow, NoMaterial, NoKey, NoLabel

ASSUME SettingsAssumption ==
    /\ Backends \subseteq {"local", "infisical"}
    /\ VerifyOnWrite \in BOOLEAN

ASSUME AbsentAssumption ==
    /\ NoMaterial \notin Materials
    /\ NoKey \notin Keys
    /\ NoLabel \notin Labels

VARIABLES
    rows,      \* the committed llm_credential rows
    secrets,   \* what Infisical holds under the name of each credential
    refused,   \* the API keys the provider refuses by now
    req,       \* what each request is doing, with its uncommitted writes
    drawn,     \* the ids uuid4() has produced
    casualties,\* history: keys on which a request failed after calling Infisical
    contended  \* history: keys on which two requests overlapped

vars == <<rows, secrets, refused, req, drawn, casualties, contended>>

Rows == [label: Labels, shown: Materials, sealed: Materials \cup {NoMaterial},
         backend: Backends, default: BOOLEAN, status: {"active", "invalid"}]

ASSUME NoRowAssumption == NoRow \notin Rows

Answers == {"none", "ok", "duplicate", "notDeleted", "failed"}

Steps == {"idle", "insert", "forget", "put", "flush", "scan", "clear", "commit",
          "erase", "remove", "ask", "record"}

\* The rows a transaction has written and not committed.
Writes == UNION {[S -> Rows \cup {NoRow}] : S \in SUBSET Keys}
NoWrites == [k \in {} |-> NoRow]

Idle(answer) ==
    [op |-> "none", pc |-> "idle", key |-> NoKey, loaded |-> NoRow,
     material |-> NoMaterial, label |-> NoLabel, makeDefault |-> FALSE,
     heir |-> NoKey, accepted |-> FALSE, seen |-> {}, writes |-> NoWrites, answer |-> answer]

RequestStates ==
    [op: {"none", "create", "update", "delete", "check", "chat"}, pc: Steps,
     key: Keys \cup {NoKey}, loaded: Rows \cup {NoRow},
     material: Materials \cup {NoMaterial}, label: Labels \cup {NoLabel},
     makeDefault: BOOLEAN, heir: Keys \cup {NoKey}, accepted: BOOLEAN,
     seen: SUBSET Keys, writes: Writes, answer: Answers]

TypeOK ==
    /\ rows \in [Keys -> Rows \cup {NoRow}]
    /\ secrets \in [Keys -> Materials \cup {NoMaterial}]
    /\ refused \subseteq Materials
    /\ drawn \subseteq Keys
    /\ casualties \subseteq Keys
    /\ contended \subseteq Keys
    /\ req \in [Requests -> RequestStates]

Init ==
    /\ rows = [k \in Keys |-> NoRow]
    /\ secrets = [k \in Keys |-> NoMaterial]
    /\ refused = {}
    /\ req = [r \in Requests |-> Idle("none")]
    /\ drawn = {}
    /\ casualties = {}
    /\ contended = {}

-----------------------------------------------------------------------------
(* Rows, secrets, locks                                                    *)

Exists(k) == rows[k] # NoRow
InFlight(k) == \E r \in Requests : req[r].key = k
Active(k) == Exists(k) /\ rows[k].status = "active"
IsDefault(k) == Exists(k) /\ rows[k].default

\* The secret a row leads to: reveal().
Stored(k) == IF rows[k].backend = "local" THEN rows[k].sealed ELSE secrets[k]

\* The value of a row as other transactions see it, and as its writer does.
Versions(q, k) == {rows[k], req[q].writes[k]} \ {NoRow}

\* uq_llm_credential_label and uq_llm_credential_default against committed rows
\* that this transaction has not rewritten.
LabelTaken(r, label) ==
    \E k \in Keys \ (DOMAIN req[r].writes \cup {req[r].key}) :
        Exists(k) /\ rows[k].label = label
NoDefaultIndex(r, key) == FALSE  \* slip: the partial unique index is missing
DefaultTaken(r, key) ==
    \E k \in Keys \ (DOMAIN req[r].writes \cup {key}) : IsDefault(k)

\* The attributes update_key sets on the row it has loaded.
Rotates(r) == req[r].material # NoMaterial
Relabels(r) == req[r].label # NoLabel

\* Slip: a replaced key keeps the rejection of the one before.
KeepsRejection(r) ==
    IF Rotates(r) THEN [req[r].loaded EXCEPT !.shown = req[r].material]
                  ELSE req[r].loaded

Rewritten(r) ==
    LET old == req[r].loaded
        relabelled == IF Relabels(r) THEN [old EXCEPT !.label = req[r].label] ELSE old
    IN  IF Rotates(r)
        THEN [relabelled EXCEPT !.shown = req[r].material, !.status = "active"]
        ELSE relabelled

\* A flush of the loaded row: only what differs from the values read is written.
Flushed(r, target) ==
    [f \in DOMAIN target |->
        IF target[f] = req[r].loaded[f] THEN rows[req[r].key][f] ELSE target[f]]

\* Sealing draws a fresh nonce, so a sealed key always differs.
FlushedUpdate(r) ==
    LET written == Flushed(r, Rewritten(r))
    IN  IF Rotates(r) /\ written.backend = "local"
        THEN [written EXCEPT !.sealed = req[r].material]
        ELSE written

\* The row this transaction makes the default as it commits, if that is a change.
NewDefault(r) ==
    CASE req[r].op = "create" /\ req[r].makeDefault -> {req[r].key}
      [] req[r].op = "update" /\ req[r].makeDefault /\ ~req[r].loaded.default -> {req[r].key}
      [] req[r].op = "delete" /\ req[r].heir # NoKey -> {req[r].heir}
      [] OTHER -> {}

\* A verdict is written when it differs from the status read; an acceptance
\* always sets last_verified_at.
WritesVerdict(r) ==
    req[r].accepted \/ req[r].loaded.status # "invalid"

\* The rows a step must lock, and whether it has to know about others' labels
\* and defaults to pass the unique indexes.
Needs(r) ==
    CASE req[r].pc = "flush" /\ (Rotates(r) \/ Relabels(r)) -> {req[r].key}
      [] req[r].pc = "clear" -> req[r].seen
      [] req[r].pc = "remove" -> {req[r].key}
      [] req[r].pc = "commit" -> NewDefault(r)
      [] req[r].pc = "record" /\ WritesVerdict(r) -> {req[r].key}
      [] OTHER -> {}

ChecksLabel(r) == req[r].pc = "insert" \/ (req[r].pc = "flush" /\ Relabels(r))
ChecksDefault(r) == req[r].pc = "commit" /\ NewDefault(r) # {}

\* The transactions a step has to wait for.
WaitsFor(r) ==
    {q \in Requests \ {r} : \E k \in DOMAIN req[q].writes :
        \/ k \in Needs(r)
        \/ ChecksLabel(r) /\ \E v \in Versions(q, k) : v.label = req[r].label
        \/ ChecksDefault(r) /\ \E v \in Versions(q, k) : v.default}

At(r, op, pc) == req[r].op = op /\ req[r].pc = pc /\ WaitsFor(r) = {}

\* A request that has loaded the row of k.
OnRow(k, op, pc) ==
    [Idle("none") EXCEPT !.op = op, !.pc = pc, !.key = k, !.loaded = rows[k]]

Goto(r, pc) == req' = [req EXCEPT ![r].pc = pc]
TurnsToForget(r, answer) ==
    req' = [req EXCEPT ![r].pc = "forget", ![r].writes = NoWrites, ![r].answer = answer]
Ends(r, answer) == req' = [req EXCEPT ![r] = Idle(answer)]

-----------------------------------------------------------------------------
(* Calls to Infisical                                                      *)

\* A call takes effect and answers, takes effect though its answer is lost, or
\* does neither.  The local store makes no call and cannot fail.
Outcomes(backend) ==
    IF backend = "local" THEN {"done"} ELSE {"done", "unanswered", "undone"}

\* The secret of k after a call with this outcome that puts m there.
Held(backend, k, m, outcome) ==
    IF backend = "local" \/ outcome = "undone"
    THEN secrets
    ELSE [secrets EXCEPT ![k] = m]

\* Has this request changed anything at Infisical?
CalledStore(r) ==
    /\ req[r].loaded.backend = "infisical"
    /\ \/ req[r].op = "create"
       \/ req[r].op = "update" /\ Rotates(r) /\ req[r].pc # "put"
       \/ req[r].op = "delete" /\ req[r].pc # "erase"

Fails(r, answer) ==
    /\ Ends(r, answer)
    /\ casualties' = IF CalledStore(r) THEN casualties \cup {req[r].key} ELSE casualties
    /\ UNCHANGED <<rows, secrets, refused, drawn>>

\* The request's call to Infisical failed.
StoreFails(r, k, outcome, answer) ==
    /\ outcome # "done"
    /\ Ends(r, answer)
    /\ casualties' = IF outcome = "unanswered" THEN casualties \cup {k} ELSE casualties

-----------------------------------------------------------------------------
(* create_key: verify, look for another key, store the secret, insert the  *)
(* row, replace the default, commit; forget the secret if that fails.      *)

NewRow(label, m, backend) ==
    [label |-> label, shown |-> m, backend |-> backend,
     sealed |-> IF backend = "local" THEN m ELSE NoMaterial,
     default |-> FALSE, status |-> "active"]

\* The first key becomes the default unasked.
Creation(k, row, makeDefault) ==
    [Idle("none") EXCEPT !.op = "create", !.pc = "insert", !.key = k, !.loaded = row,
                         !.label = row.label,
                         !.makeDefault = makeDefault \/ \A j \in Keys : ~Exists(j)]

StartCreate(r) ==
    /\ req[r].pc = "idle"
    /\ \E k \in Keys \ drawn, m \in Materials, label \in Labels, backend \in Backends,
          makeDefault \in BOOLEAN :
        /\ VerifyOnWrite => m \notin refused
        /\ drawn' = drawn \cup {k}
        /\ \E outcome \in Outcomes(backend) :
            /\ secrets' = Held(backend, k, m, outcome)
            /\ \/ /\ outcome = "done"
                  /\ req' = [req EXCEPT ![r] =
                        Creation(k, NewRow(label, m, backend), makeDefault)]
                  /\ UNCHANGED casualties
               \/ StoreFails(r, k, outcome, "failed")
    /\ UNCHANGED <<rows, refused>>

Insert(r) ==
    /\ At(r, "create", "insert")
    /\ req' = [req EXCEPT ![r] =
            IF LabelTaken(r, req[r].label)
            THEN [@ EXCEPT !.pc = "forget", !.answer = "duplicate"]
            ELSE [@ EXCEPT !.pc = IF req[r].makeDefault THEN "scan" ELSE "commit",
                           !.writes = [k \in {req[r].key} |-> req[r].loaded]]]
    /\ UNCHANGED <<rows, secrets, refused, drawn, casualties>>

\* _forget_quietly(): best effort, its own failures are ignored.
Forget(r) ==
    /\ At(r, "create", "forget")
    /\ \E outcome \in Outcomes(req[r].loaded.backend) :
        /\ secrets' = Held(req[r].loaded.backend, req[r].key, NoMaterial, outcome)
        /\ casualties' = IF outcome = "undone" THEN casualties \cup {req[r].key}
                         ELSE casualties
    /\ Ends(r, req[r].answer)
    /\ UNCHANGED <<rows, refused, drawn>>

-----------------------------------------------------------------------------
(* update_key: load the row, verify, overwrite the secret, flush the row,  *)
(* replace the default, commit.                                            *)

Change(k, m, label, makeDefault) ==
    [Idle("none") EXCEPT !.op = "update", !.key = k, !.loaded = rows[k], !.material = m,
                         !.label = label, !.makeDefault = makeDefault,
                         !.pc = IF m = NoMaterial THEN "flush" ELSE "put"]

StartUpdate(r) ==
    /\ req[r].pc = "idle"
    /\ \E k \in Keys, m \in Materials \cup {NoMaterial}, label \in Labels \cup {NoLabel},
          makeDefault \in BOOLEAN :
        /\ Exists(k)
        /\ label # rows[k].label   \* giving the same label is giving none
        /\ m # NoMaterial /\ VerifyOnWrite => m \notin refused
        /\ req' = [req EXCEPT ![r] = Change(k, m, label, makeDefault)]
    /\ UNCHANGED <<rows, secrets, refused, drawn, casualties>>

\* The secret is overwritten in the backend that already holds it.
Put(r) ==
    /\ At(r, "update", "put")
    /\ \E outcome \in Outcomes(req[r].loaded.backend) :
        /\ secrets' = Held(req[r].loaded.backend, req[r].key, req[r].material, outcome)
        /\ \/ outcome = "done" /\ Goto(r, "flush") /\ UNCHANGED casualties
           \/ StoreFails(r, req[r].key, outcome, "failed")
    /\ UNCHANGED <<rows, refused, drawn>>

\* Slip: "make_default is not None" for "make_default".
AlwaysClears(r) == "scan"
AfterFlush(r) == IF req[r].makeDefault THEN "scan" ELSE "commit"

\* UPDATE of the loaded row: 409 on a label clash, StaleDataError if it is gone.
Flush(r) ==
    /\ At(r, "update", "flush")
    /\ LET k == req[r].key
       IN  \/ /\ Needs(r) = {}
              /\ Goto(r, AfterFlush(r))
              /\ UNCHANGED <<rows, secrets, refused, drawn, casualties>>
           \/ /\ Needs(r) # {} /\ Exists(k)
              /\ ~(Relabels(r) /\ LabelTaken(r, req[r].label))
              /\ req' = [req EXCEPT ![r].pc = AfterFlush(r),
                                    ![r].writes = [j \in {k} |-> FlushedUpdate(r)]]
              /\ UNCHANGED <<rows, secrets, refused, drawn, casualties>>
           \/ /\ Needs(r) # {} /\ Exists(k)
              /\ Relabels(r) /\ LabelTaken(r, req[r].label)
              /\ Fails(r, "duplicate")
           \/ /\ Needs(r) # {} /\ ~Exists(k)
              /\ Fails(r, "failed")

-----------------------------------------------------------------------------
(* _clear_defaults(): one UPDATE, which finds its rows first, waits until  *)
(* no other transaction holds them, and rechecks them.                     *)

ScanDefaults(r) ==
    /\ \E op \in {"create", "update"} : At(r, op, "scan")
    /\ req' = [req EXCEPT ![r].pc = "clear",
                          ![r].seen = {k \in Keys \ {req[r].key} : IsDefault(k)}]
    /\ UNCHANGED <<rows, secrets, refused, drawn, casualties>>

ClearDefaults(r) ==
    /\ \E op \in {"create", "update"} : At(r, op, "clear")
    /\ LET still == {k \in req[r].seen : IsDefault(k)}
       IN  req' = [req EXCEPT
                ![r].pc = "commit",
                ![r].seen = {},
                ![r].writes = [k \in DOMAIN @ \cup still |->
                    IF k \in DOMAIN @ THEN @[k] ELSE [rows[k] EXCEPT !.default = FALSE]]]
    /\ UNCHANGED <<rows, secrets, refused, drawn, casualties>>

-----------------------------------------------------------------------------
(* delete_key: load the row, delete the secret, delete the row, promote a  *)
(* replacement default, commit.                                            *)

StartDelete(r) ==
    /\ req[r].pc = "idle"
    /\ \E k \in Keys :
        /\ Exists(k)
        /\ req' = [req EXCEPT ![r] = OnRow(k, "delete", "erase")]
    /\ UNCHANGED <<rows, secrets, refused, drawn, casualties>>

EraseSecret(r) ==
    /\ At(r, "delete", "erase")
    /\ \E outcome \in Outcomes(req[r].loaded.backend) :
        /\ secrets' = Held(req[r].loaded.backend, req[r].key, NoMaterial, outcome)
        /\ \/ outcome = "done" /\ Goto(r, "remove") /\ UNCHANGED casualties
           \/ StoreFails(r, req[r].key, outcome, "notDeleted")
    /\ UNCHANGED <<rows, refused, drawn>>

\* Slip: the row is not deleted with its secret.
KeepsRow(r) == NoWrites
Removed(r) == [k \in {j \in {req[r].key} : Exists(j)} |-> NoRow]

\* The deletion, with the key that becomes the default.
Removal(r, heir) ==
    [req[r] EXCEPT !.pc = "commit", !.writes = Removed(r), !.heir = heir]

\* DELETE of the row, a warning if it is already gone; then _promote_replacement()
\* picks the oldest active row (any one here: no property speaks of age).
RemoveRow(r) ==
    /\ At(r, "delete", "remove")
    /\ LET heirs == {k \in Keys \ {req[r].key} : Active(k)}
       IN  \/ /\ ~req[r].loaded.default \/ heirs = {}
              /\ req' = [req EXCEPT ![r] = Removal(r, NoKey)]
           \/ /\ req[r].loaded.default
              /\ \E k \in heirs : req' = [req EXCEPT ![r] =
                    Removal(r, IF rows[k].default THEN NoKey ELSE k)]
    /\ UNCHANGED <<rows, secrets, refused, drawn, casualties>>

-----------------------------------------------------------------------------
(* The commit of the three: the new default is written, the transaction    *)
(* ends.  A second default is an IntegrityError, a vanished row a          *)
(* StaleDataError.                                                         *)

Own(r, k) == IF k \in DOMAIN req[r].writes THEN req[r].writes[k] ELSE rows[k]

DefaultClash(r) == \E k \in NewDefault(r) : DefaultTaken(r, k)
DefaultGone(r) == \E k \in NewDefault(r) : Own(r, k) = NoRow

Commit(r) ==
    /\ \E op \in {"create", "update", "delete"} : At(r, op, "commit")
    /\ ~DefaultClash(r) /\ ~DefaultGone(r)
    /\ rows' = [k \in Keys |-> IF k \in NewDefault(r)
                               THEN [Own(r, k) EXCEPT !.default = TRUE] ELSE Own(r, k)]
    /\ Ends(r, "ok")
    /\ UNCHANGED <<secrets, refused, drawn, casualties>>

\* create_key forgets the secret after any failure of the commit; create_key
\* and update_key report every integrity failure as a duplicate label.
CommitFails(r) ==
    \/ /\ At(r, "create", "commit") /\ DefaultClash(r)
       /\ TurnsToForget(r, "duplicate")
       /\ UNCHANGED <<rows, secrets, refused, drawn, casualties>>
    \/ /\ At(r, "update", "commit") /\ DefaultClash(r)
       /\ Fails(r, "duplicate")
    \/ /\ At(r, "update", "commit") /\ DefaultGone(r)
       /\ Fails(r, "failed")
    \/ /\ At(r, "delete", "commit") /\ (DefaultClash(r) \/ DefaultGone(r))
       /\ Fails(r, "failed")

-----------------------------------------------------------------------------
(* verify_stored_key, and a chat turn whose provider may refuse the key    *)
(* (mark_rejected): load the row, reveal the secret, ask, write the status.*)

StartCheck(r) ==
    /\ req[r].pc = "idle"
    /\ \E k \in Keys, op \in {"check", "chat"} :
        /\ Exists(k)
        /\ op = "chat" => Active(k)
        /\ req' = [req EXCEPT ![r] = OnRow(k, op, "ask")]
    /\ UNCHANGED <<rows, secrets, refused, drawn, casualties>>

\* The secret of a local row was loaded with it; Infisical is read now.
Revealed(r) == IF req[r].loaded.backend = "local" THEN req[r].loaded.sealed
               ELSE secrets[req[r].key]

\* No verdict: Infisical or the provider did not answer, or the chat went well.
Ask(r) ==
    /\ \E op \in {"check", "chat"} : At(r, op, "ask")
    /\ \/ Ends(r, "none")
       \/ /\ Revealed(r) # NoMaterial
          /\ req[r].op = "check" \/ Revealed(r) \in refused
          /\ req' = [req EXCEPT ![r].pc = "record",
                                ![r].accepted = Revealed(r) \notin refused]
    /\ UNCHANGED <<rows, secrets, refused, drawn, casualties>>

Verdict(r) == IF req[r].accepted THEN "active" ELSE "invalid"

\* Slip: a verdict that finds no row is asked for again.
AsksAgain(r) ==
    /\ \E op \in {"check", "chat"} : At(r, op, "record")
    /\ IF Exists(req[r].key) THEN Ends(r, "ok") ELSE Goto(r, "ask")
    /\ UNCHANGED <<rows, secrets, refused, drawn, casualties>>

RecordVerdict(r) ==
    /\ \E op \in {"check", "chat"} : At(r, op, "record")
    /\ \/ /\ ~WritesVerdict(r)
          /\ Ends(r, "ok")
          /\ UNCHANGED <<rows, secrets, refused, drawn, casualties>>
       \/ /\ WritesVerdict(r) /\ Exists(req[r].key)
          /\ rows' = [rows EXCEPT ![req[r].key] =
                        Flushed(r, [req[r].loaded EXCEPT !.status = Verdict(r)])]
          /\ Ends(r, "ok")
          /\ UNCHANGED <<secrets, refused, drawn, casualties>>
       \/ /\ WritesVerdict(r) /\ ~Exists(req[r].key)
          /\ Fails(r, "failed")

-----------------------------------------------------------------------------
(* Failures                                                                *)

InDatabase == {"insert", "flush", "scan", "clear", "commit", "remove", "record"}

\* create_key forgets the secret when the insert or the commit fails, not when
\* _clear_defaults() does.
DatabaseError(r) ==
    /\ req[r].pc \in InDatabase
    /\ UNCHANGED contended
    /\ IF req[r].op = "create" /\ req[r].pc \in {"insert", "commit"}
       THEN /\ TurnsToForget(r, "failed")
            /\ UNCHANGED <<rows, secrets, refused, drawn, casualties>>
       ELSE Fails(r, "failed")

\* The worker dies, or the request is cancelled.
Crash(r) ==
    /\ req[r].pc # "idle"
    /\ Fails(r, "none")
    /\ UNCHANGED contended

\* PostgreSQL aborts a transaction that waits for itself, through any number of others:
\* it is among whatever contains those it waits for and, with any, those that one waits for.
Deadlocked(r) ==
    \A S \in SUBSET Requests :
        WaitsFor(r) \subseteq S /\ (\A q \in S : WaitsFor(q) \subseteq S) => r \in S

BreakDeadlock(r) == Deadlocked(r) /\ DatabaseError(r)

\* A provider stops accepting a key, for good.
Refuse ==
    /\ \E m \in Materials \ refused : refused' = refused \cup {m}
    /\ UNCHANGED <<rows, secrets, req, drawn, casualties, contended>>

-----------------------------------------------------------------------------

Step(r) ==
    /\ \/ Insert(r) \/ Forget(r) \/ Put(r) \/ Flush(r) \/ ScanDefaults(r)
       \/ ClearDefaults(r) \/ EraseSecret(r) \/ RemoveRow(r)
       \/ Commit(r) \/ CommitFails(r) \/ Ask(r) \/ RecordVerdict(r)
    /\ UNCHANGED contended

Start(r) ==
    /\ StartCreate(r) \/ StartUpdate(r) \/ StartDelete(r) \/ StartCheck(r)
    /\ contended' = contended \cup {k \in {req'[r].key} \cap Keys : InFlight(k)}

Next ==
    \/ \E r \in Requests :
        Start(r) \/ Step(r) \/ DatabaseError(r) \/ BreakDeadlock(r) \/ Crash(r)
    \/ Refuse

Spec == Init /\ [][Next]_vars

\* A request that runs is scheduled, and a lock queue is served in order: a waiting
\* request that could go on again and again does.
FairSpec == Spec /\ \A r \in Requests : SF_vars(Step(r)) /\ WF_vars(BreakDeadlock(r))

-----------------------------------------------------------------------------
(* Properties                                                              *)

\* uq_llm_credential_default (models/credential.py:86): whatever requests race,
\* no two keys are the default.
OneDefault == \A j, k \in Keys : IsDefault(j) /\ IsDefault(k) => j = k

\* A saved key can be used (credential_resolver.py:101): unless a request on it
\* failed after calling Infisical, a row always leads to a secret, whatever
\* rotations, deletes and creations overlapped.
RowHasSecret ==
    \A k \in Keys \ casualties :
        Exists(k) /\ ~InFlight(k) => Stored(k) # NoMaterial

\* What the settings page says of a key is true of the key in Infisical, unless a
\* request on it failed half-way or two requests on it overlapped: the last
\* characters are those stored (models/credential.py:5), a rejection was earned by
\* the stored key (models/credential.py:30), and no secret is left without its row
\* (vault_service.py:252).
PageIsTrue ==
    \A k \in Keys \ (casualties \cup contended) :
        ~InFlight(k) =>
            /\ secrets[k] # NoMaterial => Exists(k)
            /\ Exists(k) => rows[k].shown = Stored(k)
            /\ Exists(k) /\ rows[k].status = "invalid" => Stored(k) \in refused

\* Locks can only form a cycle among requests that replace the default
\* (vault_service.py:192, 241, 260): rotating, renaming and marking keys, and
\* adding keys beside a default, never abort one another.
DeadlockIsAboutDefault ==
    \A r \in Requests : Deadlocked(r) => req[r].makeDefault \/ req[r].heir # NoKey

\* Each request is answered: lock waits end, by turns or by the deadlock detector.
RequestsEnd == \A r \in Requests : (req[r].pc # "idle") ~> (req[r].pc = "idle")

-----------------------------------------------------------------------------
(* What the repository says and the code does not do.                      *)

\* Without the exception for overlapping requests (vault_service.py:252): once every
\* request on a key has been answered, no secret is left without its row.
NothingStranded ==
    \A k \in Keys \ casualties :
        secrets[k] # NoMaterial /\ ~InFlight(k) => Exists(k)

\* The settings page shows the last characters of the key in use
\* (models/credential.py:5): once every request on the key has been answered ...
ShownIsStored ==
    \A k \in Keys \ casualties :
        Exists(k) /\ ~InFlight(k) => rows[k].shown = Stored(k)

\* ... and when an update is refused because of its label.
RefusedIsShown ==
    [][\A r \in Requests :
        Flush(r) /\ req'[r].answer = "duplicate"
            => rows[req[r].key].shown = Stored(req[r].key)]_vars

\* "The provider rejected it in use" (models/credential.py:30) is said of the key
\* that is stored now.
StatusSpeaksOfStored ==
    \A k \in Keys \ casualties :
        Exists(k) /\ rows[k].status = "invalid" /\ ~InFlight(k) => Stored(k) \in refused

\* "A replaced key clears an earlier rejection" (vault_service.py:228).
RotationClearsRejection ==
    [][\A r \in Requests :
        Commit(r) /\ req[r].op = "update" /\ Rotates(r)
            => rows'[req[r].key].status = "active"]_vars

\* "Exactly one default per provider per user" (models/credential.py:91).
ExactlyOneDefault ==
    (\A r \in Requests : req[r].pc = "idle") /\ (\E k \in Keys : Exists(k))
        => \E k \in Keys : IsDefault(k)

\* "You already have a key labelled ..." (vault_service.py:195, 243) is said only
\* of a label that is taken.
DuplicateMeansLabelTaken ==
    [][\A r \in Requests :
        req[r].answer # "duplicate" /\ req'[r].answer = "duplicate"
            => LabelTaken(r, req[r].label)]_vars

\* After "The key was not deleted." (vault_service.py:256) the key is still there.
NotDeletedIsThere ==
    [][\A r \in Requests :
        EraseSecret(r) /\ req'[r].answer = "notDeleted" => secrets' = secrets]_vars
=============================================================================
