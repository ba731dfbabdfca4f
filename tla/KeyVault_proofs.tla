--------------------------- MODULE KeyVault_proofs --------------------------
(***************************************************************************)
(* Whatever requests race on however many keys of one student: one default *)
(* at most, every row leads to a secret, locks deadlock only over the      *)
(* default, and the page is true of keys that were left in peace.          *)
(***************************************************************************)
EXTENDS KeyVault, TLAPS

Working(r) == req[r].pc # "idle"
Locks(r) == DOMAIN req[r].writes

\* A request is at a step of its operation, on a key that has been drawn.
StepInv(r) ==
    /\ req[r].op = "none" <=> ~Working(r)
    /\ req[r].op = "create" => req[r].pc \in {"insert", "forget", "scan", "clear", "commit"}
    /\ req[r].op = "update" => req[r].pc \in {"put", "flush", "scan", "clear", "commit"}
    /\ req[r].op = "delete" => req[r].pc \in {"erase", "remove", "commit"}
    /\ req[r].op \in {"check", "chat"} => req[r].pc \in {"ask", "record"}
    /\ ~Working(r) => req[r].key = NoKey
    /\ Working(r) =>
        /\ req[r].key \in drawn /\ req[r].loaded \in Rows
        /\ Exists(req[r].key) => rows[req[r].key].backend = req[r].loaded.backend
    /\ req[r].pc = "put" => req[r].material # NoMaterial
    /\ req[r].pc \in {"scan", "clear"} => req[r].makeDefault
    /\ req[r].heir # NoKey =>
        /\ req[r].op = "delete" /\ req[r].pc = "commit"
        /\ req[r].heir \in drawn \ {req[r].key}
    /\ req[r].seen \subseteq drawn \ {req[r].key}

\* What a request has written and not committed: a create its row, an update what it
\* loaded rewritten, both with the defaults they clear; a delete that its row is gone.
WritesInv(r) ==
    /\ Locks(r) # {} => req[r].pc \in {"scan", "clear", "commit"}
    /\ Locks(r) \subseteq drawn
    /\ req[r].op = "create" =>
        /\ ~req[r].loaded.default
        /\ req[r].pc \in {"scan", "clear", "commit"} =>
            req[r].key \in Locks(r) /\ req[r].writes[req[r].key] = req[r].loaded
    /\ req[r].op = "update" /\ req[r].key \in Locks(r) =>
        LET w == req[r].writes[req[r].key]
        IN  /\ Exists(req[r].key) /\ w \in Rows
            /\ w.default = rows[req[r].key].default
            /\ w.backend = rows[req[r].key].backend
            /\ w.backend = "local" => w.sealed # NoMaterial
    /\ req[r].op = "update" /\ Rotates(r) /\ req[r].pc \in {"scan", "clear", "commit"}
        => req[r].key \in Locks(r)
    /\ req[r].op = "delete" =>
        /\ Locks(r) \subseteq {req[r].key}
        /\ \A k \in Locks(r) : req[r].writes[k] = NoRow
        /\ req[r].pc = "commit" /\ Exists(req[r].key) => req[r].key \in Locks(r)
    /\ req[r].op # "delete" =>
        \A k \in Locks(r) \ {req[r].key} :
            Exists(k) /\ req[r].writes[k] = [rows[k] EXCEPT !.default = FALSE]

\* The key of a create is its own: no row, and nobody else's business; its secret is
\* where its row will say.
CreateInv(r) ==
    req[r].op = "create" =>
        /\ ~Exists(req[r].key)
        /\ \A q \in Requests \ {r} :
            /\ req[r].key # req[q].key /\ req[r].key # req[q].heir
            /\ req[r].key \notin req[q].seen \cup Locks(q)
        /\ req[r].loaded.status = "active"
        /\ req[r].loaded.backend = "local" =>
            /\ req[r].loaded.sealed = req[r].loaded.shown
            /\ secrets[req[r].key] = NoMaterial
        /\ req[r].loaded.backend = "infisical" /\ req[r].pc # "forget" =>
            secrets[req[r].key] = req[r].loaded.shown

\* A row is locked by one request at most.
LocksExclude == \A q, r \in Requests : q # r => Locks(q) \cap Locks(r) = {}

\* Of a key that was not drawn there is nothing.
UndrawnIsNothing == \A k \in Keys \ drawn : ~Exists(k) /\ secrets[k] = NoMaterial

\* A request that has erased the secret of a row it is about to delete.
Erased(r) == req[r].op = "delete" /\ req[r].pc # "erase"

\* A row leads to a secret, in the one place it names.
SecretsHeld ==
    \A k \in Keys : Exists(k) =>
        /\ rows[k].backend = "local" =>
            rows[k].sealed # NoMaterial /\ secrets[k] = NoMaterial
        /\ rows[k].backend = "infisical" /\ k \notin casualties =>
            secrets[k] # NoMaterial \/ \E r \in Requests : req[r].key = k /\ Erased(r)

IInv ==
    /\ TypeOK
    /\ \A r \in Requests : StepInv(r) /\ WritesInv(r) /\ CreateInv(r)
    /\ LocksExclude /\ UndrawnIsNothing /\ SecretsHeld /\ OneDefault

\* No request on the key failed half-way, and no two overlapped.
Quiet(k) == k \notin casualties \cup contended

\* What the page says of a key is true of what is stored.
Truthful(k) ==
    /\ secrets[k] # NoMaterial => Exists(k)
    /\ Exists(k) => rows[k].shown = Stored(k)
    /\ Exists(k) /\ rows[k].status = "invalid" => Stored(k) \in refused

\* The only request on a key: the row is as it was loaded, but for the default, the
\* secret is what the request has made it, and what it will write agrees with that.
AloneInv(r) ==
    /\ \A q \in Requests : req[q].key = req[r].key => q = r
    /\ req[r].op # "create" =>
        /\ Exists(req[r].key)
        /\ \A f \in {"shown", "sealed", "backend", "status"} :
            req[r].loaded[f] = rows[req[r].key][f]
    /\ CalledStore(r) =>
        /\ req[r].op = "update" => secrets[req[r].key] = req[r].material
        /\ req[r].op = "delete" => secrets[req[r].key] = NoMaterial
    /\ req[r].op = "update" /\ req[r].key \in Locks(r) =>
        LET w == req[r].writes[req[r].key]
        IN  IF Rotates(r)
            THEN /\ w.shown = req[r].material /\ w.status = "active"
                 /\ w.backend = "local" => w.sealed = req[r].material
            ELSE \A f \in {"shown", "sealed", "status"} : w[f] = rows[req[r].key][f]
    /\ req[r].pc = "record" /\ ~req[r].accepted => Revealed(r) \in refused

QuietInv ==
    /\ \A r \in Requests : Working(r) /\ Quiet(req[r].key) => AloneInv(r)
    /\ \A k \in Keys : Quiet(k) =>
        Truthful(k) \/ \E r \in Requests : req[r].key = k /\ CalledStore(r)

-----------------------------------------------------------------------------
(* Types                                                                   *)

LEMMA WritesAre ==
    ASSUME NEW f
    PROVE  f \in Writes <=> \E S \in SUBSET Keys : f \in [S -> Rows \cup {NoRow}]
BY DEF Writes

LEMMA RowTypes ==
    ASSUME NEW row \in Rows
    PROVE  /\ row # NoRow
           /\ row = [label |-> row.label, shown |-> row.shown, sealed |-> row.sealed,
                     backend |-> row.backend, default |-> row.default, status |-> row.status]
           /\ row.label \in Labels /\ row.shown \in Materials
           /\ row.sealed \in Materials \cup {NoMaterial}
           /\ row.backend \in Backends /\ row.backend \in {"local", "infisical"}
           /\ row.default \in BOOLEAN /\ row.status \in {"active", "invalid"}
<1>1. row # NoRow
  BY NoRowAssumption
<1> QED
  BY <1>1, SettingsAssumption DEF Rows

LEMMA RequestTypes ==
    ASSUME TypeOK, NEW r \in Requests
    PROVE  /\ req[r] \in RequestStates
           /\ req[r].op \in {"none", "create", "update", "delete", "check", "chat"}
           /\ req[r].pc \in Steps
           /\ req[r].key \in Keys \cup {NoKey} /\ req[r].loaded \in Rows \cup {NoRow}
           /\ req[r].material \in Materials \cup {NoMaterial}
           /\ req[r].label \in Labels \cup {NoLabel}
           /\ req[r].makeDefault \in BOOLEAN /\ req[r].heir \in Keys \cup {NoKey}
           /\ req[r].accepted \in BOOLEAN /\ req[r].seen \in SUBSET Keys
           /\ req[r].writes \in Writes /\ req[r].answer \in Answers
           /\ Locks(r) \in SUBSET Keys
           /\ \A k \in Locks(r) : req[r].writes[k] \in Rows \cup {NoRow}
<1>1. req[r] \in RequestStates
  BY DEF TypeOK
<1>2. /\ req[r].op \in {"none", "create", "update", "delete", "check", "chat"}
      /\ req[r].pc \in Steps
      /\ req[r].key \in Keys \cup {NoKey} /\ req[r].loaded \in Rows \cup {NoRow}
      /\ req[r].material \in Materials \cup {NoMaterial}
      /\ req[r].label \in Labels \cup {NoLabel}
      /\ req[r].makeDefault \in BOOLEAN /\ req[r].heir \in Keys \cup {NoKey}
      /\ req[r].accepted \in BOOLEAN /\ req[r].seen \in SUBSET Keys
      /\ req[r].writes \in Writes /\ req[r].answer \in Answers
  BY <1>1 DEF RequestStates
<1>3. PICK S \in SUBSET Keys : req[r].writes \in [S -> Rows \cup {NoRow}]
  BY <1>2, WritesAre
<1> QED
  BY <1>1, <1>2, <1>3 DEF Locks

LEMMA IdleTypes ==
    ASSUME NEW answer \in Answers
    PROVE  /\ Idle(answer) \in RequestStates
           /\ Idle(answer).op = "none" /\ Idle(answer).pc = "idle"
           /\ Idle(answer).key = NoKey /\ Idle(answer).heir = NoKey
           /\ Idle(answer).seen = {} /\ DOMAIN Idle(answer).writes = {}
           /\ Idle(answer).writes = NoWrites
           /\ ~Idle(answer).makeDefault /\ ~Idle(answer).accepted
<1>1. NoWrites \in [{} -> Rows \cup {NoRow}] /\ DOMAIN NoWrites = {}
  BY DEF NoWrites
<1>2. NoWrites \in Writes
  BY <1>1, WritesAre
<1>3. /\ Idle(answer).op = "none" /\ Idle(answer).pc = "idle"
      /\ Idle(answer).key = NoKey /\ Idle(answer).heir = NoKey
      /\ Idle(answer).seen = {} /\ Idle(answer).writes = NoWrites
      /\ ~Idle(answer).makeDefault /\ ~Idle(answer).accepted
  BY DEF Idle
<1>4. Idle(answer) \in RequestStates
  BY <1>2 DEF Idle, RequestStates, Steps
<1> QED
  BY <1>1, <1>3, <1>4

\* The steps below take one request on, and the others stay where they are.
LEMMA Moved ==
    ASSUME TypeOK, NEW r \in Requests, NEW new \in RequestStates,
           req' = [req EXCEPT ![r] = new]
    PROVE  /\ req' \in [Requests -> RequestStates] /\ req'[r] = new
           /\ \A q \in Requests : q # r => req'[q] = req[q] /\ Locks(q)' = Locks(q)
           /\ Locks(r)' = DOMAIN new.writes
BY DEF TypeOK, Locks

LEMMA InitHolds == Init => IInv
<1> SUFFICES ASSUME Init PROVE IInv
  OBVIOUS
<1>1. \A r \in Requests : req[r] = Idle("none")
  BY DEF Init
<1>2. "none" \in Answers
  BY DEF Answers
<1>3. \A r \in Requests : /\ req[r] \in RequestStates /\ ~Working(r) /\ req[r].op = "none"
                          /\ req[r].key = NoKey /\ req[r].heir = NoKey /\ req[r].seen = {}
                          /\ req[r].pc = "idle" /\ Locks(r) = {}
  BY <1>1, <1>2, IdleTypes DEF Working, Locks
<1>4. TypeOK
  BY <1>3 DEF Init, TypeOK
<1>5. ASSUME NEW r \in Requests PROVE StepInv(r) /\ WritesInv(r) /\ CreateInv(r)
  BY <1>3 DEF StepInv, WritesInv, CreateInv
<1>6. LocksExclude /\ UndrawnIsNothing /\ SecretsHeld /\ OneDefault
  BY <1>3 DEF Init, LocksExclude, UndrawnIsNothing, SecretsHeld, OneDefault, Exists, IsDefault
<1> QED
  BY <1>4, <1>5, <1>6 DEF IInv

-----------------------------------------------------------------------------
(* Steps that leave the rows alone                                         *)

\* What is not the request's own business stays as it was.
LEMMA RowsStay ==
    ASSUME IInv, NEW r \in Requests, NEW new \in RequestStates,
           req' = [req EXCEPT ![r] = new], UNCHANGED rows,
           secrets' \in [Keys -> Materials \cup {NoMaterial}], refused' \subseteq Materials,
           drawn \subseteq drawn', drawn' \subseteq Keys,
           casualties' \subseteq Keys, contended' \subseteq Keys,
           StepInv(r)', WritesInv(r)', CreateInv(r)',
           \A q \in Requests \ {r} : DOMAIN new.writes \cap Locks(q) = {},
           \A q \in Requests \ {r} : req[q].op = "create" =>
                /\ req[q].key # new.key /\ req[q].key # new.heir
                /\ req[q].key \notin new.seen \cup DOMAIN new.writes
                /\ secrets'[req[q].key] = secrets[req[q].key],
           UndrawnIsNothing', SecretsHeld'
    PROVE  IInv'
<1>1. /\ req' \in [Requests -> RequestStates] /\ req'[r] = new
      /\ \A q \in Requests : q # r => req'[q] = req[q] /\ Locks(q)' = Locks(q)
      /\ Locks(r)' = DOMAIN new.writes
  BY Moved DEF IInv
<1>2. TypeOK'
  BY <1>1 DEF IInv, TypeOK
<1>3. ASSUME NEW q \in Requests, q # r
      PROVE  StepInv(q)' /\ WritesInv(q)' /\ CreateInv(q)'
  <2>1. StepInv(q)'
    BY <1>1, <1>3 DEF IInv, StepInv, Working, Exists
  <2>2. WritesInv(q)'
    BY <1>1, <1>3 DEF IInv, WritesInv, Exists, Rotates
  <2>3. CreateInv(q)'
    BY <1>1, <1>3 DEF IInv, CreateInv, Exists
  <2> QED
    BY <2>1, <2>2, <2>3
<1>4. LocksExclude'
  BY <1>1 DEF IInv, LocksExclude
<1>5. OneDefault'
  BY DEF IInv, OneDefault, IsDefault, Exists
<1> QED
  BY <1>2, <1>3, <1>4, <1>5 DEF IInv

\* The rows and secrets stay, and whoever has erased a secret goes on to delete its row
\* or is a casualty.
LEMMA SecretsStay ==
    ASSUME IInv, NEW r \in Requests, NEW new \in RequestStates,
           req' = [req EXCEPT ![r] = new], UNCHANGED <<rows, secrets>>,
           drawn \subseteq drawn', casualties \subseteq casualties',
           Erased(r) =>
                \/ Erased(r)' /\ new.key = req[r].key
                \/ req[r].loaded.backend = "infisical" => req[r].key \in casualties'
    PROVE  UndrawnIsNothing' /\ SecretsHeld'
<1>1. /\ req'[r] = new
      /\ \A q \in Requests : q # r => req'[q] = req[q]
  BY Moved DEF IInv
<1>2. UndrawnIsNothing'
  BY DEF IInv, UndrawnIsNothing, Exists
<1>3. \A q \in Requests : q # r => Erased(q)' = Erased(q)
  BY <1>1 DEF Erased
<1>4. ASSUME NEW k \in Keys, Exists(k), rows[k].backend = "infisical", k \notin casualties'
      PROVE  secrets[k] # NoMaterial \/ \E q \in Requests : req'[q].key = k /\ Erased(q)'
  <2>1. CASE \E q \in Requests : q # r /\ req[q].key = k /\ Erased(q)
    BY <1>1, <1>3, <2>1
  <2>2. CASE req[r].key = k /\ Erased(r)
    <3>1. req[r].loaded.backend = "infisical"
      BY <1>4, <2>2 DEF IInv, StepInv, Erased
    <3> QED
      BY <1>1, <1>4, <2>2, <3>1
  <2> QED
    BY <1>4, <2>1, <2>2 DEF IInv, SecretsHeld
<1>5. SecretsHeld'
  BY <1>4 DEF IInv, SecretsHeld, Exists
<1> QED
  BY <1>2, <1>5

\* A request that is not working holds nothing.
LEMMA IdleHolds ==
    ASSUME NEW r \in Requests, NEW answer \in Answers, req'[r] = Idle(answer)
    PROVE  StepInv(r)' /\ WritesInv(r)' /\ CreateInv(r)' /\ Locks(r)' = {}
<1>1. /\ req'[r].op = "none" /\ req'[r].pc = "idle" /\ req'[r].key = NoKey
      /\ req'[r].heir = NoKey /\ req'[r].seen = {} /\ Locks(r)' = {}
  BY IdleTypes DEF Locks
<1> QED
  BY <1>1 DEF StepInv, WritesInv, CreateInv, Working

\* The keys of creates are keys.
LEMMA CreatesKey ==
    ASSUME IInv, NEW r \in Requests, Working(r)
    PROVE  /\ req[r].key \in Keys /\ req[r].key \in drawn /\ req[r].key # NoKey
           /\ req[r].loaded \in Rows
BY AbsentAssumption DEF IInv, TypeOK, StepInv

\* A request ends with no effect on rows and secrets.
LEMMA RequestEnds ==
    ASSUME IInv, NEW r \in Requests, NEW answer \in Answers, Ends(r, answer),
           UNCHANGED <<rows, secrets, refused, drawn>>,
           casualties \subseteq casualties', casualties' \subseteq Keys, contended' \subseteq Keys,
           Erased(r) /\ CalledStore(r) => req[r].key \in casualties'
    PROVE  IInv'
<1> DEFINE new == Idle(answer)
<1>1. new \in RequestStates /\ req' = [req EXCEPT ![r] = new]
      /\ new.key = NoKey /\ new.heir = NoKey /\ new.seen = {} /\ DOMAIN new.writes = {}
  BY IdleTypes DEF Ends
<1> HIDE DEF new
<1>2. req'[r] = new
  BY <1>1, Moved DEF IInv
<1>3. StepInv(r)' /\ WritesInv(r)' /\ CreateInv(r)'
  BY <1>2, IdleHolds DEF new
<1>4. UndrawnIsNothing' /\ SecretsHeld'
  BY <1>1, SecretsStay DEF CalledStore, Erased
<1>5. \A q \in Requests : req[q].op = "create" => req[q].key # NoKey
  BY CreatesKey DEF IInv, StepInv
<1> QED
  BY <1>1, <1>3, <1>4, <1>5, RowsStay DEF IInv, TypeOK

LEMMA FailsKeeps ==
    ASSUME IInv, NEW r \in Requests, Working(r), NEW answer \in Answers, Fails(r, answer),
           UNCHANGED contended
    PROVE  IInv'
<1>1. req[r].key \in Keys
  BY CreatesKey
<1> QED
  BY <1>1, RequestEnds DEF Fails, IInv, TypeOK

\* A request goes on with its operation on its key, and the rows and secrets stay.
LEMMA RequestGoes ==
    ASSUME IInv, NEW r \in Requests, Working(r), NEW new \in RequestStates,
           req' = [req EXCEPT ![r] = new], UNCHANGED <<rows, secrets, refused, drawn>>,
           casualties' = casualties, contended' = contended,
           new.key = req[r].key, new.op = req[r].op,
           new.op = "delete" => new.pc # "erase",
           StepInv(r)', WritesInv(r)',
           CreateInv(r)',
           \A q \in Requests \ {r} : DOMAIN new.writes \cap Locks(q) = {},
           \A q \in Requests \ {r} : req[q].op = "create" =>
                req[q].key # new.heir /\ req[q].key \notin new.seen \cup DOMAIN new.writes
    PROVE  IInv'
<1>1. req'[r] = new
  BY Moved DEF IInv
<1>2. UndrawnIsNothing' /\ SecretsHeld'
  BY <1>1, SecretsStay DEF Erased
<1>3. \A q \in Requests \ {r} : req[q].op = "create" => req[q].key # new.key
  BY DEF IInv, CreateInv
<1> QED
  BY <1>2, <1>3, RowsStay DEF IInv, TypeOK

-----------------------------------------------------------------------------
(* create_key                                                              *)

\* Nobody has to do with a key that was not drawn.
LEMMA FreshKey ==
    ASSUME IInv, NEW k \in Keys \ drawn, NEW q \in Requests
    PROVE  req[q].key # k /\ req[q].heir # k /\ k \notin req[q].seen \cup Locks(q)
<1>1. req[q].key # k
  BY AbsentAssumption, CreatesKey DEF IInv, StepInv
<1>2. req[q].heir # k
  BY AbsentAssumption DEF IInv, StepInv
<1> QED
  BY <1>1, <1>2 DEF IInv, StepInv, WritesInv

LEMMA HeldTypes ==
    ASSUME TypeOK, NEW k \in Keys, NEW m \in Materials \cup {NoMaterial}, NEW backend,
           NEW outcome, secrets' = Held(backend, k, m, outcome)
    PROVE  /\ secrets' \in [Keys -> Materials \cup {NoMaterial}]
           /\ \A j \in Keys : j # k => secrets'[j] = secrets[j]
           /\ backend = "local" => secrets' = secrets
           /\ backend # "local" /\ outcome # "undone" => secrets'[k] = m
BY DEF TypeOK, Held

LEMMA StartCreateKeeps ==
    ASSUME IInv, NEW r \in Requests, StartCreate(r), contended' \subseteq Keys
    PROVE  IInv'
<1>0. ~Working(r) /\ ~Erased(r) /\ UNCHANGED <<rows, refused>>
  BY DEF StartCreate, Working, Erased, IInv, StepInv
<1>1. PICK k \in Keys \ drawn, m \in Materials, label \in Labels, backend \in Backends,
           makeDefault \in BOOLEAN :
        /\ drawn' = drawn \cup {k}
        /\ \E outcome \in Outcomes(backend) :
            /\ secrets' = Held(backend, k, m, outcome)
            /\ \/ /\ outcome = "done"
                  /\ req' = [req EXCEPT ![r] =
                        Creation(k, NewRow(label, m, backend), makeDefault)]
                  /\ UNCHANGED casualties
               \/ StoreFails(r, k, outcome, "failed")
  BY DEF StartCreate
<1>a. PICK outcome \in Outcomes(backend) :
        /\ secrets' = Held(backend, k, m, outcome)
        /\ \/ /\ outcome = "done"
              /\ req' = [req EXCEPT ![r] =
                    Creation(k, NewRow(label, m, backend), makeDefault)]
              /\ UNCHANGED casualties
           \/ StoreFails(r, k, outcome, "failed")
  BY <1>1
<1> DEFINE row == NewRow(label, m, backend)
           made == Creation(k, row, makeDefault)
<1>2. /\ secrets' \in [Keys -> Materials \cup {NoMaterial}]
      /\ \A j \in Keys : j # k => secrets'[j] = secrets[j]
      /\ backend = "local" => secrets'[k] = NoMaterial
      /\ backend # "local" /\ outcome = "done" => secrets'[k] = m
  BY <1>a, HeldTypes DEF IInv, UndrawnIsNothing
<1>3. drawn' = drawn \cup {k}
  BY <1>1
<1>4. UndrawnIsNothing'
  BY <1>0, <1>2, <1>3 DEF IInv, UndrawnIsNothing, Exists
<1>5. \A q \in Requests \ {r} : req[q].op = "create" =>
            req[q].key \in Keys /\ req[q].key # k /\ req[q].key # NoKey
  BY FreshKey, CreatesKey DEF IInv, StepInv
<1>6. \A j \in Keys : Exists(j) => j # k
  BY DEF IInv, UndrawnIsNothing
<1>7. ASSUME NEW new \in RequestStates, req' = [req EXCEPT ![r] = new],
             new.op \in {"none", "create"}, casualties \subseteq casualties'
      PROVE  SecretsHeld'
  <2>1. req'[r] = new /\ \A q \in Requests : q # r => req'[q] = req[q]
    BY <1>7, Moved DEF IInv
  <2>2. \A q \in Requests : req[q].key \in Keys /\ Erased(q)
            => req'[q].key = req[q].key /\ Erased(q)'
    BY <1>0, <2>1 DEF Erased
  <2> QED
    BY <1>0, <1>2, <1>6, <1>7, <2>2 DEF IInv, SecretsHeld, Exists
<1>8. CASE /\ req' = [req EXCEPT ![r] = made] /\ UNCHANGED casualties
           /\ outcome = "done"
  <2>1. /\ row \in Rows
        /\ row.backend = backend /\ ~row.default /\ row.status = "active" /\ row.shown = m
        /\ backend = "local" => row.sealed = m
    BY DEF NewRow, Rows
  <2> HIDE DEF row
  <2>2. /\ made \in RequestStates
        /\ made.op = "create" /\ made.pc = "insert" /\ made.key = k /\ made.loaded = row
        /\ made.heir = NoKey /\ made.seen = {} /\ DOMAIN made.writes = {}
    <3>1. NoWrites \in Writes /\ DOMAIN NoWrites = {}
      BY IdleTypes DEF RequestStates, Answers
    <3>2. row.label \in Labels
      BY <2>1, RowTypes
    <3> DEFINE isDefault == makeDefault \/ \A j \in Keys : ~Exists(j)
    <3>3. isDefault \in BOOLEAN
      OBVIOUS
    <3>4. made = [Idle("none") EXCEPT !.op = "create", !.pc = "insert", !.key = k,
                        !.loaded = row, !.label = row.label, !.makeDefault = isDefault]
      BY DEF Creation
    <3> HIDE DEF isDefault, made
    <3> QED
      BY ZenonT(90), <2>1, <3>1, <3>2, <3>3, <3>4 DEF Idle, RequestStates, Steps, Answers
  <2> HIDE DEF made
  <2>4. /\ req'[r] = made /\ Locks(r)' = {}
        /\ \A q \in Requests : q # r => req'[q] = req[q] /\ Locks(q)' = Locks(q)
    BY <1>8, <2>2, Moved DEF IInv
  <2>5. StepInv(r)'
    <3>1. ~Exists(k)'
      BY <1>0, <1>6 DEF Exists
    <3> QED
      BY <1>3, <2>1, <2>2, <2>4, <3>1, AbsentAssumption DEF StepInv, Working
  <2>6. WritesInv(r)'
    BY <2>1, <2>2, <2>4 DEF WritesInv
  <2>7. CreateInv(r)'
    <3>1. ~Exists(k)'
      BY <1>0, <1>6 DEF Exists
    <3>2. \A q \in Requests \ {r} :
            /\ k # req'[q].key /\ k # req'[q].heir /\ k \notin req'[q].seen \cup Locks(q)'
      BY <2>4, FreshKey
    <3>3. row.backend = "infisical" => secrets'[k] = m
      BY <1>2, <1>8, <2>1
    <3>4. row.backend = "local" => secrets'[k] = NoMaterial /\ row.sealed = row.shown
      BY <1>2, <2>1
    <3> QED
      BY <2>1, <2>2, <2>4, <3>1, <3>2, <3>3, <3>4 DEF CreateInv
  <2>8. SecretsHeld'
    BY <1>7, <1>8, <2>2
  <2>9. \A q \in Requests \ {r} : req[q].op = "create" =>
            /\ req[q].key # made.key /\ req[q].key # made.heir
            /\ req[q].key \notin made.seen \cup DOMAIN made.writes
            /\ secrets'[req[q].key] = secrets[req[q].key]
    BY <1>2, <1>5, <2>2
  <2>10. \A q \in Requests \ {r} : DOMAIN made.writes \cap Locks(q) = {}
    BY <2>2
  <2>11. /\ refused' \subseteq Materials /\ drawn \subseteq drawn' /\ drawn' \subseteq Keys
         /\ casualties' \subseteq Keys
    BY <1>0, <1>3, <1>8 DEF IInv, TypeOK
  <2> QED
    BY <1>0, <1>2, <1>4, <1>8, <2>2, <2>5, <2>6, <2>7, <2>8, <2>9, <2>10, <2>11, RowsStay
<1>9. CASE StoreFails(r, k, outcome, "failed")
  <2> DEFINE ended == Idle("failed")
  <2>0. "failed" \in Answers
    BY DEF Answers
  <2>1. /\ ended \in RequestStates /\ req' = [req EXCEPT ![r] = ended] /\ ended.op = "none"
        /\ ended.key = NoKey /\ ended.heir = NoKey /\ ended.seen = {}
        /\ DOMAIN ended.writes = {}
    BY <1>9, <2>0, IdleTypes DEF StoreFails, Ends
  <2>2. req'[r] = ended
    BY <2>1, Moved DEF IInv
  <2>3. StepInv(r)' /\ WritesInv(r)' /\ CreateInv(r)'
    BY <2>0, <2>2, IdleHolds
  <2> HIDE DEF ended
  <2>4. casualties \subseteq casualties' /\ casualties' \subseteq Keys
    BY <1>9 DEF StoreFails, IInv, TypeOK
  <2>5. SecretsHeld'
    BY <1>7, <2>1, <2>4
  <2>6. \A q \in Requests \ {r} : req[q].op = "create" =>
            /\ req[q].key # ended.key /\ req[q].key # ended.heir
            /\ req[q].key \notin ended.seen \cup DOMAIN ended.writes
            /\ secrets'[req[q].key] = secrets[req[q].key]
    BY <1>2, <1>5, <2>1
  <2>7. \A q \in Requests \ {r} : DOMAIN ended.writes \cap Locks(q) = {}
    BY <2>1
  <2>8. /\ refused' \subseteq Materials /\ drawn \subseteq drawn' /\ drawn' \subseteq Keys
    BY <1>0, <1>3 DEF IInv, TypeOK
  <2> QED
    BY <1>0, <1>2, <1>4, <2>1, <2>3, <2>4, <2>5, <2>6, <2>7, <2>8, RowsStay
<1> QED
  BY <1>a, <1>8, <1>9

LEMMA InsertKeeps ==
    ASSUME IInv, NEW r \in Requests, Insert(r), UNCHANGED contended
    PROVE  IInv'
<1>1. /\ req[r].op = "create" /\ req[r].pc = "insert" /\ Working(r)
      /\ UNCHANGED <<rows, secrets, refused, drawn, casualties>>
  BY DEF Insert, At, Working
<1>2. /\ req[r].key \in Keys /\ req[r].key \in drawn /\ req[r].loaded \in Rows
      /\ req[r].seen \subseteq drawn \ {req[r].key}
  BY <1>1, CreatesKey DEF IInv, StepInv
<1>3. CreateInv(r) /\ ~req[r].loaded.default /\ Locks(r) = {} /\ req[r].heir = NoKey
  BY <1>1 DEF IInv, StepInv, WritesInv
<1> DEFINE refusal == [req[r] EXCEPT !.pc = "forget", !.answer = "duplicate"]
           next == IF req[r].makeDefault THEN "scan" ELSE "commit"
           written == [k \in {req[r].key} |-> req[r].loaded]
           insertion == [req[r] EXCEPT !.pc = next, !.writes = written]
<1>a. req[r] \in RequestStates /\ next \in Steps
      /\ "forget" \in Steps /\ "duplicate" \in Answers
  BY RequestTypes DEF IInv, Steps, Answers
<1>4. CASE req' = [req EXCEPT ![r] = refusal]
  <2>1. /\ refusal \in RequestStates /\ refusal.pc = "forget" /\ refusal.op = "create"
        /\ refusal.key = req[r].key /\ refusal.loaded = req[r].loaded
        /\ refusal.heir = NoKey /\ refusal.seen = req[r].seen
        /\ refusal.writes = req[r].writes
    BY ZenonT(90), <1>a, <1>1, <1>3 DEF RequestStates
  <2> HIDE DEF refusal
  <2>2. /\ req'[r] = refusal /\ Locks(r)' = {}
        /\ \A q \in Requests : q # r => req'[q] = req[q] /\ Locks(q)' = Locks(q)
    BY <1>3, <1>4, <2>1, Moved DEF IInv, Locks
  <2>3. StepInv(r)'
    BY <1>1, <1>2, <1>3, <2>1, <2>2 DEF IInv, StepInv, Working, Exists
  <2>4. WritesInv(r)'
    BY <1>3, <2>1, <2>2 DEF WritesInv
  <2>5. CreateInv(r)'
    BY <1>1, <1>3, <2>1, <2>2 DEF CreateInv, Exists
  <2>6. \A q \in Requests \ {r} : req[q].op = "create" =>
            req[q].key # refusal.heir
            /\ req[q].key \notin refusal.seen \cup DOMAIN refusal.writes
    BY <1>3, <2>1, CreatesKey DEF IInv, CreateInv, StepInv, Locks
  <2>7. \A q \in Requests \ {r} : DOMAIN refusal.writes \cap Locks(q) = {}
    BY <1>3, <2>1 DEF Locks
  <2> QED
    BY <1>1, <1>4, <2>1, <2>3, <2>4, <2>5, <2>6, <2>7, RequestGoes
<1>5. CASE req' = [req EXCEPT ![r] = insertion]
  <2>1. written \in Writes /\ DOMAIN written = {req[r].key}
        /\ written[req[r].key] = req[r].loaded
    <3>1. written \in [{req[r].key} -> Rows \cup {NoRow}] /\ {req[r].key} \in SUBSET Keys
      BY <1>2
    <3>2. written \in Writes
      BY <3>1, WritesAre
    <3> QED
      BY <3>2
  <2> HIDE DEF written, next
  <2>2. /\ insertion \in RequestStates /\ insertion.pc = next /\ insertion.op = "create"
        /\ insertion.key = req[r].key /\ insertion.loaded = req[r].loaded
        /\ insertion.heir = NoKey /\ insertion.seen = req[r].seen
        /\ insertion.writes = written /\ insertion.makeDefault = req[r].makeDefault
    BY <1>a, <1>1, <1>3, <2>1 DEF RequestStates
  <2>3. next \in {"scan", "commit"} /\ (next = "scan" => req[r].makeDefault)
    BY DEF next
  <2> HIDE DEF insertion
  <2>4. /\ req'[r] = insertion /\ Locks(r)' = {req[r].key}
        /\ \A q \in Requests : q # r => req'[q] = req[q] /\ Locks(q)' = Locks(q)
    BY <1>5, <2>1, <2>2, Moved DEF IInv
  <2>5. StepInv(r)'
    BY <1>1, <1>2, <1>3, <2>2, <2>3, <2>4 DEF IInv, StepInv, Working, Exists
  <2>6. WritesInv(r)'
    BY <1>1, <1>2, <1>3, <2>1, <2>2, <2>3, <2>4 DEF WritesInv, Rotates
  <2>7. CreateInv(r)'
    BY <1>1, <1>3, <2>2, <2>3, <2>4 DEF CreateInv, Exists
  <2>8. \A q \in Requests \ {r} : req[q].op = "create" =>
            req[q].key # insertion.heir
            /\ req[q].key \notin insertion.seen \cup DOMAIN insertion.writes
    BY <1>3, <2>1, <2>2, CreatesKey DEF IInv, CreateInv, StepInv
  <2>9. \A q \in Requests \ {r} : DOMAIN insertion.writes \cap Locks(q) = {}
    BY <1>1, <1>3, <2>1, <2>2 DEF CreateInv
  <2> QED
    BY <1>1, <1>5, <2>2, <2>3, <2>5, <2>6, <2>7, <2>8, <2>9, RequestGoes
<1> QED
  BY <1>4, <1>5 DEF Insert

LEMMA FlushedIs ==
    ASSUME IInv, NEW r \in Requests, Working(r), Exists(req[r].key), NEW target \in Rows
    PROVE  /\ Flushed(r, target) \in Rows
           /\ \A f \in {"label", "shown", "sealed", "backend", "default", "status"} :
                Flushed(r, target)[f] = IF target[f] = req[r].loaded[f]
                                        THEN rows[req[r].key][f] ELSE target[f]
<1> DEFINE row == rows[req[r].key]
           new == Flushed(r, target)
           fields == {"label", "shown", "sealed", "backend", "default", "status"}
<1>1. row \in Rows
  BY CreatesKey DEF IInv, TypeOK, Exists
<1>2. DOMAIN target = fields
  BY DEF Rows
<1>3. new = [f \in fields |-> IF target[f] = req[r].loaded[f] THEN row[f] ELSE target[f]]
  BY <1>2 DEF Flushed
<1> HIDE DEF new
<1>4. /\ new["label"] \in Labels /\ new["shown"] \in Materials
      /\ new["sealed"] \in Materials \cup {NoMaterial}
      /\ new["backend"] \in Backends
      /\ new["default"] \in BOOLEAN /\ new["status"] \in {"active", "invalid"}
  BY <1>1, <1>3 DEF Rows
<1>5. new = [label |-> new.label, shown |-> new.shown, sealed |-> new.sealed,
             backend |-> new.backend, default |-> new.default, status |-> new.status]
  BY <1>3
<1>6. new \in Rows
  BY <1>4, <1>5 DEF Rows
<1> QED
  BY <1>3, <1>6 DEF new

\* A call to the store about the key of the request: it puts something there, or the
\* request goes on to delete the row, or is a casualty, or the row is not there.
LEMMA SecretMoves ==
    ASSUME IInv, NEW r \in Requests, Working(r), ~Erased(r),
           NEW m \in Materials \cup {NoMaterial}, NEW outcome,
           NEW new \in RequestStates, req' = [req EXCEPT ![r] = new],
           secrets' = Held(req[r].loaded.backend, req[r].key, m, outcome),
           casualties \subseteq casualties', UNCHANGED <<rows, drawn>>,
           \/ ~Exists(req[r].key) \/ m # NoMaterial \/ outcome = "undone"
           \/ req[r].key \in casualties'
           \/ new.key = req[r].key /\ Erased(r)'
    PROVE  /\ UndrawnIsNothing' /\ SecretsHeld'
           /\ secrets' \in [Keys -> Materials \cup {NoMaterial}]
           /\ \A q \in Requests \ {r} : req[q].op = "create" =>
                secrets'[req[q].key] = secrets[req[q].key]
<1> DEFINE key == req[r].key
<1>1. /\ key \in Keys /\ key \in drawn
      /\ Exists(key) => rows[key].backend = req[r].loaded.backend
  BY CreatesKey DEF IInv, StepInv
<1>2. /\ secrets' \in [Keys -> Materials \cup {NoMaterial}]
      /\ \A j \in Keys : j # key => secrets'[j] = secrets[j]
      /\ req[r].loaded.backend = "local" => secrets' = secrets
      /\ req[r].loaded.backend # "local" /\ outcome # "undone" => secrets'[key] = m
      /\ outcome = "undone" => secrets' = secrets
  BY ZenonT(90), <1>1, HeldTypes DEF IInv, Held
<1>3. /\ req'[r] = new
      /\ \A q \in Requests : q # r => req'[q] = req[q]
  BY Moved DEF IInv
<1>4. UndrawnIsNothing'
  BY <1>1, <1>2 DEF IInv, UndrawnIsNothing, Exists
<1>5. ASSUME NEW k \in Keys, Exists(k)
      PROVE  /\ rows[k].backend = "local" =>
                    rows[k].sealed # NoMaterial /\ secrets'[k] = NoMaterial
             /\ rows[k].backend = "infisical" /\ k \notin casualties' =>
                    secrets'[k] # NoMaterial \/ \E q \in Requests : req'[q].key = k /\ Erased(q)'
  <2>1. \A q \in Requests : Erased(q) => req'[q] = req[q] /\ Erased(q)'
    BY <1>3 DEF Erased
  <2>2. CASE k # key \/ secrets' = secrets
    BY <1>2, <1>5, <2>1, <2>2 DEF IInv, SecretsHeld
  <2>3. CASE k = key /\ secrets' # secrets
    BY <1>1, <1>2, <1>3, <1>5, <2>3
  <2> QED
    BY <2>2, <2>3
<1>6. SecretsHeld'
  BY <1>5 DEF SecretsHeld, Exists
<1>7. \A q \in Requests \ {r} : req[q].op = "create" => req[q].key \in Keys \ {key}
  BY CreatesKey DEF IInv, CreateInv, StepInv
<1> QED
  BY <1>2, <1>4, <1>6, <1>7

\* The request ends with its call to the store.
LEMMA EndsWithCall ==
    ASSUME IInv, NEW r \in Requests, Working(r), ~Erased(r),
           NEW m \in Materials \cup {NoMaterial}, NEW outcome, NEW answer \in Answers,
           Ends(r, answer), secrets' = Held(req[r].loaded.backend, req[r].key, m, outcome),
           casualties \subseteq casualties', casualties' \subseteq Keys,
           UNCHANGED <<rows, refused, drawn, contended>>,
           \/ ~Exists(req[r].key) \/ m # NoMaterial \/ outcome = "undone"
           \/ req[r].key \in casualties'
    PROVE  IInv'
<1> DEFINE ended == Idle(answer)
<1>1. /\ ended \in RequestStates /\ req' = [req EXCEPT ![r] = ended]
      /\ ended.key = NoKey /\ ended.heir = NoKey /\ ended.seen = {}
      /\ DOMAIN ended.writes = {}
  BY IdleTypes DEF Ends
<1>2. req'[r] = ended
  BY <1>1, Moved DEF IInv
<1>3. StepInv(r)' /\ WritesInv(r)' /\ CreateInv(r)'
  BY <1>2, IdleHolds
<1> HIDE DEF ended
<1>4. /\ UndrawnIsNothing' /\ SecretsHeld'
      /\ secrets' \in [Keys -> Materials \cup {NoMaterial}]
      /\ \A q \in Requests \ {r} : req[q].op = "create" =>
            secrets'[req[q].key] = secrets[req[q].key]
  BY <1>1, SecretMoves
<1>5. \A q \in Requests \ {r} : req[q].op = "create" =>
        /\ req[q].key # ended.key /\ req[q].key # ended.heir
        /\ req[q].key \notin ended.seen \cup DOMAIN ended.writes
        /\ secrets'[req[q].key] = secrets[req[q].key]
  BY <1>1, <1>4, CreatesKey DEF IInv, StepInv
<1>6. \A q \in Requests \ {r} : DOMAIN ended.writes \cap Locks(q) = {}
  BY <1>1
<1>7. /\ refused' \subseteq Materials /\ drawn \subseteq drawn' /\ drawn' \subseteq Keys
      /\ contended' \subseteq Keys
  BY DEF IInv, TypeOK
<1> QED
  BY <1>1, <1>3, <1>4, <1>5, <1>6, <1>7, RowsStay

LEMMA ForgetKeeps ==
    ASSUME IInv, NEW r \in Requests, Forget(r), UNCHANGED contended
    PROVE  IInv'
<1>1. /\ req[r].op = "create" /\ Working(r) /\ ~Erased(r)
      /\ UNCHANGED <<rows, refused, drawn>> /\ Ends(r, req[r].answer)
  BY DEF Forget, At, Working, Erased
<1>2. PICK outcome \in Outcomes(req[r].loaded.backend) :
        /\ secrets' = Held(req[r].loaded.backend, req[r].key, NoMaterial, outcome)
        /\ casualties' = IF outcome = "undone" THEN casualties \cup {req[r].key}
                         ELSE casualties
  BY DEF Forget
<1>3. /\ casualties \subseteq casualties' /\ casualties' \subseteq Keys
      /\ req[r].answer \in Answers /\ ~Exists(req[r].key)
  BY <1>1, <1>2, CreatesKey, RequestTypes DEF IInv, TypeOK, CreateInv
<1> QED
  BY <1>1, <1>2, <1>3, EndsWithCall

-----------------------------------------------------------------------------
(* update_key and delete_key: the call to the store                        *)

\* The state in which a request on the row of k starts.
OnRowOf(k, new) ==
    /\ new.key = k /\ new.loaded = rows[k] /\ new.heir = NoKey /\ new.seen = {}
    /\ DOMAIN new.writes = {}
    /\ new.pc = "put" => new.material # NoMaterial
    /\ \/ new.op = "update" /\ new.pc \in {"flush", "put"}
       \/ new.op = "delete" /\ new.pc = "erase"
       \/ new.op \in {"check", "chat"} /\ new.pc = "ask"

\* A request on a row that exists.
LEMMA StartsOnRow ==
    ASSUME IInv, NEW r \in Requests, NEW k \in Keys, Exists(k), ~Working(r),
           NEW new \in RequestStates, req' = [req EXCEPT ![r] = new], OnRowOf(k, new),
           UNCHANGED <<rows, secrets, refused, drawn, casualties>>, contended' \subseteq Keys
    PROVE  IInv'
<1> USE DEF OnRowOf
<1>1. req'[r] = new /\ Locks(r)' = {}
  BY Moved DEF IInv
<1>2. k \in drawn /\ rows[k] \in Rows
  BY DEF IInv, UndrawnIsNothing, TypeOK, Exists
<1>3. StepInv(r)'
  BY <1>1, <1>2, AbsentAssumption DEF StepInv, Working, Exists
<1>4. WritesInv(r)' /\ CreateInv(r)'
  BY <1>1 DEF WritesInv, CreateInv
<1>5. ~Erased(r)
  BY DEF Erased, Working, IInv, StepInv
<1>6. UndrawnIsNothing' /\ SecretsHeld'
  BY <1>5, SecretsStay
<1>7. \A q \in Requests \ {r} : req[q].op = "create" =>
        /\ req[q].key # new.key /\ req[q].key # new.heir
        /\ req[q].key \notin new.seen \cup DOMAIN new.writes
        /\ secrets'[req[q].key] = secrets[req[q].key]
  BY CreatesKey DEF IInv, CreateInv, StepInv
<1>8. /\ secrets' \in [Keys -> Materials \cup {NoMaterial}] /\ refused' \subseteq Materials
      /\ drawn \subseteq drawn' /\ drawn' \subseteq Keys /\ casualties' \subseteq Keys
  BY DEF IInv, TypeOK
<1>9. \A q \in Requests \ {r} : DOMAIN new.writes \cap Locks(q) = {}
  OBVIOUS
<1> QED
  BY <1>3, <1>4, <1>6, <1>7, <1>8, <1>9, RowsStay

LEMMA OnRowTypes ==
    ASSUME TypeOK, NEW k \in Keys, Exists(k),
           NEW op \in {"delete", "check", "chat"}, NEW pc \in {"erase", "ask"}
    PROVE  LET new == OnRow(k, op, pc)
           IN  /\ new \in RequestStates /\ new.op = op /\ new.pc = pc /\ new.key = k
               /\ new.loaded = rows[k] /\ new.heir = NoKey /\ new.seen = {}
               /\ DOMAIN new.writes = {}
<1>1. NoWrites \in Writes /\ DOMAIN NoWrites = {}
  BY IdleTypes DEF RequestStates, Answers
<1>2. rows[k] \in Rows
  BY DEF TypeOK, Exists
<1> QED
  BY ZenonT(90), <1>1, <1>2 DEF OnRow, Idle, RequestStates, Steps, Answers

LEMMA StartUpdateKeeps ==
    ASSUME IInv, NEW r \in Requests, StartUpdate(r), contended' \subseteq Keys
    PROVE  IInv'
<1>1. PICK k \in Keys, m \in Materials \cup {NoMaterial}, label \in Labels \cup {NoLabel},
           makeDefault \in BOOLEAN :
        Exists(k) /\ req' = [req EXCEPT ![r] = Change(k, m, label, makeDefault)]
  BY DEF StartUpdate
<1> DEFINE new == Change(k, m, label, makeDefault)
<1>2. /\ new \in RequestStates /\ new.op = "update" /\ new.pc \in {"flush", "put"}
      /\ new.pc = "put" => new.material # NoMaterial
      /\ new.key = k /\ new.loaded = rows[k] /\ new.heir = NoKey /\ new.seen = {}
      /\ DOMAIN new.writes = {}
  <2>1. NoWrites \in Writes /\ DOMAIN NoWrites = {}
    BY IdleTypes DEF RequestStates, Answers
  <2>2. rows[k] \in Rows
    BY <1>1 DEF IInv, TypeOK, Exists
  <2> DEFINE pc == IF m = NoMaterial THEN "flush" ELSE "put"
  <2>3. pc \in {"flush", "put"} /\ pc \in Steps /\ (pc = "put" => m # NoMaterial)
    BY DEF Steps
  <2>4. new = [Idle("none") EXCEPT !.op = "update", !.key = k, !.loaded = rows[k],
                    !.material = m, !.label = label, !.makeDefault = makeDefault, !.pc = pc]
    BY DEF Change
  <2> HIDE DEF pc, new
  <2>5. new = [op |-> "update", pc |-> pc, key |-> k, loaded |-> rows[k],
               material |-> m, label |-> label, makeDefault |-> makeDefault,
               heir |-> NoKey, accepted |-> FALSE, seen |-> {}, writes |-> NoWrites,
               answer |-> "none"]
    BY <2>4 DEF Idle
  <2> QED
    BY <2>1, <2>2, <2>3, <2>5 DEF RequestStates, Answers
<1> HIDE DEF new
<1>3. ~Working(r) /\ UNCHANGED <<rows, secrets, refused, drawn, casualties>>
  BY DEF StartUpdate, Working
<1>4. req' = [req EXCEPT ![r] = new]
  BY <1>1 DEF new
<1>5. new \in RequestStates /\ OnRowOf(k, new) /\ Exists(k)
  BY <1>1, <1>2 DEF OnRowOf
<1> QED
  BY <1>3, <1>4, <1>5, StartsOnRow

LEMMA StartDeleteKeeps ==
    ASSUME IInv, NEW r \in Requests, StartDelete(r), contended' \subseteq Keys
    PROVE  IInv'
<1>1. PICK k \in Keys : Exists(k) /\ req' = [req EXCEPT ![r] = OnRow(k, "delete", "erase")]
  BY DEF StartDelete
<1> DEFINE new == OnRow(k, "delete", "erase")
<1>2. /\ new \in RequestStates /\ new.op = "delete" /\ new.pc = "erase" /\ new.key = k
      /\ new.loaded = rows[k] /\ new.heir = NoKey /\ new.seen = {}
      /\ DOMAIN new.writes = {} /\ req' = [req EXCEPT ![r] = new]
  BY <1>1, OnRowTypes DEF IInv
<1> HIDE DEF new
<1>3. ~Working(r) /\ UNCHANGED <<rows, secrets, refused, drawn, casualties>>
  BY DEF StartDelete, Working
<1>4. new \in RequestStates /\ OnRowOf(k, new) /\ Exists(k)
  BY <1>1, <1>2 DEF OnRowOf
<1> QED
  BY <1>2, <1>3, <1>4, StartsOnRow

LEMMA StartCheckKeeps ==
    ASSUME IInv, NEW r \in Requests, StartCheck(r), contended' \subseteq Keys
    PROVE  IInv'
<1>1. PICK k \in Keys, op \in {"check", "chat"} :
        Exists(k) /\ req' = [req EXCEPT ![r] = OnRow(k, op, "ask")]
  BY DEF StartCheck
<1> DEFINE new == OnRow(k, op, "ask")
<1>2. /\ new \in RequestStates /\ new.op = op /\ new.pc = "ask" /\ new.key = k
      /\ new.loaded = rows[k] /\ new.heir = NoKey /\ new.seen = {}
      /\ DOMAIN new.writes = {} /\ req' = [req EXCEPT ![r] = new]
  BY <1>1, OnRowTypes DEF IInv
<1> HIDE DEF new
<1>3. ~Working(r) /\ UNCHANGED <<rows, secrets, refused, drawn, casualties>>
  BY DEF StartCheck, Working
<1>4. new \in RequestStates /\ OnRowOf(k, new) /\ Exists(k)
  BY <1>1, <1>2 DEF OnRowOf
<1> QED
  BY <1>2, <1>3, <1>4, StartsOnRow

\* The call has been answered: the request goes on, to its rows.
LEMMA GoesAfterCall ==
    ASSUME IInv, NEW r \in Requests, NEW m \in Materials \cup {NoMaterial}, NEW outcome,
           NEW pc \in {"flush", "remove"}, Goto(r, pc),
           \/ req[r].op = "update" /\ req[r].pc = "put" /\ pc = "flush" /\ m # NoMaterial
           \/ req[r].op = "delete" /\ req[r].pc = "erase" /\ pc = "remove",
           secrets' = Held(req[r].loaded.backend, req[r].key, m, outcome),
           UNCHANGED <<rows, refused, drawn, casualties, contended>>
    PROVE  IInv'
<1> DEFINE new == [req[r] EXCEPT !.pc = pc]
<1>1. Working(r) /\ ~Erased(r) /\ req[r].heir = NoKey /\ Locks(r) = {}
  BY DEF Working, Erased, IInv, StepInv, WritesInv
<1>2. /\ new \in RequestStates /\ new.pc = pc /\ new.op = req[r].op
      /\ new.key = req[r].key /\ new.loaded = req[r].loaded /\ new.heir = NoKey
      /\ new.seen = req[r].seen /\ new.writes = req[r].writes
      /\ new.material = req[r].material /\ req' = [req EXCEPT ![r] = new]
  <2>1. req[r] \in RequestStates /\ pc \in Steps
    BY RequestTypes DEF IInv, Steps
  <2> QED
    BY <1>1, <2>1 DEF RequestStates, Goto
<1> HIDE DEF new
<1>3. req'[r] = new /\ Locks(r)' = {}
  BY <1>1, <1>2, Moved DEF IInv, Locks
<1>4. /\ UndrawnIsNothing' /\ SecretsHeld'
      /\ secrets' \in [Keys -> Materials \cup {NoMaterial}]
      /\ \A q \in Requests \ {r} : req[q].op = "create" =>
            secrets'[req[q].key] = secrets[req[q].key]
  <2>1. CASE pc = "flush"
    BY <1>1, <1>2, <2>1, SecretMoves
  <2>2. CASE pc = "remove"
    <3>1. Erased(r)' /\ new.key = req[r].key
      BY <1>2, <1>3, <2>2 DEF Erased
    <3> QED
      BY <1>1, <1>2, <3>1, SecretMoves
  <2> QED
    BY <2>1, <2>2
<1>5. StepInv(r)'
  BY <1>1, <1>2, <1>3 DEF IInv, StepInv, Working, Exists
<1>6. WritesInv(r)' /\ CreateInv(r)'
  BY <1>2, <1>3 DEF WritesInv, CreateInv
<1>7. \A q \in Requests \ {r} : req[q].op = "create" =>
        /\ req[q].key # new.key /\ req[q].key # new.heir
        /\ req[q].key \notin new.seen \cup DOMAIN new.writes
        /\ secrets'[req[q].key] = secrets[req[q].key]
  BY <1>1, <1>2, <1>4, CreatesKey DEF IInv, CreateInv, StepInv, Locks
<1>8. /\ refused' \subseteq Materials /\ drawn \subseteq drawn' /\ drawn' \subseteq Keys
      /\ casualties' \subseteq Keys /\ contended' \subseteq Keys
  BY DEF IInv, TypeOK
<1>9. \A q \in Requests \ {r} : DOMAIN new.writes \cap Locks(q) = {}
  BY <1>1, <1>2 DEF Locks
<1> QED
  BY <1>2, <1>4, <1>5, <1>6, <1>7, <1>8, <1>9, RowsStay

LEMMA PutKeeps ==
    ASSUME IInv, NEW r \in Requests, Put(r), UNCHANGED contended
    PROVE  IInv'
<1>1. /\ req[r].op = "update" /\ req[r].pc = "put" /\ Working(r) /\ ~Erased(r)
      /\ UNCHANGED <<rows, refused, drawn>>
  BY DEF Put, At, Working, Erased
<1>2. PICK outcome \in Outcomes(req[r].loaded.backend) :
        /\ secrets' = Held(req[r].loaded.backend, req[r].key, req[r].material, outcome)
        /\ \/ outcome = "done" /\ Goto(r, "flush") /\ UNCHANGED casualties
           \/ StoreFails(r, req[r].key, outcome, "failed")
  BY DEF Put
<1>3. /\ req[r].material \in Materials \cup {NoMaterial}
      /\ req[r].key \in Keys /\ "failed" \in Answers
  BY <1>1, CreatesKey, RequestTypes DEF IInv, Answers
<1>4. req[r].material # NoMaterial
  BY <1>1 DEF IInv, StepInv
<1>5. CASE Goto(r, "flush") /\ UNCHANGED casualties
  BY <1>1, <1>2, <1>3, <1>4, <1>5, GoesAfterCall
<1>6. CASE StoreFails(r, req[r].key, outcome, "failed")
  <2>1. /\ Ends(r, "failed") /\ casualties \subseteq casualties' /\ casualties' \subseteq Keys
    BY <1>3, <1>6 DEF StoreFails, IInv, TypeOK
  <2> QED
    BY <1>1, <1>2, <1>3, <1>4, <2>1, EndsWithCall
<1> QED
  BY <1>2, <1>5, <1>6

LEMMA EraseSecretKeeps ==
    ASSUME IInv, NEW r \in Requests, EraseSecret(r), UNCHANGED contended
    PROVE  IInv'
<1>1. /\ req[r].op = "delete" /\ req[r].pc = "erase" /\ Working(r) /\ ~Erased(r)
      /\ UNCHANGED <<rows, refused, drawn>>
  BY DEF EraseSecret, At, Working, Erased
<1>2. PICK outcome \in Outcomes(req[r].loaded.backend) :
        /\ secrets' = Held(req[r].loaded.backend, req[r].key, NoMaterial, outcome)
        /\ \/ outcome = "done" /\ Goto(r, "remove") /\ UNCHANGED casualties
           \/ StoreFails(r, req[r].key, outcome, "notDeleted")
  BY DEF EraseSecret
<1>3. req[r].key \in Keys /\ "notDeleted" \in Answers
  BY <1>1, CreatesKey DEF Answers
<1>4. CASE Goto(r, "remove") /\ UNCHANGED casualties
  BY <1>1, <1>2, <1>4, GoesAfterCall
<1>5. CASE StoreFails(r, req[r].key, outcome, "notDeleted")
  <2>1. /\ Ends(r, "notDeleted")
        /\ casualties \subseteq casualties' /\ casualties' \subseteq Keys
        /\ outcome = "undone" \/ req[r].key \in casualties'
    BY <1>3, <1>5 DEF StoreFails, IInv, TypeOK, Outcomes
  <2> QED
    BY <1>1, <1>2, <1>3, <2>1, EndsWithCall
<1> QED
  BY <1>2, <1>4, <1>5

-----------------------------------------------------------------------------
(* update_key: the flush                                                   *)

\* What update_key writes: the row as it is, relabelled and with its new key.
LEMMA FlushedUpdateIs ==
    ASSUME IInv, NEW r \in Requests, Working(r), Exists(req[r].key), req[r].op = "update"
    PROVE  LET w == FlushedUpdate(r)
           IN  /\ w \in Rows
               /\ w.default = rows[req[r].key].default
               /\ w.backend = rows[req[r].key].backend
               /\ w.backend = "local" => w.sealed # NoMaterial
<1> DEFINE row == rows[req[r].key]
           old == req[r].loaded
           written == Flushed(r, Rewritten(r))
           w == FlushedUpdate(r)
<1>1. /\ old \in Rows /\ row \in Rows /\ req[r].key \in Keys
      /\ req[r].material \in Materials \cup {NoMaterial}
      /\ req[r].label \in Labels \cup {NoLabel}
  BY CreatesKey, RequestTypes DEF IInv, TypeOK, Exists
<1>2. /\ Rewritten(r) \in Rows /\ Rewritten(r).default = old.default
      /\ Rewritten(r).backend = old.backend /\ Rewritten(r).sealed = old.sealed
  BY <1>1 DEF Rewritten, Rotates, Relabels, Rows
<1>3. /\ written \in Rows
      /\ \A f \in {"label", "shown", "sealed", "backend", "default", "status"} :
            written[f] = IF Rewritten(r)[f] = old[f] THEN row[f] ELSE Rewritten(r)[f]
  BY <1>2, FlushedIs
<1>4. /\ written.default = row.default /\ written.backend = row.backend
      /\ written.sealed = row.sealed
  BY <1>2, <1>3
<1>5. row.backend = "local" => row.sealed # NoMaterial
  BY <1>1 DEF IInv, SecretsHeld
<1> HIDE DEF written, row
<1>6. CASE Rotates(r) /\ written.backend = "local"
  <2>1. w = [written EXCEPT !.sealed = req[r].material]
    BY <1>6 DEF FlushedUpdate, written
  <2>2. req[r].material \in Materials /\ req[r].material # NoMaterial
    BY <1>1, <1>6 DEF Rotates
  <2> HIDE DEF w
  <2>3. /\ w \in Rows /\ w.default = written.default /\ w.backend = written.backend
        /\ w.sealed = req[r].material
    BY <1>3, <2>1, <2>2 DEF Rows
  <2> QED
    BY <1>4, <2>2, <2>3 DEF w, row
<1>7. CASE ~(Rotates(r) /\ written.backend = "local")
  <2>1. w = written
    BY <1>7 DEF FlushedUpdate, written
  <2> QED
    BY <1>3, <1>4, <1>5, <2>1 DEF row
<1> QED
  BY <1>6, <1>7

\* A row a step needs is not locked by another request.
LEMMA NeededIsFree ==
    ASSUME NEW r \in Requests, WaitsFor(r) = {}, NEW k \in Needs(r), NEW q \in Requests \ {r}
    PROVE  k \notin Locks(q)
BY DEF WaitsFor, Locks

LEMMA FlushKeeps ==
    ASSUME IInv, NEW r \in Requests, Flush(r), UNCHANGED contended
    PROVE  IInv'
<1> DEFINE key == req[r].key
           next == AfterFlush(r)
<1>1. /\ req[r].op = "update" /\ req[r].pc = "flush" /\ Working(r) /\ WaitsFor(r) = {}
      /\ key \in Keys /\ key \in drawn /\ req[r].loaded \in Rows
      /\ req[r] \in RequestStates /\ req[r].material \in Materials \cup {NoMaterial}
      /\ req[r].label \in Labels \cup {NoLabel}
  BY CreatesKey, RequestTypes DEF Flush, At, Working, IInv
<1>2. /\ Locks(r) = {} /\ req[r].heir = NoKey /\ req[r].seen \subseteq drawn \ {key}
  BY <1>1 DEF IInv, StepInv, WritesInv
<1>3. next \in {"scan", "commit"} /\ next \in Steps /\ (next = "scan" => req[r].makeDefault)
  BY DEF AfterFlush, Steps
<1>4. \A q \in Requests \ {r} : req[q].op = "create" =>
        req[q].key \notin {NoKey, key} \cup req[r].seen
  BY <1>2, CreatesKey DEF IInv, CreateInv, StepInv
<1> HIDE DEF next
<1>5. CASE Needs(r) = {} /\ Goto(r, next) /\ UNCHANGED <<rows, secrets, refused, drawn, casualties>>
  <2> DEFINE new == [req[r] EXCEPT !.pc = next]
  <2>1. /\ new \in RequestStates /\ new.pc = next /\ new.op = "update" /\ new.key = key
        /\ new.loaded = req[r].loaded /\ new.heir = NoKey /\ new.seen = req[r].seen
        /\ new.writes = req[r].writes /\ new.material = req[r].material
        /\ new.makeDefault = req[r].makeDefault /\ req' = [req EXCEPT ![r] = new]
    BY <1>1, <1>2, <1>3, <1>5 DEF RequestStates, Goto
  <2> HIDE DEF new
  <2>2. req'[r] = new /\ Locks(r)' = {}
    BY <1>2, <2>1, Moved DEF IInv, Locks
  <2>3. StepInv(r)'
    BY <1>1, <1>2, <1>3, <1>5, <2>1, <2>2 DEF IInv, StepInv, Working, Exists
  <2>4. req[r].material = NoMaterial
    BY <1>1, <1>5 DEF Needs, Rotates
  <2>5. WritesInv(r)' /\ CreateInv(r)'
    BY <2>1, <2>2, <2>4 DEF WritesInv, CreateInv, Rotates
  <2>6. \A q \in Requests \ {r} : req[q].op = "create" =>
            req[q].key # new.heir /\ req[q].key \notin new.seen \cup DOMAIN new.writes
    BY <1>2, <1>4, <2>1 DEF Locks
  <2>7. \A q \in Requests \ {r} : DOMAIN new.writes \cap Locks(q) = {}
    BY <1>2, <2>1 DEF Locks
  <2> QED
    BY <1>1, <1>5, <2>1, <2>3, <2>5, <2>6, <2>7, RequestGoes
<1>6. CASE /\ Needs(r) # {} /\ Exists(key)
           /\ req' = [req EXCEPT ![r].pc = next,
                                 ![r].writes = [j \in {key} |-> FlushedUpdate(r)]]
           /\ UNCHANGED <<rows, secrets, refused, drawn, casualties>>
  <2> DEFINE w == FlushedUpdate(r)
             written == [j \in {key} |-> w]
             new == [req[r] EXCEPT !.pc = next, !.writes = written]
  <2>1. /\ w \in Rows /\ w.default = rows[key].default /\ w.backend = rows[key].backend
        /\ w.backend = "local" => w.sealed # NoMaterial
    BY <1>1, <1>6, FlushedUpdateIs
  <2> HIDE DEF w
  <2>2. written \in Writes /\ DOMAIN written = {key} /\ written[key] = w
    <3>1. written \in [{key} -> Rows \cup {NoRow}] /\ {key} \in SUBSET Keys
      BY <1>1, <2>1
    <3> QED
      BY <3>1, WritesAre
  <2>3. req' = [req EXCEPT ![r].pc = next, ![r].writes = written]
    BY <1>6 DEF w
  <2> HIDE DEF written
  <2>4. /\ new \in RequestStates /\ new.pc = next /\ new.op = "update" /\ new.key = key
        /\ new.loaded = req[r].loaded /\ new.heir = NoKey /\ new.seen = req[r].seen
        /\ new.writes = written /\ new.material = req[r].material
        /\ new.makeDefault = req[r].makeDefault /\ req' = [req EXCEPT ![r] = new]
    BY ZenonT(90), <1>1, <1>2, <1>3, <2>2, <2>3 DEF RequestStates
  <2> HIDE DEF new
  <2>5. req'[r] = new /\ Locks(r)' = {key}
    BY <2>2, <2>4, Moved DEF IInv
  <2>6. StepInv(r)'
    <3>1. rows'[key].backend = req[r].loaded.backend /\ drawn' = drawn
      BY <1>1, <1>6 DEF IInv, StepInv, Exists
    <3> QED
      BY <1>1, <1>2, <1>3, <2>4, <2>5, <3>1 DEF StepInv, Working, Exists
  <2>7. WritesInv(r)'
    BY ZenonT(90), <1>1, <1>3, <1>6, <2>1, <2>2, <2>4, <2>5 DEF WritesInv, Exists
  <2>8. CreateInv(r)'
    BY <2>4, <2>5 DEF CreateInv
  <2>9. \A q \in Requests \ {r} : req[q].op = "create" =>
            req[q].key # new.heir /\ req[q].key \notin new.seen \cup DOMAIN new.writes
    BY <1>2, <1>4, <2>2, <2>4
  <2>10. \A q \in Requests \ {r} : DOMAIN new.writes \cap Locks(q) = {}
    <3>1. key \in Needs(r)
      BY <1>1, <1>6 DEF Needs
    <3>2. \A q \in Requests \ {r} : key \notin Locks(q)
      BY <1>1, <3>1, NeededIsFree
    <3> QED
      BY <2>2, <2>4, <3>2
  <2> QED
    BY <1>1, <1>6, <2>4, <2>6, <2>7, <2>8, <2>9, <2>10, RequestGoes
<1>7. CASE Fails(r, "duplicate") \/ Fails(r, "failed")
  BY <1>1, <1>7, FailsKeeps DEF Answers
<1> QED
  BY <1>5, <1>6, <1>7 DEF Flush, next

-----------------------------------------------------------------------------
(* Replacing the default                                                   *)

\* A request that goes on is at a step of its operation.
LEMMA StepFollows ==
    ASSUME IInv, NEW r \in Requests, Working(r), NEW new, req'[r] = new, UNCHANGED <<rows, drawn>>,
           new.key = req[r].key, new.loaded = req[r].loaded, new.op = req[r].op,
           new.makeDefault = req[r].makeDefault, new.heir = NoKey,
           new.seen \subseteq drawn \ {req[r].key},
           \/ new.op = "create" /\ new.pc \in {"forget", "clear", "commit"}
           \/ new.op = "update" /\ new.pc \in {"clear", "commit"}
           \/ new.op \in {"check", "chat"} /\ new.pc = "record",
           new.pc = "clear" => req[r].makeDefault
    PROVE  StepInv(r)'
<1>1. /\ req[r].key \in drawn /\ req[r].loaded \in Rows
      /\ Exists(req[r].key) => rows[req[r].key].backend = req[r].loaded.backend
  BY DEF IInv, StepInv
<1>2. rows' = rows /\ drawn' = drawn
  OBVIOUS
<1>3. req'[r].pc # "idle"
  OBVIOUS
<1> QED
  BY <1>1, <1>2, <1>3 DEF StepInv, Working, Exists

LEMMA ScanDefaultsKeeps ==
    ASSUME IInv, NEW r \in Requests, ScanDefaults(r), UNCHANGED contended
    PROVE  IInv'
<1> DEFINE key == req[r].key
           found == {k \in Keys \ {key} : IsDefault(k)}
           new == [req[r] EXCEPT !.pc = "clear", !.seen = found]
<1>1. /\ req[r].op \in {"create", "update"} /\ req[r].pc = "scan" /\ Working(r)
      /\ req[r] \in RequestStates
      /\ UNCHANGED <<rows, secrets, refused, drawn, casualties>>
  BY RequestTypes DEF ScanDefaults, At, Working, IInv
<1>2. /\ key \in Keys /\ key \in drawn /\ req[r].loaded \in Rows /\ req[r].heir = NoKey
      /\ Exists(key) => rows[key].backend = req[r].loaded.backend
      /\ req[r].makeDefault
  BY <1>1, CreatesKey DEF IInv, StepInv
<1>3. /\ found \in SUBSET Keys /\ found \subseteq drawn \ {key}
      /\ \A k \in found : Exists(k)
  BY DEF IInv, UndrawnIsNothing, IsDefault
<1>4. req' = [req EXCEPT ![r].pc = "clear", ![r].seen = found]
  BY DEF ScanDefaults
<1> HIDE DEF found
<1>5. /\ new \in RequestStates /\ new.pc = "clear" /\ new.op = req[r].op /\ new.key = key
      /\ new.loaded = req[r].loaded /\ new.heir = NoKey /\ new.seen = found
      /\ new.writes = req[r].writes /\ new.material = req[r].material
      /\ new.makeDefault = req[r].makeDefault /\ req' = [req EXCEPT ![r] = new]
  BY ZenonT(90), <1>1, <1>2, <1>3, <1>4 DEF RequestStates, Steps
<1> HIDE DEF new
<1>6. /\ req'[r] = new /\ Locks(r)' = Locks(r)
      /\ \A q \in Requests : q # r => req'[q] = req[q] /\ Locks(q)' = Locks(q)
  BY <1>5, Moved DEF IInv, Locks
<1>7. StepInv(r)'
  BY ZenonT(90), <1>1, <1>2, <1>3, <1>5, <1>6, StepFollows
<1>8. WritesInv(r) /\ CreateInv(r)
  BY DEF IInv
<1>9. WritesInv(r)'
  BY <1>1, <1>5, <1>6, <1>8 DEF WritesInv, Exists, Rotates
<1>10. CreateInv(r)'
  BY <1>1, <1>5, <1>6, <1>8 DEF CreateInv, Exists
<1>11. \A q \in Requests \ {r} : req[q].op = "create" =>
            req[q].key # new.heir /\ req[q].key \notin new.seen \cup DOMAIN new.writes
  BY <1>3, <1>5, CreatesKey DEF IInv, CreateInv, StepInv, Locks
<1>12. \A q \in Requests \ {r} : DOMAIN new.writes \cap Locks(q) = {}
  BY <1>5 DEF IInv, LocksExclude, Locks
<1> QED
  BY <1>1, <1>5, <1>7, <1>9, <1>10, <1>11, <1>12, RequestGoes

LEMMA ClearDefaultsKeeps ==
    ASSUME IInv, NEW r \in Requests, ClearDefaults(r), UNCHANGED contended
    PROVE  IInv'
<1> DEFINE key == req[r].key
           still == {k \in req[r].seen : IsDefault(k)}
           old == req[r].writes
           cleared == [k \in DOMAIN old \cup still |->
                        IF k \in DOMAIN old THEN old[k] ELSE [rows[k] EXCEPT !.default = FALSE]]
           new == [req[r] EXCEPT !.pc = "commit", !.seen = {}, !.writes = cleared]
<1>1. /\ req[r].op \in {"create", "update"} /\ req[r].pc = "clear" /\ Working(r)
      /\ req[r] \in RequestStates /\ WaitsFor(r) = {}
      /\ UNCHANGED <<rows, secrets, refused, drawn, casualties>>
  BY RequestTypes DEF ClearDefaults, At, Working, IInv
<1>2. /\ key \in Keys /\ key \in drawn /\ req[r].loaded \in Rows /\ req[r].heir = NoKey
      /\ Exists(key) => rows[key].backend = req[r].loaded.backend
      /\ req[r].seen \subseteq drawn \ {key}
      /\ Locks(r) \in SUBSET Keys /\ \A k \in Locks(r) : req[r].writes[k] \in Rows \cup {NoRow}
  BY <1>1, CreatesKey, RequestTypes DEF IInv, StepInv
<1>3. /\ still \in SUBSET Keys /\ still \subseteq drawn \ {key}
      /\ \A k \in still : Exists(k)
  BY <1>2 DEF IsDefault, IInv, TypeOK
<1>4. \A k \in still : [rows[k] EXCEPT !.default = FALSE] \in Rows
  <2>1. \A k \in still : rows[k] \in Rows
    BY <1>3 DEF IInv, TypeOK, Exists
  <2> QED
    BY <2>1 DEF Rows
<1>5. req' = [req EXCEPT ![r].pc = "commit", ![r].seen = {}, ![r].writes = cleared]
  BY DEF ClearDefaults
<1>6. /\ cleared \in Writes /\ DOMAIN cleared = Locks(r) \cup still
      /\ \A k \in Locks(r) : cleared[k] = req[r].writes[k]
      /\ \A k \in still \ Locks(r) : cleared[k] = [rows[k] EXCEPT !.default = FALSE]
  <2>1. DOMAIN old \cup still \in SUBSET Keys
    BY <1>2, <1>3 DEF Locks
  <2>2. cleared \in [DOMAIN old \cup still -> Rows \cup {NoRow}]
    BY <1>2, <1>4 DEF Locks
  <2>3. cleared \in Writes
    BY <2>1, <2>2, WritesAre
  <2> QED
    BY <2>3 DEF Locks
<1>7. \A k \in still, q \in Requests \ {r} : k \notin Locks(q)
  <2>1. still \subseteq Needs(r)
    BY <1>1 DEF Needs
  <2> QED
    BY <1>1, <2>1, NeededIsFree
<1> HIDE DEF cleared, still
<1>8. /\ new \in RequestStates /\ new.pc = "commit" /\ new.op = req[r].op /\ new.key = key
      /\ new.loaded = req[r].loaded /\ new.heir = NoKey /\ new.seen = {}
      /\ new.writes = cleared /\ new.material = req[r].material
      /\ new.makeDefault = req[r].makeDefault /\ req' = [req EXCEPT ![r] = new]
  <2>1. /\ req[r] \in RequestStates /\ req[r].heir = NoKey /\ cleared \in Writes
        /\ "commit" \in Steps /\ {} \in SUBSET Keys
    BY <1>1, <1>2, <1>6 DEF Steps
  <2>2. req' = [req EXCEPT ![r] = new]
    BY <1>5
  <2> QED
    BY ZenonT(90), <2>1, <2>2 DEF RequestStates
<1> HIDE DEF new
<1>9. /\ req'[r] = new /\ Locks(r)' = Locks(r) \cup still
      /\ \A q \in Requests : q # r => req'[q] = req[q] /\ Locks(q)' = Locks(q)
  BY <1>6, <1>8, Moved DEF IInv
<1>10. StepInv(r)'
  <2>1. /\ new.seen \subseteq drawn \ {req[r].key}
        /\ \/ new.op = "create" /\ new.pc \in {"forget", "clear", "commit"}
           \/ new.op = "update" /\ new.pc \in {"clear", "commit"}
           \/ new.op \in {"check", "chat"} /\ new.pc = "record"
        /\ (new.pc = "clear" => req[r].makeDefault)
    BY <1>1, <1>8
  <2> QED
    BY <1>1, <1>8, <1>9, <2>1, StepFollows
<1>11. WritesInv(r) /\ CreateInv(r)
  BY DEF IInv
<1>12. WritesInv(r)'
  <2>1. \A k \in Locks(r)' \ {key} :
            rows'[k] # NoRow /\ new.writes[k] = [rows'[k] EXCEPT !.default = FALSE]
    <3> SUFFICES ASSUME NEW k \in (Locks(r) \cup still) \ {key}
                 PROVE  rows[k] # NoRow /\ cleared[k] = [rows[k] EXCEPT !.default = FALSE]
      BY <1>1, <1>8, <1>9
    <3>1. CASE k \in Locks(r)
      BY <1>1, <1>6, <1>11, <3>1 DEF WritesInv, Exists
    <3>2. CASE k \notin Locks(r)
      BY <1>3, <1>6, <3>2 DEF Exists
    <3> QED
      BY <3>1, <3>2
  <2>2. key \in Locks(r)' <=> key \in Locks(r)
    BY <1>3, <1>9
  <2>3. key \in Locks(r) => new.writes[key] = req[r].writes[key]
    BY <1>6, <1>8
  <2>4. Locks(r)' \subseteq drawn'
    BY <1>1, <1>3, <1>9, <1>11 DEF WritesInv
  <2> QED
    BY <1>1, <1>8, <1>9, <1>11, <2>1, <2>2, <2>3, <2>4 DEF WritesInv, Exists, Rotates
<1>13. CreateInv(r)'
  BY <1>1, <1>8, <1>9, <1>11 DEF CreateInv, Exists
<1>14. \A q \in Requests \ {r} : req[q].op = "create" =>
            req[q].key # new.heir /\ req[q].key \notin new.seen \cup DOMAIN new.writes
  BY <1>3, <1>6, <1>8, CreatesKey DEF IInv, CreateInv, StepInv
<1>15. \A q \in Requests \ {r} : DOMAIN new.writes \cap Locks(q) = {}
  BY <1>6, <1>7, <1>8 DEF IInv, LocksExclude
<1> QED
  BY <1>1, <1>8, <1>10, <1>12, <1>13, <1>14, <1>15, RequestGoes

-----------------------------------------------------------------------------
(* delete_key: the row                                                     *)

LEMMA RemoveRowKeeps ==
    ASSUME IInv, NEW r \in Requests, RemoveRow(r), UNCHANGED contended
    PROVE  IInv'
<1> DEFINE key == req[r].key
           written == Removed(r)
<1>1. /\ req[r].op = "delete" /\ req[r].pc = "remove" /\ Working(r) /\ WaitsFor(r) = {}
      /\ UNCHANGED <<rows, secrets, refused, drawn, casualties>>
  BY DEF RemoveRow, At, Working
<1>2. /\ key \in Keys /\ key \in drawn /\ req[r].loaded \in Rows
      /\ Exists(key) => rows[key].backend = req[r].loaded.backend
      /\ req[r].seen \subseteq drawn \ {key} /\ req[r].heir = NoKey
      /\ req[r] \in RequestStates
  BY <1>1, CreatesKey, RequestTypes DEF IInv, StepInv
<1>3. /\ written \in Writes /\ DOMAIN written = {j \in {key} : Exists(j)}
      /\ \A k \in DOMAIN written : written[k] = NoRow
  <2>1. {j \in {key} : Exists(j)} \in SUBSET Keys
    BY <1>2
  <2>2. written \in [{j \in {key} : Exists(j)} -> Rows \cup {NoRow}]
    BY DEF Removed
  <2>3. written \in Writes
    BY <2>1, <2>2, WritesAre
  <2> QED
    BY <2>3 DEF Removed
<1>4. \A q \in Requests \ {r} : key \notin Locks(q)
  BY <1>1, NeededIsFree DEF Needs
<1> HIDE DEF written
<1>5. PICK heir \in {NoKey} \cup {k \in Keys \ {key} : Active(k)} :
        req' = [req EXCEPT ![r] = Removal(r, heir)]
  BY DEF RemoveRow
<1> DEFINE new == Removal(r, heir)
<1>6. /\ heir \in Keys \cup {NoKey}
      /\ heir # NoKey => heir \in drawn \ {key} /\ Exists(heir)
  BY DEF Active, IInv, UndrawnIsNothing
<1>7. /\ new \in RequestStates /\ new.pc = "commit" /\ new.op = "delete" /\ new.key = key
      /\ new.loaded = req[r].loaded /\ new.heir = heir /\ new.seen = req[r].seen
      /\ new.writes = written /\ req' = [req EXCEPT ![r] = new]
  <2>1. new = [req[r] EXCEPT !.pc = "commit", !.writes = written, !.heir = heir]
    BY DEF Removal, written
  <2>2. "commit" \in Steps
    BY DEF Steps
  <2> HIDE DEF new
  <2> QED
    BY ZenonT(90), <1>1, <1>2, <1>3, <1>5, <1>6, <2>1, <2>2 DEF RequestStates, new
<1> HIDE DEF new
<1>8. /\ req'[r] = new /\ Locks(r)' = {j \in {key} : Exists(j)}
      /\ \A q \in Requests : q # r => req'[q] = req[q] /\ Locks(q)' = Locks(q)
  BY ZenonT(90), <1>3, <1>7, Moved DEF IInv
<1>9. rows' = rows /\ drawn' = drawn
  BY <1>1
<1>10. StepInv(r)'
  BY <1>2, <1>6, <1>7, <1>8, <1>9 DEF StepInv, Working, Exists
<1>11. WritesInv(r)' /\ CreateInv(r)'
  BY <1>2, <1>3, <1>7, <1>8, <1>9 DEF WritesInv, CreateInv, Exists
<1>12. \A q \in Requests \ {r} : req[q].op = "create" =>
            req[q].key # new.heir /\ req[q].key \notin new.seen \cup DOMAIN new.writes
  BY <1>3, <1>6, <1>7, CreatesKey DEF IInv, CreateInv, StepInv
<1>13. \A q \in Requests \ {r} : DOMAIN new.writes \cap Locks(q) = {}
  BY <1>3, <1>4, <1>7
<1> QED
  BY <1>1, <1>7, <1>10, <1>11, <1>12, <1>13, RequestGoes

-----------------------------------------------------------------------------
(* Checks and chats, failures                                              *)

LEMMA AskKeeps ==
    ASSUME IInv, NEW r \in Requests, Ask(r), UNCHANGED contended
    PROVE  IInv'
<1> DEFINE key == req[r].key
           accepted == Revealed(r) \notin refused
           new == [req[r] EXCEPT !.pc = "record", !.accepted = accepted]
<1>1. /\ req[r].op \in {"check", "chat"} /\ req[r].pc = "ask" /\ Working(r) /\ ~Erased(r)
      /\ UNCHANGED <<rows, secrets, refused, drawn, casualties>>
      /\ req[r] \in RequestStates
  BY RequestTypes DEF Ask, At, Working, Erased, IInv
<1>2. CASE Ends(r, "none")
  <2>1. "none" \in Answers /\ casualties' \subseteq Keys /\ contended' \subseteq Keys
    BY <1>1 DEF Answers, IInv, TypeOK
  <2> QED
    BY <1>1, <1>2, <2>1, RequestEnds
<1>3. CASE req' = [req EXCEPT ![r].pc = "record", ![r].accepted = accepted]
  <2>1. accepted \in BOOLEAN
    OBVIOUS
  <2> HIDE DEF accepted
  <2>2. Locks(r) = {} /\ req[r].heir = NoKey /\ req[r].seen \subseteq drawn \ {key}
    BY <1>1 DEF IInv, StepInv, WritesInv
  <2>3. /\ new \in RequestStates /\ new.pc = "record" /\ new.op = req[r].op /\ new.key = key
        /\ new.loaded = req[r].loaded /\ new.heir = NoKey /\ new.seen = req[r].seen
        /\ new.writes = req[r].writes /\ new.makeDefault = req[r].makeDefault
    BY ZenonT(90), <1>1, <2>1, <2>2 DEF RequestStates, Steps
  <2>4. req' = [req EXCEPT ![r] = new]
    BY <1>3
  <2> HIDE DEF new
  <2>5. req'[r] = new /\ Locks(r)' = {}
    BY <2>2, <2>3, <2>4, Moved DEF IInv, Locks
  <2>6. StepInv(r)'
    BY <1>1, <2>2, <2>3, <2>5, StepFollows
  <2>7. WritesInv(r)' /\ CreateInv(r)'
    BY <1>1, <2>3, <2>5 DEF WritesInv, CreateInv
  <2>8. \A q \in Requests \ {r} : req[q].op = "create" =>
            req[q].key # new.heir /\ req[q].key \notin new.seen \cup DOMAIN new.writes
    BY <2>2, <2>3, CreatesKey DEF IInv, CreateInv, StepInv, Locks
  <2>9. \A q \in Requests \ {r} : DOMAIN new.writes \cap Locks(q) = {}
    BY <2>2, <2>3 DEF Locks
  <2> QED
    BY <1>1, <2>3, <2>4, <2>6, <2>7, <2>8, <2>9, RequestGoes
<1> QED
  BY <1>2, <1>3 DEF Ask

\* create_key turns to forgetting the secret.
LEMMA ForgettingKeeps ==
    ASSUME IInv, NEW r \in Requests, req[r].op = "create",
           NEW answer \in {"duplicate", "failed"},
           TurnsToForget(r, answer),
           UNCHANGED <<rows, secrets, refused, drawn, casualties, contended>>
    PROVE  IInv'
<1> DEFINE key == req[r].key
           new == [req[r] EXCEPT !.pc = "forget", !.writes = NoWrites, !.answer = answer]
<1>1. /\ Working(r) /\ req[r].heir = NoKey /\ req[r].seen \subseteq drawn \ {key}
      /\ CreateInv(r) /\ ~req[r].loaded.default
  BY DEF IInv, StepInv, WritesInv
<1>2. /\ new \in RequestStates /\ new.pc = "forget" /\ new.op = "create" /\ new.key = key
      /\ new.loaded = req[r].loaded /\ new.heir = NoKey /\ new.seen = req[r].seen
      /\ new.writes = NoWrites /\ new.makeDefault = req[r].makeDefault
  <2>1. /\ req[r] \in RequestStates /\ NoWrites \in Writes /\ "forget" \in Steps
        /\ answer \in Answers
    BY RequestTypes, IdleTypes DEF IInv, RequestStates, Steps, Answers
  <2> QED
    BY <1>1, <2>1 DEF RequestStates
<1>3. req' = [req EXCEPT ![r] = new]
  BY DEF TurnsToForget
<1>4. DOMAIN NoWrites = {}
  BY DEF NoWrites
<1> HIDE DEF new
<1>5. /\ req'[r] = new /\ Locks(r)' = {}
      /\ \A q \in Requests : q # r => req'[q] = req[q] /\ Locks(q)' = Locks(q)
  BY ZenonT(90), <1>2, <1>3, <1>4, Moved DEF IInv
<1>6. StepInv(r)'
  BY <1>1, <1>2, <1>5, StepFollows
<1>7. WritesInv(r)'
  BY <1>1, <1>2, <1>5 DEF WritesInv
<1>8. CreateInv(r)'
  <2>1. rows' = rows /\ secrets' = secrets
    OBVIOUS
  <2> QED
    BY <1>1, <1>2, <1>5, <2>1 DEF CreateInv, Exists
<1>9. \A q \in Requests \ {r} : req[q].op = "create" =>
            req[q].key # new.heir /\ req[q].key \notin new.seen \cup DOMAIN new.writes
  BY <1>1, <1>2, <1>4, CreatesKey DEF IInv, CreateInv, StepInv
<1>10. \A q \in Requests \ {r} : DOMAIN new.writes \cap Locks(q) = {}
  BY <1>2, <1>4
<1> QED
  BY <1>1, <1>2, <1>3, <1>6, <1>7, <1>8, <1>9, <1>10, RequestGoes

LEMMA CommitFailsKeeps ==
    ASSUME IInv, NEW r \in Requests, CommitFails(r), UNCHANGED contended
    PROVE  IInv'
<1>1. Working(r)
  BY DEF CommitFails, At, Working
<1>2. CASE /\ req[r].op = "create" /\ TurnsToForget(r, "duplicate")
           /\ UNCHANGED <<rows, secrets, refused, drawn, casualties>>
  BY <1>2, ForgettingKeeps
<1>3. CASE Fails(r, "duplicate") \/ Fails(r, "failed")
  BY <1>1, <1>3, FailsKeeps DEF Answers
<1> QED
  BY <1>2, <1>3 DEF CommitFails, At

LEMMA DatabaseErrorKeeps ==
    ASSUME IInv, NEW r \in Requests, DatabaseError(r)
    PROVE  IInv'
<1>1. Working(r) /\ UNCHANGED contended
  BY DEF DatabaseError, InDatabase, Working
<1>2. CASE /\ req[r].op = "create" /\ TurnsToForget(r, "failed")
           /\ UNCHANGED <<rows, secrets, refused, drawn, casualties>>
  BY <1>1, <1>2, ForgettingKeeps
<1>3. CASE Fails(r, "failed")
  BY <1>1, <1>3, FailsKeeps DEF Answers
<1> QED
  BY <1>2, <1>3 DEF DatabaseError

LEMMA CrashKeeps ==
    ASSUME IInv, NEW r \in Requests, Crash(r)
    PROVE  IInv'
BY FailsKeeps DEF Crash, Working, Answers

LEMMA RefuseKeeps == IInv /\ Refuse => IInv'
<1> SUFFICES ASSUME IInv, Refuse PROVE IInv'
  OBVIOUS
<1>1. UNCHANGED <<rows, secrets, req, drawn, casualties, contended>>
      /\ refused' \subseteq Materials
  BY DEF Refuse, IInv, TypeOK
<1>2. TypeOK'
  BY <1>1 DEF IInv, TypeOK
<1>3. ASSUME NEW r \in Requests PROVE StepInv(r)' /\ WritesInv(r)' /\ CreateInv(r)'
  <2>1. StepInv(r)'
    BY <1>1 DEF IInv, StepInv, Working, Exists
  <2>2. WritesInv(r)'
    BY <1>1 DEF IInv, WritesInv, Locks, Exists, Rotates
  <2>3. CreateInv(r)'
    BY <1>1 DEF IInv, CreateInv, Locks, Exists
  <2> QED
    BY <2>1, <2>2, <2>3
<1>4. LocksExclude' /\ UndrawnIsNothing'
  BY <1>1 DEF IInv, LocksExclude, Locks, UndrawnIsNothing, Exists
<1>5. SecretsHeld' /\ OneDefault'
  BY <1>1 DEF IInv, SecretsHeld, Erased, OneDefault, IsDefault, Exists
<1> QED
  BY <1>2, <1>3, <1>4, <1>5 DEF IInv

-----------------------------------------------------------------------------
(* Steps that change rows                                                  *)

\* A request ends with its rows committed: they are none that others have locked, stay
\* where they are stored, and a create adds its own.
LEMMA RowsChange ==
    ASSUME IInv, NEW r \in Requests, Working(r), NEW answer \in Answers, Ends(r, answer),
           UNCHANGED <<secrets, refused, drawn, casualties, contended>>,
           rows' \in [Keys -> Rows \cup {NoRow}],
           \A q \in Requests \ {r} : \A k \in Locks(q) : rows'[k] = rows[k],
           \A k \in Keys : rows'[k] # NoRow =>
                /\ \/ Exists(k) /\ rows'[k].backend = rows[k].backend
                   \/ /\ req[r].op = "create" /\ req[r].pc = "commit" /\ k = req[r].key
                      /\ rows'[k].backend = req[r].loaded.backend
                /\ rows'[k].backend = "local" => rows'[k].sealed # NoMaterial,
           Erased(r) => rows'[req[r].key] = NoRow,
           OneDefault'
    PROVE  IInv'
<1> DEFINE ended == Idle(answer)
           key == req[r].key
<1>1. /\ ended \in RequestStates /\ req' = [req EXCEPT ![r] = ended]
      /\ DOMAIN ended.writes = {}
  BY IdleTypes DEF Ends
<1>2. req'[r] = ended /\ StepInv(r)' /\ WritesInv(r)' /\ CreateInv(r)' /\ Locks(r)' = {}
  BY <1>1, IdleHolds, Moved DEF IInv
<1> HIDE DEF ended
<1>3. \A q \in Requests : q # r => req'[q] = req[q] /\ Locks(q)' = Locks(q)
  BY <1>1, Moved DEF IInv
<1>4. secrets' = secrets /\ drawn' = drawn /\ casualties' = casualties
  OBVIOUS
<1>5. TypeOK'
  BY <1>1, Moved DEF IInv, TypeOK
<1>6. /\ key \in Keys /\ key \in drawn /\ req[r].loaded \in Rows
      /\ CreateInv(r)
  BY CreatesKey DEF IInv
<1>7. ASSUME NEW q \in Requests, q # r PROVE StepInv(q)' /\ WritesInv(q)' /\ CreateInv(q)'
  <2>1. StepInv(q) /\ WritesInv(q) /\ CreateInv(q)
    BY DEF IInv
  <2>2. rows'[req[q].key] # NoRow /\ req[q].key \in Keys =>
            /\ Exists(req[q].key)
            /\ rows'[req[q].key].backend = rows[req[q].key].backend
    BY <1>6, <1>7 DEF CreateInv
  <2>3. Working(q) => req[q].key \in Keys
    BY CreatesKey
  <2>4. StepInv(q)'
    BY <1>3, <1>4, <1>7, <2>1, <2>2, <2>3 DEF StepInv, Working, Exists
  <2>5. WritesInv(q)'
    <3>1. \A k \in Locks(q) : rows'[k] = rows[k]
      BY <1>7
    <3>2. req[q].op = "delete" => req[q].key \in Keys
      BY <2>1, <2>3 DEF StepInv
    <3> QED
      BY SMTT(60), <1>3, <1>4, <1>7, <2>1, <2>2, <3>1, <3>2 DEF WritesInv, Exists, Rotates
  <2>6. CreateInv(q)'
    <3>1. req[q].op = "create" => req[q].key \in Keys
      BY <2>1, <2>3 DEF StepInv
    <3>2. req[q].op = "create" => rows'[req[q].key] = NoRow
      BY <2>1, <2>2, <3>1 DEF CreateInv
    <3>3. ASSUME NEW p \in Requests \ {q}, req[q].op = "create"
          PROVE  /\ req[q].key # req'[p].key /\ req[q].key # req'[p].heir
                 /\ req[q].key \notin req'[p].seen \cup Locks(p)'
      <4>1. CASE p # r
        BY <1>3, <2>1, <3>3, <4>1 DEF CreateInv
      <4>2. CASE p = r
        BY <1>2, <3>1, <3>3, <4>2, IdleTypes, AbsentAssumption DEF ended
      <4> QED
        BY <4>1, <4>2
    <3> QED
      BY <1>3, <1>4, <1>7, <2>1, <3>2, <3>3 DEF CreateInv, Exists
  <2> QED
    BY <2>4, <2>5, <2>6
<1>8. LocksExclude'
  BY <1>2, <1>3 DEF IInv, LocksExclude
<1>9. UndrawnIsNothing'
  BY <1>4, <1>6 DEF IInv, UndrawnIsNothing, Exists
<1>10. SecretsHeld'
  <2>1. ASSUME NEW k \in Keys, rows'[k] # NoRow
        PROVE  /\ rows'[k].backend = "local" => secrets[k] = NoMaterial
               /\ rows'[k].backend = "infisical" /\ k \notin casualties =>
                    secrets[k] # NoMaterial \/ \E q \in Requests : req[q].key = k /\ Erased(q)
    <3>1. CASE Exists(k) /\ rows'[k].backend = rows[k].backend
      BY <3>1 DEF IInv, SecretsHeld
    <3>2. CASE /\ req[r].op = "create" /\ req[r].pc = "commit" /\ k = key
               /\ rows'[k].backend = req[r].loaded.backend
      BY <1>6, <3>2, RowTypes, AbsentAssumption DEF CreateInv
    <3> QED
      BY <2>1, <3>1, <3>2
  <2>2. \A k \in Keys, q \in Requests : rows'[k] # NoRow /\ req[q].key = k /\ Erased(q) =>
            req'[q].key = k /\ Erased(q)'
    BY <1>3 DEF Erased
  <2> QED
    BY <1>4, <2>1, <2>2 DEF SecretsHeld, Exists
<1> QED
  BY <1>2, <1>5, <1>7, <1>8, <1>9, <1>10 DEF IInv

\* The rows as the transaction that is about to commit has them.
LEMMA OwnIs ==
    ASSUME IInv, NEW r \in Requests, req[r].pc = "commit", NEW k \in Keys, Own(r, k) # NoRow,
           req[r].op \in {"create", "update", "delete"}
    PROVE  /\ Own(r, k) \in Rows
           /\ \/ Exists(k) /\ Own(r, k).backend = rows[k].backend
              \/ /\ req[r].op = "create" /\ k = req[r].key
                 /\ Own(r, k).backend = req[r].loaded.backend
           /\ Own(r, k).backend = "local" => Own(r, k).sealed # NoMaterial
           /\ Own(r, k).default =>
                IsDefault(k) /\ (k \notin Locks(r) \/ (req[r].op = "update" /\ k = req[r].key))
<1>1. WritesInv(r) /\ CreateInv(r) /\ req[r].loaded \in Rows
  BY CreatesKey DEF IInv, Working
<1>2. Exists(k) => rows[k] \in Rows
  BY DEF IInv, TypeOK, Exists
<1>3. Exists(k) /\ rows[k].backend = "local" => rows[k].sealed # NoMaterial
  BY DEF IInv, SecretsHeld
<1>4. CASE k \notin Locks(r)
  <2>1. Own(r, k) = rows[k] /\ Exists(k)
    BY <1>4 DEF Own, Locks, Exists
  <2> QED
    BY <1>2, <1>3, <1>4, <2>1 DEF IsDefault
<1>5. CASE k \in Locks(r) /\ k # req[r].key
  <2>1. Own(r, k) = req[r].writes[k] /\ req[r].op # "delete"
    BY <1>1, <1>5 DEF Own, Locks, WritesInv
  <2>2. Exists(k) /\ Own(r, k) = [rows[k] EXCEPT !.default = FALSE]
    BY <1>1, <1>5, <2>1 DEF WritesInv
  <2>3. /\ Own(r, k) \in Rows /\ Own(r, k).backend = rows[k].backend
        /\ Own(r, k).sealed = rows[k].sealed /\ Own(r, k).default = FALSE
    BY <1>2, <2>2 DEF Rows
  <2> QED
    BY <1>3, <2>2, <2>3
<1>6. CASE k \in Locks(r) /\ k = req[r].key /\ req[r].op = "create"
  <2>1. Own(r, k) = req[r].loaded /\ ~req[r].loaded.default
    BY <1>1, <1>6 DEF Own, Locks, WritesInv
  <2>2. req[r].loaded.backend = "local" => req[r].loaded.sealed # NoMaterial
    BY <1>1, <1>6, RowTypes, AbsentAssumption DEF CreateInv
  <2> QED
    BY <1>1, <1>6, <2>1, <2>2
<1>7. CASE k \in Locks(r) /\ k = req[r].key /\ req[r].op = "update"
  BY <1>1, <1>7 DEF Own, Locks, WritesInv, IsDefault
<1>8. CASE k \in Locks(r) /\ req[r].op = "delete"
  BY <1>1, <1>8 DEF Own, Locks, WritesInv
<1> QED
  BY <1>4, <1>5, <1>6, <1>7, <1>8

LEMMA CommitKeeps ==
    ASSUME IInv, NEW r \in Requests, Commit(r), UNCHANGED contended
    PROVE  IInv'
<1> DEFINE key == req[r].key
<1>1. /\ req[r].op \in {"create", "update", "delete"} /\ req[r].pc = "commit" /\ Working(r)
      /\ WaitsFor(r) = {} /\ ~DefaultClash(r) /\ ~DefaultGone(r) /\ Ends(r, "ok")
      /\ UNCHANGED <<secrets, refused, drawn, casualties>> /\ "ok" \in Answers
  BY DEF Commit, At, Working, Answers
<1>2. rows' = [k \in Keys |-> IF k \in NewDefault(r)
                              THEN [Own(r, k) EXCEPT !.default = TRUE] ELSE Own(r, k)]
  BY DEF Commit
<1>3. /\ key \in Keys /\ req[r].heir \in Keys \cup {NoKey}
      /\ WritesInv(r) /\ CreateInv(r) /\ StepInv(r)
  BY <1>1, CreatesKey, RequestTypes DEF IInv
<1>4. NewDefault(r) \subseteq Keys /\ \A j, k \in NewDefault(r) : j = k
  BY <1>3 DEF NewDefault
<1>5. req[r].op = "update" => NewDefault(r) \subseteq {key}
  BY DEF NewDefault
<1>6. ASSUME NEW k \in Keys
      PROVE  /\ k \in NewDefault(r) =>
                    Own(r, k) # NoRow /\ rows'[k] = [Own(r, k) EXCEPT !.default = TRUE]
             /\ k \notin NewDefault(r) => rows'[k] = Own(r, k)
  BY <1>1, <1>2 DEF DefaultGone
<1>7. ASSUME NEW k \in Keys
      PROVE  /\ rows'[k] \in Rows \cup {NoRow}
             /\ rows'[k] # NoRow =>
                /\ Own(r, k) # NoRow /\ Own(r, k) \in Rows
                /\ rows'[k].backend = Own(r, k).backend
                /\ rows'[k].sealed = Own(r, k).sealed
                /\ rows'[k].default <=> k \in NewDefault(r) \/ Own(r, k).default
  <2>1. CASE Own(r, k) = NoRow
    BY <1>6, <2>1
  <2>2. CASE Own(r, k) # NoRow
    <3>1. Own(r, k) \in Rows
      BY <1>1, <2>2, OwnIs
    <3>2. CASE k \in NewDefault(r)
      BY ZenonT(90), <1>6, <3>1, <3>2 DEF Rows
    <3>3. CASE k \notin NewDefault(r)
      BY <1>6, <2>2, <3>1, <3>3
    <3> QED
      BY <3>2, <3>3
  <2> QED
    BY <2>1, <2>2
<1>8. rows' \in [Keys -> Rows \cup {NoRow}]
  BY <1>2, <1>7
<1>9. ASSUME NEW q \in Requests \ {r}, NEW k \in Locks(q) PROVE rows'[k] = rows[k]
  <2>1. k \in Keys
    BY RequestTypes DEF IInv
  <2>2. k \notin Locks(r)
    BY DEF IInv, LocksExclude
  <2>3. Needs(r) = NewDefault(r)
    BY <1>1 DEF Needs
  <2>4. k \notin NewDefault(r)
    BY <1>1, <2>3, NeededIsFree
  <2> QED
    BY <1>6, <2>1, <2>2, <2>4 DEF Own, Locks
<1>10. ASSUME NEW k \in Keys, rows'[k] # NoRow
       PROVE  /\ \/ Exists(k) /\ rows'[k].backend = rows[k].backend
                 \/ /\ req[r].op = "create" /\ req[r].pc = "commit" /\ k = req[r].key
                    /\ rows'[k].backend = req[r].loaded.backend
              /\ rows'[k].backend = "local" => rows'[k].sealed # NoMaterial
  <2>1. /\ Own(r, k) # NoRow /\ rows'[k].backend = Own(r, k).backend
        /\ rows'[k].sealed = Own(r, k).sealed
    BY <1>7, <1>10
  <2> QED
    BY <1>1, <2>1, OwnIs
<1>11. Erased(r) => rows'[key] = NoRow
  <2>1. SUFFICES ASSUME req[r].op = "delete" PROVE rows'[key] = NoRow
    BY DEF Erased
  <2>2. Own(r, key) = NoRow
    BY <1>1, <1>3, <2>1 DEF WritesInv, Own, Locks, Exists
  <2> QED
    BY <1>3, <1>7, <2>2
<1>12. \A j, k \in Keys : rows'[j] # NoRow /\ rows'[j].default /\ rows'[k] # NoRow
            /\ rows'[k].default => j = k
  <2>1. ASSUME NEW j \in Keys, NEW k \in NewDefault(r), rows'[j] # NoRow, rows'[j].default
        PROVE  j = k
    <3>1. CASE j \in NewDefault(r)
      BY <1>4, <3>1
    <3>2. CASE j \notin NewDefault(r)
      <4>1. Own(r, j) # NoRow /\ Own(r, j).default
        BY <1>7, <2>1, <3>2
      <4>2. /\ IsDefault(j)
            /\ j \notin Locks(r) \/ (req[r].op = "update" /\ j = key)
        BY <1>1, <4>1, OwnIs
      <4>3. CASE j \notin Locks(r)
        BY <1>1, <1>4, <4>2, <4>3 DEF DefaultClash, DefaultTaken, Locks
      <4>4. CASE req[r].op = "update" /\ j = key
        BY <1>5, <4>4
      <4> QED
        BY <4>2, <4>3, <4>4
    <3> QED
      BY <3>1, <3>2
  <2>2. ASSUME NEW j \in Keys, j \notin NewDefault(r), rows'[j] # NoRow, rows'[j].default
        PROVE  IsDefault(j)
    BY <1>1, <1>7, <2>2, OwnIs
  <2> QED
    BY <2>1, <2>2 DEF IInv, OneDefault
<1>13. OneDefault'
  BY <1>12 DEF OneDefault, IsDefault, Exists
<1> QED
  BY <1>1, <1>8, <1>9, <1>10, <1>11, <1>13, RowsChange

LEMMA RecordVerdictKeeps ==
    ASSUME IInv, NEW r \in Requests, RecordVerdict(r), UNCHANGED contended
    PROVE  IInv'
<1> DEFINE key == req[r].key
           target == [req[r].loaded EXCEPT !.status = Verdict(r)]
           row == Flushed(r, target)
<1>1. /\ req[r].op \in {"check", "chat"} /\ req[r].pc = "record" /\ Working(r)
      /\ WaitsFor(r) = {} /\ ~Erased(r)
      /\ "ok" \in Answers /\ "failed" \in Answers
  BY DEF RecordVerdict, At, Working, Answers, Erased
<1>2. key \in Keys /\ req[r].loaded \in Rows
  BY <1>1, CreatesKey
<1>3. CASE Ends(r, "ok") /\ UNCHANGED <<rows, secrets, refused, drawn, casualties>>
  <2>1. casualties' \subseteq Keys /\ contended' \subseteq Keys
    BY <1>3 DEF IInv, TypeOK
  <2> QED
    BY <1>1, <1>3, <2>1, RequestEnds
<1>4. CASE /\ WritesVerdict(r) /\ Exists(key) /\ rows' = [rows EXCEPT ![key] = row]
           /\ Ends(r, "ok") /\ UNCHANGED <<secrets, refused, drawn, casualties>>
  <2>1. /\ target \in Rows /\ target.backend = req[r].loaded.backend
        /\ target.sealed = req[r].loaded.sealed /\ target.default = req[r].loaded.default
    BY <1>2 DEF Verdict, Rows
  <2> HIDE DEF target
  <2>2. /\ row \in Rows
        /\ \A f \in {"label", "shown", "sealed", "backend", "default", "status"} :
                row[f] = IF target[f] = req[r].loaded[f] THEN rows[key][f] ELSE target[f]
    BY <1>1, <1>4, <2>1, FlushedIs
  <2>3. /\ row.backend = rows[key].backend /\ row.sealed = rows[key].sealed
        /\ row.default = rows[key].default
    BY <2>1, <2>2
  <2> HIDE DEF row
  <2>4. /\ rows' \in [Keys -> Rows \cup {NoRow}] /\ rows'[key] = row
        /\ \A k \in Keys : k # key => rows'[k] = rows[k]
    BY <1>2, <1>4, <2>2 DEF IInv, TypeOK
  <2>5. ASSUME NEW q \in Requests \ {r}, NEW k \in Locks(q) PROVE rows'[k] = rows[k]
    <3>1. key \in Needs(r) /\ k \in Keys
      BY <1>1, <1>4, RequestTypes DEF Needs, IInv
    <3>2. k # key
      BY <1>1, <3>1, NeededIsFree
    <3> QED
      BY <2>4, <3>1, <3>2
  <2>6. ASSUME NEW k \in Keys, rows'[k] # NoRow
        PROVE  /\ Exists(k) /\ rows'[k].backend = rows[k].backend
               /\ rows'[k].sealed = rows[k].sealed /\ rows'[k].default = rows[k].default
    BY <1>4, <2>3, <2>4, <2>6 DEF Exists
  <2>7. \A k \in Keys : rows'[k] # NoRow =>
            /\ Exists(k) /\ rows'[k].backend = rows[k].backend
            /\ rows'[k].backend = "local" => rows'[k].sealed # NoMaterial
    BY <2>6 DEF IInv, SecretsHeld
  <2>8. OneDefault'
    BY <2>6 DEF IInv, OneDefault, IsDefault, Exists
  <2> QED
    BY <1>1, <1>4, <2>4, <2>5, <2>7, <2>8, RowsChange
<1>5. CASE Fails(r, "failed")
  BY <1>1, <1>5, FailsKeeps
<1> QED
  BY <1>3, <1>4, <1>5 DEF RecordVerdict

-----------------------------------------------------------------------------
(* The invariant                                                           *)

LEMMA StartKeeps ==
    ASSUME IInv, NEW r \in Requests, Start(r)
    PROVE  IInv'
<1>1. contended' \subseteq Keys
  BY DEF Start, IInv, TypeOK
<1> QED
  BY <1>1, StartCreateKeeps, StartUpdateKeeps, StartDeleteKeeps, StartCheckKeeps DEF Start

LEMMA StepKeeps == IInv /\ [Next]_vars => IInv'
<1> SUFFICES ASSUME IInv, [Next]_vars PROVE IInv'
  OBVIOUS
<1>1. ASSUME NEW r \in Requests, Step(r) PROVE IInv'
  BY <1>1, InsertKeeps, ForgetKeeps, PutKeeps, FlushKeeps, ScanDefaultsKeeps,
     ClearDefaultsKeeps, EraseSecretKeeps, RemoveRowKeeps, CommitKeeps, CommitFailsKeeps,
     AskKeeps, RecordVerdictKeeps DEF Step
<1>2. ASSUME NEW r \in Requests, Start(r) PROVE IInv'
  BY <1>2, StartKeeps
<1>3. ASSUME NEW r \in Requests, DatabaseError(r) \/ BreakDeadlock(r) \/ Crash(r)
      PROVE  IInv'
  BY <1>3, DatabaseErrorKeeps, CrashKeeps DEF BreakDeadlock
<1>4. CASE Refuse
  BY <1>4, RefuseKeeps
<1>5. CASE UNCHANGED vars
  <2>1. TypeOK'
    BY <1>5 DEF IInv, TypeOK, vars
  <2>2. ASSUME NEW r \in Requests PROVE StepInv(r)' /\ WritesInv(r)' /\ CreateInv(r)'
    <3>1. StepInv(r)'
      BY <1>5 DEF IInv, StepInv, Working, Exists, vars
    <3>2. WritesInv(r)'
      BY <1>5 DEF IInv, WritesInv, Locks, Exists, Rotates, vars
    <3>3. CreateInv(r)'
      BY <1>5 DEF IInv, CreateInv, Locks, Exists, vars
    <3> QED
      BY <3>1, <3>2, <3>3
  <2>3. LocksExclude' /\ UndrawnIsNothing'
    BY <1>5 DEF IInv, LocksExclude, Locks, UndrawnIsNothing, Exists, vars
  <2>4. SecretsHeld' /\ OneDefault'
    BY <1>5 DEF IInv, SecretsHeld, Erased, OneDefault, IsDefault, Exists, vars
  <2> QED
    BY <2>1, <2>2, <2>3, <2>4 DEF IInv
<1> QED
  BY <1>1, <1>2, <1>3, <1>4, <1>5 DEF Next

\* The parts of the invariant hold together in every reachable state.
THEOREM InvariantHolds == Spec => []IInv
<1> QED
  BY InitHolds, StepKeeps, PTL DEF Spec

\* Every request of vault_service.py keeps rows, secrets and its own progress well formed.
THEOREM TypesHold == Spec => []TypeOK
<1>1. IInv => TypeOK
  BY DEF IInv
<1> QED
  BY <1>1, InvariantHolds, PTL

\* uq_llm_credential_default (models/credential.py:86): however many requests replace the
\* default at once, with their own reads of who the default is, two keys never both are.
THEOREM OneDefaultHolds == Spec => []OneDefault
<1>1. IInv => OneDefault
  BY DEF IInv
<1> QED
  BY <1>1, InvariantHolds, PTL

\* A saved key can be used (credential_resolver.py:101): whatever rotations, deletes and
\* creations overlap, a row whose requests have all ended leads to a secret, unless one of
\* them failed after it had called Infisical.
THEOREM RowHasSecretHolds == Spec => []RowHasSecret
<1>1. IInv => RowHasSecret
  <2> SUFFICES ASSUME IInv, NEW k \in Keys \ casualties, Exists(k), ~InFlight(k)
               PROVE  Stored(k) # NoMaterial
    BY DEF RowHasSecret
  <2>1. rows[k] \in Rows
    BY DEF IInv, TypeOK, Exists
  <2>2. rows[k].backend \in {"local", "infisical"}
    BY <2>1, RowTypes
  <2> QED
    BY <2>2 DEF IInv, SecretsHeld, InFlight, Stored
<1> QED
  BY <1>1, InvariantHolds, PTL

\* The locks of vault_service.py:192, 241 and 260 form a cycle only among requests that
\* replace the default: however many rotate, rename, add and mark keys, none of them is
\* aborted by another.
THEOREM DeadlockIsAboutDefaultHolds == Spec => []DeadlockIsAboutDefault
<1>1. IInv => DeadlockIsAboutDefault
  <2> SUFFICES ASSUME IInv, NEW r \in Requests, Deadlocked(r)
               PROVE  req[r].makeDefault \/ req[r].heir # NoKey
    BY DEF DeadlockIsAboutDefault
  <2>1. WaitsFor(r) # {}
    <3>1. {} \in SUBSET Requests
      OBVIOUS
    <3> QED
      BY <3>1 DEF Deadlocked
  <2>2. PICK q \in Requests : r \in WaitsFor(q)
    <3>1. Requests \ {r} \in SUBSET Requests
      OBVIOUS
    <3>2. WaitsFor(r) \subseteq Requests \ {r}
      BY DEF WaitsFor
    <3>3. ~ \A q \in Requests \ {r} : WaitsFor(q) \subseteq Requests \ {r}
      BY <3>1, <3>2 DEF Deadlocked
    <3>4. \A q \in Requests : WaitsFor(q) \subseteq Requests
      BY DEF WaitsFor
    <3> QED
      BY <3>3, <3>4
  <2>3. req[r].pc \in {"scan", "clear", "commit"}
    BY <2>2 DEF WaitsFor, IInv, WritesInv, Locks
  <2>4. CASE req[r].pc \in {"scan", "clear"}
    BY <2>4 DEF IInv, StepInv
  <2>5. CASE req[r].pc = "commit"
    <3>1. NewDefault(r) # {}
      BY <2>1, <2>5 DEF WaitsFor, Needs, ChecksLabel, ChecksDefault
    <3> QED
      BY <3>1 DEF NewDefault
  <2> QED
    BY <2>3, <2>4, <2>5
<1> QED
  BY <1>1, InvariantHolds, PTL

-----------------------------------------------------------------------------
(* The page is true of keys left in peace                                  *)

\* A step leaves of a key all that the page shows, except who is the default.
Agrees(k) ==
    /\ secrets'[k] = secrets[k]
    /\ rows'[k] # NoRow <=> Exists(k)
    /\ Exists(k) => \A f \in {"shown", "sealed", "backend", "status"} : rows'[k][f] = rows[k][f]

LEMMA TruthStays ==
    ASSUME NEW k \in Keys, Agrees(k), Truthful(k), refused \subseteq refused'
    PROVE  Truthful(k)'
<1>1. Exists(k) => /\ rows'[k].shown = rows[k].shown /\ rows'[k].sealed = rows[k].sealed
                   /\ rows'[k].backend = rows[k].backend /\ rows'[k].status = rows[k].status
  BY DEF Agrees
<1>2. secrets'[k] = secrets[k] /\ (Exists(k)' <=> Exists(k))
  BY DEF Agrees, Exists
<1>3. Exists(k) => Stored(k)' = Stored(k)
  BY <1>1, <1>2 DEF Stored
<1> QED
  BY <1>1, <1>2, <1>3 DEF Truthful

\* A step of one request is about its own key only; what it starts to work on alone, or
\* leaves to its own key, is for the step to say.
LEMMA OneMoves ==
    ASSUME IInv, QuietInv, NEW r \in Requests,
           \A q \in Requests \ {r} : req'[q] = req[q], refused \subseteq refused',
           casualties \subseteq casualties', contended \subseteq contended',
           \/ req'[r].key \in {req[r].key, NoKey}
           \/ (\E q \in Requests : req[q].key = req'[r].key) => req'[r].key \in contended',
           \A k \in Keys \ {req[r].key, req'[r].key} :
                k \notin casualties' \cup contended' => Agrees(k),
           req'[r].pc # "idle" /\ req'[r].key \notin casualties' \cup contended' => AloneInv(r)',
           \A k \in Keys \cap {req[r].key, req'[r].key} :
                k \notin casualties' \cup contended' =>
                    Truthful(k)' \/ (req'[r].key = k /\ CalledStore(r)')
    PROVE  QuietInv'
<1>1. \A q \in Requests : q # r => req'[q] = req[q] /\ Locks(q)' = Locks(q)
  BY DEF Locks
<1>2. ASSUME NEW q \in Requests, q # r, Working(q),
             req[q].key \notin casualties' \cup contended'
      PROVE  AloneInv(q)'
  <2> DEFINE k == req[q].key
  <2>1. k \in Keys /\ k # NoKey /\ req[q].loaded \in Rows
    BY <1>2, CreatesKey
  <2>2. AloneInv(q)
    BY <1>2 DEF QuietInv, Quiet
  <2>3. k # req[r].key
    BY <1>2, <2>2 DEF AloneInv
  <2>4. k # req'[r].key
    BY <1>2, <2>1, <2>3
  <2>5. Agrees(k)
    BY <1>2, <2>1, <2>3, <2>4
  <2>6. req'[q] = req[q] /\ Locks(q)' = Locks(q) /\ secrets'[k] = secrets[k]
    BY <1>1, <1>2, <2>5 DEF Agrees
  <2>7. \A p \in Requests : req'[p].key = req'[q].key => p = q
    BY <1>1, <2>2, <2>4, <2>6 DEF AloneInv
  <2>8. req[q].op # "create" =>
            /\ rows'[k] # NoRow
            /\ \A f \in {"shown", "sealed", "backend", "status"} :
                    req[q].loaded[f] = rows'[k][f] /\ rows'[k][f] = rows[k][f]
    <3>1. req[q].op # "create" =>
            /\ Exists(k)
            /\ \A f \in {"shown", "sealed", "backend", "status"} : req[q].loaded[f] = rows[k][f]
      BY <2>2 DEF AloneInv
    <3>2. Exists(k) =>
            /\ rows'[k] # NoRow
            /\ \A f \in {"shown", "sealed", "backend", "status"} : rows'[k][f] = rows[k][f]
      BY <2>5 DEF Agrees, Exists
    <3> HIDE DEF k
    <3> QED
      BY <3>1, <3>2
  <2>9. CalledStore(q)' <=> CalledStore(q)
    BY <2>6 DEF CalledStore, Rotates
  <2>10. Revealed(q)' = Revealed(q)
    BY <2>6 DEF Revealed
  <2> HIDE DEF k
  <2>11. CalledStore(q)' =>
            /\ req'[q].op = "update" => secrets'[req'[q].key] = req'[q].material
            /\ req'[q].op = "delete" => secrets'[req'[q].key] = NoMaterial
    BY <2>2, <2>6, <2>9 DEF AloneInv, k
  <2>12. req'[q].op = "update" /\ req'[q].key \in Locks(q)' =>
            LET w == req'[q].writes[req'[q].key]
            IN  IF Rotates(q)'
                THEN /\ w.shown = req'[q].material /\ w.status = "active"
                     /\ w.backend = "local" => w.sealed = req'[q].material
                ELSE \A f \in {"shown", "sealed", "status"} : w[f] = rows'[req'[q].key][f]
    BY <2>2, <2>6, <2>8 DEF AloneInv, Rotates, k
  <2>13. req'[q].pc = "record" /\ ~req'[q].accepted => Revealed(q)' \in refused'
    BY <2>2, <2>6, <2>10 DEF AloneInv
  <2> QED
    BY <2>6, <2>7, <2>8, <2>11, <2>12, <2>13 DEF AloneInv, Exists, k
<1>3. ASSUME NEW q \in Requests, Working(q)', Quiet(req[q].key)'
      PROVE  AloneInv(q)'
  <2>1. CASE q = r
    BY <1>1, <1>3, <2>1 DEF Working, Quiet
  <2>2. CASE q # r
    BY <1>1, <1>2, <1>3, <2>2 DEF Working, Quiet
  <2> QED
    BY <2>1, <2>2
<1>4. ASSUME NEW k \in Keys, Quiet(k)'
      PROVE  Truthful(k)' \/ \E q \in Requests : req'[q].key = k /\ CalledStore(q)'
  <2>1. Quiet(k) /\ k \notin casualties' \cup contended'
    BY <1>4 DEF Quiet
  <2>2. CASE k \in {req[r].key, req'[r].key}
    BY <1>1, <2>1, <2>2
  <2>3. CASE k \notin {req[r].key, req'[r].key}
    <3>1. Agrees(k)
      BY <2>1, <2>3
    <3>2. CASE Truthful(k)
      BY <3>1, <3>2, TruthStays
    <3>3. CASE \E q \in Requests : req[q].key = k /\ CalledStore(q)
      <4>1. PICK q \in Requests : req[q].key = k /\ CalledStore(q)
        BY <3>3
      <4>2. req'[q] = req[q]
        BY <1>1, <2>3, <4>1
      <4> QED
        BY <4>1, <4>2 DEF CalledStore, Rotates
    <3> QED
      BY <2>1, <3>2, <3>3 DEF QuietInv
  <2> QED
    BY <2>2, <2>3
<1> QED
  BY <1>3, <1>4 DEF QuietInv

LEMMA KeyIsTrue ==
    ASSUME IInv, QuietInv, NEW r \in Requests, Working(r), Quiet(req[r].key)
    PROVE  AloneInv(r) /\ (Truthful(req[r].key) \/ CalledStore(r))
<1>1. AloneInv(r) /\ req[r].key \in Keys
  BY CreatesKey DEF QuietInv
<1>2. Truthful(req[r].key) \/ \E q \in Requests : req[q].key = req[r].key /\ CalledStore(q)
  BY <1>1 DEF QuietInv
<1> QED
  BY <1>1, <1>2 DEF AloneInv

\* A step about no key but that of the request, with the request at work on it.
LEMMA OwnKeyMoves ==
    ASSUME IInv, QuietInv, NEW r \in Requests, Working(r), NEW k \in Keys, k = req[r].key,
           \A q \in Requests \ {r} : req'[q] = req[q], refused \subseteq refused',
           casualties \subseteq casualties', contended \subseteq contended',
           req'[r].key \in {k, NoKey}, req'[r].key = NoKey => req'[r].pc = "idle",
           \A j \in Keys \ {k} : Agrees(j),
           k \notin casualties' \cup contended' =>
                /\ req'[r].pc # "idle" => AloneInv(r)'
                /\ Truthful(k)' \/ (req'[r].key = k /\ CalledStore(r)')
    PROVE  QuietInv'
<1>1. /\ \A j \in Keys \ {req[r].key, req'[r].key} :
            j \notin casualties' \cup contended' => Agrees(j)
      /\ req'[r].pc # "idle" /\ req'[r].key \notin casualties' \cup contended' => AloneInv(r)'
  BY AbsentAssumption
<1>2. \A j \in Keys \cap {req[r].key, req'[r].key} : j = k
  BY AbsentAssumption
<1>3. \A j \in Keys \cap {req[r].key, req'[r].key} :
            j \notin casualties' \cup contended' =>
                Truthful(j)' \/ (req'[r].key = j /\ CalledStore(r)')
  BY <1>2
<1>4. req'[r].key \in {req[r].key, NoKey}
  OBVIOUS
<1> QED
  BY <1>1, <1>3, <1>4, OneMoves

\* The request ends: what it had called the store for makes the key a casualty.
LEMMA QuietEnds ==
    ASSUME IInv, QuietInv, NEW r \in Requests, Working(r), NEW answer \in Answers,
           Ends(r, answer), UNCHANGED <<rows, secrets, refused, contended>>,
           casualties \subseteq casualties', CalledStore(r) => req[r].key \in casualties'
    PROVE  QuietInv'
<1> DEFINE k == req[r].key
<1>1. k \in Keys
  BY CreatesKey
<1>2. /\ \A q \in Requests \ {r} : req'[q] = req[q]
      /\ req'[r].key = NoKey /\ req'[r].pc = "idle"
  BY IdleTypes DEF Ends, IInv, TypeOK
<1> HIDE DEF k
<1>3. \A j \in Keys : Agrees(j)
  BY DEF Agrees, Exists
<1>4. k \notin casualties' \cup contended' => Truthful(k)
  BY KeyIsTrue DEF Quiet, k
<1>5. PICK j \in Keys : j = req[r].key
  BY <1>1 DEF k
<1>6. j \notin casualties' \cup contended' => Truthful(j)'
  BY <1>3, <1>4, <1>5, TruthStays DEF k
<1> QED
  BY <1>2, <1>3, <1>5, <1>6, OwnKeyMoves

LEMMA QuietFails ==
    ASSUME IInv, QuietInv, NEW r \in Requests, Working(r), NEW answer \in Answers,
           Fails(r, answer), UNCHANGED contended
    PROVE  QuietInv'
BY QuietEnds DEF Fails

\* The request goes on, with the rows and secrets as they are.
LEMMA QuietGoes ==
    ASSUME IInv, QuietInv, NEW r \in Requests, Working(r),
           UNCHANGED <<rows, secrets, refused, casualties, contended>>,
           \A q \in Requests \ {r} : req'[q] = req[q],
           req'[r].key = req[r].key, req'[r].op = req[r].op,
           req'[r].loaded = req[r].loaded, req'[r].material = req[r].material,
           req[r].pc \notin {"put", "erase"}, req'[r].pc \notin {"put", "erase"},
           req[r].op = "update" /\ req[r].key \in Locks(r)' /\ AloneInv(r) =>
                LET w == req'[r].writes[req[r].key]
                IN  IF Rotates(r)
                    THEN /\ w.shown = req[r].material /\ w.status = "active"
                         /\ w.backend = "local" => w.sealed = req[r].material
                    ELSE \A f \in {"shown", "sealed", "status"} : w[f] = rows[req[r].key][f],
           req'[r].pc = "record" /\ ~req'[r].accepted /\ AloneInv(r) =>
                Revealed(r) \in refused
    PROVE  QuietInv'
<1> DEFINE key == req[r].key
<1>1. key \in Keys
  BY CreatesKey
<1>2. PICK k \in Keys : k = req[r].key
  BY <1>1
<1>3. \A j \in Keys : Agrees(j)
  BY DEF Agrees, Exists
<1>4. CalledStore(r)' <=> CalledStore(r)
  BY DEF CalledStore, Rotates
<1>5. rows' = rows /\ secrets' = secrets /\ refused' = refused
      /\ casualties' = casualties /\ contended' = contended
  OBVIOUS
<1>6. ASSUME k \notin casualties' \cup contended'
      PROVE  Truthful(k)' \/ (req'[r].key = k /\ CalledStore(r)')
  <2>1. Truthful(k) \/ CalledStore(r)
    BY <1>2, <1>5, <1>6, KeyIsTrue DEF Quiet
  <2> QED
    BY <1>2, <1>3, <1>4, <2>1, TruthStays
<1>7. ASSUME k \notin casualties' \cup contended'
      PROVE  AloneInv(r)'
  <2>1. AloneInv(r)
    BY <1>2, <1>5, <1>7, KeyIsTrue DEF Quiet
  <2>2. \A q \in Requests : req'[q].key = req'[r].key => q = r
    BY <2>1 DEF AloneInv
  <2>3. req'[r].op # "create" =>
            /\ Exists(req[r].key)
            /\ \A f \in {"shown", "sealed", "backend", "status"} :
                    req'[r].loaded[f] = rows[req[r].key][f]
    BY <2>1 DEF AloneInv
  <2>4. CalledStore(r)' =>
            /\ req'[r].op = "update" => secrets[req[r].key] = req'[r].material
            /\ req'[r].op = "delete" => secrets[req[r].key] = NoMaterial
    BY <1>4, <2>1 DEF AloneInv
  <2>5. Revealed(r)' = Revealed(r) /\ (Rotates(r)' <=> Rotates(r))
    BY DEF Revealed, Rotates
  <2>6. req'[r].op = "update" /\ req'[r].key \in Locks(r)' =>
            LET w == req'[r].writes[req'[r].key]
            IN  IF Rotates(r)'
                THEN /\ w.shown = req'[r].material /\ w.status = "active"
                     /\ w.backend = "local" => w.sealed = req'[r].material
                ELSE \A f \in {"shown", "sealed", "status"} : w[f] = rows'[req'[r].key][f]
    BY <1>5, <2>1, <2>5
  <2>7. req'[r].pc = "record" /\ ~req'[r].accepted => Revealed(r)' \in refused'
    BY <1>5, <2>1, <2>5
  <2> QED
    BY <1>5, <2>2, <2>3, <2>4, <2>6, <2>7 DEF AloneInv, Exists
<1>8. /\ refused \subseteq refused' /\ casualties \subseteq casualties'
      /\ contended \subseteq contended' /\ req'[r].key = k /\ k # NoKey
  BY <1>2, <1>5, AbsentAssumption
<1> QED
  BY <1>2, <1>3, <1>6, <1>7, <1>8, OwnKeyMoves

LEMMA QuietForgetting ==
    ASSUME IInv, QuietInv, NEW r \in Requests, req[r].op = "create",
           NEW answer \in {"duplicate", "failed"}, TurnsToForget(r, answer),
           UNCHANGED <<rows, secrets, refused, drawn, casualties, contended>>
    PROVE  QuietInv'
<1>1. /\ \A q \in Requests \ {r} : req'[q] = req[q]
      /\ req'[r].key = req[r].key /\ req'[r].op = req[r].op
      /\ req'[r].loaded = req[r].loaded /\ req'[r].material = req[r].material
      /\ req'[r].pc = "forget"
  <2>1. req[r] \in RequestStates
    BY RequestTypes DEF IInv
  <2> QED
    BY <2>1 DEF TurnsToForget, IInv, TypeOK, RequestStates
<1>2. /\ Working(r) /\ req[r].pc \notin {"put", "erase"} /\ req'[r].pc # "record"
      /\ req'[r].pc \notin {"put", "erase"} /\ req[r].op # "update"
      /\ UNCHANGED <<rows, secrets, refused, casualties, contended>>
  BY <1>1 DEF IInv, StepInv
<1> QED
  BY <1>1, <1>2, QuietGoes

LEMMA QuietInsert ==
    ASSUME IInv, QuietInv, NEW r \in Requests, Insert(r), UNCHANGED contended
    PROVE  QuietInv'
<1>1. /\ req[r].op = "create" /\ req[r].pc = "insert" /\ Working(r)
      /\ UNCHANGED <<rows, secrets, refused, casualties>>
  BY DEF Insert, At, Working
<1>2. /\ \A q \in Requests \ {r} : req'[q] = req[q]
      /\ req'[r].key = req[r].key /\ req'[r].op = req[r].op
      /\ req'[r].loaded = req[r].loaded /\ req'[r].material = req[r].material
      /\ req'[r].pc \in {"forget", "scan", "commit"}
  <2>1. req[r] \in RequestStates /\ req \in [Requests -> RequestStates]
    BY RequestTypes DEF IInv, TypeOK
  <2> QED
    BY <2>1 DEF Insert, RequestStates
<1> QED
  BY <1>1, <1>2, QuietGoes

LEMMA QuietScan ==
    ASSUME IInv, QuietInv, NEW r \in Requests, ScanDefaults(r), UNCHANGED contended
    PROVE  QuietInv'
<1>1. /\ req[r].op \in {"create", "update"} /\ req[r].pc = "scan" /\ Working(r)
      /\ UNCHANGED <<rows, secrets, refused, casualties>>
  BY DEF ScanDefaults, At, Working
<1>2. /\ \A q \in Requests \ {r} : req'[q] = req[q]
      /\ req'[r].key = req[r].key /\ req'[r].op = req[r].op
      /\ req'[r].loaded = req[r].loaded /\ req'[r].material = req[r].material
      /\ req'[r].pc = "clear" /\ req'[r].writes = req[r].writes
  <2>1. req[r] \in RequestStates /\ req \in [Requests -> RequestStates]
    BY RequestTypes DEF IInv, TypeOK
  <2> QED
    BY <2>1 DEF ScanDefaults, RequestStates
<1> QED
  BY <1>1, <1>2, QuietGoes DEF AloneInv, Locks

LEMMA QuietClear ==
    ASSUME IInv, QuietInv, NEW r \in Requests, ClearDefaults(r), UNCHANGED contended
    PROVE  QuietInv'
<1> DEFINE still == {k \in req[r].seen : IsDefault(k)}
           old == req[r].writes
           cleared == [k \in DOMAIN old \cup still |->
                        IF k \in DOMAIN old THEN old[k] ELSE [rows[k] EXCEPT !.default = FALSE]]
<1>1. /\ req[r].op \in {"create", "update"} /\ req[r].pc = "clear" /\ Working(r)
      /\ UNCHANGED <<rows, secrets, refused, casualties>>
      /\ req' = [req EXCEPT ![r].pc = "commit", ![r].seen = {}, ![r].writes = cleared]
  BY DEF ClearDefaults, At, Working
<1>2. req[r].key \notin still
  BY DEF IInv, StepInv
<1>3. /\ DOMAIN cleared = DOMAIN old \cup still
      /\ \A k \in DOMAIN old : cleared[k] = old[k]
  OBVIOUS
<1> HIDE DEF cleared, still
<1>4. /\ \A q \in Requests \ {r} : req'[q] = req[q]
      /\ req'[r].key = req[r].key /\ req'[r].op = req[r].op
      /\ req'[r].loaded = req[r].loaded /\ req'[r].material = req[r].material
      /\ req'[r].pc = "commit" /\ req'[r].writes = cleared
  <2>1. req[r] \in RequestStates /\ req \in [Requests -> RequestStates]
    BY RequestTypes DEF IInv, TypeOK
  <2> QED
    BY <1>1, <2>1 DEF RequestStates
<1>5. req[r].key \in Locks(r)' =>
            req[r].key \in Locks(r) /\ req'[r].writes[req[r].key] = req[r].writes[req[r].key]
  BY <1>2, <1>3, <1>4 DEF Locks
<1> QED
  BY ZenonT(90), <1>1, <1>4, <1>5, QuietGoes DEF AloneInv

LEMMA QuietRemove ==
    ASSUME IInv, QuietInv, NEW r \in Requests, RemoveRow(r), UNCHANGED contended
    PROVE  QuietInv'
<1>1. /\ req[r].op = "delete" /\ req[r].pc = "remove" /\ Working(r)
      /\ UNCHANGED <<rows, secrets, refused, casualties>>
  BY DEF RemoveRow, At, Working
<1>2. PICK heir : req' = [req EXCEPT ![r] = Removal(r, heir)]
  BY DEF RemoveRow
<1>3. /\ \A q \in Requests \ {r} : req'[q] = req[q]
      /\ req'[r].key = req[r].key /\ req'[r].op = req[r].op
      /\ req'[r].loaded = req[r].loaded /\ req'[r].material = req[r].material
      /\ req'[r].pc = "commit"
  <2>1. req[r] \in RequestStates /\ req \in [Requests -> RequestStates]
    BY RequestTypes DEF IInv, TypeOK
  <2> QED
    BY <1>2, <2>1 DEF Removal, RequestStates
<1> QED
  BY <1>1, <1>3, QuietGoes

\* What update_key writes to a row it is alone with.
LEMMA FlushedAlone ==
    ASSUME IInv, NEW r \in Requests, Working(r), Exists(req[r].key), req[r].op = "update",
           AloneInv(r)
    PROVE  LET w == FlushedUpdate(r)
           IN  IF Rotates(r)
               THEN /\ w.shown = req[r].material /\ w.status = "active"
                    /\ w.backend = "local" => w.sealed = req[r].material
               ELSE \A f \in {"shown", "sealed", "status"} : w[f] = rows[req[r].key][f]
<1> DEFINE row == rows[req[r].key]
           old == req[r].loaded
           written == Flushed(r, Rewritten(r))
<1>1. /\ old \in Rows /\ row \in Rows
      /\ req[r].material \in Materials \cup {NoMaterial}
      /\ req[r].label \in Labels \cup {NoLabel}
  BY CreatesKey, RequestTypes DEF IInv, TypeOK, Exists
<1>2. old.shown = row.shown /\ old.sealed = row.sealed /\ old.status = row.status
  BY DEF AloneInv
<1>3. /\ Rewritten(r) \in Rows /\ Rewritten(r).sealed = old.sealed
      /\ Rotates(r) => Rewritten(r).shown = req[r].material /\ Rewritten(r).status = "active"
      /\ ~Rotates(r) => Rewritten(r).shown = old.shown /\ Rewritten(r).status = old.status
  BY <1>1 DEF Rewritten, Rotates, Relabels, Rows
<1>4. /\ written \in Rows
      /\ \A f \in {"label", "shown", "sealed", "backend", "default", "status"} :
            written[f] = IF Rewritten(r)[f] = old[f] THEN row[f] ELSE Rewritten(r)[f]
  BY <1>3, FlushedIs
<1>5. /\ written.sealed = row.sealed
      /\ written.shown = Rewritten(r).shown /\ written.status = Rewritten(r).status
  BY <1>2, <1>3, <1>4
<1> HIDE DEF written, row, old
<1>6. CASE Rotates(r) /\ written.backend = "local"
  <2> DEFINE w == [written EXCEPT !.sealed = req[r].material]
  <2>1. /\ w.shown = written.shown /\ w.status = written.status /\ w.sealed = req[r].material
    BY <1>4 DEF Rows
  <2>2. FlushedUpdate(r) = w
    BY <1>6 DEF FlushedUpdate, written
  <2> HIDE DEF w
  <2> QED
    BY <1>3, <1>5, <1>6, <2>1, <2>2
<1>7. CASE ~(Rotates(r) /\ written.backend = "local")
  <2>1. FlushedUpdate(r) = written
    BY <1>7 DEF FlushedUpdate, written
  <2> QED
    BY <1>2, <1>3, <1>5, <1>7, <2>1 DEF row, old
<1> QED
  BY <1>6, <1>7

LEMMA QuietFlush ==
    ASSUME IInv, QuietInv, NEW r \in Requests, Flush(r), UNCHANGED contended
    PROVE  QuietInv'
<1> DEFINE key == req[r].key
           next == AfterFlush(r)
<1>1. /\ req[r].op = "update" /\ req[r].pc = "flush" /\ Working(r)
      /\ req[r] \in RequestStates /\ req \in [Requests -> RequestStates]
  BY RequestTypes DEF Flush, At, Working, IInv, TypeOK
<1>2. next \in {"scan", "commit"} /\ Locks(r) = {}
  BY <1>1 DEF AfterFlush, IInv, WritesInv
<1> HIDE DEF next
<1>3. CASE Goto(r, next) /\ UNCHANGED <<rows, secrets, refused, drawn, casualties>>
  <2>1. /\ \A q \in Requests \ {r} : req'[q] = req[q]
        /\ req'[r].key = req[r].key /\ req'[r].op = req[r].op
        /\ req'[r].loaded = req[r].loaded /\ req'[r].material = req[r].material
        /\ req'[r].pc = next /\ req'[r].writes = req[r].writes
    BY <1>1, <1>3 DEF Goto, RequestStates
  <2>2. Locks(r)' = {}
    BY <1>2, <2>1 DEF Locks
  <2>3. UNCHANGED <<rows, secrets, refused, casualties, contended>>
    BY <1>3
  <2> QED
    BY <1>1, <1>2, <2>1, <2>2, <2>3, QuietGoes
<1>4. CASE /\ Exists(key)
           /\ req' = [req EXCEPT ![r].pc = next,
                                 ![r].writes = [j \in {key} |-> FlushedUpdate(r)]]
           /\ UNCHANGED <<rows, secrets, refused, drawn, casualties>>
  <2> DEFINE w == FlushedUpdate(r)
             written == [j \in {key} |-> w]
  <2>1. written[key] = w
    OBVIOUS
  <2>2. req' = [req EXCEPT ![r].pc = next, ![r].writes = written]
    BY <1>4
  <2> HIDE DEF w, written
  <2>3. /\ \A q \in Requests \ {r} : req'[q] = req[q]
        /\ req'[r].key = req[r].key /\ req'[r].op = req[r].op
        /\ req'[r].loaded = req[r].loaded /\ req'[r].material = req[r].material
        /\ req'[r].pc = next /\ req'[r].writes = written
    BY <1>1, <2>2 DEF RequestStates
  <2>4. AloneInv(r) =>
            IF Rotates(r)
            THEN /\ w.shown = req[r].material /\ w.status = "active"
                 /\ w.backend = "local" => w.sealed = req[r].material
            ELSE \A f \in {"shown", "sealed", "status"} : w[f] = rows[req[r].key][f]
    BY <1>1, <1>4, FlushedAlone DEF w
  <2>5. UNCHANGED <<rows, secrets, refused, casualties, contended>>
    BY <1>4
  <2>6. req'[r].writes[req[r].key] = w
    BY <2>1, <2>3
  <2> QED
    BY <1>1, <1>2, <2>3, <2>4, <2>5, <2>6, QuietGoes
<1>5. CASE Fails(r, "duplicate") \/ Fails(r, "failed")
  BY <1>1, <1>5, QuietFails DEF Answers
<1> QED
  BY <1>3, <1>4, <1>5 DEF Flush, next

LEMMA QuietAsk ==
    ASSUME IInv, QuietInv, NEW r \in Requests, Ask(r), UNCHANGED contended
    PROVE  QuietInv'
<1> DEFINE accepted == Revealed(r) \notin refused
<1>1. /\ req[r].op \in {"check", "chat"} /\ req[r].pc = "ask" /\ Working(r)
      /\ UNCHANGED <<rows, secrets, refused, casualties>>
      /\ req[r] \in RequestStates /\ req \in [Requests -> RequestStates]
  BY RequestTypes DEF Ask, At, Working, IInv, TypeOK
<1>2. CASE Ends(r, "none")
  <2>1. ~CalledStore(r) /\ "none" \in Answers
    BY <1>1 DEF CalledStore, Answers
  <2> QED
    BY <1>1, <1>2, <2>1, QuietEnds
<1>3. CASE req' = [req EXCEPT ![r].pc = "record", ![r].accepted = accepted]
  <2>1. accepted <=> Revealed(r) \notin refused
    OBVIOUS
  <2> HIDE DEF accepted
  <2>2. /\ \A q \in Requests \ {r} : req'[q] = req[q]
        /\ req'[r].key = req[r].key /\ req'[r].op = req[r].op
        /\ req'[r].loaded = req[r].loaded /\ req'[r].material = req[r].material
        /\ req'[r].pc = "record" /\ req'[r].accepted = accepted
    BY <1>1, <1>3 DEF RequestStates
  <2> QED
    BY <1>1, <2>1, <2>2, QuietGoes
<1> QED
  BY <1>2, <1>3 DEF Ask

\* The call fails: either it changed nothing or the key is a casualty.
LEMMA QuietEndsCall ==
    ASSUME IInv, QuietInv, NEW r \in Requests, Working(r), ~CalledStore(r),
           NEW m \in Materials \cup {NoMaterial}, NEW outcome, NEW answer \in Answers,
           Ends(r, answer), secrets' = Held(req[r].loaded.backend, req[r].key, m, outcome),
           UNCHANGED <<rows, refused, contended>>, casualties \subseteq casualties',
           outcome = "undone" \/ req[r].key \in casualties'
    PROVE  QuietInv'
<1>1. CASE outcome = "undone"
  <2>1. secrets' = secrets
    BY <1>1 DEF Held
  <2> QED
    BY <2>1, QuietEnds
<1>2. CASE req[r].key \in casualties'
  <2>1. PICK k \in Keys : k = req[r].key
    BY CreatesKey
  <2>2. \A j \in Keys \ {k} : secrets'[j] = secrets[j]
    BY <2>1, HeldTypes DEF IInv
  <2>3. \A j \in Keys \ {k} : Agrees(j)
    BY <2>2 DEF Agrees, Exists
  <2>4. /\ \A q \in Requests \ {r} : req'[q] = req[q]
        /\ req'[r].key = NoKey /\ req'[r].pc = "idle"
    BY IdleTypes DEF Ends, IInv, TypeOK
  <2> QED
    BY <1>2, <2>1, <2>3, <2>4, OwnKeyMoves
<1> QED
  BY <1>1, <1>2

\* The call is done: the secret is what the request has put there.
LEMMA QuietAfterCall ==
    ASSUME IInv, QuietInv, NEW r \in Requests, NEW pc \in {"flush", "remove"}, Goto(r, pc),
           NEW m \in Materials \cup {NoMaterial},
           \/ /\ req[r].op = "update" /\ req[r].pc = "put" /\ pc = "flush"
              /\ m = req[r].material /\ Rotates(r)
           \/ req[r].op = "delete" /\ req[r].pc = "erase" /\ pc = "remove" /\ m = NoMaterial,
           secrets' = Held(req[r].loaded.backend, req[r].key, m, "done"),
           UNCHANGED <<rows, refused, casualties, contended>>
    PROVE  QuietInv'
<1>1. /\ Working(r) /\ ~CalledStore(r) /\ Locks(r) = {} /\ req[r].op # "create"
      /\ req[r] \in RequestStates /\ req \in [Requests -> RequestStates]
  BY RequestTypes DEF Working, CalledStore, IInv, WritesInv, TypeOK
<1>2. PICK k \in Keys : k = req[r].key /\ k # NoKey /\ req[r].loaded \in Rows
  BY <1>1, CreatesKey
<1>3. /\ \A j \in Keys \ {k} : secrets'[j] = secrets[j]
      /\ req[r].loaded.backend = "local" => secrets' = secrets
      /\ req[r].loaded.backend = "infisical" => secrets'[k] = m
  BY <1>2 DEF Held, IInv, TypeOK
<1>4. \A j \in Keys \ {k} : Agrees(j)
  BY <1>3 DEF Agrees, Exists
<1>5. /\ \A q \in Requests \ {r} : req'[q] = req[q]
      /\ req'[r].key = k /\ req'[r].op = req[r].op
      /\ req'[r].loaded = req[r].loaded /\ req'[r].material = req[r].material
      /\ req'[r].pc = pc /\ req'[r].writes = req[r].writes
  BY <1>1, <1>2 DEF Goto, RequestStates
<1>6. CalledStore(r)' <=> req[r].loaded.backend = "infisical"
  BY <1>5 DEF CalledStore, Rotates
<1>7. ASSUME k \notin casualties' \cup contended'
      PROVE  AloneInv(r)'
  <2>1. AloneInv(r)
    BY <1>1, <1>2, <1>7, KeyIsTrue DEF Quiet
  <2>2. Locks(r)' = {}
    BY <1>1, <1>5 DEF Locks
  <2>3. \A q \in Requests : req'[q].key = req'[r].key => q = r
    BY <1>2, <1>5, <2>1 DEF AloneInv
  <2>4. /\ rows'[k] # NoRow
        /\ \A f \in {"shown", "sealed", "backend", "status"} :
                req'[r].loaded[f] = rows'[k][f]
    BY <1>1, <1>2, <1>5, <2>1 DEF AloneInv, Exists
  <2>5. CalledStore(r)' =>
            /\ req'[r].op = "update" => secrets'[k] = req'[r].material
            /\ req'[r].op = "delete" => secrets'[k] = NoMaterial
    BY <1>3, <1>5, <1>6
  <2>6. req'[r].pc # "record"
    BY <1>5
  <2> QED
    BY <1>5, <2>2, <2>3, <2>4, <2>5, <2>6 DEF AloneInv, Exists
<1>8. ASSUME k \notin casualties' \cup contended'
      PROVE  Truthful(k)' \/ (req'[r].key = k /\ CalledStore(r)')
  <2>1. Truthful(k)
    BY <1>1, <1>2, <1>8, KeyIsTrue DEF Quiet
  <2>2. CASE req[r].loaded.backend = "infisical"
    BY <1>5, <1>6, <2>2
  <2>3. CASE req[r].loaded.backend = "local"
    <3>1. Agrees(k)
      BY <1>3, <2>3 DEF Agrees, Exists
    <3> QED
      BY <2>1, <3>1, TruthStays
  <2> QED
    BY <1>2, <2>2, <2>3, RowTypes
<1> QED
  BY <1>1, <1>2, <1>4, <1>5, <1>7, <1>8, OwnKeyMoves

LEMMA QuietPut ==
    ASSUME IInv, QuietInv, NEW r \in Requests, Put(r), UNCHANGED contended
    PROVE  QuietInv'
<1>1. /\ req[r].op = "update" /\ req[r].pc = "put" /\ Working(r) /\ ~CalledStore(r)
      /\ UNCHANGED <<rows, refused>> /\ "failed" \in Answers
      /\ req[r].material \in Materials \cup {NoMaterial} /\ Rotates(r)
  BY RequestTypes DEF Put, At, Working, CalledStore, Answers, IInv, StepInv, Rotates
<1>2. PICK outcome \in Outcomes(req[r].loaded.backend) :
        /\ secrets' = Held(req[r].loaded.backend, req[r].key, req[r].material, outcome)
        /\ \/ outcome = "done" /\ Goto(r, "flush") /\ UNCHANGED casualties
           \/ StoreFails(r, req[r].key, outcome, "failed")
  BY DEF Put
<1>3. CASE outcome = "done" /\ Goto(r, "flush") /\ UNCHANGED casualties
  BY <1>1, <1>2, <1>3, QuietAfterCall
<1>4. CASE StoreFails(r, req[r].key, outcome, "failed")
  <2>1. /\ Ends(r, "failed") /\ casualties \subseteq casualties'
        /\ outcome = "undone" \/ req[r].key \in casualties'
    BY <1>4 DEF StoreFails, Outcomes
  <2> QED
    BY <1>1, <1>2, <2>1, QuietEndsCall
<1> QED
  BY <1>2, <1>3, <1>4

LEMMA QuietErase ==
    ASSUME IInv, QuietInv, NEW r \in Requests, EraseSecret(r), UNCHANGED contended
    PROVE  QuietInv'
<1>1. /\ req[r].op = "delete" /\ req[r].pc = "erase" /\ Working(r) /\ ~CalledStore(r)
      /\ UNCHANGED <<rows, refused>> /\ "notDeleted" \in Answers
  BY DEF EraseSecret, At, Working, CalledStore, Answers
<1>2. PICK outcome \in Outcomes(req[r].loaded.backend) :
        /\ secrets' = Held(req[r].loaded.backend, req[r].key, NoMaterial, outcome)
        /\ \/ outcome = "done" /\ Goto(r, "remove") /\ UNCHANGED casualties
           \/ StoreFails(r, req[r].key, outcome, "notDeleted")
  BY DEF EraseSecret
<1>3. CASE outcome = "done" /\ Goto(r, "remove") /\ UNCHANGED casualties
  BY <1>1, <1>2, <1>3, QuietAfterCall
<1>4. CASE StoreFails(r, req[r].key, outcome, "notDeleted")
  <2>1. /\ Ends(r, "notDeleted") /\ casualties \subseteq casualties'
        /\ outcome = "undone" \/ req[r].key \in casualties'
    BY <1>4 DEF StoreFails, Outcomes
  <2> QED
    BY <1>1, <1>2, <2>1, QuietEndsCall
<1> QED
  BY <1>2, <1>3, <1>4

\* create_key forgets the secret of a row that was never there.
LEMMA QuietForget ==
    ASSUME IInv, QuietInv, NEW r \in Requests, Forget(r), UNCHANGED contended
    PROVE  QuietInv'
<1>1. /\ req[r].op = "create" /\ Working(r) /\ UNCHANGED <<rows, refused>>
      /\ Ends(r, req[r].answer) /\ req[r].answer \in Answers
  BY RequestTypes DEF Forget, At, Working, IInv
<1>2. PICK k \in Keys : k = req[r].key /\ k # NoKey /\ req[r].loaded \in Rows
  BY <1>1, CreatesKey
<1>3. PICK outcome \in Outcomes(req[r].loaded.backend) :
        /\ secrets' = Held(req[r].loaded.backend, k, NoMaterial, outcome)
        /\ casualties' = IF outcome = "undone" THEN casualties \cup {k} ELSE casualties
  BY <1>2 DEF Forget
<1>4. /\ ~Exists(k)
      /\ req[r].loaded.backend = "local" => secrets[k] = NoMaterial
  BY <1>1, <1>2 DEF IInv, CreateInv
<1>5. /\ \A j \in Keys \ {k} : secrets'[j] = secrets[j]
      /\ outcome = "undone" \/ secrets'[k] = NoMaterial
  BY <1>3, <1>4, HeldTypes DEF IInv
<1>6. \A j \in Keys \ {k} : Agrees(j)
  BY <1>1, <1>5 DEF Agrees, Exists
<1>7. k \notin casualties' => Truthful(k)'
  BY <1>1, <1>3, <1>4, <1>5 DEF Truthful, Exists
<1>8. /\ \A q \in Requests \ {r} : req'[q] = req[q]
      /\ req'[r].key = NoKey /\ req'[r].pc = "idle"
  BY <1>1, IdleTypes DEF Ends, IInv, TypeOK
<1>9. casualties \subseteq casualties' /\ refused \subseteq refused'
  BY <1>1, <1>3
<1> QED
  BY <1>1, <1>2, <1>6, <1>7, <1>8, <1>9, OwnKeyMoves

\* A request starts on a row that nobody else works on.
LEMMA QuietStarts ==
    ASSUME IInv, QuietInv, NEW r \in Requests, ~Working(r), NEW k \in Keys, Exists(k),
           UNCHANGED <<rows, secrets, refused, casualties>>, contended \subseteq contended',
           InFlight(k) => k \in contended',
           \A q \in Requests \ {r} : req'[q] = req[q],
           req'[r].key = k, req'[r].loaded = rows[k], Locks(r)' = {}, ~CalledStore(r)',
           req'[r].op # "create", req'[r].pc # "record"
    PROVE  QuietInv'
<1>1. req[r].key = NoKey /\ k # NoKey
  BY AbsentAssumption DEF IInv, StepInv
<1>2. \A j \in Keys : Agrees(j)
  BY DEF Agrees, Exists
<1>3. rows' = rows /\ secrets' = secrets
  OBVIOUS
<1>4. ASSUME k \notin casualties' \cup contended'
      PROVE  AloneInv(r)' /\ Truthful(k)'
  <2>1. \A q \in Requests : req[q].key # k
    BY <1>4 DEF InFlight
  <2>2. \A q \in Requests : req'[q].key = req'[r].key => q = r
    BY <2>1
  <2>3. Exists(k)' /\ req'[r].loaded = rows'[k]
    BY <1>3 DEF Exists
  <2>4. AloneInv(r)'
    BY <2>2, <2>3 DEF AloneInv, Exists
  <2>5. Truthful(k)
    BY <1>4, <2>1 DEF QuietInv, Quiet
  <2> QED
    BY <1>2, <2>4, <2>5, TruthStays
<1>5. \A j \in Keys \cap {req[r].key, req'[r].key} : j = k
  BY <1>1, AbsentAssumption
<1>6. /\ \A j \in Keys \ {req[r].key, req'[r].key} :
            j \notin casualties' \cup contended' => Agrees(j)
      /\ req'[r].pc # "idle" /\ req'[r].key \notin casualties' \cup contended' => AloneInv(r)'
      /\ (\E q \in Requests : req[q].key = req'[r].key) => req'[r].key \in contended'
      /\ refused \subseteq refused' /\ casualties \subseteq casualties'
  BY <1>2, <1>4 DEF InFlight
<1>7. \A j \in Keys \cap {req[r].key, req'[r].key} :
            j \notin casualties' \cup contended' =>
                Truthful(j)' \/ (req'[r].key = j /\ CalledStore(r)')
  BY <1>4, <1>5
<1> QED
  BY <1>6, <1>7, OneMoves

LEMMA QuietStartUpdate ==
    ASSUME IInv, QuietInv, NEW r \in Requests, StartUpdate(r),
           contended' = contended \cup {k \in {req'[r].key} \cap Keys : InFlight(k)}
    PROVE  QuietInv'
<1>1. /\ ~Working(r) /\ UNCHANGED <<rows, secrets, refused, casualties>>
      /\ req \in [Requests -> RequestStates]
  BY DEF StartUpdate, Working, IInv, TypeOK
<1>2. PICK k \in Keys, m \in Materials \cup {NoMaterial}, label \in Labels \cup {NoLabel},
           makeDefault \in BOOLEAN :
        Exists(k) /\ req' = [req EXCEPT ![r] = Change(k, m, label, makeDefault)]
  BY DEF StartUpdate
<1> DEFINE new == Change(k, m, label, makeDefault)
<1>3. /\ new.op = "update" /\ new.key = k /\ new.loaded = rows[k]
      /\ new.writes = NoWrites /\ new.material = m
      /\ new.pc = IF m = NoMaterial THEN "flush" ELSE "put"
  BY DEF Change, Idle
<1>4. DOMAIN NoWrites = {}
  BY DEF NoWrites
<1>5. req'[r] = new /\ \A q \in Requests \ {r} : req'[q] = req[q]
  BY <1>1, <1>2
<1> HIDE DEF new
<1>6. /\ req'[r].key = k /\ req'[r].loaded = rows[k] /\ req'[r].op # "create"
      /\ req'[r].pc # "record" /\ Locks(r)' = {}
  BY <1>3, <1>4, <1>5 DEF Locks
<1>7. ~CalledStore(r)'
  BY <1>3, <1>5 DEF CalledStore, Rotates
<1>8. contended \subseteq contended' /\ (InFlight(k) => k \in contended')
  BY <1>6
<1> QED
  BY <1>1, <1>2, <1>5, <1>6, <1>7, <1>8, QuietStarts

LEMMA QuietOnRow ==
    ASSUME IInv, QuietInv, NEW r \in Requests, StartDelete(r) \/ StartCheck(r),
           contended' = contended \cup {k \in {req'[r].key} \cap Keys : InFlight(k)}
    PROVE  QuietInv'
<1>1. /\ ~Working(r) /\ UNCHANGED <<rows, secrets, refused, casualties>>
      /\ req \in [Requests -> RequestStates]
  BY DEF StartDelete, StartCheck, Working, IInv, TypeOK
<1>2. PICK k \in Keys, op \in {"delete", "check", "chat"} :
        /\ Exists(k)
        /\ req' = [req EXCEPT ![r] = OnRow(k, op, IF op = "delete" THEN "erase" ELSE "ask")]
  <2>1. CASE StartDelete(r)
    BY <2>1 DEF StartDelete
  <2>2. CASE StartCheck(r)
    BY <2>2 DEF StartCheck
  <2> QED
    BY <2>1, <2>2
<1> DEFINE pc == IF op = "delete" THEN "erase" ELSE "ask"
           new == OnRow(k, op, pc)
<1>3. /\ new.op = op /\ new.key = k /\ new.loaded = rows[k] /\ new.writes = NoWrites
      /\ new.pc = pc
  BY DEF OnRow, Idle
<1>4. DOMAIN NoWrites = {}
  BY DEF NoWrites
<1>5. req'[r] = new /\ \A q \in Requests \ {r} : req'[q] = req[q]
  BY <1>1, <1>2
<1> HIDE DEF new
<1>6. /\ req'[r].key = k /\ req'[r].loaded = rows[k] /\ req'[r].op # "create"
      /\ req'[r].pc # "record" /\ Locks(r)' = {}
  BY <1>3, <1>4, <1>5 DEF Locks
<1>7. ~CalledStore(r)'
  BY <1>3, <1>5 DEF CalledStore
<1>8. contended \subseteq contended' /\ (InFlight(k) => k \in contended')
  BY <1>6
<1> QED
  BY <1>1, <1>2, <1>5, <1>6, <1>7, <1>8, QuietStarts

LEMMA QuietStartCreate ==
    ASSUME IInv, QuietInv, NEW r \in Requests, StartCreate(r), contended \subseteq contended'
    PROVE  QuietInv'
<1>0. /\ req[r].key = NoKey /\ UNCHANGED <<rows, refused>>
      /\ req \in [Requests -> RequestStates]
  BY DEF StartCreate, IInv, TypeOK, StepInv, Working
<1>1. PICK k \in Keys \ drawn, m \in Materials, label \in Labels, backend \in Backends,
           makeDefault \in BOOLEAN :
        \E outcome \in Outcomes(backend) :
            /\ secrets' = Held(backend, k, m, outcome)
            /\ \/ /\ outcome = "done"
                  /\ req' = [req EXCEPT ![r] =
                        Creation(k, NewRow(label, m, backend), makeDefault)]
                  /\ UNCHANGED casualties
               \/ StoreFails(r, k, outcome, "failed")
  BY DEF StartCreate
<1>2. PICK outcome \in Outcomes(backend) :
        /\ secrets' = Held(backend, k, m, outcome)
        /\ \/ /\ outcome = "done"
              /\ req' = [req EXCEPT ![r] =
                    Creation(k, NewRow(label, m, backend), makeDefault)]
              /\ UNCHANGED casualties
           \/ StoreFails(r, k, outcome, "failed")
  BY <1>1
<1>3. /\ \A j \in Keys : j # k => secrets'[j] = secrets[j]
      /\ backend = "local" => secrets' = secrets
      /\ outcome = "undone" => secrets' = secrets
  BY <1>2, HeldTypes DEF IInv, Held
<1>4. ~Exists(k) /\ secrets[k] = NoMaterial /\ k # NoKey
  BY AbsentAssumption DEF IInv, UndrawnIsNothing
<1>5. \A j \in Keys : j # k => Agrees(j)
  BY <1>0, <1>3 DEF Agrees, Exists
<1>6. CASE /\ req' = [req EXCEPT ![r] =
                    Creation(k, NewRow(label, m, backend), makeDefault)]
           /\ UNCHANGED casualties
  <2> DEFINE row == NewRow(label, m, backend)
             new == Creation(k, row, makeDefault)
  <2>1. row.backend = backend /\ backend \in {"local", "infisical"}
    BY SettingsAssumption DEF NewRow
  <2> HIDE DEF row
  <2>2. new.op = "create" /\ new.key = k /\ new.loaded = row /\ new.pc = "insert"
    BY DEF Creation, Idle
  <2>3. req' = [req EXCEPT ![r] = new]
    BY <1>6 DEF row
  <2> HIDE DEF new
  <2>4. req'[r] = new /\ \A q \in Requests \ {r} : req'[q] = req[q]
    BY <1>0, <2>3
  <2>5. \A q \in Requests : req[q].key # k
    BY FreshKey
  <2>6. AloneInv(r)'
    BY <2>2, <2>4, <2>5 DEF AloneInv, CalledStore
  <2>7. CASE backend = "local"
    <3>1. Truthful(k)'
      BY <1>0, <1>3, <1>4, <2>7 DEF Truthful, Exists
    <3>2. \A j \in Keys \cap {req[r].key, req'[r].key} : Truthful(j)'
      BY <1>0, <2>2, <2>4, <3>1, AbsentAssumption
    <3> QED
      BY <1>0, <1>5, <1>6, <2>2, <2>4, <2>5, <2>6, <3>2, OneMoves
  <2>8. CASE backend = "infisical"
    <3>1. CalledStore(r)'
      BY <2>1, <2>2, <2>4, <2>8 DEF CalledStore
    <3>2. \A j \in Keys \cap {req[r].key, req'[r].key} : req'[r].key = j /\ CalledStore(r)'
      BY <1>0, <2>2, <2>4, <3>1, AbsentAssumption
    <3> QED
      BY <1>0, <1>5, <1>6, <2>2, <2>4, <2>5, <2>6, <3>2, OneMoves
  <2> QED
    BY <2>1, <2>7, <2>8
<1>7. CASE StoreFails(r, k, outcome, "failed")
  <2>1. /\ \A q \in Requests \ {r} : req'[q] = req[q]
        /\ req'[r].key = NoKey /\ req'[r].pc = "idle"
    BY <1>0, <1>7, IdleTypes DEF StoreFails, Ends, Answers
  <2>2. casualties \subseteq casualties' /\ (outcome = "undone" \/ k \in casualties')
    BY <1>7 DEF StoreFails, Outcomes
  <2>3. k \notin casualties' => Agrees(k)
    BY <1>0, <1>3, <2>2 DEF Agrees, Exists
  <2>4. \A j \in Keys \ {req[r].key, req'[r].key} :
            j \notin casualties' \cup contended' => Agrees(j)
    BY <1>5, <2>3
  <2>5. Keys \cap {req[r].key, req'[r].key} = {}
    BY <1>0, <2>1, AbsentAssumption
  <2> QED
    BY <1>0, <2>1, <2>2, <2>4, <2>5, OneMoves
<1> QED
  BY <1>2, <1>6, <1>7

\* The rows of a transaction agree with those it found, but on its own key.
LEMMA OwnAgrees ==
    ASSUME IInv, NEW r \in Requests, Working(r), NEW k \in Keys, k # req[r].key
    PROVE  /\ Own(r, k) # NoRow <=> Exists(k)
           /\ Exists(k) => \A f \in {"shown", "sealed", "backend", "status"} :
                Own(r, k)[f] = rows[k][f]
<1>1. WritesInv(r)
  BY DEF IInv
<1>2. CASE k \notin Locks(r)
  BY <1>2 DEF Own, Locks, Exists
<1>3. CASE k \in Locks(r)
  <2>1. Own(r, k) = req[r].writes[k] /\ req[r].op # "delete"
    BY <1>1, <1>3 DEF Own, Locks, WritesInv
  <2>2. Exists(k) /\ Own(r, k) = [rows[k] EXCEPT !.default = FALSE]
    BY <1>1, <1>3, <2>1 DEF WritesInv
  <2>3. rows[k] \in Rows
    BY <2>2 DEF IInv, TypeOK, Exists
  <2>4. Own(r, k) # NoRow
    <3>1. Own(r, k) \in Rows
      BY <2>2, <2>3 DEF Rows
    <3> QED
      BY <3>1, RowTypes
  <2>5. \A f \in {"shown", "sealed", "backend", "status"} : Own(r, k)[f] = rows[k][f]
    BY <2>2, <2>3 DEF Rows
  <2> QED
    BY <2>2, <2>4, <2>5
<1> QED
  BY <1>2, <1>3

LEMMA QuietCommit ==
    ASSUME IInv, QuietInv, NEW r \in Requests, Commit(r), UNCHANGED contended
    PROVE  QuietInv'
<1>1. /\ req[r].op \in {"create", "update", "delete"} /\ req[r].pc = "commit" /\ Working(r)
      /\ ~DefaultGone(r) /\ Ends(r, "ok") /\ "ok" \in Answers
      /\ UNCHANGED <<secrets, refused, casualties>>
      /\ rows' = [k \in Keys |-> IF k \in NewDefault(r)
                                 THEN [Own(r, k) EXCEPT !.default = TRUE] ELSE Own(r, k)]
  BY DEF Commit, At, Working, Answers
<1>2. PICK k \in Keys : k = req[r].key /\ req[r].loaded \in Rows
  BY <1>1, CreatesKey
<1>3. WritesInv(r) /\ CreateInv(r)
  BY DEF IInv
<1>4. ASSUME NEW j \in Keys
      PROVE  /\ rows'[j] # NoRow <=> Own(r, j) # NoRow
             /\ Own(r, j) # NoRow =>
                /\ \A f \in {"shown", "sealed", "backend", "status"} :
                        rows'[j][f] = Own(r, j)[f]
  <2>1. CASE Own(r, j) = NoRow
    BY <1>1, <2>1 DEF DefaultGone
  <2>2. CASE Own(r, j) # NoRow
    <3>1. Own(r, j) \in Rows
      BY <1>1, <2>2, OwnIs
    <3>2. CASE j \in NewDefault(r)
      <4>1. rows'[j] = [Own(r, j) EXCEPT !.default = TRUE]
        BY <1>1, <3>2
      <4>2. rows'[j] \in Rows /\ \A f \in {"shown", "sealed", "backend", "status"} :
                rows'[j][f] = Own(r, j)[f]
        BY <3>1, <4>1 DEF Rows
      <4> QED
        BY <2>2, <4>2, RowTypes
    <3>3. CASE j \notin NewDefault(r)
      BY <1>1, <2>2, <3>3
    <3> QED
      BY <3>2, <3>3
  <2> QED
    BY <2>1, <2>2
<1>5. \A j \in Keys \ {k} : Agrees(j)
  <2> SUFFICES ASSUME NEW j \in Keys \ {k} PROVE Agrees(j)
    OBVIOUS
  <2>1. /\ Own(r, j) # NoRow <=> Exists(j)
        /\ Exists(j) => \A f \in {"shown", "sealed", "backend", "status"} :
                Own(r, j)[f] = rows[j][f]
    BY <1>1, <1>2, OwnAgrees
  <2>2. secrets' = secrets
    BY <1>1
  <2> QED
    BY <1>4, <2>1, <2>2 DEF Agrees
<1>6. ASSUME k \notin casualties' \cup contended'
      PROVE  Truthful(k)'
  <2>1. AloneInv(r) /\ (Truthful(k) \/ CalledStore(r))
    BY <1>1, <1>2, <1>6, KeyIsTrue DEF Quiet
  <2>2. secrets' = secrets /\ refused' = refused
    BY <1>1
  <2>3. CASE req[r].op = "delete"
    <3>1. Exists(k) /\ rows[k].backend = req[r].loaded.backend
      BY <1>2, <2>1, <2>3 DEF AloneInv
    <3>2. Own(r, k) = NoRow
      BY <1>1, <1>2, <1>3, <2>3, <3>1 DEF WritesInv, Own, Locks
    <3>3. secrets[k] = NoMaterial
      <4>1. CASE req[r].loaded.backend = "infisical"
        BY <1>1, <1>2, <2>1, <2>3, <4>1 DEF AloneInv, CalledStore
      <4>2. CASE req[r].loaded.backend = "local"
        BY <3>1, <4>2 DEF IInv, SecretsHeld
      <4> QED
        BY <1>2, <4>1, <4>2, RowTypes
    <3> QED
      BY <1>4, <2>2, <3>2, <3>3 DEF Truthful, Exists
  <2>4. CASE req[r].op = "create"
    <3>1. Own(r, k) = req[r].loaded
      BY <1>1, <1>2, <1>3, <2>4 DEF WritesInv, Own, Locks
    <3>2. rows'[k] # NoRow /\ \A f \in {"shown", "sealed", "backend", "status"} :
                rows'[k][f] = req[r].loaded[f]
      BY <1>2, <1>4, <3>1, RowTypes
    <3>3. /\ req[r].loaded.status = "active"
          /\ req[r].loaded.backend = "local" => req[r].loaded.sealed = req[r].loaded.shown
          /\ req[r].loaded.backend = "infisical" => secrets[k] = req[r].loaded.shown
      BY <1>1, <1>2, <1>3, <2>4 DEF CreateInv
    <3>4. req[r].loaded.backend \in {"local", "infisical"}
      BY <1>2, RowTypes
    <3> QED
      BY <2>2, <3>2, <3>3, <3>4 DEF Truthful, Stored, Exists
  <2>5. CASE req[r].op = "update" /\ Rotates(r)
    <3>1. k \in Locks(r)
      BY <1>1, <1>2, <1>3, <2>5 DEF WritesInv
    <3> DEFINE w == req[r].writes[k]
    <3>2. /\ w \in Rows /\ w.backend = rows[k].backend
          /\ w.shown = req[r].material /\ w.status = "active"
          /\ w.backend = "local" => w.sealed = req[r].material
      BY <1>2, <1>3, <2>1, <2>5, <3>1 DEF AloneInv, WritesInv
    <3>3. Own(r, k) = w
      BY <3>1 DEF Own, Locks
    <3>4. w.backend = "infisical" => secrets[k] = req[r].material
      <4>1. rows[k].backend = req[r].loaded.backend
        BY <1>2, <2>1, <2>5 DEF AloneInv
      <4> QED
        BY <1>1, <1>2, <2>1, <2>5, <3>2, <4>1 DEF AloneInv, CalledStore
    <3> HIDE DEF w
    <3>5. rows'[k] # NoRow /\ \A f \in {"shown", "sealed", "backend", "status"} :
                rows'[k][f] = w[f]
      BY <1>4, <3>2, <3>3, RowTypes
    <3>6. w.backend \in {"local", "infisical"}
      BY <3>2, RowTypes
    <3> QED
      BY <2>2, <3>2, <3>4, <3>5, <3>6 DEF Truthful, Stored, Exists
  <2>6. CASE req[r].op = "update" /\ ~Rotates(r)
    <3>1. Truthful(k)
      BY <2>1, <2>6 DEF CalledStore
    <3>2. Exists(k)
      BY <1>2, <2>1, <2>6 DEF AloneInv
    <3>3. /\ Own(r, k) # NoRow
          /\ \A f \in {"shown", "sealed", "backend", "status"} : Own(r, k)[f] = rows[k][f]
      <4>1. CASE k \in Locks(r)
        <5>1. Own(r, k) = req[r].writes[k]
          BY <4>1 DEF Own, Locks
        <5>2. /\ req[r].writes[k] \in Rows /\ req[r].writes[k].backend = rows[k].backend
              /\ \A f \in {"shown", "sealed", "status"} : req[r].writes[k][f] = rows[k][f]
          BY <1>2, <1>3, <2>1, <2>6, <4>1 DEF AloneInv, WritesInv
        <5> QED
          BY <5>1, <5>2, RowTypes
      <4>2. CASE k \notin Locks(r)
        BY <3>2, <4>2 DEF Own, Locks, Exists
      <4> QED
        BY <4>1, <4>2
    <3>4. Agrees(k)
      BY <1>4, <2>2, <3>2, <3>3 DEF Agrees
    <3> QED
      BY <2>2, <3>1, <3>4, TruthStays
  <2> QED
    BY <1>1, <2>3, <2>4, <2>5, <2>6
<1>7. /\ \A q \in Requests \ {r} : req'[q] = req[q]
      /\ req'[r].key = NoKey /\ req'[r].pc = "idle"
  BY <1>1, IdleTypes DEF Ends, IInv, TypeOK
<1>8. refused \subseteq refused' /\ casualties \subseteq casualties' /\ contended \subseteq contended'
  BY <1>1
<1> QED
  BY <1>1, <1>2, <1>5, <1>6, <1>7, <1>8, OwnKeyMoves

LEMMA QuietRecord ==
    ASSUME IInv, QuietInv, NEW r \in Requests, RecordVerdict(r), UNCHANGED contended
    PROVE  QuietInv'
<1> DEFINE target == [req[r].loaded EXCEPT !.status = Verdict(r)]
           row == Flushed(r, target)
<1>1. /\ req[r].op \in {"check", "chat"} /\ req[r].pc = "record" /\ Working(r)
      /\ ~CalledStore(r) /\ "ok" \in Answers /\ "failed" \in Answers
  BY DEF RecordVerdict, At, Working, Answers, CalledStore
<1>2. PICK k \in Keys : k = req[r].key /\ req[r].loaded \in Rows
  BY <1>1, CreatesKey
<1>3. CASE Ends(r, "ok") /\ UNCHANGED <<rows, secrets, refused, drawn, casualties>>
  BY <1>1, <1>3, QuietEnds
<1>4. CASE /\ Exists(req[r].key) /\ rows' = [rows EXCEPT ![req[r].key] = row]
           /\ Ends(r, "ok") /\ UNCHANGED <<secrets, refused, drawn, casualties>>
  <2>1. /\ target \in Rows /\ target.backend = req[r].loaded.backend
        /\ target.sealed = req[r].loaded.sealed /\ target.shown = req[r].loaded.shown
        /\ target.status = Verdict(r)
    BY <1>2 DEF Verdict, Rows
  <2> HIDE DEF target
  <2>2. /\ row \in Rows
        /\ \A f \in {"label", "shown", "sealed", "backend", "default", "status"} :
                row[f] = IF target[f] = req[r].loaded[f]
                         THEN rows[req[r].key][f] ELSE target[f]
    BY <1>1, <1>4, <2>1, FlushedIs
  <2>3. /\ row.backend = rows[k].backend /\ row.sealed = rows[k].sealed
        /\ row.shown = rows[k].shown
        /\ row.status = Verdict(r) \/ req[r].loaded.status # rows[k].status
    BY <1>2, <2>1, <2>2
  <2> HIDE DEF row
  <2>4. /\ secrets' = secrets /\ rows'[k] = row /\ row # NoRow /\ Exists(k)
        /\ \A j \in Keys : j # k => rows'[j] = rows[j]
    BY <1>2, <1>4, <2>2, RowTypes DEF IInv, TypeOK
  <2>5. \A j \in Keys \ {k} : Agrees(j)
    BY <2>4 DEF Agrees, Exists
  <2>6. ASSUME k \notin casualties' \cup contended'
        PROVE  Truthful(k)'
    <3>1. AloneInv(r) /\ Truthful(k)
      BY <1>1, <1>2, <1>4, <2>6, KeyIsTrue DEF Quiet
    <3>2. /\ req[r].loaded.status = rows[k].status /\ req[r].loaded.sealed = rows[k].sealed
          /\ req[r].loaded.backend = rows[k].backend
      BY <1>1, <1>2, <3>1 DEF AloneInv
    <3>3. rows'[k].shown = rows[k].shown /\ Stored(k)' = Stored(k)
      BY <2>3, <2>4 DEF Stored
    <3>4. rows'[k].status = "invalid" => Stored(k) \in refused
      <4>1. rows'[k].status = Verdict(r)
        BY <2>3, <2>4, <3>2
      <4>2. Revealed(r) = Stored(k)
        BY <1>2, <3>2 DEF Revealed, Stored
      <4>3. ~req[r].accepted => Revealed(r) \in refused
        BY <1>1, <3>1 DEF AloneInv
      <4> QED
        BY <4>1, <4>2, <4>3 DEF Verdict
    <3>5. Exists(k)' /\ refused' = refused
      BY <1>4, <2>4 DEF Exists
    <3> QED
      BY <2>4, <3>1, <3>3, <3>4, <3>5 DEF Truthful
  <2>7. /\ \A q \in Requests \ {r} : req'[q] = req[q]
        /\ req'[r].key = NoKey /\ req'[r].pc = "idle"
    BY <1>1, <1>4, IdleTypes DEF Ends, IInv, TypeOK
  <2>8. refused \subseteq refused' /\ casualties \subseteq casualties'
    BY <1>4
  <2> QED
    BY <1>1, <1>2, <2>5, <2>6, <2>7, <2>8, OwnKeyMoves
<1>5. CASE Fails(r, "failed")
  BY <1>1, <1>5, QuietFails
<1> QED
  BY <1>3, <1>4, <1>5 DEF RecordVerdict

\* Time passes, or the provider stops accepting a key.
LEMMA QuietStays ==
    ASSUME IInv, QuietInv, UNCHANGED <<rows, secrets, req, casualties, contended>>,
           refused \subseteq refused'
    PROVE  QuietInv'
<1>1. \A q \in Requests : /\ CalledStore(q)' <=> CalledStore(q)
                          /\ Revealed(q)' = Revealed(q) /\ Locks(q)' = Locks(q)
                          /\ Working(q)' <=> Working(q)
                          /\ Quiet(req[q].key)' <=> Quiet(req[q].key)
  BY DEF CalledStore, Rotates, Revealed, Locks, Working, Quiet
<1>2. ASSUME NEW r \in Requests, AloneInv(r) PROVE AloneInv(r)'
  <2>1. Revealed(r) \in refused => Revealed(r) \in refused'
    OBVIOUS
  <2>2. rows' = rows /\ secrets' = secrets /\ req' = req
    OBVIOUS
  <2> QED
    BY <1>1, <1>2, <2>1, <2>2 DEF AloneInv, Exists, Rotates
<1>3. ASSUME NEW k \in Keys, Truthful(k) PROVE Truthful(k)'
  <2>1. Agrees(k)
    BY DEF Agrees, Exists
  <2> QED
    BY <1>3, <2>1, TruthStays
<1>4. ASSUME NEW r \in Requests, Working(r)', Quiet(req[r].key)'
      PROVE  AloneInv(r)'
  BY <1>1, <1>2, <1>4 DEF QuietInv
<1>5. ASSUME NEW k \in Keys, Quiet(k)'
      PROVE  Truthful(k)' \/ \E q \in Requests : req'[q].key = k /\ CalledStore(q)'
  BY <1>1, <1>3, <1>5 DEF QuietInv, Quiet
<1> QED
  BY <1>4, <1>5 DEF QuietInv

LEMMA QuietFailures ==
    ASSUME IInv, QuietInv, NEW r \in Requests,
           DatabaseError(r) \/ Crash(r) \/ (CommitFails(r) /\ UNCHANGED contended)
    PROVE  QuietInv'
<1>1. Working(r) /\ UNCHANGED contended
  BY DEF DatabaseError, InDatabase, Crash, CommitFails, At, Working
<1>2. CASE /\ req[r].op = "create"
           /\ TurnsToForget(r, "duplicate") \/ TurnsToForget(r, "failed")
           /\ UNCHANGED <<rows, secrets, refused, drawn, casualties>>
  BY <1>1, <1>2, QuietForgetting
<1>3. CASE Fails(r, "duplicate") \/ Fails(r, "failed") \/ Fails(r, "none")
  BY <1>1, <1>3, QuietFails DEF Answers
<1> QED
  BY <1>2, <1>3 DEF DatabaseError, Crash, CommitFails, At

LEMMA InitIsQuiet == Init => QuietInv
<1> SUFFICES ASSUME Init PROVE QuietInv
  OBVIOUS
<1>1. \A r \in Requests : req[r].pc = "idle"
  BY IdleTypes DEF Init, Answers
<1>2. \A k \in Keys : Truthful(k)
  BY DEF Init, Truthful, Exists
<1> QED
  BY <1>1, <1>2 DEF QuietInv, Working

LEMMA StepIsQuiet == IInv /\ QuietInv /\ [Next]_vars => QuietInv'
<1> SUFFICES ASSUME IInv, QuietInv, [Next]_vars PROVE QuietInv'
  OBVIOUS
<1>1. ASSUME NEW r \in Requests, Step(r) PROVE QuietInv'
  BY <1>1, QuietInsert, QuietForget, QuietPut, QuietFlush, QuietScan, QuietClear,
     QuietErase, QuietRemove, QuietCommit, QuietFailures, QuietAsk, QuietRecord DEF Step
<1>2. ASSUME NEW r \in Requests, Start(r) PROVE QuietInv'
  <2>1. contended' = contended \cup {k \in {req'[r].key} \cap Keys : InFlight(k)}
    BY <1>2 DEF Start
  <2>2. contended \subseteq contended'
    BY <2>1
  <2> QED
    BY <1>2, <2>1, <2>2, QuietStartCreate, QuietStartUpdate, QuietOnRow DEF Start
<1>3. ASSUME NEW r \in Requests, DatabaseError(r) \/ BreakDeadlock(r) \/ Crash(r)
      PROVE  QuietInv'
  BY <1>3, QuietFailures DEF BreakDeadlock
<1>4. CASE Refuse
  BY <1>4, QuietStays DEF Refuse
<1>5. CASE UNCHANGED vars
  BY <1>5, QuietStays DEF vars
<1> QED
  BY <1>1, <1>2, <1>3, <1>4, <1>5 DEF Next

\* What the settings page says of a key is true of the key in the store (last characters,
\* a rejection, no secret without its row: models/credential.py:5 and :30,
\* vault_service.py:252), however many requests have passed over it and whatever the
\* others did meanwhile, as long as no two of its requests overlapped and none of them
\* failed after it had called Infisical.
THEOREM PageIsTrueHolds == Spec => []PageIsTrue
<1>1. QuietInv => PageIsTrue
  <2> SUFFICES ASSUME QuietInv, NEW k \in Keys \ (casualties \cup contended), ~InFlight(k)
               PROVE  /\ secrets[k] # NoMaterial => Exists(k)
                      /\ Exists(k) => rows[k].shown = Stored(k)
                      /\ Exists(k) /\ rows[k].status = "invalid" => Stored(k) \in refused
    BY DEF PageIsTrue
  <2>1. Truthful(k)
    BY DEF QuietInv, Quiet, InFlight
  <2> QED
    BY <2>1 DEF Truthful
<1> QED
  BY <1>1, InitIsQuiet, StepIsQuiet, InvariantHolds, PTL DEF Spec

=============================================================================
