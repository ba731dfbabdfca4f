------------------------------ MODULE Envelope ------------------------------
(***************************************************************************)
(* The students' keys at rest: sealed under a master key (crypto.py), in   *)
(* the credential row or in Infisical (secret_store.py,                    *)
(* infisical_store.py), while the master key is rotated.                   *)
(*                                                                         *)
(* A process keeps the environment it was started with (get_keyring is     *)
(* cached, settings are read once), and a deploy starts the new process    *)
(* before it stops the old one.  So several keyrings are in use at once,   *)
(* on rows that any of them may have sealed.                               *)
(***************************************************************************)
EXTENDS Naturals, FiniteSets

CONSTANTS
    Credentials,     \* credential ids; one is never used again
    Legacy,          \* those stored in Infisical before keys were sealed
    OwnerOf,         \* the user of each
    Processes,
    Versions,        \* of the master key
    Staged,          \* TRUE: the operator activates a version once every process has it
    MaxKeys,         \* bound: the keys a student gives for one credential
    Stopped, NoSecret

ASSUME VersionsAssumption == Versions \subseteq Nat /\ 1 \in Versions
ASSUME LegacyAssumption == Legacy \subseteq Credentials
ASSUME MaxKeysAssumption == MaxKeys \in Nat \ {0}

Local == "local"
Infisical == "infisical"
NoRow == "no row"

VARIABLES
    env,        \* the deploy environment: SECRETS_MASTER_KEYS, SECRETS_ACTIVE_KEY_VERSION
                \* and SECRET_BACKEND
    process,    \* the environment each process was started with
    backend,    \* the backend column of each credential, if it has a row
    column,     \* the secret in the row
    remote,     \* the secret in Infisical
    given,      \* history: how many keys the student has given for each credential
    misplaced   \* history: the credentials whose secret is a copy of another's

vars == <<env, process, backend, column, remote, given, misplaced>>

Environments == [ring: SUBSET Versions, active: Versions, backend: {Local, Infisical}]

\* The n-th key given for a credential, sealed for it under a version, or in the clear.
Secrets ==
    [sealed: BOOLEAN, cred: Credentials, n: 1..MaxKeys, version: Versions]

ASSUME NoneAssumption == Stopped \notin Environments /\ NoSecret \notin Secrets

Running == {p \in Processes : process[p] # Stopped}
Stored == {c \in Credentials : backend[c] \in {Local, Infisical}}

\* A keyring whose active version is not loaded is refused by parse().
TypeOK ==
    /\ env \in Environments /\ env.active \in env.ring
    /\ process \in [Processes -> Environments \cup {Stopped}]
    /\ \A p \in Running : process[p].active \in process[p].ring
    /\ backend \in [Credentials -> {Local, Infisical, NoRow}]
    /\ column \in [Credentials -> Secrets \cup {NoSecret}]
    /\ remote \in [Credentials -> Secrets \cup {NoSecret}]
    /\ given \in [Credentials -> 0..MaxKeys]
    /\ misplaced \subseteq Credentials

Init ==
    /\ env \in [ring: {{1}}, active: {1}, backend: {Local, Infisical}]
    /\ process = [p \in Processes |-> Stopped]
    /\ backend = [c \in Credentials |-> IF c \in Legacy THEN Infisical ELSE NoRow]
    /\ column = [c \in Credentials |-> NoSecret]
    /\ remote = [c \in Credentials |->
                    IF c \in Legacy
                    THEN [sealed |-> FALSE, cred |-> c, n |-> 1, version |-> 1]
                    ELSE NoSecret]
    /\ given = [c \in Credentials |-> IF c \in Legacy THEN 1 ELSE 0]
    /\ misplaced = {}

secrets == <<backend, column, remote, given, misplaced>>

-----------------------------------------------------------------------------
(* Sealing                                                                 *)

\* Slip: the ciphertext is bound to the user alone.
UserAlone(c) == OwnerOf[c]

\* build_aad.
Identity(c) == c

\* Slip: the newest version seals.
NewestVersion(ring) == CHOOSE v \in ring.ring : \A w \in ring.ring : w <= v

SealingVersion(ring) == ring.active

Seal(ring, c, n) ==
    [sealed |-> TRUE, cred |-> c, n |-> n, version |-> SealingVersion(ring)]

\* seal() and unseal() with the version the secret names; a value of Infisical that is
\* not a token is the key itself.
Opens(ring, secret, c) ==
    \/ ~secret.sealed
    \/ secret.version \in ring.ring /\ Identity(secret.cred) = Identity(c)

Unreadable == [cred |-> NoSecret, n |-> 0]
KeyIn(secret) == [cred |-> secret.cred, n |-> secret.n]

\* The secret of a row: store_for(credential.backend).get().
SecretOf(c) == IF backend[c] = Local THEN column[c] ELSE remote[c]

\* reveal() in process p.
Reads(p, c) ==
    IF Opens(process[p], SecretOf(c), c) THEN KeyIn(SecretOf(c)) ELSE Unreadable

\* Versions that still open something.
Needed == {SecretOf(c).version : c \in {d \in Stored : SecretOf(d).sealed}}

-----------------------------------------------------------------------------
(* The vault's requests, in process p                                      *)

\* Slip: a key is replaced in the backend that is now in use.
BackendInUse(p, c) == process[p].backend

\* The store of a key: a new one goes where the process was told to put it, a replaced
\* one stays where it is.
StoreFor(p, c) == IF c \in Stored THEN backend[c] ELSE process[p].backend

\* create_key and update_key.  The secret and the row are written as one: what comes
\* between them is KeyVault's.
PutKey(p, c) ==
    /\ p \in Running
    /\ given[c] = 0 \/ c \in Stored
    /\ given[c] < MaxKeys
    /\ LET secret == Seal(process[p], c, given[c] + 1)
           store == StoreFor(p, c)
       IN  /\ backend' = [backend EXCEPT ![c] = store]
           /\ column' = [column EXCEPT ![c] = IF store = Local THEN secret ELSE @]
           /\ remote' = [remote EXCEPT ![c] = IF store = Infisical THEN secret ELSE @]
    /\ given' = [given EXCEPT ![c] = @ + 1]
    /\ misplaced' = misplaced \ {c}
    /\ UNCHANGED <<env, process>>

\* delete_key; Infisical's secret is erased, a local one goes with the row.
DeleteKey(p, c) ==
    /\ p \in Running
    /\ c \in Stored
    /\ remote' = [remote EXCEPT ![c] = IF backend[c] = Infisical THEN NoSecret ELSE @]
    /\ column' = [column EXCEPT ![c] = NoSecret]
    /\ backend' = [backend EXCEPT ![c] = NoRow]
    /\ UNCHANGED <<env, process, given, misplaced>>

-----------------------------------------------------------------------------
(* The operator                                                            *)

\* A deploy starts processes with the environment of the day and stops old ones.
Start(p) ==
    /\ p \notin Running
    /\ process' = [process EXCEPT ![p] = env]
    /\ UNCHANGED <<env, secrets>>

Stop(p) ==
    /\ p \in Running
    /\ process' = [process EXCEPT ![p] = Stopped]
    /\ UNCHANGED <<env, secrets>>

\* rewrap() of the data key of a row, with the keyring of a process; nothing is done to
\* a row of the active version.  The data key is not bound to the row.
Rewrap(p, c) ==
    /\ p \in Running
    /\ backend[c] = Local
    /\ column[c].version \in process[p].ring \ {process[p].active}
    /\ column' = [column EXCEPT ![c].version = process[p].active]
    /\ UNCHANGED <<env, process, backend, remote, given, misplaced>>

SwitchBackend ==
    /\ \E b \in {Local, Infisical} \ {env.backend} : env' = [env EXCEPT !.backend = b]
    /\ UNCHANGED <<process, secrets>>

AddVersion(v) ==
    /\ v \notin env.ring
    /\ env' = [env EXCEPT !.ring = @ \cup {v}]
    /\ UNCHANGED <<process, secrets>>

Activate(v) ==
    /\ v \in env.ring \ {env.active}
    /\ Staged => \A p \in Running : v \in process[p].ring
    /\ env' = [env EXCEPT !.active = v]
    /\ UNCHANGED <<process, secrets>>

\* Slip: the version that new keys are sealed with is forgotten.
HasOpened(v) == v \notin Needed /\ \A p \in Running : process[p].active # v

\* "It encrypted existing rows, so it must stay": a version may go when nothing is
\* sealed with it, and no process nor the environment seals with it.
Unneeded(v) ==
    /\ v \notin Needed
    /\ v # env.active
    /\ \A p \in Running : process[p].active # v

DropVersion(v) ==
    /\ v \in env.ring
    /\ Unneeded(v)
    /\ env' = [env EXCEPT !.ring = @ \ {v}]
    /\ UNCHANGED <<process, secrets>>

\* A stray UPDATE, or a secret moved inside Infisical: c gets a copy of the secret of d.
Misplace(c, d) ==
    /\ c # d /\ {c, d} \subseteq Stored /\ backend[c] = backend[d]
    /\ IF backend[c] = Local
       THEN column' = [column EXCEPT ![c] = column[d]] /\ UNCHANGED remote
       ELSE remote' = [remote EXCEPT ![c] = remote[d]] /\ UNCHANGED column
    /\ misplaced' = misplaced \cup {c}
    /\ UNCHANGED <<env, process, backend, given>>

-----------------------------------------------------------------------------

Request == \E p \in Processes, c \in Credentials : PutKey(p, c) \/ DeleteKey(p, c)

Deploy == \E p \in Processes : Start(p) \/ Stop(p)

Rotate ==
    \/ \E p \in Processes, c \in Credentials : Rewrap(p, c)
    \/ \E v \in Versions : AddVersion(v) \/ Activate(v) \/ DropVersion(v)

Next ==
    Request \/ Deploy \/ Rotate \/ SwitchBackend
    \/ \E c, d \in Credentials : Misplace(c, d)

Spec == Init /\ [][Next]_vars

-----------------------------------------------------------------------------
(* Properties                                                              *)

\* "Lets rotation run without downtime" (models/credential.py:67): every running process
\* reads the last key the student gave for every credential, whichever process sealed
\* or rewrapped it, unless the secret was overwritten by hand.
EveryKeyReadable ==
    \A p \in Running, c \in Stored \ misplaced :
        Reads(p, c) = [cred |-> c, n |-> given[c]]

\* "A blob copied into somebody else's row fails to decrypt" (crypto.py:17), also after
\* it was rewrapped or copied on: no sealed secret gives the key of another credential.
OnlyItsOwnKey ==
    \A p \in Running, c \in Stored :
        SecretOf(c).sealed /\ Reads(p, c) # Unreadable => Reads(p, c).cred = c

\* "Every row records the backend that holds its secret" (secret_store.py:10): a key is
\* in that one place, and no copy is left elsewhere by a switch of the setting.
InOnePlace ==
    \A c \in Credentials :
        /\ column[c] # NoSecret <=> backend[c] = Local
        /\ remote[c] # NoSecret <=> backend[c] = Infisical

-----------------------------------------------------------------------------
(* What the repository says and the code does not do.                      *)

\* key_version, as the table has it: apply_stored() leaves the default if the secret is
\* not in the row.
KeyVersion(c) == IF backend[c] = Local THEN column[c].version ELSE 1

\* "Which master key wrapped dek_wrapped" (models/credential.py:67): the column names
\* every version that must stay in the keyring.
ColumnNamesVersion == \A c \in Stored : SecretOf(c).sealed => KeyVersion(c) = SecretOf(c).version

\* "A secret moved between credentials inside Infisical will not decrypt"
\* (infisical_store.py:17), also one that was never sealed.
MovedIsUnreadable ==
    \A p \in Running, c \in Stored :
        Reads(p, c) # Unreadable => Reads(p, c).cred = c
=============================================================================
