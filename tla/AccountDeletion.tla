-------------------------- MODULE AccountDeletion --------------------------
(***************************************************************************)
(* Deleting an account while its chats and keys are in use.  What belongs  *)
(* to a student lies in three places: the rows of our own database, the    *)
(* checkpoint threads LangGraph keeps of each chat (written on autocommit  *)
(* connections), and the secrets Infisical holds of each key.              *)
(* AuthService.delete_account() clears them one after the other.           *)
(*                                                                         *)
(* Left out: keys of the local backend, whose secret is part of the row,   *)
(* and the deletion of a single key (KeyVault).                            *)
(***************************************************************************)
EXTENDS FiniteSets

CONSTANTS
    Chats,   \* ids of chats, each drawn at most once
    Keys     \* ids of keys, each drawn at most once

VARIABLES
    user,        \* is there an app_user row?
    chatRows,    \* the committed chat_session rows
    threads,     \* chats that have checkpoints
    keyRows,     \* the committed llm_credential rows
    secrets,     \* keys Infisical holds a secret of
    drawn,       \* the ids uuid4() has produced
    starting,    \* chats whose first turn is under way
    turns,       \* chats with a turn under way
    putting,     \* keys being created or rotated, their secret not stored yet ...
    stored,      \* ... and already stored
    deletion,    \* what the deletion is doing: a step and the ids it has listed
    failed,      \* history: ids whose creation failed half-way
    overlapped   \* history: ids of which a request ran during a deletion

vars == <<user, chatRows, threads, keyRows, secrets, drawn, starting, turns, putting,
          stored, deletion, failed, overlapped>>

Idle == [pc |-> "idle", chats |-> {}, keys |-> {}]
Deleting == deletion.pc # "idle"

TypeOK ==
    /\ user \in BOOLEAN
    /\ chatRows \subseteq Chats /\ threads \subseteq Chats /\ turns \subseteq Chats
    /\ starting \subseteq turns
    /\ keyRows \subseteq Keys /\ secrets \subseteq Keys
    /\ putting \subseteq Keys /\ stored \subseteq Keys
    /\ deletion \in [pc: {"idle", "threads", "secrets"},
                     chats: SUBSET Chats, keys: SUBSET Keys]
    /\ drawn \subseteq Chats \cup Keys
    /\ failed \subseteq Chats \cup Keys /\ overlapped \subseteq Chats \cup Keys

Init ==
    /\ user = TRUE
    /\ chatRows = {} /\ threads = {}
    /\ keyRows = {} /\ secrets = {}
    /\ drawn = {} /\ starting = {} /\ turns = {} /\ putting = {} /\ stored = {}
    /\ deletion = Idle
    /\ failed = {} /\ overlapped = {}

\* A request about id begins.
Begins(id) ==
    /\ user
    /\ drawn' = drawn \cup {id}
    /\ overlapped' = IF Deleting THEN overlapped \cup {id} ELSE overlapped

-----------------------------------------------------------------------------
(* A turn of a chat: start_session or continue_session                     *)

BeginTurn(c) ==
    /\ c \notin turns
    /\ c \in chatRows \/ c \notin drawn
    /\ Begins(c)
    /\ turns' = turns \cup {c}
    /\ starting' = IF c \in chatRows THEN starting ELSE starting \cup {c}
    /\ UNCHANGED <<user, chatRows, threads, keyRows, secrets, putting, stored,
                   deletion, failed>>

Checkpoint(c) ==
    /\ c \in turns
    /\ threads' = threads \cup {c}
    /\ UNCHANGED <<user, chatRows, keyRows, secrets, drawn, starting, turns, putting,
                   stored, deletion, failed, overlapped>>

\* The first turn inserts the chat_session row, which needs the user's.
EndTurn(c) ==
    /\ c \in turns
    /\ c \in starting => user /\ c \in threads
    /\ turns' = turns \ {c}
    /\ starting' = starting \ {c}
    /\ chatRows' = chatRows \cup ({c} \cap starting)
    /\ UNCHANGED <<user, threads, keyRows, secrets, drawn, putting, stored, deletion,
                   failed, overlapped>>

\* A node or the database fails, or the user's row is gone.
FailTurn(c) ==
    /\ c \in turns
    /\ turns' = turns \ {c}
    /\ starting' = starting \ {c}
    /\ failed' = failed \cup ({c} \cap starting)
    /\ UNCHANGED <<user, chatRows, threads, keyRows, secrets, drawn, putting, stored,
                   deletion, overlapped>>

-----------------------------------------------------------------------------
(* Creating or rotating a key: create_key and update_key                   *)

BeginPut(k) ==
    /\ k \notin putting \cup stored
    /\ k \in keyRows \/ k \notin drawn
    /\ Begins(k)
    /\ putting' = putting \cup {k}
    /\ UNCHANGED <<user, chatRows, threads, keyRows, secrets, starting, turns, stored,
                   deletion, failed>>

PutSecret(k) ==
    /\ k \in putting
    /\ putting' = putting \ {k}
    /\ stored' = stored \cup {k}
    /\ secrets' = secrets \cup {k}
    /\ UNCHANGED <<user, chatRows, threads, keyRows, drawn, starting, turns, deletion,
                   failed, overlapped>>

\* The row is inserted or updated.  (A rotation of a deleted row fails instead:
\* its account is gone too.)
CommitKey(k) ==
    /\ k \in stored
    /\ user
    /\ stored' = stored \ {k}
    /\ keyRows' = keyRows \cup {k}
    /\ UNCHANGED <<user, chatRows, threads, secrets, drawn, starting, turns, putting,
                   deletion, failed, overlapped>>

\* A failed creation forgets its secret, at best; a failed rotation does not.
FailPut(k) ==
    /\ k \in putting \cup stored
    /\ putting' = putting \ {k}
    /\ stored' = stored \ {k}
    /\ failed' = failed \cup ({k} \ keyRows)
    /\ \/ UNCHANGED secrets
       \/ k \notin keyRows /\ secrets' = secrets \ {k}
    /\ UNCHANGED <<user, chatRows, threads, keyRows, drawn, starting, turns, deletion,
                   overlapped>>

-----------------------------------------------------------------------------
(* delete_account, once the password has been verified                     *)

\* Slip: the ids are those of the keys.
ListsKeys == [pc |-> "threads", chats |-> keyRows, keys |-> {}]
ListsChats == [pc |-> "threads", chats |-> chatRows, keys |-> {}]

BeginDeletion ==
    /\ user /\ ~Deleting
    /\ deletion' = ListsChats
    /\ overlapped' = overlapped \cup turns \cup putting \cup stored
    /\ UNCHANGED <<user, chatRows, threads, keyRows, secrets, drawn, starting, turns,
                   putting, stored, failed>>

\* delete_checkpoint_threads(): one at a time, committed at once.
DeleteThread ==
    /\ deletion.pc = "threads"
    /\ \E c \in deletion.chats :
        /\ threads' = threads \ {c}
        /\ deletion' = [deletion EXCEPT !.chats = @ \ {c}]
    /\ UNCHANGED <<user, chatRows, keyRows, secrets, drawn, starting, turns, putting,
                   stored, failed, overlapped>>

ListKeys ==
    /\ deletion.pc = "threads" /\ deletion.chats = {}
    /\ deletion' = [pc |-> "secrets", chats |-> {}, keys |-> keyRows]
    /\ UNCHANGED <<user, chatRows, threads, keyRows, secrets, drawn, starting, turns,
                   putting, stored, failed, overlapped>>

\* purge_keys_for_user(): the secret first; its row goes with the final commit.
DeleteSecret ==
    /\ deletion.pc = "secrets"
    /\ \E k \in deletion.keys :
        /\ secrets' = secrets \ {k}
        /\ deletion' = [deletion EXCEPT !.keys = @ \ {k}]
    /\ UNCHANGED <<user, chatRows, threads, keyRows, drawn, starting, turns, putting,
                   stored, failed, overlapped>>

\* "The account was not deleted.": Infisical refuses, or carries the deletion out
\* and does not answer; the transaction is rolled back.
SecretStoreFails ==
    /\ deletion.pc = "secrets"
    /\ \E k \in deletion.keys : secrets' \in {secrets, secrets \ {k}}
    /\ deletion' = Idle
    /\ UNCHANGED <<user, chatRows, threads, keyRows, drawn, starting, turns, putting,
                   stored, failed, overlapped>>

\* Slip: the keys are not purged.
DeletesRowsOnly == deletion.pc = "threads" /\ deletion.chats = {}
\* Slip: the chats are listed and then forgotten.
DeletesKeysOnly == deletion.pc = "threads" \/ deletion.keys = {}
\* Slip: the row of a user with keys cannot be deleted.
NeverReady == deletion.pc = "secrets" /\ deletion.keys = {} /\ keyRows = {}
Purged == deletion.pc = "secrets" /\ deletion.keys = {}

\* The user's row goes, and with it, ON DELETE CASCADE, every row that names it.
DeleteUser ==
    /\ Purged
    /\ user' = FALSE
    /\ chatRows' = {} /\ keyRows' = {}
    /\ deletion' = Idle
    /\ UNCHANGED <<threads, secrets, drawn, starting, turns, putting, stored, failed,
                   overlapped>>

\* The database fails, the worker dies, the client goes away.
DeletionFails ==
    /\ Deleting
    /\ deletion' = Idle
    /\ UNCHANGED <<user, chatRows, threads, keyRows, secrets, drawn, starting, turns,
                   putting, stored, failed, overlapped>>

-----------------------------------------------------------------------------

Deletion ==
    DeleteThread \/ ListKeys \/ DeleteSecret \/ SecretStoreFails \/ DeleteUser

Next ==
    \/ \E c \in Chats : BeginTurn(c) \/ Checkpoint(c) \/ EndTurn(c) \/ FailTurn(c)
    \/ \E k \in Keys : BeginPut(k) \/ PutSecret(k) \/ CommitKey(k) \/ FailPut(k)
    \/ BeginDeletion \/ Deletion \/ DeletionFails

Spec == Init /\ [][Next]_vars

\* A deletion that runs is scheduled.
FairSpec == Spec /\ WF_vars(Deletion)

-----------------------------------------------------------------------------
(* Properties                                                              *)

Strays == failed \cup overlapped

\* Account deletion can find every conversation (auth_service.py:130): at any point
\* of any deletion, finished or broken off and tried again, a thread has its row,
\* unless its own requests failed or overlapped a deletion.
ThreadsReachable == \A c \in threads \ Strays : c \in chatRows \cup turns

\* "Rather than orphaning Infisical entries" (vault_service.py:270): the same of
\* secrets.
SecretsReachable == \A k \in secrets \ Strays : k \in keyRows \cup stored

\* A deletion is answered: what it has listed does not grow while it works.
DeletionEnds == Deleting ~> ~Deleting

-----------------------------------------------------------------------------
(* What the repository says and the code does not do.                      *)

Quiet == ~Deleting /\ turns = {} /\ putting = {} /\ stored = {}

\* Infisical entries are not orphaned (vault_service.py:270), also of keys that were
\* created or rotated without failure while the account was deleted.
SecretsGone == ~user /\ Quiet => secrets \subseteq failed

\* "Clear chat sessions and messages from the checkpoint_* tables"
\* (checkpointer.py:69): nothing of a deleted account's chats is left.
ThreadsGone == ~user /\ Quiet => threads \subseteq failed

\* "The account was not deleted." (vault_service.py:276): its conversations are there.
NotDeletedIsIntact ==
    [][SecretStoreFails => \A c \in chatRows : c \in threads]_vars
=============================================================================
