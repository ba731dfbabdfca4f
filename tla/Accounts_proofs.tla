--------------------------- MODULE Accounts_proofs --------------------------
(***************************************************************************)
(* What holds of an account for any number of requests: the deletion finds *)
(* what it has to delete (AccountDeletion), and of resets, logins and      *)
(* requests for a link the password is the one set last, those signed in   *)
(* have proved it, and one link works, each but for the overlap that its   *)
(* property names (Logins).  The two specifications share no variable.     *)
(***************************************************************************)
EXTENDS AccountDeletion, Logins, TLAPS

-----------------------------------------------------------------------------
(* AccountDeletion                                                         *)

\* Why they hold.  A turn or a key that is under way during a deletion is a stray; a
\* turn that goes on has its row; and the deletion does not reach the user's row
\* before the threads, nor without the secrets, it has found.
InFlightIsStray == Deleting => turns \cup putting \cup stored \subseteq overlapped
TurnHasRow == turns \ (starting \cup Strays) \subseteq chatRows
ThreadsListed ==
    /\ deletion.pc = "threads" => threads \ Strays \subseteq deletion.chats
    /\ deletion.pc = "secrets" => threads \subseteq Strays
SecretsListed == deletion.pc = "secrets" => secrets \ Strays \subseteq deletion.keys

DeletionInv ==
    /\ TypeOK
    /\ ThreadsReachable /\ SecretsReachable
    /\ InFlightIsStray /\ TurnHasRow
    /\ ThreadsListed /\ SecretsListed

-----------------------------------------------------------------------------

\* The deletion finds nothing at first.
LEMMA DeletionInitInv == Init => DeletionInv
  BY DEF Init, DeletionInv, TypeOK, ThreadsReachable, SecretsReachable, InFlightIsStray,
         TurnHasRow, ThreadsListed, SecretsListed, Strays, Idle, Deleting

\* A turn that begins is in flight.
LEMMA BeginTurnInv ==
  ASSUME DeletionInv, NEW c \in Chats, BeginTurn(c)
  PROVE  DeletionInv'
<1> USE DEF BeginTurn, Begins, DeletionInv, Deleting, Strays
<1>1. TypeOK'
  BY DEF TypeOK
<1>2. ThreadsReachable' /\ SecretsReachable'
  BY DEF TypeOK, ThreadsReachable, SecretsReachable, InFlightIsStray, TurnHasRow,
         ThreadsListed, SecretsListed
<1>3. InFlightIsStray' /\ TurnHasRow'
  BY DEF TypeOK, InFlightIsStray, TurnHasRow
<1>4. ThreadsListed' /\ SecretsListed'
  BY DEF TypeOK, ThreadsReachable, SecretsReachable, InFlightIsStray, TurnHasRow,
         ThreadsListed, SecretsListed
<1> QED BY <1>1, <1>2, <1>3, <1>4

\* A checkpoint is of a turn in flight.
LEMMA CheckpointInv ==
  ASSUME DeletionInv, NEW c \in Chats, Checkpoint(c)
  PROVE  DeletionInv'
<1> USE DEF Checkpoint, DeletionInv, Deleting, Strays
<1>1. TypeOK'
  BY DEF TypeOK
<1>2. ThreadsReachable' /\ SecretsReachable'
  BY DEF TypeOK, ThreadsReachable, SecretsReachable, InFlightIsStray, TurnHasRow,
         ThreadsListed, SecretsListed
<1>3. InFlightIsStray' /\ TurnHasRow'
  BY DEF TypeOK, InFlightIsStray, TurnHasRow
<1>4. ThreadsListed' /\ SecretsListed'
  BY DEF TypeOK, ThreadsReachable, SecretsReachable, InFlightIsStray, TurnHasRow,
         ThreadsListed, SecretsListed
<1> QED BY <1>1, <1>2, <1>3, <1>4

\* A turn that ends leaves its row.
LEMMA EndTurnInv ==
  ASSUME DeletionInv, NEW c \in Chats, EndTurn(c)
  PROVE  DeletionInv'
<1> USE DEF EndTurn, DeletionInv, Deleting, Strays
<1>1. TypeOK'
  BY DEF TypeOK
<1>2. ThreadsReachable' /\ SecretsReachable'
  BY DEF TypeOK, ThreadsReachable, SecretsReachable, InFlightIsStray, TurnHasRow,
         ThreadsListed, SecretsListed
<1>3. InFlightIsStray' /\ TurnHasRow'
  BY DEF TypeOK, InFlightIsStray, TurnHasRow
<1>4. ThreadsListed' /\ SecretsListed'
  BY DEF TypeOK, ThreadsReachable, SecretsReachable, InFlightIsStray, TurnHasRow,
         ThreadsListed, SecretsListed
<1> QED BY <1>1, <1>2, <1>3, <1>4

\* A first turn that fails leaves a stray.
LEMMA FailTurnInv ==
  ASSUME DeletionInv, NEW c \in Chats, FailTurn(c)
  PROVE  DeletionInv'
<1> USE DEF FailTurn, DeletionInv, Deleting, Strays
<1>1. TypeOK'
  BY DEF TypeOK
<1>2. ThreadsReachable' /\ SecretsReachable'
  BY DEF TypeOK, ThreadsReachable, SecretsReachable, InFlightIsStray, TurnHasRow,
         ThreadsListed, SecretsListed
<1>3. InFlightIsStray' /\ TurnHasRow'
  BY DEF TypeOK, InFlightIsStray, TurnHasRow
<1>4. ThreadsListed' /\ SecretsListed'
  BY DEF TypeOK, ThreadsReachable, SecretsReachable, InFlightIsStray, TurnHasRow,
         ThreadsListed, SecretsListed
<1> QED BY <1>1, <1>2, <1>3, <1>4

\* A key in the making has no secret yet.
LEMMA BeginPutInv ==
  ASSUME DeletionInv, NEW k \in Keys, BeginPut(k)
  PROVE  DeletionInv'
<1> USE DEF BeginPut, Begins, DeletionInv, Deleting, Strays
<1>1. TypeOK'
  BY DEF TypeOK
<1>2. ThreadsReachable' /\ SecretsReachable'
  BY DEF TypeOK, ThreadsReachable, SecretsReachable, InFlightIsStray, TurnHasRow,
         ThreadsListed, SecretsListed
<1>3. InFlightIsStray' /\ TurnHasRow'
  BY DEF TypeOK, InFlightIsStray, TurnHasRow
<1>4. ThreadsListed' /\ SecretsListed'
  BY DEF TypeOK, ThreadsReachable, SecretsReachable, InFlightIsStray, TurnHasRow,
         ThreadsListed, SecretsListed
<1> QED BY <1>1, <1>2, <1>3, <1>4

\* A stored secret is of a key in the making.
LEMMA PutSecretInv ==
  ASSUME DeletionInv, NEW k \in Keys, PutSecret(k)
  PROVE  DeletionInv'
<1> USE DEF PutSecret, DeletionInv, Deleting, Strays
<1>1. TypeOK'
  BY DEF TypeOK
<1>2. ThreadsReachable' /\ SecretsReachable'
  BY DEF TypeOK, ThreadsReachable, SecretsReachable, InFlightIsStray, TurnHasRow,
         ThreadsListed, SecretsListed
<1>3. InFlightIsStray' /\ TurnHasRow'
  BY DEF TypeOK, InFlightIsStray, TurnHasRow
<1>4. ThreadsListed' /\ SecretsListed'
  BY DEF TypeOK, ThreadsReachable, SecretsReachable, InFlightIsStray, TurnHasRow,
         ThreadsListed, SecretsListed
<1> QED BY <1>1, <1>2, <1>3, <1>4

\* A key that is committed has its row.
LEMMA CommitKeyInv ==
  ASSUME DeletionInv, NEW k \in Keys, CommitKey(k)
  PROVE  DeletionInv'
<1> USE DEF CommitKey, DeletionInv, Deleting, Strays
<1>1. TypeOK'
  BY DEF TypeOK
<1>2. ThreadsReachable' /\ SecretsReachable'
  BY DEF TypeOK, ThreadsReachable, SecretsReachable, InFlightIsStray, TurnHasRow,
         ThreadsListed, SecretsListed
<1>3. InFlightIsStray' /\ TurnHasRow'
  BY DEF TypeOK, InFlightIsStray, TurnHasRow
<1>4. ThreadsListed' /\ SecretsListed'
  BY DEF TypeOK, ThreadsReachable, SecretsReachable, InFlightIsStray, TurnHasRow,
         ThreadsListed, SecretsListed
<1> QED BY <1>1, <1>2, <1>3, <1>4

\* A creation that fails leaves a stray.
LEMMA FailPutInv ==
  ASSUME DeletionInv, NEW k \in Keys, FailPut(k)
  PROVE  DeletionInv'
<1> USE DEF FailPut, DeletionInv, Deleting, Strays
<1>1. TypeOK'
  BY DEF TypeOK
<1>2. ThreadsReachable' /\ SecretsReachable'
  BY DEF TypeOK, ThreadsReachable, SecretsReachable, InFlightIsStray, TurnHasRow,
         ThreadsListed, SecretsListed
<1>3. InFlightIsStray' /\ TurnHasRow'
  BY DEF TypeOK, InFlightIsStray, TurnHasRow
<1>4. ThreadsListed' /\ SecretsListed'
  BY DEF TypeOK, ThreadsReachable, SecretsReachable, InFlightIsStray, TurnHasRow,
         ThreadsListed, SecretsListed
<1> QED BY <1>1, <1>2, <1>3, <1>4

\* A deletion lists every chat, and makes strays of what is in flight.
LEMMA BeginDeletionInv ==
  ASSUME DeletionInv, BeginDeletion
  PROVE  DeletionInv'
<1> USE DEF BeginDeletion, ListsChats, DeletionInv, Deleting, Strays
<1>1. TypeOK'
  BY DEF TypeOK
<1>2. ThreadsReachable' /\ SecretsReachable'
  BY DEF TypeOK, ThreadsReachable, SecretsReachable, InFlightIsStray, TurnHasRow,
         ThreadsListed, SecretsListed
<1>3. InFlightIsStray' /\ TurnHasRow'
  BY DEF TypeOK, InFlightIsStray, TurnHasRow
<1>4. ThreadsListed' /\ SecretsListed'
  BY DEF TypeOK, ThreadsReachable, SecretsReachable, InFlightIsStray, TurnHasRow,
         ThreadsListed, SecretsListed
<1> QED BY <1>1, <1>2, <1>3, <1>4

\* A deleted thread is off the list.
LEMMA DeleteThreadInv ==
  ASSUME DeletionInv, DeleteThread
  PROVE  DeletionInv'
<1> USE DEF DeleteThread, DeletionInv, Deleting, Strays
<1>1. TypeOK'
  BY DEF TypeOK
<1>2. ThreadsReachable' /\ SecretsReachable'
  BY DEF TypeOK, ThreadsReachable, SecretsReachable, InFlightIsStray, TurnHasRow,
         ThreadsListed, SecretsListed
<1>3. InFlightIsStray' /\ TurnHasRow'
  BY DEF TypeOK, InFlightIsStray, TurnHasRow
<1>4. ThreadsListed' /\ SecretsListed'
  BY DEF TypeOK, ThreadsReachable, SecretsReachable, InFlightIsStray, TurnHasRow,
         ThreadsListed, SecretsListed
<1> QED BY <1>1, <1>2, <1>3, <1>4

\* With all listed threads gone, only strays have one.
LEMMA ListKeysInv ==
  ASSUME DeletionInv, ListKeys
  PROVE  DeletionInv'
<1> USE DEF ListKeys, DeletionInv, Deleting, Strays
<1>1. TypeOK'
  BY DEF TypeOK
<1>2. ThreadsReachable' /\ SecretsReachable'
  BY DEF TypeOK, ThreadsReachable, SecretsReachable, InFlightIsStray, TurnHasRow,
         ThreadsListed, SecretsListed
<1>3. InFlightIsStray' /\ TurnHasRow'
  BY DEF TypeOK, InFlightIsStray, TurnHasRow
<1>4. ThreadsListed' /\ SecretsListed'
  BY DEF TypeOK, ThreadsReachable, SecretsReachable, InFlightIsStray, TurnHasRow,
         ThreadsListed, SecretsListed
<1> QED BY <1>1, <1>2, <1>3, <1>4

\* A deleted secret is off the list.
LEMMA DeleteSecretInv ==
  ASSUME DeletionInv, DeleteSecret
  PROVE  DeletionInv'
<1> USE DEF DeleteSecret, DeletionInv, Deleting, Strays
<1>1. TypeOK'
  BY DEF TypeOK
<1>2. ThreadsReachable' /\ SecretsReachable'
  BY DEF TypeOK, ThreadsReachable, SecretsReachable, InFlightIsStray, TurnHasRow,
         ThreadsListed, SecretsListed
<1>3. InFlightIsStray' /\ TurnHasRow'
  BY DEF TypeOK, InFlightIsStray, TurnHasRow
<1>4. ThreadsListed' /\ SecretsListed'
  BY DEF TypeOK, ThreadsReachable, SecretsReachable, InFlightIsStray, TurnHasRow,
         ThreadsListed, SecretsListed
<1> QED BY <1>1, <1>2, <1>3, <1>4

\* A deletion that breaks off leaves every row.
LEMMA SecretStoreFailsInv ==
  ASSUME DeletionInv, SecretStoreFails
  PROVE  DeletionInv'
<1> USE DEF SecretStoreFails, Idle, DeletionInv, Deleting, Strays
<1>1. TypeOK'
  BY DEF TypeOK
<1>2. ThreadsReachable' /\ SecretsReachable'
  BY DEF TypeOK, ThreadsReachable, SecretsReachable, InFlightIsStray, TurnHasRow,
         ThreadsListed, SecretsListed
<1>3. InFlightIsStray' /\ TurnHasRow'
  BY DEF TypeOK, InFlightIsStray, TurnHasRow
<1>4. ThreadsListed' /\ SecretsListed'
  BY DEF TypeOK, ThreadsReachable, SecretsReachable, InFlightIsStray, TurnHasRow,
         ThreadsListed, SecretsListed
<1> QED BY <1>1, <1>2, <1>3, <1>4

\* The rows go when only strays are left.
LEMMA DeleteUserInv ==
  ASSUME DeletionInv, DeleteUser
  PROVE  DeletionInv'
<1> USE DEF DeleteUser, Purged, Idle, DeletionInv, Deleting, Strays
<1>1. TypeOK'
  BY DEF TypeOK
<1>2. ThreadsReachable' /\ SecretsReachable'
  BY DEF TypeOK, ThreadsReachable, SecretsReachable, InFlightIsStray, TurnHasRow,
         ThreadsListed, SecretsListed
<1>3. InFlightIsStray' /\ TurnHasRow'
  BY DEF TypeOK, InFlightIsStray, TurnHasRow
<1>4. ThreadsListed' /\ SecretsListed'
  BY DEF TypeOK, ThreadsReachable, SecretsReachable, InFlightIsStray, TurnHasRow,
         ThreadsListed, SecretsListed
<1> QED BY <1>1, <1>2, <1>3, <1>4

\* A deletion that breaks off leaves every row.
LEMMA DeletionFailsInv ==
  ASSUME DeletionInv, DeletionFails
  PROVE  DeletionInv'
<1> USE DEF DeletionFails, Idle, DeletionInv, Deleting, Strays
<1>1. TypeOK'
  BY DEF TypeOK
<1>2. ThreadsReachable' /\ SecretsReachable'
  BY DEF TypeOK, ThreadsReachable, SecretsReachable, InFlightIsStray, TurnHasRow,
         ThreadsListed, SecretsListed
<1>3. InFlightIsStray' /\ TurnHasRow'
  BY DEF TypeOK, InFlightIsStray, TurnHasRow
<1>4. ThreadsListed' /\ SecretsListed'
  BY DEF TypeOK, ThreadsReachable, SecretsReachable, InFlightIsStray, TurnHasRow,
         ThreadsListed, SecretsListed
<1> QED BY <1>1, <1>2, <1>3, <1>4

\* Every step keeps the invariant.
LEMMA DeletionNextInv == DeletionInv /\ [Next]_vars => DeletionInv'
<1> SUFFICES ASSUME DeletionInv, [Next]_vars
             PROVE  DeletionInv'
  OBVIOUS
<1>1. ASSUME NEW c \in Chats, BeginTurn(c) \/ Checkpoint(c) \/ EndTurn(c) \/ FailTurn(c)
      PROVE  DeletionInv'
  BY <1>1, BeginTurnInv, CheckpointInv, EndTurnInv, FailTurnInv
<1>2. ASSUME NEW k \in Keys, BeginPut(k) \/ PutSecret(k) \/ CommitKey(k) \/ FailPut(k)
      PROVE  DeletionInv'
  BY <1>2, BeginPutInv, PutSecretInv, CommitKeyInv, FailPutInv
<1>3. CASE BeginDeletion \/ Deletion \/ DeletionFails
  BY <1>3, BeginDeletionInv, DeleteThreadInv, ListKeysInv, DeleteSecretInv,
     SecretStoreFailsInv, DeleteUserInv, DeletionFailsInv DEF Deletion
<1>4. CASE UNCHANGED vars
  BY <1>4 DEF vars, DeletionInv, TypeOK, ThreadsReachable, SecretsReachable, InFlightIsStray,
              TurnHasRow, ThreadsListed, SecretsListed, Strays, Deleting
<1> QED BY <1>1, <1>2, <1>3, <1>4 DEF Next

\* The invariant holds throughout.
THEOREM DeletionInvHolds == Spec => []DeletionInv
  BY DeletionInitInv, DeletionNextInv, PTL DEF Spec

\* The types of AccountDeletion, for any number of chats and keys.
THEOREM DeletionTypesHold == Spec => []TypeOK
<1>1. DeletionInv => TypeOK
  BY DEF DeletionInv
<1> QED BY <1>1, DeletionInvHolds, PTL

\* Whatever a deletion does and however often it breaks off, a conversation it could
\* not find again belongs to a request that failed or overlapped it.
THEOREM ThreadsStayReachable == Spec => []ThreadsReachable
<1>1. DeletionInv => ThreadsReachable
  BY DEF DeletionInv
<1> QED BY <1>1, DeletionInvHolds, PTL

\* The same of the secrets.
THEOREM SecretsStayReachable == Spec => []SecretsReachable
<1>1. DeletionInv => SecretsReachable
  BY DEF DeletionInv
<1> QED BY <1>1, DeletionInvHolds, PTL

-----------------------------------------------------------------------------
(* Logins                                                                  *)

\* What a request will write when it commits is there to be written.
RequestsHaveWhatTheyWrite ==
    \A r \in Requests :
        /\ Committing(r, "login") \/ Committing(r, "forgot") \/ Committing(r, "reset")
            => HasAccount
        /\ Committing(r, "register") \/ Committing(r, "login") \/ Committing(r, "reset")
            => req[r].password \in Passwords
        /\ Committing(r, "reset") => req[r].link \in Requests

\* A login that no reset has overtaken has verified the password of the account.
LoginsProvePassword ==
    ~reverted => \A r \in Requests \ crossed :
        Committing(r, "login") => req[r].password = password

\* Whoever is signed in has been answered.
SessionsAreAnswered == \A s \in sessions : req[s].pc = "done"

\* A request for a link is alone, and will delete every link that still works.
ForgotIsAlone ==
    ~raced => \A r \in Requests : Committing(r, "forgot") =>
        /\ Unused \subseteq req[r].doomed
        /\ \A q \in Requests : Committing(q, "forgot") => q = r

LoginInv ==
    /\ LoginTypeOK
    /\ RequestsHaveWhatTheyWrite
    /\ PasswordIsChosen
    /\ LoginsProvePassword
    /\ SessionsAreAnswered
    /\ SessionsProvePassword
    /\ ForgotIsAlone
    /\ OneLinkWorks

-----------------------------------------------------------------------------

LEMMA LoginInitHolds == LoginInit => LoginInv
<1> SUFFICES ASSUME LoginInit PROVE LoginInv
  OBVIOUS
<1>1. LoginTypeOK
  BY AbsentAssumption DEF LoginInit, LoginTypeOK, RequestStates, New
<1> QED
  BY <1>1 DEF LoginInit, LoginInv, New, RequestsHaveWhatTheyWrite, PasswordIsChosen,
              LoginsProvePassword, SessionsAreAnswered, SessionsProvePassword,
              ForgotIsAlone, OneLinkWorks, Committing, Unused

\* A request that has not committed is not signed in.
LEMMA NotSignedIn ==
    ASSUME SessionsAreAnswered, NEW r \in Requests, req[r].pc # "done"
    PROVE  r \notin sessions
BY DEF SessionsAreAnswered

-----------------------------------------------------------------------------
(* A request is made                                                       *)

\* A request that was not made before begins and changes nothing else.
LEMMA StartKeeps ==
    ASSUME LoginInv, NEW r \in Requests,
           StartRegister(r) \/ StartLogin(r) \/ StartReset(r)
    PROVE  LoginInv'
<1>1. /\ req[r] = New
      /\ req' = [req EXCEPT ![r] = req'[r]]
      /\ UNCHANGED <<password, outdated, sessions, links, chosen, crossed, reverted, raced>>
  BY DEF StartRegister, StartLogin, StartReset, LoginInv, LoginTypeOK
<1>2. /\ req'[r].pc = "commit" /\ req'[r].op \in {"register", "login", "reset"}
      /\ req'[r].password \in Passwords
      /\ req'[r].op # "register" => HasAccount
      /\ req'[r].op = "login" => req'[r].password = password
      /\ req'[r].op = "reset" => req'[r].link \in Requests
      /\ LoginTypeOK'
  <2>1. CASE StartRegister(r)
    <3>1. PICK p \in Passwords :
            req' = [req EXCEPT ![r] = [New EXCEPT !.op = "register", !.pc = "commit",
                                                  !.password = p]]
      BY <2>1 DEF StartRegister
    <3> QED
      BY ZenonT(90), <2>1, <3>1 DEF StartRegister, New, LoginInv, LoginTypeOK, RequestStates
  <2>2. CASE StartLogin(r)
    BY <2>2 DEF StartLogin, New, LoginInv, LoginTypeOK, RequestStates, HasAccount
  <2>3. CASE StartReset(r)
    <3>1. PICK l \in Unused, p \in Passwords :
            req' = [req EXCEPT ![r] = [New EXCEPT !.op = "reset", !.pc = "commit",
                                                  !.password = p, !.link = l]]
      BY <2>3 DEF StartReset
    <3>2. links[l] = "unused" /\ l \in Requests
      BY DEF Unused
    <3>3. HasAccount
      BY <3>2 DEF LoginInv, LoginTypeOK, HasAccount
    <3> QED
      BY <2>3, <3>1, <3>2, <3>3 DEF StartReset, New, LoginInv, LoginTypeOK, RequestStates
  <2> QED
    BY <2>1, <2>2, <2>3
<1>4. \A q \in Requests : q # r => req'[q] = req[q]
  BY <1>1 DEF LoginInv, LoginTypeOK
<1>5. \A q \in Requests : Committing(q, "forgot")' <=> Committing(q, "forgot")
  BY <1>1, <1>2, <1>4 DEF Committing, New
<1>6. RequestsHaveWhatTheyWrite'
  BY <1>1, <1>2, <1>4 DEF LoginInv, RequestsHaveWhatTheyWrite, Committing, HasAccount
<1>7. LoginsProvePassword'
  BY <1>1, <1>2, <1>4 DEF LoginInv, LoginsProvePassword, Committing
<1>8. SessionsAreAnswered' /\ SessionsProvePassword'
  BY <1>1, <1>4 DEF LoginInv, SessionsAreAnswered, SessionsProvePassword, New, LoginTypeOK
<1>9. ForgotIsAlone'
  <2>1. Unused' = Unused
    BY <1>1 DEF Unused
  <2>2. \A q \in Requests : Committing(q, "forgot") => req'[q] = req[q]
    BY <1>1, <1>4 DEF Committing, New
  <2> QED
    BY <1>1, <1>5, <2>1, <2>2 DEF LoginInv, ForgotIsAlone
<1> QED
  BY <1>1, <1>2, <1>6, <1>7, <1>8, <1>9 DEF LoginInv, PasswordIsChosen, OneLinkWorks, Unused

LEMMA StartForgotKeeps ==
    ASSUME LoginInv, NEW r \in Requests, StartForgot(r)
    PROVE  LoginInv'
<1>1. /\ req[r] = New /\ HasAccount
      /\ req' = [req EXCEPT ![r] = [New EXCEPT !.op = "forgot", !.pc = "commit",
                                               !.doomed = Unused]]
      /\ raced' = (raced \/ \E q \in Requests : Committing(q, "forgot"))
      /\ UNCHANGED <<password, outdated, sessions, links, chosen, crossed, reverted>>
  BY DEF StartForgot, Doomed
<1>2. /\ req'[r].op = "forgot" /\ req'[r].pc = "commit" /\ req'[r].doomed = Unused
      /\ LoginTypeOK'
  BY <1>1 DEF New, LoginInv, LoginTypeOK, RequestStates, HasAccount, Unused
<1>3. \A q \in Requests : q # r => req'[q] = req[q]
  BY <1>1 DEF LoginInv, LoginTypeOK
<1>4. RequestsHaveWhatTheyWrite'
  BY <1>1, <1>2, <1>3 DEF LoginInv, RequestsHaveWhatTheyWrite, Committing, HasAccount
<1>5. LoginsProvePassword'
  BY <1>1, <1>2, <1>3 DEF LoginInv, LoginsProvePassword, Committing
<1>6. SessionsAreAnswered' /\ SessionsProvePassword'
  BY <1>1, <1>3 DEF LoginInv, SessionsAreAnswered, SessionsProvePassword, New, LoginTypeOK
<1>7. ForgotIsAlone'
  <2> SUFFICES ASSUME ~raced', NEW q \in Requests, Committing(q, "forgot")'
               PROVE  q = r
    BY <1>1, <1>2 DEF ForgotIsAlone, Unused
  <2> QED
    BY <1>1, <1>3 DEF Committing
<1>8. PasswordIsChosen' /\ OneLinkWorks'
  BY <1>1 DEF LoginInv, PasswordIsChosen, OneLinkWorks, Unused
<1> QED
  BY <1>2, <1>4, <1>5, <1>6, <1>7, <1>8 DEF LoginInv

\* A request that was not made before ends a session.
LEMMA LogoutKeeps ==
    ASSUME LoginInv, NEW r \in Requests, Logout(r)
    PROVE  LoginInv'
<1>1. /\ req[r] = New
      /\ req' = [req EXCEPT ![r] = [New EXCEPT !.op = "logout", !.pc = "done"]]
      /\ sessions' \subseteq sessions
      /\ UNCHANGED <<password, outdated, links, chosen, crossed, reverted, raced>>
  BY DEF Logout
<1>2. LoginTypeOK' /\ req'[r].op = "logout"
  BY <1>1 DEF New, LoginInv, LoginTypeOK, RequestStates
<1>3. \A q \in Requests : q # r => req'[q] = req[q]
  BY <1>1 DEF LoginInv, LoginTypeOK
<1>4. r \notin sessions
  BY <1>1, NotSignedIn DEF LoginInv, New
<1>5. RequestsHaveWhatTheyWrite'
  BY <1>1, <1>2, <1>3 DEF LoginInv, RequestsHaveWhatTheyWrite, Committing, HasAccount
<1>6. LoginsProvePassword'
  BY <1>1, <1>2, <1>3 DEF LoginInv, LoginsProvePassword, Committing
<1>7. SessionsAreAnswered' /\ SessionsProvePassword'
  BY <1>1, <1>3, <1>4 DEF LoginInv, SessionsAreAnswered, SessionsProvePassword, LoginTypeOK
<1>8. ForgotIsAlone'
  BY <1>1, <1>2, <1>3 DEF LoginInv, ForgotIsAlone, Unused, Committing
<1> QED
  BY <1>1, <1>2, <1>5, <1>6, <1>7, <1>8
     DEF LoginInv, PasswordIsChosen, OneLinkWorks, Unused

-----------------------------------------------------------------------------
(* A request ends                                                          *)

\* A request that was to commit, or to send mail, ends: the others go on, and what
\* they hold is not touched.
LEMMA Ended ==
    ASSUME LoginTypeOK, NEW r \in Requests,
           NEW pc \in {"mail", "done", "failed"}, Ends(r, pc),
           req[r].pc \in {"commit", "mail"}
    PROVE  /\ \A q \in Requests : q # r => req'[q] = req[q]
           /\ req'[r] = [req[r] EXCEPT !.pc = pc]
           /\ req'[r].pc = pc /\ req'[r].password = req[r].password
           /\ \A q \in Requests, op \in {"register", "login", "forgot", "reset"} :
                Committing(q, op)' <=> q # r /\ Committing(q, op)
           /\ req' \in [Requests -> RequestStates]
<1>1. req' = [req EXCEPT ![r].pc = pc]
  BY DEF Ends
<1>2. \A q \in Requests : q # r => req'[q] = req[q]
  BY <1>1 DEF LoginTypeOK
<1>3. req'[r] = [req[r] EXCEPT !.pc = pc]
  BY <1>1 DEF LoginTypeOK, RequestStates
<1>4. req'[r].pc = pc /\ req'[r].password = req[r].password
  BY <1>3 DEF LoginTypeOK, RequestStates
<1>5. req' \in [Requests -> RequestStates]
  BY <1>1 DEF LoginTypeOK, RequestStates
<1> QED
  BY <1>2, <1>3, <1>4, <1>5 DEF Committing

\* What ends without changing the account, its sessions or its links.
LEMMA EndKeeps ==
    ASSUME LoginInv, NEW r \in Requests, SendMail(r) \/ Fail(r)
    PROVE  LoginInv'
<1>1. /\ req[r].pc \in {"commit", "mail"}
      /\ \E pc \in {"mail", "done", "failed"} : Ends(r, pc)
      /\ UNCHANGED <<password, outdated, sessions, links, chosen, crossed, reverted, raced>>
  BY DEF SendMail, Fail
<1>2. r \notin sessions
  BY <1>1, NotSignedIn DEF LoginInv
<1>3. PICK pc \in {"mail", "done", "failed"} : Ends(r, pc)
  BY <1>1
<1>4. /\ \A q \in Requests : q # r => req'[q] = req[q]
      /\ \A q \in Requests, op \in {"register", "login", "forgot", "reset"} :
            Committing(q, op)' <=> q # r /\ Committing(q, op)
      /\ LoginTypeOK'
  <2>1. \A q \in Requests, op \in {"register", "login", "forgot", "reset"} :
            Committing(q, op)' <=> q # r /\ Committing(q, op)
    BY ZenonT(90), <1>1, <1>3, Ended DEF LoginInv
  <2> QED
    BY ZenonT(90), <1>1, <1>3, <2>1, Ended DEF LoginInv, LoginTypeOK
<1>5. RequestsHaveWhatTheyWrite'
  BY <1>1, <1>4 DEF LoginInv, RequestsHaveWhatTheyWrite, HasAccount
<1>6. LoginsProvePassword'
  BY <1>1, <1>4 DEF LoginInv, LoginsProvePassword
<1>7. SessionsAreAnswered' /\ SessionsProvePassword'
  BY <1>1, <1>2, <1>4 DEF LoginInv, SessionsAreAnswered, SessionsProvePassword, LoginTypeOK
<1>8. ForgotIsAlone'
  BY <1>1, <1>4 DEF LoginInv, ForgotIsAlone, Unused
<1> QED
  BY <1>1, <1>4, <1>5, <1>6, <1>7, <1>8 DEF LoginInv, PasswordIsChosen, OneLinkWorks, Unused

LEMMA CommitRegisterKeeps ==
    ASSUME LoginInv, NEW r \in Requests, CommitRegister(r)
    PROVE  LoginInv'
<1>1. /\ Committing(r, "register")
      /\ UNCHANGED <<outdated, links, crossed, reverted, raced>>
  BY DEF CommitRegister
<1>2. r \notin sessions
  BY <1>1, NotSignedIn DEF LoginInv, Committing
<1>3. CASE password = NoPassword
  <2>1. /\ password' = req[r].password /\ chosen' = req[r].password
        /\ sessions' = sessions \cup {r} /\ Ends(r, "done")
    BY <1>3 DEF CommitRegister
  <2>2. sessions = {} /\ req[r].password \in Passwords
    BY <1>1, <1>3 DEF LoginInv, LoginTypeOK, RequestsHaveWhatTheyWrite
  <2>3. /\ \A q \in Requests : q # r => req'[q] = req[q]
        /\ req'[r].pc = "done" /\ req'[r].password = req[r].password
        /\ \A q \in Requests, op \in {"register", "login", "forgot", "reset"} :
              Committing(q, op)' <=> q # r /\ Committing(q, op)
        /\ LoginTypeOK'
    BY <1>1, <2>1, <2>2, Ended, AbsentAssumption DEF LoginInv, LoginTypeOK, Committing
  <2>4. \A q \in Requests : ~Committing(q, "login") /\ ~Committing(q, "forgot")
                            /\ ~Committing(q, "reset")
    BY <1>3 DEF LoginInv, RequestsHaveWhatTheyWrite, HasAccount
  <2>5. RequestsHaveWhatTheyWrite'
    BY <2>3, <2>4 DEF LoginInv, RequestsHaveWhatTheyWrite
  <2>6. LoginsProvePassword' /\ ForgotIsAlone'
    BY <2>3, <2>4 DEF LoginsProvePassword, ForgotIsAlone
  <2>7. SessionsAreAnswered' /\ SessionsProvePassword'
    BY <2>1, <2>2, <2>3 DEF SessionsAreAnswered, SessionsProvePassword
  <2> QED
    BY <1>1, <2>1, <2>3, <2>5, <2>6, <2>7 DEF LoginInv, PasswordIsChosen, OneLinkWorks, Unused
<1>4. CASE password # NoPassword
  <2>1. Ends(r, "failed") /\ UNCHANGED <<password, chosen, sessions>>
    BY <1>4 DEF CommitRegister
  <2> QED
    BY <1>1, <2>1, EndKeeps DEF Committing, Fail
<1> QED
  BY <1>3, <1>4

LEMMA CommitLoginKeeps ==
    ASSUME LoginInv, NEW r \in Requests, CommitLogin(r)
    PROVE  LoginInv'
<1>1. /\ Committing(r, "login")
      /\ sessions' = sessions \cup {r} /\ Ends(r, "done")
      /\ UNCHANGED <<links, chosen, crossed, raced>>
      /\ \/ /\ req[r].rehash
            /\ password' = req[r].password /\ outdated' = FALSE
            /\ reverted' = (reverted \/ r \in crossed)
         \/ UNCHANGED <<password, outdated, reverted>>
  BY DEF CommitLogin
<1>2. HasAccount /\ req[r].password \in Passwords
  BY <1>1 DEF LoginInv, RequestsHaveWhatTheyWrite
<1>3. /\ password' \in Passwords
      /\ reverted' \in BOOLEAN /\ outdated' \in BOOLEAN
  BY <1>1, <1>2 DEF LoginInv, LoginTypeOK, HasAccount
<1>4. /\ \A q \in Requests : q # r => req'[q] = req[q]
      /\ req'[r].pc = "done" /\ req'[r].password = req[r].password
      /\ \A q \in Requests, op \in {"register", "login", "forgot", "reset"} :
            Committing(q, op)' <=> q # r /\ Committing(q, op)
      /\ LoginTypeOK'
  BY <1>1, <1>3, Ended, AbsentAssumption DEF LoginInv, LoginTypeOK, Committing
\* Hashing the verified password again does not change it, unless a reset came between.
<1>5. ~reverted' => ~reverted /\ password' = password
  BY <1>1 DEF LoginInv, LoginsProvePassword
<1>6. RequestsHaveWhatTheyWrite'
  BY <1>3, <1>4, AbsentAssumption DEF LoginInv, RequestsHaveWhatTheyWrite, HasAccount
<1>7. LoginsProvePassword'
  BY <1>1, <1>4, <1>5 DEF LoginInv, LoginsProvePassword
<1>8. SessionsAreAnswered'
  BY <1>1, <1>4 DEF LoginInv, SessionsAreAnswered, LoginTypeOK
<1>9. SessionsProvePassword'
  BY <1>1, <1>4, <1>5 DEF LoginInv, LoginsProvePassword, SessionsProvePassword, LoginTypeOK
<1>10. ForgotIsAlone'
  BY <1>1, <1>4 DEF LoginInv, ForgotIsAlone, Unused
<1>11. PasswordIsChosen' /\ OneLinkWorks'
  BY <1>1, <1>5 DEF LoginInv, PasswordIsChosen, OneLinkWorks, Unused
<1> QED
  BY <1>4, <1>6, <1>7, <1>8, <1>9, <1>10, <1>11 DEF LoginInv

LEMMA CommitForgotKeeps ==
    ASSUME LoginInv, NEW r \in Requests, CommitForgot(r)
    PROVE  LoginInv'
<1>1. /\ Committing(r, "forgot") /\ Ends(r, "mail")
      /\ links' = [l \in Requests |-> IF l = r THEN "unused"
                                      ELSE IF l \in req[r].doomed THEN "none" ELSE links[l]]
      /\ UNCHANGED <<password, outdated, sessions, chosen, crossed, reverted, raced>>
  BY DEF CommitForgot
<1>2. r \notin sessions /\ HasAccount
  BY <1>1, NotSignedIn DEF LoginInv, Committing, RequestsHaveWhatTheyWrite
<1>3. links' \in [Requests -> {"none", "unused", "used"}]
  BY <1>1 DEF LoginInv, LoginTypeOK
<1>4. /\ \A q \in Requests : q # r => req'[q] = req[q]
      /\ \A q \in Requests, op \in {"register", "login", "forgot", "reset"} :
            Committing(q, op)' <=> q # r /\ Committing(q, op)
      /\ LoginTypeOK'
  BY <1>1, <1>2, <1>3, Ended DEF LoginInv, LoginTypeOK, Committing, HasAccount
<1>5. RequestsHaveWhatTheyWrite'
  BY <1>1, <1>4 DEF LoginInv, RequestsHaveWhatTheyWrite, HasAccount
<1>6. LoginsProvePassword'
  BY <1>1, <1>4 DEF LoginInv, LoginsProvePassword
<1>7. SessionsAreAnswered' /\ SessionsProvePassword'
  BY <1>1, <1>2, <1>4 DEF LoginInv, SessionsAreAnswered, SessionsProvePassword, LoginTypeOK
<1>8. ~raced => Unused' \subseteq {r}
  BY <1>1 DEF LoginInv, ForgotIsAlone, Unused
<1>9. ForgotIsAlone' /\ OneLinkWorks'
  BY <1>1, <1>4, <1>8 DEF LoginInv, ForgotIsAlone, OneLinkWorks
<1> QED
  BY <1>1, <1>4, <1>5, <1>6, <1>7, <1>9 DEF LoginInv, PasswordIsChosen

LEMMA CommitResetKeeps ==
    ASSUME LoginInv, NEW r \in Requests, CommitReset(r)
    PROVE  LoginInv'
<1>1. Committing(r, "reset") /\ UNCHANGED <<reverted, raced>>
  BY DEF CommitReset
<1>2. CASE links[req[r].link] = "none"
  <2>1. /\ Ends(r, "failed")
        /\ UNCHANGED <<password, outdated, sessions, links, chosen, crossed>>
    BY <1>2 DEF CommitReset
  <2> QED
    BY <1>1, <2>1, EndKeeps DEF Committing, Fail
<1>3. CASE links[req[r].link] # "none"
  <2>1. /\ password' = req[r].password /\ chosen' = req[r].password
        /\ outdated' = FALSE
        /\ links' = [links EXCEPT ![req[r].link] = "used"]
        /\ sessions' = {} /\ crossed' = crossed \cup Logins /\ Ends(r, "done")
    BY <1>3 DEF CommitReset, NewPassword, SessionsLeft
  <2>2. HasAccount /\ req[r].password \in Passwords /\ req[r].link \in Requests
    BY <1>1 DEF LoginInv, RequestsHaveWhatTheyWrite
  <2>3. /\ links' \in [Requests -> {"none", "unused", "used"}]
        /\ Unused' \subseteq Unused
    BY <2>1, <2>2 DEF LoginInv, LoginTypeOK, Unused
  <2>4. /\ \A q \in Requests, op \in {"register", "login", "forgot", "reset"} :
              Committing(q, op)' <=> q # r /\ Committing(q, op)
        /\ \A q \in Requests : q # r => req'[q] = req[q]
        /\ LoginTypeOK'
    <3>1. crossed' \subseteq Requests
      BY <2>1 DEF LoginInv, LoginTypeOK, Logins
    <3>2. req[r].pc \in {"commit", "mail"} /\ password' # NoPassword
      BY <1>1, <2>1, <2>2, AbsentAssumption DEF Committing
    <3>3. /\ \A q \in Requests, op \in {"register", "login", "forgot", "reset"} :
                Committing(q, op)' <=> q # r /\ Committing(q, op)
          /\ \A q \in Requests : q # r => req'[q] = req[q]
      BY <2>1, <3>2, Ended DEF LoginInv
    <3>4. LoginTypeOK'
      BY <1>1, <2>1, <2>2, <2>3, <3>1, <3>2, Ended DEF LoginInv, LoginTypeOK
    <3> QED
      BY <3>3, <3>4
  <2>5. RequestsHaveWhatTheyWrite'
    BY <2>1, <2>2, <2>4, AbsentAssumption DEF LoginInv, RequestsHaveWhatTheyWrite, HasAccount
  <2>6. LoginsProvePassword'
    BY <2>1, <2>4 DEF LoginsProvePassword, Logins
  <2>7. SessionsAreAnswered' /\ SessionsProvePassword' /\ PasswordIsChosen'
    BY <2>1 DEF SessionsAreAnswered, SessionsProvePassword, PasswordIsChosen
  <2>8. ForgotIsAlone'
    BY <1>1, <2>3, <2>4 DEF LoginInv, ForgotIsAlone
  <2>9. OneLinkWorks'
    BY <1>1, <2>3 DEF LoginInv, OneLinkWorks
  <2> QED
    BY <2>4, <2>5, <2>6, <2>7, <2>8, <2>9 DEF LoginInv
<1> QED
  BY <1>2, <1>3

-----------------------------------------------------------------------------

LEMMA LoginStepKeeps == LoginInv /\ [LoginNext]_loginVars => LoginInv'
<1> SUFFICES ASSUME LoginInv, [LoginNext]_loginVars PROVE LoginInv'
  OBVIOUS
<1>1. ASSUME NEW r \in Requests,
             \/ StartRegister(r) \/ CommitRegister(r)
             \/ StartLogin(r) \/ CommitLogin(r) \/ Logout(r)
             \/ StartForgot(r) \/ CommitForgot(r) \/ SendMail(r)
             \/ StartReset(r) \/ CommitReset(r)
             \/ Fail(r)
      PROVE  LoginInv'
  BY <1>1, StartKeeps, StartForgotKeeps, LogoutKeeps, EndKeeps, CommitRegisterKeeps,
     CommitLoginKeeps, CommitForgotKeeps, CommitResetKeeps
<1>2. CASE Upgrade \/ UNCHANGED loginVars
  <2>1. /\ UNCHANGED <<password, sessions, links, req, chosen, crossed, reverted, raced>>
        /\ outdated' \in BOOLEAN
    BY <1>2 DEF Upgrade, loginVars, LoginInv, LoginTypeOK
  <2>2. LoginTypeOK'
    BY <2>1 DEF LoginInv, LoginTypeOK
  <2> QED
    BY <2>1, <2>2 DEF LoginInv, RequestsHaveWhatTheyWrite, PasswordIsChosen,
              LoginsProvePassword, SessionsAreAnswered, SessionsProvePassword,
              ForgotIsAlone, OneLinkWorks, Committing, Unused, HasAccount
<1> QED
  BY <1>1, <1>2 DEF LoginNext

LEMMA LoginInvHolds == LoginSpec => []LoginInv
<1>1. LoginInit => LoginInv
  BY LoginInitHolds
<1>2. LoginInv /\ [LoginNext]_loginVars => LoginInv'
  BY LoginStepKeeps
<1> QED
  BY <1>1, <1>2, PTL DEF LoginSpec

\* The types, and that only an account has sessions and links, whichever registration
\* loses the race for the e-mail.
THEOREM LoginTypesHold == LoginSpec => []LoginTypeOK
<1>1. LoginInv => LoginTypeOK
  BY DEF LoginInv
<1> QED
  BY <1>1, LoginInvHolds, PTL

\* For any number of overlapping requests, the account has the password set by the
\* registration or reset that committed last, unless a login overtaken by a reset
\* hashed its own password again.
THEOREM PasswordIsChosenHolds == LoginSpec => []PasswordIsChosen
<1>1. LoginInv => PasswordIsChosen
  BY DEF LoginInv
<1> QED
  BY <1>1, LoginInvHolds, PTL

\* For any number of overlapping requests, whoever is signed in has proved the current
\* password, unless a reset committed in the middle of that login.
THEOREM SessionsProvePasswordHolds == LoginSpec => []SessionsProvePassword
<1>1. LoginInv => SessionsProvePassword
  BY DEF LoginInv
<1> QED
  BY <1>1, LoginInvHolds, PTL

\* However many links have been asked for, used and lost, one works at most, unless two
\* requests for a link overlapped.
THEOREM OneLinkWorksHolds == LoginSpec => []OneLinkWorks
<1>1. LoginInv => OneLinkWorks
  BY DEF LoginInv
<1> QED
  BY <1>1, LoginInvHolds, PTL
=============================================================================
