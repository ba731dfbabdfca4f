------------------------------- MODULE Logins -------------------------------
(***************************************************************************)
(* The password of one account, its login sessions and its reset links:    *)
(* AuthService's register, login, logout, request_password_reset and       *)
(* reset_password, run by overlapping requests, each in a transaction of   *)
(* its own.  A request reads and verifies first and writes when it         *)
(* commits.  A session and a link are named after the request that         *)
(* created them.                                                           *)
(*                                                                         *)
(* Left out: the expiry of sessions and links, requests refused for a      *)
(* wrong password, the profile, and the deletion of the account.           *)
(***************************************************************************)
EXTENDS FiniteSets

CONSTANTS
    Requests,    \* each made once
    Passwords,
    NoPassword, NoLink

ASSUME AbsentAssumption == NoPassword \notin Passwords /\ NoLink \notin Requests

VARIABLES
    password,   \* the one app_user.password_hash verifies, if there is an account
    outdated,   \* was it hashed with the parameters of an earlier release?
    sessions,   \* the requests whose auth_session exists
    links,      \* the password_reset_token of each request
    req,        \* what each request is doing
    chosen,     \* history: the password last set, by registration or reset
    crossed,    \* history: logins a reset committed in the middle of
    reverted,   \* history: one of them has hashed its password again
    raced       \* history: two requests for a link have overlapped

loginVars == <<password, outdated, sessions, links, req, chosen, crossed, reverted, raced>>

New == [op |-> "none", pc |-> "new", password |-> NoPassword, link |-> NoLink,
        doomed |-> {}, rehash |-> FALSE]

RequestStates ==
    [op: {"none", "register", "login", "logout", "forgot", "reset"},
     pc: {"new", "commit", "mail", "done", "failed"},
     password: Passwords \cup {NoPassword}, link: Requests \cup {NoLink},
     doomed: SUBSET Requests, rehash: BOOLEAN]

\* Types; only an account has sessions and links.
LoginTypeOK ==
    /\ password = NoPassword => sessions = {} /\ \A l \in Requests : links[l] = "none"
    /\ password \in Passwords \cup {NoPassword}
    /\ chosen \in Passwords \cup {NoPassword}
    /\ outdated \in BOOLEAN /\ reverted \in BOOLEAN /\ raced \in BOOLEAN
    /\ sessions \subseteq Requests
    /\ crossed \subseteq Requests
    /\ links \in [Requests -> {"none", "unused", "used"}]
    /\ req \in [Requests -> RequestStates]

LoginInit ==
    /\ password = NoPassword /\ chosen = NoPassword
    /\ outdated = FALSE /\ reverted = FALSE /\ raced = FALSE
    /\ sessions = {} /\ crossed = {}
    /\ links = [r \in Requests |-> "none"]
    /\ req = [r \in Requests |-> New]

Committing(r, op) == req[r].op = op /\ req[r].pc = "commit"
Ends(r, pc) == req' = [req EXCEPT ![r].pc = pc]

HasAccount == password # NoPassword

-----------------------------------------------------------------------------
(* register, login, logout                                                 *)

StartRegister(r) ==
    /\ req[r] = New
    /\ password = NoPassword
    /\ \E p \in Passwords :
        req' = [req EXCEPT ![r] = [New EXCEPT !.op = "register", !.pc = "commit",
                                              !.password = p]]
    /\ UNCHANGED <<password, outdated, sessions, links, chosen, crossed, reverted, raced>>

\* The unique index on the e-mail refuses a second account.
CommitRegister(r) ==
    /\ Committing(r, "register")
    /\ IF password = NoPassword
       THEN /\ password' = req[r].password
            /\ chosen' = req[r].password
            /\ sessions' = sessions \cup {r}
            /\ Ends(r, "done")
       ELSE /\ Ends(r, "failed")
            /\ UNCHANGED <<password, chosen, sessions>>
    /\ UNCHANGED <<outdated, links, crossed, reverted, raced>>

\* The password is verified against the hash that was read.
StartLogin(r) ==
    /\ req[r] = New
    /\ HasAccount
    /\ req' = [req EXCEPT ![r] = [New EXCEPT !.op = "login", !.pc = "commit",
                                             !.password = password, !.rehash = outdated]]
    /\ UNCHANGED <<password, outdated, sessions, links, chosen, crossed, reverted, raced>>

\* check_needs_rehash(): the verified password is hashed again and written.
CommitLogin(r) ==
    /\ Committing(r, "login")
    /\ sessions' = sessions \cup {r}
    /\ IF req[r].rehash
       THEN /\ password' = req[r].password
            /\ outdated' = FALSE
            /\ reverted' = (reverted \/ r \in crossed)
       ELSE UNCHANGED <<password, outdated, reverted>>
    /\ Ends(r, "done")
    /\ UNCHANGED <<links, chosen, crossed, raced>>

Logout(r) ==
    /\ req[r] = New
    /\ \E s \in sessions : sessions' = sessions \ {s}
    /\ req' = [req EXCEPT ![r] = [New EXCEPT !.op = "logout", !.pc = "done"]]
    /\ UNCHANGED <<password, outdated, links, chosen, crossed, reverted, raced>>

-----------------------------------------------------------------------------
(* request_password_reset: unused links are deleted, a new one is inserted *)

\* Deleted rows stay locked until the transaction ends.
Locked(l) == \E q \in Requests : Committing(q, "forgot") /\ l \in req[q].doomed

Unused == {l \in Requests : links[l] = "unused"}

\* Slip: earlier links are left alone.
NoneDoomed == {}
Doomed == Unused

StartForgot(r) ==
    /\ req[r] = New
    /\ HasAccount
    /\ \A l \in Unused : ~Locked(l)
    /\ req' = [req EXCEPT ![r] = [New EXCEPT !.op = "forgot", !.pc = "commit",
                                             !.doomed = Doomed]]
    /\ raced' = (raced \/ \E q \in Requests : Committing(q, "forgot"))
    /\ UNCHANGED <<password, outdated, sessions, links, chosen, crossed, reverted>>

CommitForgot(r) ==
    /\ Committing(r, "forgot")
    /\ links' = [l \in Requests |-> IF l = r THEN "unused"
                                    ELSE IF l \in req[r].doomed THEN "none" ELSE links[l]]
    /\ Ends(r, "mail")
    /\ UNCHANGED <<password, outdated, sessions, chosen, crossed, reverted, raced>>

SendMail(r) ==
    /\ req[r].pc = "mail"
    /\ Ends(r, "done")
    /\ UNCHANGED <<password, outdated, sessions, links, chosen, crossed, reverted, raced>>

-----------------------------------------------------------------------------
(* reset_password                                                          *)

StartReset(r) ==
    /\ req[r] = New
    /\ \E l \in Unused, p \in Passwords :
        /\ req[l].pc = "done"
        /\ req' = [req EXCEPT ![r] = [New EXCEPT !.op = "reset", !.pc = "commit",
                                                 !.password = p, !.link = l]]
    /\ UNCHANGED <<password, outdated, sessions, links, chosen, crossed, reverted, raced>>

\* Slip: only the session that asks is ended, and a reset has none.
KeepsSessions == sessions
SessionsLeft == {}

\* Slip: the link is used and the hash is not replaced.
KeptPassword(r) == password
NewPassword(r) == req[r].password

Logins == {q \in Requests : Committing(q, "login")}

\* A link that another request used meanwhile is used again; one that was deleted
\* is a StaleDataError.
CommitReset(r) ==
    /\ Committing(r, "reset")
    /\ ~Locked(req[r].link)
    /\ IF links[req[r].link] = "none"
       THEN /\ Ends(r, "failed")
            /\ UNCHANGED <<password, outdated, sessions, links, chosen, crossed>>
       ELSE /\ password' = NewPassword(r)
            /\ chosen' = req[r].password
            /\ outdated' = FALSE
            /\ links' = [links EXCEPT ![req[r].link] = "used"]
            /\ sessions' = SessionsLeft
            /\ crossed' = crossed \cup Logins
            /\ Ends(r, "done")
    /\ UNCHANGED <<reverted, raced>>

-----------------------------------------------------------------------------

\* The database or the mail server fails, the worker dies.
Fail(r) ==
    /\ req[r].pc \in {"commit", "mail"}
    /\ Ends(r, "failed")
    /\ UNCHANGED <<password, outdated, sessions, links, chosen, crossed, reverted, raced>>

\* A release raises the parameters of the password hash.
Upgrade ==
    /\ password # NoPassword
    /\ outdated' = TRUE
    /\ UNCHANGED <<password, sessions, links, req, chosen, crossed, reverted, raced>>

LoginNext ==
    \/ \E r \in Requests :
        \/ StartRegister(r) \/ CommitRegister(r)
        \/ StartLogin(r) \/ CommitLogin(r) \/ Logout(r)
        \/ StartForgot(r) \/ CommitForgot(r) \/ SendMail(r)
        \/ StartReset(r) \/ CommitReset(r)
        \/ Fail(r)
    \/ Upgrade

LoginSpec == LoginInit /\ [][LoginNext]_loginVars

-----------------------------------------------------------------------------
(* Properties                                                              *)

\* The account has the password that was set last, by whichever registration or reset
\* committed last (auth_service.py:121), unless a login that a reset overtook has
\* written its own password back: nothing else does.
PasswordIsChosen == ~reverted => password = chosen

\* A reset ends the sessions of the old password (auth_service.py:123): whoever is
\* signed in has proved the current one, unless a reset committed in the middle of
\* that login.
SessionsProvePassword ==
    ~reverted => \A s \in sessions \ crossed : req[s].password = password

\* A new link replaces the earlier ones (auth_service.py:88): unless two requests
\* for a link overlap, at most one link works.
OneLinkWorks == ~raced => \A k, l \in Unused : k = l

-----------------------------------------------------------------------------
(* What the repository says and the code does not do.                      *)

\* "Set a new password from a reset token" (README.md:142): the account has the
\* password that was set last, by whichever registration or reset committed last.
ResetSetsPassword == password = chosen
=============================================================================
