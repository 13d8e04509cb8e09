------------------------------ MODULE Accounts ------------------------------
(***************************************************************************)
(* Sign-in and sign-out of one WeChat user: app/services/auth_service.py   *)
(* and app/routers/auth.py over the users table.                           *)
(*                                                                         *)
(* Every call is a request with its own READ COMMITTED transaction.  A     *)
(* sign-in looks for the user of the openid, inserts or updates the row,   *)
(* commits and reads the row again for the token.  A token carries the     *)
(* user's token_version and is good as long as it is the row's.            *)
(***************************************************************************)
EXTENDS Integers, FiniteSets

CONSTANTS
    Logins,      \* calls of POST /api/auth/wechat-login
    Logouts,     \* calls of POST /api/auth/logout
    Fetches      \* other calls that need a user

ASSUME AccountAssumption == Logins \cap Logouts = {} /\ Fetches \cap (Logins \cup Logouts) = {}

NoUser == -1
Callers == Logins \cup Logouts \cup Fetches

VARIABLES
    tokenVersion, \* token_version of the user's committed row, NoUser before there is one
    inactive,     \* account_status # 'active' or deleted_at is set
    standing,     \* how far each call is
    readVersion,  \* token_version as the call's session loaded it, NoUser if it found no row
    newUser,      \* is_new_user of each answered sign-in
    issued        \* the versions in the tokens handed out

accountVars == <<tokenVersion, inactive, standing, readVersion, newUser, issued>>

AccountInit ==
    /\ tokenVersion = NoUser
    /\ inactive = FALSE
    /\ standing = [c \in Callers |-> "start"]
    /\ readVersion = [c \in Callers |-> NoUser]
    /\ newUser = {}
    /\ issued = {}

StandTo(c, label) == standing' = [standing EXCEPT ![c] = label]

-----------------------------------------------------------------------------

\* WeChat refuses the code, answers without an openid or cannot be reached (400 or
\* 401); otherwise the user of the openid is looked for.
SignIn(c) ==
    /\ c \in Logins
    /\ standing[c] = "start"
    /\ \/ StandTo(c, "refused") /\ UNCHANGED readVersion
       \/ StandTo(c, "write") /\ readVersion' = [readVersion EXCEPT ![c] = tokenVersion]
    /\ UNCHANGED <<tokenVersion, inactive, newUser, issued>>

\* Mutant: the insert replaces the row another sign-in has committed.
WriteUserUpserting(c) ==
    /\ standing[c] = "write"
    /\ tokenVersion' = IF readVersion[c] = NoUser THEN 0 ELSE tokenVersion
    /\ newUser' = IF readVersion[c] = NoUser THEN newUser \cup {c} ELSE newUser
    /\ StandTo(c, "token")
    /\ UNCHANGED <<inactive, readVersion, issued>>

\* The commit: an insert when the look found nobody, which fails on the unique
\* wx_openid (a 500) if another first sign-in was faster; else an update of
\* last_login_at and timezone.
WriteUser(c) ==
    /\ standing[c] = "write"
    /\ \/ /\ readVersion[c] # NoUser
          /\ StandTo(c, "token")
          /\ UNCHANGED <<tokenVersion, newUser>>
       \/ /\ readVersion[c] = NoUser
          /\ tokenVersion = NoUser
          /\ tokenVersion' = 0
          /\ newUser' = newUser \cup {c}
          /\ StandTo(c, "token")
       \/ /\ readVersion[c] = NoUser
          /\ tokenVersion # NoUser
          /\ StandTo(c, "failed")
          /\ UNCHANGED <<tokenVersion, newUser>>
    /\ UNCHANGED <<inactive, readVersion, issued>>

\* db.refresh(user), and a token with the version read now.
IssueToken(c) ==
    /\ standing[c] = "token"
    /\ issued' = issued \cup {tokenVersion}
    /\ StandTo(c, "answered")
    /\ UNCHANGED <<tokenVersion, inactive, readVersion, newUser>>

\* get_current_user with one of the tokens handed out: the row is loaded, its
\* version compared and the account looked at.
Authenticate(c) ==
    /\ c \in Logouts \cup Fetches
    /\ standing[c] = "start"
    /\ \E v \in issued :
        StandTo(c, IF v # tokenVersion \/ inactive THEN "refused"
              ELSE IF c \in Logouts THEN "revoke" ELSE "answered")
    /\ readVersion' = [readVersion EXCEPT ![c] = tokenVersion]
    /\ UNCHANGED <<tokenVersion, inactive, newUser, issued>>

\* revoke_user_tokens: the version as it was loaded, plus one, is written.
Revoke(c) ==
    /\ standing[c] = "revoke"
    /\ tokenVersion' = readVersion[c] + 1
    /\ StandTo(c, "answered")
    /\ UNCHANGED <<inactive, readVersion, newUser, issued>>

\* Operations close the account (external: nothing in the program does).
Deactivate ==
    /\ tokenVersion # NoUser
    /\ inactive' = TRUE
    /\ UNCHANGED <<tokenVersion, standing, readVersion, newUser, issued>>

AccountNext ==
    \/ \E c \in Callers : SignIn(c) \/ WriteUser(c) \/ IssueToken(c) \/ Authenticate(c) \/ Revoke(c)
    \/ Deactivate

AccountSpec == AccountInit /\ [][AccountNext]_accountVars

-----------------------------------------------------------------------------

\* First sign-ins at the same time make one user: one of them is told it is new,
\* and a sign-in fails only because another one made the user meanwhile.
OneNewUser ==
    /\ Cardinality(newUser) <= 1
    /\ tokenVersion # NoUser => Cardinality(newUser) = 1
    /\ \A c \in Logins : standing[c] = "failed" => c \notin newUser /\ newUser # {}

=============================================================================
