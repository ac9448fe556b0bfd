------------------------------ MODULE Accounts ------------------------------
(* The console's accounts: signing in and out, the middleware every request   *)
(* passes, the account's own handlers and the administrators'.                *)
(*                                                                            *)
(* A handler works on a row it read earlier and UpdateUser writes that row    *)
(* whole, so a request is two steps: Enter (the middleware reads the caller's *)
(* row; for PATCH, EnterPatch also reads the target's) and the step that      *)
(* writes.  Two requests interleave freely between them.                      *)
(*                                                                            *)
(* Abstracted: an account's id stands for its username too; a code is the     *)
(* secret it was computed from; the audit log and the answers are left out.   *)
EXTENDS Naturals, FiniteSets

CONSTANTS Ids,        \* account ids; a UUID is never issued twice
          Secrets,    \* TOTP secrets
          Passwords,  \* passwords, of which an account can have the same twice
          Requests,   \* requests the server handles at a time
          Tokens,     \* session tokens
          None       \* no row, no session, no secret, no request

VARIABLES users,      \* the users table
          sessions,   \* the sessions table
          requests,   \* what each running handler holds in memory
          issued,     \* the ids and the secrets handed out so far
          proven,     \* history: secrets a right code was given for
          chosen      \* history: the passwords each account was given by its holder, who
                      \* had another one before, or by the operator's configuration

vars == <<users, sessions, requests, issued, proven, chosen>>

Roles == {"admin", "operator", "viewer"}

\* The row's password hash is the password.
Row == [role : Roles, password : Passwords, mustChange : BOOLEAN, disabled : BOOLEAN,
        secret : Secrets \cup {None}, mfa : BOOLEAN]

\* A created account: no second factor, and not disabled.
NewRow(role, password, mustChange) ==
    [role |-> role, password |-> password, mustChange |-> mustChange,
     disabled |-> FALSE, secret |-> None, mfa |-> FALSE]

-----------------------------------------------------------------------------
(* Who may do what.                                                           *)

adminOnly == {"createUser", "patchUser", "deleteUser"}
selfService == {"changeOwnPassword", "setupMFA", "confirmMFA", "disableMFA"}
passwordChangePath == {"changeOwnPassword", "me", "logout"}
Reads == {"me", "get"}
Routes == adminOnly \cup selfService \cup passwordChangePath \cup Reads \cup {"post"}
Writes == {"createUser", "deleteUser", "logout"} \cup selfService

Allowed(role, route) ==
    \/ route \in selfService
    \/ role = "admin"
    \/ role = "operator" /\ route \notin adminOnly
    \/ role = "viewer" /\ route \notin adminOnly /\ route \in Reads

\* The account a token signs in, if any.
SessionUser(t) == sessions[t]

\* The middleware lets the request through to its handler.
authMiddleware(t, route) ==
    LET u == SessionUser(t) IN
    /\ u # None
    /\ users[u] # None
    /\ ~users[u].disabled
    /\ Allowed(users[u].role, route)
    /\ users[u].mustChange => route \in passwordChangePath

-----------------------------------------------------------------------------

\* What a running handler holds: its route, the account it works for, and the row
\* it will write.  "fresh" is history: that row is still what the table holds.
Handling == [route : Routes \cup {"login"}, user : Ids, row : Row \cup {None}, fresh : BOOLEAN]

ASSUME NoneAssumption ==
    None \notin Ids \cup Secrets \cup Requests \cup Tokens \cup Row \cup Handling

Init ==
    /\ users = [u \in Ids |-> None]
    /\ sessions = [t \in Tokens |-> None]
    /\ requests = [r \in Requests |-> None]
    /\ issued = {}
    /\ proven = {}
    /\ chosen = {}

\* A fresh installation gets an administrator: with the password the operator
\* configured, or with a generated one that the startup log shows.
bootstrapAdmin ==
    /\ \A u \in Ids : users[u] = None
    /\ \E u \in Ids \ issued, generated \in BOOLEAN, p \in Passwords :
         /\ users' = [users EXCEPT ![u] = NewRow("admin", p, generated)]
         /\ issued' = issued \cup {u}
         /\ chosen' = IF generated THEN chosen ELSE chosen \cup {<<u, p>>}
    /\ UNCHANGED <<sessions, requests, proven>>

\* The process stops: what its handlers held in memory is gone.
Restart ==
    /\ requests' = [r \in Requests |-> None]
    /\ UNCHANGED <<users, sessions, issued, proven, chosen>>

\* The session's 12 hours are over: it resolves to nobody, whether or not the
\* hourly pruning has deleted its row.
Expire(t) ==
    /\ sessions[t] # None
    /\ sessions' = [sessions EXCEPT ![t] = None]
    /\ UNCHANGED <<users, requests, issued, proven, chosen>>

-----------------------------------------------------------------------------
(* The steps of a request.                                                    *)

Done(r) == requests' = [requests EXCEPT ![r] = None]

\* A handler works for one account: the caller's, or the one whose row it holds.
Holding(route, u) == [route |-> route, user |-> u, row |-> users[u], fresh |-> TRUE]
Serving(route, u) == [route |-> route, user |-> u, row |-> None, fresh |-> TRUE]

\* UpdateUser writes every column of the row it is given; a row that is gone
\* stays gone.
UpdateUser(r, row) ==
    LET u == requests[r].user IN
    /\ users' = [users EXCEPT ![u] = IF users[u] = None THEN None ELSE row]
    /\ requests' = [q \in Requests |->
         IF q = r THEN None
         ELSE IF requests[q] # None /\ requests[q].user = u /\ requests[q].row # None
              THEN [requests[q] EXCEPT !.fresh = FALSE] ELSE requests[q]]

At(r, route) == requests[r] # None /\ requests[r].route = route

\* Password, and code when a second factor is on, are right; the account is on.
Login(r, u) ==
    /\ requests[r] = None
    /\ users[u] # None /\ ~users[u].disabled
    /\ requests' = [requests EXCEPT ![r] = Serving("login", u)]
    /\ UNCHANGED <<users, sessions, issued, proven, chosen>>

\* The session row of an account that was deleted meanwhile is refused
\* (PostgreSQL) or resolves to nobody (in memory).
CreateSession(r, t) ==
    /\ At(r, "login") /\ sessions[t] = None
    /\ sessions' = IF users[requests[r].user] = None THEN sessions
                   ELSE [sessions EXCEPT ![t] = requests[r].user]
    /\ Done(r)
    /\ UNCHANGED <<users, issued, proven, chosen>>

\* A request for one of the handlers that write; the others change nothing.
Enter(r, t, route) ==
    /\ requests[r] = None
    /\ authMiddleware(t, route)
    /\ LET u == SessionUser(t) IN
         requests' = [requests EXCEPT ![r] =
           IF route \in selfService THEN Holding(route, u) ELSE Serving(route, u)]
    /\ UNCHANGED <<users, sessions, issued, proven, chosen>>

\* Refused by the handler (a wrong password or code, a bad body, a failing
\* store) or nothing to write.
Refuse(r) ==
    /\ requests[r] # None
    /\ Done(r)
    /\ UNCHANGED <<users, sessions, issued, proven, chosen>>

logout(r, t) ==
    /\ At(r, "logout")
    /\ SessionUser(t) = requests[r].user
    /\ sessions' = [sessions EXCEPT ![t] = None]
    /\ Done(r)
    /\ UNCHANGED <<users, issued, proven, chosen>>

-----------------------------------------------------------------------------
(* The account's own handlers: they check and write the middleware's row.     *)

\* The password was given, and the current code when a factor is on.
setupMFA(r) ==
    /\ At(r, "setupMFA")
    /\ \E s \in Secrets \ issued :
         /\ UpdateUser(r, [requests[r].row EXCEPT !.secret = s, !.mfa = FALSE])
         /\ issued' = issued \cup {s}
    /\ UNCHANGED <<sessions, proven, chosen>>

\* Mutant of confirmMFA: it enables the factor of the row as it is by now.
ConfirmCurrentRow(r) ==
    LET row == requests[r].row  now == users[requests[r].user] IN
    /\ At(r, "confirmMFA") /\ row.secret # None /\ now # None
    /\ UpdateUser(r, [now EXCEPT !.mfa = TRUE])
    /\ proven' = proven \cup {row.secret}
    /\ UNCHANGED <<sessions, issued, chosen>>

\* A right code for the secret the handler holds was given.
confirmMFA(r) ==
    LET row == requests[r].row IN
    /\ At(r, "confirmMFA") /\ row.secret # None
    /\ UpdateUser(r, [row EXCEPT !.mfa = TRUE])
    /\ proven' = proven \cup {row.secret}
    /\ UNCHANGED <<sessions, issued, chosen>>

disableMFA(r) ==
    LET row == requests[r].row IN
    /\ At(r, "disableMFA") /\ row.mfa
    /\ UpdateUser(r, [row EXCEPT !.secret = None, !.mfa = FALSE])
    /\ UNCHANGED <<sessions, issued, proven, chosen>>

\* The holder of the account that the handler works for changes the password to p.
ChangeTo(r, p) ==
    LET row == requests[r].row IN
    /\ UpdateUser(r, [row EXCEPT !.password = p, !.mustChange = FALSE])
    /\ chosen' = IF p = row.password THEN chosen ELSE chosen \cup {<<requests[r].user, p>>}

\* Mutant of changeOwnPassword: the new password may be the current one.
ChangeToTheSame(r) ==
    /\ At(r, "changeOwnPassword")
    /\ \E p \in Passwords : ChangeTo(r, p)
    /\ UNCHANGED <<sessions, issued, proven>>

\* The current password was given, and a new one that differs from it: from that one,
\* and from none that the account had before.
changeOwnPassword(r) ==
    /\ At(r, "changeOwnPassword")
    /\ \E p \in Passwords : p # requests[r].row.password /\ ChangeTo(r, p)
    /\ UNCHANGED <<sessions, issued, proven>>

-----------------------------------------------------------------------------
(* The administrators' handlers.                                              *)

createUser(r) ==
    /\ At(r, "createUser")
    /\ \E u \in Ids \ issued, role \in Roles, p \in Passwords :
         /\ users' = [users EXCEPT ![u] = NewRow(role, p, TRUE)]
         /\ issued' = issued \cup {u}
    /\ Done(r)
    /\ UNCHANGED <<sessions, proven, chosen>>

\* patchUser reads the target's row first of all, then waits for the body.
EnterPatch(r, t, u) ==
    /\ requests[r] = None /\ users[u] # None
    /\ authMiddleware(t, "patchUser")
    /\ requests' = [requests EXCEPT ![r] = Holding("patchUser", u)]
    /\ UNCHANGED <<users, sessions, issued, proven, chosen>>

\* Mutant of patchUser: a password reset takes the second factor off too.
PatchDropsFactor(r) ==
    LET row == requests[r].row IN
    /\ At(r, "patchUser")
    /\ \E p \in Passwords :
         UpdateUser(r, [row EXCEPT !.password = p, !.mustChange = TRUE, !.secret = None, !.mfa = FALSE])
    /\ UNCHANGED <<sessions, issued, proven, chosen>>

\* Any of role, disabled and password; a password an administrator set must be
\* changed at the next sign-in.
patchUser(r) ==
    LET row == requests[r].row IN
    /\ At(r, "patchUser")
    /\ \/ \E role \in Roles : UpdateUser(r, [row EXCEPT !.role = role])
       \/ \E disabled \in BOOLEAN : UpdateUser(r, [row EXCEPT !.disabled = disabled])
       \/ \E p \in Passwords : UpdateUser(r, [row EXCEPT !.password = p, !.mustChange = TRUE])
    /\ UNCHANGED <<sessions, issued, proven, chosen>>

\* Not one's own account; its sessions go with it.
deleteUser(r, u) ==
    /\ At(r, "deleteUser") /\ u # requests[r].user
    /\ users' = [users EXCEPT ![u] = None]
    /\ sessions' = [t \in Tokens |->
         IF sessions[t] = u THEN None ELSE sessions[t]]
    /\ Done(r)
    /\ UNCHANGED <<issued, proven, chosen>>

-----------------------------------------------------------------------------

Next ==
    \/ bootstrapAdmin \/ Restart
    \/ \E t \in Tokens : Expire(t)
    \/ \E r \in Requests :
         \/ Refuse(r) \/ setupMFA(r) \/ confirmMFA(r) \/ disableMFA(r)
         \/ changeOwnPassword(r) \/ createUser(r) \/ patchUser(r)
         \/ \E u \in Ids : Login(r, u) \/ deleteUser(r, u)
         \/ \E t \in Tokens : CreateSession(r, t) \/ logout(r, t)
         \/ \E t \in Tokens, route \in Writes : Enter(r, t, route)
         \/ \E t \in Tokens, u \in Ids : EnterPatch(r, t, u)

Spec == Init /\ [][Next]_vars
-----------------------------------------------------------------------------
(* Properties.                                                                *)

\* Every table and every handler's memory has its shape; a row, in the table or
\* in a handler's hands, is a whole row.
TypeOK ==
    /\ users \in [Ids -> Row \cup {None}]
    /\ sessions \in [Tokens -> Ids \cup {None}]
    /\ requests \in [Requests -> Handling \cup {None}]
    /\ issued \subseteq Ids \cup Secrets
    /\ proven \subseteq Secrets
    /\ chosen \subseteq Ids \X Passwords

\* A password that someone else chose or saw (the administrator who created or reset
\* the account, the startup log) must be changed at the next sign-in: what an account
\* may keep is what its holder has chosen over another one, whatever handlers with
\* older rows write in between.
ToldPasswordsMustChange ==
    \A u \in Ids : users[u] # None /\ ~users[u].mustChange => <<u, users[u].password>> \in chosen

\* A second factor that sign-in insists on is one the holder showed a code for:
\* no interleaving of setup, confirmation and other writes of the row enables
\* a secret nobody enrolled, which would lock the account out.
EnabledFactorIsProven ==
    \A u \in Ids : users[u] # None /\ users[u].mfa => users[u].secret \in proven

\* What a write of the row may change when no other write came in between.
Scope(route) ==
    CASE route = "changeOwnPassword" -> {"password", "mustChange"}
      [] route = "patchUser" -> {"role", "disabled", "password", "mustChange"}
      [] OTHER -> {"secret", "mfa"}

\* UpdateUser writes the whole row, so it can undo someone else's change; it
\* does so only if that change was made after the request read the row.
OnlyOverlapLosesChanges ==
    [][\A r \in Requests : requests[r] # None /\ requests'[r] = None /\ requests[r].fresh =>
         \A u \in Ids : users[u] # None /\ users'[u] # None =>
           \A f \in DOMAIN users[u] :
             users'[u][f] # users[u][f] =>
               u = requests[r].user /\ f \in Scope(requests[r].route)]_vars

\* What passwordChangePath promises: "logout so the account can always walk away
\* instead of being trapped in a loop".  The role policy refuses a viewer's POST
\* before that list is consulted, so a viewer cannot sign out.
AccountCanAlwaysWalkAway ==
    \A t \in Tokens :
      LET u == SessionUser(t) IN
      u # None /\ users[u] # None /\ ~users[u].disabled => authMiddleware(t, "logout")
=============================================================================
