----------------------------- MODULE MCAccounts -----------------------------
(* Two accounts, two running handlers: enough for an administrator and an     *)
(* account's holder, or for one account's two requests, to overlap.           *)
EXTENDS Accounts, TLC
Symmetric == Permutations(Secrets) \cup Permutations(Passwords) \cup Permutations(Requests)
               \cup Permutations(Tokens) \cup Permutations(Ids)

\* Bound: one account at a time has a second factor; the two secrets are for its
\* enrolments that overlap.
OneEnrols == \A u, v \in Ids : users[u] # None /\ users[v] # None =>
    u = v \/ users[u].secret = None \/ users[v].secret = None

\* Bound: passwords that holders choose.
TwoChosen == Cardinality(chosen) <= 2

\* Bound: handlers that hold a row at the same time hold one account's; a handler
\* writes no row but the one it holds.
OneAccount == \A q, r \in Requests :
    requests[q] # None /\ requests[r] # None /\ requests[q].row # None /\ requests[r].row # None =>
      requests[q].user = requests[r].user

\* The rows that there are, in the table or in a handler's hands.
AllRows ==
    {users[u] : u \in {v \in Ids : users[v] # None}}
      \cup {requests[r].row : r \in {q \in Requests : requests[q] # None /\ requests[q].row # None}}

\* Bound: as long as there is a second factor all passwords are the same one, and no
\* account is disabled.
OneThing ==
    \/ \A row \in AllRows : row.secret = None
    \/ \E p \in Passwords :
         /\ chosen \subseteq Ids \X {p}
         /\ \A row \in AllRows : row.password = p /\ ~row.disabled
=============================================================================
