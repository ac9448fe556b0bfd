----------------------------- MODULE StoreTables -----------------------------
(***************************************************************************)
(* The tables that both implementations of the Store interface keep.  A    *)
(* store is a record of tables, a table a function from the identities     *)
(* that rows may have to rows, or to None where there is no row.  A method *)
(* that writes is an operator from a store and its arguments to a new      *)
(* store and an answer; one that reads is an operator to what it returns.  *)
(*                                                                         *)
(* The code draws a UUID for each row; identities here are numbers, and    *)
(* rows are created in their order.  None is also the SQL NULL and the     *)
(* empty string of Go, which nullStr, nullUUID and deref exchange.         *)
(***************************************************************************)
EXTENDS Naturals, FiniteSets, Sequences

CONSTANTS
  Hosts, Creds, Tags,       \* hosts, SSH credentials, tags of hosts
  Colls, Scheds, Rules,     \* collections, schedules, rules that users manage
  Users, Names,             \* accounts and user names
  Sessions, Tokens,         \* digests of cookies and of sensor tokens
  Scans, Obs, Keys,         \* scans, observations and their dedup keys
  Targets, Jobs, Actions,   \* export targets, scan jobs, response actions
  Events,                   \* rows of the audit log
  Workers,                  \* worker ids
  None,                     \* no row; NULL
  ReopenAfter,              \* ReopenAfter of both stores, in ticks
  AuditCap,                 \* 5000 in AppendAudit
  DefaultLimit, MaxLimit,   \* 100 and 500 in the methods that list
  AllowSelfApproval         \* SelfApprovalPolicy

\* A column that may be NULL, and the columns of the rows of each table.
OrNone(S) == S \cup {None}
HostRow == [name : OrNone({"given", "reported"}), key : OrNone({"pinned"}),
            os : OrNone({"linux"}), status : {"pending", "online", "unreachable"},
            cred : OrNone(Creds), tags : SUBSET Tags]
CollRow == [dynamic : BOOLEAN, match : SUBSET Tags]
SchedRow == [host : OrNone(Hosts), coll : OrNone(Colls), enabled : BOOLEAN]
HostRecord == [host : Hosts, data : {"old", "new"}]
RuleRow == [data : {"old", "new"}, enabled : BOOLEAN]
UserRow == [name : Names, disabled : BOOLEAN]
SessionRow == [user : Users, expires : Nat]
TokenRow == [host : Hosts, expires : OrNone(Nat), revoked : BOOLEAN]
ScanRow == [host : Hosts, status : {"running", "ok", "partial", "failed"}, started : Nat]
FindingRow == [host : Hosts, key : Keys, scan : OrNone(Scans),
               status : {"open", "acknowledged", "resolved", "false_positive"},
               verdict : {"unknown", "true_positive", "false_positive"}, count : Nat, seen : Nat]
TargetRow == [enabled : BOOLEAN]
DeliveryRow == [obs : Obs, status : {"queued", "delivering", "sent", "dead"}, attempts : Nat,
                worker : OrNone(Workers), lease : OrNone(Nat), due : Nat, made : Nat]
JobRow == [host : Hosts, status : {"queued", "running", "succeeded", "failed"}, attempts : Nat,
           worker : OrNone(Workers), lease : OrNone(Nat), due : OrNone(Nat), scan : OrNone(Scans)]
ActionRow == [host : Hosts,
              status : {"pending", "approved", "rejected", "running", "succeeded", "failed"},
              requester : Names, approver : OrNone(Names), rejecter : OrNone(Names),
              worker : OrNone(Workers), lease : OrNone(Nat), started : OrNone(Nat)]

\* NULL is no value of a column, and no row.
ASSUME StoreAssumption ==
  /\ UNION {Hosts, Creds, Colls, Scheds, Users, Sessions, Tokens, Scans, Obs, Targets, Jobs,
            Actions, Events} \subseteq Nat \ {0}
  /\ None \notin Nat \cup Names \cup Workers
  /\ None \notin HostRow \cup CollRow \cup SchedRow \cup HostRecord \cup RuleRow \cup UserRow
        \cup SessionRow \cup TokenRow \cup ScanRow \cup FindingRow \cup TargetRow \cup DeliveryRow
        \cup JobRow \cup ActionRow
  /\ ReopenAfter \in Nat /\ AuditCap \in Nat
  /\ DefaultLimit \in 1..MaxLimit /\ MaxLimit \in Nat
  /\ AllowSelfApproval \in BOOLEAN

NoRows(ids) == [i \in ids |-> None]

\* NewMemory, and the schema after migrate.  members: the hosts of each static
\* collection; outbox: the deliveries of each target, in the order of their creation;
\* dedup: the index that only the Memory store keeps.
Empty ==
  [hosts |-> NoRows(Hosts),         creds |-> NoRows(Creds),
   colls |-> NoRows(Colls),         members |-> [c \in Colls |-> {}],
   scheds |-> NoRows(Scheds),       rules |-> NoRows(Rules),
   baselines |-> NoRows(Hosts),     inventories |-> NoRows(Hosts),
   users |-> NoRows(Users),         sessions |-> NoRows(Sessions),
   tokens |-> NoRows(Tokens),       scans |-> NoRows(Scans),
   obs |-> NoRows(Obs),             exports |-> NoRows(Targets),
   outbox |-> [t \in Targets |-> <<>>],
   jobs |-> NoRows(Jobs),           responses |-> NoRows(Actions),
   audit |-> {},                    archive |-> {},
   dedup |-> [h \in Hosts |-> NoRows(Keys)]]

\* nil, ErrNotFound, another error of the method, and an error of the database.
Ok(db)      == [db |-> db, out |-> "ok"]
Missing(db) == [db |-> db, out |-> "not found"]
Refused(db) == [db |-> db, out |-> "refused"]
Broken(db)  == [db |-> db, out |-> "constraint"]

Exists(db, t, id) == db[t][id] # None
Row(db, t, id) == db[t][id]
Rows(db, t) == {<<id, db[t][id]>> : id \in {i \in DOMAIN db[t] : db[t][i] # None}}

Write(db, t, id, row) == [db EXCEPT ![t][id] = row]
Insert(db, t, id, row) == Ok(Write(db, t, id, row))
Change(db, t, id, cond, row) ==
  IF Exists(db, t, id) /\ cond THEN Insert(db, t, id, row) ELSE Missing(db)
Replace(db, t, id, row) == Change(db, t, id, TRUE, row)
Delete(db, t, id) == Replace(db, t, id, None)

\* The columns of each kind of row that the methods set when they create it.
NewHost(name, cred, tags) ==
  [name |-> name, key |-> None, os |-> None, status |-> "pending", cred |-> cred, tags |-> tags]
NewScan(h, now) == [host |-> h, status |-> "running", started |-> now]
NewJob(h, now) ==
  [host |-> h, status |-> "queued", attempts |-> 0, worker |-> None, lease |-> None,
   due |-> now, scan |-> None]
NewFinding(h, k, s, now) ==
  [host |-> h, key |-> k, scan |-> s, status |-> "open", verdict |-> "unknown",
   count |-> 1, seen |-> now]
NewDelivery(o, now) ==
  [obs |-> o, status |-> "queued", attempts |-> 0, worker |-> None, lease |-> None,
   due |-> now, made |-> now]
NewAction(h, u) ==
  [host |-> h, status |-> "pending", requester |-> u, approver |-> None, rejecter |-> None,
   worker |-> None, lease |-> None, started |-> None]
NewToken(h, expires) == [host |-> h, expires |-> expires, revoked |-> FALSE]

Closed == {"resolved", "false_positive"}
Completed == {"ok", "partial"}

\* tagsMatch, with tags as a set of pairs.
TagsMatch(tags, want) == want \subseteq tags

\* ObservationDisposition: an action, its status and its verdict, "" for none.
Disposition == [
  take_ownership       |-> <<"acknowledged", "">>,
  confirm_finding      |-> <<"acknowledged", "true_positive">>,
  close_false_positive |-> <<"false_positive", "false_positive">>,
  resolve              |-> <<"resolved", "">>,
  close_inconclusive   |-> <<"resolved", "unknown">>,
  reopen               |-> <<"open", "">>]

\* A sort by Before, cut to n rows, and its first rows (several on a tie).
Page(S, Before(_, _), n) == {x \in S : Cardinality({y \in S : Before(y, x)}) < n}
First(S, Before(_, _)) == {x \in S : \A y \in S : ~Before(y, x)}

Clamp(n) == IF n = 0 \/ n > MaxLimit THEN DefaultLimit ELSE n
AuditLimit(n) == IF n = 0 \/ n > MaxLimit THEN MaxLimit ELSE n
=============================================================================
