---------------------------- MODULE StoreContract ----------------------------
(***************************************************************************)
(* The Store interface is implemented twice.  Every test of the server     *)
(* runs on Memory, the product on Postgres: here both are given the same   *)
(* calls, and their answers, their tables and what they list are compared. *)
(*                                                                         *)
(* A caller that changes a row has read it from the same store, and names  *)
(* a credential or a scan that exists.  Where the two pick the next job by *)
(* different orders, only claims on which they agree are made.  A call     *)
(* that is neither documented nor tested to agree is named below (why).    *)
(*                                                                         *)
(* The methods fall into groups whose tables are independent; a behaviour  *)
(* exercises one of them, chosen at the beginning.                         *)
(***************************************************************************)
EXTENDS StoreTables

CONSTANTS
  MaxTime,    \* bound: ticks of the clock
  MaxCount,   \* bound: sightings of an observation, and attempts
  Few         \* bound: group -> table -> how many rows a behaviour creates, if bounded

VARIABLES
  group,      \* the methods that this behaviour calls
  mem, pg,    \* the two stores
  now,        \* one clock serves the server and the database
  drawn,      \* table -> how many identities have been drawn for it
  last        \* how the answers to the last call differed, None when they did not

vars == <<group, mem, pg, now, drawn, last>>

M == INSTANCE MemoryStore
P == INSTANCE PostgresStore

Groups == {"hosts", "membership", "records", "accounts", "sensors", "jobs", "findings",
           "pages", "exports", "retention", "audit", "responses"}
Timed == Groups \ {"hosts", "membership", "records"}

Init ==
  /\ group \in Groups
  /\ mem = Empty /\ pg = Empty
  /\ now = 1
  /\ drawn = [t \in DOMAIN Empty |-> 0]
  /\ last = None

Tick ==
  /\ group \in Timed /\ now < MaxTime
  /\ now' = now + 1
  /\ last' = None
  /\ UNCHANGED <<group, mem, pg, drawn>>

\* Both stores are called; why names the reason for which they may differ.
Answered(m, p, why) ==
  /\ mem' = m.db /\ pg' = p.db
  /\ last' = IF m.out = p.out THEN None ELSE [mem |-> m.out, pg |-> p.out, why |-> why]
  /\ UNCHANGED <<group, now>>

\* The reason is "gone" when the call names a row that Postgres does not have.
Why(refs) == IF \E r \in refs : r[2] # None /\ ~Exists(pg, r[1], r[2]) THEN "gone" ELSE "none"
Call(refs, m, p) == Answered(m, p, Why(refs)) /\ UNCHANGED drawn
Make(t, refs, m, p) ==
  /\ Answered(m, p, Why(refs))
  /\ drawn' = IF m.db[t] = mem[t] /\ p.db[t] = pg[t] THEN drawn ELSE [drawn EXCEPT ![t] = @ + 1]

\* The identities of a table that a behaviour of the group may draw.
Allowed(t) == {id \in DOMAIN Empty[t] :
                 group \in DOMAIN Few /\ t \in DOMAIN Few[group] => id <= Few[group][t]}

\* The next identity of table t, as a set with at most one member.
Fresh(t) == {drawn[t] + 1} \cap Allowed(t)
\* The identities that were given to rows, which may since have been deleted.
Known(t) == 1..drawn[t]
Live(t) == {i \in Known(t) : Exists(pg, t, i)}
-----------------------------------------------------------------------------
CreateHost ==
  \E h \in Fresh("hosts"),
     name \in IF group = "hosts" THEN {None, "given"} ELSE {None},
     cred \in IF group = "hosts" THEN Live("creds") \cup {None} ELSE {None},
     tags \in IF group = "membership" THEN SUBSET Tags ELSE {{}} :
    LET row == NewHost(name, cred, tags)
    IN Make("hosts", {}, M!CreateHost(mem, h, row), P!CreateHost(pg, h, row))

\* patchHost: a reset of the key, or other tags, of the row as it was read.
UpdateHost ==
  \E h \in Known("hosts") :
    /\ group \in {"hosts", "membership"}
    /\ Exists(mem, "hosts", h) /\ Exists(pg, "hosts", h)
    /\ \E tags \in IF group = "membership" THEN SUBSET Tags ELSE {{}} :
         LET edited(row) == [row EXCEPT !.key = None, !.tags = tags]
         IN Call({}, M!UpdateHost(mem, h, edited(M!GetHost(mem, h))),
                     P!UpdateHost(pg, h, edited(P!GetHost(pg, h))))

SetHost ==
  /\ group = "hosts"
  /\ \E h \in Known("hosts") :
       \/ \E os \in {None, "linux"}, name \in {None, "reported"} :
            Call({<<"hosts", h>>}, M!SetHostOnline(mem, h, os, name),
                                   P!SetHostOnline(pg, h, os, name))
       \/ Call({<<"hosts", h>>}, M!SetHostUnreachable(mem, h), P!SetHostUnreachable(pg, h))
       \/ Call({<<"hosts", h>>}, M!SetHostSSHHostKey(mem, h, "pinned"),
                                 P!SetHostSSHHostKey(pg, h, "pinned"))

DeleteHost ==
  /\ group # "retention"
  /\ \E h \in Known("hosts") :
       Call({<<"hosts", h>>}, M!DeleteHost(mem, h), P!DeleteHost(pg, h))

Credentials ==
  /\ group = "hosts"
  /\ \/ \E c \in Fresh("creds") :
          Make("creds", {}, M!CreateCredential(mem, c), P!CreateCredential(pg, c))
     \/ \E c \in Known("creds") :
          Call({}, M!DeleteCredential(mem, c), P!DeleteCredential(pg, c))

Collections ==
  /\ group = "membership"
  /\ \/ \E c \in Fresh("colls"), dynamic \in BOOLEAN, match \in SUBSET Tags :
          LET row == [dynamic |-> dynamic, match |-> match]
          IN Make("colls", {}, M!CreateCollection(mem, c, row), P!CreateCollection(pg, c, row))
     \/ \E c \in Known("colls"), match \in SUBSET Tags :
          LET row == [dynamic |-> TRUE, match |-> match]
          IN Call({}, M!UpdateCollection(mem, c, row), P!UpdateCollection(pg, c, row))
     \/ \E c \in Known("colls") : Call({}, M!DeleteCollection(mem, c), P!DeleteCollection(pg, c))
     \/ \E c \in Known("colls"), h \in Known("hosts") :
          \/ Call({<<"colls", c>>, <<"hosts", h>>}, M!AddCollectionMember(mem, c, h),
                                                    P!AddCollectionMember(pg, c, h))
          \/ Call({}, M!RemoveCollectionMember(mem, c, h), P!RemoveCollectionMember(pg, c, h))

Schedules ==
  /\ group = "membership"
  /\ \/ \E s \in Fresh("scheds"), h \in Known("hosts") \cup {None},
           c \in Known("colls") \cup {None} :
          LET row == [host |-> h, coll |-> c, enabled |-> TRUE]
          IN Make("scheds", {<<"hosts", h>>, <<"colls", c>>},
                  M!CreateSchedule(mem, s, row), P!CreateSchedule(pg, s, row))
     \/ \E s \in Known("scheds") :
          /\ Exists(mem, "scheds", s)
          /\ LET row == [M!GetSchedule(mem, s) EXCEPT !.enabled = FALSE]
             IN Call({<<"scheds", s>>}, M!UpdateSchedule(mem, s, row), P!UpdateSchedule(pg, s, row))
     \/ \E s \in Known("scheds") : Call({}, M!DeleteSchedule(mem, s), P!DeleteSchedule(pg, s))

Records ==
  /\ group = "records"
  /\ \/ \E h \in Known("hosts"), data \in {"old", "new"} :
          \/ Call({<<"hosts", h>>}, M!SaveBaseline(mem, h, data), P!SaveBaseline(pg, h, data))
          \/ Call({<<"hosts", h>>}, M!SaveInventory(mem, h, data), P!SaveInventory(pg, h, data))
     \/ \E h \in Known("hosts") : Call({}, M!DeleteBaseline(mem, h), P!DeleteBaseline(pg, h))
     \/ \E r \in Rules, data \in {"old", "new"} :
          LET row == [data |-> data, enabled |-> TRUE]
          IN Call({}, M!UpsertRule(mem, r, row), P!UpsertRule(pg, r, row))
     \/ \E r \in Rules : Call({}, M!DeleteRule(mem, r), P!DeleteRule(pg, r))
     \/ \E r \in Rules, on \in BOOLEAN :
          Call({}, M!SetRuleEnabled(mem, r, on), P!SetRuleEnabled(pg, r, on))
-----------------------------------------------------------------------------
Accounts ==
  /\ group = "accounts"
  /\ \/ \E u \in Fresh("users"), name \in Names :
          LET row == [name |-> name, disabled |-> FALSE]
          IN /\ Answered(M!CreateUser(mem, u, row), P!CreateUser(pg, u, row), "taken")
             /\ drawn' = [drawn EXCEPT !.users = @ + IF Exists(mem', "users", u) THEN 1 ELSE 0]
     \/ \E u \in Known("users") :
          LET row == [name |-> CHOOSE n \in Names : TRUE, disabled |-> TRUE]
              edited(db) == IF Exists(db, "users", u) THEN [db.users[u] EXCEPT !.disabled = TRUE]
                                                      ELSE row
          IN /\ Answered(M!UpdateUser(mem, u, edited(mem)), P!UpdateUser(pg, u, edited(pg)),
                         "no such user")
             /\ UNCHANGED drawn
     \/ \E u \in Known("users") : Call({}, M!DeleteUser(mem, u), P!DeleteUser(pg, u))
     \/ \E s \in Fresh("sessions"), u \in Known("users") :
          Make("sessions", {<<"users", u>>}, M!CreateSession(mem, s, u, now + 1),
                                             P!CreateSession(pg, s, u, now + 1))
     \/ \E s \in Known("sessions") : Call({}, M!DeleteSession(mem, s), P!DeleteSession(pg, s))
     \/ Call({}, M!DeleteExpiredSessions(mem, now), P!DeleteExpiredSessions(pg, now))

SensorTokens ==
  /\ group = "sensors"
  /\ \/ \E t \in Fresh("tokens"), h \in Known("hosts"), expires \in {None, now + 1} :
          Make("tokens", {<<"hosts", h>>}, M!CreateSensorToken(mem, t, h, expires),
                                           P!CreateSensorToken(pg, t, h, expires))
     \/ \E t \in Known("tokens"), h \in Known("hosts") :
          /\ Answered(M!RevokeSensorToken(mem, h, t), P!RevokeSensorToken(pg, h, t),
                      IF Exists(pg, "tokens", t) THEN "revoked" ELSE "gone")
          /\ UNCHANGED drawn
     \/ \E h \in Known("hosts"), t \in Known("tokens") :
          Call({}, M!RevokeOtherSensorTokens(mem, h, t), P!RevokeOtherSensorTokens(pg, h, t))
     \/ \E h \in Known("hosts") :
          Call({}, M!RevokeSensorTokens(mem, h), P!RevokeSensorTokens(pg, h))
-----------------------------------------------------------------------------
ScanRows ==
  /\ group \in {"jobs", "findings", "retention"}
  /\ \/ \E s \in Fresh("scans"), h \in Known("hosts") :
          Make("scans", {<<"hosts", h>>}, M!CreateScan(mem, s, h, now), P!CreateScan(pg, s, h, now))
     \/ \E s \in Known("scans"), status \in {"ok", "failed"} :
          /\ group = "findings" /\ Exists(mem, "scans", s)
          /\ LET row == [M!GetScan(mem, s) EXCEPT !.status = status]
             IN Call({<<"scans", s>>}, M!UpdateScan(mem, s, row), P!UpdateScan(pg, s, row))

ScanJobs ==
  /\ group = "jobs"
  /\ \/ \E j \in Fresh("jobs"), h \in Known("hosts") :
          Make("jobs", {<<"hosts", h>>}, M!EnqueueScanJob(mem, j, h, now),
                                         P!EnqueueScanJob(pg, j, h, now))
     \/ \E w \in Workers, j \in M!NextJobs(mem, now) \cap P!NextJobs(pg, now) :
          /\ mem.jobs[j].attempts < MaxCount
          /\ Call({}, M!ClaimScanJob(mem, j, w, now), P!ClaimScanJob(pg, j, w, now))
     \/ \E w \in Workers, j \in Known("jobs") :
          \/ Call({<<"jobs", j>>}, M!RenewScanJobLease(mem, j, w, now + 1),
                                   P!RenewScanJobLease(pg, j, w, now + 1))
          \/ \E s \in Live("scans") \cup {None} :
               Call({<<"jobs", j>>}, M!CompleteScanJob(mem, j, w, s), P!CompleteScanJob(pg, j, w, s))
          \/ \E terminal \in BOOLEAN :
               Call({<<"jobs", j>>}, M!FailScanJob(mem, j, w, now + 1, terminal),
                                     P!FailScanJob(pg, j, w, now + 1, terminal))

UpsertObservation ==
  /\ group \in {"findings", "pages", "exports", "retention"}
  /\ \E o \in {drawn.obs + 1}, h \in Known("hosts"), k \in Keys, s \in Live("scans") \cup {None} :
       LET m == M!UpsertObservation(mem, o, h, k, s, now)
           p == P!UpsertObservation(pg, o, h, k, s, now)
       IN /\ o \in Allowed("obs") \/ mem.dedup[h][k] # None
          /\ group = "exports" => h \in Live("hosts")   \* deliveries are known by number
          /\ \A i \in Obs : Exists(mem, "obs", i) => mem.obs[i].count < MaxCount
          /\ Answered(m, p, Why({<<"hosts", h>>}))
          /\ drawn' = [drawn EXCEPT !.obs =
               @ + IF o \in Allowed("obs") /\ (Exists(m.db, "obs", o) \/ Exists(p.db, "obs", o)) THEN 1 ELSE 0]

Assessments ==
  \E o \in Known("obs") :
    \/ /\ group \in {"findings", "retention"}
       /\ \E a \in IF group = "findings" THEN DOMAIN Disposition ELSE {"close_inconclusive"} :
            Call({<<"obs", o>>}, M!ApplyObservationAction(mem, o, a),
                                 P!ApplyObservationAction(pg, o, a))
    \/ /\ group = "pages"
       /\ \/ Call({<<"obs", o>>}, M!SetObservationStatus(mem, o, "resolved"),
                                  P!SetObservationStatus(pg, o, "resolved"))
          \/ Call({<<"obs", o>>}, M!SetObservationVerdict(mem, o, "true_positive"),
                                  P!SetObservationVerdict(pg, o, "true_positive"))

ExportTargets ==
  /\ group = "exports"
  /\ \/ \E t \in Fresh("exports"), on \in BOOLEAN :
          Make("exports", {}, M!CreateExportTarget(mem, t, on), P!CreateExportTarget(pg, t, on))
     \/ \E t \in Known("exports"), on \in BOOLEAN :
          Call({}, M!UpdateExportTarget(mem, t, on), P!UpdateExportTarget(pg, t, on))
     \/ \E t \in Known("exports") :
          Call({}, M!DeleteExportTarget(mem, t), P!DeleteExportTarget(pg, t))

ExportDeliveries ==
  /\ group = "exports"
  /\ \/ \E w \in Workers, d \in M!NextDeliveries(mem, now) \cap P!NextDeliveries(pg, now) :
          /\ M!Delivery(mem, d).attempts < MaxCount
          /\ Call({}, M!ClaimExportDelivery(mem, d, w, now), P!ClaimExportDelivery(pg, d, w, now))
     \/ \E w \in Workers, d \in P!Deliveries(pg) :
          \/ Call({}, M!RenewExportDeliveryLease(mem, d, w, now + 1),
                      P!RenewExportDeliveryLease(pg, d, w, now + 1))
          \/ Call({}, M!CompleteExportDelivery(mem, d, w), P!CompleteExportDelivery(pg, d, w))
          \/ \E terminal \in BOOLEAN :
               Call({}, M!FailExportDelivery(mem, d, w, now + 1, terminal),
                        P!FailExportDelivery(pg, d, w, now + 1, terminal))
     \/ \E d \in P!Deliveries(pg) :
          Call({}, M!RetryExportDelivery(mem, d, now), P!RetryExportDelivery(pg, d, now))
-----------------------------------------------------------------------------
Log ==
  /\ group \in {"audit", "retention"}
  /\ \E e \in Events :
       /\ e = drawn.audit + 1
       /\ group = "retention" => e <= AuditCap
       /\ Answered(M!AppendAudit(mem, e, now), P!AppendAudit(pg, e, now), "none")
       /\ drawn' = [drawn EXCEPT !.audit = e]

\* Each age is on or off.
Retention ==
  /\ group = "retention"
  /\ \E ages \in [{"obs", "scans", "audit", "archive"} -> 0..1] :
       Call({}, M!ApplyRetention(mem, ages, now), P!ApplyRetention(pg, ages, now))

Responses ==
  /\ group = "responses"
  /\ \/ \E a \in Fresh("responses"), h \in Known("hosts"), u \in Names :
          Make("responses", {<<"hosts", h>>}, M!CreateResponseAction(mem, a, h, u),
                                              P!CreateResponseAction(pg, a, h, u))
     \/ \E a \in Known("responses"), u \in Names :
          \/ Call({<<"responses", a>>}, M!ApproveResponseAction(mem, a, u),
                                        P!ApproveResponseAction(pg, a, u))
          \/ Call({<<"responses", a>>}, M!RejectResponseAction(mem, a, u),
                                        P!RejectResponseAction(pg, a, u))
     \/ \E w \in Workers, a \in M!NextActions(mem, now) \cap P!NextActions(pg, now) :
          Call({}, M!ClaimResponseAction(mem, a, w, now), P!ClaimResponseAction(pg, a, w, now))
     \/ \E w \in Workers, a \in Known("responses") :
          \/ Call({<<"responses", a>>}, M!RenewResponseActionLease(mem, a, w, now + 1),
                                        P!RenewResponseActionLease(pg, a, w, now + 1))
          \/ Call({<<"responses", a>>}, M!CompleteResponseAction(mem, a, w),
                                        P!CompleteResponseAction(pg, a, w))
          \/ Call({<<"responses", a>>}, M!FailResponseAction(mem, a, w),
                                        P!FailResponseAction(pg, a, w))

Next ==
  \/ Tick \/ CreateHost \/ UpdateHost \/ SetHost \/ DeleteHost \/ Credentials
  \/ Collections \/ Schedules \/ Records \/ Accounts \/ SensorTokens
  \/ ScanRows \/ ScanJobs \/ UpsertObservation \/ Assessments
  \/ ExportTargets \/ ExportDeliveries \/ Log \/ Retention \/ Responses

Spec == Init /\ [][Next]_vars
-----------------------------------------------------------------------------
(***************************************************************************)
(* Properties.                                                             *)
(***************************************************************************)

\* The two implementations answer a call alike, whatever came before it, but for: a call
\* that names a row which is gone, which Postgres alone always turns down; a token that
\* is revoked twice; a user name that is taken, which both turn down; and an update of a
\* user who is gone, which Postgres alone reports as done.  The handlers tell 404, 409
\* and 500 from these answers, and their tests see only those of Memory.
AnswersAgree ==
  last # None =>
    CASE last.why = "gone"         -> last.pg # "ok"
      [] last.why = "revoked"      -> last.mem = "ok" /\ last.pg = "not found"
      [] last.why = "taken"        -> last.mem # "ok" /\ last.pg # "ok"
      [] last.why = "no such user" -> last.mem = "not found" /\ last.pg = "ok"
      [] OTHER                     -> FALSE

\* What a client can see of a store: neither the index of Memory nor the due time that
\* Postgres alone writes to a job that has failed for good.
Seen(db) ==
  [db EXCEPT !.dedup = None,
             !.jobs = [j \in Jobs |-> IF @[j] # None /\ @[j].status = "failed"
                                      THEN [@[j] EXCEPT !.due = None] ELSE @[j]]]

\* The tables of Memory are those of Postgres but for rows whose parent is gone, which
\* the foreign keys of the schema delete or unlink and Memory keeps; and Memory keeps
\* only the newest events.  Deduplication, reopening, claims, leases, two-person control
\* and retention are coded twice, once in Go and once in SQL.
StateAgrees ==
  LET Newer(a, b) == a.id > b.id
      cut(db) == [db EXCEPT !.audit = Page(@, Newer, AuditCap)]
  IN Seen(P!Cascade(mem)) = Seen(cut(pg))

\* Without rows whose parent is gone the two list the same: the rows of each filter, the
\* page after each row of another page, the members of a collection, who a session or a
\* token lets in, and what a worker may claim, for every limit, none and too many
\* included.  They disagree on a session at the instant of its expiry, which Memory
\* still accepts, and on a limit of none or of more than MaxLimit for the jobs and for
\* the audit log: Memory then gives all it has, Postgres what Memory gives for
\* DefaultLimit and for MaxLimit.  The API does ask for such lists: for the jobs it
\* passes the limit of the request on as it is, and to show 500 events and to tell
\* whether there are more it asks for 501.
ReadsAgree ==
  P!Cascade(mem) = mem =>
    /\ \A c \in Colls : M!CollectionHosts(mem, c) = P!CollectionHosts(pg, c)
    /\ \A s \in Sessions : M!SessionUser(mem, s, now) # P!SessionUser(pg, s, now)
         => Exists(mem, "sessions", s) /\ mem.sessions[s].expires = now
    /\ \A h \in Hosts, t \in Tokens :
         M!SensorTokenValid(mem, h, t, now) = P!SensorTokenValid(pg, h, t, now)
    /\ \A n \in 0..(MaxLimit + 1) :
         /\ \A f \in {<<>>} \cup {[status |-> s] : s \in Closed \cup {"open"}}
                     \cup {[host |-> h, verdict |-> "unknown"] : h \in Hosts} :
              \A o \in {o \in Obs : Exists(mem, "obs", o)} \cup {None} :
                LET before == IF o = None THEN None ELSE [id |-> o, seen |-> mem.obs[o].seen]
                IN M!ListObservations(mem, f, before, n) = P!ListObservations(pg, f, before, n)
         /\ Cardinality(pg.audit) <= AuditCap =>
              \A before \in mem.audit \cup {None} :
                M!ListAuditPage(mem, before, AuditLimit(n)) = P!ListAuditPage(pg, before, n)
         /\ \A h \in Hosts \cup {None} :
              /\ M!ListScanJobs(mem, h, Clamp(n)) = P!ListScanJobs(pg, h, n)
              /\ M!ListResponseActions(mem, h, n) = P!ListResponseActions(pg, h, n)
    /\ M!ClaimableJobs(mem, now) = P!ClaimableJobs(pg, now)
    /\ M!ClaimableDeliveries(mem, now) = P!ClaimableDeliveries(pg, now)
    /\ M!ClaimableActions(mem, now) = P!ClaimableActions(pg, now)
=============================================================================
