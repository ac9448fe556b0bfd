----------------------------- MODULE MemoryStore -----------------------------
(***************************************************************************)
(* store.Memory.  Every method holds the lock from beginning to end, and   *)
(* rows are copied on their way in and out: each is one operator.          *)
(***************************************************************************)
EXTENDS StoreTables

CreateCollection(db, c, row) == Insert([db EXCEPT !.members[c] = {}], "colls", c, row)
GetCollection(db, c) == Row(db, "colls", c)
ListCollections(db) == Rows(db, "colls")
UpdateCollection(db, c, row) == Replace(db, "colls", c, row)

\* The members go with the collection; a schedule that names it stays.
DeleteCollection(db, c) == Ok([db EXCEPT !.colls[c] = None, !.members[c] = {}])

\* Nothing looks whether the host exists.
AddCollectionMember(db, c, h) ==
  IF Exists(db, "colls", c) THEN Ok([db EXCEPT !.members[c] = @ \cup {h}]) ELSE Missing(db)
RemoveCollectionMember(db, c, h) == Ok([db EXCEPT !.members[c] = @ \ {h}])

CollectionHosts(db, c) ==
  LET live == {h \in Hosts : Exists(db, "hosts", h)}
  IN IF ~Exists(db, "colls", c) THEN None
     ELSE IF db.colls[c].dynamic
     THEN {h \in live : TagsMatch(db.hosts[h].tags, db.colls[c].match)}
     ELSE db.members[c] \cap live

CreateSchedule(db, s, row) == Insert(db, "scheds", s, row)
GetSchedule(db, s) == Row(db, "scheds", s)
ListSchedules(db) == Rows(db, "scheds")
UpdateSchedule(db, s, row) == Replace(db, "scheds", s, row)
DeleteSchedule(db, s) == Insert(db, "scheds", s, None)

GetBaseline(db, h) == Row(db, "baselines", h)
SaveBaseline(db, h, digest) == Insert(db, "baselines", h, [host |-> h, data |-> digest])
DeleteBaseline(db, h) == Insert(db, "baselines", h, None)
ListBaselines(db) == Rows(db, "baselines")
SaveInventory(db, h, items) == Insert(db, "inventories", h, [host |-> h, data |-> items])
ListInventories(db) == Rows(db, "inventories")

UpsertRule(db, r, row) == Insert(db, "rules", r, row)
ListRules(db) == Rows(db, "rules")
GetRule(db, r) == Row(db, "rules", r)
DeleteRule(db, r) == Delete(db, "rules", r)
SetRuleEnabled(db, r, on) == Replace(db, "rules", r, [db.rules[r] EXCEPT !.enabled = on])

CreateCredential(db, c) == Insert(db, "creds", c, "sealed")
GetCredential(db, c) == Row(db, "creds", c)
ListCredentials(db) == Rows(db, "creds")
\* Hosts keep the name of the credential.
DeleteCredential(db, c) == Delete(db, "creds", c)
-----------------------------------------------------------------------------
CreateHost(db, h, row) == Insert(db, "hosts", h, row)
GetHost(db, h) == Row(db, "hosts", h)
ListHosts(db) == Rows(db, "hosts")
UpdateHost(db, h, row) == Replace(db, "hosts", h, row)

SetHostOnline(db, h, os, name) ==
  Replace(db, "hosts", h,
    [db.hosts[h] EXCEPT !.status = "online", !.os = IF os = None THEN @ ELSE os,
                        !.name = IF @ = None THEN name ELSE @])
SetHostUnreachable(db, h) ==
  Replace(db, "hosts", h, [db.hosts[h] EXCEPT !.status = "unreachable"])
SetHostSSHHostKey(db, h, key) == Replace(db, "hosts", h, [db.hosts[h] EXCEPT !.key = key])

\* Only the row: nothing that belongs to the host goes with it.
DeleteHost(db, h) == Delete(db, "hosts", h)

CreateScan(db, s, h, now) == Insert(db, "scans", s, NewScan(h, now))
UpdateScan(db, s, row) == Replace(db, "scans", s, row)
GetScan(db, s) == Row(db, "scans", s)
ListScansByHost(db, h) == {r \in Rows(db, "scans") : r[2].host = h}
-----------------------------------------------------------------------------
Active(db, h) ==
  {j \in Jobs : Exists(db, "jobs", j) /\ db.jobs[j].host = h
                /\ db.jobs[j].status \in {"queued", "running"}}

EnqueueScanJob(db, j, h, now) ==
  IF ~Exists(db, "hosts", h) THEN Missing(db)
  ELSE IF Active(db, h) # {} THEN Ok(db)
  ELSE Insert(db, "jobs", j, NewJob(h, now))
GetScanJob(db, j) == Row(db, "jobs", j)

\* Without a limit all of them.
ListScanJobs(db, h, n) ==
  LET of == {j \in Jobs : Exists(db, "jobs", j) /\ h \in {None, db.jobs[j].host}}
      Newer(i, j) == i > j
  IN IF n > 0 THEN Page(of, Newer, n) ELSE of

\* The candidates, of which the oldest is claimed.
ClaimableJobs(db, now) ==
  {j \in Jobs : Exists(db, "jobs", j) /\
     LET r == db.jobs[j]
     IN \/ r.status = "queued" /\ ~(r.due > now)
        \/ r.status = "running" /\ r.lease # None /\ ~(r.lease > now)}
NextJobs(db, now) == LET Older(i, j) == i < j IN First(ClaimableJobs(db, now), Older)
ClaimScanJob(db, j, w, now) ==
  Change(db, "jobs", j, j \in NextJobs(db, now),
    [db.jobs[j] EXCEPT !.status = "running", !.worker = w, !.lease = now + 1, !.attempts = @ + 1])

OwnsJob(db, j, w) == db.jobs[j].status = "running" /\ db.jobs[j].worker = w
RenewScanJobLease(db, j, w, until) ==
  Change(db, "jobs", j, OwnsJob(db, j, w), [db.jobs[j] EXCEPT !.lease = until])
CompleteScanJob(db, j, w, s) ==
  Change(db, "jobs", j, OwnsJob(db, j, w),
    [db.jobs[j] EXCEPT !.status = "succeeded", !.scan = s, !.worker = None, !.lease = None])
FailScanJob(db, j, w, retryAt, terminal) ==
  Change(db, "jobs", j, OwnsJob(db, j, w),
    [db.jobs[j] EXCEPT !.status = IF terminal THEN "failed" ELSE "queued",
                       !.due = IF terminal THEN @ ELSE retryAt,
                       !.worker = None, !.lease = None])
-----------------------------------------------------------------------------
\* absentFromPreviousScanLocked: prev is the start of the latest completed scan of the
\* host other than the present one.
Absent(db, seen, h, s) ==
  LET starts == {db.scans[p].started : p \in
        {q \in Scans \ {s} : Exists(db, "scans", q) /\ db.scans[q].host = h
                             /\ db.scans[q].status \in Completed}}
  IN \E prev \in starts : (\A x \in starts : x <= prev) /\ seen < prev

Reopens(ex, now) ==
  ReopenAfter > 0 /\ ex.status \in Closed /\ now - ex.seen >= ReopenAfter

\* enqueueExportsLocked: a delivery for every enabled target.
Exported(db, o, now) ==
  [db EXCEPT !.outbox = [t \in Targets |->
     IF Exists(db, "exports", t) /\ db.exports[t].enabled
     THEN Append(db.outbox[t], NewDelivery(o, now)) ELSE db.outbox[t]]]

UpsertObservation(db, o, h, k, s, now) ==
  LET id == db.dedup[h][k]
      ex == db.obs[id]
  IN IF id # None
     THEN Ok(Exported(Write(db, "obs", id,
            [ex EXCEPT !.status = IF Reopens(ex, now) /\ Absent(db, ex.seen, h, s)
                                  THEN "open" ELSE @,
                       !.seen = now, !.count = @ + 1, !.scan = s]), id, now))
     ELSE Ok(Exported([Write(db, "obs", o, NewFinding(h, k, s, now))
                         EXCEPT !.dedup[h][k] = o], o, now))

\* A page: filter f gives some columns their values; before, when it is not None, is
\* the last row of the previous page.
ListObservations(db, f, before, n) ==
  LET skipped(o) ==
        \/ \E c \in DOMAIN f : db.obs[o][c] # f[c]
        \/ /\ before # None
           /\ \/ db.obs[o].seen > before.seen
              \/ db.obs[o].seen = before.seen /\ o >= before.id
      Newer(a, b) == IF db.obs[a].seen = db.obs[b].seen THEN a > b
                     ELSE db.obs[a].seen > db.obs[b].seen
      found == {o \in Obs : Exists(db, "obs", o) /\ ~skipped(o)}
  IN IF n > 0 THEN Page(found, Newer, n) ELSE found

GetObservation(db, o) == Row(db, "obs", o)
SetObservationStatus(db, o, status) ==
  Replace(db, "obs", o, [db.obs[o] EXCEPT !.status = status])
SetObservationVerdict(db, o, verdict) ==
  Replace(db, "obs", o, [db.obs[o] EXCEPT !.verdict = verdict])
ApplyObservationAction(db, o, action) ==
  LET row == db.obs[o]
  IN IF ~Exists(db, "obs", o) THEN Missing(db)
     ELSE IF action = "resolve" /\ row.verdict # "true_positive" THEN Refused(db)
     ELSE Insert(db, "obs", o,
            [row EXCEPT !.status = Disposition[action][1],
                        !.verdict = IF Disposition[action][2] # "" THEN Disposition[action][2]
                                                                   ELSE @])
-----------------------------------------------------------------------------
CreateExportTarget(db, t, on) == Insert(db, "exports", t, [enabled |-> on])
GetExportTarget(db, t) == Row(db, "exports", t)
ListExportTargets(db) == Rows(db, "exports")
UpdateExportTarget(db, t, on) == Replace(db, "exports", t, [enabled |-> on])
DeleteExportTarget(db, t) ==
  IF Exists(db, "exports", t) THEN Ok([db EXCEPT !.exports[t] = None, !.outbox[t] = <<>>])
                              ELSE Missing(db)

\* Deliveries are identified by their target and number.
Deliveries(db) ==
  UNION {{t} \X {i \in DOMAIN db.outbox[t] : db.outbox[t][i] # None} : t \in Targets}
Delivery(db, d) == db.outbox[d[1]][d[2]]
ChangeDelivery(db, d, cond, row) ==
  IF d \in Deliveries(db) /\ cond THEN Ok([db EXCEPT !.outbox[d[1]][d[2]] = row]) ELSE Missing(db)

ClaimableDeliveries(db, now) ==
  {d \in Deliveries(db) :
     LET r == Delivery(db, d)
     IN /\ Exists(db, "exports", d[1]) /\ db.exports[d[1]].enabled
        /\ \/ r.status = "queued" /\ ~(r.due > now)
           \/ r.status = "delivering" /\ r.lease # None /\ ~(r.lease > now)}
NextDeliveries(db, now) ==
  LET Older(a, b) == Delivery(db, a).made < Delivery(db, b).made
  IN First(ClaimableDeliveries(db, now), Older)
ClaimExportDelivery(db, d, w, now) ==
  ChangeDelivery(db, d, d \in NextDeliveries(db, now),
    [Delivery(db, d) EXCEPT !.status = "delivering", !.worker = w, !.lease = now + 1,
                            !.attempts = @ + 1])

OwnsDelivery(db, d, w) == Delivery(db, d).status = "delivering" /\ Delivery(db, d).worker = w
RenewExportDeliveryLease(db, d, w, until) ==
  ChangeDelivery(db, d, OwnsDelivery(db, d, w), [Delivery(db, d) EXCEPT !.lease = until])
CompleteExportDelivery(db, d, w) ==
  ChangeDelivery(db, d, OwnsDelivery(db, d, w),
    [Delivery(db, d) EXCEPT !.status = "sent", !.worker = None, !.lease = None])
FailExportDelivery(db, d, w, retryAt, terminal) ==
  ChangeDelivery(db, d, OwnsDelivery(db, d, w),
    [Delivery(db, d) EXCEPT !.status = IF terminal THEN "dead" ELSE "queued",
                            !.due = retryAt, !.worker = None, !.lease = None])
ListDeadExportDeliveries(db) == {d \in Deliveries(db) : Delivery(db, d).status = "dead"}
RetryExportDelivery(db, d, now) ==
  ChangeDelivery(db, d, Delivery(db, d).status = "dead",
    [Delivery(db, d) EXCEPT !.status = "queued", !.attempts = 0, !.due = now])
-----------------------------------------------------------------------------
\* A name that is taken is reported as a user not found.
CreateUser(db, u, row) ==
  IF \E e \in Users : Exists(db, "users", e) /\ db.users[e].name = row.name
  THEN Missing(db) ELSE Insert(db, "users", u, row)
GetUser(db, u) == Row(db, "users", u)
GetUserByName(db, name) == {r \in Rows(db, "users") : r[2].name = name}
ListUsers(db) == Rows(db, "users")
UpdateUser(db, u, row) == Replace(db, "users", u, row)
DeleteUser(db, u) ==
  Ok([db EXCEPT !.users[u] = None,
                !.sessions = [s \in Sessions |->
                   IF db.sessions[s] # None /\ db.sessions[s].user = u
                   THEN None ELSE db.sessions[s]]])
CountUsers(db) == Cardinality({u \in Users : Exists(db, "users", u)})

CreateSession(db, s, u, expires) == Insert(db, "sessions", s, [user |-> u, expires |-> expires])
SessionUser(db, s, now) ==
  IF ~Exists(db, "sessions", s) \/ now > db.sessions[s].expires THEN None
  ELSE IF Exists(db, "users", db.sessions[s].user) THEN db.sessions[s].user ELSE None
DeleteSession(db, s) == Insert(db, "sessions", s, None)
DeleteExpiredSessions(db, now) ==
  Ok([db EXCEPT !.sessions = [s \in Sessions |->
        IF db.sessions[s] # None /\ now > db.sessions[s].expires THEN None ELSE db.sessions[s]]])

CreateSensorToken(db, t, h, expires) ==
  IF Exists(db, "hosts", h) THEN Insert(db, "tokens", t, NewToken(h, expires)) ELSE Missing(db)
SensorTokenValid(db, h, t, now) ==
  LET r == db.tokens[t]
  IN Exists(db, "tokens", t) /\ r.host = h /\ ~r.revoked /\ (r.expires = None \/ now < r.expires)
ListSensorTokens(db, h) == {r \in Rows(db, "tokens") : r[2].host = h}

Revoked(db, h, kept) ==
  [db EXCEPT !.tokens = [t \in Tokens |->
     IF db.tokens[t] # None /\ db.tokens[t].host = h /\ t # kept
     THEN [db.tokens[t] EXCEPT !.revoked = TRUE] ELSE db.tokens[t]]]
\* Revoking what is revoked is no error.
RevokeSensorToken(db, h, t) ==
  Change(db, "tokens", t, db.tokens[t].host = h, [db.tokens[t] EXCEPT !.revoked = TRUE])

RevokeOtherSensorTokens(db, h, kept) == Ok(Revoked(db, h, kept))
RevokeSensorTokens(db, h) == Ok(Revoked(db, h, None))
-----------------------------------------------------------------------------
\* The log is in the order of the appends, and keeps the last AuditCap.
AppendAudit(db, e, now) ==
  LET Newer(a, b) == a.id > b.id
  IN Ok([db EXCEPT !.audit = Page(@ \cup {[id |-> e, ts |-> now]}, Newer, AuditCap)])

ListAuditPage(db, before, n) ==
  LET Newer(a, b) == a.id > b.id
      found == {e \in db.audit : ~(/\ before # None
                                   /\ \/ e.ts > before.ts
                                      \/ e.ts = before.ts /\ e.id >= before.id)}
  IN IF n > 0 THEN Page(found, Newer, n) ELSE found

Archived(kind, ids, now) == {[kind |-> kind, id |-> i, at |-> now] : i \in ids}

\* Closed observations, scans, events and the archive, each by its own age; an age of
\* zero keeps everything.
ApplyRetention(db, age, now) ==
  LET old(at, a) == a > 0 /\ at + a < now
      obs == {o \in Obs : Exists(db, "obs", o) /\ db.obs[o].status \in Closed
                          /\ old(db.obs[o].seen, age.obs)}
      scans == {s \in Scans : Exists(db, "scans", s) /\ old(db.scans[s].started, age.scans)}
      events == {e \in db.audit : old(e.ts, age.audit)}
      archive == db.archive \cup Archived("observation", obs, now)
                   \cup Archived("scan", scans, now)
                   \cup Archived("audit", {e.id : e \in events}, now)
  IN Ok([db EXCEPT
       !.obs = [o \in Obs |-> IF o \in obs THEN None ELSE @[o]],
       !.dedup = [h \in Hosts |-> [k \in Keys |-> IF @[h][k] \in obs THEN None ELSE @[h][k]]],
       !.scans = [s \in Scans |-> IF s \in scans THEN None ELSE @[s]],
       !.audit = @ \ events,
       !.archive = {r \in archive : ~old(r.at, age.archive)}])
ListArchive(db, kind) == {r \in db.archive : kind = None \/ r.kind = kind}
-----------------------------------------------------------------------------
CreateResponseAction(db, a, h, u) ==
  IF Exists(db, "hosts", h) THEN Insert(db, "responses", a, NewAction(h, u)) ELSE Missing(db)
GetResponseAction(db, a) == Row(db, "responses", a)
ListResponseActions(db, h, n) ==
  LET of == {a \in Actions : Exists(db, "responses", a) /\ h \in {None, db.responses[a].host}}
      Newer(i, j) == i > j
  IN Page(of, Newer, Clamp(n))

ApproveResponseAction(db, a, u) ==
  LET row == db.responses[a]
  IN IF ~Exists(db, "responses", a) \/ row.status # "pending" THEN Missing(db)
     ELSE IF row.requester = u /\ ~AllowSelfApproval THEN Refused(db)
     ELSE Insert(db, "responses", a, [row EXCEPT !.status = "approved", !.approver = u])
RejectResponseAction(db, a, u) ==
  Change(db, "responses", a, db.responses[a].status = "pending",
    [db.responses[a] EXCEPT !.status = "rejected", !.rejecter = u])

ClaimableActions(db, now) ==
  {a \in Actions : Exists(db, "responses", a) /\
     LET r == db.responses[a]
     IN r.status = "approved" \/ (r.status = "running" /\ r.lease # None /\ ~(r.lease > now))}
NextActions(db, now) == LET Older(i, j) == i < j IN First(ClaimableActions(db, now), Older)
ClaimResponseAction(db, a, w, now) ==
  Change(db, "responses", a, a \in NextActions(db, now),
    [db.responses[a] EXCEPT !.status = "running", !.worker = w, !.lease = now + 1,
                            !.started = IF @ = None THEN now ELSE @])

OwnsAction(db, a, w) == db.responses[a].status = "running" /\ db.responses[a].worker = w
RenewResponseActionLease(db, a, w, until) ==
  Change(db, "responses", a, OwnsAction(db, a, w), [db.responses[a] EXCEPT !.lease = until])
SettledAction(db, a, status) ==
  [db.responses[a] EXCEPT !.status = status, !.worker = None, !.lease = None]
CompleteResponseAction(db, a, w) ==
  Change(db, "responses", a, OwnsAction(db, a, w), SettledAction(db, a, "succeeded"))
FailResponseAction(db, a, w) ==
  Change(db, "responses", a, OwnsAction(db, a, w), SettledAction(db, a, "failed"))
=============================================================================
