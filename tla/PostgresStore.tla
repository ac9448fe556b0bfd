---------------------------- MODULE PostgresStore ----------------------------
(***************************************************************************)
(* store.Postgres over the schema of the migrations.  Every method is one  *)
(* statement or one transaction, so each is one operator; what the schema  *)
(* adds is foreign keys: a row that names a missing row is refused, and a  *)
(* deletion takes what belongs to the row with it.                         *)
(***************************************************************************)
EXTENDS StoreTables

\* A statement that writes a row whose foreign keys must name rows, or be NULL.
Checked(db, refs, answer) ==
  IF answer.out = "ok" /\ \E r \in refs : r[2] # None /\ ~Exists(db, r[1], r[2])
  THEN Broken(db) ELSE answer

\* ON DELETE CASCADE and ON DELETE SET NULL of the schema, applied to what is left when
\* a row has been deleted.
Cascade(db) ==
  LET gone(t, id) == id # None /\ ~Exists(db, t, id)
      hosted(t) == [i \in DOMAIN db[t] |->
        IF db[t][i] # None /\ gone("hosts", db[t][i].host) THEN None ELSE db[t][i]]
      scans == hosted("scans")
      scanned(t) == [i \in DOMAIN t |->
        IF t[i] # None /\ t[i].scan # None /\ scans[t[i].scan] = None
        THEN [t[i] EXCEPT !.scan = None] ELSE t[i]]
      obs == scanned(hosted("obs"))
  IN [db EXCEPT
       !.hosts = [h \in Hosts |->
          LET r == db.hosts[h]
          IN IF r # None /\ gone("creds", r.cred) THEN [r EXCEPT !.cred = None] ELSE r],
       !.members = [c \in Colls |->
          IF gone("colls", c) THEN {} ELSE {h \in db.members[c] : Exists(db, "hosts", h)}],
       !.scheds = [s \in Scheds |->
          LET r == db.scheds[s]
          IN IF r # None /\ (gone("hosts", r.host) \/ gone("colls", r.coll)) THEN None ELSE r],
       !.baselines = hosted("baselines"), !.inventories = hosted("inventories"),
       !.tokens = hosted("tokens"), !.responses = hosted("responses"),
       !.sessions = [s \in Sessions |->
          LET r == db.sessions[s] IN IF r # None /\ gone("users", r.user) THEN None ELSE r],
       !.scans = scans, !.jobs = scanned(hosted("jobs")), !.obs = obs,
       !.outbox = [t \in Targets |->
          LET of == db.outbox[t]
          IN IF gone("exports", t) THEN <<>>
             ELSE [i \in DOMAIN of |->
                     IF of[i] # None /\ obs[of[i].obs] = None THEN None ELSE of[i]]]]

\* DELETE ... WHERE id=$1, with and without a look at the number of rows.
Erase(db, t, id) == Ok(Cascade(Write(db, t, id, None)))
Remove(db, t, id) == IF Exists(db, t, id) THEN Erase(db, t, id) ELSE Missing(db)
-----------------------------------------------------------------------------
CreateHost(db, h, row) == Checked(db, {<<"creds", row.cred>>}, Insert(db, "hosts", h, row))
GetHost(db, h) == Row(db, "hosts", h)
ListHosts(db) == Rows(db, "hosts")
UpdateHost(db, h, row) == Checked(db, {<<"creds", row.cred>>}, Replace(db, "hosts", h, row))

Coalesce(a, b) == IF a # None THEN a ELSE b
SetHostOnline(db, h, os, name) ==
  Replace(db, "hosts", h,
    [db.hosts[h] EXCEPT !.status = "online", !.os = Coalesce(os, @), !.name = Coalesce(@, name)])
SetHostUnreachable(db, h) ==
  Replace(db, "hosts", h, [db.hosts[h] EXCEPT !.status = "unreachable"])
SetHostSSHHostKey(db, h, key) == Replace(db, "hosts", h, [db.hosts[h] EXCEPT !.key = key])
DeleteHost(db, h) == Remove(db, "hosts", h)

CreateCredential(db, c) == Insert(db, "creds", c, "sealed")
GetCredential(db, c) == Row(db, "creds", c)
ListCredentials(db) == Rows(db, "creds")
DeleteCredential(db, c) == Remove(db, "creds", c)

CreateScan(db, s, h, now) == Checked(db, {<<"hosts", h>>}, Insert(db, "scans", s, NewScan(h, now)))
\* The statement leaves host_id, trigger and started_at alone.
UpdateScan(db, s, row) ==
  Replace(db, "scans", s, [db.scans[s] EXCEPT !.status = row.status])
GetScan(db, s) == Row(db, "scans", s)
ListScansByHost(db, h) == {r \in Rows(db, "scans") : r[2].host = h}
-----------------------------------------------------------------------------
\* ON CONFLICT on the partial index of active jobs returns the row there is.
EnqueueScanJob(db, j, h, now) ==
  Checked(db, {<<"hosts", h>>},
    IF \E i \in Jobs : Exists(db, "jobs", i) /\ db.jobs[i].host = h
                       /\ db.jobs[i].status \in {"queued", "running"}
    THEN Ok(db) ELSE Insert(db, "jobs", j, NewJob(h, now)))
GetScanJob(db, j) == Row(db, "jobs", j)
ListScanJobs(db, h, n) ==
  LET of == {j \in Jobs : Exists(db, "jobs", j) /\ (h # None => db.jobs[j].host = h)}
      Newer(i, j) == i > j
  IN Page(of, Newer, Clamp(n))

ClaimableJobs(db, now) ==
  {j \in Jobs : Exists(db, "jobs", j) /\
     LET r == db.jobs[j]
     IN (r.status = "queued" /\ r.due <= now) \/ (r.status = "running" /\ r.lease <= now)}
NextJobs(db, now) ==
  LET Before(i, j) == \/ db.jobs[i].due < db.jobs[j].due
                      \/ db.jobs[i].due = db.jobs[j].due /\ i < j
  IN First(ClaimableJobs(db, now), Before)

\* Mutant of ClaimScanJob: a claim leaves the count of attempts alone.
ClaimUncounted(db, j, w, now) ==
  Change(db, "jobs", j, j \in NextJobs(db, now),
    [db.jobs[j] EXCEPT !.status = "running", !.worker = w, !.lease = now + 1])

ClaimScanJob(db, j, w, now) ==
  Change(db, "jobs", j, j \in NextJobs(db, now),
    [db.jobs[j] EXCEPT !.status = "running", !.worker = w, !.lease = now + 1, !.attempts = @ + 1])

OwnsJob(db, j, w) == db.jobs[j].worker = w /\ db.jobs[j].status = "running"
RenewScanJobLease(db, j, w, until) ==
  Change(db, "jobs", j, OwnsJob(db, j, w), [db.jobs[j] EXCEPT !.lease = until])
CompleteScanJob(db, j, w, s) ==
  Checked(db, {<<"scans", s>>},
    Change(db, "jobs", j, OwnsJob(db, j, w),
      [db.jobs[j] EXCEPT !.status = "succeeded", !.scan = s, !.worker = None, !.lease = None]))
FailScanJob(db, j, w, retryAt, terminal) ==
  Change(db, "jobs", j, OwnsJob(db, j, w),
    [db.jobs[j] EXCEPT !.status = IF terminal THEN "failed" ELSE "queued",
                       !.due = retryAt, !.worker = None, !.lease = None])
-----------------------------------------------------------------------------
\* last_seen < (SELECT max(started_at) ...), which is NULL without such a scan.
Absent(db, seen, h, s) ==
  \E p \in Scans : /\ Exists(db, "scans", p) /\ db.scans[p].host = h
                   /\ db.scans[p].status \in Completed
                   /\ s = None \/ p # s
                   /\ seen < db.scans[p].started

Exported(db, o, now) ==
  [db EXCEPT !.outbox = [t \in Targets |->
     IF Exists(db, "exports", t) /\ db.exports[t].enabled
     THEN Append(db.outbox[t], NewDelivery(o, now)) ELSE db.outbox[t]]]

\* One transaction: the row or its conflict clause, and the deliveries.
UpsertObservation(db, o, h, k, s, now) ==
  LET same == {i \in Obs : Exists(db, "obs", i) /\ db.obs[i].host = h /\ db.obs[i].key = k}
      ex == CHOOSE i \in same : TRUE
      row == db.obs[ex]
      reopens == /\ ReopenAfter > 0 /\ row.status \in Closed
                 /\ row.seen + ReopenAfter <= now
                 /\ Absent(db, row.seen, h, s)
  IN Checked(db, {<<"hosts", h>>, <<"scans", s>>},
       IF same # {}
       THEN Ok(Exported(Write(db, "obs", ex,
              [row EXCEPT !.status = IF reopens THEN "open" ELSE @,
                          !.seen = now, !.count = @ + 1, !.scan = s]), ex, now))
       ELSE Ok(Exported(Write(db, "obs", o, NewFinding(h, k, s, now)), o, now)))

ListObservations(db, f, before, n) ==
  LET found == {o \in Obs : /\ Exists(db, "obs", o)
                            /\ \A c \in DOMAIN f : db.obs[o][c] = f[c]
                            /\ before # None => \/ db.obs[o].seen < before.seen
                                                \/ db.obs[o].seen = before.seen /\ o < before.id}
      Newer(a, b) == \/ db.obs[a].seen > db.obs[b].seen
                     \/ db.obs[a].seen = db.obs[b].seen /\ a > b
  IN IF n > 0 THEN Page(found, Newer, n) ELSE found

GetObservation(db, o) == Row(db, "obs", o)
SetObservationStatus(db, o, status) ==
  Replace(db, "obs", o, [db.obs[o] EXCEPT !.status = status])
SetObservationVerdict(db, o, verdict) ==
  Replace(db, "obs", o, [db.obs[o] EXCEPT !.verdict = verdict])

\* No row is changed when there is none, or when the condition failed; a second
\* statement tells which.
ApplyObservationAction(db, o, action) ==
  LET to == Disposition[action]
      done == Change(db, "obs", o, action # "resolve" \/ db.obs[o].verdict = "true_positive",
                [db.obs[o] EXCEPT !.status = to[1], !.verdict = IF to[2] = "" THEN @ ELSE to[2]])
  IN IF done.out = "not found" /\ Exists(db, "obs", o) THEN Refused(db) ELSE done
-----------------------------------------------------------------------------
CreateExportTarget(db, t, on) == Insert(db, "exports", t, [enabled |-> on])
GetExportTarget(db, t) == Row(db, "exports", t)
ListExportTargets(db) == Rows(db, "exports")
UpdateExportTarget(db, t, on) == Replace(db, "exports", t, [enabled |-> on])
DeleteExportTarget(db, t) == Remove(db, "exports", t)

Deliveries(db) ==
  UNION {{t} \X {i \in DOMAIN db.outbox[t] : db.outbox[t][i] # None} : t \in Targets}
Delivery(db, d) == db.outbox[d[1]][d[2]]
ChangeDelivery(db, d, cond, row) ==
  IF d \in Deliveries(db) /\ cond THEN Ok([db EXCEPT !.outbox[d[1]][d[2]] = row]) ELSE Missing(db)

ClaimableDeliveries(db, now) ==
  {d \in Deliveries(db) :
     LET r == Delivery(db, d)
     IN /\ db.exports[d[1]].enabled
        /\ (r.status = "queued" /\ r.due <= now) \/ (r.status = "delivering" /\ r.lease <= now)}
NextDeliveries(db, now) ==
  LET Before(a, b) == \/ Delivery(db, a).due < Delivery(db, b).due
                      \/ /\ Delivery(db, a).due = Delivery(db, b).due
                         /\ Delivery(db, a).made < Delivery(db, b).made
  IN First(ClaimableDeliveries(db, now), Before)
ClaimExportDelivery(db, d, w, now) ==
  ChangeDelivery(db, d, d \in NextDeliveries(db, now),
    [Delivery(db, d) EXCEPT !.status = "delivering", !.worker = w, !.lease = now + 1,
                            !.attempts = @ + 1])

OwnsDelivery(db, d, w) == Delivery(db, d).worker = w /\ Delivery(db, d).status = "delivering"
RenewExportDeliveryLease(db, d, w, until) ==
  ChangeDelivery(db, d, OwnsDelivery(db, d, w), [Delivery(db, d) EXCEPT !.lease = until])
CompleteExportDelivery(db, d, w) ==
  ChangeDelivery(db, d, OwnsDelivery(db, d, w),
    [Delivery(db, d) EXCEPT !.status = "sent", !.worker = None, !.lease = None])
FailExportDelivery(db, d, w, retryAt, terminal) ==
  ChangeDelivery(db, d, OwnsDelivery(db, d, w),
    [Delivery(db, d) EXCEPT !.status = IF terminal THEN "dead" ELSE "queued",
                            !.due = retryAt, !.worker = None, !.lease = None])
ListDeadExportDeliveries(db) == {d \in Deliveries(db) : Delivery(db, d).status = "dead"}
RetryExportDelivery(db, d, now) ==
  ChangeDelivery(db, d, Delivery(db, d).status = "dead",
    [Delivery(db, d) EXCEPT !.status = "queued", !.attempts = 0, !.due = now])
-----------------------------------------------------------------------------
UpsertRule(db, r, row) == Insert(db, "rules", r, row)
ListRules(db) == Rows(db, "rules")
GetRule(db, r) == Row(db, "rules", r)
DeleteRule(db, r) == Delete(db, "rules", r)
SetRuleEnabled(db, r, on) == Replace(db, "rules", r, [db.rules[r] EXCEPT !.enabled = on])

GetBaseline(db, h) == Row(db, "baselines", h)
SaveBaseline(db, h, digest) ==
  Checked(db, {<<"hosts", h>>}, Insert(db, "baselines", h, [host |-> h, data |-> digest]))
DeleteBaseline(db, h) == Insert(db, "baselines", h, None)
ListBaselines(db) == Rows(db, "baselines")
SaveInventory(db, h, items) ==
  Checked(db, {<<"hosts", h>>}, Insert(db, "inventories", h, [host |-> h, data |-> items]))
ListInventories(db) == Rows(db, "inventories")

SchedRefs(row) == {<<"hosts", row.host>>, <<"colls", row.coll>>}
CreateSchedule(db, s, row) == Checked(db, SchedRefs(row), Insert(db, "scheds", s, row))
GetSchedule(db, s) == Row(db, "scheds", s)
ListSchedules(db) == Rows(db, "scheds")
UpdateSchedule(db, s, row) == Checked(db, SchedRefs(row), Replace(db, "scheds", s, row))
DeleteSchedule(db, s) == Insert(db, "scheds", s, None)

CreateCollection(db, c, row) == Insert(db, "colls", c, row)
GetCollection(db, c) == Row(db, "colls", c)
ListCollections(db) == Rows(db, "colls")
UpdateCollection(db, c, row) == Replace(db, "colls", c, row)
DeleteCollection(db, c) == Erase(db, "colls", c)
AddCollectionMember(db, c, h) ==
  Checked(db, {<<"colls", c>>, <<"hosts", h>>}, Ok([db EXCEPT !.members[c] = @ \cup {h}]))
RemoveCollectionMember(db, c, h) == Ok([db EXCEPT !.members[c] = @ \ {h}])
\* tags @> match, or the join with the members.
CollectionHosts(db, c) ==
  IF ~Exists(db, "colls", c) THEN None
  ELSE {h \in Hosts : /\ Exists(db, "hosts", h)
                      /\ IF db.colls[c].dynamic THEN db.colls[c].match \subseteq db.hosts[h].tags
                                                ELSE h \in db.members[c]}
-----------------------------------------------------------------------------
\* username is UNIQUE.
CreateUser(db, u, row) ==
  IF \E e \in Users : Exists(db, "users", e) /\ db.users[e].name = row.name
  THEN Broken(db) ELSE Insert(db, "users", u, row)
GetUser(db, u) == Row(db, "users", u)
GetUserByName(db, name) == {r \in Rows(db, "users") : r[2].name = name}
ListUsers(db) == Rows(db, "users")
\* The number of rows is not looked at.
UpdateUser(db, u, row) == IF Exists(db, "users", u) THEN Insert(db, "users", u, row) ELSE Ok(db)
DeleteUser(db, u) == Erase(db, "users", u)
CountUsers(db) == Cardinality({u \in Users : Exists(db, "users", u)})

CreateSession(db, s, u, expires) ==
  Checked(db, {<<"users", u>>}, Insert(db, "sessions", s, [user |-> u, expires |-> expires]))
SessionUser(db, s, now) ==
  IF Exists(db, "sessions", s) /\ db.sessions[s].expires > now THEN db.sessions[s].user ELSE None
DeleteSession(db, s) == Insert(db, "sessions", s, None)
DeleteExpiredSessions(db, now) ==
  Ok([db EXCEPT !.sessions = [s \in Sessions |->
        IF db.sessions[s] # None /\ db.sessions[s].expires < now THEN None ELSE db.sessions[s]]])

CreateSensorToken(db, t, h, expires) ==
  Checked(db, {<<"hosts", h>>}, Insert(db, "tokens", t, NewToken(h, expires)))
\* Mutant of SensorTokenValid: a token is valid at the instant of its expiry.
TokenValidAtExpiry(db, h, t, now) ==
  \E r \in {db.tokens[t]} \ {None} :
    r.host = h /\ ~r.revoked /\ (r.expires = None \/ r.expires >= now)
SensorTokenValid(db, h, t, now) ==
  \E r \in {db.tokens[t]} \ {None} :
    r.host = h /\ ~r.revoked /\ (r.expires = None \/ r.expires > now)
ListSensorTokens(db, h) == {r \in Rows(db, "tokens") : r[2].host = h}

\* UPDATE sensor_tokens SET revoked_at=now() WHERE ... AND revoked_at IS NULL.
Revoke(db, h, which) ==
  [db EXCEPT !.tokens = [t \in Tokens |->
     IF @[t] # None /\ ~@[t].revoked /\ @[t].host = h /\ t \in which THEN [@[t] EXCEPT !.revoked = TRUE] ELSE @[t]]]
RevokeSensorToken(db, h, t) ==
  Change(db, "tokens", t, db.tokens[t].host = h /\ ~db.tokens[t].revoked,
    [db.tokens[t] EXCEPT !.revoked = TRUE])
RevokeOtherSensorTokens(db, h, kept) == Ok(Revoke(db, h, Tokens \ {kept}))
RevokeSensorTokens(db, h) == Ok(Revoke(db, h, Tokens))
-----------------------------------------------------------------------------
AppendAudit(db, e, now) == Ok([db EXCEPT !.audit = @ \cup {[id |-> e, ts |-> now]}])
\* At most MaxLimit rows, where the API asks for one more than it shows.
ListAuditPage(db, before, n) ==
  LET Newer(a, b) == a.ts > b.ts \/ (a.ts = b.ts /\ a.id > b.id)
      found == {e \in db.audit : before # None => Newer(before, e)}
  IN Page(found, Newer, AuditLimit(n))

\* One transaction of DELETE ... RETURNING into the archive, each at its own cutoff.
ApplyRetention(db, age, now) ==
  LET before(at, a) == a > 0 /\ at < now - a
      obs == {o \in Obs : Exists(db, "obs", o) /\ before(db.obs[o].seen, age.obs)
                          /\ db.obs[o].status \in Closed}
      scans == {s \in Scans : Exists(db, "scans", s) /\ before(db.scans[s].started, age.scans)}
      events == {e \in db.audit : before(e.ts, age.audit)}
      moved(kind, ids) == {[kind |-> kind, id |-> i, at |-> now] : i \in ids}
      archive == UNION {db.archive, moved("observation", obs), moved("scan", scans),
                        moved("audit", {e.id : e \in events})}
  IN Ok(Cascade([db EXCEPT
       !.obs = [o \in Obs |-> IF o \in obs THEN None ELSE @[o]],
       !.scans = [s \in Scans |-> IF s \in scans THEN None ELSE @[s]],
       !.audit = @ \ events,
       !.archive = {r \in archive : ~before(r.at, age.archive)}]))
ListArchive(db, kind) == {r \in db.archive : kind # None => r.kind = kind}
-----------------------------------------------------------------------------
CreateResponseAction(db, a, h, u) ==
  Checked(db, {<<"hosts", h>>}, Insert(db, "responses", a, NewAction(h, u)))
GetResponseAction(db, a) == Row(db, "responses", a)
ListResponseActions(db, h, n) ==
  LET of == {a \in Actions : Exists(db, "responses", a) /\ (h # None => db.responses[a].host = h)}
      Newer(i, j) == i > j
  IN Page(of, Newer, Clamp(n))

\* Mutant of ApproveResponseAction: the second statement does not ask for the status.
ApproveTold(db, a, u) ==
  LET row == db.responses[a]
      done == Change(db, "responses", a,
                row.status = "pending" /\ (AllowSelfApproval \/ row.requester # u),
                [row EXCEPT !.status = "approved", !.approver = u])
  IN IF done.out = "not found" /\ Exists(db, "responses", a) /\ row.requester = u
     THEN Refused(db) ELSE done

\* The second statement only tells why no row was changed.
ApproveResponseAction(db, a, u) ==
  LET row == db.responses[a]
      done == Change(db, "responses", a,
                row.status = "pending" /\ (AllowSelfApproval \/ row.requester # u),
                [row EXCEPT !.status = "approved", !.approver = u])
  IN IF /\ done.out = "not found" /\ Exists(db, "responses", a)
        /\ row.status = "pending" /\ row.requester = u
     THEN Refused(db) ELSE done
RejectResponseAction(db, a, u) ==
  Change(db, "responses", a, db.responses[a].status = "pending",
    [db.responses[a] EXCEPT !.status = "rejected", !.rejecter = u])

ClaimableActions(db, now) ==
  {a \in Actions : Exists(db, "responses", a) /\
     LET r == db.responses[a] IN r.status = "approved" \/ (r.status = "running" /\ r.lease <= now)}
NextActions(db, now) == LET Before(i, j) == i < j IN First(ClaimableActions(db, now), Before)
ClaimResponseAction(db, a, w, now) ==
  Change(db, "responses", a, a \in NextActions(db, now),
    [db.responses[a] EXCEPT !.status = "running", !.worker = w, !.lease = now + 1,
                            !.started = Coalesce(@, now)])

OwnsAction(db, a, w) == db.responses[a].worker = w /\ db.responses[a].status = "running"
RenewResponseActionLease(db, a, w, until) ==
  Change(db, "responses", a, OwnsAction(db, a, w), [db.responses[a] EXCEPT !.lease = until])
CompleteResponseAction(db, a, w) ==
  Change(db, "responses", a, OwnsAction(db, a, w),
    [db.responses[a] EXCEPT !.status = "succeeded", !.worker = None, !.lease = None])
FailResponseAction(db, a, w) ==
  Change(db, "responses", a, OwnsAction(db, a, w),
    [db.responses[a] EXCEPT !.status = "failed", !.worker = None, !.lease = None])
=============================================================================
