--------------------------- MODULE StoreMethodsProofs ---------------------------
(***************************************************************************)
(* Proofs that the two stores agree, first part: what it means that a      *)
(* Memory and a Postgres have had the same calls, and that a method which  *)
(* is called of both keeps it so and answers alike, for any sizes of their *)
(* tables and any numbers of rows.  Here are the methods of hosts,         *)
(* credentials, collections, schedules, rules, baselines, accounts, sensor *)
(* tokens, scans, jobs, response actions and exports.                      *)
(***************************************************************************)
EXTENDS StoreContract, FiniteSetTheorems, WellFoundedInduction, SequenceTheorems, TLAPS

-------------------------------------------------------------------------------
(* What the two stores share                                                 *)

\* The type of a store: what Postgres holds, and Memory as well.
AuditRow == [id : Nat, ts : Nat]
ArchiveRow == [kind : {"observation", "scan", "audit"}, id : Nat, at : Nat]
Store ==
  [hosts : [Hosts -> OrNone(HostRow)],         creds : [Creds -> OrNone({"sealed"})],
   colls : [Colls -> OrNone(CollRow)],         members : [Colls -> SUBSET Hosts],
   scheds : [Scheds -> OrNone(SchedRow)],      rules : [Rules -> OrNone(RuleRow)],
   baselines : [Hosts -> OrNone(HostRecord)],  inventories : [Hosts -> OrNone(HostRecord)],
   users : [Users -> OrNone(UserRow)],         sessions : [Sessions -> OrNone(SessionRow)],
   tokens : [Tokens -> OrNone(TokenRow)],      scans : [Scans -> OrNone(ScanRow)],
   obs : [Obs -> OrNone(FindingRow)],          exports : [Targets -> OrNone(TargetRow)],
   outbox : [Targets -> Seq(OrNone(DeliveryRow))],
   jobs : [Jobs -> OrNone(JobRow)],            responses : [Actions -> OrNone(ActionRow)],
   audit : SUBSET AuditRow,                    archive : SUBSET ArchiveRow,
   dedup : [Hosts -> [Keys -> OrNone(Obs)]]]

\* A row as the foreign keys leave it, when rows of its parent tables are gone: the row
\* of a host, of a scan, with a credential, of a schedule, of an account, of a finding.
Gone(T, id) == id # None /\ ~(T[id] # None)
HostedRow(r, H) == IF r # None /\ Gone(H, r.host) THEN None ELSE r
ScannedRow(r, S) ==
  IF r # None /\ r.scan # None /\ S[r.scan] = None THEN [r EXCEPT !.scan = None] ELSE r
UnlinkedRow(r, C) == IF r # None /\ Gone(C, r.cred) THEN [r EXCEPT !.cred = None] ELSE r
ScheduledRow(r, H, C) == IF r # None /\ (Gone(H, r.host) \/ Gone(C, r.coll)) THEN None ELSE r
SignedInRow(r, U) == IF r # None /\ Gone(U, r.user) THEN None ELSE r
DeliveredRow(r, O) == IF r # None /\ O[r.obs] = None THEN None ELSE r
\* The due time of a job that has failed for good is Postgres's alone.
Undated(r) == IF r # None /\ r.status = "failed" THEN [r EXCEPT !.due = None] ELSE r

\* Tables of Postgres, second, that are those of Memory, first, but for what the parent
\* tables H, C, S, U, O that follow make of their rows.
HostedAgree(T, Q, D, H) == \A i \in D : Q[i] = HostedRow(T[i], H)
HostsAgree(T, Q, C) == \A h \in Hosts : Q[h] = UnlinkedRow(T[h], C)
MembersAgree(T, Q, C, H) ==
  \A c \in Colls : Q[c] = IF Gone(C, c) THEN {} ELSE {h \in T[c] : H[h] # None}
SchedsAgree(T, Q, H, C) == \A s \in Scheds : Q[s] = ScheduledRow(T[s], H, C)
SessionsAgree(T, Q, U) == \A s \in Sessions : Q[s] = SignedInRow(T[s], U)
FindingsAgree(T, Q, H, S) == \A o \in Obs : Q[o] = ScannedRow(HostedRow(T[o], H), S)
JobsAgree(T, Q, H, S) ==
  \A j \in Jobs : Undated(Q[j]) = Undated(ScannedRow(HostedRow(T[j], H), S))
QueueAgrees(T, Q, O) ==
  /\ DOMAIN Q = DOMAIN T
  /\ \A i \in DOMAIN T : Q[i] = DeliveredRow(T[i], O)
OutboxAgrees(T, Q, O) == \A t \in Targets : QueueAgrees(T[t], Q[t], O)

Newer(a, b) == a.id > b.id

\* What the two stores hold is the same.
Same(m, p) ==
  /\ p.creds = m.creds /\ p.colls = m.colls /\ p.rules = m.rules
  /\ p.users = m.users /\ p.exports = m.exports /\ p.archive = m.archive
  /\ HostsAgree(m.hosts, p.hosts, m.creds)
  /\ MembersAgree(m.members, p.members, m.colls, m.hosts)
  /\ SchedsAgree(m.scheds, p.scheds, m.hosts, m.colls)
  /\ HostedAgree(m.baselines, p.baselines, Hosts, m.hosts)
  /\ HostedAgree(m.inventories, p.inventories, Hosts, m.hosts)
  /\ SessionsAgree(m.sessions, p.sessions, m.users)
  /\ HostedAgree(m.tokens, p.tokens, Tokens, m.hosts)
  /\ HostedAgree(m.scans, p.scans, Scans, m.hosts)
  /\ FindingsAgree(m.obs, p.obs, m.hosts, p.scans)
  /\ OutboxAgrees(m.outbox, p.outbox, p.obs)
  /\ JobsAgree(m.jobs, p.jobs, m.hosts, p.scans)
  /\ HostedAgree(m.responses, p.responses, Actions, m.hosts)
  /\ m.audit = Page(p.audit, Newer, AuditCap)

\* Memory's rows name rows that have been drawn.
OfHosts(T, d) == \A i \in DOMAIN T : T[i] # None => T[i].host <= d.hosts
OfScans(T, d) == \A i \in DOMAIN T : T[i] # None /\ T[i].scan # None => T[i].scan <= d.scans
HostRefs(T, d) == \A h \in Hosts : T[h] # None /\ T[h].cred # None => T[h].cred <= d.creds
MemberRefs(T, d) == \A c \in Colls : \A h \in T[c] : h <= d.hosts
ScheduleRefs(T, d) == \A s \in Scheds : T[s] # None =>
                     /\ T[s].host # None => T[s].host <= d.hosts
                     /\ T[s].coll # None => T[s].coll <= d.colls
SessionRefs(T, d) == \A s \in Sessions : T[s] # None => T[s].user <= d.users
OutboxRefs(T, d) == \A t \in Targets : \A i \in DOMAIN T[t] : T[t][i] # None => T[t][i].obs <= d.obs
\* Rows have the identities that have been drawn, and records are those of their hosts.
Numbered(T, n) == \A i \in DOMAIN T : T[i] # None => i <= n
OwnRecords(T) == \A h \in Hosts : T[h] # None => T[h].host = h
Refs(m, d) ==
  /\ HostRefs(m.hosts, d) /\ MemberRefs(m.members, d)
  /\ ScheduleRefs(m.scheds, d) /\ SessionRefs(m.sessions, d) /\ OutboxRefs(m.outbox, d)
  /\ OfHosts(m.baselines, d) /\ OfHosts(m.inventories, d) /\ OfHosts(m.tokens, d)
  /\ OfHosts(m.scans, d) /\ OfHosts(m.obs, d) /\ OfHosts(m.jobs, d) /\ OfHosts(m.responses, d)
  /\ OfScans(m.obs, d) /\ OfScans(m.jobs, d)
  /\ Numbered(m.colls, d.colls) /\ Numbered(m.obs, d.obs) /\ Numbered(m.scans, d.scans)
  /\ Numbered(m.scheds, d.scheds) /\ Numbered(m.sessions, d.sessions)
  /\ OwnRecords(m.baselines) /\ OwnRecords(m.inventories)

\* The index of Memory finds the finding of a host and a key.
Indexed(obs, dedup) ==
  /\ \A h \in Hosts, k \in Keys : dedup[h][k] # None =>
       LET o == dedup[h][k] IN obs[o] # None /\ obs[o].host = h /\ obs[o].key = k
  /\ \A o \in Obs : obs[o] # None => dedup[obs[o].host][obs[o].key] = o

\* Deliveries go with their target.
Addressed(m) == \A t \in Targets : m.exports[t] = None => m.outbox[t] = <<>>

\* Postgres's log is written in the order of its identities and times.
LogInOrder(S, d, n) ==
  /\ IsFiniteSet(S)
  /\ \A e \in S : e.id \in 1..d.audit /\ e.ts <= n
  /\ \A e, f \in S : (e.id = f.id => e = f) /\ (e.id < f.id => e.ts <= f.ts)

Past(scans, n) == \A s \in Scans : scans[s] # None => scans[s].started <= n

\* What the methods of a group never do.
GroupHolds(m, p, d) ==
  /\ group # "exports" => \A t \in Targets : m.exports[t] = None
  /\ group = "retention" =>
       /\ \A h \in Hosts : h <= d.hosts => m.hosts[h] # None
       /\ m.audit = p.audit /\ d.audit <= AuditCap

HeldByLease(r) == r # None /\ r.status \in {"running", "delivering"} => r.lease # None
DueAtTime(r) == r # None /\ r.status = "queued" => r.due # None
Leased(m) ==
  /\ \A j \in Jobs : HeldByLease(m.jobs[j]) /\ DueAtTime(m.jobs[j])
  /\ \A a \in Actions : HeldByLease(m.responses[a])
  /\ \A t \in Targets : \A i \in DOMAIN m.outbox[t] : HeldByLease(m.outbox[t][i])

\* The two stores hold the same, and what keeps them so.
Meets(m, p, d, n) ==
  /\ m \in Store /\ p \in Store /\ Same(m, p)
  /\ Refs(m, d) /\ Indexed(m.obs, m.dedup) /\ Addressed(m) /\ Leased(m)
  /\ LogInOrder(p.audit, d, n) /\ Past(m.scans, n) /\ GroupHolds(m, p, d)

\* The identities that have been drawn are identities.
Numbers == {"hosts", "creds", "colls", "scheds", "users", "sessions", "tokens", "scans", "obs",
            "exports", "jobs", "responses"}
Drawn ==
  /\ drawn \in [DOMAIN Empty -> Nat]
  /\ \A t \in Numbers : 1..drawn[t] \subseteq DOMAIN Empty[t]

IInv ==
  /\ group \in Groups /\ now \in Nat /\ Drawn
  /\ Meets(mem, pg, drawn, now)
  /\ AnswersAgree

\* The answers to a call, and the stores that they leave: gone says that the call names a
\* row which Postgres does not have.
Agreed(a, b, d, n, gone) ==
  /\ Meets(a.db, b.db, d, n)
  /\ a.out = b.out \/ (gone /\ b.out # "ok")

-------------------------------------------------------------------------------
(* NULL                                                                      *)

\* NULL is no identity, and no row.
LEMMA NoneIsNothing ==
  /\ None \notin Nat /\ None \notin Names /\ None \notin Workers
  /\ None \notin Hosts /\ None \notin Creds /\ None \notin Colls /\ None \notin Users
  /\ None \notin Tokens /\ None \notin Scans /\ None \notin Obs /\ None \notin Targets
  /\ None \notin HostRow /\ None \notin CollRow /\ None \notin SchedRow /\ None \notin HostRecord
  /\ None \notin RuleRow /\ None \notin UserRow /\ None \notin SessionRow /\ None \notin TokenRow
  /\ None \notin ScanRow /\ None \notin FindingRow /\ None \notin TargetRow
  /\ None \notin DeliveryRow /\ None \notin JobRow /\ None \notin ActionRow
<1>1. /\ None \notin Nat \cup Names \cup Workers
      /\ None \notin HostRow \cup CollRow \cup SchedRow \cup HostRecord \cup RuleRow \cup UserRow
            \cup SessionRow \cup TokenRow \cup ScanRow \cup FindingRow \cup TargetRow
            \cup DeliveryRow \cup JobRow \cup ActionRow
  BY StoreAssumption
<1>2. \A S \in {Hosts, Creds, Colls, Scheds, Users, Sessions, Tokens, Scans, Obs, Targets, Jobs,
                Actions, Events} : S \subseteq Nat
  BY StoreAssumption
<1>3. QED
  BY <1>1, <1>2

-------------------------------------------------------------------------------
(* The foreign keys                                                          *)

\* What Cascade makes of the tables that have foreign keys.
HostedTable(db, t) == [i \in DOMAIN db[t] |-> HostedRow(db[t][i], db["hosts"])]
ScannedTable(db, t) ==
  [i \in DOMAIN HostedTable(db, t) |-> ScannedRow(HostedTable(db, t)[i], HostedTable(db, "scans"))]
HostTable(db) == [h \in Hosts |-> UnlinkedRow(db.hosts[h], db["creds"])]
MemberTable(db) ==
  [c \in Colls |->
     IF Gone(db["colls"], c) THEN {} ELSE {h \in db.members[c] : db["hosts"][h] # None}]
SchedTable(db) == [s \in Scheds |-> ScheduledRow(db.scheds[s], db["hosts"], db["colls"])]
SessionTable(db) == [s \in Sessions |-> SignedInRow(db.sessions[s], db["users"])]
OutboxTable(db) ==
  [t \in Targets |->
     IF Gone(db["exports"], t) THEN <<>>
     ELSE [i \in DOMAIN db.outbox[t] |-> DeliveredRow(db.outbox[t][i], ScannedTable(db, "obs"))]]

Kept(db, hosts, members, scheds, baselines, inventories, tokens, responses, sessions, scans,
     jobs, obs, outbox) ==
  [db EXCEPT !.hosts = hosts, !.members = members, !.scheds = scheds,
             !.baselines = baselines, !.inventories = inventories, !.tokens = tokens,
             !.responses = responses, !.sessions = sessions, !.scans = scans, !.jobs = jobs,
             !.obs = obs, !.outbox = outbox]

\* Cascade replaces those tables.
LEMMA CascadeIsKept ==
  ASSUME NEW db
  PROVE  P!Cascade(db) =
           Kept(db, HostTable(db), MemberTable(db), SchedTable(db), HostedTable(db, "baselines"),
                HostedTable(db, "inventories"), HostedTable(db, "tokens"),
                HostedTable(db, "responses"), SessionTable(db), HostedTable(db, "scans"),
                ScannedTable(db, "jobs"), ScannedTable(db, "obs"), OutboxTable(db))
BY DEF P!Cascade, P!Exists, Kept, HostTable, MemberTable, SchedTable, HostedTable, SessionTable,
       ScannedTable, OutboxTable, HostedRow, ScannedRow, UnlinkedRow, ScheduledRow, SignedInRow,
       DeliveredRow, Gone

\* The rows that are left are rows.
LEMMA CascadeTyped ==
  ASSUME NEW db \in Store
  PROVE  /\ HostTable(db) \in [Hosts -> OrNone(HostRow)]
         /\ MemberTable(db) \in [Colls -> SUBSET Hosts]
         /\ SchedTable(db) \in [Scheds -> OrNone(SchedRow)]
         /\ HostedTable(db, "baselines") \in [Hosts -> OrNone(HostRecord)]
         /\ HostedTable(db, "inventories") \in [Hosts -> OrNone(HostRecord)]
         /\ HostedTable(db, "tokens") \in [Tokens -> OrNone(TokenRow)]
         /\ HostedTable(db, "responses") \in [Actions -> OrNone(ActionRow)]
         /\ SessionTable(db) \in [Sessions -> OrNone(SessionRow)]
         /\ HostedTable(db, "scans") \in [Scans -> OrNone(ScanRow)]
         /\ ScannedTable(db, "jobs") \in [Jobs -> OrNone(JobRow)]
         /\ ScannedTable(db, "obs") \in [Obs -> OrNone(FindingRow)]
         /\ OutboxTable(db) \in [Targets -> Seq(OrNone(DeliveryRow))]
<1>1. HostTable(db) \in [Hosts -> OrNone(HostRow)]
  <2>1. \A r \in OrNone(HostRow) : UnlinkedRow(r, db.creds) \in OrNone(HostRow)
    BY DEF UnlinkedRow, OrNone, HostRow
  <2>2. QED
    BY <2>1 DEF HostTable, Store
<1>2. MemberTable(db) \in [Colls -> SUBSET Hosts]
  BY DEF MemberTable, Store
<1>3. SchedTable(db) \in [Scheds -> OrNone(SchedRow)]
  BY DEF SchedTable, ScheduledRow, OrNone, Store
<1>4. HostedTable(db, "baselines") \in [Hosts -> OrNone(HostRecord)]
  BY DEF HostedTable, HostedRow, OrNone, Store
<1>5. HostedTable(db, "inventories") \in [Hosts -> OrNone(HostRecord)]
  BY DEF HostedTable, HostedRow, OrNone, Store
<1>6. HostedTable(db, "tokens") \in [Tokens -> OrNone(TokenRow)]
  BY DEF HostedTable, HostedRow, OrNone, Store
<1>7. HostedTable(db, "responses") \in [Actions -> OrNone(ActionRow)]
  BY DEF HostedTable, HostedRow, OrNone, Store
<1>8. SessionTable(db) \in [Sessions -> OrNone(SessionRow)]
  BY DEF SessionTable, SignedInRow, OrNone, Store
<1>9. HostedTable(db, "scans") \in [Scans -> OrNone(ScanRow)]
  BY DEF HostedTable, HostedRow, OrNone, Store
<1>10. HostedTable(db, "jobs") \in [Jobs -> OrNone(JobRow)]
  BY DEF HostedTable, HostedRow, OrNone, Store
<1>11. HostedTable(db, "obs") \in [Obs -> OrNone(FindingRow)]
  BY DEF HostedTable, HostedRow, OrNone, Store
<1>12. ScannedTable(db, "jobs") \in [Jobs -> OrNone(JobRow)]
  BY <1>10 DEF ScannedTable, ScannedRow, OrNone, JobRow
<1>13. ScannedTable(db, "obs") \in [Obs -> OrNone(FindingRow)]
  BY <1>11 DEF ScannedTable, ScannedRow, OrNone, FindingRow
<1>14. OutboxTable(db) \in [Targets -> Seq(OrNone(DeliveryRow))]
  <2> DEFINE obs == ScannedTable(db, "obs")
             left(of) == [i \in DOMAIN of |-> DeliveredRow(of[i], obs)]
  <2>1. ASSUME NEW of \in Seq(OrNone(DeliveryRow)) PROVE left(of) \in Seq(OrNone(DeliveryRow))
    <3>1. DOMAIN left(of) = 1..Len(of) /\ Len(of) \in Nat
      OBVIOUS
    <3>2. \A i \in 1..Len(of) : left(of)[i] \in OrNone(DeliveryRow)
      BY DEF DeliveredRow, OrNone
    <3>3. QED
      BY <3>1, <3>2, SeqDef
  <2>2. <<>> \in Seq(OrNone(DeliveryRow))
    OBVIOUS
  <2>3. \A t \in Targets : db.outbox[t] \in Seq(OrNone(DeliveryRow))
    BY DEF Store
  <2> HIDE DEF obs
  <2>4. \A t \in Targets : left(db.outbox[t]) \in Seq(OrNone(DeliveryRow))
    BY <2>1, <2>3
  <2>5. OutboxTable(db) =
          [t \in Targets |-> IF Gone(db.exports, t) THEN <<>> ELSE left(db.outbox[t])]
    BY DEF OutboxTable, obs
  <2> HIDE DEF left
  <2>6. QED
    BY <2>2, <2>4, <2>5
<1>15. QED
  BY <1>1, <1>2, <1>3, <1>4, <1>5, <1>6, <1>7, <1>8, <1>9, <1>12, <1>13, <1>14

\* What the foreign keys leave of a store.
LEMMA CascadeTables ==
  ASSUME NEW db \in Store
  PROVE  LET c == P!Cascade(db)
         IN /\ c \in Store
            /\ c.hosts = HostTable(db) /\ c.members = MemberTable(db) /\ c.scheds = SchedTable(db)
            /\ c.baselines = HostedTable(db, "baselines")
            /\ c.inventories = HostedTable(db, "inventories")
            /\ c.tokens = HostedTable(db, "tokens") /\ c.responses = HostedTable(db, "responses")
            /\ c.sessions = SessionTable(db) /\ c.scans = HostedTable(db, "scans")
            /\ c.jobs = ScannedTable(db, "jobs") /\ c.obs = ScannedTable(db, "obs")
            /\ c.outbox = OutboxTable(db)
            /\ c.creds = db.creds /\ c.colls = db.colls /\ c.rules = db.rules
            /\ c.users = db.users /\ c.exports = db.exports /\ c.archive = db.archive
            /\ c.audit = db.audit /\ c.dedup = db.dedup
<1> DEFINE hosts == HostTable(db)
           members == MemberTable(db)
           scheds == SchedTable(db)
           baselines == HostedTable(db, "baselines")
           inventories == HostedTable(db, "inventories")
           tokens == HostedTable(db, "tokens")
           responses == HostedTable(db, "responses")
           sessions == SessionTable(db)
           scans == HostedTable(db, "scans")
           jobs == ScannedTable(db, "jobs")
           obs == ScannedTable(db, "obs")
           outbox == OutboxTable(db)
           c == Kept(db, hosts, members, scheds, baselines, inventories, tokens, responses,
                     sessions, scans, jobs, obs, outbox)
<1>1. P!Cascade(db) = c
  BY CascadeIsKept
<1>2. /\ hosts \in [Hosts -> OrNone(HostRow)] /\ members \in [Colls -> SUBSET Hosts]
      /\ scheds \in [Scheds -> OrNone(SchedRow)]
      /\ baselines \in [Hosts -> OrNone(HostRecord)]
      /\ inventories \in [Hosts -> OrNone(HostRecord)]
      /\ tokens \in [Tokens -> OrNone(TokenRow)] /\ responses \in [Actions -> OrNone(ActionRow)]
      /\ sessions \in [Sessions -> OrNone(SessionRow)] /\ scans \in [Scans -> OrNone(ScanRow)]
      /\ jobs \in [Jobs -> OrNone(JobRow)] /\ obs \in [Obs -> OrNone(FindingRow)]
      /\ outbox \in [Targets -> Seq(OrNone(DeliveryRow))]
  BY CascadeTyped
<1> HIDE DEF hosts, members, scheds, baselines, inventories, tokens, responses, sessions, scans,
             jobs, obs, outbox
<1>3. /\ c \in Store
      /\ c.hosts = hosts /\ c.members = members /\ c.scheds = scheds
      /\ c.baselines = baselines /\ c.inventories = inventories /\ c.tokens = tokens
      /\ c.responses = responses /\ c.sessions = sessions /\ c.scans = scans
      /\ c.jobs = jobs /\ c.obs = obs /\ c.outbox = outbox
      /\ c.creds = db.creds /\ c.colls = db.colls /\ c.rules = db.rules
      /\ c.users = db.users /\ c.exports = db.exports /\ c.archive = db.archive
      /\ c.audit = db.audit /\ c.dedup = db.dedup
  BY <1>2 DEF Kept, Store
<1> HIDE DEF c
<1>4. QED
  BY <1>1, <1>3 DEF hosts, members, scheds, baselines, inventories, tokens, responses, sessions,
                    scans, jobs, obs, outbox

\* A sequence without positions is empty.
LEMMA NoPositions ==
  ASSUME NEW R, NEW s \in Seq(R), DOMAIN s = {}
  PROVE  s = <<>>
<1>1. DOMAIN s = 1..Len(s) /\ Len(s) \in Nat
  OBVIOUS
<1>2. Len(s) = 0
  <2> SUFFICES ASSUME Len(s) # 0 PROVE FALSE
    OBVIOUS
  <2>1. 1 \in 1..Len(s)
    BY <1>1
  <2>2. QED
    BY <1>1, <2>1
<1>3. QED
  BY <1>2, EmptySeq

\* What clients see of a store, as a record.
SeenOf(db, jobs) ==
  [hosts |-> db.hosts, creds |-> db.creds, colls |-> db.colls, members |-> db.members,
   scheds |-> db.scheds, rules |-> db.rules, baselines |-> db.baselines,
   inventories |-> db.inventories, users |-> db.users, sessions |-> db.sessions,
   tokens |-> db.tokens, scans |-> db.scans, obs |-> db.obs, exports |-> db.exports,
   outbox |-> db.outbox, jobs |-> jobs, responses |-> db.responses, audit |-> db.audit,
   archive |-> db.archive, dedup |-> None]

\* Clients see the same of two stores with the same tables, but for the index and the
\* due times that they do not see.
LEMMA SameSeen ==
  ASSUME NEW a \in Store, NEW b \in Store,
         a.hosts = b.hosts, a.creds = b.creds, a.colls = b.colls, a.members = b.members,
         a.scheds = b.scheds, a.rules = b.rules, a.baselines = b.baselines,
         a.inventories = b.inventories, a.users = b.users, a.sessions = b.sessions,
         a.tokens = b.tokens, a.scans = b.scans, a.obs = b.obs, a.exports = b.exports,
         a.outbox = b.outbox, a.responses = b.responses, a.archive = b.archive,
         a.audit = b.audit, \A j \in Jobs : Undated(a.jobs[j]) = Undated(b.jobs[j])
  PROVE  Seen(a) = Seen(b)
<1>1. ASSUME NEW db \in Store
      PROVE  Seen(db) = SeenOf(db, [j \in Jobs |-> Undated(db.jobs[j])])
  <2> DEFINE jobs == [j \in Jobs |-> Undated(db.jobs[j])]
  <2>1. Seen(db) = [db EXCEPT !.dedup = None, !.jobs = jobs]
    BY <1>1 DEF Seen, Undated, Store
  <2> HIDE DEF jobs
  <2>2. [db EXCEPT !.dedup = None, !.jobs = jobs] = SeenOf(db, jobs)
    <3>1. db = [hosts |-> db.hosts, creds |-> db.creds, colls |-> db.colls, members |-> db.members,
                scheds |-> db.scheds, rules |-> db.rules, baselines |-> db.baselines,
                inventories |-> db.inventories, users |-> db.users, sessions |-> db.sessions,
                tokens |-> db.tokens, scans |-> db.scans, obs |-> db.obs, exports |-> db.exports,
                outbox |-> db.outbox, jobs |-> db.jobs, responses |-> db.responses,
                audit |-> db.audit, archive |-> db.archive, dedup |-> db.dedup]
      BY <1>1 DEF Store
    <3> DEFINE x == [db EXCEPT !.dedup = None, !.jobs = jobs]
               y == SeenOf(db, jobs)
    <3>2. DOMAIN x = DOMAIN y
      BY <3>1 DEF SeenOf
    <3>3. /\ x.hosts = y.hosts /\ x.creds = y.creds /\ x.colls = y.colls /\ x.members = y.members
          /\ x.scheds = y.scheds /\ x.rules = y.rules
          /\ x.baselines = y.baselines /\ x.inventories = y.inventories
          /\ x.users = y.users /\ x.sessions = y.sessions /\ x.tokens = y.tokens /\ x.scans = y.scans
          /\ x.obs = y.obs /\ x.exports = y.exports /\ x.outbox = y.outbox /\ x.jobs = y.jobs
          /\ x.responses = y.responses /\ x.audit = y.audit /\ x.archive = y.archive /\ x.dedup = y.dedup
      BY <1>1 DEF SeenOf, Store
    <3>d. DOMAIN y = {"hosts", "creds", "colls", "members", "scheds", "rules", "baselines",
                   "inventories", "users", "sessions", "tokens", "scans",
                   "obs", "exports", "outbox", "jobs", "responses", "audit", "archive", "dedup"}
      BY DEF SeenOf
    <3>4. x = [t \in DOMAIN x |-> x[t]] /\ y = [t \in DOMAIN y |-> y[t]]
      BY <3>1 DEF SeenOf
    <3> HIDE DEF x, y
    <3>5. x = y
      BY <3>2, <3>3, <3>4, <3>d
    <3>6. QED
      BY <3>5 DEF x, y
  <2>3. QED
    BY <2>1, <2>2 DEF jobs
<1>2. [j \in Jobs |-> Undated(a.jobs[j])] = [j \in Jobs |-> Undated(b.jobs[j])]
  OBVIOUS
<1>3. SeenOf(a, [j \in Jobs |-> Undated(a.jobs[j])]) = SeenOf(b, [j \in Jobs |-> Undated(b.jobs[j])])
  BY <1>2 DEF SeenOf
<1>4. QED
  BY <1>1, <1>3

\* What the foreign keys leave of the store of Memory is what Postgres holds, but for the
\* log, the index and the due times of jobs that have failed for good.
LEMMA CascadeIsPostgres ==
  ASSUME NEW m \in Store, NEW p \in Store, Same(m, p), Addressed(m)
  PROVE  LET c == P!Cascade(m)
         IN /\ c \in Store
            /\ p.hosts = c.hosts /\ p.creds = c.creds /\ p.colls = c.colls
            /\ p.members = c.members /\ p.scheds = c.scheds /\ p.rules = c.rules
            /\ p.baselines = c.baselines /\ p.inventories = c.inventories
            /\ p.users = c.users /\ p.sessions = c.sessions /\ p.tokens = c.tokens
            /\ p.scans = c.scans /\ p.obs = c.obs /\ p.exports = c.exports
            /\ p.outbox = c.outbox /\ p.responses = c.responses /\ p.archive = c.archive
            /\ c.audit = m.audit
            /\ \A j \in Jobs : Undated(c.jobs[j]) = Undated(p.jobs[j])
<1> DEFINE c == P!Cascade(m)
<1>2. c \in Store
  BY CascadeTables
<1>c. /\ c.hosts = HostTable(m) /\ c.members = MemberTable(m) /\ c.scheds = SchedTable(m)
      /\ c.baselines = HostedTable(m, "baselines")
      /\ c.inventories = HostedTable(m, "inventories")
      /\ c.tokens = HostedTable(m, "tokens") /\ c.responses = HostedTable(m, "responses")
      /\ c.sessions = SessionTable(m) /\ c.scans = HostedTable(m, "scans")
      /\ c.jobs = ScannedTable(m, "jobs") /\ c.obs = ScannedTable(m, "obs")
      /\ c.outbox = OutboxTable(m)
  BY CascadeTables
<1>s. /\ HostsAgree(m.hosts, p.hosts, m.creds)
      /\ MembersAgree(m.members, p.members, m.colls, m.hosts)
      /\ SchedsAgree(m.scheds, p.scheds, m.hosts, m.colls)
      /\ HostedAgree(m.baselines, p.baselines, Hosts, m.hosts)
      /\ HostedAgree(m.inventories, p.inventories, Hosts, m.hosts)
      /\ SessionsAgree(m.sessions, p.sessions, m.users)
      /\ HostedAgree(m.tokens, p.tokens, Tokens, m.hosts)
      /\ HostedAgree(m.scans, p.scans, Scans, m.hosts)
      /\ FindingsAgree(m.obs, p.obs, m.hosts, p.scans)
      /\ OutboxAgrees(m.outbox, p.outbox, p.obs)
      /\ JobsAgree(m.jobs, p.jobs, m.hosts, p.scans)
      /\ HostedAgree(m.responses, p.responses, Actions, m.hosts)
  BY DEF Same
<1> HIDE DEF c
<1>5. p.hosts = c.hosts
  BY <1>c, <1>s DEF HostsAgree, HostTable, Store
<1>6. p.members = c.members
  BY <1>c, <1>s DEF MembersAgree, MemberTable, Store
<1>7. p.scheds = c.scheds
  BY <1>c, <1>s DEF SchedsAgree, SchedTable, Store
<1>8. /\ p.baselines = c.baselines /\ p.inventories = c.inventories
  BY <1>c, <1>s DEF HostedAgree, HostedTable, Store
<1>9. /\ p.tokens = c.tokens /\ p.responses = c.responses
  BY <1>c, <1>s DEF HostedAgree, HostedTable, Store
<1>10. p.scans = c.scans
  BY <1>c, <1>s DEF HostedAgree, HostedTable, Store
<1>11. p.sessions = c.sessions
  BY <1>c, <1>s DEF SessionsAgree, SessionTable, Store
<1>12. p.obs = c.obs
  <2>1. c.obs = [o \in Obs |-> ScannedRow(HostedRow(m.obs[o], m.hosts), c.scans)]
    BY <1>c DEF ScannedTable, HostedTable, Store
  <2>2. QED
    BY <2>1, <1>10, <1>s DEF FindingsAgree, Store
<1>13. \A j \in Jobs : Undated(c.jobs[j]) = Undated(p.jobs[j])
  <2>1. c.jobs = [j \in Jobs |-> ScannedRow(HostedRow(m.jobs[j], m.hosts), c.scans)]
    BY <1>c DEF ScannedTable, HostedTable, Store
  <2>2. QED
    BY <2>1, <1>10, <1>s DEF JobsAgree
<1>14. p.outbox = c.outbox
  <2>1. \A t \in Targets : c.outbox[t] = p.outbox[t]
    <3> SUFFICES ASSUME NEW t \in Targets PROVE c.outbox[t] = p.outbox[t]
      OBVIOUS
    <3>1. m.outbox[t] \in Seq(OrNone(DeliveryRow)) /\ p.outbox[t] \in Seq(OrNone(DeliveryRow))
      BY DEF Store
    <3>2. CASE m.exports[t] = None
      <4>1. m.outbox[t] = <<>> /\ DOMAIN p.outbox[t] = DOMAIN m.outbox[t]
        BY <3>2, <1>s DEF Addressed, OutboxAgrees, QueueAgrees
      <4>2. c.outbox[t] = <<>>
        BY <3>2, <1>c, NoneIsNothing DEF OutboxTable, Gone
      <4>3. QED
        <5>1. DOMAIN p.outbox[t] = {}
          BY <4>1
        <5>2. QED
          BY <3>1, <4>2, <5>1, NoPositions
    <3>3. CASE m.exports[t] # None
      <4>1. c.outbox[t] = [i \in DOMAIN m.outbox[t] |-> DeliveredRow(m.outbox[t][i], p.obs)]
        BY <3>3, <1>c, <1>12 DEF OutboxTable, Gone
      <4>2. QED
        BY <3>1, <4>1, <1>s DEF OutboxAgrees, QueueAgrees
    <3>4. QED
      BY <3>2, <3>3
  <2>2. /\ p.outbox \in [Targets -> Seq(OrNone(DeliveryRow))]
        /\ c.outbox \in [Targets -> Seq(OrNone(DeliveryRow))]
    BY <1>2 DEF Store
  <2>3. QED
    BY <2>1, <2>2
<1>15. /\ c.creds = p.creds /\ c.colls = p.colls /\ c.rules = p.rules /\ c.users = p.users
       /\ c.exports = p.exports /\ c.archive = p.archive /\ c.audit = m.audit
  BY CascadeTables DEF Same, c
<1>16. QED
  BY <1>2, <1>5, <1>6, <1>7, <1>8, <1>9, <1>10, <1>11, <1>12, <1>13, <1>14, <1>15 DEF c

\* The tables agree, and so what clients see of them.
LEMMA SameMeansAgreement ==
  ASSUME mem \in Store, pg \in Store, Same(mem, pg), Addressed(mem)
  PROVE  StateAgrees
<1> DEFINE c == P!Cascade(mem)
           log == Page(pg.audit, Newer, AuditCap)
           p == [pg EXCEPT !.audit = log]
<1>1. StateAgrees <=> Seen(c) = Seen(p)
  BY DEF StateAgrees, Page, Newer
<1>3. log = mem.audit /\ log \in SUBSET AuditRow
  BY DEF Same, Store
<1>4. /\ p \in Store /\ p.audit = log
      /\ p.hosts = pg.hosts /\ p.creds = pg.creds /\ p.colls = pg.colls
      /\ p.members = pg.members /\ p.scheds = pg.scheds /\ p.rules = pg.rules
      /\ p.baselines = pg.baselines /\ p.inventories = pg.inventories /\ p.users = pg.users
      /\ p.sessions = pg.sessions /\ p.tokens = pg.tokens /\ p.scans = pg.scans
      /\ p.obs = pg.obs /\ p.exports = pg.exports /\ p.outbox = pg.outbox
      /\ p.responses = pg.responses /\ p.archive = pg.archive /\ p.jobs = pg.jobs
  <2> HIDE DEF log
  <2>1. QED
    BY <1>3 DEF Store
<1> HIDE DEF p, log
<1>5. /\ c \in Store
      /\ pg.hosts = c.hosts /\ pg.creds = c.creds /\ pg.colls = c.colls
      /\ pg.members = c.members /\ pg.scheds = c.scheds /\ pg.rules = c.rules
      /\ pg.baselines = c.baselines /\ pg.inventories = c.inventories
      /\ pg.users = c.users /\ pg.sessions = c.sessions /\ pg.tokens = c.tokens
      /\ pg.scans = c.scans /\ pg.obs = c.obs /\ pg.exports = c.exports
      /\ pg.outbox = c.outbox /\ pg.responses = c.responses /\ pg.archive = c.archive
      /\ c.audit = log /\ \A j \in Jobs : Undated(c.jobs[j]) = Undated(pg.jobs[j])
  BY <1>3, CascadeIsPostgres
<1> HIDE DEF c
<1>6. QED
  BY <1>1, <1>4, <1>5, SameSeen DEF c

\* Jobs are alike, but for their due times when they have failed for good, when their
\* columns are.
LEMMA UndatedRows ==
  ASSUME NEW q \in OrNone(JobRow), NEW s \in OrNone(JobRow)
  PROVE  Undated(q) = Undated(s) <=>
           \/ q = None /\ s = None
           \/ /\ q # None /\ s # None
              /\ q.host = s.host /\ q.status = s.status /\ q.attempts = s.attempts
              /\ q.worker = s.worker /\ q.lease = s.lease /\ q.scan = s.scan
              /\ q.status # "failed" => q.due = s.due
<1>1. ASSUME NEW r \in JobRow
      PROVE  /\ r # None /\ Undated(r) \in JobRow /\ Undated(r) # None
             /\ Undated(r).host = r.host /\ Undated(r).status = r.status
             /\ Undated(r).attempts = r.attempts /\ Undated(r).worker = r.worker
             /\ Undated(r).lease = r.lease /\ Undated(r).scan = r.scan
             /\ Undated(r).due = IF r.status = "failed" THEN None ELSE r.due
  BY <1>1, NoneIsNothing DEF Undated, JobRow, OrNone
<1>2. ASSUME NEW a \in JobRow, NEW b \in JobRow,
             a.host = b.host, a.status = b.status, a.attempts = b.attempts, a.worker = b.worker,
             a.lease = b.lease, a.scan = b.scan, a.due = b.due
      PROVE  a = b
  BY <1>2 DEF JobRow
<1>3. Undated(None) = None
  BY DEF Undated
<1>4. CASE q = None \/ s = None
  BY <1>1, <1>3, <1>4 DEF OrNone
<1>5. CASE q # None /\ s # None
  <2>1. q \in JobRow /\ s \in JobRow
    BY <1>5 DEF OrNone
  <2>2. ASSUME Undated(q) = Undated(s)
        PROVE  /\ q.host = s.host /\ q.status = s.status /\ q.attempts = s.attempts
               /\ q.worker = s.worker /\ q.lease = s.lease /\ q.scan = s.scan
               /\ q.status # "failed" => q.due = s.due
    BY <1>1, <2>1, <2>2
  <2>3. ASSUME q.host = s.host, q.status = s.status, q.attempts = s.attempts,
               q.worker = s.worker, q.lease = s.lease, q.scan = s.scan,
               q.status # "failed" => q.due = s.due
        PROVE  Undated(q) = Undated(s)
    <3> DEFINE a == Undated(q)
               b == Undated(s)
    <3>1. /\ a \in JobRow /\ b \in JobRow
          /\ a.host = b.host /\ a.status = b.status /\ a.attempts = b.attempts
          /\ a.worker = b.worker /\ a.lease = b.lease /\ a.scan = b.scan /\ a.due = b.due
      BY <1>1, <2>1, <2>3
    <3> HIDE DEF a, b
    <3>2. a = b
      BY <1>2, <3>1
    <3>3. QED
      BY <3>2 DEF a, b
  <2>4. QED
    BY <1>5, <2>2, <2>3
<1>6. QED
  BY <1>4, <1>5

\* What the deletion of scans leaves of a job.
LEMMA ScannedJob ==
  ASSUME NEW r \in OrNone(JobRow), NEW S
  PROVE  LET s == ScannedRow(r, S)
         IN /\ s \in OrNone(JobRow) /\ (s = None <=> r = None)
            /\ r # None => /\ s.host = r.host /\ s.status = r.status /\ s.attempts = r.attempts
                           /\ s.worker = r.worker /\ s.lease = r.lease /\ s.due = r.due
                           /\ s.scan = IF r.scan # None /\ S[r.scan] = None THEN None ELSE r.scan
<1>1. CASE r = None
  BY <1>1 DEF ScannedRow, OrNone
<1>2. CASE r # None
  <2>1. r \in JobRow
    BY <1>2 DEF OrNone
  <2>2. ScannedRow(r, S) \in JobRow
    BY <2>1 DEF ScannedRow, JobRow, OrNone
  <2>3. QED
    BY <1>2, <2>1, <2>2, NoneIsNothing DEF ScannedRow, JobRow, OrNone
<1>3. QED
  BY <1>1, <1>2

-------------------------------------------------------------------------------
(* Writes of one table                                                       *)
(*                                                                           *)
(* Each lemma says what must be known of the table of Memory (X) and of      *)
(* Postgres (Y) that a method leaves, for the stores to go on agreeing: that *)
(* the two agree, and that the tables which depend on it do.                 *)

\* The rules.
LEMMA RulesWritten ==
  ASSUME NEW m, NEW p, NEW d, NEW n, Meets(m, p, d, n),
         NEW X \in [Rules -> OrNone(RuleRow)]
  PROVE  Meets([m EXCEPT !.rules = X], [p EXCEPT !.rules = X], d, n)
BY DEF Meets, Same, Refs, Addressed, Leased, GroupHolds, Store

\* The credentials, which hosts name.
LEMMA CredsWritten ==
  ASSUME NEW m, NEW p, NEW d, NEW n, Meets(m, p, d, n),
         NEW X \in [Creds -> OrNone({"sealed"})],
         HostsAgree(m.hosts, p.hosts, X)
  PROVE  Meets([m EXCEPT !.creds = X], [p EXCEPT !.creds = X], d, n)
BY DEF Meets, Same, Refs, Addressed, Leased, GroupHolds, Store

\* The accounts, which sessions name.
LEMMA UsersWritten ==
  ASSUME NEW m, NEW p, NEW d, NEW n, Meets(m, p, d, n),
         NEW X \in [Users -> OrNone(UserRow)],
         SessionsAgree(m.sessions, p.sessions, X)
  PROVE  Meets([m EXCEPT !.users = X], [p EXCEPT !.users = X], d, n)
BY DEF Meets, Same, Refs, Addressed, Leased, GroupHolds, Store

\* The collections, which members and schedules name.
LEMMA CollsWritten ==
  ASSUME NEW m, NEW p, NEW d, NEW n, Meets(m, p, d, n),
         NEW X \in [Colls -> OrNone(CollRow)],
         MembersAgree(m.members, p.members, X, m.hosts),
         SchedsAgree(m.scheds, p.scheds, m.hosts, X),
         Numbered(X, d.colls)
  PROVE  Meets([m EXCEPT !.colls = X], [p EXCEPT !.colls = X], d, n)
BY DEF Meets, Same, Refs, Addressed, Leased, GroupHolds, Store

\* The targets, which have deliveries.
LEMMA ExportsWritten ==
  ASSUME NEW m, NEW p, NEW d, NEW n, Meets(m, p, d, n),
         NEW X \in [Targets -> OrNone(TargetRow)],
         \A t \in Targets : X[t] = None => m.outbox[t] = <<>>,
         group = "exports"
  PROVE  Meets([m EXCEPT !.exports = X], [p EXCEPT !.exports = X], d, n)
BY DEF Meets, Same, Refs, Addressed, Leased, GroupHolds, Store

\* The members of the collections.
LEMMA MembersWritten ==
  ASSUME NEW m, NEW p, NEW d, NEW n, Meets(m, p, d, n),
         NEW X \in [Colls -> SUBSET Hosts], NEW Y \in [Colls -> SUBSET Hosts],
         MembersAgree(X, Y, m.colls, m.hosts),
         MemberRefs(X, d)
  PROVE  Meets([m EXCEPT !.members = X], [p EXCEPT !.members = Y], d, n)
BY DEF Meets, Same, Refs, Addressed, Leased, GroupHolds, Store

\* The schedules.
LEMMA SchedsWritten ==
  ASSUME NEW m, NEW p, NEW d, NEW n, Meets(m, p, d, n),
         NEW X \in [Scheds -> OrNone(SchedRow)], NEW Y \in [Scheds -> OrNone(SchedRow)],
         SchedsAgree(X, Y, m.hosts, m.colls),
         ScheduleRefs(X, d),
         Numbered(X, d.scheds)
  PROVE  Meets([m EXCEPT !.scheds = X], [p EXCEPT !.scheds = Y], d, n)
BY DEF Meets, Same, Refs, Addressed, Leased, GroupHolds, Store

\* The baselines.
LEMMA BaselinesWritten ==
  ASSUME NEW m, NEW p, NEW d, NEW n, Meets(m, p, d, n),
         NEW X \in [Hosts -> OrNone(HostRecord)], NEW Y \in [Hosts -> OrNone(HostRecord)],
         HostedAgree(X, Y, Hosts, m.hosts),
         OfHosts(X, d),
         OwnRecords(X)
  PROVE  Meets([m EXCEPT !.baselines = X], [p EXCEPT !.baselines = Y], d, n)
BY DEF Meets, Same, Refs, Addressed, Leased, GroupHolds, Store

\* The inventories.
LEMMA InventoriesWritten ==
  ASSUME NEW m, NEW p, NEW d, NEW n, Meets(m, p, d, n),
         NEW X \in [Hosts -> OrNone(HostRecord)], NEW Y \in [Hosts -> OrNone(HostRecord)],
         HostedAgree(X, Y, Hosts, m.hosts),
         OfHosts(X, d),
         OwnRecords(X)
  PROVE  Meets([m EXCEPT !.inventories = X], [p EXCEPT !.inventories = Y], d, n)
BY DEF Meets, Same, Refs, Addressed, Leased, GroupHolds, Store

\* The sessions.
LEMMA SessionsWritten ==
  ASSUME NEW m, NEW p, NEW d, NEW n, Meets(m, p, d, n),
         NEW X \in [Sessions -> OrNone(SessionRow)], NEW Y \in [Sessions -> OrNone(SessionRow)],
         SessionsAgree(X, Y, m.users),
         SessionRefs(X, d),
         Numbered(X, d.sessions)
  PROVE  Meets([m EXCEPT !.sessions = X], [p EXCEPT !.sessions = Y], d, n)
BY DEF Meets, Same, Refs, Addressed, Leased, GroupHolds, Store

\* The tokens of sensors.
LEMMA TokensWritten ==
  ASSUME NEW m, NEW p, NEW d, NEW n, Meets(m, p, d, n),
         NEW X \in [Tokens -> OrNone(TokenRow)], NEW Y \in [Tokens -> OrNone(TokenRow)],
         HostedAgree(X, Y, Tokens, m.hosts),
         OfHosts(X, d)
  PROVE  Meets([m EXCEPT !.tokens = X], [p EXCEPT !.tokens = Y], d, n)
BY DEF Meets, Same, Refs, Addressed, Leased, GroupHolds, Store

\* The response actions.
LEMMA ResponsesWritten ==
  ASSUME NEW m, NEW p, NEW d, NEW n, Meets(m, p, d, n),
         NEW X \in [Actions -> OrNone(ActionRow)], NEW Y \in [Actions -> OrNone(ActionRow)],
         HostedAgree(X, Y, Actions, m.hosts),
         OfHosts(X, d),
         \A a \in Actions : HeldByLease(X[a])
  PROVE  Meets([m EXCEPT !.responses = X], [p EXCEPT !.responses = Y], d, n)
BY DEF Meets, Same, Refs, Addressed, Leased, GroupHolds, Store

\* The scan jobs.
LEMMA JobsWritten ==
  ASSUME NEW m, NEW p, NEW d, NEW n, Meets(m, p, d, n),
         NEW X \in [Jobs -> OrNone(JobRow)], NEW Y \in [Jobs -> OrNone(JobRow)],
         JobsAgree(X, Y, m.hosts, p.scans),
         OfHosts(X, d),
         OfScans(X, d),
         \A j \in Jobs : HeldByLease(X[j]) /\ DueAtTime(X[j])
  PROVE  Meets([m EXCEPT !.jobs = X], [p EXCEPT !.jobs = Y], d, n)
BY DEF Meets, Same, Refs, Addressed, Leased, GroupHolds, Store

\* The scans, which findings and jobs name.
LEMMA ScansWritten ==
  ASSUME NEW m, NEW p, NEW d, NEW n, Meets(m, p, d, n),
         NEW X \in [Scans -> OrNone(ScanRow)], NEW Y \in [Scans -> OrNone(ScanRow)],
         HostedAgree(X, Y, Scans, m.hosts),
         FindingsAgree(m.obs, p.obs, m.hosts, Y),
         JobsAgree(m.jobs, p.jobs, m.hosts, Y),
         OfHosts(X, d),
         Numbered(X, d.scans),
         Past(X, n)
  PROVE  Meets([m EXCEPT !.scans = X], [p EXCEPT !.scans = Y], d, n)
BY DEF Meets, Same, Refs, Addressed, Leased, GroupHolds, Store

\* The findings, which deliveries name and Memory indexes.
LEMMA ObsWritten ==
  ASSUME NEW m, NEW p, NEW d, NEW n, Meets(m, p, d, n),
         NEW X \in [Obs -> OrNone(FindingRow)], NEW Y \in [Obs -> OrNone(FindingRow)],
         FindingsAgree(X, Y, m.hosts, p.scans),
         OutboxAgrees(m.outbox, p.outbox, Y),
         OfHosts(X, d),
         OfScans(X, d),
         Numbered(X, d.obs),
         Indexed(X, m.dedup)
  PROVE  Meets([m EXCEPT !.obs = X], [p EXCEPT !.obs = Y], d, n)
BY DEF Meets, Same, Refs, Addressed, Leased, GroupHolds, Store


\* A new finding, which Memory indexes.
LEMMA ObsIndexed ==
  ASSUME NEW m, NEW p, NEW d, NEW n, Meets(m, p, d, n),
         NEW X \in [Obs -> OrNone(FindingRow)], NEW Y \in [Obs -> OrNone(FindingRow)],
         NEW Z \in [Hosts -> [Keys -> OrNone(Obs)]],
         FindingsAgree(X, Y, m.hosts, p.scans),
         OutboxAgrees(m.outbox, p.outbox, Y),
         OfHosts(X, d), OfScans(X, d), Numbered(X, d.obs), Indexed(X, Z)
  PROVE  Meets([m EXCEPT !.obs = X, !.dedup = Z], [p EXCEPT !.obs = Y], d, n)
BY DEF Meets, Same, Refs, Addressed, Leased, GroupHolds, Store

\* The deliveries.
LEMMA OutboxWritten ==
  ASSUME NEW m, NEW p, NEW d, NEW n, Meets(m, p, d, n),
         NEW X \in [Targets -> Seq(OrNone(DeliveryRow))], NEW Y \in [Targets -> Seq(OrNone(DeliveryRow))],
         OutboxAgrees(X, Y, p.obs),
         OutboxRefs(X, d),
         \A t \in Targets : m.exports[t] = None => X[t] = <<>>,
         \A t \in Targets : \A i \in DOMAIN X[t] : HeldByLease(X[t][i])
  PROVE  Meets([m EXCEPT !.outbox = X], [p EXCEPT !.outbox = Y], d, n)
BY DEF Meets, Same, Refs, Addressed, Leased, GroupHolds, Store

\* The hosts, which most other tables name.
LEMMA HostsRewritten ==
  ASSUME NEW m, NEW p, NEW d, NEW n, Meets(m, p, d, n),
         NEW X \in [Hosts -> OrNone(HostRow)], NEW Y \in [Hosts -> OrNone(HostRow)],
         HostsAgree(X, Y, m.creds),
         HostRefs(X, d),
         MembersAgree(m.members, p.members, m.colls, X),
         SchedsAgree(m.scheds, p.scheds, X, m.colls),
         HostedAgree(m.baselines, p.baselines, Hosts, X),
         HostedAgree(m.inventories, p.inventories, Hosts, X),
         HostedAgree(m.tokens, p.tokens, Tokens, X),
         HostedAgree(m.scans, p.scans, Scans, X),
         FindingsAgree(m.obs, p.obs, X, p.scans),
         JobsAgree(m.jobs, p.jobs, X, p.scans),
         HostedAgree(m.responses, p.responses, Actions, X),
         \A h \in Hosts : h <= d.hosts /\ m.hosts[h] # None => X[h] # None
  PROVE  Meets([m EXCEPT !.hosts = X], [p EXCEPT !.hosts = Y], d, n)
BY DEF Meets, Same, Refs, Addressed, Leased, GroupHolds, Store

\* A host that comes, or whose row is written, while the rows that name hosts name the
\* same hosts that there are.
LEMMA HostsWritten ==
  ASSUME NEW m, NEW p, NEW d, NEW n, Meets(m, p, d, n),
         NEW X \in [Hosts -> OrNone(HostRow)], NEW Y \in [Hosts -> OrNone(HostRow)],
         HostsAgree(X, Y, m.creds), HostRefs(X, d),
         \A h \in Hosts : h <= d.hosts => (X[h] = None <=> m.hosts[h] = None)
  PROVE  Meets([m EXCEPT !.hosts = X], [p EXCEPT !.hosts = Y], d, n)
<1> DEFINE H == m.hosts
<1>1. ASSUME NEW r, r # None => r.host \in Hosts /\ r.host <= d.hosts
      PROVE  HostedRow(r, X) = HostedRow(r, H)
  BY <1>1 DEF HostedRow, Gone
<1>2. MembersAgree(m.members, p.members, m.colls, X)
  BY DEF Meets, Same, MembersAgree, Refs, MemberRefs, Store
<1>3. SchedsAgree(m.scheds, p.scheds, X, m.colls)
  <2>1. SchedsAgree(m.scheds, p.scheds, H, m.colls) /\ ScheduleRefs(m.scheds, d)
        /\ m.scheds \in [Scheds -> OrNone(SchedRow)]
    BY DEF Meets, Same, Refs, Store
  <2>2. QED
    BY <2>1 DEF SchedsAgree, ScheduleRefs, ScheduledRow, Gone, OrNone, SchedRow
<1>4. HostedAgree(m.baselines, p.baselines, Hosts, X)
  <2>1. HostedAgree(m.baselines, p.baselines, Hosts, H) /\ OfHosts(m.baselines, d)
        /\ m.baselines \in [Hosts -> OrNone(HostRecord)]
    BY DEF Meets, Same, Refs, Store
  <2>2. QED
    BY <2>1, <1>1 DEF HostedAgree, OfHosts, OrNone, HostRecord
<1>5. HostedAgree(m.inventories, p.inventories, Hosts, X)
  <2>1. HostedAgree(m.inventories, p.inventories, Hosts, H) /\ OfHosts(m.inventories, d)
        /\ m.inventories \in [Hosts -> OrNone(HostRecord)]
    BY DEF Meets, Same, Refs, Store
  <2>2. QED
    BY <2>1, <1>1 DEF HostedAgree, OfHosts, OrNone, HostRecord
<1>6. HostedAgree(m.tokens, p.tokens, Tokens, X)
  <2>1. HostedAgree(m.tokens, p.tokens, Tokens, H) /\ OfHosts(m.tokens, d)
        /\ m.tokens \in [Tokens -> OrNone(TokenRow)]
    BY DEF Meets, Same, Refs, Store
  <2>2. QED
    BY <2>1, <1>1 DEF HostedAgree, OfHosts, OrNone, TokenRow
<1>7. HostedAgree(m.scans, p.scans, Scans, X)
  <2>1. HostedAgree(m.scans, p.scans, Scans, H) /\ OfHosts(m.scans, d)
        /\ m.scans \in [Scans -> OrNone(ScanRow)]
    BY DEF Meets, Same, Refs, Store
  <2>2. QED
    BY <2>1, <1>1 DEF HostedAgree, OfHosts, OrNone, ScanRow
<1>8. HostedAgree(m.responses, p.responses, Actions, X)
  <2>1. HostedAgree(m.responses, p.responses, Actions, H) /\ OfHosts(m.responses, d)
        /\ m.responses \in [Actions -> OrNone(ActionRow)]
    BY DEF Meets, Same, Refs, Store
  <2>2. QED
    BY <2>1, <1>1 DEF HostedAgree, OfHosts, OrNone, ActionRow
<1>9. FindingsAgree(m.obs, p.obs, X, p.scans)
  <2>1. FindingsAgree(m.obs, p.obs, H, p.scans) /\ OfHosts(m.obs, d)
        /\ m.obs \in [Obs -> OrNone(FindingRow)]
    BY DEF Meets, Same, Refs, Store
  <2>2. QED
    BY <2>1, <1>1 DEF FindingsAgree, OfHosts, OrNone, FindingRow
<1>10. JobsAgree(m.jobs, p.jobs, X, p.scans)
  <2>1. JobsAgree(m.jobs, p.jobs, H, p.scans) /\ OfHosts(m.jobs, d)
        /\ m.jobs \in [Jobs -> OrNone(JobRow)]
    BY DEF Meets, Same, Refs, Store
  <2>2. QED
    BY <2>1, <1>1 DEF JobsAgree, OfHosts, OrNone, JobRow
<1>11. QED
  BY <1>2, <1>3, <1>4, <1>5, <1>6, <1>7, <1>8, <1>9, <1>10, HostsRewritten

-------------------------------------------------------------------------------
(* Deletions                                                                 *)

\* Rows have been removed from m and p alike; H, C, L, U, S and O are tables of parents
\* before the removal, with which the tables of the two agree.
Removed(m, p, H, C, L, U, S, O) ==
  /\ m \in Store /\ p \in Store
  /\ p.creds = m.creds /\ p.colls = m.colls /\ p.rules = m.rules /\ p.users = m.users
  /\ p.exports = m.exports /\ p.archive = m.archive /\ m.audit = Page(p.audit, Newer, AuditCap)
  /\ \A h \in Hosts : H[h] = None => m.hosts[h] = None
  /\ \A c \in Creds : C[c] = None => m.creds[c] = None
  /\ \A c \in Colls : L[c] = None => m.colls[c] = None
  /\ \A u \in Users : U[u] = None => m.users[u] = None
  /\ \A s \in Scans : S[s] = None => p.scans[s] = None
  /\ \A o \in Obs : O[o] = None => p.obs[o] = None
  /\ HostsAgree(m.hosts, p.hosts, C) /\ MembersAgree(m.members, p.members, L, H)
  /\ SchedsAgree(m.scheds, p.scheds, H, L) /\ HostedAgree(m.baselines, p.baselines, Hosts, H)
  /\ HostedAgree(m.inventories, p.inventories, Hosts, H)
  /\ SessionsAgree(m.sessions, p.sessions, U) /\ HostedAgree(m.tokens, p.tokens, Tokens, H)
  /\ HostedAgree(m.scans, p.scans, Scans, H) /\ HostedAgree(m.responses, p.responses, Actions, H)
  /\ FindingsAgree(m.obs, p.obs, H, S) /\ JobsAgree(m.jobs, p.jobs, H, S)
  /\ \A t \in Targets : m.exports[t] # None => QueueAgrees(m.outbox[t], p.outbox[t], O)
  /\ Addressed(m)

\* Once the foreign keys have been applied to p, it agrees with m.
LEMMA CascadeMeets ==
  ASSUME NEW m, NEW p, NEW H, NEW C, NEW L, NEW U, NEW S, NEW O, Removed(m, p, H, C, L, U, S, O)
  PROVE  /\ P!Cascade(p) \in Store /\ Same(m, P!Cascade(p))
         /\ P!Cascade(p).audit = p.audit
<1> DEFINE c == P!Cascade(p)
<1>0. m \in Store /\ p \in Store
  BY DEF Removed
<1>h. /\ p.creds = m.creds /\ p.colls = m.colls /\ p.rules = m.rules /\ p.users = m.users
      /\ p.exports = m.exports /\ p.archive = m.archive /\ m.audit = Page(p.audit, Newer, AuditCap)
      /\ \A h \in Hosts : H[h] = None => m.hosts[h] = None
      /\ \A x \in Creds : C[x] = None => m.creds[x] = None
      /\ \A x \in Colls : L[x] = None => m.colls[x] = None
      /\ \A u \in Users : U[u] = None => m.users[u] = None
      /\ \A s \in Scans : S[s] = None => p.scans[s] = None
      /\ \A o \in Obs : O[o] = None => p.obs[o] = None
      /\ HostsAgree(m.hosts, p.hosts, C) /\ MembersAgree(m.members, p.members, L, H)
      /\ SchedsAgree(m.scheds, p.scheds, H, L) /\ HostedAgree(m.baselines, p.baselines, Hosts, H)
      /\ HostedAgree(m.inventories, p.inventories, Hosts, H)
      /\ SessionsAgree(m.sessions, p.sessions, U) /\ HostedAgree(m.tokens, p.tokens, Tokens, H)
      /\ HostedAgree(m.scans, p.scans, Scans, H) /\ HostedAgree(m.responses, p.responses, Actions, H)
      /\ FindingsAgree(m.obs, p.obs, H, S) /\ JobsAgree(m.jobs, p.jobs, H, S)
      /\ \A t \in Targets : m.exports[t] # None => QueueAgrees(m.outbox[t], p.outbox[t], O)
      /\ Addressed(m)
  BY DEF Removed
<1>1. /\ c \in Store
      /\ c.hosts = HostTable(p) /\ c.members = MemberTable(p) /\ c.scheds = SchedTable(p)
      /\ c.baselines = HostedTable(p, "baselines")
      /\ c.inventories = HostedTable(p, "inventories")
      /\ c.tokens = HostedTable(p, "tokens") /\ c.responses = HostedTable(p, "responses")
      /\ c.sessions = SessionTable(p) /\ c.scans = HostedTable(p, "scans")
      /\ c.jobs = ScannedTable(p, "jobs") /\ c.obs = ScannedTable(p, "obs")
      /\ c.outbox = OutboxTable(p)
      /\ c.creds = p.creds /\ c.colls = p.colls /\ c.rules = p.rules
      /\ c.users = p.users /\ c.exports = p.exports /\ c.archive = p.archive
      /\ c.audit = p.audit
  BY <1>0, CascadeTables
<1>t. /\ m.hosts \in [Hosts -> OrNone(HostRow)] /\ p.hosts \in [Hosts -> OrNone(HostRow)]
      /\ m.members \in [Colls -> SUBSET Hosts] /\ p.members \in [Colls -> SUBSET Hosts]
      /\ m.scheds \in [Scheds -> OrNone(SchedRow)] /\ m.sessions \in [Sessions -> OrNone(SessionRow)]
      /\ m.baselines \in [Hosts -> OrNone(HostRecord)] /\ m.inventories \in [Hosts -> OrNone(HostRecord)]
      /\ m.tokens \in [Tokens -> OrNone(TokenRow)] /\ m.responses \in [Actions -> OrNone(ActionRow)]
      /\ m.scans \in [Scans -> OrNone(ScanRow)] /\ m.jobs \in [Jobs -> OrNone(JobRow)]
      /\ m.obs \in [Obs -> OrNone(FindingRow)] /\ m.outbox \in [Targets -> Seq(OrNone(DeliveryRow))]
      /\ p.scheds \in [Scheds -> OrNone(SchedRow)] /\ p.sessions \in [Sessions -> OrNone(SessionRow)]
      /\ p.baselines \in [Hosts -> OrNone(HostRecord)] /\ p.inventories \in [Hosts -> OrNone(HostRecord)]
      /\ p.tokens \in [Tokens -> OrNone(TokenRow)] /\ p.responses \in [Actions -> OrNone(ActionRow)]
      /\ p.scans \in [Scans -> OrNone(ScanRow)] /\ p.jobs \in [Jobs -> OrNone(JobRow)]
      /\ p.obs \in [Obs -> OrNone(FindingRow)] /\ p.outbox \in [Targets -> Seq(OrNone(DeliveryRow))]
  BY <1>0 DEF Store
<1> HIDE DEF c
<1>2. \A h \in Hosts : p.hosts[h] = None <=> m.hosts[h] = None
  <2>1. \A r \in OrNone(HostRow) : UnlinkedRow(r, C) = None <=> r = None
    <3> SUFFICES ASSUME NEW r \in HostRow PROVE UnlinkedRow(r, C) # None
      BY DEF UnlinkedRow, OrNone
    <3>1. UnlinkedRow(r, C) \in HostRow
      BY DEF UnlinkedRow, OrNone, HostRow
    <3>2. QED
      BY <1>h, <3>1, NoneIsNothing
  <2>2. QED
    BY <1>h, <1>t, <2>1 DEF HostsAgree
<1>3. HostsAgree(m.hosts, c.hosts, m.creds)
  <2> SUFFICES ASSUME NEW h \in Hosts PROVE c.hosts[h] = UnlinkedRow(m.hosts[h], m.creds)
    BY <1>h DEF HostsAgree
  <2>1. c.hosts[h] = UnlinkedRow(UnlinkedRow(m.hosts[h], C), m.creds)
    BY <1>h, <1>1 DEF HostTable, HostsAgree
  <2>2. m.hosts[h] \in OrNone(HostRow)
    BY <1>h, <1>t
  <2>3. QED
    BY <1>h, <2>1, <2>2, NoneIsNothing DEF UnlinkedRow, OrNone, HostRow, Gone
<1>4. MembersAgree(m.members, c.members, m.colls, m.hosts)
  <2> SUFFICES ASSUME NEW l \in Colls
               PROVE  c.members[l] = IF Gone(m.colls, l) THEN {}
                                     ELSE {h \in m.members[l] : m.hosts[h] # None}
    BY <1>h DEF MembersAgree
  <2>1. c.members[l] = IF Gone(m.colls, l) THEN {} ELSE {h \in p.members[l] : p.hosts[h] # None}
    BY <1>h, <1>1 DEF MemberTable
  <2>2. p.members[l] = IF Gone(L, l) THEN {} ELSE {h \in m.members[l] : H[h] # None}
    BY <1>h DEF MembersAgree
  <2>3. m.members[l] \subseteq Hosts
    BY <1>h, <1>t
  <2>4. QED
    BY <1>h, <1>2, <2>1, <2>2, <2>3 DEF Gone
<1>5. SchedsAgree(m.scheds, c.scheds, m.hosts, m.colls)
  <2> SUFFICES ASSUME NEW s \in Scheds
               PROVE  c.scheds[s] = ScheduledRow(m.scheds[s], m.hosts, m.colls)
    BY <1>h DEF SchedsAgree
  <2>1. c.scheds[s] = ScheduledRow(ScheduledRow(m.scheds[s], H, L), p.hosts, m.colls)
    BY <1>h, <1>1 DEF SchedTable, SchedsAgree
  <2>2. m.scheds[s] \in OrNone(SchedRow)
    BY <1>h, <1>t
  <2>3. QED
    BY <1>h, <1>2, <2>1, <2>2 DEF ScheduledRow, OrNone, SchedRow, Gone
<1>6. ASSUME NEW r, r # None => r.host \in Hosts
      PROVE  HostedRow(HostedRow(r, H), p.hosts) = HostedRow(r, m.hosts)
  BY <1>h, <1>2, <1>6 DEF HostedRow, Gone
<1>7. HostedAgree(m.baselines, c.baselines, Hosts, m.hosts)
  BY <1>h, <1>1, <1>6, <1>t DEF HostedAgree, HostedTable, OrNone, HostRecord
<1>8. HostedAgree(m.inventories, c.inventories, Hosts, m.hosts)
  BY <1>h, <1>1, <1>6, <1>t DEF HostedAgree, HostedTable, OrNone, HostRecord
<1>9. HostedAgree(m.tokens, c.tokens, Tokens, m.hosts)
  BY <1>h, <1>1, <1>6, <1>t DEF HostedAgree, HostedTable, OrNone, TokenRow
<1>10. HostedAgree(m.responses, c.responses, Actions, m.hosts)
  BY <1>h, <1>1, <1>6, <1>t DEF HostedAgree, HostedTable, OrNone, ActionRow
<1>11. HostedAgree(m.scans, c.scans, Scans, m.hosts)
  BY <1>h, <1>1, <1>6, <1>t DEF HostedAgree, HostedTable, OrNone, ScanRow
<1>12. SessionsAgree(m.sessions, c.sessions, m.users)
  <2> SUFFICES ASSUME NEW s \in Sessions
               PROVE  c.sessions[s] = SignedInRow(m.sessions[s], m.users)
    BY <1>h DEF SessionsAgree
  <2>1. c.sessions[s] = SignedInRow(SignedInRow(m.sessions[s], U), m.users)
    BY <1>h, <1>1 DEF SessionTable, SessionsAgree
  <2>2. m.sessions[s] \in OrNone(SessionRow)
    BY <1>h, <1>t
  <2>3. QED
    BY <1>h, <2>1, <2>2 DEF SignedInRow, OrNone, SessionRow, Gone
<1>s. \A s \in Scans : S[s] = None => c.scans[s] = None
  BY <1>h, <1>1, <1>t DEF HostedTable, HostedRow
<1>13. \A s \in Scans : p.scans[s] = None => c.scans[s] = None
  BY <1>h, <1>1, <1>t DEF HostedTable, HostedRow
<1>14. FindingsAgree(m.obs, c.obs, m.hosts, c.scans)
  <2> SUFFICES ASSUME NEW o \in Obs
               PROVE  c.obs[o] = ScannedRow(HostedRow(m.obs[o], m.hosts), c.scans)
    BY <1>h DEF FindingsAgree
  <2>1. c.obs[o] = ScannedRow(HostedRow(ScannedRow(HostedRow(m.obs[o], H), S), p.hosts), c.scans)
    BY <1>h, <1>1, <1>t DEF ScannedTable, HostedTable, FindingsAgree
  <2>2. m.obs[o] \in OrNone(FindingRow)
    BY <1>h, <1>t
  <2>3. HostedRow(HostedRow(m.obs[o], H), p.hosts) = HostedRow(m.obs[o], m.hosts)
    BY <1>h, <1>6, <2>2 DEF OrNone, FindingRow
  <2> DEFINE r == HostedRow(m.obs[o], H)
  <2>4. r \in OrNone(FindingRow)
    BY <1>h, <2>2 DEF HostedRow, OrNone
  <2> HIDE DEF r
  <2>5. ScannedRow(HostedRow(ScannedRow(r, S), p.hosts), c.scans)
          = ScannedRow(HostedRow(r, p.hosts), c.scans)
    BY <1>h, <2>4, <1>13, NoneIsNothing DEF ScannedRow, HostedRow, OrNone, FindingRow
  <2>6. QED
    BY <1>h, <2>1, <2>3, <2>5 DEF r
<1>15. JobsAgree(m.jobs, c.jobs, m.hosts, c.scans)
  <2> SUFFICES ASSUME NEW j \in Jobs
               PROVE  Undated(c.jobs[j]) = Undated(ScannedRow(HostedRow(m.jobs[j], m.hosts), c.scans))
    BY <1>h DEF JobsAgree
  <2>1. c.jobs[j] = ScannedRow(HostedRow(p.jobs[j], p.hosts), c.scans)
    BY <1>h, <1>1, <1>t DEF ScannedTable, HostedTable
  <2>2. m.jobs[j] \in OrNone(JobRow) /\ p.jobs[j] \in OrNone(JobRow)
    BY <1>h, <1>t
  <2>3. HostedRow(HostedRow(m.jobs[j], H), p.hosts) = HostedRow(m.jobs[j], m.hosts)
    BY <1>h, <1>6, <2>2 DEF OrNone, JobRow
  <2> DEFINE r == HostedRow(m.jobs[j], H)
             q == p.jobs[j]
  <2>4. r \in OrNone(JobRow) /\ q \in OrNone(JobRow) /\ Undated(q) = Undated(ScannedRow(r, S))
    BY <1>h, <2>2 DEF HostedRow, OrNone, JobsAgree
  <2> HIDE DEF r, q
  <2>5. Undated(ScannedRow(HostedRow(q, p.hosts), c.scans))
          = Undated(ScannedRow(HostedRow(r, p.hosts), c.scans))
    <3> DEFINE s == ScannedRow(r, S)
               a == ScannedRow(HostedRow(q, p.hosts), c.scans)
               b == ScannedRow(HostedRow(r, p.hosts), c.scans)
    <3>1. /\ s \in OrNone(JobRow) /\ (s = None <=> r = None)
          /\ r # None => /\ s.host = r.host /\ s.status = r.status /\ s.attempts = r.attempts
                         /\ s.worker = r.worker /\ s.lease = r.lease /\ s.due = r.due
                         /\ s.scan = IF r.scan # None /\ S[r.scan] = None THEN None ELSE r.scan
      BY <1>h, <2>4, ScannedJob
    <3>2. \/ q = None /\ r = None
          \/ /\ q # None /\ r # None
             /\ q.host = r.host /\ q.status = r.status /\ q.attempts = r.attempts
             /\ q.worker = r.worker /\ q.lease = r.lease /\ q.scan = s.scan
             /\ q.status # "failed" => q.due = r.due
      BY <1>h, <2>4, <3>1, UndatedRows
    <3>3. CASE q = None \/ HostedRow(q, p.hosts) = None
      BY <1>h, <3>2, <3>3 DEF HostedRow, ScannedRow
    <3>4. CASE q # None /\ HostedRow(q, p.hosts) # None
      <4>1. HostedRow(q, p.hosts) = q /\ HostedRow(r, p.hosts) = r
        BY <1>h, <3>2, <3>4 DEF HostedRow
      <4>2. /\ a \in OrNone(JobRow) /\ a # None
            /\ a.host = q.host /\ a.status = q.status /\ a.attempts = q.attempts
            /\ a.worker = q.worker /\ a.lease = q.lease /\ a.due = q.due
            /\ a.scan = IF q.scan # None /\ c.scans[q.scan] = None THEN None ELSE q.scan
        BY <1>h, <2>4, <3>4, <4>1, ScannedJob
      <4>3. /\ b \in OrNone(JobRow) /\ b # None
            /\ b.host = r.host /\ b.status = r.status /\ b.attempts = r.attempts
            /\ b.worker = r.worker /\ b.lease = r.lease /\ b.due = r.due
            /\ b.scan = IF r.scan # None /\ c.scans[r.scan] = None THEN None ELSE r.scan
        BY <1>h, <2>4, <3>2, <3>4, <4>1, ScannedJob
      <4>4. r.scan \in OrNone(Scans)
        BY <1>h, <2>4, <3>2, <3>4 DEF OrNone, JobRow
      <4>5. a.scan = b.scan
        BY <1>h, <3>1, <3>2, <3>4, <4>2, <4>3, <4>4, <1>s DEF OrNone
      <4> HIDE DEF a, b
      <4>6. Undated(a) = Undated(b)
        BY <1>h, <3>2, <3>4, <4>2, <4>3, <4>5, UndatedRows
      <4>7. QED
        BY <1>h, <4>6 DEF a, b
    <3>5. QED
      BY <1>h, <3>3, <3>4
  <2>6. QED
    BY <1>h, <2>1, <2>3, <2>5 DEF r, q
<1>16. OutboxAgrees(m.outbox, c.outbox, c.obs)
  <2> SUFFICES ASSUME NEW t \in Targets PROVE QueueAgrees(m.outbox[t], c.outbox[t], c.obs)
    BY <1>h DEF OutboxAgrees
  <2>1. CASE m.exports[t] = None
    <3>1. m.outbox[t] = <<>> /\ c.outbox[t] = <<>>
      BY <1>h, <1>1, <2>1, NoneIsNothing DEF Addressed, OutboxTable, Gone
    <3>2. QED
      BY <1>h, <3>1 DEF QueueAgrees
  <2>2. CASE m.exports[t] # None
    <3>1. c.outbox[t] = [i \in DOMAIN p.outbox[t] |-> DeliveredRow(p.outbox[t][i], c.obs)]
      BY <1>h, <1>1, <2>2 DEF OutboxTable, Gone
    <3>2. QueueAgrees(m.outbox[t], p.outbox[t], O)
      BY <1>h, <2>2
    <3>3. \A o \in Obs : O[o] = None => c.obs[o] = None
      <4> SUFFICES ASSUME NEW o \in Obs, O[o] = None PROVE c.obs[o] = None
        OBVIOUS
      <4>1. c.obs[o] = ScannedRow(HostedRow(p.obs[o], p.hosts), c.scans)
        BY <1>h, <1>1, <1>t DEF ScannedTable, HostedTable
      <4>2. p.obs[o] = None
        BY <1>h
      <4>3. QED
        BY <1>h, <4>1, <4>2 DEF ScannedRow, HostedRow
    <3>4. \A i \in DOMAIN m.outbox[t] : m.outbox[t][i] \in OrNone(DeliveryRow)
      BY <1>h, <1>t
    <3> HIDE DEF c
    <3>5. /\ DOMAIN p.outbox[t] = DOMAIN m.outbox[t] /\ DOMAIN c.outbox[t] = DOMAIN m.outbox[t]
          /\ \A i \in DOMAIN m.outbox[t] :
                /\ c.outbox[t][i] = DeliveredRow(p.outbox[t][i], c.obs)
                /\ p.outbox[t][i] = DeliveredRow(m.outbox[t][i], O)
      BY <3>1, <3>2 DEF QueueAgrees
    <3>6. ASSUME NEW i \in DOMAIN m.outbox[t]
          PROVE  c.outbox[t][i] = DeliveredRow(m.outbox[t][i], c.obs)
      <4>1. m.outbox[t][i] # None => m.outbox[t][i].obs \in Obs
        BY <3>4 DEF OrNone, DeliveryRow
      <4>2. QED
        BY <3>3, <3>5, <4>1 DEF DeliveredRow
    <3>7. QED
      BY <3>5, <3>6 DEF QueueAgrees
  <2>3. QED
    BY <1>h, <2>1, <2>2
<1>17. QED
  BY <1>h, <1>1, <1>3, <1>4, <1>5, <1>7, <1>8, <1>9, <1>10, <1>11, <1>12, <1>14, <1>15,
     <1>16 DEF Same, c

-------------------------------------------------------------------------------
(* Calls                                                                     *)

\* The tables of a store, by name.
LEMMA TableNames ==
  /\ DOMAIN Empty = {"hosts", "creds", "colls", "members", "scheds", "rules", "baselines",
                     "inventories", "users", "sessions", "tokens", "scans", "obs", "exports",
                     "outbox", "jobs", "responses", "audit", "archive", "dedup"}
  /\ \A db \in Store : DOMAIN db = DOMAIN Empty
BY DEF Empty, Store

\* A table that is written as it is leaves the store as it is.
LEMMA Unwritten ==
  ASSUME NEW db \in Store, NEW t \in DOMAIN Empty
  PROVE  [db EXCEPT ![t] = db[t]] = db
<1>1. DOMAIN db = DOMAIN Empty /\ db = [i \in DOMAIN db |-> db[i]]
  BY TableNames DEF Store
<1>2. QED
  BY <1>1

\* A token is changed.
LEMMA TokenChanged ==
  ASSUME NEW m, NEW p, NEW d, NEW n, Meets(m, p, d, n),
         NEW t \in Tokens, NEW c \in BOOLEAN, NEW e \in BOOLEAN, NEW x, NEW y,
         m.tokens[t] # None /\ c => x \in TokenRow /\ x.host = m.tokens[t].host,
         m.tokens[t] # None /\ p.tokens[t] = m.tokens[t] => (c <=> e) /\ y = x
  PROVE  Agreed(Change(m, "tokens", t, c, x), Change(p, "tokens", t, e, y), d, n,
                p.tokens[t] = None)
<1> DEFINE a == Change(m, "tokens", t, c, x)
           b == Change(p, "tokens", t, e, y)
           X == [m.tokens EXCEPT ![t] = x]
           Y == [p.tokens EXCEPT ![t] = x]
<1>1. /\ m \in Store /\ p \in Store
      /\ m.tokens \in [Tokens -> OrNone(TokenRow)] /\ p.tokens \in [Tokens -> OrNone(TokenRow)]
      /\ HostedAgree(m.tokens, p.tokens, Tokens, m.hosts) /\ OfHosts(m.tokens, d)
  BY DEF Meets, Same, Refs, Store
<1> SUFFICES Agreed(a, b, d, n, p.tokens[t] = None)
  OBVIOUS
<1>a. /\ m.tokens[t] # None /\ c => a.db = [m EXCEPT !.tokens = X] /\ a.out = "ok"
      /\ ~(m.tokens[t] # None /\ c) => a.db = m /\ a.out = "not found"
  BY DEF a, b, Change, Exists, Insert, Write, Ok, Missing
<1>b. /\ p.tokens[t] # None /\ e => b.db = [p EXCEPT !.tokens = [p.tokens EXCEPT ![t] = y]] /\ b.out = "ok"
      /\ ~(p.tokens[t] # None /\ e) => b.db = p /\ b.out = "not found"
  BY DEF a, b, Change, Exists, Insert, Write, Ok, Missing
<1> HIDE DEF a, b
<1>p. p.tokens[t] = HostedRow(m.tokens[t], m.hosts)
  BY <1>1 DEF HostedAgree
<1>2. CASE m.tokens[t] # None /\ c
  <2>1. x \in TokenRow /\ x.host = m.tokens[t].host
    BY <1>2
  <2>2. /\ X \in [Tokens -> OrNone(TokenRow)]
        /\ p.tokens[t] # None => /\ p.tokens[t] = m.tokens[t]
                                 /\ HostedAgree(X, Y, Tokens, m.hosts)
                                 /\ Y \in [Tokens -> OrNone(TokenRow)]
        /\ p.tokens[t] = None => HostedAgree(X, p.tokens, Tokens, m.hosts)
    BY <1>1, <1>2, <2>1, NoneIsNothing DEF HostedAgree, HostedRow, OrNone
  <2>3. OfHosts(X, d)
    BY <1>1, <1>2, <2>1 DEF OfHosts
  <2> HIDE DEF X, Y
  <2>4. CASE p.tokens[t] # None
    <3>1. Meets([m EXCEPT !.tokens = X], [p EXCEPT !.tokens = Y], d, n)
      BY <2>2, <2>3, <2>4, TokensWritten
    <3>2. QED
      BY <1>a, <1>b, <1>2, <2>2, <2>4, <3>1 DEF Agreed, Y
  <2>5. CASE p.tokens[t] = None
    <3>1. Meets([m EXCEPT !.tokens = X], [p EXCEPT !.tokens = p.tokens], d, n)
      BY <1>1, <2>2, <2>3, <2>5, TokensWritten
    <3>2. [p EXCEPT !.tokens = p.tokens] = p
      BY <1>1, TableNames, Unwritten
    <3>3. QED
      BY <1>a, <1>b, <1>2, <2>5, <3>1, <3>2 DEF Agreed
  <2>6. QED
    BY <2>4, <2>5
<1>3. CASE ~(m.tokens[t] # None /\ c)
  <2>1. ~(p.tokens[t] # None /\ e)
    BY <1>3, <1>p DEF HostedRow
  <2>2. QED
    BY <1>a, <1>b, <1>3, <2>1 DEF Agreed
<1>4. QED
  BY <1>2, <1>3

\* Postgres has the hosts that Memory has.
LEMMA SameHosts ==
  ASSUME NEW m, NEW p, NEW d, NEW n, Meets(m, p, d, n), NEW h \in Hosts
  PROVE  m.hosts[h] = None <=> p.hosts[h] = None
<1>1. p.hosts[h] = UnlinkedRow(m.hosts[h], m.creds) /\ m.hosts[h] \in OrNone(HostRow)
  BY DEF Meets, Same, HostsAgree, Store
<1>2. ASSUME NEW r \in HostRow PROVE UnlinkedRow(r, m.creds) # None
  <2>1. UnlinkedRow(r, m.creds) \in HostRow
    BY DEF UnlinkedRow, OrNone, HostRow
  <2>2. QED
    BY <2>1, NoneIsNothing
<1>3. QED
  BY <1>1, <1>2 DEF UnlinkedRow, OrNone

\* CreateSensorToken.
LEMMA CreateSensorTokenAgrees ==
  ASSUME NEW m, NEW p, NEW d, NEW n, Meets(m, p, d, n),
         NEW t \in Tokens, NEW h \in Hosts, h <= d.hosts, NEW expires \in OrNone(Nat)
  PROVE  Agreed(M!CreateSensorToken(m, t, h, expires), P!CreateSensorToken(p, t, h, expires),
                d, n, p.hosts[h] = None)
<1> DEFINE a == M!CreateSensorToken(m, t, h, expires)
           b == P!CreateSensorToken(p, t, h, expires)
           x == NewToken(h, expires)
           X == [m.tokens EXCEPT ![t] = x]
           Y == [p.tokens EXCEPT ![t] = x]
<1> SUFFICES Agreed(a, b, d, n, p.hosts[h] = None)
  OBVIOUS
<1>1. /\ m.tokens \in [Tokens -> OrNone(TokenRow)] /\ p.tokens \in [Tokens -> OrNone(TokenRow)]
      /\ HostedAgree(m.tokens, p.tokens, Tokens, m.hosts) /\ OfHosts(m.tokens, d)
  BY DEF Meets, Same, Refs, Store
<1>2. m.hosts[h] = None <=> p.hosts[h] = None
  BY SameHosts
<1>3. x \in TokenRow /\ x.host = h
  BY DEF NewToken, TokenRow
<1>a. /\ m.hosts[h] # None => a.db = [m EXCEPT !.tokens = X] /\ a.out = "ok"
      /\ m.hosts[h] = None => a.db = m /\ a.out = "not found"
  BY DEF a, M!CreateSensorToken, M!Insert, M!Exists, M!Write, M!Ok, M!Missing, M!NewToken, NewToken
<1>b. /\ p.hosts[h] # None => b.db = [p EXCEPT !.tokens = Y] /\ b.out = "ok"
      /\ p.hosts[h] = None => b.db = p /\ b.out = "constraint"
  <2>1. h # None
    BY NoneIsNothing
  <2>2. (\E r \in {<<"hosts", h>>} : r[2] # None /\ ~P!Exists(p, r[1], r[2])) <=> p.hosts[h] = None
    BY <2>1 DEF P!Exists
  <2>3. QED
    BY <2>2 DEF b, P!CreateSensorToken, P!Checked, P!Insert, P!Write, P!Ok, P!Broken, P!NewToken,
       NewToken
<1> HIDE DEF a, b, x
<1>4. CASE m.hosts[h] # None
  <2>1. X \in [Tokens -> OrNone(TokenRow)] /\ Y \in [Tokens -> OrNone(TokenRow)]
    BY <1>1, <1>3 DEF OrNone
  <2>2. HostedAgree(X, Y, Tokens, m.hosts) /\ OfHosts(X, d)
    BY <1>1, <1>3, <1>4 DEF HostedAgree, HostedRow, Gone, OfHosts
  <2> HIDE DEF X, Y
  <2>3. Meets([m EXCEPT !.tokens = X], [p EXCEPT !.tokens = Y], d, n)
    BY <2>1, <2>2, TokensWritten
  <2>4. QED
    BY <1>2, <1>4, <1>a, <1>b, <2>3 DEF Agreed
<1>5. CASE m.hosts[h] = None
  BY <1>2, <1>5, <1>a, <1>b DEF Agreed
<1>6. QED
  BY <1>4, <1>5

\* RevokeSensorToken: a token that is revoked already is not found by Postgres.
LEMMA RevokeSensorTokenAgrees ==
  ASSUME NEW m, NEW p, NEW d, NEW n, Meets(m, p, d, n), NEW t \in Tokens, NEW h \in Hosts
  PROVE  LET a == M!RevokeSensorToken(m, h, t)
             b == P!RevokeSensorToken(p, h, t)
         IN /\ Meets(a.db, b.db, d, n)
            /\ \/ a.out = b.out
               \/ p.tokens[t] # None /\ a.out = "ok" /\ b.out = "not found"
               \/ p.tokens[t] = None /\ b.out = "not found"
<1> DEFINE r == m.tokens[t]
           q == p.tokens[t]
           c == r.host = h
           e == q.host = h
           x == [r EXCEPT !.revoked = TRUE]
           y == [q EXCEPT !.revoked = TRUE]
           a == Change(m, "tokens", t, c, x)
           b == Change(p, "tokens", t, e, y)
           f == P!RevokeSensorToken(p, h, t)
<1>1. M!RevokeSensorToken(m, h, t) = a
  BY DEF M!RevokeSensorToken, M!Change, Change, M!Exists, Exists, Insert, M!Insert, M!Ok, Ok,
         M!Missing, Missing, M!Write, Write
<1>2. Agreed(a, b, d, n, q = None)
  <2>1. r # None => r \in TokenRow
    BY DEF Meets, Store, OrNone
  <2>2. c \in BOOLEAN /\ e \in BOOLEAN
    OBVIOUS
  <2>3. r # None => x \in TokenRow /\ x.host = r.host
    BY <2>1 DEF TokenRow
  <2>4. q = r => (c <=> e) /\ y = x
    OBVIOUS
  <2> HIDE DEF c, e, x, y
  <2>5. QED
    BY <2>2, <2>3, <2>4, TokenChanged
<1>3. /\ f.db = b.db
      /\ f.out = b.out \/ (q # None /\ b.out = "ok" /\ f.out = "not found")
      /\ q = None => f.out = "not found"
  <2>1. p \in Store /\ (q # None => q \in TokenRow)
    BY DEF Meets, Store, OrNone
  <2>2. /\ q # None /\ e /\ ~q.revoked => f.db = [p EXCEPT !.tokens[t] = y] /\ f.out = "ok"
        /\ ~(q # None /\ e /\ ~q.revoked) => f.db = p /\ f.out = "not found"
    BY DEF P!RevokeSensorToken, P!Change, P!Exists, P!Insert, P!Ok, P!Missing, P!Write
  <2>3. /\ q # None /\ e => b.db = [p EXCEPT !.tokens[t] = y] /\ b.out = "ok"
        /\ ~(q # None /\ e) => b.db = p /\ b.out = "not found"
    BY DEF Change, Exists, Insert, Ok, Missing, Write
  <2>4. q # None /\ q.revoked => [p EXCEPT !.tokens[t] = y] = p
    <3>1. q # None /\ q.revoked => y = q
      BY <2>1 DEF TokenRow
    <3>2. [p EXCEPT !.tokens[t] = q] = p
      BY <2>1 DEF Store
    <3>3. QED
      BY <3>1, <3>2
  <2> HIDE DEF b, f
  <2>5. QED
    BY <2>2, <2>3, <2>4
<1>4. QED
  BY <1>1, <1>2, <1>3 DEF Agreed

\* RevokeOtherSensorTokens and RevokeSensorTokens: Memory revokes what is revoked.
LEMMA RevokedAgree ==
  ASSUME NEW m, NEW p, NEW d, NEW n, Meets(m, p, d, n), NEW h \in Hosts, NEW kept
  PROVE  Meets(M!Revoked(m, h, kept), P!Revoke(p, h, Tokens \ {kept}), d, n)
<1> DEFINE X == [t \in Tokens |-> IF m.tokens[t] # None /\ m.tokens[t].host = h /\ t # kept
                                  THEN [m.tokens[t] EXCEPT !.revoked = TRUE] ELSE m.tokens[t]]
           Y == [t \in Tokens |-> IF p.tokens[t] # None /\ p.tokens[t].host = h /\ t # kept
                                  THEN [p.tokens[t] EXCEPT !.revoked = TRUE] ELSE p.tokens[t]]
<1>1. /\ m.tokens \in [Tokens -> OrNone(TokenRow)] /\ p.tokens \in [Tokens -> OrNone(TokenRow)]
      /\ HostedAgree(m.tokens, p.tokens, Tokens, m.hosts) /\ OfHosts(m.tokens, d)
  BY DEF Meets, Same, Refs, Store
<1>2. M!Revoked(m, h, kept) = [m EXCEPT !.tokens = X]
  BY DEF M!Revoked
<1>3. P!Revoke(p, h, Tokens \ {kept}) = [p EXCEPT !.tokens = Y]
  <2>1. P!Revoke(p, h, Tokens \ {kept}) = [p EXCEPT !.tokens = [t \in Tokens |->
          IF p.tokens[t] # None /\ ~p.tokens[t].revoked /\ p.tokens[t].host = h /\ t \in Tokens \ {kept}
          THEN [p.tokens[t] EXCEPT !.revoked = TRUE] ELSE p.tokens[t]]]
    BY DEF P!Revoke, Meets, Store
  <2>2. \A r \in TokenRow : r.revoked => [r EXCEPT !.revoked = TRUE] = r
    BY DEF TokenRow
  <2>3. \A t \in Tokens : p.tokens[t] # None => p.tokens[t] \in TokenRow
    BY <1>1 DEF OrNone
  <2>4. [t \in Tokens |->
          IF p.tokens[t] # None /\ ~p.tokens[t].revoked /\ p.tokens[t].host = h /\ t \in Tokens \ {kept}
          THEN [p.tokens[t] EXCEPT !.revoked = TRUE] ELSE p.tokens[t]] = Y
    BY <2>2, <2>3
  <2>5. QED
    BY <2>1, <2>4
<1>4. X \in [Tokens -> OrNone(TokenRow)] /\ Y \in [Tokens -> OrNone(TokenRow)]
  BY <1>1 DEF OrNone, TokenRow
<1>5. HostedAgree(X, Y, Tokens, m.hosts)
  <2> SUFFICES ASSUME NEW t \in Tokens PROVE Y[t] = HostedRow(X[t], m.hosts)
    BY DEF HostedAgree
  <2>1. m.tokens[t] \in OrNone(TokenRow) /\ p.tokens[t] = HostedRow(m.tokens[t], m.hosts)
    BY <1>1 DEF HostedAgree
  <2>2. \A r \in TokenRow : /\ [r EXCEPT !.revoked = TRUE] # None
                            /\ [r EXCEPT !.revoked = TRUE].host = r.host
    <3> SUFFICES ASSUME NEW r \in TokenRow
                 PROVE  [r EXCEPT !.revoked = TRUE] \in TokenRow /\ [r EXCEPT !.revoked = TRUE].host = r.host
      BY NoneIsNothing
    <3>1. QED
      BY DEF TokenRow
  <2>3. QED
    BY <2>1, <2>2 DEF HostedRow, OrNone
<1>6. OfHosts(X, d)
  BY <1>1 DEF OfHosts, TokenRow, OrNone
<1> HIDE DEF X, Y
<1>7. QED
  BY <1>2, <1>3, <1>4, <1>5, <1>6, TokensWritten

-------------------------------------------------------------------------------
(* Rules                                                                     *)

\* A rule is changed.
LEMMA RuleChanged ==
  ASSUME NEW m, NEW p, NEW d, NEW n, Meets(m, p, d, n), NEW r \in Rules, NEW x,
         m.rules[r] # None => x \in OrNone(RuleRow)
  PROVE  Agreed(Change(m, "rules", r, TRUE, x), Change(p, "rules", r, TRUE, x), d, n, FALSE)
<1> DEFINE a == Change(m, "rules", r, TRUE, x)
           b == Change(p, "rules", r, TRUE, x)
           X == [m.rules EXCEPT ![r] = x]
<1> SUFFICES Agreed(a, b, d, n, FALSE)
  OBVIOUS
<1>1. m.rules \in [Rules -> OrNone(RuleRow)] /\ p.rules = m.rules
  BY DEF Meets, Same, Store
<1>a. /\ m.rules[r] # None => a.db = [m EXCEPT !.rules = X] /\ a.out = "ok"
      /\ m.rules[r] = None => a.db = m /\ a.out = "not found"
  BY DEF a, Change, Exists, Insert, Write, Ok, Missing
<1>b. /\ m.rules[r] # None => b.db = [p EXCEPT !.rules = X] /\ b.out = "ok"
      /\ m.rules[r] = None => b.db = p /\ b.out = "not found"
  BY <1>1 DEF b, Change, Exists, Insert, Write, Ok, Missing
<1> HIDE DEF a, b
<1>2. m.rules[r] # None => X \in [Rules -> OrNone(RuleRow)]
  BY <1>1
<1> HIDE DEF X
<1>3. CASE m.rules[r] # None
  <2>1. Meets([m EXCEPT !.rules = X], [p EXCEPT !.rules = X], d, n)
    BY <1>2, <1>3, RulesWritten
  <2>2. QED
    BY <1>3, <1>a, <1>b, <2>1 DEF Agreed
<1>4. CASE m.rules[r] = None
  BY <1>4, <1>a, <1>b DEF Agreed
<1>5. QED
  BY <1>3, <1>4

\* UpsertRule.
LEMMA UpsertRuleAgrees ==
  ASSUME NEW m, NEW p, NEW d, NEW n, Meets(m, p, d, n), NEW r \in Rules, NEW x \in RuleRow
  PROVE  Agreed(M!UpsertRule(m, r, x), P!UpsertRule(p, r, x), d, n, FALSE)
<1> DEFINE X == [m.rules EXCEPT ![r] = x]
<1>1. m.rules \in [Rules -> OrNone(RuleRow)] /\ p.rules = m.rules
  BY DEF Meets, Same, Store
<1>2. X \in [Rules -> OrNone(RuleRow)]
  BY <1>1 DEF OrNone
<1>3. M!UpsertRule(m, r, x) = [db |-> [m EXCEPT !.rules = X], out |-> "ok"]
  BY DEF M!UpsertRule, M!Insert, M!Write, M!Ok
<1>4. P!UpsertRule(p, r, x) = [db |-> [p EXCEPT !.rules = X], out |-> "ok"]
  BY <1>1 DEF P!UpsertRule, P!Insert, P!Write, P!Ok
<1> HIDE DEF X
<1>5. QED
  BY <1>2, <1>3, <1>4, RulesWritten DEF Agreed

\* DeleteRule.
LEMMA DeleteRuleAgrees ==
  ASSUME NEW m, NEW p, NEW d, NEW n, Meets(m, p, d, n), NEW r \in Rules
  PROVE  Agreed(M!DeleteRule(m, r), P!DeleteRule(p, r), d, n, FALSE)
<1>1. M!DeleteRule(m, r) = Change(m, "rules", r, TRUE, None)
  BY DEF M!DeleteRule, M!Delete, M!Replace, M!Change, Change, M!Exists, Exists, M!Insert, Insert,
     M!Ok, Ok, M!Missing, Missing, M!Write, Write
<1>2. P!DeleteRule(p, r) = Change(p, "rules", r, TRUE, None)
  BY DEF P!DeleteRule, P!Delete, P!Replace, P!Change, Change, P!Exists, Exists, P!Insert, Insert,
     P!Ok, Ok, P!Missing, Missing, P!Write, Write
<1>3. None \in OrNone(RuleRow)
  BY DEF OrNone
<1>4. QED
  BY <1>1, <1>2, <1>3, RuleChanged

\* SetRuleEnabled.
LEMMA SetRuleEnabledAgrees ==
  ASSUME NEW m, NEW p, NEW d, NEW n, Meets(m, p, d, n), NEW r \in Rules, NEW on \in BOOLEAN
  PROVE  Agreed(M!SetRuleEnabled(m, r, on), P!SetRuleEnabled(p, r, on), d, n, FALSE)
<1> DEFINE x == [m.rules[r] EXCEPT !.enabled = on]
<1>1. m.rules \in [Rules -> OrNone(RuleRow)] /\ p.rules = m.rules
  BY DEF Meets, Same, Store
<1>2. M!SetRuleEnabled(m, r, on) = Change(m, "rules", r, TRUE, x)
  BY DEF M!SetRuleEnabled, M!Replace, M!Change, Change, M!Exists, Exists, M!Insert, Insert, M!Ok,
     Ok, M!Missing, Missing, M!Write, Write
<1>3. P!SetRuleEnabled(p, r, on) = Change(p, "rules", r, TRUE, x)
  BY <1>1 DEF P!SetRuleEnabled, P!Replace, P!Change, Change, P!Exists, Exists, P!Insert, Insert,
     P!Ok, Ok, P!Missing, Missing, P!Write, Write
<1>4. m.rules[r] # None => x \in OrNone(RuleRow)
  BY <1>1 DEF OrNone, RuleRow
<1> HIDE DEF x
<1>5. QED
  BY <1>2, <1>3, <1>4, RuleChanged
-------------------------------------------------------------------------------
(* Baselines and inventories                                                 *)

\* SaveBaseline: Memory writes the record of a host that is gone.
LEMMA SaveBaselineAgrees ==
  ASSUME NEW m, NEW p, NEW d, NEW n, Meets(m, p, d, n),
         NEW h \in Hosts, h <= d.hosts, NEW data \in {"old", "new"}
  PROVE  Agreed(M!SaveBaseline(m, h, data), P!SaveBaseline(p, h, data), d, n, p.hosts[h] = None)
<1> DEFINE a == M!SaveBaseline(m, h, data)
           b == P!SaveBaseline(p, h, data)
           x == [host |-> h, data |-> data]
           X == [m.baselines EXCEPT ![h] = x]
           Y == [p.baselines EXCEPT ![h] = x]
<1> SUFFICES Agreed(a, b, d, n, p.hosts[h] = None)
  OBVIOUS
<1>1. /\ m \in Store /\ p \in Store
      /\ m.baselines \in [Hosts -> OrNone(HostRecord)] /\ p.baselines \in [Hosts -> OrNone(HostRecord)]
      /\ HostedAgree(m.baselines, p.baselines, Hosts, m.hosts)
      /\ OfHosts(m.baselines, d) /\ OwnRecords(m.baselines)
  BY DEF Meets, Same, Refs, Store
<1>2. m.hosts[h] = None <=> p.hosts[h] = None
  BY SameHosts
<1>3. x \in HostRecord /\ x.host = h
  BY DEF HostRecord
<1>4. h # None
  BY NoneIsNothing
<1>a. a.db = [m EXCEPT !.baselines = X] /\ a.out = "ok"
  BY DEF a, M!SaveBaseline, M!Insert, M!Write, M!Ok
<1>b. /\ p.hosts[h] # None => b.db = [p EXCEPT !.baselines = Y] /\ b.out = "ok"
      /\ p.hosts[h] = None => b.db = p /\ b.out = "constraint"
  <2>1. (\E r \in {<<"hosts", h>>} : r[2] # None /\ ~P!Exists(p, r[1], r[2])) <=> p.hosts[h] = None
    BY <1>4 DEF P!Exists
  <2>2. QED
    BY <2>1 DEF b, P!SaveBaseline, P!Checked, P!Insert, P!Write, P!Ok, P!Broken
<1> HIDE DEF a, b, x
<1>5. /\ X \in [Hosts -> OrNone(HostRecord)] /\ Y \in [Hosts -> OrNone(HostRecord)]
      /\ OfHosts(X, d) /\ OwnRecords(X)
  BY <1>1, <1>3 DEF OrNone, OfHosts, OwnRecords
<1>6. CASE p.hosts[h] # None
  <2>1. HostedAgree(X, Y, Hosts, m.hosts)
    BY <1>1, <1>2, <1>3, <1>6 DEF HostedAgree, HostedRow, Gone
  <2> HIDE DEF X, Y
  <2>2. Meets([m EXCEPT !.baselines = X], [p EXCEPT !.baselines = Y], d, n)
    BY <1>5, <2>1, BaselinesWritten
  <2>3. QED
    BY <1>6, <1>a, <1>b, <2>2 DEF Agreed
<1>7. CASE p.hosts[h] = None
  <2>1. HostedAgree(X, p.baselines, Hosts, m.hosts)
    BY <1>1, <1>2, <1>3, <1>4, <1>7 DEF HostedAgree, HostedRow, Gone, OwnRecords
  <2> HIDE DEF X, Y
  <2>2. Meets([m EXCEPT !.baselines = X], [p EXCEPT !.baselines = p.baselines], d, n)
    BY <1>1, <1>5, <2>1, BaselinesWritten
  <2>3. [p EXCEPT !.baselines = p.baselines] = p
    BY <1>1, TableNames, Unwritten
  <2>4. QED
    BY <1>7, <1>a, <1>b, <2>2, <2>3 DEF Agreed
<1>8. QED
  BY <1>6, <1>7

\* SaveInventory: Memory writes the record of a host that is gone.
LEMMA SaveInventoryAgrees ==
  ASSUME NEW m, NEW p, NEW d, NEW n, Meets(m, p, d, n),
         NEW h \in Hosts, h <= d.hosts, NEW data \in {"old", "new"}
  PROVE  Agreed(M!SaveInventory(m, h, data), P!SaveInventory(p, h, data), d, n, p.hosts[h] = None)
<1> DEFINE a == M!SaveInventory(m, h, data)
           b == P!SaveInventory(p, h, data)
           x == [host |-> h, data |-> data]
           X == [m.inventories EXCEPT ![h] = x]
           Y == [p.inventories EXCEPT ![h] = x]
<1> SUFFICES Agreed(a, b, d, n, p.hosts[h] = None)
  OBVIOUS
<1>1. /\ m \in Store /\ p \in Store
      /\ m.inventories \in [Hosts -> OrNone(HostRecord)] /\ p.inventories \in [Hosts -> OrNone(HostRecord)]
      /\ HostedAgree(m.inventories, p.inventories, Hosts, m.hosts)
      /\ OfHosts(m.inventories, d) /\ OwnRecords(m.inventories)
  BY DEF Meets, Same, Refs, Store
<1>2. m.hosts[h] = None <=> p.hosts[h] = None
  BY SameHosts
<1>3. x \in HostRecord /\ x.host = h
  BY DEF HostRecord
<1>4. h # None
  BY NoneIsNothing
<1>a. a.db = [m EXCEPT !.inventories = X] /\ a.out = "ok"
  BY DEF a, M!SaveInventory, M!Insert, M!Write, M!Ok
<1>b. /\ p.hosts[h] # None => b.db = [p EXCEPT !.inventories = Y] /\ b.out = "ok"
      /\ p.hosts[h] = None => b.db = p /\ b.out = "constraint"
  <2>1. (\E r \in {<<"hosts", h>>} : r[2] # None /\ ~P!Exists(p, r[1], r[2])) <=> p.hosts[h] = None
    BY <1>4 DEF P!Exists
  <2>2. QED
    BY <2>1 DEF b, P!SaveInventory, P!Checked, P!Insert, P!Write, P!Ok, P!Broken
<1> HIDE DEF a, b, x
<1>5. /\ X \in [Hosts -> OrNone(HostRecord)] /\ Y \in [Hosts -> OrNone(HostRecord)]
      /\ OfHosts(X, d) /\ OwnRecords(X)
  BY <1>1, <1>3 DEF OrNone, OfHosts, OwnRecords
<1>6. CASE p.hosts[h] # None
  <2>1. HostedAgree(X, Y, Hosts, m.hosts)
    BY <1>1, <1>2, <1>3, <1>6 DEF HostedAgree, HostedRow, Gone
  <2> HIDE DEF X, Y
  <2>2. Meets([m EXCEPT !.inventories = X], [p EXCEPT !.inventories = Y], d, n)
    BY <1>5, <2>1, InventoriesWritten
  <2>3. QED
    BY <1>6, <1>a, <1>b, <2>2 DEF Agreed
<1>7. CASE p.hosts[h] = None
  <2>1. HostedAgree(X, p.inventories, Hosts, m.hosts)
    BY <1>1, <1>2, <1>3, <1>4, <1>7 DEF HostedAgree, HostedRow, Gone, OwnRecords
  <2> HIDE DEF X, Y
  <2>2. Meets([m EXCEPT !.inventories = X], [p EXCEPT !.inventories = p.inventories], d, n)
    BY <1>1, <1>5, <2>1, InventoriesWritten
  <2>3. [p EXCEPT !.inventories = p.inventories] = p
    BY <1>1, TableNames, Unwritten
  <2>4. QED
    BY <1>7, <1>a, <1>b, <2>2, <2>3 DEF Agreed
<1>8. QED
  BY <1>6, <1>7

\* DeleteBaseline.
LEMMA DeleteBaselineAgrees ==
  ASSUME NEW m, NEW p, NEW d, NEW n, Meets(m, p, d, n), NEW h \in Hosts
  PROVE  Agreed(M!DeleteBaseline(m, h), P!DeleteBaseline(p, h), d, n, FALSE)
<1> DEFINE X == [m.baselines EXCEPT ![h] = None]
           Y == [p.baselines EXCEPT ![h] = None]
<1>1. /\ m.baselines \in [Hosts -> OrNone(HostRecord)] /\ p.baselines \in [Hosts -> OrNone(HostRecord)]
      /\ HostedAgree(m.baselines, p.baselines, Hosts, m.hosts)
      /\ OfHosts(m.baselines, d) /\ OwnRecords(m.baselines)
  BY DEF Meets, Same, Refs, Store
<1>2. /\ X \in [Hosts -> OrNone(HostRecord)] /\ Y \in [Hosts -> OrNone(HostRecord)]
      /\ OfHosts(X, d) /\ OwnRecords(X) /\ HostedAgree(X, Y, Hosts, m.hosts)
  BY <1>1 DEF OrNone, OfHosts, OwnRecords, HostedAgree, HostedRow
<1>3. M!DeleteBaseline(m, h) = [db |-> [m EXCEPT !.baselines = X], out |-> "ok"]
  BY DEF M!DeleteBaseline, M!Insert, M!Write, M!Ok
<1>4. P!DeleteBaseline(p, h) = [db |-> [p EXCEPT !.baselines = Y], out |-> "ok"]
  BY DEF P!DeleteBaseline, P!Insert, P!Write, P!Ok
<1> HIDE DEF X, Y
<1>5. QED
  BY <1>2, <1>3, <1>4, BaselinesWritten DEF Agreed

-------------------------------------------------------------------------------
(* Accounts and sessions                                                     *)

\* CreateUser: a name that is taken is refused by both, for different reasons.
LEMMA CreateUserAgrees ==
  ASSUME NEW m, NEW p, NEW d, NEW n, Meets(m, p, d, n),
         NEW u \in Users, ~(u <= d.users), NEW x \in UserRow
  PROVE  LET a == M!CreateUser(m, u, x)
             b == P!CreateUser(p, u, x)
         IN /\ Meets(a.db, b.db, d, n)
            /\ a.out = b.out \/ (a.out # "ok" /\ b.out # "ok")
<1> DEFINE a == M!CreateUser(m, u, x)
           b == P!CreateUser(p, u, x)
           X == [m.users EXCEPT ![u] = x]
           taken == \E e \in Users : m.users[e] # None /\ m.users[e].name = x.name
<1>1. /\ m.users \in [Users -> OrNone(UserRow)] /\ p.users = m.users
      /\ SessionsAgree(m.sessions, p.sessions, m.users) /\ SessionRefs(m.sessions, d)
      /\ m.sessions \in [Sessions -> OrNone(SessionRow)]
  BY DEF Meets, Same, Refs, Store
<1>2. X \in [Users -> OrNone(UserRow)]
  BY <1>1 DEF OrNone
<1>3. SessionsAgree(m.sessions, p.sessions, X)
  <2> SUFFICES ASSUME NEW s \in Sessions
               PROVE  SignedInRow(m.sessions[s], X) = SignedInRow(m.sessions[s], m.users)
    BY <1>1 DEF SessionsAgree
  <2>1. m.sessions[s] # None => m.sessions[s].user \in Users /\ m.sessions[s].user <= d.users
    BY <1>1 DEF SessionRefs, OrNone, SessionRow
  <2>2. m.sessions[s] # None => m.sessions[s].user # u
    BY <2>1
  <2>3. QED
    BY <1>1, <2>1, <2>2 DEF SignedInRow, Gone
<1>a. /\ taken => a.db = m /\ a.out = "not found"
      /\ ~taken => a.db = [m EXCEPT !.users = X] /\ a.out = "ok"
  BY DEF M!CreateUser, M!Exists, M!Insert, M!Write, M!Ok, M!Missing
<1>b. /\ taken => b.db = p /\ b.out = "constraint"
      /\ ~taken => b.db = [p EXCEPT !.users = X] /\ b.out = "ok"
  BY <1>1 DEF P!CreateUser, P!Exists, P!Insert, P!Write, P!Ok, P!Broken
<1> HIDE DEF X, taken
<1>4. Meets([m EXCEPT !.users = X], [p EXCEPT !.users = X], d, n)
  BY <1>2, <1>3, UsersWritten
<1>5. QED
  BY <1>a, <1>b, <1>4

\* The answers to an update of a user who may be gone.
UpdateTold(a, b) == a.out = b.out \/ (a.out = "not found" /\ b.out = "ok")

\* UpdateUser: of a user who is gone Postgres says that it is done.
LEMMA UpdateUserAgrees ==
  ASSUME NEW m, NEW p, NEW d, NEW n, Meets(m, p, d, n), NEW u \in Users, NEW x,
         m.users[u] # None => x \in UserRow
  PROVE  /\ Meets(M!UpdateUser(m, u, x).db, P!UpdateUser(p, u, x).db, d, n)
         /\ UpdateTold(M!UpdateUser(m, u, x), P!UpdateUser(p, u, x))
<1> DEFINE a == M!UpdateUser(m, u, x)
           b == P!UpdateUser(p, u, x)
           X == [m.users EXCEPT ![u] = x]
<1>1. /\ m.users \in [Users -> OrNone(UserRow)] /\ p.users = m.users
      /\ SessionsAgree(m.sessions, p.sessions, m.users)
      /\ m.sessions \in [Sessions -> OrNone(SessionRow)]
  BY DEF Meets, Same, Refs, Store
<1>2. m.users[u] # None => X \in [Users -> OrNone(UserRow)]
  BY <1>1 DEF OrNone
<1>3. m.users[u] # None => SessionsAgree(m.sessions, p.sessions, X)
  BY <1>1, NoneIsNothing DEF SessionsAgree, SignedInRow, Gone, OrNone, SessionRow
<1>a. /\ m.users[u] = None => a.db = m /\ a.out = "not found"
      /\ m.users[u] # None => a.db = [m EXCEPT !.users = X] /\ a.out = "ok"
  BY DEF M!UpdateUser, M!Replace, M!Change, M!Exists, M!Insert, M!Write, M!Ok, M!Missing
<1>b. /\ m.users[u] = None => b.db = p /\ b.out = "ok"
      /\ m.users[u] # None => b.db = [p EXCEPT !.users = X] /\ b.out = "ok"
  BY <1>1 DEF P!UpdateUser, P!Exists, P!Insert, P!Write, P!Ok
<1> HIDE DEF X
<1>4. m.users[u] # None => Meets([m EXCEPT !.users = X], [p EXCEPT !.users = X], d, n)
  BY <1>2, <1>3, UsersWritten
<1>5. QED
  BY <1>a, <1>b, <1>4 DEF UpdateTold

\* DeleteUser: the sessions go with the account.
LEMMA DeleteUserAgrees ==
  ASSUME NEW m, NEW p, NEW d, NEW n, Meets(m, p, d, n), NEW u \in Users
  PROVE  Agreed(M!DeleteUser(m, u), P!DeleteUser(p, u), d, n, FALSE)
<1> DEFINE X == [m.users EXCEPT ![u] = None]
           Z == [s \in Sessions |-> IF m.sessions[s] # None /\ m.sessions[s].user = u
                                    THEN None ELSE m.sessions[s]]
           m1 == [m EXCEPT !.users = X]
           p1 == [p EXCEPT !.users = X]
           c == P!Cascade(p1)
           m2 == [m1 EXCEPT !.sessions = Z]
<1>1. /\ m \in Store /\ p \in Store /\ Same(m, p) /\ m.users \in [Users -> OrNone(UserRow)]
      /\ p.users = m.users /\ m.sessions \in [Sessions -> OrNone(SessionRow)]
      /\ SessionRefs(m.sessions, d) /\ Numbered(m.sessions, d.sessions)
  BY DEF Meets, Same, Refs, Store
<1>a. M!DeleteUser(m, u) = [db |-> m2, out |-> "ok"]
  <2>1. M!DeleteUser(m, u) = [db |-> [m EXCEPT !.users = X, !.sessions = Z], out |-> "ok"]
    BY DEF M!DeleteUser, M!Ok
  <2> HIDE DEF X, Z
  <2>2. [m EXCEPT !.users = X, !.sessions = Z] = m2
    BY <1>1
  <2>3. QED
    BY <2>1, <2>2
<1>b. P!DeleteUser(p, u) = [db |-> c, out |-> "ok"]
  BY <1>1 DEF P!DeleteUser, P!Erase, P!Ok, P!Write
<1>2. X \in [Users -> OrNone(UserRow)] /\ \A i \in Users : m.users[i] = None => X[i] = None
  BY <1>1 DEF OrNone
<1>3. Removed(m1, p1, m.hosts, m.creds, m.colls, m.users, p.scans, p.obs)
  <2> HIDE DEF X
  <2>1. m1 \in Store /\ p1 \in Store
    BY <1>1, <1>2 DEF Store
  <2>2. QED
    BY <1>1, <1>2, <2>1 DEF Removed, Same, OutboxAgrees, Meets, Addressed, Store
<1>4. c \in Store /\ Same(m1, c) /\ c.audit = p1.audit
  BY <1>3, CascadeMeets
<1>5. Meets(m1, c, d, n)
  <2> HIDE DEF X, c
  <2>1. m1 \in Store /\ p1.audit = p.audit
    BY <1>1, <1>2 DEF Store
  <2>2. QED
    BY <1>1, <1>4, <2>1 DEF Meets, Refs, Addressed, Leased, GroupHolds, Store
<1>6. /\ Z \in [Sessions -> OrNone(SessionRow)] /\ SessionRefs(Z, d) /\ Numbered(Z, d.sessions)
  BY <1>1 DEF OrNone, SessionRefs, Numbered
<1>7. SessionsAgree(Z, c.sessions, X)
  <2>1. SessionsAgree(m.sessions, c.sessions, X)
    <3> HIDE DEF X, c
    <3>1. m1.sessions = m.sessions /\ m1.users = X
      BY <1>1 DEF Store
    <3>2. QED
      BY <1>4, <3>1 DEF Same
  <2>2. \A s \in Sessions : SignedInRow(m.sessions[s], X) = SignedInRow(Z[s], X)
    BY <1>1, NoneIsNothing DEF SignedInRow, Gone, OrNone, SessionRow
  <2>3. QED
    BY <2>1, <2>2 DEF SessionsAgree
<1>8. Meets(m2, c, d, n)
  <2> HIDE DEF X, Z, c
  <2>1. m1.users = X
    BY <1>1 DEF Store
  <2>2. c.sessions \in [Sessions -> OrNone(SessionRow)] /\ [c EXCEPT !.sessions = c.sessions] = c
    BY <1>4, TableNames, Unwritten DEF Store
  <2> HIDE DEF m1
  <2>3. Meets(m2, [c EXCEPT !.sessions = c.sessions], d, n)
    BY <1>5, <1>6, <1>7, <2>1, <2>2, SessionsWritten
  <2>4. QED
    BY <2>2, <2>3
<1>9. QED
  BY <1>a, <1>b, <1>8 DEF Agreed

\* CreateSession: Memory lets in a user who is gone.
LEMMA CreateSessionAgrees ==
  ASSUME NEW m, NEW p, NEW d, NEW n, Meets(m, p, d, n),
         NEW s \in Sessions, s <= d.sessions, m.sessions[s] = None,
         NEW u \in Users, u <= d.users, NEW until \in Nat
  PROVE  /\ Agreed(M!CreateSession(m, s, u, until), P!CreateSession(p, s, u, until), d, n,
                   p.users[u] = None)
         /\ M!CreateSession(m, s, u, until).db.sessions # m.sessions
<1> DEFINE a == M!CreateSession(m, s, u, until)
           b == P!CreateSession(p, s, u, until)
           x == [user |-> u, expires |-> until]
           X == [m.sessions EXCEPT ![s] = x]
           Y == [p.sessions EXCEPT ![s] = x]
<1> SUFFICES Agreed(a, b, d, n, p.users[u] = None) /\ a.db.sessions # m.sessions
  OBVIOUS
<1>1. /\ m \in Store /\ p \in Store /\ p.users = m.users
      /\ m.sessions \in [Sessions -> OrNone(SessionRow)] /\ p.sessions \in [Sessions -> OrNone(SessionRow)]
      /\ SessionsAgree(m.sessions, p.sessions, m.users)
      /\ SessionRefs(m.sessions, d) /\ Numbered(m.sessions, d.sessions)
  BY DEF Meets, Same, Refs, Store
<1>2. x \in SessionRow /\ x.user = u /\ u # None
  BY NoneIsNothing DEF SessionRow
<1>a. a.db = [m EXCEPT !.sessions = X] /\ a.out = "ok"
  BY DEF a, M!CreateSession, M!Insert, M!Write, M!Ok
<1>b. /\ p.users[u] # None => b.db = [p EXCEPT !.sessions = Y] /\ b.out = "ok"
      /\ p.users[u] = None => b.db = p /\ b.out = "constraint"
  <2>1. (\E r \in {<<"users", u>>} : r[2] # None /\ ~P!Exists(p, r[1], r[2])) <=> p.users[u] = None
    BY <1>2 DEF P!Exists
  <2>2. QED
    BY <2>1 DEF b, P!CreateSession, P!Checked, P!Insert, P!Write, P!Ok, P!Broken
<1> HIDE DEF a, b, x
<1>5. /\ X \in [Sessions -> OrNone(SessionRow)] /\ Y \in [Sessions -> OrNone(SessionRow)]
      /\ SessionRefs(X, d) /\ Numbered(X, d.sessions)
  BY <1>1, <1>2 DEF OrNone, SessionRefs, Numbered
<1>8. X # m.sessions
  <2>1. X[s] = x /\ x # None
    BY <1>1, <1>2, NoneIsNothing
  <2>2. QED
    BY <2>1
<1>9. a.db.sessions = X
  BY <1>1, <1>a DEF Store
<1>s. a.db.sessions # m.sessions
  BY <1>8, <1>9
<1>6. CASE p.users[u] # None
  <2>1. SessionsAgree(X, Y, m.users)
    BY <1>1, <1>2, <1>6 DEF SessionsAgree, SignedInRow, Gone
  <2> HIDE DEF X, Y
  <2>2. Meets([m EXCEPT !.sessions = X], [p EXCEPT !.sessions = Y], d, n)
    BY <1>5, <2>1, SessionsWritten
  <2>3. QED
    BY <1>6, <1>a, <1>b, <1>s, <2>2 DEF Agreed
<1>7. CASE p.users[u] = None
  <2>1. SessionsAgree(X, p.sessions, m.users)
    BY <1>1, <1>2, <1>7 DEF SessionsAgree, SignedInRow, Gone
  <2> HIDE DEF X, Y
  <2>2. Meets([m EXCEPT !.sessions = X], [p EXCEPT !.sessions = p.sessions], d, n)
    BY <1>1, <1>5, <2>1, SessionsWritten
  <2>3. [p EXCEPT !.sessions = p.sessions] = p
    BY <1>1, TableNames, Unwritten
  <2>4. QED
    BY <1>7, <1>a, <1>b, <1>s, <2>2, <2>3 DEF Agreed
<1>10. QED
  BY <1>6, <1>7

\* DeleteSession and DeleteExpiredSessions.
LEMMA DeleteSessionAgrees ==
  ASSUME NEW m, NEW p, NEW d, NEW n, Meets(m, p, d, n), NEW s \in Sessions
  PROVE  Agreed(M!DeleteSession(m, s), P!DeleteSession(p, s), d, n, FALSE)
<1> DEFINE X == [m.sessions EXCEPT ![s] = None]
           Y == [p.sessions EXCEPT ![s] = None]
<1>1. /\ m.sessions \in [Sessions -> OrNone(SessionRow)] /\ p.sessions \in [Sessions -> OrNone(SessionRow)]
      /\ SessionsAgree(m.sessions, p.sessions, m.users)
      /\ SessionRefs(m.sessions, d) /\ Numbered(m.sessions, d.sessions)
  BY DEF Meets, Same, Refs, Store
<1>2. /\ X \in [Sessions -> OrNone(SessionRow)] /\ Y \in [Sessions -> OrNone(SessionRow)]
      /\ SessionRefs(X, d) /\ Numbered(X, d.sessions) /\ SessionsAgree(X, Y, m.users)
  BY <1>1 DEF OrNone, SessionRefs, Numbered, SessionsAgree, SignedInRow
<1>3. M!DeleteSession(m, s) = [db |-> [m EXCEPT !.sessions = X], out |-> "ok"]
  BY DEF M!DeleteSession, M!Insert, M!Write, M!Ok
<1>4. P!DeleteSession(p, s) = [db |-> [p EXCEPT !.sessions = Y], out |-> "ok"]
  BY DEF P!DeleteSession, P!Insert, P!Write, P!Ok
<1> HIDE DEF X, Y
<1>5. QED
  BY <1>2, <1>3, <1>4, SessionsWritten DEF Agreed

\* A session that has expired is removed by both.
LEMMA DeleteExpiredSessionsAgrees ==
  ASSUME NEW m, NEW p, NEW d, NEW n, Meets(m, p, d, n), NEW at \in Nat
  PROVE  Agreed(M!DeleteExpiredSessions(m, at), P!DeleteExpiredSessions(p, at), d, n, FALSE)
<1> DEFINE left(T) == [s \in Sessions |-> IF T[s] # None /\ T[s].expires < at THEN None ELSE T[s]]
           X == left(m.sessions)
           Y == left(p.sessions)
<1>1. /\ m.sessions \in [Sessions -> OrNone(SessionRow)] /\ p.sessions \in [Sessions -> OrNone(SessionRow)]
      /\ SessionsAgree(m.sessions, p.sessions, m.users)
      /\ SessionRefs(m.sessions, d) /\ Numbered(m.sessions, d.sessions)
  BY DEF Meets, Same, Refs, Store
<1>2. /\ X \in [Sessions -> OrNone(SessionRow)] /\ Y \in [Sessions -> OrNone(SessionRow)]
      /\ SessionRefs(X, d) /\ Numbered(X, d.sessions)
  BY <1>1 DEF OrNone, SessionRefs, Numbered
<1>3. SessionsAgree(X, Y, m.users)
  BY <1>1 DEF SessionsAgree, SignedInRow
<1>4. M!DeleteExpiredSessions(m, at) = [db |-> [m EXCEPT !.sessions = X], out |-> "ok"]
  <2>1. \A s \in Sessions : m.sessions[s] # None =>
          (at > m.sessions[s].expires <=> m.sessions[s].expires < at)
    BY <1>1 DEF OrNone, SessionRow
  <2>2. QED
    BY <2>1 DEF M!DeleteExpiredSessions, M!Ok
<1>5. P!DeleteExpiredSessions(p, at) = [db |-> [p EXCEPT !.sessions = Y], out |-> "ok"]
  BY DEF P!DeleteExpiredSessions, P!Ok
<1> HIDE DEF X, Y
<1>6. QED
  BY <1>2, <1>3, <1>4, <1>5, SessionsWritten DEF Agreed

-------------------------------------------------------------------------------
(* Collections and their members                                             *)

\* CreateCollection: no schedule names a collection that is new.
LEMMA CreateCollectionAgrees ==
  ASSUME NEW m, NEW p, NEW d, NEW e, NEW n, Meets(m, p, d, n), Meets(m, p, e, n),
         NEW c \in Colls, ~(c <= d.colls), c <= e.colls, NEW x \in CollRow
  PROVE  /\ Agreed(M!CreateCollection(m, c, x), P!CreateCollection(p, c, x), e, n, FALSE)
         /\ M!CreateCollection(m, c, x).db.colls # m.colls
<1> DEFINE X == [m.members EXCEPT ![c] = {}]
           Z == [m.colls EXCEPT ![c] = x]
           m1 == [m EXCEPT !.members = X]
           m2 == [m1 EXCEPT !.colls = Z]
           p2 == [p EXCEPT !.colls = Z]
<1>1. /\ m \in Store /\ p \in Store /\ p.colls = m.colls
      /\ m.colls \in [Colls -> OrNone(CollRow)]
      /\ m.members \in [Colls -> SUBSET Hosts] /\ p.members \in [Colls -> SUBSET Hosts]
      /\ m.scheds \in [Scheds -> OrNone(SchedRow)]
      /\ MembersAgree(m.members, p.members, m.colls, m.hosts)
      /\ SchedsAgree(m.scheds, p.scheds, m.hosts, m.colls)
      /\ ScheduleRefs(m.scheds, d) /\ MemberRefs(m.members, e)
      /\ Numbered(m.colls, d.colls) /\ Numbered(m.colls, e.colls)
  BY DEF Meets, Same, Refs, Store
<1>2. c # None /\ x # None /\ m.colls[c] = None
  BY <1>1, NoneIsNothing DEF Numbered
<1>a. M!CreateCollection(m, c, x) = [db |-> m2, out |-> "ok"]
  <2>1. M!CreateCollection(m, c, x) = [db |-> [m1 EXCEPT !.colls[c] = x], out |-> "ok"]
    BY DEF M!CreateCollection, M!Insert, M!Write, M!Ok
  <2>2. m1.colls = m.colls
    BY <1>1 DEF Store
  <2> HIDE DEF m1
  <2>3. QED
    BY <2>1, <2>2
<1>b. P!CreateCollection(p, c, x) = [db |-> p2, out |-> "ok"]
  BY <1>1 DEF P!CreateCollection, P!Insert, P!Write, P!Ok
<1>3. X \in [Colls -> SUBSET Hosts] /\ MemberRefs(X, e)
  BY <1>1 DEF MemberRefs
<1>4. MembersAgree(X, p.members, m.colls, m.hosts)
  BY <1>1, <1>2 DEF MembersAgree, Gone
<1>5. Meets(m1, [p EXCEPT !.members = p.members], e, n)
  <2> HIDE DEF X
  <2>1. QED
    BY <1>1, <1>3, <1>4, MembersWritten
<1>6. [p EXCEPT !.members = p.members] = p
  BY <1>1, TableNames, Unwritten
<1>7. Z \in [Colls -> OrNone(CollRow)] /\ Numbered(Z, e.colls)
  BY <1>1 DEF OrNone, Numbered
<1>8. MembersAgree(X, p.members, Z, m.hosts)
  BY <1>1, <1>2 DEF MembersAgree, Gone
<1>9. SchedsAgree(m.scheds, p.scheds, m.hosts, Z)
  <2> SUFFICES ASSUME NEW s \in Scheds
               PROVE  ScheduledRow(m.scheds[s], m.hosts, Z) = ScheduledRow(m.scheds[s], m.hosts, m.colls)
    BY <1>1 DEF SchedsAgree
  <2>1. m.scheds[s] # None /\ m.scheds[s].coll # None => m.scheds[s].coll # c
    BY <1>1 DEF ScheduleRefs
  <2>2. m.scheds[s] # None /\ m.scheds[s].coll # None => m.scheds[s].coll \in Colls
    BY <1>1 DEF OrNone, SchedRow
  <2>3. QED
    BY <1>1, <2>1, <2>2 DEF ScheduledRow, Gone
<1>10. m1.members = X /\ m1.hosts = m.hosts /\ m1.scheds = m.scheds
  BY <1>1 DEF Store
<1> HIDE DEF X, Z
<1>11. Meets(m2, p2, e, n)
  <2> HIDE DEF m1
  <2>1. QED
    BY <1>5, <1>6, <1>7, <1>8, <1>9, <1>10, CollsWritten
<1>12. m2.colls = Z
  BY <1>1 DEF Store
<1>13. Z # m.colls
  <2>1. Z[c] = x
    BY <1>1 DEF Z
  <2>2. QED
    BY <1>2, <2>1
<1> HIDE DEF m2, p2
<1>14. QED
  BY <1>a, <1>b, <1>11, <1>12, <1>13 DEF Agreed

\* UpdateCollection.
LEMMA UpdateCollectionAgrees ==
  ASSUME NEW m, NEW p, NEW d, NEW n, Meets(m, p, d, n), NEW c \in Colls, NEW x \in CollRow
  PROVE  Agreed(M!UpdateCollection(m, c, x), P!UpdateCollection(p, c, x), d, n, FALSE)
<1> DEFINE a == M!UpdateCollection(m, c, x)
           b == P!UpdateCollection(p, c, x)
           X == [m.colls EXCEPT ![c] = x]
<1> SUFFICES Agreed(a, b, d, n, FALSE)
  OBVIOUS
<1>1. /\ p.colls = m.colls /\ m.colls \in [Colls -> OrNone(CollRow)]
      /\ m.members \in [Colls -> SUBSET Hosts] /\ m.scheds \in [Scheds -> OrNone(SchedRow)]
      /\ MembersAgree(m.members, p.members, m.colls, m.hosts)
      /\ SchedsAgree(m.scheds, p.scheds, m.hosts, m.colls) /\ Numbered(m.colls, d.colls)
  BY DEF Meets, Same, Refs, Store
<1>a. /\ m.colls[c] = None => a.db = m /\ a.out = "not found"
      /\ m.colls[c] # None => a.db = [m EXCEPT !.colls = X] /\ a.out = "ok"
  BY DEF M!UpdateCollection, M!Replace, M!Change, M!Exists, M!Insert, M!Write, M!Ok, M!Missing
<1>b. /\ m.colls[c] = None => b.db = p /\ b.out = "not found"
      /\ m.colls[c] # None => b.db = [p EXCEPT !.colls = X] /\ b.out = "ok"
  BY <1>1 DEF P!UpdateCollection, P!Replace, P!Change, P!Exists, P!Insert, P!Write, P!Ok, P!Missing
<1> HIDE DEF a, b
<1>2. CASE m.colls[c] # None
  <2>1. X \in [Colls -> OrNone(CollRow)] /\ Numbered(X, d.colls)
    BY <1>1, <1>2 DEF OrNone, Numbered
  <2>2. \A i \in Colls : Gone(X, i) <=> Gone(m.colls, i)
    BY <1>1, <1>2, NoneIsNothing DEF Gone
  <2>3. MembersAgree(m.members, p.members, X, m.hosts)
    BY <1>1, <2>2 DEF MembersAgree
  <2>4. SchedsAgree(m.scheds, p.scheds, m.hosts, X)
    BY <1>1, <2>2 DEF SchedsAgree, ScheduledRow, OrNone, SchedRow, Gone
  <2> HIDE DEF X
  <2>5. Meets([m EXCEPT !.colls = X], [p EXCEPT !.colls = X], d, n)
    BY <2>1, <2>3, <2>4, CollsWritten
  <2>6. QED
    BY <1>a, <1>b, <1>2, <2>5 DEF Agreed
<1>3. CASE m.colls[c] = None
  BY <1>a, <1>b, <1>3 DEF Agreed
<1>4. QED
  BY <1>2, <1>3

\* DeleteCollection: the members and the schedules go with the collection.
LEMMA DeleteCollectionAgrees ==
  ASSUME NEW m, NEW p, NEW d, NEW n, Meets(m, p, d, n), NEW c \in Colls
  PROVE  Agreed(M!DeleteCollection(m, c), P!DeleteCollection(p, c), d, n, FALSE)
<1> DEFINE X == [m.colls EXCEPT ![c] = None]
           Z == [m.members EXCEPT ![c] = {}]
           m1 == [m EXCEPT !.colls = X]
           p1 == [p EXCEPT !.colls = X]
           k == P!Cascade(p1)
           m2 == [m1 EXCEPT !.members = Z]
<1>1. /\ m \in Store /\ p \in Store /\ Same(m, p) /\ m.colls \in [Colls -> OrNone(CollRow)]
      /\ p.colls = m.colls /\ m.members \in [Colls -> SUBSET Hosts]
      /\ MemberRefs(m.members, d) /\ Numbered(m.colls, d.colls)
  BY DEF Meets, Same, Refs, Store
<1>a. M!DeleteCollection(m, c) = [db |-> m2, out |-> "ok"]
  <2>1. M!DeleteCollection(m, c) = [db |-> [m EXCEPT !.colls = X, !.members = Z], out |-> "ok"]
    BY <1>1 DEF M!DeleteCollection, M!Ok, Store
  <2> HIDE DEF X, Z
  <2>2. [m EXCEPT !.colls = X, !.members = Z] = m2
    BY <1>1
  <2>3. QED
    BY <2>1, <2>2
<1>b. P!DeleteCollection(p, c) = [db |-> k, out |-> "ok"]
  BY <1>1 DEF P!DeleteCollection, P!Erase, P!Ok, P!Write
<1>2. /\ X \in [Colls -> OrNone(CollRow)] /\ \A i \in Colls : m.colls[i] = None => X[i] = None
      /\ Numbered(X, d.colls)
  BY <1>1 DEF OrNone, Numbered
<1>3. Removed(m1, p1, m.hosts, m.creds, m.colls, m.users, p.scans, p.obs)
  <2> HIDE DEF X
  <2>1. m1 \in Store /\ p1 \in Store
    BY <1>1, <1>2 DEF Store
  <2>2. QED
    BY <1>1, <1>2, <2>1 DEF Removed, Same, OutboxAgrees, Meets, Addressed, Store
<1>4. k \in Store /\ Same(m1, k) /\ k.audit = p1.audit
  BY <1>3, CascadeMeets
<1>5. Meets(m1, k, d, n)
  <2> HIDE DEF X, k
  <2>1. m1 \in Store /\ p1.audit = p.audit
    BY <1>1, <1>2 DEF Store
  <2>2. QED
    BY <1>1, <1>2, <1>4, <2>1 DEF Meets, Refs, Addressed, Leased, GroupHolds, Store
<1>6. Z \in [Colls -> SUBSET Hosts] /\ MemberRefs(Z, d)
  BY <1>1 DEF MemberRefs
<1>7. MembersAgree(Z, k.members, X, m.hosts)
  <2>1. MembersAgree(m.members, k.members, X, m.hosts)
    <3> HIDE DEF X, k
    <3>1. m1.members = m.members /\ m1.colls = X /\ m1.hosts = m.hosts
      BY <1>1 DEF Store
    <3>2. QED
      BY <1>4, <3>1 DEF Same
  <2>2. Gone(X, c)
    BY <1>1, NoneIsNothing DEF Gone
  <2>3. QED
    BY <1>1, <2>1, <2>2 DEF MembersAgree
<1>8. Meets(m2, k, d, n)
  <2> HIDE DEF X, Z, k
  <2>1. m1.colls = X /\ m1.hosts = m.hosts
    BY <1>1 DEF Store
  <2>2. k.members \in [Colls -> SUBSET Hosts] /\ [k EXCEPT !.members = k.members] = k
    BY <1>4, TableNames, Unwritten DEF Store
  <2> HIDE DEF m1
  <2>3. Meets(m2, [k EXCEPT !.members = k.members], d, n)
    BY <1>5, <1>6, <1>7, <2>1, <2>2, MembersWritten
  <2>4. QED
    BY <2>2, <2>3
<1>9. QED
  BY <1>a, <1>b, <1>8 DEF Agreed

\* AddCollectionMember: Memory takes a host that is gone.
LEMMA AddCollectionMemberAgrees ==
  ASSUME NEW m, NEW p, NEW d, NEW n, Meets(m, p, d, n),
         NEW c \in Colls, NEW h \in Hosts, h <= d.hosts
  PROVE  Agreed(M!AddCollectionMember(m, c, h), P!AddCollectionMember(p, c, h), d, n,
                p.colls[c] = None \/ p.hosts[h] = None)
<1> DEFINE a == M!AddCollectionMember(m, c, h)
           b == P!AddCollectionMember(p, c, h)
           X == [m.members EXCEPT ![c] = @ \cup {h}]
           Y == [p.members EXCEPT ![c] = @ \cup {h}]
<1> SUFFICES Agreed(a, b, d, n, p.colls[c] = None \/ p.hosts[h] = None)
  OBVIOUS
<1>1. /\ m \in Store /\ p \in Store /\ p.colls = m.colls
      /\ m.members \in [Colls -> SUBSET Hosts] /\ p.members \in [Colls -> SUBSET Hosts]
      /\ MembersAgree(m.members, p.members, m.colls, m.hosts) /\ MemberRefs(m.members, d)
  BY DEF Meets, Same, Refs, Store
<1>2. m.hosts[h] = None <=> p.hosts[h] = None
  BY SameHosts
<1>3. h # None /\ c # None
  BY NoneIsNothing
<1>a. /\ m.colls[c] # None => a.db = [m EXCEPT !.members = X] /\ a.out = "ok"
      /\ m.colls[c] = None => a.db = m /\ a.out = "not found"
  BY DEF a, M!AddCollectionMember, M!Exists, M!Ok, M!Missing
<1>b. /\ p.colls[c] # None /\ p.hosts[h] # None => b.db = [p EXCEPT !.members = Y] /\ b.out = "ok"
      /\ ~(p.colls[c] # None /\ p.hosts[h] # None) => b.db = p /\ b.out = "constraint"
  <2>1. (\E r \in {<<"colls", c>>, <<"hosts", h>>} : r[2] # None /\ ~P!Exists(p, r[1], r[2]))
          <=> ~(p.colls[c] # None /\ p.hosts[h] # None)
    BY <1>3 DEF P!Exists
  <2>2. QED
    BY <2>1 DEF b, P!AddCollectionMember, P!Checked, P!Ok, P!Broken
<1> HIDE DEF a, b
<1>4. /\ X \in [Colls -> SUBSET Hosts] /\ Y \in [Colls -> SUBSET Hosts] /\ MemberRefs(X, d)
  BY <1>1 DEF MemberRefs
<1>5. CASE m.colls[c] # None /\ p.hosts[h] # None
  <2>1. MembersAgree(X, Y, m.colls, m.hosts)
    BY <1>1, <1>2, <1>5 DEF MembersAgree, Gone
  <2> HIDE DEF X, Y
  <2>2. Meets([m EXCEPT !.members = X], [p EXCEPT !.members = Y], d, n)
    BY <1>4, <2>1, MembersWritten
  <2>3. QED
    BY <1>1, <1>5, <1>a, <1>b, <2>2 DEF Agreed
<1>6. CASE m.colls[c] # None /\ p.hosts[h] = None
  <2>1. MembersAgree(X, p.members, m.colls, m.hosts)
    BY <1>1, <1>2, <1>6 DEF MembersAgree, Gone
  <2> HIDE DEF X, Y
  <2>2. Meets([m EXCEPT !.members = X], [p EXCEPT !.members = p.members], d, n)
    BY <1>1, <1>4, <2>1, MembersWritten
  <2>3. [p EXCEPT !.members = p.members] = p
    BY <1>1, TableNames, Unwritten
  <2>4. QED
    BY <1>6, <1>a, <1>b, <2>2, <2>3 DEF Agreed
<1>7. CASE m.colls[c] = None
  BY <1>1, <1>7, <1>a, <1>b DEF Agreed
<1>8. QED
  BY <1>5, <1>6, <1>7

\* RemoveCollectionMember.
LEMMA RemoveCollectionMemberAgrees ==
  ASSUME NEW m, NEW p, NEW d, NEW n, Meets(m, p, d, n), NEW c \in Colls, NEW h \in Hosts
  PROVE  Agreed(M!RemoveCollectionMember(m, c, h), P!RemoveCollectionMember(p, c, h), d, n, FALSE)
<1> DEFINE X == [m.members EXCEPT ![c] = @ \ {h}]
           Y == [p.members EXCEPT ![c] = @ \ {h}]
<1>1. /\ m.members \in [Colls -> SUBSET Hosts] /\ p.members \in [Colls -> SUBSET Hosts]
      /\ MembersAgree(m.members, p.members, m.colls, m.hosts) /\ MemberRefs(m.members, d)
  BY DEF Meets, Same, Refs, Store
<1>2. /\ X \in [Colls -> SUBSET Hosts] /\ Y \in [Colls -> SUBSET Hosts] /\ MemberRefs(X, d)
      /\ MembersAgree(X, Y, m.colls, m.hosts)
  BY <1>1 DEF MemberRefs, MembersAgree
<1>3. M!RemoveCollectionMember(m, c, h) = [db |-> [m EXCEPT !.members = X], out |-> "ok"]
  BY DEF M!RemoveCollectionMember, M!Ok
<1>4. P!RemoveCollectionMember(p, c, h) = [db |-> [p EXCEPT !.members = Y], out |-> "ok"]
  BY DEF P!RemoveCollectionMember, P!Ok
<1> HIDE DEF X, Y
<1>5. QED
  BY <1>2, <1>3, <1>4, MembersWritten DEF Agreed

-------------------------------------------------------------------------------
(* Schedules                                                                 *)

\* CreateSchedule: Memory takes one of a host or a collection that is gone.
LEMMA CreateScheduleAgrees ==
  ASSUME NEW m, NEW p, NEW d, NEW n, Meets(m, p, d, n),
         NEW s \in Scheds, s <= d.scheds, m.scheds[s] = None, NEW x \in SchedRow,
         x.host # None => x.host <= d.hosts, x.coll # None => x.coll <= d.colls
  PROVE  /\ Agreed(M!CreateSchedule(m, s, x), P!CreateSchedule(p, s, x), d, n,
                   Gone(p.hosts, x.host) \/ Gone(p.colls, x.coll))
         /\ M!CreateSchedule(m, s, x).db.scheds # m.scheds
<1> DEFINE a == M!CreateSchedule(m, s, x)
           b == P!CreateSchedule(p, s, x)
           gone == Gone(p.hosts, x.host) \/ Gone(p.colls, x.coll)
           X == [m.scheds EXCEPT ![s] = x]
           Y == [p.scheds EXCEPT ![s] = x]
<1> SUFFICES Agreed(a, b, d, n, gone) /\ a.db.scheds # m.scheds
  OBVIOUS
<1>1. /\ m \in Store /\ p \in Store /\ p.colls = m.colls
      /\ m.scheds \in [Scheds -> OrNone(SchedRow)] /\ p.scheds \in [Scheds -> OrNone(SchedRow)]
      /\ SchedsAgree(m.scheds, p.scheds, m.hosts, m.colls)
      /\ ScheduleRefs(m.scheds, d) /\ Numbered(m.scheds, d.scheds)
  BY DEF Meets, Same, Refs, Store
<1>2. x # None
  BY NoneIsNothing
<1>3. gone <=> Gone(m.hosts, x.host) \/ Gone(m.colls, x.coll)
  <2>1. \A h \in Hosts : m.hosts[h] = None <=> p.hosts[h] = None
    BY SameHosts
  <2>2. x.host \in OrNone(Hosts)
    BY DEF SchedRow
  <2>3. QED
    BY <1>1, <2>1, <2>2 DEF Gone, OrNone
<1>a. a.db = [m EXCEPT !.scheds = X] /\ a.out = "ok"
  BY DEF a, M!CreateSchedule, M!Insert, M!Write, M!Ok
<1>b. /\ ~gone => b.db = [p EXCEPT !.scheds = Y] /\ b.out = "ok"
      /\ gone => b.db = p /\ b.out = "constraint"
  <2>1. (\E r \in P!SchedRefs(x) : r[2] # None /\ ~P!Exists(p, r[1], r[2])) <=> gone
    BY DEF P!SchedRefs, P!Exists, Gone
  <2> HIDE DEF gone
  <2>2. QED
    BY <2>1 DEF b, P!CreateSchedule, P!Checked, P!Insert, P!Write, P!Ok, P!Broken
<1> HIDE DEF a, b
<1>4. /\ X \in [Scheds -> OrNone(SchedRow)] /\ Y \in [Scheds -> OrNone(SchedRow)]
      /\ ScheduleRefs(X, d) /\ Numbered(X, d.scheds)
  BY <1>1 DEF OrNone, ScheduleRefs, Numbered
<1>5. a.db.scheds # m.scheds
  <2>1. X[s] = x /\ a.db.scheds = X
    BY <1>1, <1>a DEF Store
  <2>2. QED
    BY <1>2, <2>1
<1> HIDE DEF gone
<1>6. CASE ~gone
  <2>1. SchedsAgree(X, Y, m.hosts, m.colls)
    BY <1>1, <1>3, <1>6 DEF SchedsAgree, ScheduledRow
  <2> HIDE DEF X, Y
  <2>2. Meets([m EXCEPT !.scheds = X], [p EXCEPT !.scheds = Y], d, n)
    BY <1>4, <2>1, SchedsWritten
  <2>3. QED
    BY <1>5, <1>6, <1>a, <1>b, <2>2 DEF Agreed
<1>7. CASE gone
  <2>1. SchedsAgree(X, p.scheds, m.hosts, m.colls)
    BY <1>1, <1>3, <1>7 DEF SchedsAgree, ScheduledRow
  <2> HIDE DEF X, Y
  <2>2. Meets([m EXCEPT !.scheds = X], [p EXCEPT !.scheds = p.scheds], d, n)
    BY <1>1, <1>4, <2>1, SchedsWritten
  <2>3. [p EXCEPT !.scheds = p.scheds] = p
    BY <1>1, TableNames, Unwritten
  <2>4. QED
    BY <1>5, <1>7, <1>a, <1>b, <2>2, <2>3 DEF Agreed
<1>8. QED
  BY <1>6, <1>7

\* UpdateSchedule: the row keeps its host and its collection.
LEMMA UpdateScheduleAgrees ==
  ASSUME NEW m, NEW p, NEW d, NEW n, Meets(m, p, d, n),
         NEW s \in Scheds, m.scheds[s] # None, NEW x \in SchedRow,
         x.host = m.scheds[s].host, x.coll = m.scheds[s].coll
  PROVE  Agreed(M!UpdateSchedule(m, s, x), P!UpdateSchedule(p, s, x), d, n, p.scheds[s] = None)
<1> DEFINE a == M!UpdateSchedule(m, s, x)
           b == P!UpdateSchedule(p, s, x)
           gone == Gone(p.hosts, x.host) \/ Gone(p.colls, x.coll)
           X == [m.scheds EXCEPT ![s] = x]
           Y == [p.scheds EXCEPT ![s] = x]
<1> SUFFICES Agreed(a, b, d, n, p.scheds[s] = None)
  OBVIOUS
<1>1. /\ m \in Store /\ p \in Store /\ p.colls = m.colls
      /\ m.scheds \in [Scheds -> OrNone(SchedRow)] /\ p.scheds \in [Scheds -> OrNone(SchedRow)]
      /\ SchedsAgree(m.scheds, p.scheds, m.hosts, m.colls)
      /\ ScheduleRefs(m.scheds, d) /\ Numbered(m.scheds, d.scheds)
  BY DEF Meets, Same, Refs, Store
<1>2. x # None
  BY NoneIsNothing
<1>3. gone <=> Gone(m.hosts, x.host) \/ Gone(m.colls, x.coll)
  <2>1. \A h \in Hosts : m.hosts[h] = None <=> p.hosts[h] = None
    BY SameHosts
  <2>2. x.host \in OrNone(Hosts)
    BY DEF SchedRow
  <2>3. QED
    BY <1>1, <2>1, <2>2 DEF Gone, OrNone
<1>p. p.scheds[s] = None <=> gone
  BY <1>1, <1>3 DEF SchedsAgree, ScheduledRow
<1>a. a.db = [m EXCEPT !.scheds = X] /\ a.out = "ok"
  BY DEF a, M!UpdateSchedule, M!Replace, M!Change, M!Exists, M!Insert, M!Write, M!Ok
<1>b. /\ ~gone => b.db = [p EXCEPT !.scheds = Y] /\ b.out = "ok"
      /\ gone => b.db = p /\ b.out # "ok"
  <2>1. (\E r \in P!SchedRefs(x) : r[2] # None /\ ~P!Exists(p, r[1], r[2])) <=> gone
    BY DEF P!SchedRefs, P!Exists, Gone
  <2> HIDE DEF gone
  <2>2. QED
    BY <1>p, <2>1 DEF b, P!UpdateSchedule, P!Replace, P!Change, P!Exists, P!Missing, P!Checked,
       P!Insert, P!Write, P!Ok, P!Broken
<1> HIDE DEF a, b
<1>4. /\ X \in [Scheds -> OrNone(SchedRow)] /\ Y \in [Scheds -> OrNone(SchedRow)]
      /\ ScheduleRefs(X, d) /\ Numbered(X, d.scheds)
  BY <1>1 DEF OrNone, ScheduleRefs, Numbered
<1> HIDE DEF gone
<1>6. CASE ~gone
  <2>1. SchedsAgree(X, Y, m.hosts, m.colls)
    BY <1>1, <1>3, <1>6 DEF SchedsAgree, ScheduledRow
  <2> HIDE DEF X, Y
  <2>2. Meets([m EXCEPT !.scheds = X], [p EXCEPT !.scheds = Y], d, n)
    BY <1>4, <2>1, SchedsWritten
  <2>3. QED
    BY <1>6, <1>a, <1>b, <2>2 DEF Agreed
<1>7. CASE gone
  <2>1. SchedsAgree(X, p.scheds, m.hosts, m.colls)
    BY <1>1, <1>3, <1>7 DEF SchedsAgree, ScheduledRow
  <2> HIDE DEF X, Y
  <2>2. Meets([m EXCEPT !.scheds = X], [p EXCEPT !.scheds = p.scheds], d, n)
    BY <1>1, <1>4, <2>1, SchedsWritten
  <2>3. [p EXCEPT !.scheds = p.scheds] = p
    BY <1>1, TableNames, Unwritten
  <2>4. QED
    BY <1>7, <1>p, <1>a, <1>b, <2>2, <2>3 DEF Agreed
<1>8. QED
  BY <1>6, <1>7

\* DeleteSchedule.
LEMMA DeleteScheduleAgrees ==
  ASSUME NEW m, NEW p, NEW d, NEW n, Meets(m, p, d, n), NEW s \in Scheds
  PROVE  Agreed(M!DeleteSchedule(m, s), P!DeleteSchedule(p, s), d, n, FALSE)
<1> DEFINE X == [m.scheds EXCEPT ![s] = None]
           Y == [p.scheds EXCEPT ![s] = None]
<1>1. /\ m.scheds \in [Scheds -> OrNone(SchedRow)] /\ p.scheds \in [Scheds -> OrNone(SchedRow)]
      /\ SchedsAgree(m.scheds, p.scheds, m.hosts, m.colls)
      /\ ScheduleRefs(m.scheds, d) /\ Numbered(m.scheds, d.scheds)
  BY DEF Meets, Same, Refs, Store
<1>2. /\ X \in [Scheds -> OrNone(SchedRow)] /\ Y \in [Scheds -> OrNone(SchedRow)]
      /\ ScheduleRefs(X, d) /\ Numbered(X, d.scheds) /\ SchedsAgree(X, Y, m.hosts, m.colls)
  BY <1>1 DEF OrNone, ScheduleRefs, Numbered, SchedsAgree, ScheduledRow
<1>3. M!DeleteSchedule(m, s) = [db |-> [m EXCEPT !.scheds = X], out |-> "ok"]
  BY DEF M!DeleteSchedule, M!Insert, M!Write, M!Ok
<1>4. P!DeleteSchedule(p, s) = [db |-> [p EXCEPT !.scheds = Y], out |-> "ok"]
  BY DEF P!DeleteSchedule, P!Insert, P!Write, P!Ok
<1> HIDE DEF X, Y
<1>5. QED
  BY <1>2, <1>3, <1>4, SchedsWritten DEF Agreed
-------------------------------------------------------------------------------
(* Hosts and credentials                                                     *)

\* CreateHost: no row names a host that is new.
LEMMA CreateHostAgrees ==
  ASSUME NEW m, NEW p, NEW d, NEW n, Meets(m, p, d, n), NEW h \in Hosts, ~(h <= d.hosts),
         NEW x \in HostRow,
         x.cred # None => x.cred \in Creds /\ x.cred <= d.creds /\ p.creds[x.cred] # None
  PROVE  /\ Agreed(M!CreateHost(m, h, x), P!CreateHost(p, h, x), d, n, FALSE)
         /\ M!CreateHost(m, h, x).db.hosts[h] # None
<1> DEFINE a == M!CreateHost(m, h, x)
           b == P!CreateHost(p, h, x)
           X == [m.hosts EXCEPT ![h] = x]
           Y == [p.hosts EXCEPT ![h] = x]
<1> SUFFICES Agreed(a, b, d, n, FALSE) /\ a.db.hosts[h] # None
  OBVIOUS
<1>1. /\ m \in Store /\ p \in Store /\ p.creds = m.creds
      /\ m.hosts \in [Hosts -> OrNone(HostRow)] /\ p.hosts \in [Hosts -> OrNone(HostRow)]
      /\ HostsAgree(m.hosts, p.hosts, m.creds) /\ HostRefs(m.hosts, d)
  BY DEF Meets, Same, Refs, Store
<1>2. x # None
  BY NoneIsNothing
<1>a. a.db = [m EXCEPT !.hosts = X] /\ a.out = "ok"
  BY DEF a, M!CreateHost, M!Insert, M!Write, M!Ok
<1>b. b.db = [p EXCEPT !.hosts = Y] /\ b.out = "ok"
  <2>1. ~\E r \in {<<"creds", x.cred>>} : r[2] # None /\ ~P!Exists(p, r[1], r[2])
    BY DEF P!Exists
  <2>2. QED
    BY <2>1 DEF b, P!CreateHost, P!Checked, P!Insert, P!Write, P!Ok
<1> HIDE DEF a, b
<1>3. X \in [Hosts -> OrNone(HostRow)] /\ Y \in [Hosts -> OrNone(HostRow)] /\ HostRefs(X, d)
  BY <1>1 DEF OrNone, HostRefs
<1>4. HostsAgree(X, Y, m.creds)
  BY <1>1 DEF HostsAgree, UnlinkedRow, Gone
<1>5. \A i \in Hosts : i <= d.hosts => (X[i] = None <=> m.hosts[i] = None)
  BY <1>1
<1>6. X[h] = x /\ a.db.hosts = X
  BY <1>1, <1>a DEF Store
<1> HIDE DEF X, Y
<1>7. Meets([m EXCEPT !.hosts = X], [p EXCEPT !.hosts = Y], d, n)
  BY <1>3, <1>4, <1>5, HostsWritten
<1>8. QED
  BY <1>2, <1>6, <1>7, <1>a, <1>b DEF Agreed

\* A host is changed: the credentials of the two rows agree.
LEMMA HostChanged ==
  ASSUME NEW m, NEW p, NEW d, NEW n, Meets(m, p, d, n), NEW h \in Hosts, NEW x, NEW y,
         m.hosts[h] # None =>
           /\ x \in HostRow /\ y \in HostRow /\ x.cred = m.hosts[h].cred
           /\ y = UnlinkedRow(x, m.creds)
  PROVE  Agreed(Change(m, "hosts", h, TRUE, x), Change(p, "hosts", h, TRUE, y), d, n, FALSE)
<1> DEFINE a == Change(m, "hosts", h, TRUE, x)
           b == Change(p, "hosts", h, TRUE, y)
           X == [m.hosts EXCEPT ![h] = x]
           Y == [p.hosts EXCEPT ![h] = y]
<1> SUFFICES Agreed(a, b, d, n, FALSE)
  OBVIOUS
<1>1. /\ m.hosts \in [Hosts -> OrNone(HostRow)] /\ p.hosts \in [Hosts -> OrNone(HostRow)]
      /\ HostsAgree(m.hosts, p.hosts, m.creds) /\ HostRefs(m.hosts, d)
  BY DEF Meets, Same, Refs, Store
<1>2. m.hosts[h] = None <=> p.hosts[h] = None
  BY SameHosts
<1>a. /\ m.hosts[h] # None => a.db = [m EXCEPT !.hosts = X] /\ a.out = "ok"
      /\ m.hosts[h] = None => a.db = m /\ a.out = "not found"
  BY DEF a, Change, Exists, Insert, Write, Ok, Missing
<1>b. /\ p.hosts[h] # None => b.db = [p EXCEPT !.hosts = Y] /\ b.out = "ok"
      /\ p.hosts[h] = None => b.db = p /\ b.out = "not found"
  BY DEF b, Change, Exists, Insert, Write, Ok, Missing
<1> HIDE DEF a, b
<1>3. CASE m.hosts[h] # None
  <2>1. X \in [Hosts -> OrNone(HostRow)] /\ Y \in [Hosts -> OrNone(HostRow)] /\ HostRefs(X, d)
    BY <1>1, <1>3 DEF OrNone, HostRefs
  <2>2. HostsAgree(X, Y, m.creds)
    BY <1>1, <1>3 DEF HostsAgree
  <2>3. \A i \in Hosts : i <= d.hosts => (X[i] = None <=> m.hosts[i] = None)
    BY <1>1, <1>3, NoneIsNothing
  <2> HIDE DEF X, Y
  <2>4. Meets([m EXCEPT !.hosts = X], [p EXCEPT !.hosts = Y], d, n)
    BY <2>1, <2>2, <2>3, HostsWritten
  <2>5. QED
    BY <1>2, <1>3, <1>a, <1>b, <2>4 DEF Agreed
<1>4. CASE m.hosts[h] = None
  BY <1>2, <1>4, <1>a, <1>b DEF Agreed
<1>5. QED
  BY <1>3, <1>4

\* UpdateHost: each row as it was read from its store, but for the key and the tags.
LEMMA UpdateHostAgrees ==
  ASSUME NEW m, NEW p, NEW d, NEW n, Meets(m, p, d, n),
         NEW h \in Hosts, m.hosts[h] # None, NEW tags \in SUBSET Tags
  PROVE  Agreed(M!UpdateHost(m, h, [m.hosts[h] EXCEPT !.key = None, !.tags = tags]),
                P!UpdateHost(p, h, [p.hosts[h] EXCEPT !.key = None, !.tags = tags]), d, n, FALSE)
<1> DEFINE r == m.hosts[h]
           q == p.hosts[h]
           x == [r EXCEPT !.key = None, !.tags = tags]
           y == [q EXCEPT !.key = None, !.tags = tags]
<1>1. /\ m.hosts \in [Hosts -> OrNone(HostRow)] /\ p.hosts \in [Hosts -> OrNone(HostRow)]
      /\ HostsAgree(m.hosts, p.hosts, m.creds) /\ p.creds = m.creds
  BY DEF Meets, Same, Refs, Store
<1>2. r \in HostRow /\ q = UnlinkedRow(r, m.creds)
  BY <1>1 DEF HostsAgree, OrNone
<1>3. q \in HostRow /\ ~Gone(m.creds, q.cred) /\ r # None /\ q # None
  BY <1>2, NoneIsNothing DEF UnlinkedRow, HostRow, OrNone, Gone
<1>4. x \in HostRow /\ y \in HostRow /\ x.cred = r.cred /\ y.cred = q.cred
  BY <1>2, <1>3 DEF HostRow, OrNone
<1>5. y = UnlinkedRow(x, m.creds)
  BY <1>2, <1>3, <1>4, NoneIsNothing DEF UnlinkedRow, HostRow
<1>6. M!UpdateHost(m, h, x) = Change(m, "hosts", h, TRUE, x)
  BY DEF M!UpdateHost, M!Replace, M!Change, Change, M!Exists, Exists, M!Insert, Insert, M!Ok, Ok,
     M!Missing, Missing, M!Write, Write
<1>7. P!UpdateHost(p, h, y) = Change(p, "hosts", h, TRUE, y)
  <2> HIDE DEF y
  <2>1. ~\E i \in {<<"creds", y.cred>>} : i[2] # None /\ ~P!Exists(p, i[1], i[2])
    BY <1>1, <1>3, <1>4 DEF P!Exists, Gone
  <2>2. QED
    BY <2>1 DEF P!UpdateHost, P!Checked, P!Replace, P!Change, Change, P!Exists, Exists, P!Insert,
       Insert, P!Ok, Ok, P!Missing, Missing, P!Write, Write
<1> HIDE DEF x, y
<1>8. Agreed(M!UpdateHost(m, h, x), P!UpdateHost(p, h, y), d, n, FALSE)
  BY <1>4, <1>5, <1>6, <1>7, HostChanged
<1>9. QED
  BY <1>8 DEF x, y

\* SetHostOnline: an empty argument changes nothing.
LEMMA SetHostOnlineAgrees ==
  ASSUME NEW m, NEW p, NEW d, NEW n, Meets(m, p, d, n), NEW h \in Hosts, NEW os \in OrNone({"linux"}),
         NEW name \in OrNone({"reported"})
  PROVE  Agreed(M!SetHostOnline(m, h, os, name), P!SetHostOnline(p, h, os, name), d, n, FALSE)
<1> DEFINE r == m.hosts[h]
           q == p.hosts[h]
           x == [r EXCEPT !.status = "online", !.os = IF os = None THEN @ ELSE os,
                        !.name = IF @ = None THEN name ELSE @]
           y == [q EXCEPT !.status = "online", !.os = P!Coalesce(os, @), !.name = P!Coalesce(@, name)]
<1>1. m.hosts \in [Hosts -> OrNone(HostRow)] /\ HostsAgree(m.hosts, p.hosts, m.creds)
  BY DEF Meets, Same, Store
<1>2. r \in OrNone(HostRow) /\ q = UnlinkedRow(r, m.creds)
  BY <1>1 DEF HostsAgree
<1>3. ASSUME r # None
      PROVE  x \in HostRow /\ y \in HostRow /\ x.cred = r.cred /\ y = UnlinkedRow(x, m.creds)
  <2>1. r \in HostRow
    BY <1>2, <1>3 DEF OrNone
  <2>2. x \in HostRow /\ x.cred = r.cred /\ x # None
    <3>1. x \in HostRow /\ x.cred = r.cred
      BY <2>1 DEF HostRow, OrNone
    <3>2. QED
      BY <3>1, NoneIsNothing
  <2>3. CASE Gone(m.creds, r.cred)
    <3>1. q = [r EXCEPT !.cred = None] /\ UnlinkedRow(x, m.creds) = [x EXCEPT !.cred = None]
      BY <1>2, <1>3, <2>2, <2>3 DEF UnlinkedRow
    <3> DEFINE o == IF os = None THEN r.os ELSE os
               g == IF r.name = None THEN name ELSE r.name
    <3>2. x = [r EXCEPT !.status = "online", !.os = o, !.name = g]
      BY <2>1 DEF HostRow
    <3>3. q.os = r.os /\ q.name = r.name
      BY <2>1, <3>1 DEF HostRow
    <3>4. y = [q EXCEPT !.status = "online", !.os = o, !.name = g]
      <4>1. P!Coalesce(os, q.os) = o /\ P!Coalesce(q.name, name) = g
        BY <3>3 DEF P!Coalesce
      <4>2. y = [q EXCEPT !.status = "online", !.os = P!Coalesce(os, q.os),
                          !.name = P!Coalesce(q.name, name)]
        OBVIOUS
      <4> HIDE DEF q, o, g, y
      <4>3. QED
        BY <4>1, <4>2
    <3> HIDE DEF o, g, r, q, x, y
    <3>5. y = [x EXCEPT !.cred = None]
      BY <2>1, <3>1, <3>2, <3>4 DEF HostRow
    <3>6. y \in HostRow
      BY <2>2, <3>5 DEF HostRow, OrNone
    <3>7. QED
      BY <2>2, <3>1, <3>5, <3>6
  <2>4. CASE ~Gone(m.creds, r.cred)
    <3>1. q = r /\ UnlinkedRow(x, m.creds) = x
      BY <1>2, <1>3, <2>2, <2>4 DEF UnlinkedRow
    <3>2. y = x
      BY <2>1, <3>1 DEF HostRow, OrNone, P!Coalesce
    <3>3. QED
      BY <2>2, <3>1, <3>2
  <2>5. QED
    BY <2>3, <2>4
<1>4. M!SetHostOnline(m, h, os, name) = Change(m, "hosts", h, TRUE, x)
  BY DEF M!SetHostOnline, M!Replace, M!Change, Change, M!Exists, Exists, M!Insert, Insert, M!Ok,
     Ok, M!Missing, Missing, M!Write, Write
<1>5. P!SetHostOnline(p, h, os, name) = Change(p, "hosts", h, TRUE, y)
  BY DEF P!SetHostOnline, P!Replace, P!Change, Change, P!Exists, Exists, P!Insert, Insert, P!Ok,
     Ok, P!Missing, Missing, P!Write, Write
<1> HIDE DEF x, y
<1>6. QED
  BY <1>3, <1>4, <1>5, HostChanged

\* SetHostUnreachable.
LEMMA SetHostUnreachableAgrees ==
  ASSUME NEW m, NEW p, NEW d, NEW n, Meets(m, p, d, n), NEW h \in Hosts
  PROVE  Agreed(M!SetHostUnreachable(m, h), P!SetHostUnreachable(p, h), d, n, FALSE)
<1> DEFINE r == m.hosts[h]
           q == p.hosts[h]
           x == [r EXCEPT !.status = "unreachable"]
           y == [q EXCEPT !.status = "unreachable"]
<1>1. m.hosts \in [Hosts -> OrNone(HostRow)] /\ HostsAgree(m.hosts, p.hosts, m.creds)
  BY DEF Meets, Same, Store
<1>2. r \in OrNone(HostRow) /\ q = UnlinkedRow(r, m.creds)
  BY <1>1 DEF HostsAgree
<1>3. ASSUME r # None
      PROVE  x \in HostRow /\ y \in HostRow /\ x.cred = r.cred /\ y = UnlinkedRow(x, m.creds)
  <2>1. r \in HostRow
    BY <1>2, <1>3 DEF OrNone
  <2>2. x \in HostRow /\ x.cred = r.cred /\ x # None
    <3>1. x \in HostRow /\ x.cred = r.cred
      BY <2>1 DEF HostRow, OrNone
    <3>2. QED
      BY <3>1, NoneIsNothing
  <2>3. CASE Gone(m.creds, r.cred)
    <3>1. q = [r EXCEPT !.cred = None] /\ UnlinkedRow(x, m.creds) = [x EXCEPT !.cred = None]
      BY <1>2, <1>3, <2>2, <2>3 DEF UnlinkedRow
    <3>2. y = [x EXCEPT !.cred = None] /\ y \in HostRow
      BY <2>1, <3>1 DEF HostRow, OrNone, P!Coalesce
    <3>3. QED
      BY <2>2, <3>1, <3>2
  <2>4. CASE ~Gone(m.creds, r.cred)
    <3>1. q = r /\ UnlinkedRow(x, m.creds) = x
      BY <1>2, <1>3, <2>2, <2>4 DEF UnlinkedRow
    <3>2. y = x
      BY <2>1, <3>1 DEF HostRow, OrNone, P!Coalesce
    <3>3. QED
      BY <2>2, <3>1, <3>2
  <2>5. QED
    BY <2>3, <2>4
<1>4. M!SetHostUnreachable(m, h) = Change(m, "hosts", h, TRUE, x)
  BY DEF M!SetHostUnreachable, M!Replace, M!Change, Change, M!Exists, Exists, M!Insert, Insert,
     M!Ok, Ok, M!Missing, Missing, M!Write, Write
<1>5. P!SetHostUnreachable(p, h) = Change(p, "hosts", h, TRUE, y)
  BY DEF P!SetHostUnreachable, P!Replace, P!Change, Change, P!Exists, Exists, P!Insert, Insert,
     P!Ok, Ok, P!Missing, Missing, P!Write, Write
<1> HIDE DEF x, y
<1>6. QED
  BY <1>3, <1>4, <1>5, HostChanged

\* SetHostSSHHostKey.
LEMMA SetHostSSHHostKeyAgrees ==
  ASSUME NEW m, NEW p, NEW d, NEW n, Meets(m, p, d, n), NEW h \in Hosts, NEW key \in {"pinned"}
  PROVE  Agreed(M!SetHostSSHHostKey(m, h, key), P!SetHostSSHHostKey(p, h, key), d, n, FALSE)
<1> DEFINE r == m.hosts[h]
           q == p.hosts[h]
           x == [r EXCEPT !.key = key]
           y == [q EXCEPT !.key = key]
<1>1. m.hosts \in [Hosts -> OrNone(HostRow)] /\ HostsAgree(m.hosts, p.hosts, m.creds)
  BY DEF Meets, Same, Store
<1>2. r \in OrNone(HostRow) /\ q = UnlinkedRow(r, m.creds)
  BY <1>1 DEF HostsAgree
<1>3. ASSUME r # None
      PROVE  x \in HostRow /\ y \in HostRow /\ x.cred = r.cred /\ y = UnlinkedRow(x, m.creds)
  <2>1. r \in HostRow
    BY <1>2, <1>3 DEF OrNone
  <2>2. x \in HostRow /\ x.cred = r.cred /\ x # None
    <3>1. x \in HostRow /\ x.cred = r.cred
      BY <2>1 DEF HostRow, OrNone
    <3>2. QED
      BY <3>1, NoneIsNothing
  <2>3. CASE Gone(m.creds, r.cred)
    <3>1. q = [r EXCEPT !.cred = None] /\ UnlinkedRow(x, m.creds) = [x EXCEPT !.cred = None]
      BY <1>2, <1>3, <2>2, <2>3 DEF UnlinkedRow
    <3>2. y = [x EXCEPT !.cred = None] /\ y \in HostRow
      BY <2>1, <3>1 DEF HostRow, OrNone, P!Coalesce
    <3>3. QED
      BY <2>2, <3>1, <3>2
  <2>4. CASE ~Gone(m.creds, r.cred)
    <3>1. q = r /\ UnlinkedRow(x, m.creds) = x
      BY <1>2, <1>3, <2>2, <2>4 DEF UnlinkedRow
    <3>2. y = x
      BY <2>1, <3>1 DEF HostRow, OrNone, P!Coalesce
    <3>3. QED
      BY <2>2, <3>1, <3>2
  <2>5. QED
    BY <2>3, <2>4
<1>4. M!SetHostSSHHostKey(m, h, key) = Change(m, "hosts", h, TRUE, x)
  BY DEF M!SetHostSSHHostKey, M!Replace, M!Change, Change, M!Exists, Exists, M!Insert, Insert,
     M!Ok, Ok, M!Missing, Missing, M!Write, Write
<1>5. P!SetHostSSHHostKey(p, h, key) = Change(p, "hosts", h, TRUE, y)
  BY DEF P!SetHostSSHHostKey, P!Replace, P!Change, Change, P!Exists, Exists, P!Insert, Insert,
     P!Ok, Ok, P!Missing, Missing, P!Write, Write
<1> HIDE DEF x, y
<1>6. QED
  BY <1>3, <1>4, <1>5, HostChanged

\* DeleteHost: all that belongs to the host goes with it in Postgres.
LEMMA DeleteHostAgrees ==
  ASSUME NEW m, NEW p, NEW d, NEW n, Meets(m, p, d, n), group # "retention", NEW h \in Hosts
  PROVE  Agreed(M!DeleteHost(m, h), P!DeleteHost(p, h), d, n, FALSE)
<1> DEFINE a == M!DeleteHost(m, h)
           b == P!DeleteHost(p, h)
           X == [m.hosts EXCEPT ![h] = None]
           Y == [p.hosts EXCEPT ![h] = None]
           m1 == [m EXCEPT !.hosts = X]
           p1 == [p EXCEPT !.hosts = Y]
           k == P!Cascade(p1)
<1> SUFFICES Agreed(a, b, d, n, FALSE)
  OBVIOUS
<1>1. /\ m \in Store /\ p \in Store /\ Same(m, p)
      /\ m.hosts \in [Hosts -> OrNone(HostRow)] /\ p.hosts \in [Hosts -> OrNone(HostRow)]
      /\ HostsAgree(m.hosts, p.hosts, m.creds) /\ HostRefs(m.hosts, d)
  BY DEF Meets, Same, Refs, Store
<1>2. m.hosts[h] = None <=> p.hosts[h] = None
  BY SameHosts
<1>a. /\ m.hosts[h] # None => a.db = m1 /\ a.out = "ok"
      /\ m.hosts[h] = None => a.db = m /\ a.out = "not found"
  BY DEF M!DeleteHost, M!Delete, M!Replace, M!Change, M!Exists, M!Insert, M!Ok, M!Missing, M!Write
<1>b. /\ p.hosts[h] # None => b.db = k /\ b.out = "ok"
      /\ p.hosts[h] = None => b.db = p /\ b.out = "not found"
  BY DEF P!DeleteHost, P!Remove, P!Erase, P!Exists, P!Ok, P!Missing, P!Write
<1>3. /\ X \in [Hosts -> OrNone(HostRow)] /\ Y \in [Hosts -> OrNone(HostRow)]
      /\ \A i \in Hosts : m.hosts[i] = None => X[i] = None
      /\ HostRefs(X, d) /\ HostsAgree(X, Y, m.creds)
  BY <1>1 DEF OrNone, HostRefs, HostsAgree, UnlinkedRow
<1>4. Removed(m1, p1, m.hosts, m.creds, m.colls, m.users, p.scans, p.obs)
  <2> HIDE DEF X, Y
  <2>1. m1 \in Store /\ p1 \in Store
    BY <1>1, <1>3 DEF Store
  <2>2. QED
    BY <1>1, <1>3, <2>1 DEF Removed, Same, OutboxAgrees, Meets, Addressed, Store
<1>5. k \in Store /\ Same(m1, k) /\ k.audit = p1.audit
  BY <1>4, CascadeMeets
<1>6. Meets(m1, k, d, n)
  <2> HIDE DEF X, Y, k
  <2>1. m1 \in Store /\ p1.audit = p.audit
    BY <1>1, <1>3 DEF Store
  <2>2. QED
    BY <1>1, <1>3, <1>5, <2>1 DEF Meets, Refs, Addressed, Leased, GroupHolds, Store
<1> HIDE DEF a, b, m1, k
<1>7. QED
  BY <1>2, <1>a, <1>b, <1>6 DEF Agreed

\* CreateCredential: no host names a credential that is new.
LEMMA CreateCredentialAgrees ==
  ASSUME NEW m, NEW p, NEW d, NEW n, Meets(m, p, d, n), NEW c \in Creds, ~(c <= d.creds)
  PROVE  Agreed(M!CreateCredential(m, c), P!CreateCredential(p, c), d, n, FALSE)
<1> DEFINE X == [m.creds EXCEPT ![c] = "sealed"]
<1>1. /\ m.creds \in [Creds -> OrNone({"sealed"})] /\ p.creds = m.creds
      /\ m.hosts \in [Hosts -> OrNone(HostRow)]
      /\ HostsAgree(m.hosts, p.hosts, m.creds) /\ HostRefs(m.hosts, d)
  BY DEF Meets, Same, Refs, Store
<1>2. X \in [Creds -> OrNone({"sealed"})]
  BY <1>1 DEF OrNone
<1>3. HostsAgree(m.hosts, p.hosts, X)
  <2> SUFFICES ASSUME NEW h \in Hosts
               PROVE  UnlinkedRow(m.hosts[h], X) = UnlinkedRow(m.hosts[h], m.creds)
    BY <1>1 DEF HostsAgree
  <2>1. m.hosts[h] # None /\ m.hosts[h].cred # None => m.hosts[h].cred # c
    BY <1>1 DEF HostRefs
  <2>2. QED
    BY <1>1, <2>1 DEF UnlinkedRow, Gone
<1>4. M!CreateCredential(m, c) = [db |-> [m EXCEPT !.creds = X], out |-> "ok"]
  BY DEF M!CreateCredential, M!Insert, M!Write, M!Ok
<1>5. P!CreateCredential(p, c) = [db |-> [p EXCEPT !.creds = X], out |-> "ok"]
  BY <1>1 DEF P!CreateCredential, P!Insert, P!Write, P!Ok
<1> HIDE DEF X
<1>6. QED
  BY <1>2, <1>3, <1>4, <1>5, CredsWritten DEF Agreed

\* DeleteCredential: hosts of Postgres forget it.
LEMMA DeleteCredentialAgrees ==
  ASSUME NEW m, NEW p, NEW d, NEW n, Meets(m, p, d, n), NEW c \in Creds
  PROVE  Agreed(M!DeleteCredential(m, c), P!DeleteCredential(p, c), d, n, FALSE)
<1> DEFINE a == M!DeleteCredential(m, c)
           b == P!DeleteCredential(p, c)
           X == [m.creds EXCEPT ![c] = None]
           m1 == [m EXCEPT !.creds = X]
           p1 == [p EXCEPT !.creds = X]
           k == P!Cascade(p1)
<1> SUFFICES Agreed(a, b, d, n, FALSE)
  OBVIOUS
<1>1. /\ m \in Store /\ p \in Store /\ Same(m, p)
      /\ m.creds \in [Creds -> OrNone({"sealed"})] /\ p.creds = m.creds
  BY DEF Meets, Same, Store
<1>a. /\ m.creds[c] # None => a.db = m1 /\ a.out = "ok"
      /\ m.creds[c] = None => a.db = m /\ a.out = "not found"
  BY DEF M!DeleteCredential, M!Delete, M!Replace, M!Change, M!Exists, M!Insert, M!Ok, M!Missing,
     M!Write
<1>b. /\ m.creds[c] # None => b.db = k /\ b.out = "ok"
      /\ m.creds[c] = None => b.db = p /\ b.out = "not found"
  BY <1>1 DEF P!DeleteCredential, P!Remove, P!Erase, P!Exists, P!Ok, P!Missing, P!Write
<1>3. /\ X \in [Creds -> OrNone({"sealed"})]
      /\ \A i \in Creds : m.creds[i] = None => X[i] = None
  BY <1>1 DEF OrNone
<1>4. Removed(m1, p1, m.hosts, m.creds, m.colls, m.users, p.scans, p.obs)
  <2> HIDE DEF X
  <2>1. m1 \in Store /\ p1 \in Store
    BY <1>1, <1>3 DEF Store
  <2>2. QED
    BY <1>1, <1>3, <2>1 DEF Removed, Same, OutboxAgrees, Meets, Addressed, Store
<1>5. k \in Store /\ Same(m1, k) /\ k.audit = p1.audit
  BY <1>4, CascadeMeets
<1>6. Meets(m1, k, d, n)
  <2> HIDE DEF X, k
  <2>1. m1 \in Store /\ p1.audit = p.audit
    BY <1>1, <1>3 DEF Store
  <2>2. QED
    BY <1>1, <1>3, <1>5, <2>1 DEF Meets, Refs, Addressed, Leased, GroupHolds, Store
<1> HIDE DEF a, b, m1, k
<1>7. QED
  BY <1>a, <1>b, <1>6 DEF Agreed

-------------------------------------------------------------------------------
(* Scans                                                                     *)

\* CreateScan: no finding and no job names a scan that is new.
LEMMA CreateScanAgrees ==
  ASSUME NEW m, NEW p, NEW d, NEW e, NEW n \in Nat, Meets(m, p, d, n), Meets(m, p, e, n),
         NEW s \in Scans, ~(s <= d.scans), s <= e.scans, NEW h \in Hosts, h <= e.hosts
  PROVE  /\ Agreed(M!CreateScan(m, s, h, n), P!CreateScan(p, s, h, n), e, n, p.hosts[h] = None)
         /\ M!CreateScan(m, s, h, n).db.scans # m.scans
<1> DEFINE a == M!CreateScan(m, s, h, n)
           b == P!CreateScan(p, s, h, n)
           x == NewScan(h, n)
           X == [m.scans EXCEPT ![s] = x]
           Y == [p.scans EXCEPT ![s] = x]
<1> SUFFICES Agreed(a, b, e, n, p.hosts[h] = None) /\ a.db.scans # m.scans
  OBVIOUS
<1>1. /\ m \in Store /\ p \in Store
      /\ m.scans \in [Scans -> OrNone(ScanRow)] /\ p.scans \in [Scans -> OrNone(ScanRow)]
      /\ m.obs \in [Obs -> OrNone(FindingRow)] /\ m.jobs \in [Jobs -> OrNone(JobRow)]
      /\ HostedAgree(m.scans, p.scans, Scans, m.hosts)
      /\ FindingsAgree(m.obs, p.obs, m.hosts, p.scans) /\ JobsAgree(m.jobs, p.jobs, m.hosts, p.scans)
      /\ OfScans(m.obs, d) /\ OfScans(m.jobs, d)
      /\ OfHosts(m.scans, e) /\ Numbered(m.scans, d.scans) /\ Numbered(m.scans, e.scans)
      /\ Past(m.scans, n)
  BY DEF Meets, Same, Refs, Store
<1>2. m.hosts[h] = None <=> p.hosts[h] = None
  BY SameHosts
<1>3. x \in ScanRow /\ x.host = h /\ x.started = n /\ x # None /\ h # None
  <2>1. x \in ScanRow /\ x.host = h /\ x.started = n
    BY DEF NewScan, ScanRow
  <2>2. QED
    BY <2>1, NoneIsNothing
<1>4. m.scans[s] = None /\ p.scans[s] = None
  <2>1. m.scans[s] = None
    BY <1>1 DEF Numbered
  <2>2. QED
    BY <1>1, <2>1 DEF HostedAgree, HostedRow
<1>a. a.db = [m EXCEPT !.scans = X] /\ a.out = "ok"
  BY DEF a, M!CreateScan, M!Insert, M!Write, M!Ok, M!NewScan, NewScan
<1>b. /\ p.hosts[h] # None => b.db = [p EXCEPT !.scans = Y] /\ b.out = "ok"
      /\ p.hosts[h] = None => b.db = p /\ b.out = "constraint"
  <2>1. (\E r \in {<<"hosts", h>>} : r[2] # None /\ ~P!Exists(p, r[1], r[2])) <=> p.hosts[h] = None
    BY <1>3 DEF P!Exists
  <2>2. QED
    BY <2>1 DEF b, P!CreateScan, P!Checked, P!Insert, P!Write, P!Ok, P!Broken, P!NewScan, NewScan
<1> HIDE DEF a, b, x
<1>5. /\ X \in [Scans -> OrNone(ScanRow)] /\ Y \in [Scans -> OrNone(ScanRow)]
      /\ OfHosts(X, e) /\ Numbered(X, e.scans) /\ Past(X, n)
  <2>1. n <= n
    OBVIOUS
  <2>2. QED
    BY <1>1, <1>3, <2>1 DEF OrNone, OfHosts, Numbered, Past
<1>6. a.db.scans # m.scans
  <2>1. X[s] = x /\ a.db.scans = X
    BY <1>1, <1>a DEF Store
  <2>2. QED
    BY <1>3, <1>4, <2>1
<1>7. CASE p.hosts[h] # None
  <2>1. HostedAgree(X, Y, Scans, m.hosts)
    BY <1>1, <1>2, <1>3, <1>7 DEF HostedAgree, HostedRow, Gone
  <2>2. FindingsAgree(m.obs, p.obs, m.hosts, Y)
    <3> SUFFICES ASSUME NEW o \in Obs
                 PROVE  ScannedRow(HostedRow(m.obs[o], m.hosts), Y)
                          = ScannedRow(HostedRow(m.obs[o], m.hosts), p.scans)
      BY <1>1 DEF FindingsAgree
    <3>1. m.obs[o] # None /\ m.obs[o].scan # None => m.obs[o].scan # s
      BY <1>1 DEF OfScans
    <3>2. QED
      BY <1>1, <3>1 DEF ScannedRow, HostedRow
  <2>3. JobsAgree(m.jobs, p.jobs, m.hosts, Y)
    <3> SUFFICES ASSUME NEW j \in Jobs
                 PROVE  ScannedRow(HostedRow(m.jobs[j], m.hosts), Y)
                          = ScannedRow(HostedRow(m.jobs[j], m.hosts), p.scans)
      BY <1>1 DEF JobsAgree
    <3>1. m.jobs[j] # None /\ m.jobs[j].scan # None => m.jobs[j].scan # s
      BY <1>1 DEF OfScans
    <3>2. QED
      BY <1>1, <3>1 DEF ScannedRow, HostedRow
  <2> HIDE DEF X, Y
  <2>4. Meets([m EXCEPT !.scans = X], [p EXCEPT !.scans = Y], e, n)
    BY <1>5, <2>1, <2>2, <2>3, ScansWritten
  <2>5. QED
    BY <1>6, <1>7, <1>a, <1>b, <2>4 DEF Agreed
<1>8. CASE p.hosts[h] = None
  <2>1. HostedAgree(X, p.scans, Scans, m.hosts)
    BY <1>1, <1>2, <1>3, <1>4, <1>8 DEF HostedAgree, HostedRow, Gone
  <2> HIDE DEF X, Y
  <2>2. Meets([m EXCEPT !.scans = X], [p EXCEPT !.scans = p.scans], e, n)
    BY <1>1, <1>5, <2>1, ScansWritten
  <2>3. [p EXCEPT !.scans = p.scans] = p
    BY <1>1, TableNames, Unwritten
  <2>4. QED
    BY <1>6, <1>8, <1>a, <1>b, <2>2, <2>3 DEF Agreed
<1>9. QED
  BY <1>7, <1>8

\* UpdateScan: Memory replaces the row, Postgres its status.
LEMMA UpdateScanAgrees ==
  ASSUME NEW m, NEW p, NEW d, NEW n, Meets(m, p, d, n),
         NEW s \in Scans, m.scans[s] # None, NEW status \in {"ok", "failed"}
  PROVE  Agreed(M!UpdateScan(m, s, [m.scans[s] EXCEPT !.status = status]),
                P!UpdateScan(p, s, [m.scans[s] EXCEPT !.status = status]), d, n,
                p.scans[s] = None)
<1> DEFINE x == [m.scans[s] EXCEPT !.status = status]
           a == M!UpdateScan(m, s, x)
           b == P!UpdateScan(p, s, x)
           X == [m.scans EXCEPT ![s] = x]
           Y == [p.scans EXCEPT ![s] = x]
<1> SUFFICES Agreed(a, b, d, n, p.scans[s] = None)
  OBVIOUS
<1>1. /\ m \in Store /\ p \in Store
      /\ m.scans \in [Scans -> OrNone(ScanRow)] /\ p.scans \in [Scans -> OrNone(ScanRow)]
      /\ m.obs \in [Obs -> OrNone(FindingRow)] /\ m.jobs \in [Jobs -> OrNone(JobRow)]
      /\ HostedAgree(m.scans, p.scans, Scans, m.hosts)
      /\ FindingsAgree(m.obs, p.obs, m.hosts, p.scans) /\ JobsAgree(m.jobs, p.jobs, m.hosts, p.scans)
      /\ OfHosts(m.scans, d) /\ Numbered(m.scans, d.scans) /\ Past(m.scans, n)
  BY DEF Meets, Same, Refs, Store
<1>2. x \in ScanRow /\ x.host = m.scans[s].host /\ x.started = m.scans[s].started /\ x.status = status
  BY <1>1 DEF OrNone, ScanRow
<1>3. x # None
  BY <1>2, NoneIsNothing
<1>p. p.scans[s] = HostedRow(m.scans[s], m.hosts)
  BY <1>1 DEF HostedAgree
<1>a. a.db = [m EXCEPT !.scans = X] /\ a.out = "ok"
  BY DEF a, M!UpdateScan, M!Replace, M!Change, M!Exists, M!Insert, M!Write, M!Ok
<1>b. /\ p.scans[s] # None => b.db = [p EXCEPT !.scans = Y] /\ b.out = "ok"
      /\ p.scans[s] = None => b.db = p /\ b.out = "not found"
  <2>1. p.scans[s] # None => [p.scans[s] EXCEPT !.status = x.status] = x
    BY <1>2, <1>p DEF HostedRow
  <2>2. QED
    BY <2>1 DEF b, P!UpdateScan, P!Replace, P!Change, P!Exists, P!Insert, P!Write, P!Ok, P!Missing
<1> HIDE DEF a, b, x
<1>5. /\ X \in [Scans -> OrNone(ScanRow)] /\ Y \in [Scans -> OrNone(ScanRow)]
      /\ OfHosts(X, d) /\ Numbered(X, d.scans) /\ Past(X, n)
  BY <1>1, <1>2 DEF OrNone, OfHosts, Numbered, Past
<1>7. CASE p.scans[s] # None
  <2>1. HostedAgree(X, Y, Scans, m.hosts)
    BY <1>1, <1>2, <1>p, <1>7 DEF HostedAgree, HostedRow
  <2>2. \A i \in Scans : Y[i] = None <=> p.scans[i] = None
    BY <1>1, <1>3, <1>7
  <2>3. FindingsAgree(m.obs, p.obs, m.hosts, Y)
    BY <1>1, <2>2 DEF FindingsAgree, ScannedRow, HostedRow, OrNone, FindingRow
  <2>4. JobsAgree(m.jobs, p.jobs, m.hosts, Y)
    <3> SUFFICES ASSUME NEW j \in Jobs
                 PROVE  ScannedRow(HostedRow(m.jobs[j], m.hosts), Y)
                          = ScannedRow(HostedRow(m.jobs[j], m.hosts), p.scans)
      BY <1>1 DEF JobsAgree
    <3>1. QED
      BY <1>1, <2>2 DEF ScannedRow, HostedRow, OrNone, JobRow
  <2> HIDE DEF X, Y
  <2>5. Meets([m EXCEPT !.scans = X], [p EXCEPT !.scans = Y], d, n)
    BY <1>5, <2>1, <2>3, <2>4, ScansWritten
  <2>6. QED
    BY <1>7, <1>a, <1>b, <2>5 DEF Agreed
<1>8. CASE p.scans[s] = None
  <2>1. HostedAgree(X, p.scans, Scans, m.hosts)
    BY <1>1, <1>2, <1>p, <1>8 DEF HostedAgree, HostedRow
  <2> HIDE DEF X, Y
  <2>2. Meets([m EXCEPT !.scans = X], [p EXCEPT !.scans = p.scans], d, n)
    BY <1>1, <1>5, <2>1, ScansWritten
  <2>3. [p EXCEPT !.scans = p.scans] = p
    BY <1>1, TableNames, Unwritten
  <2>4. QED
    BY <1>8, <1>a, <1>b, <2>2, <2>3 DEF Agreed
<1>9. QED
  BY <1>7, <1>8
-------------------------------------------------------------------------------
(* Scan jobs                                                                 *)

\* The rows of a job in the two stores.
LEMMA JobRows ==
  ASSUME NEW m, NEW p, NEW d, NEW n, Meets(m, p, d, n), NEW j \in Jobs
  PROVE  LET r == m.jobs[j]
             q == p.jobs[j]
         IN /\ r \in OrNone(JobRow) /\ q \in OrNone(JobRow) /\ HeldByLease(r) /\ DueAtTime(r)
            /\ q = None <=> r = None \/ Gone(m.hosts, r.host)
            /\ q # None =>
                 /\ q.host = r.host /\ q.status = r.status /\ q.attempts = r.attempts
                 /\ q.worker = r.worker /\ q.lease = r.lease
                 /\ q.scan = IF r.scan # None /\ p.scans[r.scan] = None THEN None ELSE r.scan
                 /\ q.status # "failed" => q.due = r.due
<1> DEFINE r == m.jobs[j]
           q == p.jobs[j]
           t == HostedRow(r, m.hosts)
           s == ScannedRow(t, p.scans)
<1>1. /\ r \in OrNone(JobRow) /\ q \in OrNone(JobRow) /\ HeldByLease(r) /\ DueAtTime(r)
      /\ Undated(q) = Undated(s)
  BY DEF Meets, Same, JobsAgree, Leased, Store
<1>2. t \in OrNone(JobRow) /\ (t = None <=> r = None \/ Gone(m.hosts, r.host)) /\ (t # None => t = r)
  BY <1>1 DEF HostedRow, OrNone
<1> HIDE DEF r, q, t
<1>3. /\ s \in OrNone(JobRow) /\ (s = None <=> t = None)
      /\ t # None => /\ s.host = t.host /\ s.status = t.status /\ s.attempts = t.attempts
                     /\ s.worker = t.worker /\ s.lease = t.lease /\ s.due = t.due
                     /\ s.scan = IF t.scan # None /\ p.scans[t.scan] = None THEN None ELSE t.scan
  BY <1>2, ScannedJob
<1> HIDE DEF s
<1>4. \/ q = None /\ s = None
      \/ /\ q # None /\ s # None
         /\ q.host = s.host /\ q.status = s.status /\ q.attempts = s.attempts
         /\ q.worker = s.worker /\ q.lease = s.lease /\ q.scan = s.scan
         /\ q.status # "failed" => q.due = s.due
  BY <1>1, <1>3, UndatedRows
<1>5. QED
  BY <1>1, <1>2, <1>3, <1>4 DEF r, q

\* A job is changed, on conditions c and e that agree: y is what x is in Postgres.
JobStep(m, p, d, j, c, e, x, y) ==
  /\ c \in BOOLEAN /\ e \in BOOLEAN
  /\ m.jobs[j] # None /\ c =>
       /\ x \in JobRow /\ x.host = m.jobs[j].host /\ HeldByLease(x) /\ DueAtTime(x)
       /\ x.scan # None => x.scan <= d.scans
  /\ p.jobs[j] # None =>
       /\ c <=> e
       /\ c => /\ y \in JobRow /\ y.host = x.host /\ y.status = x.status /\ y.attempts = x.attempts
               /\ y.worker = x.worker /\ y.lease = x.lease
               /\ y.scan = IF x.scan # None /\ p.scans[x.scan] = None THEN None ELSE x.scan
               /\ y.status # "failed" => y.due = x.due

\* The stores go on agreeing.
LEMMA JobChanged ==
  ASSUME NEW m, NEW p, NEW d, NEW n, Meets(m, p, d, n), NEW j \in Jobs,
         NEW c, NEW e, NEW x, NEW y, JobStep(m, p, d, j, c, e, x, y)
  PROVE  Agreed(Change(m, "jobs", j, c, x), Change(p, "jobs", j, e, y), d, n, p.jobs[j] = None)
<1> DEFINE a == Change(m, "jobs", j, c, x)
           b == Change(p, "jobs", j, e, y)
           X == [m.jobs EXCEPT ![j] = x]
           Y == [p.jobs EXCEPT ![j] = y]
<1> SUFFICES Agreed(a, b, d, n, p.jobs[j] = None)
  OBVIOUS
<1>0. /\ c \in BOOLEAN /\ e \in BOOLEAN
      /\ m.jobs[j] # None /\ c =>
           /\ x \in JobRow /\ x.host = m.jobs[j].host /\ HeldByLease(x) /\ DueAtTime(x)
           /\ x.scan # None => x.scan <= d.scans
      /\ p.jobs[j] # None =>
           /\ c <=> e
           /\ c => /\ y \in JobRow /\ y.host = x.host /\ y.status = x.status /\ y.attempts = x.attempts
                   /\ y.worker = x.worker /\ y.lease = x.lease
                   /\ y.scan = IF x.scan # None /\ p.scans[x.scan] = None THEN None ELSE x.scan
                   /\ y.status # "failed" => y.due = x.due
  BY DEF JobStep
<1>1. /\ m \in Store /\ p \in Store
      /\ m.jobs \in [Jobs -> OrNone(JobRow)] /\ p.jobs \in [Jobs -> OrNone(JobRow)]
      /\ JobsAgree(m.jobs, p.jobs, m.hosts, p.scans) /\ OfHosts(m.jobs, d) /\ OfScans(m.jobs, d)
      /\ \A i \in Jobs : HeldByLease(m.jobs[i]) /\ DueAtTime(m.jobs[i])
  BY DEF Meets, Same, Refs, Leased, Store
<1>a. /\ m.jobs[j] # None /\ c => a.db = [m EXCEPT !.jobs = X] /\ a.out = "ok"
      /\ ~(m.jobs[j] # None /\ c) => a.db = m /\ a.out = "not found"
  BY <1>0 DEF a, Change, Exists, Insert, Write, Ok, Missing
<1>b. /\ p.jobs[j] # None /\ e => b.db = [p EXCEPT !.jobs = Y] /\ b.out = "ok"
      /\ ~(p.jobs[j] # None /\ e) => b.db = p /\ b.out = "not found"
  BY <1>0 DEF b, Change, Exists, Insert, Write, Ok, Missing
<1>p. p.jobs[j] = None <=> m.jobs[j] = None \/ Gone(m.hosts, m.jobs[j].host)
  BY JobRows
<1> HIDE DEF a, b
<1>2. CASE m.jobs[j] # None /\ c
  <2>1. /\ X \in [Jobs -> OrNone(JobRow)] /\ OfHosts(X, d) /\ OfScans(X, d)
        /\ \A i \in Jobs : HeldByLease(X[i]) /\ DueAtTime(X[i])
    BY <1>0, <1>1, <1>2 DEF OrNone, OfHosts, OfScans
  <2>2. x \in JobRow /\ x # None /\ x.host = m.jobs[j].host
    BY <1>0, <1>2, NoneIsNothing
  <2>3. CASE p.jobs[j] # None
    <3>1. y \in JobRow /\ e
      BY <1>0, <1>2, <2>3
    <3>2. Y \in [Jobs -> OrNone(JobRow)]
      BY <1>1, <3>1 DEF OrNone
    <3>3. Undated(y) = Undated(ScannedRow(HostedRow(x, m.hosts), p.scans))
      <4>1. HostedRow(x, m.hosts) = x
        BY <1>2, <1>p, <2>2, <2>3 DEF HostedRow
      <4> DEFINE s == ScannedRow(x, p.scans)
      <4>2. /\ s \in OrNone(JobRow) /\ s # None
            /\ s.host = x.host /\ s.status = x.status /\ s.attempts = x.attempts
            /\ s.worker = x.worker /\ s.lease = x.lease /\ s.due = x.due
            /\ s.scan = IF x.scan # None /\ p.scans[x.scan] = None THEN None ELSE x.scan
        <5>1. x \in OrNone(JobRow)
          BY <2>2 DEF OrNone
        <5>2. QED
          BY <2>2, <5>1, ScannedJob
      <4> HIDE DEF s
      <4>3. y \in OrNone(JobRow) /\ y # None
        BY <3>1, NoneIsNothing DEF OrNone
      <4>4. Undated(y) = Undated(s)
        BY <1>0, <1>2, <2>3, <4>2, <4>3, UndatedRows
      <4>5. QED
        BY <4>1, <4>4 DEF s
    <3>4. JobsAgree(X, Y, m.hosts, p.scans)
      BY <1>1, <3>3 DEF JobsAgree
    <3> HIDE DEF X, Y
    <3>5. Meets([m EXCEPT !.jobs = X], [p EXCEPT !.jobs = Y], d, n)
      BY <2>1, <3>2, <3>4, JobsWritten
    <3>6. QED
      BY <1>2, <2>3, <1>a, <1>b, <3>1, <3>5 DEF Agreed
  <2>4. CASE p.jobs[j] = None
    <3>1. JobsAgree(X, p.jobs, m.hosts, p.scans)
      <4>1. HostedRow(x, m.hosts) = None
        BY <1>2, <1>p, <2>2, <2>4 DEF HostedRow
      <4>2. Undated(p.jobs[j]) = Undated(ScannedRow(HostedRow(x, m.hosts), p.scans))
        BY <2>4, <4>1 DEF ScannedRow
      <4>3. QED
        BY <1>1, <4>2 DEF JobsAgree
    <3> HIDE DEF X, Y
    <3>2. Meets([m EXCEPT !.jobs = X], [p EXCEPT !.jobs = p.jobs], d, n)
      BY <1>1, <2>1, <3>1, JobsWritten
    <3>3. [p EXCEPT !.jobs = p.jobs] = p
      BY <1>1, TableNames, Unwritten
    <3>4. QED
      BY <1>2, <2>4, <1>a, <1>b, <3>2, <3>3 DEF Agreed
  <2>5. QED
    BY <2>3, <2>4
<1>3. CASE ~(m.jobs[j] # None /\ c)
  <2>1. ~(p.jobs[j] # None /\ e)
    BY <1>0, <1>3, <1>p
  <2>2. QED
    BY <1>3, <1>a, <1>b, <2>1 DEF Agreed
<1>4. QED
  BY <1>2, <1>3

\* EnqueueScanJob: one active job for each host.
LEMMA EnqueueScanJobAgrees ==
  ASSUME NEW m, NEW p, NEW d, NEW n \in Nat, Meets(m, p, d, n),
         NEW j \in Jobs, NEW h \in Hosts, h <= d.hosts
  PROVE  Agreed(M!EnqueueScanJob(m, j, h, n), P!EnqueueScanJob(p, j, h, n), d, n, p.hosts[h] = None)
<1> DEFINE a == M!EnqueueScanJob(m, j, h, n)
           b == P!EnqueueScanJob(p, j, h, n)
           x == NewJob(h, n)
           X == [m.jobs EXCEPT ![j] = x]
           Y == [p.jobs EXCEPT ![j] = x]
           active(T) == \E i \in Jobs : T[i] # None /\ T[i].host = h /\ T[i].status \in {"queued", "running"}
<1> SUFFICES Agreed(a, b, d, n, p.hosts[h] = None)
  OBVIOUS
<1>1. /\ m.jobs \in [Jobs -> OrNone(JobRow)] /\ p.jobs \in [Jobs -> OrNone(JobRow)]
      /\ JobsAgree(m.jobs, p.jobs, m.hosts, p.scans) /\ OfHosts(m.jobs, d) /\ OfScans(m.jobs, d)
      /\ \A i \in Jobs : HeldByLease(m.jobs[i]) /\ DueAtTime(m.jobs[i])
  BY DEF Meets, Same, Refs, Leased, Store
<1>2. m.hosts[h] = None <=> p.hosts[h] = None
  BY SameHosts
<1>3. /\ x \in JobRow /\ x.host = h /\ x.scan = None /\ HeldByLease(x) /\ DueAtTime(x)
      /\ x # None /\ h # None
  <2>1. x \in JobRow /\ x.host = h /\ x.scan = None /\ x.status = "queued" /\ x.due = n
    BY DEF NewJob, JobRow, OrNone
  <2>2. QED
    BY <2>1, NoneIsNothing DEF HeldByLease, DueAtTime
<1>4. m.hosts[h] # None => (active(m.jobs) <=> active(p.jobs))
  <2>1. \A i \in Jobs :
          /\ p.jobs[i] = None <=> m.jobs[i] = None \/ Gone(m.hosts, m.jobs[i].host)
          /\ p.jobs[i] # None => p.jobs[i].host = m.jobs[i].host /\ p.jobs[i].status = m.jobs[i].status
    BY JobRows
  <2>2. QED
    BY <2>1 DEF Gone
<1>a. /\ m.hosts[h] = None => a.db = m /\ a.out = "not found"
      /\ m.hosts[h] # None /\ active(m.jobs) => a.db = m /\ a.out = "ok"
      /\ m.hosts[h] # None /\ ~active(m.jobs) => a.db = [m EXCEPT !.jobs = X] /\ a.out = "ok"
  <2>1. M!Active(m, h) # {} <=> active(m.jobs)
    BY DEF M!Active, M!Exists
  <2> HIDE DEF active
  <2>2. QED
    BY <2>1 DEF a, M!EnqueueScanJob, M!Exists, M!Insert, M!Write, M!Ok, M!Missing, M!NewJob, NewJob
<1>b. /\ p.hosts[h] = None => b.db = p /\ b.out = "constraint"
      /\ p.hosts[h] # None /\ active(p.jobs) => b.db = p /\ b.out = "ok"
      /\ p.hosts[h] # None /\ ~active(p.jobs) => b.db = [p EXCEPT !.jobs = Y] /\ b.out = "ok"
  <2>1. (\E r \in {<<"hosts", h>>} : r[2] # None /\ ~P!Exists(p, r[1], r[2])) <=> p.hosts[h] = None
    BY <1>3 DEF P!Exists
  <2>2. (\E i \in Jobs : P!Exists(p, "jobs", i) /\ p.jobs[i].host = h
                          /\ p.jobs[i].status \in {"queued", "running"}) <=> active(p.jobs)
    BY DEF P!Exists
  <2> HIDE DEF active
  <2>3. QED
    BY <2>1, <2>2 DEF b, P!EnqueueScanJob, P!Checked, P!Insert, P!Write, P!Ok, P!Broken, P!NewJob,
       NewJob
<1> HIDE DEF a, b, x
<1>5. CASE m.hosts[h] # None /\ ~active(m.jobs)
  <2>1. /\ X \in [Jobs -> OrNone(JobRow)] /\ Y \in [Jobs -> OrNone(JobRow)]
        /\ OfHosts(X, d) /\ OfScans(X, d) /\ \A i \in Jobs : HeldByLease(X[i]) /\ DueAtTime(X[i])
    BY <1>1, <1>3 DEF OrNone, OfHosts, OfScans
  <2>2. ScannedRow(HostedRow(x, m.hosts), p.scans) = x
    BY <1>3, <1>5 DEF ScannedRow, HostedRow, Gone
  <2>3. JobsAgree(X, Y, m.hosts, p.scans)
    BY <1>1, <2>2 DEF JobsAgree
  <2> HIDE DEF X, Y
  <2>4. Meets([m EXCEPT !.jobs = X], [p EXCEPT !.jobs = Y], d, n)
    BY <2>1, <2>3, JobsWritten
  <2>5. QED
    BY <1>2, <1>4, <1>5, <1>a, <1>b, <2>4 DEF Agreed
<1> HIDE DEF active
<1>6. CASE m.hosts[h] = None \/ active(m.jobs)
  BY <1>2, <1>4, <1>6, <1>a, <1>b DEF Agreed
<1>7. QED
  BY <1>5, <1>6

\* RenewScanJobLease: by the worker that holds the job.
LEMMA RenewScanJobLeaseAgrees ==
  ASSUME NEW m, NEW p, NEW d, NEW n \in Nat, Meets(m, p, d, n),
         NEW j \in Jobs, NEW w \in Workers, NEW until \in Nat
  PROVE  Agreed(M!RenewScanJobLease(m, j, w, until),
                P!RenewScanJobLease(p, j, w, until), d, n, p.jobs[j] = None)
<1> DEFINE r == m.jobs[j]
           q == p.jobs[j]
           x == [r EXCEPT !.lease = until]
           y == [q EXCEPT !.lease = until]
           c == r.status = "running" /\ r.worker = w
           e == q.worker = w /\ q.status = "running"
<1>1. /\ r \in OrNone(JobRow) /\ q \in OrNone(JobRow) /\ HeldByLease(r) /\ DueAtTime(r)
      /\ q = None <=> r = None \/ Gone(m.hosts, r.host)
      /\ q # None =>
           /\ q.host = r.host /\ q.status = r.status /\ q.attempts = r.attempts
           /\ q.worker = r.worker /\ q.lease = r.lease
           /\ q.scan = IF r.scan # None /\ p.scans[r.scan] = None THEN None ELSE r.scan
           /\ q.status # "failed" => q.due = r.due
  BY JobRows
<1>2. M!RenewScanJobLease(m, j, w, until) = Change(m, "jobs", j, c, x)
  BY DEF M!RenewScanJobLease, M!OwnsJob, M!Change, Change, M!Exists, Exists, M!Insert, Insert,
     M!Ok, Ok, M!Missing, Missing, M!Write, Write
<1>3. P!RenewScanJobLease(p, j, w, until) = Change(p, "jobs", j, e, y)
  BY DEF P!RenewScanJobLease, P!OwnsJob, P!Change, Change, P!Exists, Exists, P!Insert, Insert,
     P!Ok, Ok, P!Missing, Missing, P!Write, Write
<1> HIDE DEF r, q
<1>4. r # None /\ c => /\ x \in JobRow /\ x.host = r.host /\ HeldByLease(x) /\ DueAtTime(x)
                       /\ x.scan # None => x.scan <= d.scans
  <2>1. r # None => r \in JobRow
    BY <1>1 DEF OrNone
  <2>2. r # None /\ r.scan # None => r.scan <= d.scans
    BY DEF r, Meets, Refs, OfScans, Store
  <2>3. QED
    BY <1>1, <2>1, <2>2, NoneIsNothing DEF JobRow, OrNone, HeldByLease, DueAtTime
<1>5. q # None =>
        /\ c <=> e
        /\ c => /\ y \in JobRow /\ y.host = x.host /\ y.status = x.status /\ y.attempts = x.attempts
                /\ y.worker = x.worker /\ y.lease = x.lease
                /\ y.scan = IF x.scan # None /\ p.scans[x.scan] = None THEN None ELSE x.scan
                /\ y.status # "failed" => y.due = x.due
  <2>1. q # None => q \in JobRow /\ r \in JobRow
    BY <1>1 DEF OrNone
  <2>2. QED
    BY <1>1, <2>1 DEF JobRow, OrNone
<1>6. c \in BOOLEAN /\ e \in BOOLEAN
  OBVIOUS
<1> HIDE DEF c, e, x, y
<1>7. JobStep(m, p, d, j, c, e, x, y)
  BY <1>4, <1>5, <1>6 DEF JobStep, r, q
<1>8. QED
  BY <1>2, <1>3, <1>7, JobChanged

\* FailScanJob: only Postgres dates a job that has failed for good.
LEMMA FailScanJobAgrees ==
  ASSUME NEW m, NEW p, NEW d, NEW n \in Nat, Meets(m, p, d, n),
         NEW j \in Jobs, NEW w \in Workers, NEW at \in Nat,
         NEW terminal \in BOOLEAN
  PROVE  Agreed(M!FailScanJob(m, j, w, at, terminal),
                P!FailScanJob(p, j, w, at, terminal), d, n, p.jobs[j] = None)
<1> DEFINE r == m.jobs[j]
           q == p.jobs[j]
           x == [r EXCEPT !.status = IF terminal THEN "failed" ELSE "queued",
                      !.due = IF terminal THEN @ ELSE at, !.worker = None, !.lease = None]
           y == [q EXCEPT !.status = IF terminal THEN "failed" ELSE "queued",
                      !.due = at, !.worker = None, !.lease = None]
           c == r.status = "running" /\ r.worker = w
           e == q.worker = w /\ q.status = "running"
<1>1. /\ r \in OrNone(JobRow) /\ q \in OrNone(JobRow) /\ HeldByLease(r) /\ DueAtTime(r)
      /\ q = None <=> r = None \/ Gone(m.hosts, r.host)
      /\ q # None =>
           /\ q.host = r.host /\ q.status = r.status /\ q.attempts = r.attempts
           /\ q.worker = r.worker /\ q.lease = r.lease
           /\ q.scan = IF r.scan # None /\ p.scans[r.scan] = None THEN None ELSE r.scan
           /\ q.status # "failed" => q.due = r.due
  BY JobRows
<1>2. M!FailScanJob(m, j, w, at, terminal) = Change(m, "jobs", j, c, x)
  BY DEF M!FailScanJob, M!OwnsJob, M!Change, Change, M!Exists, Exists, M!Insert, Insert, M!Ok, Ok,
     M!Missing, Missing, M!Write, Write
<1>3. P!FailScanJob(p, j, w, at, terminal) = Change(p, "jobs", j, e, y)
  BY DEF P!FailScanJob, P!OwnsJob, P!Change, Change, P!Exists, Exists, P!Insert, Insert, P!Ok, Ok,
     P!Missing, Missing, P!Write, Write
<1> HIDE DEF r, q
<1>4. r # None /\ c => /\ x \in JobRow /\ x.host = r.host /\ HeldByLease(x) /\ DueAtTime(x)
                       /\ x.scan # None => x.scan <= d.scans
  <2>1. r # None => r \in JobRow
    BY <1>1 DEF OrNone
  <2>2. r # None /\ r.scan # None => r.scan <= d.scans
    BY DEF r, Meets, Refs, OfScans, Store
  <2>3. QED
    BY <1>1, <2>1, <2>2, NoneIsNothing DEF JobRow, OrNone, HeldByLease, DueAtTime
<1>5. q # None =>
        /\ c <=> e
        /\ c => /\ y \in JobRow /\ y.host = x.host /\ y.status = x.status /\ y.attempts = x.attempts
                /\ y.worker = x.worker /\ y.lease = x.lease
                /\ y.scan = IF x.scan # None /\ p.scans[x.scan] = None THEN None ELSE x.scan
                /\ y.status # "failed" => y.due = x.due
  <2>1. q # None => q \in JobRow /\ r \in JobRow
    BY <1>1 DEF OrNone
  <2>2. QED
    BY <1>1, <2>1 DEF JobRow, OrNone
<1>6. c \in BOOLEAN /\ e \in BOOLEAN
  OBVIOUS
<1> HIDE DEF c, e, x, y
<1>7. JobStep(m, p, d, j, c, e, x, y)
  BY <1>4, <1>5, <1>6 DEF JobStep, r, q
<1>8. QED
  BY <1>2, <1>3, <1>7, JobChanged

\* CompleteScanJob: the scan exists.
LEMMA CompleteScanJobAgrees ==
  ASSUME NEW m, NEW p, NEW d, NEW n \in Nat, Meets(m, p, d, n), NEW j \in Jobs, NEW w \in Workers,
         NEW s \in OrNone(Scans), s # None => s <= d.scans /\ p.scans[s] # None
  PROVE  Agreed(M!CompleteScanJob(m, j, w, s), P!CompleteScanJob(p, j, w, s), d, n, p.jobs[j] = None)
<1> DEFINE r == m.jobs[j]
           q == p.jobs[j]
           x == [r EXCEPT !.status = "succeeded", !.scan = s, !.worker = None, !.lease = None]
           y == [q EXCEPT !.status = "succeeded", !.scan = s, !.worker = None, !.lease = None]
           c == r.status = "running" /\ r.worker = w
           e == q.worker = w /\ q.status = "running"
<1>1. /\ r \in OrNone(JobRow) /\ q \in OrNone(JobRow) /\ HeldByLease(r) /\ DueAtTime(r)
      /\ q = None <=> r = None \/ Gone(m.hosts, r.host)
      /\ q # None =>
           /\ q.host = r.host /\ q.status = r.status /\ q.attempts = r.attempts
           /\ q.worker = r.worker /\ q.lease = r.lease
           /\ q.scan = IF r.scan # None /\ p.scans[r.scan] = None THEN None ELSE r.scan
           /\ q.status # "failed" => q.due = r.due
  BY JobRows
<1>2. M!CompleteScanJob(m, j, w, s) = Change(m, "jobs", j, c, x)
  BY DEF M!CompleteScanJob, M!OwnsJob, M!Change, Change, M!Exists, Exists, M!Insert, Insert, M!Ok,
     Ok, M!Missing, Missing, M!Write, Write
<1>3. P!CompleteScanJob(p, j, w, s) = Change(p, "jobs", j, e, y)
  <2>1. ~\E i \in {<<"scans", s>>} : i[2] # None /\ ~P!Exists(p, i[1], i[2])
    BY DEF P!Exists
  <2>2. QED
    BY <2>1 DEF P!CompleteScanJob, P!Checked, P!OwnsJob, P!Change, Change, P!Exists, Exists,
       P!Insert, Insert, P!Ok, Ok, P!Missing, Missing, P!Write, Write
<1> HIDE DEF r, q
<1>4. r # None /\ c => /\ x \in JobRow /\ x.host = r.host /\ HeldByLease(x) /\ DueAtTime(x)
                       /\ x.scan # None => x.scan <= d.scans
  <2>1. r # None => r \in JobRow
    BY <1>1 DEF OrNone
  <2>2. r # None /\ r.scan # None => r.scan <= d.scans
    BY DEF r, Meets, Refs, OfScans, Store
  <2>3. QED
    BY <1>1, <2>1, <2>2, NoneIsNothing DEF JobRow, OrNone, HeldByLease, DueAtTime
<1>5. q # None =>
        /\ c <=> e
        /\ c => /\ y \in JobRow /\ y.host = x.host /\ y.status = x.status /\ y.attempts = x.attempts
                /\ y.worker = x.worker /\ y.lease = x.lease
                /\ y.scan = IF x.scan # None /\ p.scans[x.scan] = None THEN None ELSE x.scan
                /\ y.status # "failed" => y.due = x.due
  <2>1. q # None => q \in JobRow /\ r \in JobRow
    BY <1>1 DEF OrNone
  <2>2. QED
    BY <1>1, <2>1 DEF JobRow, OrNone
<1>6. c \in BOOLEAN /\ e \in BOOLEAN
  OBVIOUS
<1> HIDE DEF c, e, x, y
<1>7. JobStep(m, p, d, j, c, e, x, y)
  BY <1>4, <1>5, <1>6 DEF JobStep, r, q
<1>8. QED
  BY <1>2, <1>3, <1>7, JobChanged

\* ClaimScanJob: of the job that is next in both.
LEMMA ClaimScanJobAgrees ==
  ASSUME NEW m, NEW p, NEW d, NEW n \in Nat, Meets(m, p, d, n), NEW j \in Jobs, NEW w \in Workers,
         j \in M!NextJobs(m, n), j \in P!NextJobs(p, n)
  PROVE  Agreed(M!ClaimScanJob(m, j, w, n), P!ClaimScanJob(p, j, w, n), d, n, p.jobs[j] = None)
<1> DEFINE r == m.jobs[j]
           q == p.jobs[j]
           x == [r EXCEPT !.status = "running", !.worker = w, !.lease = n + 1, !.attempts = @ + 1]
           y == [q EXCEPT !.status = "running", !.worker = w, !.lease = n + 1, !.attempts = @ + 1]
           c == TRUE
           e == TRUE
<1>1. /\ r \in OrNone(JobRow) /\ q \in OrNone(JobRow) /\ HeldByLease(r) /\ DueAtTime(r)
      /\ q = None <=> r = None \/ Gone(m.hosts, r.host)
      /\ q # None =>
           /\ q.host = r.host /\ q.status = r.status /\ q.attempts = r.attempts
           /\ q.worker = r.worker /\ q.lease = r.lease
           /\ q.scan = IF r.scan # None /\ p.scans[r.scan] = None THEN None ELSE r.scan
           /\ q.status # "failed" => q.due = r.due
  BY JobRows
<1>2. M!ClaimScanJob(m, j, w, n) = Change(m, "jobs", j, c, x)
  BY DEF M!ClaimScanJob, M!OwnsJob, M!Change, Change, M!Exists, Exists, M!Insert, Insert, M!Ok, Ok,
     M!Missing, Missing, M!Write, Write
<1>3. P!ClaimScanJob(p, j, w, n) = Change(p, "jobs", j, e, y)
  BY DEF P!ClaimScanJob, P!OwnsJob, P!Change, Change, P!Exists, Exists, P!Insert, Insert, P!Ok, Ok,
     P!Missing, Missing, P!Write, Write
<1> HIDE DEF r, q
<1>4. r # None /\ c => /\ x \in JobRow /\ x.host = r.host /\ HeldByLease(x) /\ DueAtTime(x)
                       /\ x.scan # None => x.scan <= d.scans
  <2>1. r # None => r \in JobRow
    BY <1>1 DEF OrNone
  <2>2. r # None /\ r.scan # None => r.scan <= d.scans
    BY DEF r, Meets, Refs, OfScans, Store
  <2>3. r # None => r.attempts + 1 \in Nat /\ n + 1 \in OrNone(Nat) /\ w \in OrNone(Workers)
    BY <2>1 DEF JobRow, OrNone
  <2>4. r # None => /\ x \in JobRow /\ x.host = r.host /\ x.status = "running" /\ x.lease = n + 1
                    /\ x.scan = r.scan
    BY <2>1, <2>3 DEF JobRow
  <2> HIDE DEF x
  <2>5. n + 1 # None
    BY NoneIsNothing
  <2>6. QED
    BY <2>2, <2>4, <2>5 DEF HeldByLease, DueAtTime
<1>5. q # None =>
        /\ c <=> e
        /\ c => /\ y \in JobRow /\ y.host = x.host /\ y.status = x.status /\ y.attempts = x.attempts
                /\ y.worker = x.worker /\ y.lease = x.lease
                /\ y.scan = IF x.scan # None /\ p.scans[x.scan] = None THEN None ELSE x.scan
                /\ y.status # "failed" => y.due = x.due
  <2>1. q # None => q \in JobRow /\ r \in JobRow
    BY <1>1 DEF OrNone
  <2>2. q # None => /\ y \in JobRow /\ y.host = q.host /\ y.status = "running" /\ y.worker = w
                    /\ y.lease = n + 1 /\ y.attempts = q.attempts + 1 /\ y.scan = q.scan /\ y.due = q.due
    <3>1. q # None => q.attempts + 1 \in Nat /\ n + 1 \in OrNone(Nat) /\ w \in OrNone(Workers)
      BY <2>1 DEF JobRow, OrNone
    <3>2. QED
      BY <2>1, <3>1 DEF JobRow
  <2>3. q # None => /\ x.host = r.host /\ x.status = "running" /\ x.worker = w
                    /\ x.lease = n + 1 /\ x.attempts = r.attempts + 1 /\ x.scan = r.scan /\ x.due = r.due
    BY <2>1 DEF JobRow
  <2>4. q # None => q.status # "failed"
    BY DEF q, P!NextJobs, P!ClaimableJobs, First, P!First
  <2> HIDE DEF x, y
  <2>5. QED
    BY <1>1, <2>2, <2>3, <2>4
<1>6. c \in BOOLEAN /\ e \in BOOLEAN
  OBVIOUS
<1> HIDE DEF c, e, x, y
<1>7. JobStep(m, p, d, j, c, e, x, y)
  BY <1>4, <1>5, <1>6 DEF JobStep, r, q
<1>8. QED
  BY <1>2, <1>3, <1>7, JobChanged

-------------------------------------------------------------------------------
(* Response actions                                                          *)

\* An action is changed, on conditions c and e that agree, to rows that agree.
ActionStep(m, p, a, c, e, x, y) ==
  /\ c \in BOOLEAN /\ e \in BOOLEAN
  /\ m.responses[a] # None /\ c =>
       x \in ActionRow /\ x.host = m.responses[a].host /\ HeldByLease(x)
  /\ p.responses[a] # None => (c <=> e) /\ (c => y = x)

\* The rows of an action in the two stores.
LEMMA ActionRows ==
  ASSUME NEW m, NEW p, NEW d, NEW n, Meets(m, p, d, n), NEW a \in Actions
  PROVE  /\ m.responses[a] \in OrNone(ActionRow) /\ HeldByLease(m.responses[a])
         /\ p.responses[a] = HostedRow(m.responses[a], m.hosts)
         /\ p.responses[a] # None => p.responses[a] = m.responses[a]
<1>1. /\ m.responses[a] \in OrNone(ActionRow) /\ HeldByLease(m.responses[a])
      /\ p.responses[a] = HostedRow(m.responses[a], m.hosts)
  BY DEF Meets, Same, HostedAgree, Leased, Store
<1>2. QED
  BY <1>1 DEF HostedRow

\* The stores go on agreeing.
LEMMA ActionChanged ==
  ASSUME NEW m, NEW p, NEW d, NEW n, Meets(m, p, d, n), NEW a \in Actions,
         NEW c, NEW e, NEW x, NEW y, ActionStep(m, p, a, c, e, x, y)
  PROVE  Agreed(Change(m, "responses", a, c, x), Change(p, "responses", a, e, y), d, n,
                p.responses[a] = None)
<1> DEFINE f == Change(m, "responses", a, c, x)
           g == Change(p, "responses", a, e, y)
           X == [m.responses EXCEPT ![a] = x]
           Y == [p.responses EXCEPT ![a] = y]
<1> SUFFICES Agreed(f, g, d, n, p.responses[a] = None)
  OBVIOUS
<1>0. /\ c \in BOOLEAN /\ e \in BOOLEAN
      /\ m.responses[a] # None /\ c =>
           x \in ActionRow /\ x.host = m.responses[a].host /\ HeldByLease(x)
      /\ p.responses[a] # None => (c <=> e) /\ (c => y = x)
  BY DEF ActionStep
<1>1. /\ m \in Store /\ p \in Store
      /\ m.responses \in [Actions -> OrNone(ActionRow)] /\ p.responses \in [Actions -> OrNone(ActionRow)]
      /\ HostedAgree(m.responses, p.responses, Actions, m.hosts) /\ OfHosts(m.responses, d)
      /\ \A i \in Actions : HeldByLease(m.responses[i])
  BY DEF Meets, Same, Refs, Leased, Store
<1>a. /\ m.responses[a] # None /\ c => f.db = [m EXCEPT !.responses = X] /\ f.out = "ok"
      /\ ~(m.responses[a] # None /\ c) => f.db = m /\ f.out = "not found"
  BY <1>0 DEF f, Change, Exists, Insert, Write, Ok, Missing
<1>b. /\ p.responses[a] # None /\ e => g.db = [p EXCEPT !.responses = Y] /\ g.out = "ok"
      /\ ~(p.responses[a] # None /\ e) => g.db = p /\ g.out = "not found"
  BY <1>0 DEF g, Change, Exists, Insert, Write, Ok, Missing
<1>p. p.responses[a] = HostedRow(m.responses[a], m.hosts)
  BY <1>1 DEF HostedAgree
<1> HIDE DEF f, g
<1>2. CASE m.responses[a] # None /\ c
  <2>1. x \in ActionRow /\ x.host = m.responses[a].host /\ HeldByLease(x) /\ x # None
    BY <1>0, <1>2, NoneIsNothing
  <2>2. /\ X \in [Actions -> OrNone(ActionRow)] /\ OfHosts(X, d)
        /\ \A i \in Actions : HeldByLease(X[i])
    BY <1>1, <1>2, <2>1 DEF OrNone, OfHosts
  <2>3. CASE p.responses[a] # None
    <3>1. y = x /\ e
      BY <1>0, <1>2, <2>3
    <3>2. Y \in [Actions -> OrNone(ActionRow)]
      BY <1>1, <2>1, <3>1 DEF OrNone
    <3>3. HostedAgree(X, Y, Actions, m.hosts)
      BY <1>1, <1>2, <1>p, <2>1, <2>3, <3>1 DEF HostedAgree, HostedRow
    <3> HIDE DEF X, Y
    <3>4. Meets([m EXCEPT !.responses = X], [p EXCEPT !.responses = Y], d, n)
      BY <2>2, <3>2, <3>3, ResponsesWritten
    <3>5. QED
      BY <1>2, <2>3, <1>a, <1>b, <3>1, <3>4 DEF Agreed
  <2>4. CASE p.responses[a] = None
    <3>1. HostedAgree(X, p.responses, Actions, m.hosts)
      BY <1>1, <1>2, <1>p, <2>1, <2>4 DEF HostedAgree, HostedRow
    <3> HIDE DEF X, Y
    <3>2. Meets([m EXCEPT !.responses = X], [p EXCEPT !.responses = p.responses], d, n)
      BY <1>1, <2>2, <3>1, ResponsesWritten
    <3>3. [p EXCEPT !.responses = p.responses] = p
      BY <1>1, TableNames, Unwritten
    <3>4. QED
      BY <1>2, <2>4, <1>a, <1>b, <3>2, <3>3 DEF Agreed
  <2>5. QED
    BY <2>3, <2>4
<1>3. CASE ~(m.responses[a] # None /\ c)
  <2>1. ~(p.responses[a] # None /\ e)
    BY <1>0, <1>3, <1>p DEF HostedRow
  <2>2. QED
    BY <1>3, <1>a, <1>b, <2>1 DEF Agreed
<1>4. QED
  BY <1>2, <1>3

\* CreateResponseAction: for a host that exists.
LEMMA CreateResponseActionAgrees ==
  ASSUME NEW m, NEW p, NEW d, NEW n, Meets(m, p, d, n),
         NEW a \in Actions, NEW h \in Hosts, h <= d.hosts, NEW u \in Names
  PROVE  Agreed(M!CreateResponseAction(m, a, h, u), P!CreateResponseAction(p, a, h, u), d, n,
                p.hosts[h] = None)
<1> DEFINE f == M!CreateResponseAction(m, a, h, u)
           g == P!CreateResponseAction(p, a, h, u)
           x == NewAction(h, u)
           X == [m.responses EXCEPT ![a] = x]
           Y == [p.responses EXCEPT ![a] = x]
<1> SUFFICES Agreed(f, g, d, n, p.hosts[h] = None)
  OBVIOUS
<1>1. /\ m.responses \in [Actions -> OrNone(ActionRow)] /\ p.responses \in [Actions -> OrNone(ActionRow)]
      /\ HostedAgree(m.responses, p.responses, Actions, m.hosts) /\ OfHosts(m.responses, d)
      /\ \A i \in Actions : HeldByLease(m.responses[i])
  BY DEF Meets, Same, Refs, Leased, Store
<1>2. m.hosts[h] = None <=> p.hosts[h] = None
  BY SameHosts
<1>3. x \in ActionRow /\ x.host = h /\ HeldByLease(x) /\ x # None /\ h # None
  <2>1. x \in ActionRow /\ x.host = h /\ x.status = "pending"
    BY DEF NewAction, ActionRow, OrNone
  <2>2. QED
    BY <2>1, NoneIsNothing DEF HeldByLease
<1>a. /\ m.hosts[h] = None => f.db = m /\ f.out = "not found"
      /\ m.hosts[h] # None => f.db = [m EXCEPT !.responses = X] /\ f.out = "ok"
  BY DEF f, M!CreateResponseAction, M!Exists, M!Insert, M!Write, M!Ok, M!Missing, M!NewAction,
     NewAction
<1>b. /\ p.hosts[h] = None => g.db = p /\ g.out = "constraint"
      /\ p.hosts[h] # None => g.db = [p EXCEPT !.responses = Y] /\ g.out = "ok"
  <2>1. (\E r \in {<<"hosts", h>>} : r[2] # None /\ ~P!Exists(p, r[1], r[2])) <=> p.hosts[h] = None
    BY <1>3 DEF P!Exists
  <2>2. QED
    BY <2>1 DEF g, P!CreateResponseAction, P!Checked, P!Insert, P!Write, P!Ok, P!Broken,
       P!NewAction, NewAction
<1> HIDE DEF f, g, x
<1>4. CASE m.hosts[h] # None
  <2>1. /\ X \in [Actions -> OrNone(ActionRow)] /\ Y \in [Actions -> OrNone(ActionRow)]
        /\ OfHosts(X, d) /\ \A i \in Actions : HeldByLease(X[i])
    BY <1>1, <1>3 DEF OrNone, OfHosts
  <2>2. HostedAgree(X, Y, Actions, m.hosts)
    BY <1>1, <1>3, <1>4 DEF HostedAgree, HostedRow, Gone
  <2> HIDE DEF X, Y
  <2>3. Meets([m EXCEPT !.responses = X], [p EXCEPT !.responses = Y], d, n)
    BY <2>1, <2>2, ResponsesWritten
  <2>4. QED
    BY <1>2, <1>4, <1>a, <1>b, <2>3 DEF Agreed
<1>5. CASE m.hosts[h] = None
  BY <1>2, <1>5, <1>a, <1>b DEF Agreed
<1>6. QED
  BY <1>4, <1>5

\* RejectResponseAction: while it is pending.
LEMMA RejectResponseActionAgrees ==
  ASSUME NEW m, NEW p, NEW d, NEW n \in Nat, Meets(m, p, d, n), NEW a \in Actions, NEW u \in Names
  PROVE  Agreed(M!RejectResponseAction(m, a, u),
                P!RejectResponseAction(p, a, u), d, n, p.responses[a] = None)
<1> DEFINE r == m.responses[a]
           q == p.responses[a]
           x == [r EXCEPT !.status = "rejected", !.rejecter = u]
           y == [q EXCEPT !.status = "rejected", !.rejecter = u]
           c == r.status = "pending"
           e == q.status = "pending"
<1>1. r \in OrNone(ActionRow) /\ HeldByLease(r) /\ (q # None => q = r)
  BY ActionRows
<1>2. M!RejectResponseAction(m, a, u) = Change(m, "responses", a, c, x)
  BY DEF M!RejectResponseAction, M!Change, Change, M!Exists, Exists, M!Insert, Insert, M!Ok, Ok,
     M!Missing, Missing, M!Write, Write
<1>3. P!RejectResponseAction(p, a, u) = Change(p, "responses", a, e, y)
  BY DEF P!RejectResponseAction, P!Change, Change, P!Exists, Exists, P!Insert, Insert, P!Ok, Ok,
     P!Missing, Missing, P!Write, Write
<1> HIDE DEF r, q
<1>4. r # None /\ c => x \in ActionRow /\ x.host = r.host /\ HeldByLease(x)
  BY <1>1, NoneIsNothing DEF ActionRow, OrNone, HeldByLease
<1>5. q # None => (c <=> e) /\ (c => y = x)
  BY <1>1
<1>6. c \in BOOLEAN /\ e \in BOOLEAN
  OBVIOUS
<1> HIDE DEF c, e, x, y
<1>7. ActionStep(m, p, a, c, e, x, y)
  BY <1>4, <1>5, <1>6 DEF ActionStep, r, q
<1>8. QED
  BY <1>2, <1>3, <1>7, ActionChanged

\* RenewResponseActionLease: by the worker that holds it.
LEMMA RenewResponseActionLeaseAgrees ==
  ASSUME NEW m, NEW p, NEW d, NEW n \in Nat, Meets(m, p, d, n), NEW a \in Actions, NEW w \in Workers,
         NEW until \in Nat
  PROVE  Agreed(M!RenewResponseActionLease(m, a, w, until),
                P!RenewResponseActionLease(p, a, w, until), d, n, p.responses[a] = None)
<1> DEFINE r == m.responses[a]
           q == p.responses[a]
           x == [r EXCEPT !.lease = until]
           y == [q EXCEPT !.lease = until]
           c == r.status = "running" /\ r.worker = w
           e == q.worker = w /\ q.status = "running"
<1>1. r \in OrNone(ActionRow) /\ HeldByLease(r) /\ (q # None => q = r)
  BY ActionRows
<1>2. M!RenewResponseActionLease(m, a, w, until) = Change(m, "responses", a, c, x)
  BY DEF M!RenewResponseActionLease, M!Change, Change, M!Exists, Exists, M!Insert, Insert, M!Ok,
     Ok, M!Missing, Missing, M!Write, Write, M!OwnsAction
<1>3. P!RenewResponseActionLease(p, a, w, until) = Change(p, "responses", a, e, y)
  BY DEF P!RenewResponseActionLease, P!Change, Change, P!Exists, Exists, P!Insert, Insert, P!Ok,
     Ok, P!Missing, Missing, P!Write, Write, P!OwnsAction
<1> HIDE DEF r, q
<1>4. r # None /\ c => x \in ActionRow /\ x.host = r.host /\ HeldByLease(x)
  BY <1>1, NoneIsNothing DEF ActionRow, OrNone, HeldByLease
<1>5. q # None => (c <=> e) /\ (c => y = x)
  BY <1>1
<1>6. c \in BOOLEAN /\ e \in BOOLEAN
  OBVIOUS
<1> HIDE DEF c, e, x, y
<1>7. ActionStep(m, p, a, c, e, x, y)
  BY <1>4, <1>5, <1>6 DEF ActionStep, r, q
<1>8. QED
  BY <1>2, <1>3, <1>7, ActionChanged

\* CompleteResponseAction: by the worker that holds it.
LEMMA CompleteResponseActionAgrees ==
  ASSUME NEW m, NEW p, NEW d, NEW n \in Nat, Meets(m, p, d, n), NEW a \in Actions, NEW w \in Workers
  PROVE  Agreed(M!CompleteResponseAction(m, a, w),
                P!CompleteResponseAction(p, a, w), d, n, p.responses[a] = None)
<1> DEFINE r == m.responses[a]
           q == p.responses[a]
           x == [r EXCEPT !.status = "succeeded", !.worker = None, !.lease = None]
           y == [q EXCEPT !.status = "succeeded", !.worker = None, !.lease = None]
           c == r.status = "running" /\ r.worker = w
           e == q.worker = w /\ q.status = "running"
<1>1. r \in OrNone(ActionRow) /\ HeldByLease(r) /\ (q # None => q = r)
  BY ActionRows
<1>2. M!CompleteResponseAction(m, a, w) = Change(m, "responses", a, c, x)
  BY DEF M!CompleteResponseAction, M!Change, Change, M!Exists, Exists, M!Insert, Insert, M!Ok, Ok,
     M!Missing, Missing, M!Write, Write, M!OwnsAction, M!SettledAction
<1>3. P!CompleteResponseAction(p, a, w) = Change(p, "responses", a, e, y)
  BY DEF P!CompleteResponseAction, P!Change, Change, P!Exists, Exists, P!Insert, Insert, P!Ok, Ok,
     P!Missing, Missing, P!Write, Write, P!OwnsAction
<1> HIDE DEF r, q
<1>4. r # None /\ c => x \in ActionRow /\ x.host = r.host /\ HeldByLease(x)
  BY <1>1, NoneIsNothing DEF ActionRow, OrNone, HeldByLease
<1>5. q # None => (c <=> e) /\ (c => y = x)
  BY <1>1
<1>6. c \in BOOLEAN /\ e \in BOOLEAN
  OBVIOUS
<1> HIDE DEF c, e, x, y
<1>7. ActionStep(m, p, a, c, e, x, y)
  BY <1>4, <1>5, <1>6 DEF ActionStep, r, q
<1>8. QED
  BY <1>2, <1>3, <1>7, ActionChanged

\* FailResponseAction: by the worker that holds it.
LEMMA FailResponseActionAgrees ==
  ASSUME NEW m, NEW p, NEW d, NEW n \in Nat, Meets(m, p, d, n), NEW a \in Actions, NEW w \in Workers
  PROVE  Agreed(M!FailResponseAction(m, a, w),
                P!FailResponseAction(p, a, w), d, n, p.responses[a] = None)
<1> DEFINE r == m.responses[a]
           q == p.responses[a]
           x == [r EXCEPT !.status = "failed", !.worker = None, !.lease = None]
           y == [q EXCEPT !.status = "failed", !.worker = None, !.lease = None]
           c == r.status = "running" /\ r.worker = w
           e == q.worker = w /\ q.status = "running"
<1>1. r \in OrNone(ActionRow) /\ HeldByLease(r) /\ (q # None => q = r)
  BY ActionRows
<1>2. M!FailResponseAction(m, a, w) = Change(m, "responses", a, c, x)
  BY DEF M!FailResponseAction, M!Change, Change, M!Exists, Exists, M!Insert, Insert, M!Ok, Ok,
     M!Missing, Missing, M!Write, Write, M!OwnsAction, M!SettledAction
<1>3. P!FailResponseAction(p, a, w) = Change(p, "responses", a, e, y)
  BY DEF P!FailResponseAction, P!Change, Change, P!Exists, Exists, P!Insert, Insert, P!Ok, Ok,
     P!Missing, Missing, P!Write, Write, P!OwnsAction
<1> HIDE DEF r, q
<1>4. r # None /\ c => x \in ActionRow /\ x.host = r.host /\ HeldByLease(x)
  BY <1>1, NoneIsNothing DEF ActionRow, OrNone, HeldByLease
<1>5. q # None => (c <=> e) /\ (c => y = x)
  BY <1>1
<1>6. c \in BOOLEAN /\ e \in BOOLEAN
  OBVIOUS
<1> HIDE DEF c, e, x, y
<1>7. ActionStep(m, p, a, c, e, x, y)
  BY <1>4, <1>5, <1>6 DEF ActionStep, r, q
<1>8. QED
  BY <1>2, <1>3, <1>7, ActionChanged

\* ClaimResponseAction: of the action that is next in both.
LEMMA ClaimResponseActionAgrees ==
  ASSUME NEW m, NEW p, NEW d, NEW n \in Nat, Meets(m, p, d, n), NEW a \in Actions,
         NEW w \in Workers, a \in M!NextActions(m, n), a \in P!NextActions(p, n)
  PROVE  Agreed(M!ClaimResponseAction(m, a, w, n), P!ClaimResponseAction(p, a, w, n), d, n,
                p.responses[a] = None)
<1> DEFINE r == m.responses[a]
           q == p.responses[a]
           x == [r EXCEPT !.status = "running", !.worker = w, !.lease = n + 1,
                          !.started = IF @ = None THEN n ELSE @]
           y == [q EXCEPT !.status = "running", !.worker = w, !.lease = n + 1,
                          !.started = IF @ # None THEN @ ELSE n]
           c == TRUE
           e == TRUE
<1>1. r \in OrNone(ActionRow) /\ HeldByLease(r) /\ (q # None => q = r)
  BY ActionRows
<1>2. M!ClaimResponseAction(m, a, w, n) = Change(m, "responses", a, c, x)
  BY DEF M!ClaimResponseAction, M!Change, Change, M!Exists, Exists, M!Insert, Insert, M!Ok, Ok,
     M!Missing, Missing, M!Write, Write
<1>3. P!ClaimResponseAction(p, a, w, n) = Change(p, "responses", a, e, y)
  BY DEF P!ClaimResponseAction, P!Coalesce, P!Change, Change, P!Exists, Exists, P!Insert, Insert,
     P!Ok, Ok, P!Missing, Missing, P!Write, Write
<1> HIDE DEF r, q
<1>4. r # None /\ c => x \in ActionRow /\ x.host = r.host /\ HeldByLease(x)
  <2>1. r # None => r \in ActionRow
    BY <1>1 DEF OrNone
  <2>2. r # None => /\ n + 1 \in OrNone(Nat) /\ w \in OrNone(Workers)
                    /\ (IF r.started = None THEN n ELSE r.started) \in OrNone(Nat)
    BY <2>1 DEF ActionRow, OrNone
  <2>3. r # None => x \in ActionRow /\ x.host = r.host /\ x.lease = n + 1
    BY <2>1, <2>2 DEF ActionRow
  <2>4. n + 1 # None
    BY NoneIsNothing
  <2> HIDE DEF x
  <2>5. QED
    BY <2>3, <2>4 DEF HeldByLease
<1>5. q # None => (c <=> e) /\ (c => y = x)
  <2>1. q # None => q = r
    BY <1>1
  <2>2. (IF q.started # None THEN q.started ELSE n) = (IF q.started = None THEN n ELSE q.started)
    OBVIOUS
  <2>3. QED
    BY <2>1, <2>2
<1>6. c \in BOOLEAN /\ e \in BOOLEAN
  OBVIOUS
<1> HIDE DEF c, e, x, y
<1>7. ActionStep(m, p, a, c, e, x, y)
  BY <1>4, <1>5, <1>6 DEF ActionStep, r, q
<1>8. QED
  BY <1>2, <1>3, <1>7, ActionChanged

\* ApproveResponseAction: both tell apart an action that is not pending and one that its
\* requester may not approve.
LEMMA ApproveResponseActionAgrees ==
  ASSUME NEW m, NEW p, NEW d, NEW n, Meets(m, p, d, n), NEW a \in Actions, NEW u \in Names
  PROVE  Agreed(M!ApproveResponseAction(m, a, u), P!ApproveResponseAction(p, a, u), d, n,
                p.responses[a] = None)
<1> DEFINE r == m.responses[a]
           q == p.responses[a]
           x == [r EXCEPT !.status = "approved", !.approver = u]
           y == [q EXCEPT !.status = "approved", !.approver = u]
           c == r.status = "pending" /\ ~(r.requester = u /\ ~AllowSelfApproval)
           e == q.status = "pending" /\ (AllowSelfApproval \/ q.requester # u)
           f == Change(m, "responses", a, c, x)
           g == Change(p, "responses", a, e, y)
<1>0. AllowSelfApproval \in BOOLEAN
  BY StoreAssumption
<1>1. r \in OrNone(ActionRow) /\ HeldByLease(r) /\ (q # None => q = r)
  BY ActionRows
<1>2. M!ApproveResponseAction(m, a, u) =
        IF r # None /\ r.status = "pending" /\ r.requester = u /\ ~AllowSelfApproval
        THEN Refused(m) ELSE f
  BY <1>0 DEF M!ApproveResponseAction, Change, M!Exists, Exists, M!Insert, Insert, M!Ok, Ok,
     M!Missing, Missing, M!Write, Write, M!Refused, Refused
<1>3. P!ApproveResponseAction(p, a, u) =
        IF g.out = "not found" /\ q # None /\ q.status = "pending" /\ q.requester = u
        THEN Refused(p) ELSE g
  BY <1>0 DEF P!ApproveResponseAction, P!Change, Change, P!Exists, Exists, P!Insert, Insert, P!Ok,
     Ok, P!Missing, Missing, P!Write, Write, P!Refused, Refused
<1>g. g.out = "not found" <=> ~(q # None /\ e)
  BY <1>0 DEF g, Change, Exists, Insert, Ok, Missing
<1>f. ~(r # None /\ c) => f.db = m
  BY <1>0 DEF f, Change, Exists, Insert, Ok, Missing
<1>k. g.out = "not found" => g.db = p
  BY DEF g, Change, Exists, Insert, Ok, Missing
<1> HIDE DEF r, q
<1>4. r # None /\ c => x \in ActionRow /\ x.host = r.host /\ HeldByLease(x)
  BY <1>1, NoneIsNothing DEF ActionRow, OrNone, HeldByLease
<1>5. q # None => (c <=> e) /\ (c => y = x)
  BY <1>0, <1>1
<1>6. c \in BOOLEAN /\ e \in BOOLEAN
  OBVIOUS
<1>7. Agreed(f, g, d, n, q = None)
  <2> HIDE DEF c, e, x, y
  <2>1. ActionStep(m, p, a, c, e, x, y)
    BY <1>4, <1>5, <1>6 DEF ActionStep, r, q
  <2>2. QED
    BY <2>1, ActionChanged DEF q
<1> HIDE DEF f, g
<1>8. CASE r # None /\ r.status = "pending" /\ r.requester = u /\ ~AllowSelfApproval
  <2>1. Meets(m, p, d, n) /\ Refused(m).db = m /\ Refused(m).out = "refused"
        /\ Refused(p).db = p /\ Refused(p).out = "refused"
    BY DEF Refused
  <2>2. CASE q # None
    <3>1. P!ApproveResponseAction(p, a, u) = Refused(p)
      BY <1>1, <1>3, <1>8, <1>g, <2>2
    <3>2. QED
      BY <1>2, <1>8, <2>1, <3>1 DEF Agreed
  <2>3. CASE q = None
    <3>1. P!ApproveResponseAction(p, a, u) = g /\ g.out = "not found" /\ g.db = p
      BY <1>3, <1>g, <1>k, <2>3
    <3>2. QED
      BY <1>2, <1>8, <2>1, <2>3, <3>1 DEF Agreed, q
  <2>4. QED
    BY <2>2, <2>3
<1>9. CASE ~(r # None /\ r.status = "pending" /\ r.requester = u /\ ~AllowSelfApproval)
  <2>1. ~(g.out = "not found" /\ q # None /\ q.status = "pending" /\ q.requester = u)
    BY <1>0, <1>1, <1>9, <1>g
  <2>2. M!ApproveResponseAction(m, a, u) = f
    BY <1>2, <1>9
  <2>3. P!ApproveResponseAction(p, a, u) = g
    BY <1>3, <2>1
  <2>4. QED
    BY <1>7, <2>2, <2>3 DEF q
<1>10. QED
  BY <1>8, <1>9

-------------------------------------------------------------------------------
(* Export targets and deliveries                                             *)

\* CreateExportTarget.
LEMMA CreateExportTargetAgrees ==
  ASSUME NEW m, NEW p, NEW d, NEW n, Meets(m, p, d, n), NEW t \in Targets, NEW on \in BOOLEAN,
         group = "exports"
  PROVE  Agreed(M!CreateExportTarget(m, t, on), P!CreateExportTarget(p, t, on), d, n, FALSE)
<1> DEFINE a == M!CreateExportTarget(m, t, on)
           b == P!CreateExportTarget(p, t, on)
           x == [enabled |-> on]
           X == [m.exports EXCEPT ![t] = x]
<1>1. /\ m.exports \in [Targets -> OrNone(TargetRow)] /\ p.exports = m.exports
      /\ \A i \in Targets : m.exports[i] = None => m.outbox[i] = <<>>
  BY DEF Meets, Same, Store, Addressed
<1>2. x \in TargetRow /\ x # None
  <2>1. x \in TargetRow
    BY DEF TargetRow
  <2>2. QED
    BY <2>1, NoneIsNothing
<1>a. a.db = [m EXCEPT !.exports = X] /\ a.out = "ok"
  BY DEF M!CreateExportTarget, M!Insert, M!Write, M!Ok
<1>b. b.db = [p EXCEPT !.exports = X] /\ b.out = "ok"
  BY <1>1 DEF P!CreateExportTarget, P!Insert, P!Write, P!Ok
<1> HIDE DEF x
<1>3. X \in [Targets -> OrNone(TargetRow)] /\ \A i \in Targets : X[i] = None => m.outbox[i] = <<>>
  BY <1>1, <1>2 DEF OrNone
<1> HIDE DEF X, a, b
<1>4. Meets([m EXCEPT !.exports = X], [p EXCEPT !.exports = X], d, n)
  BY <1>3, ExportsWritten
<1>5. QED
  BY <1>a, <1>b, <1>4 DEF Agreed, a, b

\* UpdateExportTarget.
LEMMA UpdateExportTargetAgrees ==
  ASSUME NEW m, NEW p, NEW d, NEW n, Meets(m, p, d, n), NEW t \in Targets, NEW on \in BOOLEAN,
         group = "exports"
  PROVE  Agreed(M!UpdateExportTarget(m, t, on), P!UpdateExportTarget(p, t, on), d, n, FALSE)
<1> DEFINE a == M!UpdateExportTarget(m, t, on)
           b == P!UpdateExportTarget(p, t, on)
           x == [enabled |-> on]
           X == [m.exports EXCEPT ![t] = x]
<1>1. /\ m.exports \in [Targets -> OrNone(TargetRow)] /\ p.exports = m.exports
      /\ \A i \in Targets : m.exports[i] = None => m.outbox[i] = <<>>
  BY DEF Meets, Same, Store, Addressed
<1>2. x \in TargetRow /\ x # None
  <2>1. x \in TargetRow
    BY DEF TargetRow
  <2>2. QED
    BY <2>1, NoneIsNothing
<1>a. /\ m.exports[t] # None => a.db = [m EXCEPT !.exports = X] /\ a.out = "ok"
      /\ m.exports[t] = None => a.db = m /\ a.out = "not found"
  BY DEF M!UpdateExportTarget, M!Replace, M!Change, M!Exists, M!Insert, M!Write, M!Ok, M!Missing
<1>b. /\ m.exports[t] # None => b.db = [p EXCEPT !.exports = X] /\ b.out = "ok"
      /\ m.exports[t] = None => b.db = p /\ b.out = "not found"
  BY <1>1 DEF P!UpdateExportTarget, P!Replace, P!Change, P!Exists, P!Insert, P!Write, P!Ok,
     P!Missing
<1> HIDE DEF x
<1>3. X \in [Targets -> OrNone(TargetRow)] /\ \A i \in Targets : X[i] = None => m.outbox[i] = <<>>
  BY <1>1, <1>2 DEF OrNone
<1> HIDE DEF X, a, b
<1>4. Meets([m EXCEPT !.exports = X], [p EXCEPT !.exports = X], d, n)
  BY <1>3, ExportsWritten
<1>5. QED
  BY <1>a, <1>b, <1>4 DEF Agreed, a, b

\* DeleteExportTarget: the deliveries go with the target.
LEMMA DeleteExportTargetAgrees ==
  ASSUME NEW m, NEW p, NEW d, NEW n, Meets(m, p, d, n), NEW t \in Targets
  PROVE  Agreed(M!DeleteExportTarget(m, t), P!DeleteExportTarget(p, t), d, n, FALSE)
<1> DEFINE a == M!DeleteExportTarget(m, t)
           b == P!DeleteExportTarget(p, t)
           X == [m.exports EXCEPT ![t] = None]
           O == [m.outbox EXCEPT ![t] = <<>>]
           m1 == [m EXCEPT !.exports = X, !.outbox = O]
           p1 == [p EXCEPT !.exports = X]
           k == P!Cascade(p1)
<1> SUFFICES Agreed(a, b, d, n, FALSE)
  OBVIOUS
<1>1. /\ m \in Store /\ p \in Store /\ Same(m, p)
      /\ m.exports \in [Targets -> OrNone(TargetRow)] /\ p.exports = m.exports
      /\ m.outbox \in [Targets -> Seq(OrNone(DeliveryRow))]
      /\ p.outbox \in [Targets -> Seq(OrNone(DeliveryRow))]
      /\ OutboxAgrees(m.outbox, p.outbox, p.obs) /\ OutboxRefs(m.outbox, d) /\ Addressed(m)
      /\ \A i \in Targets : \A j \in DOMAIN m.outbox[i] : HeldByLease(m.outbox[i][j])
  BY DEF Meets, Same, Store, Refs, Leased
<1>a. /\ m.exports[t] # None => a.db = m1 /\ a.out = "ok"
      /\ m.exports[t] = None => a.db = m /\ a.out = "not found"
  BY DEF M!DeleteExportTarget, M!Exists, M!Ok, M!Missing
<1>b. /\ m.exports[t] # None => b.db = k /\ b.out = "ok"
      /\ m.exports[t] = None => b.db = p /\ b.out = "not found"
  BY <1>1 DEF P!DeleteExportTarget, P!Remove, P!Erase, P!Exists, P!Ok, P!Missing, P!Write
<1>3. /\ X \in [Targets -> OrNone(TargetRow)] /\ O \in [Targets -> Seq(OrNone(DeliveryRow))]
      /\ \A i \in Targets : X[i] # None => m.exports[i] # None /\ O[i] = m.outbox[i]
      /\ \A i \in Targets : X[i] = None => O[i] = <<>>
  <2>1. <<>> \in Seq(OrNone(DeliveryRow))
    OBVIOUS
  <2>2. QED
    BY <1>1, <2>1 DEF OrNone, Addressed
<1>4. /\ OutboxRefs(O, d)
      /\ \A i \in Targets : \A j \in DOMAIN O[i] : HeldByLease(O[i][j])
  BY <1>1 DEF OutboxRefs
<1>5. Removed(m1, p1, m.hosts, m.creds, m.colls, m.users, p.scans, p.obs)
  <2> HIDE DEF X, O
  <2>1. m1 \in Store /\ p1 \in Store
    BY <1>1, <1>3 DEF Store
  <2>2. \A i \in Targets : X[i] # None => QueueAgrees(O[i], p.outbox[i], p.obs)
    BY <1>1, <1>3 DEF OutboxAgrees
  <2>3. QED
    BY <1>1, <1>3, <2>1, <2>2 DEF Removed, Same, Addressed, Store
<1>6. k \in Store /\ Same(m1, k) /\ k.audit = p1.audit
  BY <1>5, CascadeMeets
<1>7. Meets(m1, k, d, n)
  <2> HIDE DEF X, O, k
  <2>1. m1 \in Store /\ p1.audit = p.audit
    BY <1>1, <1>3 DEF Store
  <2>2. group # "exports" => \A i \in Targets : X[i] = None
    BY <1>3 DEF Meets, GroupHolds
  <2>3. QED
    BY <1>1, <1>3, <1>4, <1>6, <2>1, <2>2 DEF Meets, Refs, Addressed, Leased, GroupHolds, Store
<1> HIDE DEF a, b, m1, k
<1>8. QED
  BY <1>a, <1>b, <1>7 DEF Agreed

\* A delivery of Postgres is one of Memory, with the same row.
LEMMA DeliveryRows ==
  ASSUME NEW m, NEW p, NEW d, NEW n, Meets(m, p, d, n), NEW v \in P!Deliveries(p)
  PROVE  /\ v[1] \in Targets /\ v[2] \in DOMAIN m.outbox[v[1]] /\ v[2] \in DOMAIN p.outbox[v[1]]
         /\ m.outbox[v[1]][v[2]] = p.outbox[v[1]][v[2]]
         /\ m.outbox[v[1]][v[2]] \in DeliveryRow /\ m.outbox[v[1]][v[2]] # None
         /\ HeldByLease(m.outbox[v[1]][v[2]]) /\ v \in M!Deliveries(m)
<1>1. PICK t \in Targets : \E i \in DOMAIN p.outbox[t] : p.outbox[t][i] # None /\ v = <<t, i>>
  BY DEF P!Deliveries
<1>2. PICK i \in DOMAIN p.outbox[t] : p.outbox[t][i] # None /\ v = <<t, i>>
  BY <1>1
<1>3. v[1] = t /\ v[2] = i
  BY <1>2
<1>4. /\ m.outbox[t] \in Seq(OrNone(DeliveryRow)) /\ QueueAgrees(m.outbox[t], p.outbox[t], p.obs)
      /\ \A j \in DOMAIN m.outbox[t] : HeldByLease(m.outbox[t][j])
  BY DEF Meets, Same, OutboxAgrees, Leased, Store
<1>5. i \in DOMAIN m.outbox[t] /\ p.outbox[t][i] = DeliveredRow(m.outbox[t][i], p.obs)
  BY <1>4 DEF QueueAgrees
<1>6. m.outbox[t][i] = p.outbox[t][i] /\ m.outbox[t][i] # None
  BY <1>2, <1>5 DEF DeliveredRow
<1>7. m.outbox[t][i] \in DeliveryRow
  <2>1. \A j \in DOMAIN m.outbox[t] : m.outbox[t][j] \in OrNone(DeliveryRow)
    BY <1>4
  <2>2. QED
    BY <1>5, <1>6, <2>1 DEF OrNone
<1>8. v \in M!Deliveries(m)
  <2>1. i \in {j \in DOMAIN m.outbox[t] : m.outbox[t][j] # None}
    BY <1>5, <1>6
  <2>2. v \in {t} \X {j \in DOMAIN m.outbox[t] : m.outbox[t][j] # None}
    BY <1>2, <2>1
  <2>3. QED
    BY <2>2 DEF M!Deliveries
<1>9. QED
  BY <1>2, <1>3, <1>4, <1>5, <1>6, <1>7, <1>8

\* A delivery is changed alike.
LEMMA DeliveryChanged ==
  ASSUME NEW m, NEW p, NEW d, NEW n, Meets(m, p, d, n), NEW v \in P!Deliveries(p),
         NEW c \in BOOLEAN, NEW x,
         c => /\ x \in DeliveryRow /\ x.obs = m.outbox[v[1]][v[2]].obs /\ HeldByLease(x)
  PROVE  Agreed(M!ChangeDelivery(m, v, c, x), P!ChangeDelivery(p, v, c, x), d, n, FALSE)
<1> DEFINE a == M!ChangeDelivery(m, v, c, x)
           b == P!ChangeDelivery(p, v, c, x)
           t == v[1]
           i == v[2]
           K == [m.outbox[t] EXCEPT ![i] = x]
           L == [p.outbox[t] EXCEPT ![i] = x]
           X == [m.outbox EXCEPT ![t] = K]
           Y == [p.outbox EXCEPT ![t] = L]
<1> SUFFICES Agreed(a, b, d, n, FALSE)
  OBVIOUS
<1>1. /\ m.outbox \in [Targets -> Seq(OrNone(DeliveryRow))]
      /\ p.outbox \in [Targets -> Seq(OrNone(DeliveryRow))]
      /\ OutboxAgrees(m.outbox, p.outbox, p.obs) /\ OutboxRefs(m.outbox, d)
      /\ \A u \in Targets : m.exports[u] = None => m.outbox[u] = <<>>
      /\ \A u \in Targets : \A j \in DOMAIN m.outbox[u] : HeldByLease(m.outbox[u][j])
  BY DEF Meets, Same, Refs, Addressed, Leased, Store
<1>2. /\ t \in Targets /\ i \in DOMAIN m.outbox[t] /\ i \in DOMAIN p.outbox[t]
      /\ m.outbox[t][i] = p.outbox[t][i] /\ m.outbox[t][i] # None /\ v \in M!Deliveries(m)
  BY DeliveryRows
<1>a. /\ c => a.db = [m EXCEPT !.outbox = X] /\ a.out = "ok"
      /\ ~c => a.db = m /\ a.out = "not found"
  BY <1>2 DEF M!ChangeDelivery, M!Ok, M!Missing
<1>b. /\ c => b.db = [p EXCEPT !.outbox = Y] /\ b.out = "ok"
      /\ ~c => b.db = p /\ b.out = "not found"
  BY <1>2 DEF P!ChangeDelivery, P!Ok, P!Missing
<1> HIDE DEF a, b
<1>3. CASE c
  <2>0. x \in DeliveryRow /\ x.obs = m.outbox[t][i].obs /\ HeldByLease(x) /\ x \in OrNone(DeliveryRow)
        /\ x # None
    BY <1>3, NoneIsNothing DEF OrNone
  <2> HIDE DEF t, i
  <2>1. K \in Seq(OrNone(DeliveryRow)) /\ DOMAIN K = DOMAIN m.outbox[t]
        /\ \A j \in DOMAIN K : K[j] = IF j = i THEN x ELSE m.outbox[t][j]
    <3>1. m.outbox[t] \in Seq(OrNone(DeliveryRow)) /\ i \in 1..Len(m.outbox[t])
      BY <1>1, <1>2
    <3>2. QED
      BY <2>0, <3>1, ExceptSeq
  <2>2. L \in Seq(OrNone(DeliveryRow)) /\ DOMAIN L = DOMAIN p.outbox[t]
        /\ \A j \in DOMAIN L : L[j] = IF j = i THEN x ELSE p.outbox[t][j]
    <3>1. p.outbox[t] \in Seq(OrNone(DeliveryRow)) /\ i \in 1..Len(p.outbox[t])
      BY <1>1, <1>2
    <3>2. QED
      BY <2>0, <3>1, ExceptSeq
  <2> HIDE DEF K, L
  <2>3. X \in [Targets -> Seq(OrNone(DeliveryRow))] /\ Y \in [Targets -> Seq(OrNone(DeliveryRow))]
    BY <1>1, <2>1, <2>2
  <2>4. QueueAgrees(K, L, p.obs)
    <3>1. QueueAgrees(m.outbox[t], p.outbox[t], p.obs)
      BY <1>1, <1>2 DEF OutboxAgrees
    <3>2. DOMAIN K = DOMAIN L
      BY <2>1, <2>2, <3>1 DEF QueueAgrees
    <3>3. m.outbox[t][i] = DeliveredRow(m.outbox[t][i], p.obs)
      BY <1>2, <3>1 DEF QueueAgrees
    <3>4. x = DeliveredRow(x, p.obs)
      BY <1>2, <2>0, <3>3 DEF DeliveredRow
    <3>5. QED
      BY <2>1, <2>2, <3>1, <3>2, <3>4 DEF QueueAgrees
  <2>5. OutboxAgrees(X, Y, p.obs)
    BY <1>1, <2>4 DEF OutboxAgrees
  <2>6. OutboxRefs(X, d)
    <3>1. m.outbox[t][i].obs <= d.obs
      BY <1>1, <1>2 DEF OutboxRefs
    <3>2. \A j \in DOMAIN K : K[j] # None => K[j].obs <= d.obs
      BY <1>1, <1>2, <2>0, <2>1, <3>1 DEF OutboxRefs
    <3>3. QED
      BY <1>1, <3>2 DEF OutboxRefs
  <2>7. \A u \in Targets : m.exports[u] = None => X[u] = <<>>
    <3>1. m.exports[t] # None
      <4>1. DOMAIN <<>> = {}
        OBVIOUS
      <4>2. QED
        BY <1>1, <1>2, <4>1
    <3>2. QED
      BY <1>1, <3>1
  <2>8. \A u \in Targets : \A j \in DOMAIN X[u] : HeldByLease(X[u][j])
    <3>1. \A j \in DOMAIN K : HeldByLease(K[j])
      BY <1>1, <1>2, <2>0, <2>1
    <3>2. QED
      BY <1>1, <3>1
  <2> HIDE DEF X, Y
  <2>9. Meets([m EXCEPT !.outbox = X], [p EXCEPT !.outbox = Y], d, n)
    BY <2>3, <2>5, <2>6, <2>7, <2>8, OutboxWritten
  <2>10. QED
    BY <1>3, <1>a, <1>b, <2>9 DEF Agreed
<1>4. CASE ~c
  BY <1>4, <1>a, <1>b DEF Agreed
<1>5. QED
  BY <1>3, <1>4

\* RenewExportDeliveryLease: by the worker that holds it.
LEMMA RenewExportDeliveryLeaseAgrees ==
  ASSUME NEW m, NEW p, NEW d, NEW n \in Nat, Meets(m, p, d, n), NEW v \in P!Deliveries(p), NEW w \in Workers,
         NEW until \in Nat
  PROVE  Agreed(M!RenewExportDeliveryLease(m, v, w, until),
                P!RenewExportDeliveryLease(p, v, w, until), d, n, FALSE)
<1> DEFINE r == m.outbox[v[1]][v[2]]
           x == [r EXCEPT !.lease = until]
           c == r.status = "delivering" /\ r.worker = w
<1>1. /\ r \in DeliveryRow /\ HeldByLease(r) /\ r = p.outbox[v[1]][v[2]]
  BY DeliveryRows
<1>2. M!RenewExportDeliveryLease(m, v, w, until) = M!ChangeDelivery(m, v, c, x)
  BY DEF M!RenewExportDeliveryLease, M!Delivery, M!OwnsDelivery
<1>3. P!RenewExportDeliveryLease(p, v, w, until) = P!ChangeDelivery(p, v, c, x)
  <2>1. P!Delivery(p, v) = r
    BY <1>1 DEF P!Delivery
  <2> HIDE DEF r
  <2>2. QED
    BY <2>1 DEF P!RenewExportDeliveryLease, P!OwnsDelivery, P!ChangeDelivery
<1> HIDE DEF r
<1>4. c => x \in DeliveryRow /\ x.obs = r.obs /\ HeldByLease(x)
  BY <1>1, NoneIsNothing DEF DeliveryRow, OrNone, HeldByLease
<1>5. c \in BOOLEAN
  OBVIOUS
<1> HIDE DEF c, x
<1>6. Agreed(M!ChangeDelivery(m, v, c, x), P!ChangeDelivery(p, v, c, x), d, n, FALSE)
  BY <1>4, <1>5, DeliveryChanged DEF r
<1>7. QED
  BY <1>2, <1>3, <1>6

\* CompleteExportDelivery: by the worker that holds it.
LEMMA CompleteExportDeliveryAgrees ==
  ASSUME NEW m, NEW p, NEW d, NEW n \in Nat, Meets(m, p, d, n), NEW v \in P!Deliveries(p), NEW w \in Workers
  PROVE  Agreed(M!CompleteExportDelivery(m, v, w), P!CompleteExportDelivery(p, v, w), d, n, FALSE)
<1> DEFINE r == m.outbox[v[1]][v[2]]
           x == [r EXCEPT !.status = "sent", !.worker = None, !.lease = None]
           c == r.status = "delivering" /\ r.worker = w
<1>1. /\ r \in DeliveryRow /\ HeldByLease(r) /\ r = p.outbox[v[1]][v[2]]
  BY DeliveryRows
<1>2. M!CompleteExportDelivery(m, v, w) = M!ChangeDelivery(m, v, c, x)
  BY DEF M!CompleteExportDelivery, M!Delivery, M!OwnsDelivery
<1>3. P!CompleteExportDelivery(p, v, w) = P!ChangeDelivery(p, v, c, x)
  <2>1. P!Delivery(p, v) = r
    BY <1>1 DEF P!Delivery
  <2> HIDE DEF r
  <2>2. QED
    BY <2>1 DEF P!CompleteExportDelivery, P!OwnsDelivery, P!ChangeDelivery
<1> HIDE DEF r
<1>4. c => x \in DeliveryRow /\ x.obs = r.obs /\ HeldByLease(x)
  BY <1>1, NoneIsNothing DEF DeliveryRow, OrNone, HeldByLease
<1>5. c \in BOOLEAN
  OBVIOUS
<1> HIDE DEF c, x
<1>6. Agreed(M!ChangeDelivery(m, v, c, x), P!ChangeDelivery(p, v, c, x), d, n, FALSE)
  BY <1>4, <1>5, DeliveryChanged DEF r
<1>7. QED
  BY <1>2, <1>3, <1>6

\* FailExportDelivery: by the worker that holds it.
LEMMA FailExportDeliveryAgrees ==
  ASSUME NEW m, NEW p, NEW d, NEW n \in Nat, Meets(m, p, d, n), NEW v \in P!Deliveries(p), NEW w \in Workers,
         NEW at \in Nat, NEW terminal \in BOOLEAN
  PROVE  Agreed(M!FailExportDelivery(m, v, w, at, terminal),
                P!FailExportDelivery(p, v, w, at, terminal), d, n, FALSE)
<1> DEFINE r == m.outbox[v[1]][v[2]]
           x == [r EXCEPT !.status = IF terminal THEN "dead" ELSE "queued",
                      !.due = at, !.worker = None, !.lease = None]
           c == r.status = "delivering" /\ r.worker = w
<1>1. /\ r \in DeliveryRow /\ HeldByLease(r) /\ r = p.outbox[v[1]][v[2]]
  BY DeliveryRows
<1>2. M!FailExportDelivery(m, v, w, at, terminal) = M!ChangeDelivery(m, v, c, x)
  BY DEF M!FailExportDelivery, M!Delivery, M!OwnsDelivery
<1>3. P!FailExportDelivery(p, v, w, at, terminal) = P!ChangeDelivery(p, v, c, x)
  <2>1. P!Delivery(p, v) = r
    BY <1>1 DEF P!Delivery
  <2> HIDE DEF r
  <2>2. QED
    BY <2>1 DEF P!FailExportDelivery, P!OwnsDelivery, P!ChangeDelivery
<1> HIDE DEF r
<1>4. c => x \in DeliveryRow /\ x.obs = r.obs /\ HeldByLease(x)
  BY <1>1, NoneIsNothing DEF DeliveryRow, OrNone, HeldByLease
<1>5. c \in BOOLEAN
  OBVIOUS
<1> HIDE DEF c, x
<1>6. Agreed(M!ChangeDelivery(m, v, c, x), P!ChangeDelivery(p, v, c, x), d, n, FALSE)
  BY <1>4, <1>5, DeliveryChanged DEF r
<1>7. QED
  BY <1>2, <1>3, <1>6

\* RetryExportDelivery: of a dead one.
LEMMA RetryExportDeliveryAgrees ==
  ASSUME NEW m, NEW p, NEW d, NEW n \in Nat, Meets(m, p, d, n), NEW v \in P!Deliveries(p)
  PROVE  Agreed(M!RetryExportDelivery(m, v, n), P!RetryExportDelivery(p, v, n), d, n, FALSE)
<1> DEFINE r == m.outbox[v[1]][v[2]]
           x == [r EXCEPT !.status = "queued", !.attempts = 0, !.due = n]
           c == r.status = "dead"
<1>1. /\ r \in DeliveryRow /\ HeldByLease(r) /\ r = p.outbox[v[1]][v[2]]
  BY DeliveryRows
<1>2. M!RetryExportDelivery(m, v, n) = M!ChangeDelivery(m, v, c, x)
  BY DEF M!RetryExportDelivery, M!Delivery
<1>3. P!RetryExportDelivery(p, v, n) = P!ChangeDelivery(p, v, c, x)
  <2>1. P!Delivery(p, v) = r
    BY <1>1 DEF P!Delivery
  <2> HIDE DEF r
  <2>2. QED
    BY <2>1 DEF P!RetryExportDelivery
<1> HIDE DEF r
<1>4. c => x \in DeliveryRow /\ x.obs = r.obs /\ HeldByLease(x)
  BY <1>1, NoneIsNothing DEF DeliveryRow, OrNone, HeldByLease
<1>5. c \in BOOLEAN
  OBVIOUS
<1> HIDE DEF c, x
<1>6. Agreed(M!ChangeDelivery(m, v, c, x), P!ChangeDelivery(p, v, c, x), d, n, FALSE)
  BY <1>4, <1>5, DeliveryChanged DEF r
<1>7. QED
  BY <1>2, <1>3, <1>6

\* ClaimExportDelivery: of a delivery that is next in both.
LEMMA ClaimExportDeliveryAgrees ==
  ASSUME NEW m, NEW p, NEW d, NEW n \in Nat, Meets(m, p, d, n), NEW v,
         NEW w \in Workers, v \in M!NextDeliveries(m, n), v \in P!NextDeliveries(p, n)
  PROVE  Agreed(M!ClaimExportDelivery(m, v, w, n), P!ClaimExportDelivery(p, v, w, n), d, n, FALSE)
<1> DEFINE r == m.outbox[v[1]][v[2]]
           x == [r EXCEPT !.status = "delivering", !.worker = w, !.lease = n + 1, !.attempts = @ + 1]
           c == TRUE
<1>0. v \in P!Deliveries(p)
  BY DEF P!NextDeliveries, P!ClaimableDeliveries, P!First, First
<1>1. /\ r \in DeliveryRow /\ r = p.outbox[v[1]][v[2]]
  BY <1>0, DeliveryRows
<1>2. M!ClaimExportDelivery(m, v, w, n) = M!ChangeDelivery(m, v, c, x)
  BY DEF M!ClaimExportDelivery, M!Delivery, M!ChangeDelivery
<1>3. P!ClaimExportDelivery(p, v, w, n) = P!ChangeDelivery(p, v, c, x)
  <2>1. P!Delivery(p, v) = r
    BY <1>1 DEF P!Delivery
  <2> HIDE DEF r
  <2>2. QED
    BY <2>1 DEF P!ClaimExportDelivery, P!ChangeDelivery
<1> HIDE DEF r
<1>4. x \in DeliveryRow /\ x.obs = r.obs /\ HeldByLease(x)
  <2>1. n + 1 \in OrNone(Nat) /\ w \in OrNone(Workers) /\ r.attempts + 1 \in Nat
    BY <1>1 DEF DeliveryRow, OrNone
  <2>2. x \in DeliveryRow /\ x.obs = r.obs /\ x.lease = n + 1
    BY <1>1, <2>1 DEF DeliveryRow
  <2>3. n + 1 # None
    BY NoneIsNothing
  <2> HIDE DEF x
  <2>4. QED
    BY <2>2, <2>3 DEF HeldByLease
<1>5. c \in BOOLEAN
  OBVIOUS
<1> HIDE DEF c, x
<1>6. Agreed(M!ChangeDelivery(m, v, c, x), P!ChangeDelivery(p, v, c, x), d, n, FALSE)
  BY <1>0, <1>4, <1>5, DeliveryChanged DEF r
<1>7. QED
  BY <1>2, <1>3, <1>6

===============================================================================
