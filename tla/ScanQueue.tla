------------------------------ MODULE ScanQueue ------------------------------
(***************************************************************************)
(* The durable scan queue of bladedr: the scan_jobs, scans and hosts rows  *)
(* the store keeps, the workers of every server process that claim jobs    *)
(* (internal/scan/queue.go), and the scan each of them runs for its job    *)
(* (Runner.scan in internal/scan/runner.go).                               *)
(*                                                                         *)
(* Every store call is a step of its own, because between two calls        *)
(* another worker, the API or the clock may intervene.  Time is abstract:  *)
(* a lease may run out, and a back-off may end, at any moment, so that     *)
(* slow workers, clock jumps and clocks that disagree are all covered.     *)
(* The parameter Postgres selects between the two stores, which differ in  *)
(* what a cancelled context and the deletion of a host do.                 *)
(***************************************************************************)
EXTENDS Integers, FiniteSets

CONSTANTS
  Hosts,        \* hosts rows that exist at the start
  Jobs,         \* identities available to scan_jobs rows
  Workers,      \* worker goroutines; each process start brings new ones
  NoHost, NoJob, NoWorker,
  MaxAttempts,  \* Queue.Enqueue's MaxAttempts (3 in the code)
  Postgres,     \* TRUE: the Postgres store; FALSE: the Memory store
  MaxLapses,    \* bound: leases that run out while their worker is alive
  MaxFaults     \* bound: store calls that fail for reasons of the database

ASSUME QueueAssumption ==
  /\ MaxAttempts \in Nat \ {0}
  /\ Postgres \in BOOLEAN
  /\ MaxLapses \in Nat
  /\ MaxFaults \in Nat
  /\ NoHost \notin Hosts
  /\ NoJob \notin Jobs
  /\ NoWorker \notin Workers

VARIABLES
  status,      \* job -> scan_jobs.status, "absent" before the row exists
  hostOf,      \* job -> scan_jobs.host_id
  owner,       \* job -> scan_jobs.worker_id
  lease,       \* job -> is there a lease_until, and has it passed
  due,         \* job -> next_attempt_at has passed
  attempts,    \* job -> scan_jobs.attempts
  known,       \* hosts that have a row
  reach,       \* host -> hosts.status
  scans,       \* scans.status -> the attempts whose scans row has it
  findings,    \* host -> attempts that have written observations
  pc,          \* worker -> where runOne is
  cur,         \* worker -> job.ID of its claim
  att,         \* worker -> job.Attempts in the copy the claim returned
  ctx,         \* worker -> state of its scan context
  lapses,      \* leases that ran out under a living worker so far
  faults       \* store calls that failed so far

jobVars == <<status, hostOf, owner, lease, due, attempts>>
scanVars == <<known, reach, scans, findings>>
workerVars == <<pc, cur, att, ctx>>
vars == <<jobVars, scanVars, workerVars, lapses, faults>>

JobStatus == {"absent", "queued", "running", "succeeded", "failed", "deleted"}
Active == {"queued", "running"}
ScanStatus == {"running", "ok", "failed"}
\* An attempt is known by its job and the value of attempts its claim made.
Attempt == Jobs \X Nat

\* runOne is inside Runner.scan, the heartbeat goroutine is running.
Scanning == {"preparing", "dialing", "probing", "returned", "broken",
             "ingesting", "finishing", "reporting", "marking"}
Busy == Scanning \cup {"claimed", "completing", "failing"}
PC == Busy \cup {"idle", "dead"}

TypeOK ==
  /\ status \in [Jobs -> JobStatus]
  /\ hostOf \in [Jobs -> Hosts \cup {NoHost}]
  /\ owner \in [Jobs -> Workers \cup {NoWorker}]
  /\ lease \in [Jobs -> {"none", "held", "lapsed"}]
  /\ due \in [Jobs -> BOOLEAN]
  /\ attempts \in [Jobs -> Nat]
  /\ known \in SUBSET Hosts
  /\ reach \in [Hosts -> {"pending", "online", "unreachable"}]
  /\ scans \in [ScanStatus -> SUBSET Attempt]
  /\ findings \in [Hosts -> SUBSET Attempt]
  /\ pc \in [Workers -> PC]
  /\ cur \in [Workers -> Jobs \cup {NoJob}]
  /\ att \in [Workers -> Nat]
  /\ ctx \in [Workers -> {"live", "cancelled", "shutdown"}]
  /\ lapses \in Nat
  /\ faults \in Nat

Init ==
  /\ status = [j \in Jobs |-> "absent"]
  /\ hostOf = [j \in Jobs |-> NoHost]
  /\ owner = [j \in Jobs |-> NoWorker]
  /\ lease = [j \in Jobs |-> "none"]
  /\ due = [j \in Jobs |-> FALSE]
  /\ attempts = [j \in Jobs |-> 0]
  /\ known = Hosts
  /\ reach = [h \in Hosts |-> "pending"]
  /\ scans = [s \in ScanStatus |-> {}]
  /\ findings = [h \in Hosts |-> {}]
  /\ pc = [w \in Workers |-> "idle"]
  /\ cur = [w \in Workers |-> NoJob]
  /\ att = [w \in Workers |-> 0]
  /\ ctx = [w \in Workers |-> "live"]
  /\ lapses = 0
  /\ faults = 0

(***************************************************************************)
(* Store calls.  A call made with a cancelled context fails in Postgres    *)
(* and is not noticed by Memory; a call with a live one fails only when    *)
(* the database does, at most MaxFaults times.                             *)
(***************************************************************************)

\* The scan context: cancelled by the heartbeat, the deadline or a shutdown.
ScanCtxLive(w) == Postgres => ctx[w] = "live"
\* The context of Queue.Run: cancelled by a shutdown only.
RunCtxLive(w) == Postgres => ctx[w] # "shutdown"

CallWorks(live) == live /\ UNCHANGED faults
DatabaseFails == Postgres /\ faults < MaxFaults /\ faults' = faults + 1
CallFails(live) == (~live /\ UNCHANGED faults) \/ DatabaseFails

\* Mutant of Owns: the WHERE clause forgets worker_id.
OwnsAnyWorker(w) ==
  /\ cur[w] # NoJob
  /\ status[cur[w]] = "running"

\* The WHERE clause of Renew-, Complete- and FailScanJob.
Owns(w) ==
  /\ cur[w] # NoJob
  /\ status[cur[w]] = "running"
  /\ owner[cur[w]] = w

Goto(w, there) == pc' = [pc EXCEPT ![w] = there]
Mine(w) == <<cur[w], att[w]>>

\* scans.status of an existing row; UpdateScan on a deleted one changes nothing.
SetScan(a, s) ==
  scans' = [t \in ScanStatus |->
              IF t = s /\ \E r \in ScanStatus : a \in scans[r]
              THEN scans[t] \cup {a}
              ELSE scans[t] \ {a}]

\* SetHostOnline and SetHostUnreachable; a deleted host has no row to change.
SetReach(h, r) ==
  reach' = IF h \in known THEN [reach EXCEPT ![h] = r] ELSE reach
-------------------------------------------------------------------------------
(***************************************************************************)
(* The API and the scheduler.                                              *)
(***************************************************************************)

\* EnqueueScanJob.  A host with an unfinished job gets that job back, which
\* changes nothing; so only the other case is a step.
Enqueue(h, j) ==
  /\ h \in known
  /\ status[j] = "absent"
  /\ \A k \in Jobs : ~(hostOf[k] = h /\ status[k] \in Active)
  /\ status' = [status EXCEPT ![j] = "queued"]
  /\ hostOf' = [hostOf EXCEPT ![j] = h]
  /\ due' = [due EXCEPT ![j] = TRUE]
  /\ UNCHANGED <<owner, lease, attempts, scanVars, workerVars, lapses, faults>>

OfHost(h) == {j \in Jobs : hostOf[j] = h}

\* DeleteHost.  Postgres deletes the rows that refer to the host with it.
DeleteHost(h) ==
  /\ h \in known
  /\ known' = known \ {h}
  /\ IF Postgres
     THEN /\ status' = [j \in Jobs |-> IF j \in OfHost(h) THEN "deleted" ELSE status[j]]
          /\ owner' = [j \in Jobs |-> IF j \in OfHost(h) THEN NoWorker ELSE owner[j]]
          /\ lease' = [j \in Jobs |-> IF j \in OfHost(h) THEN "none" ELSE lease[j]]
          /\ scans' = [s \in ScanStatus |-> {a \in scans[s] : a[1] \notin OfHost(h)}]
          /\ findings' = [findings EXCEPT ![h] = {}]
     ELSE UNCHANGED <<status, owner, lease, scans, findings>>
  /\ UNCHANGED <<hostOf, due, attempts, reach, workerVars, lapses, faults>>
-------------------------------------------------------------------------------
(***************************************************************************)
(* The clock.                                                              *)
(***************************************************************************)

\* next_attempt_at <= now
BackoffEnds(j) ==
  /\ status[j] = "queued" /\ ~due[j]
  /\ due' = [due EXCEPT ![j] = TRUE]
  /\ UNCHANGED <<status, hostOf, owner, lease, attempts, scanVars, workerVars,
                 lapses, faults>>

\* The worker named in the row still has the claim it was given for j.
Attended(j) == \E w \in Workers : pc[w] \in Busy /\ cur[w] = j /\ Owns(w)

\* lease_until <= now.  A living worker's heartbeat renews the lease three times
\* before this can happen; it may still be paused or cut off for longer.
LeaseLapses(j) ==
  /\ status[j] = "running" /\ lease[j] = "held"
  /\ lease' = [lease EXCEPT ![j] = "lapsed"]
  /\ lapses' = IF Attended(j) THEN lapses + 1 ELSE lapses
  /\ lapses' <= MaxLapses
  /\ UNCHANGED <<status, hostOf, owner, due, attempts, scanVars, workerVars, faults>>

\* The deadline of context.WithTimeout(ctx, ScanTimeout).
ScanTimeout(w) ==
  /\ pc[w] \in Scanning /\ ctx[w] = "live"
  /\ ctx' = [ctx EXCEPT ![w] = "cancelled"]
  /\ UNCHANGED <<jobVars, scanVars, pc, cur, att, lapses, faults>>

\* A tick of Queue.heartbeat: renew the lease, or cancel the scan.
Heartbeat(w) ==
  /\ pc[w] \in Scanning /\ ctx[w] = "live"
  /\ \/ /\ Owns(w)
        /\ lease[cur[w]] = "lapsed"    \* renewing a held lease changes nothing
        /\ lease' = [lease EXCEPT ![cur[w]] = "held"]
        /\ UNCHANGED <<ctx, faults>>
     \/ /\ CallFails(Owns(w))
        /\ ctx' = [ctx EXCEPT ![w] = "cancelled"]
        /\ UNCHANGED lease
  /\ UNCHANGED <<status, hostOf, owner, due, attempts, scanVars, pc, cur, att, lapses>>
-------------------------------------------------------------------------------
(***************************************************************************)
(* A worker: Queue.runOne and the Runner.scan it calls.                    *)
(***************************************************************************)

\* Mutants of Claimable: without lease reclamation; without the lease check.
ClaimableQueued(j) == status[j] = "queued" /\ due[j]
ClaimableRunning(j) == ClaimableQueued(j) \/ status[j] = "running"

Claimable(j) ==
  \/ status[j] = "queued" /\ due[j]
  \/ status[j] = "running" /\ lease[j] = "lapsed"

\* Mutants of Lease: a reclaim keeps the old worker_id; only a first claim
\* counts as an attempt.
LeaseKeepingOwner(w, j) ==
  /\ status' = [status EXCEPT ![j] = "running"]
  /\ owner' = [owner EXCEPT ![j] = IF status[j] = "running" THEN @ ELSE w]
  /\ lease' = [lease EXCEPT ![j] = "held"]
  /\ attempts' = [attempts EXCEPT ![j] = @ + 1]

LeaseUncounted(w, j) ==
  /\ status' = [status EXCEPT ![j] = "running"]
  /\ owner' = [owner EXCEPT ![j] = w]
  /\ lease' = [lease EXCEPT ![j] = "held"]
  /\ attempts' = [attempts EXCEPT ![j] = IF status[j] = "queued" THEN @ + 1 ELSE @]

\* What ClaimScanJob writes.
Lease(w, j) ==
  /\ status' = [status EXCEPT ![j] = "running"]
  /\ owner' = [owner EXCEPT ![j] = w]
  /\ lease' = [lease EXCEPT ![j] = "held"]
  /\ attempts' = [attempts EXCEPT ![j] = @ + 1]

\* ClaimScanJob.  Which of the claimable jobs comes first differs between the
\* stores and does not matter here.
Claim(w, j) ==
  /\ pc[w] = "idle"
  /\ Claimable(j)
  /\ Lease(w, j)
  /\ \/ /\ Goto(w, "claimed")
        /\ cur' = [cur EXCEPT ![w] = j]
        /\ att' = [att EXCEPT ![w] = attempts[j] + 1]
        /\ ctx' = [ctx EXCEPT ![w] = "live"]
        /\ UNCHANGED faults
     \/ \* committed, but the connection breaks before the row comes back
        /\ DatabaseFails
        /\ UNCHANGED workerVars
  /\ UNCHANGED <<hostOf, due, scanVars, lapses>>

\* GetHost, then CreateScan: no host row, or a failing call, fails the attempt.
BeginScan(w) ==
  /\ pc[w] = "claimed"
  /\ \/ /\ CallWorks(RunCtxLive(w) /\ hostOf[cur[w]] \in known)
        /\ scans' = [scans EXCEPT !["running"] = @ \cup {Mine(w)}]
        /\ Goto(w, "preparing")
     \/ /\ CallFails(RunCtxLive(w) /\ hostOf[cur[w]] \in known)
        /\ UNCHANGED scans
        /\ Goto(w, "failing")
  /\ UNCHANGED <<jobVars, known, reach, findings, cur, att, ctx, lapses>>

\* LoadRules and NewTransport.
Prepare(w) ==
  /\ pc[w] = "preparing"
  /\ \E next \in {"dialing", "reporting"} : Goto(w, next)
  /\ UNCHANGED <<jobVars, scanVars, cur, att, ctx, lapses, faults>>

\* RunProbe up to the end of the SSH handshake.  The goroutine that closes the
\* client when the context ends is started only afterwards.
Connect(w) ==
  /\ pc[w] = "dialing"
  /\ \E next \in {"probing", "broken"} : Goto(w, next)
  /\ UNCHANGED <<jobVars, scanVars, cur, att, ctx, lapses, faults>>

\* RunProbe returns a result or an error.
ProbeReturns(w) ==
  /\ pc[w] = "probing"
  /\ \E next \in {"returned", "broken"} : Goto(w, next)
  /\ UNCHANGED <<jobVars, scanVars, cur, att, ctx, lapses, faults>>

\* The discard closure, whose UpdateScan is not subject to cancellation.
Discard(w) ==
  /\ \/ /\ SetScan(Mine(w), "failed")
        /\ UNCHANGED faults
     \/ /\ DatabaseFails
        /\ UNCHANGED scans
  /\ Goto(w, "failing")
  /\ UNCHANGED jobVars

\* The checks between RunProbe and the first write: ctx.Err(), then validateOwner.
Validate(w) ==
  /\ pc[w] \in {"returned", "broken"}
  /\ \/ /\ ctx[w] # "live" \/ ~Owns(w)
        /\ Discard(w)
     \/ /\ ctx[w] = "live"
        /\ DatabaseFails                 \* the renewal fails, UpdateScan need not
        /\ SetScan(Mine(w), "failed") \/ UNCHANGED scans
        /\ Goto(w, "failing")
        /\ UNCHANGED jobVars
     \/ /\ ctx[w] = "live" /\ Owns(w)
        /\ lease' = [lease EXCEPT ![cur[w]] = "held"]
        /\ Goto(w, IF pc[w] = "returned" THEN "ingesting" ELSE "reporting")
        /\ UNCHANGED <<status, hostOf, owner, due, attempts, scans, faults>>
  /\ UNCHANGED <<known, reach, findings, cur, att, ctx, lapses>>

\* UpsertObservation for one finding, drift and rarity included.
Ingest(w) ==
  LET h == hostOf[cur[w]]
      live == ScanCtxLive(w) /\ (Postgres => h \in known)   \* foreign key
  IN /\ pc[w] = "ingesting"
     /\ \/ /\ CallWorks(live)
           /\ findings' = [findings EXCEPT ![h] = @ \cup {Mine(w)}]
           /\ UNCHANGED pc
        \/ /\ CallFails(live)
           /\ Goto(w, "reporting")
           /\ UNCHANGED findings
     /\ UNCHANGED <<jobVars, known, reach, scans, cur, att, ctx, lapses>>

\* updateHostFromResult, which ignores store errors.
UpdateHost(w) ==
  /\ pc[w] = "ingesting"
  /\ \/ CallWorks(ScanCtxLive(w)) /\ SetReach(hostOf[cur[w]], "online")
     \/ CallFails(ScanCtxLive(w)) /\ UNCHANGED reach
  /\ Goto(w, "finishing")
  /\ UNCHANGED <<jobVars, known, scans, findings, cur, att, ctx, lapses>>

\* finish(ok or partial), which ignores the error of UpdateScan.
FinishScan(w) ==
  /\ pc[w] = "finishing"
  /\ \/ CallWorks(ScanCtxLive(w)) /\ SetScan(Mine(w), "ok")
     \/ CallFails(ScanCtxLive(w)) /\ UNCHANGED scans
  /\ Goto(w, "completing")
  /\ UNCHANGED <<jobVars, known, reach, findings, cur, att, ctx, lapses>>

\* finish(ScanFailed), which ignores the error of UpdateScan.
ReportFailure(w) ==
  /\ pc[w] = "reporting"
  /\ \/ CallWorks(ScanCtxLive(w)) /\ SetScan(Mine(w), "failed")
     \/ CallFails(ScanCtxLive(w)) /\ UNCHANGED scans
  /\ Goto(w, "marking")
  /\ UNCHANGED <<jobVars, known, reach, findings, cur, att, ctx, lapses>>

\* The rest of finish(ScanFailed); runOne turns the failed scan into an error of
\* the job.
MarkUnreachable(w) ==
  /\ pc[w] = "marking"
  /\ \/ CallWorks(ScanCtxLive(w)) /\ SetReach(hostOf[cur[w]], "unreachable")
     \/ CallFails(ScanCtxLive(w)) /\ UNCHANGED reach
  /\ Goto(w, "failing")
  /\ UNCHANGED <<jobVars, known, scans, findings, cur, att, ctx, lapses>>

\* runOne returns; after a shutdown the worker goroutine ends.
LeaveJob(w) ==
  /\ Goto(w, IF ctx[w] = "shutdown" THEN "dead" ELSE "idle")
  /\ cur' = [cur EXCEPT ![w] = NoJob]
  /\ att' = [att EXCEPT ![w] = 0]
  /\ ctx' = [ctx EXCEPT ![w] = "live"]

\* worker_id = NULL, lease_until = NULL
Release(j) ==
  /\ owner' = [owner EXCEPT ![j] = NoWorker]
  /\ lease' = [lease EXCEPT ![j] = "none"]

\* CompleteScanJob.
Complete(w) ==
  /\ pc[w] = "completing"
  /\ \/ /\ CallWorks(RunCtxLive(w) /\ Owns(w))
        /\ status' = [status EXCEPT ![cur[w]] = "succeeded"]
        /\ Release(cur[w])
     \/ /\ CallFails(RunCtxLive(w) /\ Owns(w))
        /\ UNCHANGED <<status, owner, lease>>
  /\ LeaveJob(w)
  /\ UNCHANGED <<hostOf, due, attempts, scanVars, lapses>>

\* terminal := job.Attempts >= job.MaxAttempts, of the worker's copy
Terminal(w) == att[w] >= MaxAttempts

\* Queue.fail and FailScanJob: retry after a back-off, or give up.
Fail(w) ==
  /\ pc[w] = "failing"
  /\ \/ /\ CallWorks(RunCtxLive(w) /\ Owns(w))
        /\ IF Terminal(w)
           THEN status' = [status EXCEPT ![cur[w]] = "failed"] /\ UNCHANGED due
           ELSE /\ status' = [status EXCEPT ![cur[w]] = "queued"]
                /\ due' = [due EXCEPT ![cur[w]] = FALSE]
        /\ Release(cur[w])
     \/ /\ CallFails(RunCtxLive(w) /\ Owns(w))
        /\ UNCHANGED <<status, owner, lease, due>>
  /\ LeaveJob(w)
  /\ UNCHANGED <<hostOf, attempts, scanVars, lapses>>
-------------------------------------------------------------------------------
(***************************************************************************)
(* Losing a server process.  Its workers never come back under their old   *)
(* ids; another worker that is still alive stands for the process that is  *)
(* started in its place.  The Memory store dies with its only process.     *)
(***************************************************************************)

Replaced(w) == \E v \in Workers \ {w} : pc[v] # "dead" /\ ctx[v] # "shutdown"

\* The process is killed.
Crash(w) ==
  /\ Postgres
  /\ pc[w] # "dead" /\ Replaced(w)
  /\ Goto(w, "dead")
  /\ cur' = [cur EXCEPT ![w] = NoJob]
  /\ att' = [att EXCEPT ![w] = 0]
  /\ ctx' = [ctx EXCEPT ![w] = "live"]
  /\ UNCHANGED <<jobVars, scanVars, lapses, faults>>

\* A signal cancels the context of Queue.Run, and every scan context with it.
Shutdown(w) ==
  /\ Postgres
  /\ pc[w] \in Busy /\ ctx[w] # "shutdown" /\ Replaced(w)
  /\ ctx' = [ctx EXCEPT ![w] = "shutdown"]
  /\ UNCHANGED <<jobVars, scanVars, pc, cur, att, lapses, faults>>
-------------------------------------------------------------------------------
\* Every step runOne takes by itself, once it has a job.
Proceed(w) ==
  \/ BeginScan(w) \/ Prepare(w) \/ ProbeReturns(w) \/ Validate(w)
  \/ Ingest(w) \/ UpdateHost(w) \/ FinishScan(w)
  \/ ReportFailure(w) \/ MarkUnreachable(w)
  \/ Complete(w) \/ Fail(w)

Next ==
  \/ \E h \in Hosts, j \in Jobs : Enqueue(h, j)
  \/ \E h \in Hosts : DeleteHost(h)
  \/ \E j \in Jobs : BackoffEnds(j) \/ LeaseLapses(j)
  \/ \E w \in Workers, j \in Jobs : Claim(w, j)
  \/ \E w \in Workers :
       \/ Proceed(w) \/ Connect(w)
       \/ ScanTimeout(w) \/ Heartbeat(w)
       \/ Crash(w) \/ Shutdown(w)

Spec == Init /\ [][Next]_vars

(***************************************************************************)
(* Fairness.  A worker goroutine that is not lost keeps running, and the   *)
(* store answers it; the poll loop claims what it may; time passes.  One   *)
(* assumption is kept apart because the code does not establish it:        *)
(* that the SSH handshake ends (Answers) is up to the scanned host.        *)
(***************************************************************************)
Progress ==
  /\ \A w \in Workers : WF_vars(Proceed(w))
  /\ \A w \in Workers, j \in Jobs : WF_vars(Claim(w, j) /\ UNCHANGED faults)
  /\ \A j \in Jobs : WF_vars(BackoffEnds(j)) /\ WF_vars(LeaseLapses(j))
  /\ \A w \in Workers : WF_vars(ScanTimeout(w))

Answers == \A w \in Workers : WF_vars(Connect(w))

FairSpec == Spec /\ Progress
AnsweringSpec == Spec /\ Progress /\ Answers
-------------------------------------------------------------------------------
(***************************************************************************)
(* Properties.                                                             *)
(***************************************************************************)

\* A host never has two unfinished jobs, whatever mixture of API retries,
\* schedules and reclaims produced them (the index scan_jobs_one_active_per_host).
OneActiveJobPerHost ==
  \A j, k \in Jobs :
    /\ status[j] \in Active /\ status[k] \in Active
    /\ hostOf[j] = hostOf[k]
    => j = k

\* As long as every heartbeat arrives in time, two workers are never at work on
\* the same host, through crashes, failing store calls and lost claims.  (Once a
\* host is deleted its old worker may still be on its way out.)
ExclusiveScan ==
  lapses = 0 =>
    \A v, w \in Workers :
      /\ pc[v] \in Busy /\ pc[w] \in Busy
      /\ hostOf[cur[v]] = hostOf[cur[w]]
      /\ hostOf[cur[v]] \in known
      => v = w

\* A worker whose id is in the row holds the latest attempt: comparing worker
\* ids, as the store does, is as good as comparing attempt numbers.
OwnerHasLatestAttempt ==
  \A w \in Workers : pc[w] \in Busy /\ Owns(w) => att[w] = attempts[cur[w]]

\* A retry is only scheduled while attempts are left, and a job is only given up
\* when they are used up: a superseded worker's copy of Attempts decides neither.
RetryBudget ==
  \A j \in Jobs :
    /\ status[j] = "queued" => attempts[j] < MaxAttempts
    /\ status[j] = "failed" => attempts[j] >= MaxAttempts

\* A job reported succeeded never points at a scan recorded as failed.
SucceededScanNotFailed ==
  \A j \in Jobs :
    status[j] = "succeeded" => <<j, attempts[j]>> \notin scans["failed"]

\* What becomes of a running job is decided by its latest attempt, by a worker
\* that has finished that attempt; a superseded worker changes nothing.
SettledByLatestAttempt ==
  [][\A j \in Jobs :
       status[j] = "running" /\ status'[j] \in {"queued", "succeeded", "failed"}
       => \E w \in Workers :
            /\ pc[w] \in {"completing", "failing"}
            /\ cur[w] = j /\ att[w] = attempts[j]]_vars

\* As long as every heartbeat arrives in time, whatever is written about a host, its
\* observations and its status, is written while the writer owns the host's job:
\* ownership is checked once, before the first of these writes.
OwnerWrites ==
  [][\A h \in known' :
       lapses = 0 /\ (findings'[h] # findings[h] \/ reach'[h] # reach[h])
       => \E w \in Workers :
            pc[w] \in {"ingesting", "marking"} /\ hostOf[cur[w]] = h /\ Owns(w)]_vars

\* A scan recorded as failed has written no observations, unless the database
\* failed: a cancellation between two observations stops the record as well.
FailedScanLeftNothing ==
  faults = 0 =>
    \A h \in Hosts : scans["failed"] \cap findings[h] = {}

\* In Postgres, scans that were under way when their host was deleted leave neither
\* scans nor observations behind, whatever they still try to write.
DeletedHostLeavesNothing ==
  Postgres =>
    /\ \A h \in Hosts \ known : findings[h] = {}
    /\ \A s \in ScanStatus : \A a \in scans[s] : hostOf[a[1]] \in known

\* No job is lost: a queued or running job is eventually settled, though workers
\* crash, leases lapse and store calls fail.
EveryJobSettles ==
  \A j \in Jobs : status[j] \in Active ~> status[j] \notin Active

\* The queue keeps the promise of JobLease; the attempts held are the ones the
\* workers are busy with.
Promise ==
  INSTANCE JobLease WITH
    Limit <- MaxAttempts,
    phase <- status, place <- hostOf, token <- attempts,
    holders <- {Mine(w) : w \in {v \in Workers : pc[v] \in Busy}}
KeepsPromise == Promise!Spec
-------------------------------------------------------------------------------
(***************************************************************************)
(* Claims of the documentation that the code does not keep.                *)
(***************************************************************************)

\* docs/deployment.md: a superseded attempt does not ingest findings.
NoSupersededFindings ==
  [][\A h \in Hosts : \A a \in findings'[h] \ findings[h] :
       status[a[1]] = "running" /\ attempts[a[1]] = a[2]]_vars

\* internal/scan/ssh.go: a host that hangs after connect cannot block the scan
\* past the scan deadline.
DeadlineEndsProbe ==
  \A w \in Workers :
    ctx[w] # "live" /\ pc[w] \in {"dialing", "probing"}
    ~> pc[w] \notin {"dialing", "probing"}
===============================================================================
