# A verification project for bladedr

bladedr is an agentless EDR.  A control-plane server keeps an inventory of Linux
hosts, scans each of them over SSH with a short-lived probe, evaluates rules over
the digest the probe sends back, and stores the findings as observations.  It can
also run response playbooks on a host, forward observations to external targets and
accept events from an optional resident sensor.

This directory models the parts of the server whose correctness depends on order,
failure and concurrency, checks them with TLC on small instances, and proves the
most important results with TLAPS for every value of the constants.  Paths below are
relative to the repository; each definition's lines are in `PROJECT.json` under
`map`.

- [Inventory](#inventory): the parts of the system, their state and their hazards
- [Modules](#modules): which module models which part, and how
- [Runs](#runs): what TLC checks, with which bounds
- [Fairness](#fairness)
- [Proofs](#proofs): what is proved, and along which argument
- [Findings](#findings): where the code and its documents disagree
- [Limits](#limits): what is only model-checked, and what is not modelled
- [Plan](#plan): what comes next, and in which order

## Inventory

The server is one Go process, or several over one Postgres database.  `main` starts
the scan workers, the response worker, the export workers, the scheduler and the
retention loop as goroutines (`cmd/bladedr-server/main.go`), and serves the API.  They
share nothing but the store, an interface with two implementations: `Memory`, one
mutex around maps, for a single process; and `Postgres`, where each call is a
statement or a transaction.  A signal cancels one context; the server drains HTTP
for ten seconds and exits without waiting for the goroutines.

| Part | State | Operations | What is hard | What makes it correct |
|---|---|---|---|---|
| Scan queue (`scan/queue.go`, store) | `scan_jobs`: status, worker, lease, attempts, next attempt | enqueue, claim, renew, complete, fail; heartbeat | crash between claim and completion, lapsed lease of a living worker, lost answers, host deleted under a scan | one unfinished job a host, only the latest attempt decides, retries within budget, every job settles |
| Scan runner (`scan/runner.go`) | `scans`, host status, observations | create scan, probe, validate owner, ingest, finish | ownership is checked once, store errors are ignored | a succeeded job has no failed scan, a failed scan left no findings |
| Response actions (`scan/response.go`, `api.go`, store) | `response_actions`: status, requester, approver, rejecter, worker, lease | request, approve, reject, claim, run, report | two administrators and a worker race; a root command is not idempotent | two persons, rejection terminal, reruns only after an expired lease |
| Export outbox (`export/worker.go`, store) | `export_outbox`, `export_targets` | upsert with deliveries, claim, read, send, complete, fail, redrive | lost answers, at-least-once delivery, deletions meanwhile | what is marked sent has arrived and is current, every delivery settles |
| Baseline drift (`Runner.applyBaseline`) | `baselines` | establish, compare, reset | read and write are separate, errors of both | the baseline is frozen, every new item surfaces |
| Observations (`UpsertObservation`, dispositions, retention) | `observations`: status, verdict, last_seen; `scans` | upsert, reopen, disposition, verdict, retention | absence is inferred from timestamps | assessments survive scans, what is present stays closed, what returns reopens |
| Fleet rarity (`Runner.applyRarity`) | none of its own | counts over all baselines of a cohort | thresholds of small fleets, a host without a baseline | nothing common is called rare |
| Credential reuse (`scan/reuse.go`) | `host_inventory` | save, list, compare | scans of two hosts overlap; a host leaves while it is compared | a shared credential is reported on one of the hosts |
| Store (`store/memory.go`, `store/postgres.go`) | all tables | 100 methods, implemented twice | an order, a cascade, a default or a boundary that one of the two has alone; tests run on `Memory`, the product on Postgres | the same calls get the same answers, rows and lists |
| SSH transport, probe launcher (`scan/ssh.go`) | a cache directory and a lock on the scanned host | dial, prune, upload, install, run | a remote command that outlives its client, in the middle of an upload too; attempts with several versions of the probe | one collector at a time; a part of a binary is run only after an upload that was cut off, and never under sudo |
| Host records (`hosts`) | address, key, mode, status | update the whole row, narrow setters | read-modify-write over minutes | a narrow write is not lost |
| Sensor deployment (`Runner.EnableSensor`, `DisableSensor`) | mode, `sensor_tokens`, staging directory, the agent's credential | create, deploy, revoke, update | each of five steps can fail or lose its answer; the script on the host ignores failures and outlives its handler; two operations overlap | an authenticated agent stays so; host, agent, tokens and mode agree in the end |
| Sensor agent and ingest (`cmd/bladedr-sensor`, `API.ingestEvents`) | a channel, a buffer of 10000 events, the place in the stream | read, buffer, post with back-off; store a batch | overflow during a retry, lost answers, a batch stored in part, restarts | no event vanishes, nothing is sent again without need |
| Scheduler (`scan/scheduler.go`, `API.patchSchedule`) | `schedules` | tick, enqueue, advance; create, edit, delete | an edit races with the advance, a crash before it; every server process ticks and claims nothing | firings are an interval apart, but for these |
| Accounts (`api/auth.go`, `auth`) | `users`, `sessions` | sign in and out, create, edit, delete, change password, second factor | rows are written whole, from a row read before the password was hashed | a password its holder never chose must be changed, a second factor was proven |
| Login limiter (`api/loginlimit.go`) | failures per address | admit, fail, reset, prune | attempts overlap; a shift with a cap | failures lead to the lockout they should |
| Rules (`rules`, `API.patchRule`) | `rules` table over the shipped set | upload, enable, delete; compile, evaluate, enrich | rules change while a scan uses them, a patch reads before it writes | a finding is its rule's, an upload survives |
| Risk model (`risk`) | a model file, verdicts, the lab's dataset | fold, rank, evaluate, tell | groups that cannot be held out, ties, labels that change between two reads | a trusted figure is earned on the fleet's own labels |
| Lists and pages (`API.listAudit`, `listObservations`) | cursors | first page, next page | rows become visible with an older time, rows with equal times | a row that stays is listed once |
| Schema migrations (`store/migrate.go`) | `schema_migrations` | read, run, record, adopt | servers that start together, or are killed between two files | the record says what ran |
| Probe collectors (`probe/collect_linux.go`) | a snapshot of a host that runs on | list, probe, list again; three lists of modules | processes come and go between two looks | what hides is found, what does not is not reported |
| Secrets, command line tools, lab | see `PROJECT.json` | | | |

How they interact: the API and the scheduler enqueue jobs; a scan worker claims a job
and runs the scan, which reads and writes baselines, inventories, observations and
the host's row; every upsert of an observation writes export deliveries in its own
transaction; retention deletes observations and scans, and with them deliveries;
deleting a host deletes everything that refers to it.  The sensor's events become
observations through the ingest handler.

`PROJECT.json` lists under `hazards` what is hard to test in this code, at the line
where it bites, with the properties that would catch it going wrong.

## Modules

    JobLease            what a scan queue promises, abstractly
      ^ KeepsPromise
    ScanQueue           queue, workers, heartbeats, scans     ScanQueueProofs         MCScanQueue
    ResponseActions     two-person response actions           ResponseActionsProofs   MCResponseActions
    ExportOutbox        the outbox and its workers            ExportOutboxProofs      MCExportOutbox
    Observations        the observations of one host          ObservationsProofs      MCObservations
    Accounts            users, sessions, second factors       ConsoleProofs           MCAccounts

    StoreTables         the tables of a store
      ^ MemoryStore     the methods of store.Memory           StoreMethodsProofs
      ^ PostgresStore   the methods of store.Postgres         StoreMethodsProofs
      ^ StoreContract   both, given the same calls            StoreContractProofs     MCStoreContract

    SensorChannel       the agent's events                    DetectionProofs  \
    ProbeLauncher       the probe on a host                   DetectionProofs   | MCHostSide
    HiddenState         hidden processes and modules          DetectionProofs   |
    DriftBaseline       the baseline of one host              DetectionProofs  /

    SensorDeployment    the sensor of one host                ConsoleProofs    \
    Schedules           recurring scans                       ConsoleProofs     |
    FleetCorrelation    reuse and rarity                      ConsoleProofs     |
    RuleLayers          rules and the scans that use them     ConsoleProofs     | MCConsole
    Migrations          the schema                            ConsoleProofs     |
    LoginLimiter        the sign-in throttle                  ConsoleProofs     |
    RiskEvaluation      whether the risk model is trusted     DetectionProofs   |
    Paging              lists read page by page               DetectionProofs  /

An `MC...` module gives TLC what it needs besides.  `MCHostSide` and `MCConsole` check
several modules that share no state in one run: the variable `part` says which of them
moves, the others keep their initial values.

Conventions.  A row that does not exist has the status `absent`; one that `ON DELETE
CASCADE` took along has the status `deleted`.  Every store call is one step, because
the code holds no lock between two calls; the several outcomes of a call, the failure
of the database among them, are disjuncts of the action.  Time is not counted, except
where the code compares ages or computes instants (`Observations`, `LoginLimiter`,
`Schedules`, `Paging`, the stores): a lease may run out, a back-off end
and a timeout strike at any moment, which covers slow workers, clock jumps and clocks
that disagree.  A counter bounds how often what the code does not limit may happen
(`MaxFaults` failing store calls, `MaxLapses` leases that run out under a living
worker, `MaxRedrives`, `MaxResets`, `MaxVersions`, `MaxTime`); the proofs hold for
every value of the bounds.  Definitions named in a `Mutant of ...` comment are wrong
variants of the definition after them, each with a bug the code might have had; no
specification uses them, and each property is known to fail when its variant takes the place of
the original.

### JobLease

What a durable queue promises, without workers, leases, clocks or a database: jobs
are handed out as numbered attempts, a host has one unfinished job, and only the
latest attempt settles a job.  The number is the fencing token that the real queue
does not have: it compares worker ids.

### ScanQueue

The rows of `scan_jobs`, `scans` and `hosts`, and for each worker the position in
`Queue.runOne` and `Runner.scan` (`pc`), the copy of the job it claimed (`cur`,
`att`) and its scan context (`ctx`).

| Code | Actions |
|---|---|
| `EnqueueScanJob`, `DeleteHost` | `Enqueue`, `DeleteHost` |
| `ClaimScanJob`; its answer may be lost after the commit | `Claim` |
| `Queue.heartbeat`, `context.WithTimeout` | `Heartbeat`, `ScanTimeout` |
| `Runner.scan`: `GetHost`, `CreateScan` | `BeginScan` |
| rules and transport; dial and handshake; the probe | `Prepare`, `Connect`, `ProbeReturns` |
| `ctx.Err()` and `validateOwner`, `discard` | `Validate` |
| `UpsertObservation` of each finding | `Ingest` |
| `updateHostFromResult`, `finish` | `UpdateHost`, `FinishScan`, `ReportFailure`, `MarkUnreachable` |
| `CompleteScanJob`; `Queue.fail`, `FailScanJob` | `Complete`, `Fail` |
| the clock: `next_attempt_at`, `lease_until` | `BackoffEnds`, `LeaseLapses` |
| the loss of a process, a signal | `Crash`, `Shutdown` |

The constant `Postgres` chooses the store: a cancelled context makes a Postgres call
fail and goes unnoticed in `Memory`; deleting a host cascades in Postgres only; a
`Memory` store dies with its process, so it has neither crashes nor failing calls.
The runs use Postgres; the proofs cover both.  A worker's id is never used again: a
process that is lost is replaced by other workers, and `Replaced` keeps at least one.
An attempt that writes observations is what `findings` records; what the observations
say is the business of the other modules.

### ResponseActions

Rows of `response_actions`, users that the API lets request and decide, and the
worker of each process.  Request, approval, rejection and claim are the conditional
updates of the store; between the claim and the report the worker reads the host,
dials, sends the root command and learns its outcome, each a step.  `runs` counts
how often the command was sent and `expiries` how often a claim ran out: both are
history.  The lease is never renewed in the code (`RenewResponseActionLease` has no
caller), so nothing in the model renews it.

### ExportOutbox

A delivery is named by what its row was written for: target, observation and the
version of the observation that the upsert made.  Its payload, however, is read when
it is sent (`ReadObservation`), so that a late delivery carries a later version.
`first` records the version in the first request an HTTP target accepted under the
delivery's `Idempotency-Key`, as a deduplicating target would keep it.  A syslog
target acknowledges nothing: `Send` may succeed without anything arriving.

### DriftBaseline

The baseline of one host and the scans that compare a digest with it.  Reading the
baseline, saving one, and reporting what is new are separate store calls in
`applyBaseline`, and are separate steps here.  `Overlapping` says whether scans of the
host may overlap.  The queue excludes that while leases hold (`ExclusiveScan`); a
superseded scan overlaps its successor.

### Observations

One host's observations with the status, the verdict and `last_seen`, its scans with
status and start, and a clock.  `saw` is history: what each scan really saw.  The code
infers from `last_seen` and the start of the latest completed scan that a finding was
absent; the properties say what the inference should mean in terms of `saw`.  Scans
overlap freely here, because a superseded scan still writes (see the findings).
Retention moves observations and scans to the archive.

### Accounts

`users` and `sessions` are the tables, `requests` what each running handler holds.  A
request is two steps, because the code reads a row, then hashes or compares for a
tenth of a second without a lock, and writes the row whole: `Enter` is the middleware
(session, caller's row, the role policy `Allowed`, the forced password change),
`EnterPatch` reads the target of a PATCH too; `Login`, `setupMFA`, `confirmMFA`,
`disableMFA`, `changeOwnPassword`, `createUser`, `patchUser`, `deleteUser`,
`CreateSession` and `logout` are the writes.  `Expire` is time, `Restart` the start
of a server with `bootstrapAdmin`.  A row's password is one of a small set, which the
same account may have several times; `chosen` is history, the passwords an account's
holder gave it (`ChangeTo`), in contrast to those an administrator or the startup log
told.  `changeOwnPassword` refuses the current password and no other
(`api/auth.go:434`), so that a holder can go from a told password to another and back:
then an administrator knows a password in force and no change is demanded.
`ToldPasswordsMustChange` calls a password told only until its holder has chosen it.

### StoreTables, MemoryStore, PostgresStore, StoreContract

A store is a record of tables; a method is an operator from a store and arguments to a
new store and an answer, once as `memory.go` computes it and once as the SQL of
`postgres.go` does, with the foreign keys, cascades and defaults of the schema.
`StoreContract` keeps one store of each kind and makes the same calls on both: its
actions are the methods, in groups, each with the methods that create and delete the rows
it refers to; `Few` bounds how many rows of a table a group creates.  Identities are
numbers from 1 in place of UUIDs.  The types of the rows (`HostRow` and the like) are the
struct types of `store.go` with the columns that decide anything.

### SensorChannel

`Read` follows Tetragon's stream, `add` moves events from the channel to the buffer and
drops the oldest at the cap, `flusher` starts a flush, `Sent` and `NotSent` are the
outcomes of posting a chunk: stored whole, stored in part, refused, or stored with the
answer lost.  `Elapse` is the back-off, `Restart` the loss of the process; whether the
stream is a file that is read again or a socket (`followed`) is chosen at the start.

### ProbeLauncher

What `RunProbe` does on a host, as one step a remote command: `pruneStaleProbes`,
`probeCached`, the installation, `probeCommand`, `lockedProbeScript` with `PollLock`, and
`ProbeExits`.  The installation is one remote command, `cat`, `chmod` and `mv`, of which
the model sees three moments: `StartInstall`, the end of the input (`FinishUpload`) and
`Install`.  `CloseClient` is the scan deadline: the connection goes, the command may go
on, and a `cat` that is receiving the binary takes what it got for all of it and lets
`mv` follow.  `login` is the account: root runs the file at the path as it is, and so does
an account without sudo; under sudo a copy is checked against the digest first.  `cutOff`
is history: the versions an upload of which ended with its client.

### HiddenState

`collectHiddenPIDs` as its five passes, one pid a step (`readProcPidSet`,
`CollectCandidates`, `ListAgain`, `collectHiddenPIDs`), and `collectHiddenModules`
as its three reads and the comparison, while processes and modules come and go
(`Become`, `ModuleMoves`).  `was`, `lives` and `moved` are history.

### SensorDeployment

The row of one host, its tokens, the credential in the staging directory, in `sensor.env`
and the one the agent runs with, under `EnableSensor` (`CreateSensorToken`,
`DeploySensor`, the revocations, the final write), `DisableSensor`, `patchHost`,
`uiEditHost`, the pin of a first contact and tokens made and revoked by hand.  Each
handler holds the row it read at its beginning and may write it whole at the end.

What a handler starts on the host is a script with steps of its own, in `scripts`:
`ReadToken`, `Prepare`, `WriteEnv` and `RestartAgent` are the deployment script's, which
stops at an error only up to the start of the container (`exit 1`) and from there on
runs under `set -u` alone, so that `sensor.env` may keep its old or get a partial content,
the unit may not be restarted and the agent not started, and the answer is a success all
the same; `Teardown` is the command of `StopSensor`.  `HandlerGivesUp` is the end of
`hostSensor`'s four minutes or of the connection: the script goes on without its handler,
into whatever operation comes next, or ends (`ScriptDies`).  `AgentRestarts` is systemd,
which starts the agent with what `sensor.env` holds.

`sound` is history: nothing else touched the sensor while the operation ran, no script
was left over from an earlier one, no step of its own script failed without saying so,
and the answer arrived.  What is not `sound` is in the state space with all its
consequences, and `RotationHasNoGap` and `OperationSettles` hold for every sound operation
that comes after.

### Schedules

Every server process runs a scheduler (`Schedulers`).  `RunDue` lists the schedules once,
then `Skip` or `fire` and `UpdateSchedule` for each; nothing claims a schedule that is due.
`GetSchedule` and `patchSchedule` are the two halves of a PATCH.  `fired` is history, and
so is `overlapped`: since a schedule fired last, its advance failed, was lost in a crash or
undone by another write, or another server's tick had the schedule as well and may fire it
once more.  What a second firing enqueues meets hosts with an active job, which get no
second one (`OneActiveJobPerHost` of the queue).

### FleetCorrelation

A scan of each host: `ProbeHost` reads what is on it, `applyRarity` counts over the
baselines of the cohort, `SaveInventory`, `ListInventories` and `applyCredentialReuse`
are the three steps of the comparison.  `Cascades` chooses the store, whose
`DeleteHost` takes the inventory along or does not.

### RuleLayers

The `rules` table over the shipped rules.  `patchRule` is three calls
(`SetRuleEnabled`, `activeRule`, `UpsertOverride`); a scan loads and compiles the
rules (`LoadRules`), the probe evaluates them (`RunProbe`), and the findings are
enriched from the bundle the scan compiled (`Ingest`).  `Evaluate` fails on the first
condition whose value is no truth value, and then the scan fails.

### RiskEvaluation

The labels come from two calls of the store, the dataset of the attack range from a
file.  `groupedFolds` places one group a step, greedily, as the code does;
`crossValidate` and `evaluate` are the gates in their order.  What the model makes of
the features is any ranking of the held-out rows.

### Paging

Observations and the audit log, newest first, with the cursor (time and id) of the last
row of each page.  In Postgres `now()` is when a transaction began: `BeginWrite` and
`CommitWrite` are two steps.

### Migrations

`appliedMigrations` reads the record, `RunMigration` and `applyMigration` run a file and
record it in one transaction, `Serve` and `Killed` end a start.  A database older than
the record is adopted.

### LoginLimiter

`retryAfter` admits or refuses an attempt, `fail` and `reset` tell the outcome later;
`retryAfter` and `fail`
prune once a window; `newLoginLimiter` is a restart.

## Runs

`tlc -config X.cfg MCmodule.tla` checks a run.  Runs expected to pass are exhaustive.
Deadlock is not checked anywhere: the identities of jobs, actions and scans are
finite, and the system may stop when all are used up.

| Run | Instance | Distinct states | Shows |
|---|---|---|---|
| `retries` | 1 host, 1 job, 2 workers, 2 attempts, 1 lapse, 1 failing call | 508,391 | Attempts stay fenced though the store compares worker ids only; the queue implements `JobLease` |
| `hosts` | 2 hosts, 2 jobs, 2 workers, 1 attempt, 1 lapse | 699,410 | No two workers at a host while leases hold; writes by owners only |
| `liveness` | 1 host, 1 job, 2 workers, 2 attempts, 1 lapse | 84,735 | Every job is settled through crashes, shutdowns, lapses and deletions |
| `response` | 1 host, 1 action, 2 users, 3 workers, 1 lapse, 1 failing call | 57,120 | Two-person control, paid reruns, and every approved action settles |
| `export_versions` | 1 HTTP target, 1 observation in 2 versions, 2 workers, 1 lapse, 1 failing call | 1,217,472 | What is marked sent has arrived and is current |
| `export_redrive` | 1 syslog target, 1 version, 2 workers, 1 redrive, 1 lapse, 1 failing call | 86,001 | Every delivery settles, the dead-letter queue included |
| `observations` | 1 finding, 3 scans, 4 instants, all ages 1 | 1,078,568 | Nothing is lost, what returns reopens, what was refuted is not resolved |
| `accounts` | 2 ids, 2 passwords, 2 secrets, 2 requests, 1 session token, and four constraints | @ACC@ | Told passwords must be changed, second factors are proven, and only overlapping requests lose changes |
| `stores` | one or two rows of each table, three for events; lists with no limit, with 1 and with 2, the largest page being 1; 4 instants | @ST@ | `Memory` and Postgres agree in answers, rows and lists |
| `host_side` | 4 events, buffer of 3, chunks of 2, 1 restart; 2 attempts with 2 versions; 2 pids, 1 module, 3 changes; 3 items, 2 scans, 1 reset | @HS@ | No event vanishes and all settle; one whole probe at a time; what hides is found; drift surfaces and the baseline is frozen |
| `console` | 2 handlers with their scripts, 2 tokens; 3 sign-ins of 1 address, 10 instants; 2 schedulers, 1 schedule with 2 intervals, 3 instants; 2 hosts, 1 credential; 2 hosts and 2 techniques with 4 labels; 2 rules, 4 definitions; 3 rows, 4 instants; 3 servers, 3 migrations | @CO@ | The twelve properties of the eight parts |
| `superseded` | as `retries`, no failing call | violated | A superseded scan writes observations |

Why these bounds are enough for what they show:

- Two workers are a superseded one and its successor, which is where fencing can
  fail.  After a third takeover the first superseded worker is in the same position
  as the second.  `response` needs the third worker because two of them may be lost
  and somebody has to remain.
- Two attempts are the least number with a retry that is not the last; the terminal
  attempt is reached too, by failure and by reclaim.  The code's 3 and 10 add more of
  the middle.
- One lapse under a living worker already gives two workers that both believe to own
  the job.  Leases of lost workers lapse without limit.
- One failing call can be any call of the run, in each of the positions.
- Two hosts and two jobs show interference between hosts and between consecutive
  jobs of one host; more only repeat it.
- Three scans are the one that sees a finding, the one that may miss it, and the one
  that sees it again.  Ages of one tick and a clock of four instants put each event
  before, at and after each threshold.  Findings do not influence one another, so one
  is enough; two observations, targets or actions are likewise independent rows.
- Two scans of a changing host with three items are one that establishes the baseline,
  with the reset also the one that establishes it again, and one that reports.
- Two accounts and two requests are an administrator and a holder, or two requests of
  one account; a handler holds one row, so an interference needs two.  Two secrets are
  for two enrolments that overlap, two passwords for a told one and one that is chosen,
  in either order.  The constraints of the run cut behaviours off: `OneEnrols`, the
  second factor is one account's at a time; `TwoChosen`, holders choose two passwords;
  `OneAccount`, rows that are held at once are one account's; `OneThing`, while there is
  a second factor the passwords are all the same and nobody is disabled.  What lies
  beyond a constraint the run says nothing of; the theorems do, since they have none.
- In `stores` a behaviour calls the methods of one group.  Two rows show an order, and
  with a largest page of one a limit of two is one more than the largest, and two events
  are cut.
- Four events overflow a buffer of three whose chunks are two, with one event in the
  channel, so that the buffer can be cut in the middle of a chunk that is retried.
- Three changes let a process exit, another take its pid and a third start or a module
  go, between any two passes.
- Three sign-ins at a time with a limit of two failures have an attempt admitted
  before and told after the lockout.  Windows of three ticks and a clock of ten put
  expiry and pruning within reach.
- Two schedulers are a server and another that has its due schedule at the same time.
  Two intervals and three instants let an edit make the interval shorter or longer, and
  a firing be late by one interval; longer outages are the theorem's.
- Two handlers on a sensor are a rotation and what disturbs it, or one handler and the
  script that another has left behind; two tokens are the agent's and the next.
  `KeyStaysPinned`, a constraint, keeps to hosts whose key is pinned, since nothing but
  the row's own column depends on that; the theorems do without it.
- Three servers are two new ones that race and one with an older binary.

The safety invariants were also checked with other parameters while they were
written, `Memory` in place of Postgres among them.

Each property of a passing run has a mutant in `PROJECT.json`: a definition in which
one plausible bug replaces the code's behaviour, and with which TLC finds the property
violated in the same run.

## Fairness

Liveness needs assumptions about scheduling, and each one is a fact about the code:

- A goroutine that is not lost keeps running: `WF(Proceed(w))`.  Go's scheduler gives
  that, every store call ends, and the timeouts of the export (15 s) and the response
  worker (2 min) end every exchange once it is connected.
- The poll loops claim what may be claimed: `WF(Claim(w, j) /\ UNCHANGED faults)`.
  The conjunct says that not every claim's answer is lost; the number of failing calls
  is bounded by `MaxFaults`, which stands for a database that recovers.
- Time passes: `WF(BackoffEnds)`, `WF(LeaseLapses)`, `WF(ScanTimeout)`.  There is no
  fairness for heartbeats to fail, hosts to be deleted, or scans to be enqueued.
- A server that is lost is replaced.  That is not fairness but the guard `Replaced` of
  `Crash` and `Shutdown`: the last worker is not lost, because without any server
  there is nothing to show.
- `Answers`, kept apart: an SSH handshake ends.  The code does not establish this
  (see the finding on `DeadlineEndsProbe`): `ssh.NewClientConn` gets no deadline, and
  the goroutine that closes the client on cancellation starts after it.
  `EveryJobSettles` and `ApprovedActionSettles` are checked under `AnsweringSpec`.
- The agent's two goroutines run and its ticker ticks: `WF` of `Read`, `add`, `flusher`
  and `Elapse`.  `SF(Sent)` says that a server that is asked again and again answers at
  some time, which is what the retries are for; a batch that the server refuses for
  good would be retried for ever.

`Ingest` may be repeated, since a digest may lead to any number of findings; weak
fairness of `Proceed` alone would let a scan ingest for ever.  `ScanTimeout` is what
ends it: after the deadline the next store call of the scan fails.

## Proofs

`tlapm M.tla` checks the proofs of a module; every theorem is for all values of the
constants that satisfy the module's assumption (`QueueAssumption`,
`ResponseAssumption`, `OutboxAssumption`, `ObservationsAssumption` and the like),
which only say that bounds are natural numbers and that the null values are none of
the others.  All invariants that are cited below as strengthenings are conjunctions of
named parts.

**ScanQueueProofs.**

- `TypeCorrect`.  `TypeInv` adds that a busy worker has a job, which the lookups
  `hostOf[cur[w]]` need.
- `OneActiveJob`.  Inductive as it stands: only `Enqueue` makes a job unfinished
  that was not, and it looks.
- `OwnerLatest`, `RetriesBudgeted`, `SettledByLatest`.  `AttemptInv` adds that no
  worker's copy is ahead of the row and that no two workers hold the same attempt.
  This is why comparing worker ids is as good as comparing attempt numbers: a claim
  makes a new number and a new owner in one statement.
- `Exclusive`.  `OwnershipInv` says that, while no lease has lapsed under a living
  worker, a busy worker owns its job unless the row was deleted, and that a lapsed
  lease has nobody attending.  A claim then takes an unattended job, and one
  unfinished job a host does the rest.
- `SucceededNotFailed`.  `ScanInv` follows an attempt to the end: one that is about
  to complete or whose job succeeded has no failed scan, because only its own worker
  records the failure and then goes on to fail the job.
- `WrittenByOwner`, from `OwnershipInv` again: a busy worker whose host exists owns its
  job.
- `NothingLeft`.  `DeletionInv` adds that a job has a host from the moment it exists, so
  that a scans row cannot come to belong to another host.
- `FailedLeftNothing`.  `FindingInv` follows an attempt from `claimed` to `reporting`:
  early on it has written nothing; if it fails after it has written, its context has
  ended or its host is gone, and then the failure cannot be recorded either.
- `Refinement`.  `ScanQueue` implements `JobLease`: the initial state maps to the
  initial state, and each step to a step or a stutter.  `StepKinds` sorts the 21
  actions by what they do to a job; most are stutters of the abstract queue.

**ResponseActionsProofs.**  `TwoPersons` and `RejectedForGood` follow from
`DecisionInv`, which ties status, approver, rejecter and owner together at each stage
of a row's life, because the store's updates are conditional on the status alone.
`SuccessRan` from `SentInv`: a worker past sending has sent.  `Exclusive` from
`HoldingInv`, as for the scan queue.  `OutcomeIsOwn`: the report is conditional on
the owner.  `RerunsPaid` from `BudgetInv`, which counts: the runs of an action, the
workers that are about to send it and the claim on offer are together at most one
more than the leases that have expired.  The proof needs cardinalities, since a step
of one worker moves it from one of the counted sets to the next.

**ExportOutboxProofs.**  `TypeCorrect` together with `InHand`.  `BudgetKept` and
`OutcomeIsOwn` from `RowInv` (rows exist only for versions that were written, and
before that nothing was attempted) and `CopyInv` (a worker that owns its delivery has
the row's count).  `NothingMissed` from `PayloadInv`: the version that is read is no
older than the row's, and a worker reports success only after an HTTP target accepted
something under the key.  `Exclusive` from `OwnedInv`.

**ObservationsProofs.**  `NoneLost`, `AssessmentKept` and `NoneRefuted` need
the types only.  `StaysClosed` is the one with content: `SeenSince` relates the
timestamps to the history of sightings (a scan saw a finding no earlier than its own
start, and `last_seen` never goes back), so that a scan that started after
`last_seen` has missed the finding.  `Returns` is the converse, while the row of that
scan exists.

**ConsoleProofs.**
- `RecordIsTrue`.  The pending list of a server that has read the record is the record's
  continuation, although others record the same versions meanwhile
  (`PendingContinues`); a migration and its record are one transaction.
- `FindingsAreTheirRules` from `ScanHolds`: what was found was found by an enabled rule of
  the bundle that the scan loaded.  `UploadsSurvivePatches` from `PatchesHold`: a patch that
  found no rule of the user's, and that nothing overtook, still finds none.
- `UndisturbedRotation` and `UndisturbedSettles` from `Undisturbed`: a handler that is
  sound is the only one and the only one with a script, and its stage and its script's
  place say what the tokens, the staging directory, `sensor.env` and the agent are.  Of
  the operations before it the invariant knows nothing but the types: what they left is
  anything.
- `SharedCredentialsNoticed`: of two scans that have listed, one has listed what the other
  saved (`OneSeesTheOther`), and one that has listed knows what a completed comparison
  compared, or that one has reported what the two share (`SeenOrReported`).
- `SpacedFirings` from `RowsAreSpaced`: the time in a row, in the table or as any server's
  tick has listed it, is an interval after the last firing, unless a write was lost, two
  ticks had the schedule at once, or a tick is between firing and writing back.
- `EveryFailureCounts` from `AllRemembered`: an entry is the history of its address, and
  where there is none the history is too long ago to count and its lockout is over.  That
  a lockout is a number at all is shown for each of the 21 powers of two there are.
- `ToldPasswords` and `ProvenFactors` from `SafeRows`: every account, in the table or in a
  handler's hands, is `Safe`, since it may be written at any time; the fields that matter
  are read, changed and written together.  `OverlapOnly` needs `FreshRows`, that a row in a
  handler's hands which nobody overtook is the table's, and `IssuedIds`, that an id is
  never issued again.

**DetectionProofs.**
- `OneCollector` and `WholeBinary` are inductive together: a lock, root's or the account's
  own, is held by the attempt that runs; the path of a version holds nothing or the whole
  binary, because it is installed by a rename, or an upload of that version was cut off.
- `EventsAccountedFor` and `NoNeedlessResend`: the events on their way are in increasing
  order through buffer and channel and are all that was read and is not settled.  Lemmas on
  cutting and joining sequences are proved from the library's theorems, without
  induction.  What the server has and the agent still holds is in doubt.
- `HidersFound`: every pass has been over the pids before the cursor, so that what hides
  all the while is a candidate after the second pass and found after the last
  (`HidersKept`).  Conversely a pid that one process has had and that never hid is, once a
  candidate, visible or free, and free when the second listing lacked it
  (`OthersCleared`).  `HiddenModulesListed`: a list that was read agrees with the host on
  modules that stay (`ListsHold`).
- The baseline: `Surfaces` for overlapping scans too, from `ComparedExplained`: what was
  taken off the list of a scan is in its baseline or reported.  `Frozen` for scans that
  exclude each other and a database that works, from `OneAtATime`; the finding on
  `FrozenBaseline` shows that the second assumption is needed.  `StaysDrift`, for scans
  that exclude each other, from `ComparesWithPresent`.

What is claimed of the figures of the risk model and of pages, of sums, minima and
orders, holds for every finite set, so it needs induction. The provers cannot
instantiate the library's induction rules, whose parameter is a predicate; but the
claims are about sets, and a set of counterexamples has a smallest one
(`SmallestSubset`, from the well-foundedness of the subset order on finite sets, and
`Climb` for numbers). On it rest the laws of sums (`SumStep`, `SumRemove`, `SumUnion`,
`SumNext`), derived from the definition of `MapThenFoldSet` by showing that a function
that adds up exists (`AddsExists`), and the first element of a finite order
(`FirstInOrder`).
- `TrustOfTheFleet` needs the types of evaluations only (`RiskTyped`), and that a part
  whose rows add up to none has no rows (`EmptyPart`).
- `SeparateGroups` from `FoldingInv`: of each label, two groups that were put into folds
  are not all in one fold.  With groups of one label each, the cheapest fold for the next
  group costs nothing while a fold without its label is left (`CheapestFold`), and there
  are two folds; so each fold that is held out leaves rows of both labels.
- `AreaIsTheShareOfPairs`, by induction on the number of scores (`RanksCountPairs`): the
  ranks of one more score are its pairs with the lower ones, its ties, and the triangle of
  the findings themselves (`RankStep`).
- `SteadyRows` from `ListingInv`: of the rows that stay, those up to the cursor have been
  listed once and those after it not yet.  A page is an initial part of the rows after
  the cursor (`RowsAreNewest`), and all of them if it is the last (`RowsAreAll`), which is
  where asking for one row more than the limit is needed.

**StoreMethodsProofs, StoreContractProofs.**  The two stores are not equal: Memory keeps
rows whose parent is gone, which the foreign keys of Postgres delete or unlink, and
only the newest events.  So what holds between them is said table by table (`Same`):
Postgres's row is Memory's as the foreign keys leave it (`HostedRow`, `ScannedRow`,
`UnlinkedRow`), given which parents are there, and Memory's log is a page of Postgres's.
`StateAgrees`, which is stated with the whole `Cascade`, follows from it
(`SameMeansAgreement`), but is not inductive.  `Meets` adds what keeps it so:
- `Refs`: Memory's rows name identities that have been drawn, so that a new row is nobody's
  parent before it is there, and none that is gone comes back;
- `Indexed`: the index by which Memory deduplicates finds exactly what the unique key of
  Postgres finds;
- `Addressed`, `Leased`, `LogInOrder`, `Past`: deliveries go with their target, what is
  handed out has a lease, the log is in the order of its identities and of its times, and
  no scan starts in the future;
- `GroupHolds`: what the methods of the group never do.

`StoreMethodsProofs` shows, of each method, that called of two stores which meet it leaves
two which meet and answers alike (the lemmas named after the methods, `...Agrees`), by what
must be known of a table that is written (`HostsWritten`, `JobsWritten` and so on)
and, of deletions, by `CascadeMeets`: the foreign keys, applied to rows that were removed on
both sides, restore `Same`.  `StoreContractProofs` continues with the methods that write
several tables at once (the upsert of a finding with its deliveries, retention with its
archive), and shows that each action keeps `IInv` (`...Keep`, `...Keeps`), which gives
`StoresMeet`, `StoresAnswerAlike` and `StoresAgree`.
The log needs most: the events Memory keeps are the newest of all, also when one is
appended or retention removes the oldest (`NewestAppended`, `AllAreNewest`), which is
about cardinalities of finite sets.  `StoresListAlike` compares the filters and orders of a
loop over a map with those of a query: what the one skips is what the other does not
select, with cursors, leases that are NULL (`Claimable...Agree`) and limits, where each
method's own reduction of what it is asked for is part of the statement (`ClampedLimit`).
The theorems hold for any tables, bounds and `Few`; like the run they are about the
behaviours of one group at a time.

## Findings

Where the code does not do what one of its documents says.  `superseded` is a run; of
the others the definition named is in its module with the reason, and TLC refutes it when it is
checked in place of the properties of the run that uses the module.  The quotations
are in `PROJECT.json`.

- `NoSupersededFindings` (ScanQueue): a superseded attempt ingests findings, because
  `Runner.scan` validates its ownership once and then writes all of them.  The job
  itself is safe (`SettledByLatestAttempt`).
- `DeadlineEndsProbe` (ScanQueue): a host that stalls in the SSH handshake blocks its
  worker past the scan deadline; what enforces the deadline starts after the handshake.
- `DeadOnlyWhenRefused` (ExportOutbox): a failing read of the target or the observation
  is taken for a permanent failure, a momentary error of the database included.
- `FrozenBaseline` (DriftBaseline, with a failing call): any error of `GetBaseline` is
  taken for an absent baseline, and the digest at hand replaces the frozen one.
- `AccountCanAlwaysWalkAway` (Accounts): a viewer cannot sign out; the role policy
  refuses the POST before the exception for a forced password change is asked.
- `RotationNeverHasAGap` (SensorDeployment): two overlapping rotations, one whose answer
  is lost, or one whose script fails in its last commands and says it succeeded, leave the
  agent with a revoked credential or none.
- `NeverRunsHalfAProbe` (ProbeLauncher): a client that is closed in the middle of its
  upload makes the remote command install what has arrived, and an attempt that checked
  the path before, and is root by its login or not root at all, runs it.
- `OnlyAnEditUnpins` (SensorDeployment): `EnableSensor` writes back the row it read before
  its own connection pinned the host's key.
- `SymbolsWithoutModuleFound` (HiddenState): a module with symbols that `/proc/modules`
  lacks is not reported if `/sys/module` shows it.
- `SharedKeysAreKeys` (FleetCorrelation): two hosts with an authorized_keys line that is
  no key are reported to share one.
- `SharedWithExistingHosts` (FleetCorrelation): with the Memory store a host that was
  deleted still counts as one that has its credentials.
- `EnoughGroupsAreValidated` (RiskEvaluation): the greedy folds may make an evaluation
  impossible that has enough groups, and it is dropped with that reason.
- `AcceptedRulesCanRun` (RuleLayers): a rule whose condition is not a truth value is
  accepted and then fails every scan.
- `AuditIsListed` (Paging): with the largest limit the audit log ends after one page,
  because the row that would show that there is another is cut off.  `ReadsAgree` of the
  stores names the same limit: Memory gives the 501 rows that Postgres reduces to 500.

More behaviours were met that contradict no document: two servers that tick together fire
a due schedule twice; a holder may choose an administrator's password again after one
change; the list of jobs, asked for without a limit, has 100 rows from Postgres and all from
Memory; a job that keeps killing its worker
is reclaimed beyond `MaxAttempts` (`Claimable` does not look at it); a syslog delivery is
marked sent although nothing need have arrived; retention may archive the scan that
proves that a finding was gone, after which the finding stays closed when it returns (the
exception in `ReturnReopens`); and an event whose upsert fails is answered for and not
stored (`refused` in SensorChannel).

## Limits

Only model-checked are the liveness properties (`EveryJobSettles`, `ApprovedActionSettles`,
`EveryDeliverySettles`, `ChannelSettles`), since liveness under fairness is out of the
reach of the prover.

Every other property of a passing run is also a theorem, without the constraints of the runs; those of `DriftBaseline` need scans
that exclude each other, `FrozenBaseline` a working database as well, and those of
`StoreContract` are about one group of methods at a time.  Some safety
properties are theorems only and in no run, because they are consequences or parts of
those that are: one unfinished job a host, retries within the budget, rejections that
are terminal, and others in `PROJECT.json`.

Abstractions to keep in mind:

- The set of findings a scan writes, the content of digests and payloads, and the
  score are not computed: `Ingest` writes for the attempt, `DriftBaseline` has a set
  of items, `ExportOutbox` a version.
- The order in which claimable rows are handed out is left open; the two stores
  differ in it, and nothing checked here depends on it.
- One clock is assumed for the server and the database in `Observations`, where the
  code compares `now()` of Postgres with a `started_at` written by the server.  In the
  queues no clock is compared.
- Comments and ownership of observations, full-text search, and the counts of the
  dashboards are left out of the stores.
- A call of a store is atomic.  Postgres runs its statements under read committed; what
  two of them do to one row at a time is decided by its row locks, which the models take
  for granted, except in `Paging`, where the beginning and the end of a transaction
  are two steps.
- The parts within `MCHostSide` and `MCConsole` are checked each by itself; what they share with
  another (the scan queue that a schedule feeds, the observations that the sensor writes)
  is abstracted as their headers say.
- The servers' clocks agree in `Schedules`, where each compares a row with its own.
- A lost worker's command on the host may still be running when the action is handed
  out again; `runs` counts commands sent, not commands finished.

Not modelled: secrets (sealed boxes of a library; whether one can be opened is an input of
`ExportOutbox`), the command line tools and the lab (sequential clients and generators of
data, without state of their own), the collectors of the probe other than those in
`HiddenState` (they read one file after the other, and their parsing is data), the
training of the risk model (floating point), and the pages of the web interface and the counters
(views over calls that are modelled).  `PROJECT.json` says for each component what is left
out.

## Plan

Done: all modules of the diagram above, with the theorems listed.

Next, in this order:

1. The composition of `ScanQueue` with `DriftBaseline` and `FleetCorrelation`, which would
   replace the parameter `Overlapping` by what the queue guarantees.
2. An abstract at-least-once channel, which `SensorChannel` and `ExportOutbox` both
   refine.
3. `Schedules` composed with `JobLease` through `Submit`.
4. Comments, ownership and search in the stores.
5. The agreement of the two stores without groups.  What is missing are deliveries of
   findings whose host is gone (a delivery is known by its place in the queue, where
   Postgres has none) and retention while hosts are deleted.
