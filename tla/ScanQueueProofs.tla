--------------------------- MODULE ScanQueueProofs ---------------------------
(***************************************************************************)
(* Proofs about ScanQueue for any hosts, jobs, workers, attempt limit and  *)
(* bounds, and for both stores.                                            *)
(***************************************************************************)
EXTENDS ScanQueue, TLAPS

USE QueueAssumption

\* A busy worker has the job of its claim.
BusyWorkersHaveJobs == \A w \in Workers : pc[w] \in Busy => cur[w] \in Jobs

TypeInv == TypeOK /\ BusyWorkersHaveJobs

LEMMA InitTypeInv == Init => TypeInv
  BY DEF Init, TypeInv, TypeOK, BusyWorkersHaveJobs, PC, Busy, Scanning, JobStatus

\* What a busy worker calls its attempt is one.
LEMMA MineIsAttempt ==
  ASSUME TypeInv, NEW w \in Workers, pc[w] \in Busy
  PROVE  Mine(w) \in Attempt /\ cur[w] \in Jobs
  BY DEF TypeInv, TypeOK, BusyWorkersHaveJobs, Mine, Attempt

\* UpdateScan keeps the partition of attempts well typed.
LEMMA SetScanType ==
  ASSUME NEW a \in Attempt, NEW s \in ScanStatus,
         scans \in [ScanStatus -> SUBSET Attempt],
         SetScan(a, s)
  PROVE  scans' \in [ScanStatus -> SUBSET Attempt]
  BY DEF SetScan

LEMMA NextTypeInv == TypeInv /\ [Next]_vars => TypeInv'
<1> SUFFICES ASSUME TypeInv, [Next]_vars PROVE TypeInv'
  OBVIOUS
<1> USE DEF TypeInv, TypeOK, BusyWorkersHaveJobs
<1>1. ASSUME NEW h \in Hosts, NEW j \in Jobs, Enqueue(h, j) PROVE TypeInv'
  BY <1>1 DEF Enqueue, JobStatus, scanVars, workerVars
<1>2. ASSUME NEW h \in Hosts, DeleteHost(h) PROVE TypeInv'
  <2>1. status' \in [Jobs -> JobStatus] /\ owner' \in [Jobs -> Workers \cup {NoWorker}]
        /\ lease' \in [Jobs -> {"none", "held", "lapsed"}]
    BY <1>2 DEF DeleteHost, JobStatus
  <2>2. scans' \in [ScanStatus -> SUBSET Attempt] /\ findings' \in [Hosts -> SUBSET Attempt]
    BY <1>2 DEF DeleteHost
  <2>3. QED
    BY <1>2, <2>1, <2>2 DEF DeleteHost, workerVars
<1>3. ASSUME NEW j \in Jobs, BackoffEnds(j) PROVE TypeInv'
  BY <1>3 DEF BackoffEnds, scanVars, workerVars
<1>4. ASSUME NEW j \in Jobs, LeaseLapses(j) PROVE TypeInv'
  BY <1>4 DEF LeaseLapses, scanVars, workerVars
<1>5. ASSUME NEW w \in Workers, NEW j \in Jobs, Claim(w, j) PROVE TypeInv'
  <2>1. faults' \in Nat
    BY <1>5 DEF Claim, DatabaseFails
  <2>2. status' \in [Jobs -> JobStatus] /\ owner' \in [Jobs -> Workers \cup {NoWorker}]
        /\ lease' \in [Jobs -> {"none", "held", "lapsed"}] /\ attempts' \in [Jobs -> Nat]
    BY <1>5 DEF Claim, Lease, JobStatus
  <2>3. /\ pc' \in [Workers -> PC] /\ cur' \in [Workers -> Jobs \cup {NoJob}]
        /\ att' \in [Workers -> Nat]
        /\ ctx' \in [Workers -> {"live", "cancelled", "shutdown"}]
    BY <1>5 DEF Claim, Goto, PC, Busy, workerVars
  <2>4. BusyWorkersHaveJobs'
    BY <1>5 DEF Claim, Goto, workerVars
  <2>5. QED
    BY <1>5, <2>1, <2>2, <2>3, <2>4 DEF Claim, scanVars
<1>6. ASSUME NEW w \in Workers, Proceed(w) PROVE TypeInv'
  <2> USE DEF Goto, PC, Busy, Scanning
  <2>1. CASE BeginScan(w)
    <3>1. scans' \in [ScanStatus -> SUBSET Attempt]
      BY <2>1, MineIsAttempt DEF BeginScan, ScanStatus
    <3>2. faults' \in Nat
      BY <2>1 DEF BeginScan, CallWorks, CallFails, DatabaseFails
    <3>3. QED
      BY <2>1, <3>1, <3>2 DEF BeginScan, jobVars
  <2>2. CASE Prepare(w)
    BY <2>2 DEF Prepare, jobVars, scanVars
  <2>3. CASE ProbeReturns(w)
    BY <2>3 DEF ProbeReturns, jobVars, scanVars
  <2>4. CASE Validate(w)
    <3>1. scans' \in [ScanStatus -> SUBSET Attempt]
      BY <2>4, MineIsAttempt, SetScanType DEF Validate, Discard, ScanStatus
    <3>2. faults' \in Nat
      BY <2>4 DEF Validate, Discard, DatabaseFails
    <3>3. lease' \in [Jobs -> {"none", "held", "lapsed"}] /\ pc' \in [Workers -> PC]
          /\ BusyWorkersHaveJobs'
      BY <2>4 DEF Validate, Discard, jobVars
    <3>4. QED
      BY <2>4, <3>1, <3>2, <3>3 DEF Validate, Discard, jobVars
  <2>5. CASE Ingest(w)
    <3>1. findings' \in [Hosts -> SUBSET Attempt]
      BY <2>5, MineIsAttempt DEF Ingest
    <3>2. faults' \in Nat
      BY <2>5 DEF Ingest, CallWorks, CallFails, DatabaseFails
    <3>3. QED
      BY <2>5, <3>1, <3>2 DEF Ingest, jobVars
  <2>6. CASE FinishScan(w) \/ ReportFailure(w)
    <3>1. scans' \in [ScanStatus -> SUBSET Attempt]
      BY <2>6, MineIsAttempt, SetScanType DEF FinishScan, ReportFailure, ScanStatus
    <3>2. faults' \in Nat
      BY <2>6 DEF FinishScan, ReportFailure, CallWorks, CallFails, DatabaseFails
    <3>3. QED
      BY <2>6, <3>1, <3>2 DEF FinishScan, ReportFailure, jobVars
  <2>7. CASE UpdateHost(w) \/ MarkUnreachable(w)
    <3>1. faults' \in Nat
      BY <2>7 DEF UpdateHost, MarkUnreachable, CallWorks, CallFails, DatabaseFails
    <3>2. reach' \in [Hosts -> {"pending", "online", "unreachable"}]
      BY <2>7 DEF UpdateHost, MarkUnreachable, SetReach
    <3>3. QED
      BY <2>7, <3>1, <3>2 DEF UpdateHost, MarkUnreachable, jobVars
  <2>8. CASE Complete(w)
    <3>1. faults' \in Nat
      BY <2>8 DEF Complete, CallWorks, CallFails, DatabaseFails
    <3>2. status' \in [Jobs -> JobStatus] /\ owner' \in [Jobs -> Workers \cup {NoWorker}]
          /\ lease' \in [Jobs -> {"none", "held", "lapsed"}]
      BY <2>8 DEF Complete, Release, JobStatus
    <3>3. QED
      BY <2>8, <3>1, <3>2 DEF Complete, LeaveJob, scanVars
  <2>9. CASE Fail(w)
    <3>1. faults' \in Nat
      BY <2>9 DEF Fail, CallWorks, CallFails, DatabaseFails
    <3>2. status' \in [Jobs -> JobStatus] /\ owner' \in [Jobs -> Workers \cup {NoWorker}]
          /\ lease' \in [Jobs -> {"none", "held", "lapsed"}]
      BY <2>9 DEF Fail, Release, JobStatus
    <3>3. due' \in [Jobs -> BOOLEAN]
      BY <2>9 DEF Fail
    <3>4. QED
      BY <2>9, <3>1, <3>2, <3>3 DEF Fail, LeaveJob, scanVars
  <2>10. QED
    BY <1>6, <2>1, <2>2, <2>3, <2>4, <2>5, <2>6, <2>7, <2>8, <2>9 DEF Proceed
<1>7. ASSUME NEW w \in Workers, Connect(w) PROVE TypeInv'
  BY <1>7 DEF Connect, Goto, PC, Busy, Scanning, jobVars, scanVars
<1>8. ASSUME NEW w \in Workers, ScanTimeout(w) PROVE TypeInv'
  BY <1>8 DEF ScanTimeout, jobVars, scanVars
<1>9. ASSUME NEW w \in Workers, Heartbeat(w) PROVE TypeInv'
  BY <1>9 DEF Heartbeat, CallFails, DatabaseFails, scanVars
<1>10. ASSUME NEW w \in Workers, Crash(w) PROVE TypeInv'
  BY <1>10 DEF Crash, Goto, PC, Busy, Scanning, jobVars, scanVars
<1>11. ASSUME NEW w \in Workers, Shutdown(w) PROVE TypeInv'
  BY <1>11 DEF Shutdown, jobVars, scanVars
<1>12. CASE UNCHANGED vars
  BY <1>12 DEF vars, jobVars, scanVars, workerVars
<1>13. QED
  BY <1>1, <1>2, <1>3, <1>4, <1>5, <1>6, <1>7, <1>8, <1>9, <1>10, <1>11, <1>12 DEF Next

\* The rows, the workers' copies and the counters keep their types under every
\* operation of the queue, the stores and the API.
THEOREM TypeCorrect == Spec => []TypeOK
<1>1. TypeInv => TypeOK
  BY DEF TypeInv
<1>2. QED
  BY <1>1, InitTypeInv, NextTypeInv, PTL DEF Spec
-------------------------------------------------------------------------------
(***************************************************************************)
(* What a step can do to the claims.  The invariants about claims do not   *)
(* look at the progress of a scan, at leases or at contexts, so that each  *)
(* of the operations is one of six kinds for them.                         *)
(***************************************************************************)

Quiet == UNCHANGED <<status, hostOf, owner, attempts, pc, cur, att>>

Advance(w) ==
  /\ pc[w] \in Busy
  /\ \E there \in Busy : Goto(w, there)
  /\ UNCHANGED <<status, hostOf, owner, attempts, cur, att>>

\* The worker gives up its claim, or the store its process.
Leave(w) ==
  /\ \E there \in {"idle", "dead"} : Goto(w, there)
  /\ cur' = [cur EXCEPT ![w] = NoJob]
  /\ att' = [att EXCEPT ![w] = 0]

Abandon(w) == Leave(w) /\ UNCHANGED <<status, hostOf, owner, attempts>>

Settle(w) ==
  /\ pc[w] \in {"completing", "failing"}
  /\ Owns(w)
  /\ \/ pc[w] = "completing" /\ status' = [status EXCEPT ![cur[w]] = "succeeded"]
     \/ /\ pc[w] = "failing" /\ Terminal(w)
        /\ status' = [status EXCEPT ![cur[w]] = "failed"]
     \/ /\ pc[w] = "failing" /\ ~Terminal(w)
        /\ status' = [status EXCEPT ![cur[w]] = "queued"]
  /\ owner' = [owner EXCEPT ![cur[w]] = NoWorker]
  /\ Leave(w)
  /\ UNCHANGED <<hostOf, attempts>>

LEMMA StepKinds ==
  ASSUME TypeInv, [Next]_vars
  PROVE  \/ Quiet
         \/ \E h \in Hosts, j \in Jobs : Enqueue(h, j)
         \/ \E h \in Hosts : DeleteHost(h)
         \/ \E w \in Workers, j \in Jobs : Claim(w, j)
         \/ \E w \in Workers : Advance(w) \/ Abandon(w) \/ Settle(w)
<1> DEFINE Kinds(w) == Quiet \/ Advance(w) \/ Abandon(w) \/ Settle(w)
<1>1. ASSUME NEW j \in Jobs, BackoffEnds(j) \/ LeaseLapses(j) PROVE Quiet
  BY <1>1 DEF BackoffEnds, LeaseLapses, Quiet, workerVars
<1>2. ASSUME NEW w \in Workers, ScanTimeout(w) \/ Heartbeat(w) \/ Shutdown(w) PROVE Quiet
  BY <1>2 DEF ScanTimeout, Heartbeat, Shutdown, Quiet, jobVars
<1>3. ASSUME NEW w \in Workers, Crash(w) PROVE Abandon(w)
  BY <1>3 DEF Crash, Abandon, Leave, jobVars
<1>4. ASSUME NEW w \in Workers, Connect(w) PROVE Advance(w)
  BY <1>4 DEF Connect, Advance, Busy, Scanning, jobVars
<1>5. ASSUME NEW w \in Workers, Proceed(w) PROVE Kinds(w)
  <2>1. CASE BeginScan(w)
    BY <2>1 DEF BeginScan, Advance, Busy, Scanning, jobVars
  <2>2. CASE Prepare(w) \/ ProbeReturns(w)
    BY <2>2 DEF Prepare, ProbeReturns, Advance, Busy, Scanning, jobVars
  <2>3. CASE Validate(w)
    BY <2>3 DEF Validate, Discard, Advance, Busy, Scanning, jobVars
  <2>4. CASE Ingest(w)
    BY <2>4 DEF Ingest, Advance, Quiet, Busy, Scanning, jobVars
  <2>5. CASE FinishScan(w) \/ ReportFailure(w) \/ UpdateHost(w) \/ MarkUnreachable(w)
    BY <2>5 DEF FinishScan, ReportFailure, UpdateHost, MarkUnreachable, Advance, Busy, Scanning,
                jobVars
  <2>6. CASE Complete(w)
    <3>1. Leave(w)
      BY <2>6 DEF Complete, LeaveJob, Leave, Goto
    <3>2. QED
      BY <2>6, <3>1 DEF Complete, CallWorks, Release, Settle, Abandon
  <2>7. CASE Fail(w)
    <3>1. Leave(w)
      BY <2>7 DEF Fail, LeaveJob, Leave, Goto
    <3>2. QED
      BY <2>7, <3>1 DEF Fail, CallWorks, Release, Settle, Abandon
  <2>8. QED
    BY <1>5, <2>1, <2>2, <2>3, <2>4, <2>5, <2>6, <2>7 DEF Proceed
<1>6. CASE UNCHANGED vars
  BY <1>6 DEF vars, jobVars, workerVars, Quiet
<1>7. QED
  BY <1>1, <1>2, <1>3, <1>4, <1>5, <1>6 DEF Next
-------------------------------------------------------------------------------
(***************************************************************************)
(* One unfinished job per host.                                            *)
(***************************************************************************)

\* Only Enqueue turns a job without unfinished work into one that has some.
LEMMA NoNewActiveJobs ==
  ASSUME TypeInv, [Next]_vars,
         ~ \E h \in Hosts, j \in Jobs : Enqueue(h, j)
  PROVE  hostOf' = hostOf /\ \A j \in Jobs : status'[j] \in Active => status[j] \in Active
<1> USE DEF TypeInv, TypeOK, Active
<1>1. CASE Quiet
  BY <1>1 DEF Quiet
<1>2. ASSUME NEW h \in Hosts, DeleteHost(h)
      PROVE  hostOf' = hostOf /\ \A j \in Jobs : status'[j] \in Active => status[j] \in Active
  BY <1>2 DEF DeleteHost
<1>3. ASSUME NEW w \in Workers, NEW k \in Jobs, Claim(w, k)
      PROVE  hostOf' = hostOf /\ \A j \in Jobs : status'[j] \in Active => status[j] \in Active
  BY <1>3 DEF Claim, Claimable, Lease
<1>4. ASSUME NEW w \in Workers, Advance(w) \/ Abandon(w) \/ Settle(w)
      PROVE  hostOf' = hostOf /\ \A j \in Jobs : status'[j] \in Active => status[j] \in Active
  BY <1>4 DEF Advance, Abandon, Settle, Owns
<1>5. QED
  BY <1>1, <1>2, <1>3, <1>4, StepKinds

\* No mixture of API retries, schedules, reclaims and retries gives a host two
\* unfinished jobs, whatever the numbers of hosts, jobs and workers: the guard of
\* EnqueueScanJob is the only place that has to know about it.
THEOREM OneActiveJob == Spec => []OneActiveJobPerHost
<1>1. Init => OneActiveJobPerHost
  BY DEF Init, OneActiveJobPerHost, Active
<1>2. TypeInv /\ OneActiveJobPerHost /\ [Next]_vars => OneActiveJobPerHost'
  <2> SUFFICES ASSUME TypeInv, OneActiveJobPerHost, [Next]_vars
               PROVE  OneActiveJobPerHost'
    OBVIOUS
  <2>1. ASSUME NEW h \in Hosts, NEW j \in Jobs, Enqueue(h, j) PROVE OneActiveJobPerHost'
    BY <2>1 DEF Enqueue, OneActiveJobPerHost, Active, TypeInv, TypeOK
  <2>2. CASE ~ \E h \in Hosts, j \in Jobs : Enqueue(h, j)
    BY <2>2, NoNewActiveJobs DEF OneActiveJobPerHost
  <2>3. QED
    BY <2>1, <2>2
<1>3. QED
  BY <1>1, <1>2, InitTypeInv, NextTypeInv, PTL DEF Spec
-------------------------------------------------------------------------------
(***************************************************************************)
(* Attempts.  The store fences workers by their id only.  That this is as  *)
(* good as fencing by attempt number rests on three facts that hold        *)
(* together: attempts are numbered by the row's counter, no two workers    *)
(* hold the same attempt, and the worker named in the row holds the latest *)
(* one.                                                                    *)
(***************************************************************************)

AttemptsNumbered ==
  /\ \A w \in Workers : pc[w] \in Busy => att[w] \in 1 .. attempts[cur[w]]
  /\ \A j \in Jobs : status[j] = "absent" => attempts[j] = 0

AttemptsDistinct ==
  \A v, w \in Workers :
    /\ pc[v] \in Busy /\ pc[w] \in Busy
    /\ cur[v] = cur[w] /\ att[v] = att[w]
    => v = w

AttemptInv ==
  AttemptsNumbered /\ AttemptsDistinct /\ OwnerHasLatestAttempt /\ RetryBudget

LEMMA InitAttemptInv == Init => AttemptInv
  BY DEF Init, AttemptInv, AttemptsNumbered, AttemptsDistinct, OwnerHasLatestAttempt,
         RetryBudget, Busy, Scanning

\* The new claim gets a number nobody has, and takes the row from its old owner.
LEMMA ClaimAttemptInv ==
  ASSUME TypeInv, AttemptInv, NEW w \in Workers, NEW j \in Jobs, Claim(w, j)
  PROVE  AttemptInv'
<1> USE DEF TypeInv, TypeOK, BusyWorkersHaveJobs, Claim, Lease, Goto, workerVars
<1>1. attempts' = [attempts EXCEPT ![j] = attempts[j] + 1] /\ attempts[j] \in Nat
  OBVIOUS
<1>2. pc[w] \notin Busy
  BY DEF Busy, Scanning
<1>3. \A v \in Workers \ {w} : pc'[v] = pc[v] /\ cur'[v] = cur[v] /\ att'[v] = att[v]
  OBVIOUS
<1>4. pc'[w] \in Busy => cur'[w] = j /\ att'[w] = attempts[j] + 1
  BY <1>2
<1>5. AttemptsNumbered'
  <2>1. ASSUME NEW v \in Workers, pc'[v] \in Busy PROVE att'[v] \in 1 .. attempts'[cur'[v]]
    BY <1>1, <1>3, <1>4, <2>1 DEF AttemptInv, AttemptsNumbered
  <2>2. ASSUME NEW k \in Jobs, status'[k] = "absent" PROVE attempts'[k] = 0
    BY <1>1, <2>2 DEF AttemptInv, AttemptsNumbered
  <2>3. QED
    BY <2>1, <2>2 DEF AttemptsNumbered
<1>6. AttemptsDistinct'
  <2>1. ASSUME NEW v \in Workers \ {w}, pc[v] \in Busy, cur[v] = j PROVE att[v] # attempts[j] + 1
    BY <1>1, <2>1 DEF AttemptInv, AttemptsNumbered
  <2>2. QED
    BY <1>3, <1>4, <2>1 DEF AttemptInv, AttemptsDistinct
<1>7. OwnerHasLatestAttempt'
  <2>1. ASSUME NEW v \in Workers, pc'[v] \in Busy, Owns(v)' PROVE att'[v] = attempts'[cur'[v]]
    <3>1. CASE v = w
      BY <1>1, <1>4, <2>1, <3>1
    <3>2. CASE v # w
      BY <1>1, <1>3, <2>1, <3>2 DEF AttemptInv, OwnerHasLatestAttempt, Owns
    <3>3. QED
      BY <3>1, <3>2
  <2>2. QED
    BY <2>1 DEF OwnerHasLatestAttempt
<1>8. RetryBudget'
  BY <1>1 DEF AttemptInv, RetryBudget
<1>9. QED
  BY <1>5, <1>6, <1>7, <1>8 DEF AttemptInv

\* Whoever leaves, the attempts of the others are what they were.
LEMMA LeaveOthers ==
  ASSUME TypeInv, NEW w \in Workers, Leave(w)
  PROVE  /\ pc'[w] \notin Busy
         /\ \A v \in Workers \ {w} : pc'[v] = pc[v] /\ cur'[v] = cur[v] /\ att'[v] = att[v]
  BY DEF TypeInv, TypeOK, Leave, Goto, Busy, Scanning

\* The owner's copy of Attempts is the row's, so Terminal decides by the row.
LEMMA SettleAttemptInv ==
  ASSUME TypeInv, AttemptInv, NEW w \in Workers, Settle(w)
  PROVE  AttemptInv'
<1> DEFINE j == cur[w]
<1>1. j \in Jobs /\ att[w] = attempts[j] /\ attempts[j] \in Nat /\ status[j] = "running"
  BY DEF TypeInv, TypeOK, BusyWorkersHaveJobs, AttemptInv, OwnerHasLatestAttempt, Settle,
         Owns, Busy
<1>2. status'[j] # "running" /\ \A k \in Jobs \ {j} : status'[k] = status[k]
  BY <1>1 DEF Settle, TypeInv, TypeOK
<1>3. Leave(w) /\ attempts' = attempts
  BY DEF Settle
<1>4. AttemptsNumbered'
  BY <1>1, <1>2, <1>3, LeaveOthers DEF AttemptInv, AttemptsNumbered, Settle, TypeInv, TypeOK
<1>5. AttemptsDistinct'
  BY <1>3, LeaveOthers DEF AttemptInv, AttemptsDistinct
<1>6. OwnerHasLatestAttempt'
  <2>1. ASSUME NEW v \in Workers, pc'[v] \in Busy, Owns(v)' PROVE att'[v] = attempts'[cur'[v]]
    <3>1. v # w /\ pc'[v] = pc[v] /\ cur'[v] = cur[v] /\ att'[v] = att[v]
      BY <1>3, <2>1, LeaveOthers
    <3>2. cur[v] \in Jobs /\ cur[v] # j
      BY <1>2, <2>1, <3>1 DEF Owns, TypeInv, BusyWorkersHaveJobs
    <3>3. Owns(v)
      BY <1>2, <2>1, <3>1, <3>2 DEF Owns, Settle, TypeInv, TypeOK
    <3>4. QED
      BY <1>3, <2>1, <3>1, <3>3 DEF AttemptInv, OwnerHasLatestAttempt
  <2>2. QED
    BY <2>1 DEF OwnerHasLatestAttempt
<1>7. RetryBudget'
  <2>1. /\ status'[j] = "queued" => attempts[j] < MaxAttempts
        /\ status'[j] = "failed" => attempts[j] >= MaxAttempts
    BY <1>1 DEF Settle, Terminal, TypeInv, TypeOK
  <2>2. QED
    BY <1>1, <1>2, <1>3, <2>1 DEF AttemptInv, RetryBudget
<1>8. QED
  BY <1>4, <1>5, <1>6, <1>7 DEF AttemptInv

LEMMA NextAttemptInv == TypeInv /\ AttemptInv /\ [Next]_vars => AttemptInv'
<1> SUFFICES ASSUME TypeInv, AttemptInv, [Next]_vars PROVE AttemptInv'
  OBVIOUS
<1> USE DEF AttemptInv, AttemptsNumbered, AttemptsDistinct, OwnerHasLatestAttempt,
            RetryBudget, Owns
<1>1. CASE Quiet
  BY <1>1 DEF Quiet
<1>2. ASSUME NEW h \in Hosts, NEW j \in Jobs, Enqueue(h, j) PROVE AttemptInv'
  <2>1. attempts' = attempts /\ attempts[j] = 0 /\ status'[j] = "queued"
        /\ \A k \in Jobs \ {j} : status'[k] = status[k]
    BY <1>2 DEF Enqueue, TypeInv, TypeOK
  <2>2. RetryBudget'
    BY <2>1
  <2>3. QED
    BY <1>2, <2>1, <2>2 DEF Enqueue, workerVars, TypeInv, BusyWorkersHaveJobs
<1>3. ASSUME NEW h \in Hosts, DeleteHost(h) PROVE AttemptInv'
  <2>1. /\ attempts' = attempts /\ pc' = pc /\ cur' = cur /\ att' = att
        /\ \A k \in Jobs : \/ status'[k] = "deleted"
                           \/ status'[k] = status[k] /\ owner'[k] = owner[k]
    BY <1>3 DEF DeleteHost, workerVars, TypeInv, TypeOK
  <2>2. AttemptsNumbered' /\ AttemptsDistinct' /\ RetryBudget'
    BY <2>1
  <2>3. OwnerHasLatestAttempt'
    BY <2>1 DEF TypeInv, BusyWorkersHaveJobs
  <2>4. QED
    BY <2>2, <2>3
<1>4. ASSUME NEW w \in Workers, NEW j \in Jobs, Claim(w, j) PROVE AttemptInv'
  BY <1>4, ClaimAttemptInv
<1>5. ASSUME NEW w \in Workers, Advance(w) PROVE AttemptInv'
  <2>1. \A v \in Workers : pc'[v] \in Busy => pc[v] \in Busy
    BY <1>5 DEF Advance, Goto, TypeInv, TypeOK
  <2>2. QED
    BY <1>5, <2>1 DEF Advance
<1>6. ASSUME NEW w \in Workers, Abandon(w) PROVE AttemptInv'
  <2>1. \A v \in Workers : pc'[v] \in Busy =>
          v # w /\ pc[v] \in Busy /\ cur'[v] = cur[v] /\ att'[v] = att[v]
    BY <1>6, LeaveOthers DEF Abandon
  <2>2. QED
    BY <1>6, <2>1 DEF Abandon
<1>7. ASSUME NEW w \in Workers, Settle(w) PROVE AttemptInv'
  BY <1>7, SettleAttemptInv
<1>8. QED
  BY <1>1, <1>2, <1>3, <1>4, <1>5, <1>6, <1>7, StepKinds

\* Comparing worker ids, as the WHERE clauses of RenewScanJob, CompleteScanJob and
\* FailScanJob do, never takes a superseded attempt for the latest one.
THEOREM OwnerLatest == Spec => []OwnerHasLatestAttempt
<1>1. AttemptInv => OwnerHasLatestAttempt
  BY DEF AttemptInv
<1>2. QED
  BY <1>1, InitTypeInv, InitAttemptInv, NextTypeInv, NextAttemptInv, PTL DEF Spec

\* Queue.fail retries only while attempts are left and gives up only when none is,
\* although it decides by the worker's copy of Attempts and not by the row.
THEOREM RetriesBudgeted == Spec => []RetryBudget
<1>1. AttemptInv => RetryBudget
  BY DEF AttemptInv
<1>2. QED
  BY <1>1, InitTypeInv, InitAttemptInv, NextTypeInv, NextAttemptInv, PTL DEF Spec

\* CompleteScanJob and FailScanJob take effect only for the latest attempt, when its
\* worker has finished: no late answer of a superseded worker settles a job.
THEOREM SettledByLatest == Spec => SettledByLatestAttempt
<1> DEFINE A == \A j \in Jobs :
       status[j] = "running" /\ status'[j] \in {"queued", "succeeded", "failed"}
       => \E w \in Workers :
            /\ pc[w] \in {"completing", "failing"}
            /\ cur[w] = j /\ att[w] = attempts[j]
<1>1. ASSUME TypeInv, AttemptInv, [Next]_vars PROVE A
  <2> SUFFICES ASSUME NEW j \in Jobs, status[j] = "running",
                      status'[j] \in {"queued", "succeeded", "failed"}
               PROVE  \E w \in Workers :
                        /\ pc[w] \in {"completing", "failing"}
                        /\ cur[w] = j /\ att[w] = attempts[j]
    OBVIOUS
  <2> USE DEF TypeInv, TypeOK
  <2>1. ASSUME NEW w \in Workers, Settle(w)
        PROVE  /\ pc[w] \in {"completing", "failing"}
               /\ cur[w] = j /\ att[w] = attempts[j]
    <3>1. cur[w] = j
      BY <1>1, <2>1 DEF Settle, Owns
    <3>2. QED
      BY <1>1, <2>1, <3>1 DEF Settle, AttemptInv, OwnerHasLatestAttempt, Busy
  <2>2. \E w \in Workers : Settle(w)
    <3>1. ~Quiet
      BY <1>1 DEF Quiet
    <3>2. ASSUME NEW h \in Hosts, NEW k \in Jobs PROVE ~Enqueue(h, k)
      BY <1>1 DEF Enqueue
    <3>3. ASSUME NEW h \in Hosts PROVE ~DeleteHost(h)
      BY <1>1 DEF DeleteHost
    <3>4. ASSUME NEW w \in Workers, NEW k \in Jobs PROVE ~Claim(w, k)
      BY <1>1 DEF Claim, Lease
    <3>5. ASSUME NEW w \in Workers PROVE ~Advance(w) /\ ~Abandon(w)
      BY <1>1 DEF Advance, Abandon
    <3>6. QED
      BY <1>1, <3>1, <3>2, <3>3, <3>4, <3>5, StepKinds
  <2>3. QED
    BY <2>1, <2>2
<1>2. TypeInv /\ AttemptInv /\ [Next]_vars => [A]_vars
  BY <1>1
<1>3. QED
  BY <1>2, InitTypeInv, InitAttemptInv, NextTypeInv, NextAttemptInv, PTL
     DEF Spec, SettledByLatestAttempt
-------------------------------------------------------------------------------
(***************************************************************************)
(* Exclusive scans.  While no lease has run out under a living worker,     *)
(* every worker that is busy still owns its row, so that a row that may be *)
(* reclaimed is nobody's.                                                  *)
(***************************************************************************)

BusyWorkersOwn ==
  lapses = 0 =>
    \A w \in Workers : pc[w] \in Busy => Owns(w) \/ status[cur[w]] = "deleted"

LapsedUnattended ==
  lapses = 0 => \A j \in Jobs : lease[j] = "lapsed" => ~Attended(j)

DeletedWithHost ==
  \A j \in Jobs : status[j] = "deleted" => hostOf[j] \notin known

OwnershipInv == BusyWorkersOwn /\ LapsedUnattended /\ DeletedWithHost

\* Only the clock makes a lease lapse, and the count of lapses never falls.
LEMMA Lapsing ==
  ASSUME TypeInv, [Next]_vars
  PROVE  /\ lapses' = 0 => lapses = 0
         /\ \A j \in Jobs : lease'[j] = "lapsed" => lease[j] = "lapsed" \/ LeaseLapses(j)
<1> USE DEF TypeInv, TypeOK
<1> DEFINE P == /\ lapses' = 0 => lapses = 0
                /\ \A j \in Jobs : lease'[j] = "lapsed" => lease[j] = "lapsed" \/ LeaseLapses(j)
<1>1. ASSUME NEW h \in Hosts, NEW j \in Jobs, Enqueue(h, j) PROVE P
  BY <1>1 DEF Enqueue
<1>2. ASSUME NEW h \in Hosts, DeleteHost(h) PROVE P
  BY <1>2 DEF DeleteHost
<1>3. ASSUME NEW j \in Jobs, BackoffEnds(j) PROVE P
  BY <1>3 DEF BackoffEnds
<1>4. ASSUME NEW j \in Jobs, LeaseLapses(j) PROVE P
  <2>1. /\ lease' = [lease EXCEPT ![j] = "lapsed"]
        /\ lapses' = lapses + 1 \/ lapses' = lapses
    BY <1>4 DEF LeaseLapses
  <2>2. QED
    BY <1>4, <2>1
<1>5. ASSUME NEW w \in Workers, NEW j \in Jobs, Claim(w, j) PROVE P
  BY <1>5 DEF Claim, Lease
<1>6. ASSUME NEW w \in Workers, Proceed(w) PROVE P
  <2>1. CASE BeginScan(w) \/ Prepare(w) \/ ProbeReturns(w)
    BY <2>1 DEF BeginScan, Prepare, ProbeReturns, jobVars
  <2>2. CASE Validate(w)
    BY <2>2 DEF Validate, Discard, jobVars
  <2>3. CASE \/ Ingest(w) \/ FinishScan(w) \/ ReportFailure(w)
             \/ UpdateHost(w) \/ MarkUnreachable(w)
    BY <2>3 DEF Ingest, FinishScan, ReportFailure, UpdateHost, MarkUnreachable, jobVars
  <2>4. CASE Complete(w)
    BY <2>4 DEF Complete, Release
  <2>5. CASE Fail(w)
    BY <2>5 DEF Fail, Release
  <2>6. QED
    BY <1>6, <2>1, <2>2, <2>3, <2>4, <2>5 DEF Proceed
<1>7. ASSUME NEW w \in Workers, Connect(w) \/ ScanTimeout(w) \/ Crash(w) \/ Shutdown(w) PROVE P
  BY <1>7 DEF Connect, ScanTimeout, Crash, Shutdown, jobVars
<1>8. ASSUME NEW w \in Workers, Heartbeat(w) PROVE P
  BY <1>8 DEF Heartbeat
<1>9. CASE UNCHANGED vars
  BY <1>9 DEF vars, jobVars
<1>10. QED
  BY <1>1, <1>2, <1>3, <1>4, <1>5, <1>6, <1>7, <1>8, <1>9 DEF Next

\* Under OwnershipInv a claim takes a job nobody is at work on.
LEMMA ClaimTakesUnattended ==
  ASSUME TypeInv, OwnershipInv, lapses = 0,
         NEW w \in Workers, NEW j \in Jobs, Claim(w, j),
         NEW v \in Workers, pc[v] \in Busy
  PROVE  cur[v] # j
<1>1. status[j] \in {"queued", "running"} /\ (status[j] = "running" => lease[j] = "lapsed")
  BY DEF Claim, Claimable
<1>2. cur[v] = j => Owns(v)
  BY <1>1 DEF OwnershipInv, BusyWorkersOwn
<1>3. cur[v] = j => status[j] = "running" /\ Attended(j)
  BY <1>2 DEF Owns, Attended
<1>4. QED
  BY <1>1, <1>3 DEF OwnershipInv, LapsedUnattended

LEMMA NextBusyWorkersOwn == TypeInv /\ OwnershipInv /\ [Next]_vars => BusyWorkersOwn'
<1> SUFFICES ASSUME TypeInv, OwnershipInv, [Next]_vars, lapses' = 0,
                    NEW v \in Workers, pc'[v] \in Busy
             PROVE  Owns(v)' \/ status'[cur'[v]] = "deleted"
  BY DEF BusyWorkersOwn
<1> DEFINE Q == Owns(v)' \/ status'[cur'[v]] = "deleted"
<1>0. lapses = 0 /\ (pc[v] \in Busy => cur[v] \in Jobs /\ (Owns(v) \/ status[cur[v]] = "deleted"))
  BY Lapsing DEF OwnershipInv, BusyWorkersOwn, TypeInv, BusyWorkersHaveJobs
<1> USE DEF TypeInv, TypeOK
<1>1. CASE Quiet
  BY <1>0, <1>1 DEF Quiet, Owns
<1>2. ASSUME NEW h \in Hosts, NEW j \in Jobs, Enqueue(h, j) PROVE Q
  BY <1>0, <1>2 DEF Enqueue, Owns, workerVars
<1>3. ASSUME NEW h \in Hosts, DeleteHost(h) PROVE Q
  BY <1>0, <1>3 DEF DeleteHost, Owns, workerVars
<1>4. ASSUME NEW w \in Workers, NEW j \in Jobs, Claim(w, j) PROVE Q
  <2>1. CASE pc[v] \in Busy
    <3>1. cur[v] # j
      BY <1>0, <1>4, <2>1, ClaimTakesUnattended
    <3>2. cur'[v] = cur[v]
      BY <1>4, <2>1 DEF Claim, workerVars, Busy, Scanning
    <3>3. status'[cur[v]] = status[cur[v]] /\ owner'[cur[v]] = owner[cur[v]]
      BY <1>0, <1>4, <2>1, <3>1 DEF Claim, Lease
    <3>4. QED
      BY <1>0, <2>1, <3>2, <3>3 DEF Owns
  <2>2. CASE pc[v] \notin Busy
    <3>1. v = w /\ cur'[v] = j
      BY <1>4, <2>2 DEF Claim, Goto, workerVars
    <3>2. QED
      BY <1>4, <3>1 DEF Claim, Lease, Owns
  <2>3. QED
    BY <2>1, <2>2
<1>5. ASSUME NEW w \in Workers, Advance(w) PROVE Q
  <2>1. pc[v] \in Busy
    BY <1>5 DEF Advance, Goto
  <2>2. QED
    BY <1>0, <1>5, <2>1 DEF Advance, Owns
<1>6. ASSUME NEW w \in Workers, Abandon(w) PROVE Q
  <2>1. v # w /\ pc[v] \in Busy /\ cur'[v] = cur[v]
    BY <1>6, LeaveOthers DEF Abandon
  <2>2. QED
    BY <1>0, <1>6, <2>1 DEF Abandon, Owns
<1>7. ASSUME NEW w \in Workers, Settle(w) PROVE Q
  <2>1. v # w /\ pc[v] \in Busy /\ cur'[v] = cur[v]
    BY <1>7, LeaveOthers DEF Settle
  <2>2. status[cur[w]] = "running" /\ owner[cur[w]] = w /\ cur[w] \in Jobs
    BY <1>7 DEF Settle, Owns
  <2>3. cur[v] # cur[w]
    BY <1>0, <2>1, <2>2 DEF Owns
  <2>4. QED
    BY <1>0, <1>7, <2>1, <2>2, <2>3 DEF Settle, Owns
<1>8. QED
  BY <1>1, <1>2, <1>3, <1>4, <1>5, <1>6, <1>7, StepKinds

\* A job becomes attended only through a claim, which renews its lease.
LEMMA NewlyAttended ==
  ASSUME TypeInv, [Next]_vars, NEW j \in Jobs, Attended(j)', ~Attended(j)
  PROVE  \E w \in Workers : Claim(w, j)
<1>1. PICK v \in Workers : pc'[v] \in Busy /\ cur'[v] = j /\ Owns(v)'
  BY DEF Attended
<1> SUFFICES ASSUME ~ \E w \in Workers : Claim(w, j)
             PROVE  pc[v] \in Busy /\ cur[v] = j /\ Owns(v)
  BY DEF Attended
<1> USE DEF TypeInv, TypeOK
<1> DEFINE Q == pc[v] \in Busy /\ cur[v] = j /\ Owns(v)
<1>2. CASE Quiet
  BY <1>1, <1>2 DEF Quiet, Owns
<1>3. ASSUME NEW h \in Hosts, NEW k \in Jobs, Enqueue(h, k) PROVE Q
  BY <1>1, <1>3 DEF Enqueue, Owns, workerVars
<1>4. ASSUME NEW h \in Hosts, DeleteHost(h) PROVE Q
  BY <1>1, <1>4 DEF DeleteHost, Owns, workerVars
<1>5. ASSUME NEW w \in Workers, NEW k \in Jobs, Claim(w, k) PROVE Q
  <2>1. k # j
    BY <1>5
  <2>2. v # w /\ pc'[v] = pc[v] /\ cur'[v] = cur[v]
    BY <1>1, <1>5, <2>1 DEF Claim, Goto, workerVars, Busy, Scanning
  <2>3. QED
    BY <1>1, <1>5, <2>1, <2>2 DEF Claim, Lease, Owns
<1>6. ASSUME NEW w \in Workers, Advance(w) PROVE Q
  BY <1>1, <1>6 DEF Advance, Goto, Owns
<1>7. ASSUME NEW w \in Workers, Abandon(w) PROVE Q
  BY <1>1, <1>7, LeaveOthers DEF Abandon, Owns
<1>8. ASSUME NEW w \in Workers, Settle(w) PROVE Q
  <2>1. v # w /\ pc'[v] = pc[v] /\ cur'[v] = cur[v]
    BY <1>1, <1>8, LeaveOthers DEF Settle
  <2>2. cur[w] # j
    BY <1>1, <1>8 DEF Settle, Owns
  <2>3. QED
    BY <1>1, <1>8, <2>1, <2>2 DEF Settle, Owns
<1>9. QED
  BY <1>2, <1>3, <1>4, <1>5, <1>6, <1>7, <1>8, StepKinds

LEMMA NextOwnershipInv == TypeInv /\ OwnershipInv /\ [Next]_vars => OwnershipInv'
<1> SUFFICES ASSUME TypeInv, OwnershipInv, [Next]_vars PROVE OwnershipInv'
  OBVIOUS
<1>1. BusyWorkersOwn'
  BY NextBusyWorkersOwn
<1>2. LapsedUnattended'
  <2> SUFFICES ASSUME lapses' = 0, NEW j \in Jobs, lease'[j] = "lapsed", Attended(j)'
               PROVE  FALSE
    BY DEF LapsedUnattended
  <2>1. CASE lease[j] = "lapsed"
    <3>1. ~Attended(j)
      BY <2>1, Lapsing DEF OwnershipInv, LapsedUnattended
    <3>2. PICK w \in Workers : Claim(w, j)
      BY <3>1, NewlyAttended
    <3>3. lease'[j] = "held"
      BY <3>2 DEF Claim, Lease, TypeInv, TypeOK
    <3>4. QED
      BY <3>3
  <2>2. CASE LeaseLapses(j)
    <3>1. lapses = 0 /\ ~Attended(j)
      BY <2>2, Lapsing DEF LeaseLapses
    <3>2. Attended(j)' = Attended(j)
      BY <2>2 DEF LeaseLapses, Attended, Owns, workerVars
    <3>3. QED
      BY <3>1, <3>2
  <2>3. QED
    BY <2>1, <2>2, Lapsing
<1>3. DeletedWithHost'
  <2> USE DEF OwnershipInv, DeletedWithHost, TypeInv, TypeOK
  <2>1. ASSUME NEW h \in Hosts, NEW j \in Jobs, Enqueue(h, j) PROVE DeletedWithHost'
    BY <2>1 DEF Enqueue, scanVars
  <2>2. ASSUME NEW h \in Hosts, DeleteHost(h) PROVE DeletedWithHost'
    BY <2>2 DEF DeleteHost, OfHost
  <2>3. CASE /\ ~ \E h \in Hosts, j \in Jobs : Enqueue(h, j)
             /\ ~ \E h \in Hosts : DeleteHost(h)
    <3>1. \A j \in Jobs : status'[j] = "deleted" => status[j] = "deleted"
      BY <2>3, StepKinds DEF Quiet, Claim, Lease, Advance, Abandon, Settle
    <3>2. hostOf' = hostOf
      BY <2>3, NoNewActiveJobs
    <3>3. known' = known
      BY <2>3 DEF Next, BackoffEnds, LeaseLapses, Claim, Proceed, BeginScan, Prepare,
         ProbeReturns, Validate, Ingest, UpdateHost, FinishScan, ReportFailure, MarkUnreachable, Complete, Fail, Connect,
         ScanTimeout, Heartbeat, Crash, Shutdown, vars, scanVars
    <3>4. QED
      BY <3>1, <3>2, <3>3
  <2>4. QED
    BY <2>1, <2>2, <2>3
<1>4. QED
  BY <1>1, <1>2, <1>3 DEF OwnershipInv

\* While heartbeats keep their leases, crashes, lost claims and failing store calls
\* never let two workers scan one host at the same time.
THEOREM Exclusive == Spec => []ExclusiveScan
<1>1. Init => OwnershipInv
  BY DEF Init, OwnershipInv, BusyWorkersOwn, LapsedUnattended, DeletedWithHost, Busy, Scanning
<1>2. TypeInv /\ OwnershipInv /\ OneActiveJobPerHost => ExclusiveScan
  <2> SUFFICES ASSUME TypeInv, OwnershipInv, OneActiveJobPerHost, lapses = 0,
                      NEW v \in Workers, NEW w \in Workers,
                      pc[v] \in Busy, pc[w] \in Busy,
                      hostOf[cur[v]] = hostOf[cur[w]], hostOf[cur[v]] \in known
               PROVE  v = w
    BY DEF ExclusiveScan
  <2>1. cur[v] \in Jobs /\ cur[w] \in Jobs
    BY DEF TypeInv, BusyWorkersHaveJobs
  <2>2. Owns(v) /\ Owns(w)
    BY <2>1 DEF OwnershipInv, BusyWorkersOwn, DeletedWithHost
  <2>3. cur[v] = cur[w]
    BY <2>1, <2>2 DEF Owns, OneActiveJobPerHost, Active
  <2>4. QED
    BY <2>2, <2>3 DEF Owns
<1>3. QED
  BY <1>1, <1>2, OneActiveJob, InitTypeInv, NextTypeInv, NextOwnershipInv, PTL DEF Spec

\* While heartbeats keep their leases, observations and the status of a host that still
\* exists are written by the owner of its job only: one check before the first of many
\* writes is enough then.
THEOREM WrittenByOwner == Spec => OwnerWrites
<1> DEFINE Right(h) ==
      lapses = 0 /\ (findings'[h] # findings[h] \/ reach'[h] # reach[h])
      => \E w \in Workers :
           pc[w] \in {"ingesting", "marking"} /\ hostOf[cur[w]] = h /\ Owns(w)
<1>1. Init => OwnershipInv
  BY DEF Init, OwnershipInv, BusyWorkersOwn, LapsedUnattended, DeletedWithHost, Busy, Scanning
<1>2. TypeInv /\ OwnershipInv /\ [Next]_vars => [\A h \in known' : Right(h)]_vars
  <2> SUFFICES ASSUME TypeInv, OwnershipInv, Next, NEW h \in known', lapses = 0,
                      findings'[h] # findings[h] \/ reach'[h] # reach[h]
               PROVE  \E w \in Workers :
                        pc[w] \in {"ingesting", "marking"} /\ hostOf[cur[w]] = h /\ Owns(w)
    OBVIOUS
  <2>1. h \in known /\ h \in Hosts
    BY DEF Next, Enqueue, DeleteHost, BackoffEnds, LeaseLapses, Claim, Proceed, BeginScan,
       Prepare, ProbeReturns, Validate, Ingest, UpdateHost, FinishScan, ReportFailure,
       MarkUnreachable, Complete, Fail, Connect, ScanTimeout, Heartbeat, Crash, Shutdown,
       scanVars, TypeInv, TypeOK
  <2>2. ~DeleteHost(h)
    BY DEF DeleteHost
  <2>3. PICK w \in Workers : Ingest(w) \/ UpdateHost(w) \/ MarkUnreachable(w)
    BY <2>1, <2>2
       DEF Next, Enqueue, DeleteHost, BackoffEnds, LeaseLapses, Claim, Proceed, BeginScan,
           Prepare, ProbeReturns, Validate, FinishScan, ReportFailure, Complete, Fail,
           Connect, ScanTimeout, Heartbeat, Crash, Shutdown, scanVars, TypeInv, TypeOK
  <2>4. pc[w] \in {"ingesting", "marking"} /\ pc[w] \in Busy
    BY <2>3 DEF Ingest, UpdateHost, MarkUnreachable, Busy, Scanning
  <2>5. hostOf[cur[w]] = h
    BY <2>3, <2>4
       DEF Ingest, UpdateHost, MarkUnreachable, SetReach, TypeInv, TypeOK,
           BusyWorkersHaveJobs
  <2>6. Owns(w)
    BY <2>1, <2>4, <2>5
       DEF OwnershipInv, BusyWorkersOwn, DeletedWithHost, TypeInv, BusyWorkersHaveJobs
  <2>7. QED
    BY <2>4, <2>5, <2>6
<1>3. QED
  BY <1>1, <1>2, InitTypeInv, NextTypeInv, NextOwnershipInv, PTL DEF Spec, OwnerWrites
-------------------------------------------------------------------------------
(***************************************************************************)
(* The deletion of a host that is being scanned.                           *)
(***************************************************************************)

\* A job names its host from the beginning, which its scans need to keep theirs.
JobsHaveHosts == \A j \in Jobs : status[j] = "absent" <=> hostOf[j] = NoHost

DeletionInv == JobsHaveHosts /\ DeletedHostLeavesNothing

LEMMA NextJobsHaveHosts == TypeInv /\ JobsHaveHosts /\ [Next]_vars => JobsHaveHosts'
<1> SUFFICES ASSUME TypeInv, JobsHaveHosts, [Next]_vars PROVE JobsHaveHosts'
  OBVIOUS
<1> USE DEF TypeInv, TypeOK, JobsHaveHosts
<1>1. CASE Quiet
  BY <1>1 DEF Quiet
<1>2. ASSUME NEW h \in Hosts, NEW j \in Jobs, Enqueue(h, j) PROVE JobsHaveHosts'
  BY <1>2 DEF Enqueue
<1>3. ASSUME NEW h \in Hosts, DeleteHost(h) PROVE JobsHaveHosts'
  BY <1>3 DEF DeleteHost, OfHost
<1>4. ASSUME NEW w \in Workers, NEW j \in Jobs, Claim(w, j) PROVE JobsHaveHosts'
  BY <1>4 DEF Claim, Claimable, Lease
<1>5. ASSUME NEW w \in Workers, Advance(w) \/ Abandon(w) PROVE JobsHaveHosts'
  BY <1>5 DEF Advance, Abandon
<1>6. ASSUME NEW w \in Workers, Settle(w) PROVE JobsHaveHosts'
  BY <1>6 DEF Settle, Owns
<1>7. QED
  BY <1>1, <1>2, <1>3, <1>4, <1>5, <1>6, StepKinds

\* What a step leaves in the rows of scans: what was there, and by BeginScan, the new row
\* of an attempt at a host that exists.
LEMMA ScanRows ==
  ASSUME TypeInv, [Next]_vars, NEW s \in ScanStatus, NEW a \in scans'[s]
  PROVE  \/ \E r \in ScanStatus : a \in scans[r]
         \/ a[1] \in Jobs /\ hostOf[a[1]] \in known
<1> DEFINE Q == \/ \E r \in ScanStatus : a \in scans[r]
                \/ a[1] \in Jobs /\ hostOf[a[1]] \in known
<1> USE DEF TypeInv, TypeOK
<1>1. CASE UNCHANGED scans
  BY <1>1
<1>2. ASSUME NEW h \in Hosts, DeleteHost(h) PROVE Q
  BY <1>2 DEF DeleteHost
<1>3. ASSUME NEW w \in Workers, NEW t \in ScanStatus, SetScan(Mine(w), t) PROVE Q
  BY <1>3 DEF SetScan
<1>4. ASSUME NEW w \in Workers, BeginScan(w) PROVE Q
  <2>1. cur[w] \in Jobs
    BY <1>4 DEF BeginScan, BusyWorkersHaveJobs, Busy, Scanning
  <2>2. \/ scans' = scans
        \/ /\ hostOf[cur[w]] \in known
           /\ scans' = [scans EXCEPT !["running"] = @ \cup {Mine(w)}]
    BY <1>4 DEF BeginScan, CallWorks
  <2>3. QED
    BY <2>1, <2>2 DEF Mine
<1>5. ASSUME NEW w \in Workers, Proceed(w) PROVE Q
  BY <1>1, <1>3, <1>4, <1>5
     DEF Proceed, Prepare, ProbeReturns, Validate, Discard, Ingest, UpdateHost, FinishScan,
         ReportFailure, MarkUnreachable, Complete, Fail, scanVars, ScanStatus
<1>6. QED
  BY <1>1, <1>2, <1>5
     DEF Next, Enqueue, BackoffEnds, LeaseLapses, Claim, Connect, ScanTimeout, Heartbeat,
         Crash, Shutdown, vars, scanVars

\* Deleting a host takes its scans along, and later steps neither bring a host back nor
\* change the host of a job.
LEMMA DeletionSteps ==
  ASSUME TypeInv, JobsHaveHosts, [Next]_vars
  PROVE  /\ \A h \in Hosts, j \in Jobs : hostOf[j] = h => hostOf'[j] = h
         /\ \/ known' = known
            \/ \E h \in Hosts : DeleteHost(h)
<1>1. \A h \in Hosts, j \in Jobs : hostOf[j] = h => hostOf'[j] = h
  <2>1. ASSUME NEW h \in Hosts, NEW j \in Jobs, Enqueue(h, j)
        PROVE  \A g \in Hosts, k \in Jobs : hostOf[k] = g => hostOf'[k] = g
    BY <2>1 DEF Enqueue, JobsHaveHosts, TypeInv, TypeOK
  <2>2. QED
    BY <2>1, NoNewActiveJobs
<1>2. known' = known \/ \E h \in Hosts : DeleteHost(h)
  BY DEF Next, Enqueue, BackoffEnds, LeaseLapses, Claim, Proceed, BeginScan,
     Prepare, ProbeReturns, Validate, Ingest, UpdateHost, FinishScan, ReportFailure,
     MarkUnreachable, Complete, Fail, Connect, ScanTimeout, Heartbeat, Crash, Shutdown,
     scanVars, vars
<1>3. QED
  BY <1>1, <1>2

LEMMA NextDeletionInv == TypeInv /\ DeletionInv /\ [Next]_vars => DeletionInv'
<1> SUFFICES ASSUME TypeInv, DeletionInv, [Next]_vars PROVE DeletionInv'
  OBVIOUS
<1>1. JobsHaveHosts /\ JobsHaveHosts'
  BY NextJobsHaveHosts DEF DeletionInv
<1>2. ASSUME Postgres, NEW h \in Hosts \ known' PROVE findings'[h] = {}
  <2>1. CASE h \notin known
    <3>1. findings[h] = {}
      BY <1>2, <2>1 DEF DeletionInv, DeletedHostLeavesNothing
    <3>2. ASSUME NEW w \in Workers, Ingest(w) PROVE findings'[h] = {}
      BY <1>2, <2>1, <3>1, <3>2 DEF Ingest, CallWorks, TypeInv, TypeOK
    <3>3. ASSUME NEW g \in Hosts, DeleteHost(g) PROVE findings'[h] = {}
      BY <3>1, <3>3 DEF DeleteHost, TypeInv, TypeOK
    <3>4. QED
      BY <3>1, <3>2, <3>3
         DEF Next, Enqueue, BackoffEnds, LeaseLapses, Claim, Proceed, BeginScan, Prepare,
             ProbeReturns, Validate, UpdateHost, FinishScan, ReportFailure,
             MarkUnreachable, Complete, Fail, Connect, ScanTimeout, Heartbeat, Crash,
             Shutdown, scanVars, vars
  <2>2. CASE h \in known
    <3>1. DeleteHost(h)
      BY <1>1, <1>2, <2>2, DeletionSteps DEF DeleteHost
    <3>2. QED
      BY <1>2, <3>1 DEF DeleteHost, TypeInv, TypeOK
  <2>3. QED
    BY <2>1, <2>2
<1>3. ASSUME Postgres, NEW s \in ScanStatus, NEW a \in scans'[s]
      PROVE  hostOf'[a[1]] \in known'
  <2>1. a[1] \in Jobs /\ hostOf[a[1]] \in known
    <3>1. \A r \in ScanStatus : \A b \in scans[r] : b[1] \in Jobs /\ hostOf[b[1]] \in known
      BY <1>3 DEF DeletionInv, DeletedHostLeavesNothing, TypeInv, TypeOK, Attempt
    <3>2. QED
      BY <1>3, <3>1, ScanRows
  <2>2. hostOf'[a[1]] = hostOf[a[1]]
    BY <1>1, <2>1, DeletionSteps DEF TypeInv, TypeOK
  <2>3. ASSUME NEW h \in Hosts, DeleteHost(h) PROVE hostOf[a[1]] \in known'
    <3>1. a[1] \notin OfHost(h)
      BY <1>3, <2>3 DEF DeleteHost
    <3>2. QED
      BY <2>1, <2>3, <3>1 DEF DeleteHost, OfHost
  <2>4. QED
    BY <1>1, <2>1, <2>2, <2>3, DeletionSteps
<1>4. QED
  BY <1>1, <1>2, <1>3 DEF DeletionInv, DeletedHostLeavesNothing

\* In Postgres a deleted host leaves neither scans nor observations behind, although the
\* scan that was under way goes on writing.
THEOREM NothingLeft == Spec => []DeletedHostLeavesNothing
<1>1. Init => DeletionInv
  BY DEF Init, DeletionInv, JobsHaveHosts, DeletedHostLeavesNothing
<1>2. DeletionInv => DeletedHostLeavesNothing
  BY DEF DeletionInv
<1>3. QED
  BY <1>1, <1>2, InitTypeInv, NextTypeInv, NextDeletionInv, PTL DEF Spec
-------------------------------------------------------------------------------
(***************************************************************************)
(* The scans row of a job that succeeded.                                  *)
(***************************************************************************)

\* The worker is at an attempt that nothing has gone wrong with so far.
GoodStanding(w) == pc[w] \in Busy \ {"failing", "reporting", "marking"}

FailedScansNumbered ==
  \A j \in Jobs, n \in Nat : <<j, n>> \in scans["failed"] => n <= attempts[j]

GoodAttemptsNotFailed ==
  \A w \in Workers : GoodStanding(w) => Mine(w) \notin scans["failed"]

SucceededAttemptsLeft ==
  \A j \in Jobs : status[j] = "succeeded" =>
    \A w \in Workers : pc[w] \in Busy => Mine(w) # <<j, attempts[j]>>

ScanInv ==
  /\ FailedScansNumbered
  /\ GoodAttemptsNotFailed
  /\ SucceededAttemptsLeft
  /\ SucceededScanNotFailed

\* A scans row becomes failed only as its worker gives its attempt up.
LEMMA FailedScansGrow ==
  ASSUME TypeInv, [Next]_vars
  PROVE  \/ scans'["failed"] \subseteq scans["failed"]
         \/ \E w \in Workers :
              /\ Advance(w) /\ (Goto(w, "failing") \/ Goto(w, "marking"))
              /\ scans'["failed"] \subseteq scans["failed"] \cup {Mine(w)}
<1> DEFINE P == scans'["failed"] \subseteq scans["failed"]
           F(w) == /\ Advance(w) /\ (Goto(w, "failing") \/ Goto(w, "marking"))
                   /\ scans'["failed"] \subseteq scans["failed"] \cup {Mine(w)}
<1> USE DEF TypeInv, TypeOK, ScanStatus
<1>1. ASSUME NEW h \in Hosts, DeleteHost(h) PROVE P
  BY <1>1 DEF DeleteHost
<1>2. ASSUME NEW w \in Workers, BeginScan(w) PROVE P
  BY <1>2 DEF BeginScan
<1>3. ASSUME NEW w \in Workers, Validate(w) PROVE P \/ F(w)
  <2>1. CASE UNCHANGED scans
    BY <2>1
  <2>2. CASE SetScan(Mine(w), "failed") /\ Goto(w, "failing") /\ UNCHANGED jobVars
    <3>1. Advance(w)
      BY <1>3, <2>2 DEF Validate, Advance, Busy, Scanning, jobVars
    <3>2. QED
      BY <2>2, <3>1 DEF SetScan
  <2>3. QED
    BY <1>3, <2>1, <2>2 DEF Validate, Discard
<1>4. ASSUME NEW w \in Workers, FinishScan(w) PROVE P
  BY <1>4 DEF FinishScan, SetScan
<1>5. ASSUME NEW w \in Workers, ReportFailure(w) PROVE P \/ F(w)
  <2>1. Advance(w) /\ Goto(w, "marking")
    BY <1>5 DEF ReportFailure, Advance, Busy, Scanning, jobVars
  <2>2. scans'["failed"] \subseteq scans["failed"] \cup {Mine(w)}
    BY <1>5 DEF ReportFailure, SetScan
  <2>3. QED
    BY <2>1, <2>2
<1>6. CASE UNCHANGED scans
  BY <1>6
<1>7. ASSUME NEW w \in Workers, Proceed(w) PROVE P \/ F(w)
  BY <1>2, <1>3, <1>4, <1>5, <1>6, <1>7
     DEF Proceed, Prepare, ProbeReturns, Ingest, UpdateHost, MarkUnreachable, Complete, Fail, scanVars
<1>8. CASE \/ \E h \in Hosts, j \in Jobs : Enqueue(h, j)
           \/ \E j \in Jobs : BackoffEnds(j) \/ LeaseLapses(j)
           \/ \E w \in Workers, j \in Jobs : Claim(w, j)
           \/ \E w \in Workers : \/ Connect(w) \/ ScanTimeout(w) \/ Heartbeat(w)
                                 \/ Crash(w) \/ Shutdown(w)
           \/ UNCHANGED vars
  BY <1>6, <1>8 DEF Enqueue, BackoffEnds, LeaseLapses, Claim, Connect, ScanTimeout, Heartbeat,
     Crash, Shutdown, scanVars, vars
<1>9. QED
  BY <1>1, <1>7, <1>8 DEF Next

\* Only a claim gives a worker a good standing; no attempt gets it back.
LEMMA StandingLost ==
  ASSUME TypeInv, [Next]_vars, NEW w \in Workers, GoodStanding(w)',
         ~ \E j \in Jobs : Claim(w, j)
  PROVE  GoodStanding(w) /\ Mine(w)' = Mine(w)
<1> USE DEF TypeInv, TypeOK, GoodStanding, Mine
<1> DEFINE Q == GoodStanding(w) /\ Mine(w)' = Mine(w)
<1>1. CASE pc'[w] = pc[w] /\ cur'[w] = cur[w] /\ att'[w] = att[w]
  BY <1>1
<1>2. ASSUME NEW v \in Workers, NEW j \in Jobs, Claim(v, j) PROVE Q
  <2>1. v # w
    BY <1>2
  <2>2. QED
    BY <1>1, <1>2, <2>1 DEF Claim, Goto, workerVars
<1>3. ASSUME NEW v \in Workers, Connect(v) PROVE Q
  BY <1>3 DEF Connect, Goto, Busy, Scanning
<1>4. ASSUME NEW v \in Workers, Proceed(v) PROVE Q
  <2>1. CASE BeginScan(v) \/ Prepare(v) \/ ProbeReturns(v)
    BY <2>1 DEF BeginScan, Prepare, ProbeReturns, Goto, Busy, Scanning
  <2>2. CASE Validate(v)
    BY <2>2 DEF Validate, Discard, Goto, Busy, Scanning
  <2>3. CASE \/ Ingest(v) \/ FinishScan(v) \/ ReportFailure(v)
             \/ UpdateHost(v) \/ MarkUnreachable(v)
    BY <2>3 DEF Ingest, FinishScan, ReportFailure, UpdateHost, MarkUnreachable, Goto, Busy, Scanning
  <2>4. CASE Complete(v) \/ Fail(v)
    BY <2>4 DEF Complete, Fail, LeaveJob, Goto, Busy, Scanning
  <2>5. QED
    BY <1>4, <2>1, <2>2, <2>3, <2>4 DEF Proceed
<1>5. CASE \/ \E h \in Hosts, j \in Jobs : Enqueue(h, j)
           \/ \E h \in Hosts : DeleteHost(h)
           \/ \E j \in Jobs : BackoffEnds(j) \/ LeaseLapses(j)
           \/ \E v \in Workers : ScanTimeout(v) \/ Heartbeat(v) \/ Shutdown(v)
           \/ UNCHANGED vars
  BY <1>1, <1>5 DEF Enqueue, DeleteHost, BackoffEnds, LeaseLapses, ScanTimeout, Heartbeat,
     Shutdown, vars, workerVars
<1>6. ASSUME NEW v \in Workers, Crash(v) PROVE Q
  BY <1>6 DEF Crash, Goto, Busy, Scanning
<1>7. QED
  BY <1>2, <1>3, <1>4, <1>5, <1>6 DEF Next

\* A job succeeds by its latest attempt, and that is its last one.
LEMMA SucceededSteps ==
  ASSUME TypeInv, [Next]_vars, NEW j \in Jobs, status'[j] = "succeeded"
  PROVE  /\ attempts'[j] = attempts[j]
         /\ \/ status[j] = "succeeded"
            \/ \E w \in Workers : Settle(w) /\ pc[w] = "completing" /\ cur[w] = j
<1> USE DEF TypeInv, TypeOK
<1> DEFINE Q == /\ attempts'[j] = attempts[j]
                /\ \/ status[j] = "succeeded"
                   \/ \E w \in Workers : Settle(w) /\ pc[w] = "completing" /\ cur[w] = j
<1>1. CASE Quiet
  BY <1>1 DEF Quiet
<1>2. ASSUME NEW h \in Hosts, NEW k \in Jobs, Enqueue(h, k) PROVE Q
  BY <1>2 DEF Enqueue
<1>3. ASSUME NEW h \in Hosts, DeleteHost(h) PROVE Q
  BY <1>3 DEF DeleteHost
<1>4. ASSUME NEW w \in Workers, NEW k \in Jobs, Claim(w, k) PROVE Q
  BY <1>4 DEF Claim, Lease
<1>5. ASSUME NEW w \in Workers, Advance(w) \/ Abandon(w) PROVE Q
  BY <1>5 DEF Advance, Abandon
<1>6. ASSUME NEW w \in Workers, Settle(w) PROVE Q
  <2>1. attempts' = attempts
    BY <1>6 DEF Settle
  <2>2. cur[w] # j => status'[j] = status[j]
    BY <1>6 DEF Settle
  <2>3. cur[w] = j => pc[w] = "completing"
    BY <1>6 DEF Settle
  <2>4. QED
    BY <1>6, <2>1, <2>2, <2>3
<1>7. QED
  BY <1>1, <1>2, <1>3, <1>4, <1>5, <1>6, StepKinds

LEMMA NextScanInv == TypeInv /\ AttemptInv /\ ScanInv /\ [Next]_vars => ScanInv'
<1> SUFFICES ASSUME TypeInv, AttemptInv, ScanInv, [Next]_vars PROVE ScanInv'
  OBVIOUS
<1>1. \A w \in Workers : pc[w] \in Busy =>
        cur[w] \in Jobs /\ att[w] \in Nat /\ att[w] <= attempts[cur[w]]
  BY DEF TypeInv, TypeOK, BusyWorkersHaveJobs, AttemptInv, AttemptsNumbered
<1>2. \A j \in Jobs : attempts[j] \in Nat /\ attempts'[j] \in Nat /\ attempts[j] <= attempts'[j]
  <2> USE DEF TypeInv, TypeOK
  <2>1. ASSUME NEW w \in Workers, NEW k \in Jobs, Claim(w, k)
        PROVE  attempts' = [attempts EXCEPT ![k] = attempts[k] + 1]
    BY <2>1 DEF Claim, Lease
  <2>2. attempts' = attempts \/ \E w \in Workers, k \in Jobs : Claim(w, k)
    BY StepKinds DEF Quiet, Enqueue, DeleteHost, Advance, Abandon, Settle
  <2>3. QED
    BY <2>1, <2>2
<1>3. FailedScansNumbered'
  <2> SUFFICES ASSUME NEW j \in Jobs, NEW n \in Nat, <<j, n>> \in scans'["failed"]
               PROVE  n <= attempts'[j]
    BY DEF FailedScansNumbered
  <2>1. CASE <<j, n>> \in scans["failed"]
    BY <1>2, <2>1 DEF ScanInv, FailedScansNumbered
  <2>2. ASSUME NEW w \in Workers, Advance(w), <<j, n>> = Mine(w) PROVE n <= attempts'[j]
    BY <1>1, <1>2, <2>2 DEF Advance, Mine
  <2>3. QED
    BY <2>1, <2>2, FailedScansGrow
<1>4. GoodAttemptsNotFailed'
  <2> SUFFICES ASSUME NEW w \in Workers, GoodStanding(w)'
               PROVE  Mine(w)' \notin scans'["failed"]
    BY DEF GoodAttemptsNotFailed
  <2>1. ASSUME NEW j \in Jobs, Claim(w, j) PROVE Mine(w)' \notin scans'["failed"]
    <3>1. cur'[w] = j /\ att'[w] = attempts[j] + 1
      BY <2>1 DEF Claim, Goto, GoodStanding, workerVars, TypeInv, TypeOK, Busy, Scanning
    <3>2. scans' = scans
      BY <2>1 DEF Claim, scanVars
    <3>3. <<j, attempts[j] + 1>> \notin scans["failed"]
      BY <1>2 DEF ScanInv, FailedScansNumbered
    <3>4. QED
      BY <3>1, <3>2, <3>3 DEF Mine
  <2>2. CASE ~ \E j \in Jobs : Claim(w, j)
    <3>1. GoodStanding(w) /\ Mine(w)' = Mine(w) /\ Mine(w) \notin scans["failed"]
      BY <2>2, StandingLost DEF ScanInv, GoodAttemptsNotFailed
    <3>2. ASSUME NEW v \in Workers, Advance(v), Goto(v, "failing") \/ Goto(v, "marking")
          PROVE  Mine(v) # Mine(w)
      <4>1. v # w
        BY <3>2 DEF GoodStanding, Goto, TypeInv, TypeOK
      <4>2. QED
        BY <3>1, <3>2, <4>1 DEF Advance, GoodStanding, Mine, AttemptInv, AttemptsDistinct
    <3>3. QED
      BY <3>1, <3>2, FailedScansGrow
  <2>3. QED
    BY <2>1, <2>2
<1>5. SucceededAttemptsLeft'
  <2> SUFFICES ASSUME NEW j \in Jobs, status'[j] = "succeeded",
                      NEW w \in Workers, pc'[w] \in Busy, Mine(w)' = <<j, attempts'[j]>>
               PROVE  FALSE
    BY DEF SucceededAttemptsLeft
  <2>1. attempts'[j] = attempts[j]
    BY SucceededSteps
  <2>2. pc[w] \in Busy /\ Mine(w) = <<j, attempts[j]>>
    <3>1. ASSUME NEW v \in Workers, NEW k \in Jobs, Claim(v, k)
          PROVE  pc[w] \in Busy /\ Mine(w)' = Mine(w)
      <4>1. k # j
        BY <3>1 DEF Claim, Lease, TypeInv, TypeOK
      <4>2. QED
        BY <3>1, <4>1 DEF Claim, Goto, Mine, workerVars, TypeInv, TypeOK
    <3>2. ASSUME NEW v \in Workers, Advance(v) PROVE pc[w] \in Busy /\ Mine(w)' = Mine(w)
      BY <3>2 DEF Advance, Goto, Mine, TypeInv, TypeOK
    <3>3. ASSUME NEW v \in Workers, Abandon(v) \/ Settle(v)
          PROVE  pc[w] \in Busy /\ Mine(w)' = Mine(w)
      BY <3>3, LeaveOthers DEF Abandon, Settle, Mine
    <3>4. QED
      BY <2>1, <3>1, <3>2, <3>3, StepKinds DEF Quiet, Enqueue, DeleteHost, workerVars, Mine
  <2>3. CASE status[j] = "succeeded"
    BY <2>2, <2>3 DEF ScanInv, SucceededAttemptsLeft
  <2>4. ASSUME NEW v \in Workers, Settle(v), cur[v] = j PROVE FALSE
    <3>1. pc[v] \in Busy /\ att[v] = attempts[j]
      BY <2>4 DEF Settle, Busy, AttemptInv, OwnerHasLatestAttempt
    <3>2. v = w
      BY <2>2, <2>4, <3>1 DEF Mine, AttemptInv, AttemptsDistinct
    <3>3. QED
      BY <2>4, <3>2, LeaveOthers DEF Settle
  <2>5. QED
    BY <2>3, <2>4, SucceededSteps
<1>6. SucceededScanNotFailed'
  <2> SUFFICES ASSUME NEW j \in Jobs, status'[j] = "succeeded"
               PROVE  <<j, attempts'[j]>> \notin scans'["failed"]
    BY DEF SucceededScanNotFailed
  <2>1. attempts'[j] = attempts[j]
    BY SucceededSteps
  <2>2. CASE status[j] = "succeeded"
    <3>1. <<j, attempts[j]>> \notin scans["failed"]
      BY <2>2 DEF ScanInv, SucceededScanNotFailed
    <3>2. ASSUME NEW w \in Workers, Advance(w) PROVE Mine(w) # <<j, attempts[j]>>
      BY <2>2, <3>2 DEF Advance, ScanInv, SucceededAttemptsLeft
    <3>3. QED
      BY <2>1, <3>1, <3>2, FailedScansGrow
  <2>3. ASSUME NEW w \in Workers, Settle(w), pc[w] = "completing", cur[w] = j
        PROVE  <<j, attempts'[j]>> \notin scans'["failed"]
    <3>1. Mine(w) = <<j, attempts[j]>> /\ Mine(w) \notin scans["failed"]
      BY <2>3 DEF Settle, Busy, GoodStanding, Mine, AttemptInv, OwnerHasLatestAttempt,
                  ScanInv, GoodAttemptsNotFailed
    <3>2. status' # status
      BY <2>3 DEF Settle, Owns, TypeInv, TypeOK
    <3>3. scans'["failed"] \subseteq scans["failed"]
      BY <3>2, FailedScansGrow DEF Advance
    <3>4. QED
      BY <2>1, <3>1, <3>3
  <2>4. QED
    BY <2>2, <2>3, SucceededSteps
<1>7. QED
  BY <1>3, <1>4, <1>5, <1>6 DEF ScanInv

\* finish ignores the errors of UpdateScan and a superseded worker may write its row
\* at any time; still no job is succeeded while its scan is recorded as failed.
THEOREM SucceededNotFailed == Spec => []SucceededScanNotFailed
<1>1. Init => ScanInv
  BY DEF Init, ScanInv, FailedScansNumbered, GoodAttemptsNotFailed, GoodStanding,
         SucceededAttemptsLeft, SucceededScanNotFailed, ScanStatus, Busy, Scanning
<1>2. ScanInv => SucceededScanNotFailed
  BY DEF ScanInv
<1>3. QED
  BY <1>1, <1>2, InitTypeInv, InitAttemptInv, NextTypeInv, NextAttemptInv, NextScanInv, PTL
     DEF Spec
-------------------------------------------------------------------------------
(***************************************************************************)
(* The findings of a failed scan.  A scan that fails before it writes has  *)
(* none; one that fails while it writes does so because its context ended  *)
(* or its host is gone, and neither lets it record the failure.            *)
(***************************************************************************)
Early == {"claimed", "preparing", "dialing", "probing", "returned", "broken"}
Writes(w) == \E h \in Hosts : Mine(w) \in findings[h]
Unrecordable(w) == ~ScanCtxLive(w) \/ (Postgres /\ hostOf[cur[w]] \notin known)

FindingsNumbered ==
  \A h \in Hosts, j \in Jobs, n \in Nat : <<j, n>> \in findings[h] => n <= attempts[j]
EarlyWroteNothing == \A w \in Workers : pc[w] \in Early => ~Writes(w)
LateFailureUnrecordable ==
  faults = 0 => \A w \in Workers : pc[w] = "reporting" /\ Writes(w) => Unrecordable(w)

FindingInv ==
  /\ FindingsNumbered /\ EarlyWroteNothing /\ LateFailureUnrecordable
  /\ FailedScanLeftNothing

\* Findings are added by an ingesting worker under the name of its attempt.
LEMMA FindingsGrow ==
  ASSUME TypeInv, [Next]_vars, NEW h \in Hosts, NEW a \in findings'[h]
  PROVE  a \in findings[h] \/ \E w \in Workers : Ingest(w) /\ a = Mine(w)
<1>1. ASSUME NEW g \in Hosts, DeleteHost(g) PROVE a \in findings[h]
  BY <1>1 DEF DeleteHost, TypeInv, TypeOK
<1>2. ASSUME NEW w \in Workers, Ingest(w) PROVE a \in findings[h] \/ a = Mine(w)
  BY <1>2 DEF Ingest, TypeInv, TypeOK
<1>3. QED
  BY <1>1, <1>2
     DEF Next, Enqueue, BackoffEnds, LeaseLapses, Claim, Proceed, BeginScan, Prepare,
         ProbeReturns, Validate, UpdateHost, FinishScan, ReportFailure, MarkUnreachable,
         Complete, Fail, Connect, ScanTimeout, Heartbeat, Crash, Shutdown, scanVars, vars

\* Claims of two workers keep apart, and so do the findings they write.
LEMMA OthersFindings ==
  ASSUME TypeInv, AttemptInv, [Next]_vars, NEW w \in Workers, pc[w] \in Busy,
         pc[w] # "ingesting", ~Writes(w), NEW h \in Hosts
  PROVE  Mine(w) \notin findings'[h]
<1>1. ASSUME NEW v \in Workers, Ingest(v) PROVE Mine(v) # Mine(w)
  BY <1>1 DEF Ingest, Busy, Scanning, Mine, AttemptInv, AttemptsDistinct
<1>2. QED
  BY <1>1, FindingsGrow DEF Writes

\* How a busy worker came where it is: by a claim, or from where it was, with the same
\* attempt, and its context is live only if it was.
LEMMA CameFrom ==
  ASSUME TypeInv, [Next]_vars, NEW w \in Workers, pc'[w] \in Early \cup {"reporting"},
         ~ \E j \in Jobs : Claim(w, j)
  PROVE  /\ pc[w] \in Busy /\ Mine(w)' = Mine(w) /\ cur'[w] = cur[w]
         /\ ctx'[w] = "live" => ctx[w] = "live"
         /\ pc'[w] \in Early => pc[w] \in Early
         /\ pc'[w] = "reporting" =>
              \/ pc[w] \in Early \cup {"reporting"}
              \/ Ingest(w)
<1> DEFINE Q == /\ pc[w] \in Busy /\ Mine(w)' = Mine(w) /\ cur'[w] = cur[w]
                /\ ctx'[w] = "live" => ctx[w] = "live"
                /\ pc'[w] \in Early => pc[w] \in Early
                /\ pc'[w] = "reporting" =>
                     \/ pc[w] \in Early \cup {"reporting"}
                     \/ Ingest(w)
<1> USE DEF TypeInv, TypeOK, Mine, Early, Busy, Scanning
<1>1. CASE pc'[w] = pc[w] /\ cur'[w] = cur[w] /\ att'[w] = att[w] /\ ctx'[w] = ctx[w]
  BY <1>1
<1>2. ASSUME NEW v \in Workers, NEW j \in Jobs, Claim(v, j) PROVE Q
  <2>1. v # w
    BY <1>2
  <2>2. QED
    BY <1>1, <1>2, <2>1 DEF Claim, Goto, workerVars
<1>3. ASSUME NEW v \in Workers, Connect(v) \/ Prepare(v) \/ ProbeReturns(v) PROVE Q
  BY <1>3 DEF Connect, Prepare, ProbeReturns, Goto
<1>4. ASSUME NEW v \in Workers, BeginScan(v) PROVE Q
  BY <1>4 DEF BeginScan, Goto
<1>5. ASSUME NEW v \in Workers, Validate(v) PROVE Q
  BY <1>5 DEF Validate, Discard, Goto
<1>6. ASSUME NEW v \in Workers, Ingest(v) PROVE Q
  <2>1. CASE v = w
    BY <1>6, <2>1 DEF Ingest, Goto
  <2>2. CASE v # w
    BY <1>1, <1>6, <2>2 DEF Ingest, Goto
  <2>3. QED
    BY <2>1, <2>2
<1>7. ASSUME NEW v \in Workers,
             FinishScan(v) \/ ReportFailure(v) \/ UpdateHost(v) \/ MarkUnreachable(v)
      PROVE  Q
  BY <1>7 DEF FinishScan, ReportFailure, UpdateHost, MarkUnreachable, Goto
<1>8. ASSUME NEW v \in Workers, Complete(v) \/ Fail(v) PROVE Q
  BY <1>8 DEF Complete, Fail, LeaveJob, Goto
<1>9. ASSUME NEW v \in Workers, ScanTimeout(v) \/ Heartbeat(v) \/ Shutdown(v) PROVE Q
  BY <1>9 DEF ScanTimeout, Heartbeat, Shutdown
<1>10. ASSUME NEW v \in Workers, Crash(v) PROVE Q
  BY <1>10 DEF Crash, Goto
<1>11. CASE \/ \E h \in Hosts, j \in Jobs : Enqueue(h, j)
            \/ \E h \in Hosts : DeleteHost(h)
            \/ \E j \in Jobs : BackoffEnds(j) \/ LeaseLapses(j)
            \/ UNCHANGED vars
  BY <1>1, <1>11 DEF Enqueue, DeleteHost, BackoffEnds, LeaseLapses, vars, workerVars
<1>12. QED
  BY <1>2, <1>3, <1>4, <1>5, <1>6, <1>7, <1>8, <1>9, <1>10, <1>11 DEF Next, Proceed

\* A failure is recorded by a worker that has written nothing, or that can still record.
LEMMA FailureRecorded ==
  ASSUME TypeInv, DeletionInv, [Next]_vars, faults' = 0,
         NEW a \in scans'["failed"], a \notin scans["failed"]
  PROVE  /\ UNCHANGED findings
         /\ \E w \in Workers :
              /\ a = Mine(w)
              /\ pc[w] \in Early \/ (pc[w] = "reporting" /\ ~Unrecordable(w))
<1> USE DEF TypeInv, TypeOK, ScanStatus
<1>1. PICK w \in Workers : Validate(w) \/ ReportFailure(w)
  <2>1. ASSUME NEW h \in Hosts, DeleteHost(h) PROVE FALSE
    BY <2>1 DEF DeleteHost
  <2>2. ASSUME NEW w \in Workers, BeginScan(w) PROVE FALSE
    BY <2>2 DEF BeginScan
  <2>3. ASSUME NEW w \in Workers, FinishScan(w) PROVE FALSE
    BY <2>3 DEF FinishScan, SetScan
  <2>4. QED
    BY <2>1, <2>2, <2>3
       DEF Next, Enqueue, BackoffEnds, LeaseLapses, Claim, Proceed, Prepare, ProbeReturns,
           Ingest, UpdateHost, MarkUnreachable, Complete, Fail, Connect, ScanTimeout,
           Heartbeat, Crash, Shutdown, scanVars, vars
<1>2. UNCHANGED findings
  BY <1>1 DEF Validate, ReportFailure
<1>3. SetScan(Mine(w), "failed")
  BY <1>1 DEF Validate, Discard, ReportFailure
<1>4. a = Mine(w) /\ \E r \in ScanStatus : a \in scans[r]
  BY <1>3 DEF SetScan
<1>5. CASE Validate(w)
  BY <1>2, <1>4, <1>5 DEF Validate, Early
<1>6. CASE ReportFailure(w)
  <2>1. pc[w] = "reporting" /\ ScanCtxLive(w)
    BY <1>3, <1>4, <1>6 DEF ReportFailure, CallWorks, CallFails
  <2>2. Postgres => hostOf[cur[w]] \in known
    BY <1>4 DEF DeletionInv, DeletedHostLeavesNothing, Mine
  <2>3. QED
    BY <1>2, <1>4, <2>1, <2>2 DEF Unrecordable
<1>7. QED
  BY <1>1, <1>5, <1>6

LEMMA NextFindingInv ==
  TypeInv /\ AttemptInv /\ ScanInv /\ DeletionInv /\ FindingInv /\ [Next]_vars => FindingInv'
<1> SUFFICES ASSUME TypeInv, AttemptInv, ScanInv, DeletionInv, FindingInv, [Next]_vars
             PROVE  FindingInv'
  OBVIOUS
<1>1. \A j \in Jobs : attempts[j] \in Nat /\ attempts'[j] \in Nat /\ attempts[j] <= attempts'[j]
  <2> USE DEF TypeInv, TypeOK
  <2>1. ASSUME NEW w \in Workers, NEW k \in Jobs, Claim(w, k)
        PROVE  attempts' = [attempts EXCEPT ![k] = attempts[k] + 1]
    BY <2>1 DEF Claim, Lease
  <2>2. attempts' = attempts \/ \E w \in Workers, k \in Jobs : Claim(w, k)
    BY StepKinds DEF Quiet, Enqueue, DeleteHost, Advance, Abandon, Settle
  <2>3. QED
    BY <2>1, <2>2
<1>2. faults' = 0 => faults = 0
  BY DEF Next, Enqueue, DeleteHost, BackoffEnds, LeaseLapses, Claim, Proceed, BeginScan,
     Prepare, ProbeReturns, Validate, Discard, Ingest, UpdateHost, FinishScan,
     ReportFailure, MarkUnreachable, Complete, Fail, Connect, ScanTimeout, Heartbeat,
     Crash, Shutdown, CallWorks, CallFails, DatabaseFails, vars, TypeInv, TypeOK
<1>3. FindingsNumbered'
  <2> SUFFICES ASSUME NEW h \in Hosts, NEW j \in Jobs, NEW n \in Nat,
                      <<j, n>> \in findings'[h]
               PROVE  n <= attempts'[j]
    BY DEF FindingsNumbered
  <2>1. CASE <<j, n>> \in findings[h]
    BY <1>1, <2>1 DEF FindingInv, FindingsNumbered
  <2>2. ASSUME NEW w \in Workers, Ingest(w), <<j, n>> = Mine(w) PROVE n <= attempts'[j]
    BY <1>1, <2>2 DEF Ingest, Mine, Busy, Scanning, AttemptInv, AttemptsNumbered
  <2>3. QED
    BY <2>1, <2>2, FindingsGrow
<1>4. ASSUME NEW w \in Workers, NEW j \in Jobs, Claim(w, j), pc'[w] \in Busy, NEW h \in Hosts
      PROVE  Mine(w)' \notin findings'[h]
  <2>1. Mine(w)' = <<j, attempts[j] + 1>>
    BY <1>4 DEF Claim, Goto, Mine, workerVars, TypeInv, TypeOK, Busy, Scanning
  <2>2. findings' = findings
    BY <1>4 DEF Claim, scanVars
  <2>3. QED
    BY <1>1, <2>1, <2>2 DEF FindingInv, FindingsNumbered
<1>5. EarlyWroteNothing'
  <2> SUFFICES ASSUME NEW w \in Workers, pc'[w] \in Early, NEW h \in Hosts
               PROVE  Mine(w)' \notin findings'[h]
    BY DEF EarlyWroteNothing, Writes
  <2>1. CASE \E j \in Jobs : Claim(w, j)
    BY <1>4, <2>1 DEF Early, Busy, Scanning
  <2>2. CASE ~ \E j \in Jobs : Claim(w, j)
    <3>1. pc[w] \in Early /\ Mine(w)' = Mine(w) /\ pc[w] \in Busy
      BY <2>2, CameFrom
    <3>2. ~Writes(w) /\ pc[w] # "ingesting"
      BY <3>1 DEF FindingInv, EarlyWroteNothing, Early
    <3>3. QED
      BY <3>1, <3>2, OthersFindings
  <2>3. QED
    BY <2>1, <2>2
<1>6. LateFailureUnrecordable'
  <2> SUFFICES ASSUME faults' = 0, NEW w \in Workers, pc'[w] = "reporting",
                      NEW h \in Hosts, Mine(w)' \in findings'[h]
               PROVE  Unrecordable(w)'
    BY DEF LateFailureUnrecordable, Writes
  <2>1. ~ \E j \in Jobs : Claim(w, j)
    BY <1>4 DEF Busy, Scanning
  <2>2. /\ Mine(w)' = Mine(w) /\ cur'[w] = cur[w] /\ pc[w] \in Busy
        /\ ctx'[w] = "live" => ctx[w] = "live"
        /\ pc[w] \in Early \cup {"reporting"} \/ Ingest(w)
    BY <2>1, CameFrom
  <2>3. cur[w] \in Jobs /\ hostOf[cur[w]] \in Hosts
    BY <2>2 DEF TypeInv, TypeOK, BusyWorkersHaveJobs, AttemptInv, AttemptsNumbered,
                DeletionInv, JobsHaveHosts
  <2>4. Unrecordable(w) => Unrecordable(w)'
    <3>1. hostOf'[cur[w]] = hostOf[cur[w]] /\ known' \subseteq known
      BY <2>3, DeletionSteps DEF DeletionInv, DeleteHost
    <3>2. QED
      BY <2>2, <3>1 DEF Unrecordable, ScanCtxLive
  <2>5. CASE pc[w] \in Early \cup {"reporting"}
    <3>1. Writes(w)
      BY <2>2, <2>5, OthersFindings DEF Early
    <3>2. pc[w] = "reporting" /\ Unrecordable(w)
      BY <1>2, <2>5, <3>1 DEF FindingInv, EarlyWroteNothing, LateFailureUnrecordable
    <3>3. QED
      BY <2>4, <3>2
  <2>6. CASE Ingest(w)
    <3>1. pc'[w] # pc[w]
      BY <2>6 DEF Ingest
    <3>2. Unrecordable(w)
      BY <2>6, <3>1 DEF Ingest, CallFails, DatabaseFails, Unrecordable, TypeInv, TypeOK
    <3>3. QED
      BY <2>4, <3>2
  <2>7. QED
    BY <2>2, <2>5, <2>6
<1>7. FailedScanLeftNothing'
  <2> SUFFICES ASSUME faults' = 0, NEW h \in Hosts,
                      NEW a \in scans'["failed"], a \in findings'[h]
               PROVE  FALSE
    BY DEF FailedScanLeftNothing
  <2>1. CASE a \in scans["failed"]
    <3>1. a \notin findings[h]
      BY <1>2, <2>1 DEF FindingInv, FailedScanLeftNothing
    <3>2. PICK w \in Workers : Ingest(w) /\ a = Mine(w)
      BY <3>1, FindingsGrow
    <3>3. QED
      BY <2>1, <3>2 DEF Ingest, ScanInv, GoodAttemptsNotFailed, GoodStanding, Busy, Scanning
  <2>2. CASE a \notin scans["failed"]
    BY <1>2, <2>2, FailureRecorded
       DEF FindingInv, EarlyWroteNothing, LateFailureUnrecordable, Writes
  <2>3. QED
    BY <2>1, <2>2
<1>8. QED
  BY <1>3, <1>5, <1>6, <1>7 DEF FindingInv

\* While the database works, a scan recorded as failed has written no observation, at
\* whatever moment it was cancelled or lost its host.
THEOREM FailedLeftNothing == Spec => []FailedScanLeftNothing
<1>1. Init => ScanInv /\ DeletionInv /\ FindingInv
  <2>1. Init => ScanInv
    BY DEF Init, ScanInv, FailedScansNumbered, GoodAttemptsNotFailed, GoodStanding,
           SucceededAttemptsLeft, SucceededScanNotFailed, ScanStatus, Busy, Scanning
  <2>2. Init => DeletionInv
    BY DEF Init, DeletionInv, JobsHaveHosts, DeletedHostLeavesNothing
  <2>3. Init => FindingInv
    BY DEF Init, FindingInv, FindingsNumbered, EarlyWroteNothing, LateFailureUnrecordable,
           FailedScanLeftNothing, Early, Writes
  <2>4. QED
    BY <2>1, <2>2, <2>3
<1>2. FindingInv => FailedScanLeftNothing
  BY DEF FindingInv
<1>3. QED
  BY <1>1, <1>2, InitTypeInv, InitAttemptInv, NextTypeInv, NextAttemptInv, NextScanInv,
     NextDeletionInv, NextFindingInv, PTL DEF Spec
-------------------------------------------------------------------------------
(***************************************************************************)
(* The queue implements JobLease.                                          *)
(***************************************************************************)

Held == {Mine(w) : w \in {v \in Workers : pc[v] \in Busy}}

\* Leaving takes away the leaver's attempt and no other.
LEMMA LeaveHeld ==
  ASSUME TypeInv, AttemptInv, NEW w \in Workers, pc[w] \in Busy, Leave(w)
  PROVE  Held' = Held \ {Mine(w)}
<1>1. \A v \in Workers : pc'[v] \in Busy <=> v # w /\ pc[v] \in Busy
  BY LeaveOthers
<1>2. \A v \in Workers \ {w} : Mine(v)' = Mine(v)
  BY LeaveOthers DEF Mine
<1>3. \A v \in Workers \ {w} : pc[v] \in Busy => Mine(v) # Mine(w)
  BY DEF AttemptInv, AttemptsDistinct, Mine
<1>4. ASSUME NEW a \in Held' PROVE a \in Held \ {Mine(w)}
  <2>1. PICK v \in Workers : pc'[v] \in Busy /\ a = Mine(v)'
    BY <1>4 DEF Held
  <2>2. QED
    BY <1>1, <1>2, <1>3, <2>1 DEF Held
<1>5. ASSUME NEW a \in Held \ {Mine(w)} PROVE a \in Held'
  <2>1. PICK v \in Workers : pc[v] \in Busy /\ a = Mine(v)
    BY <1>5 DEF Held
  <2>2. v # w /\ pc'[v] \in Busy /\ Mine(v)' = Mine(v)
    BY <1>1, <1>2, <1>5, <2>1
  <2>3. QED
    BY <2>1, <2>2 DEF Held
<1>6. QED
  BY <1>4, <1>5

\* A claim adds an attempt, or none when the claim's answer is lost.
LEMMA ClaimHeld ==
  ASSUME TypeInv, NEW w \in Workers, NEW j \in Jobs, Claim(w, j)
  PROVE  Held' \in {Held, Held \cup {<<j, attempts[j] + 1>>}}
<1> USE DEF TypeInv, TypeOK, Held, Mine
<1>1. CASE UNCHANGED workerVars
  <2>1. Held' = Held
    BY <1>1 DEF workerVars
  <2>2. QED
    BY <2>1
<1>2. CASE /\ Goto(w, "claimed")
           /\ cur' = [cur EXCEPT ![w] = j]
           /\ att' = [att EXCEPT ![w] = attempts[j] + 1]
  <2>1. /\ pc[w] \notin Busy /\ pc'[w] \in Busy
        /\ Mine(w)' = <<j, attempts[j] + 1>>
        /\ \A v \in Workers \ {w} : pc'[v] = pc[v] /\ Mine(v)' = Mine(v)
    BY <1>2 DEF Claim, Goto, Busy, Scanning
  <2>2. Held' = Held \cup {<<j, attempts[j] + 1>>}
    <3>1. ASSUME NEW a \in Held' PROVE a \in Held \cup {<<j, attempts[j] + 1>>}
      <4>1. PICK v \in Workers : pc'[v] \in Busy /\ a = Mine(v)'
        BY <3>1
      <4>2. QED
        BY <2>1, <4>1
    <3>2. ASSUME NEW a \in Held PROVE a \in Held'
      <4>1. PICK v \in Workers : pc[v] \in Busy /\ a = Mine(v)
        BY <3>2
      <4>2. QED
        BY <2>1, <4>1
    <3>3. <<j, attempts[j] + 1>> \in Held'
      BY <2>1
    <3>4. QED
      BY <3>1, <3>2, <3>3
  <2>3. QED
    BY <2>2
<1>3. QED
  BY <1>1, <1>2 DEF Claim

LEMMA StepKeepsPromise ==
  TypeInv /\ AttemptInv /\ [Next]_vars => [Promise!Next]_Promise!vars
<1> SUFFICES ASSUME TypeInv, AttemptInv, [Next]_vars
             PROVE  Promise!Next \/ UNCHANGED Promise!vars
  OBVIOUS
<1>1. CASE Quiet
  BY <1>1 DEF Quiet, Promise!vars, Mine
<1>2. ASSUME NEW h \in Hosts, NEW j \in Jobs, Enqueue(h, j) PROVE Promise!Next
  <2>1. Promise!Submit(j, h)
    BY <1>2 DEF Enqueue, Promise!Submit, Active, Promise!Active, workerVars, Mine
  <2>2. QED
    BY <2>1 DEF Promise!Next
<1>3. ASSUME NEW h \in Hosts, DeleteHost(h) PROVE Promise!Next \/ UNCHANGED Promise!vars
  <2>1. CASE Postgres
    <3>1. status' = [j \in Jobs |-> IF hostOf[j] = h THEN "deleted" ELSE status[j]]
      BY <1>3, <2>1 DEF DeleteHost, OfHost
    <3>2. Promise!Withdraw(h)
      BY <1>3, <3>1 DEF DeleteHost, Promise!Withdraw, workerVars, Mine
    <3>3. QED
      BY <3>2 DEF Promise!Next
  <2>2. CASE ~Postgres
    BY <1>3, <2>2 DEF DeleteHost, Promise!vars, workerVars, Mine
  <2>3. QED
    BY <2>1, <2>2
<1>4. ASSUME NEW w \in Workers, NEW j \in Jobs, Claim(w, j) PROVE Promise!Next
  <2>1. Promise!Grant(j)
    BY <1>4, ClaimHeld DEF Claim, Claimable, Lease, Held, Promise!Grant, Promise!Active
  <2>2. QED
    BY <2>1 DEF Promise!Next
<1>5. ASSUME NEW w \in Workers, Advance(w) PROVE UNCHANGED Promise!vars
  <2>1. \A v \in Workers : pc'[v] \in Busy <=> pc[v] \in Busy
    BY <1>5 DEF Advance, Goto, TypeInv, TypeOK
  <2>2. QED
    BY <1>5, <2>1 DEF Advance, Promise!vars, Mine
<1>6. ASSUME NEW w \in Workers, Abandon(w) PROVE Promise!Next \/ UNCHANGED Promise!vars
  <2>1. CASE pc[w] \in Busy
    <3>1. PICK a \in Held : a = Mine(w)
      BY <2>1 DEF Held
    <3>2. Promise!GiveUp(a)
      BY <1>6, <2>1, <3>1, LeaveHeld DEF Abandon, Held, Promise!GiveUp
    <3>3. QED
      BY <3>2 DEF Promise!Next, Held
  <2>2. CASE pc[w] \notin Busy
    <3>1. \A v \in Workers : pc'[v] \in Busy <=> pc[v] \in Busy
      BY <1>6, <2>2, LeaveOthers DEF Abandon
    <3>2. \A v \in Workers : pc[v] \in Busy => Mine(v)' = Mine(v)
      BY <1>6, <2>2, LeaveOthers DEF Abandon, Mine
    <3>3. Held' = Held
      BY <3>1, <3>2 DEF Held
    <3>4. QED
      BY <1>6, <3>3 DEF Abandon, Held, Promise!vars
  <2>3. QED
    BY <2>1, <2>2
<1>7. ASSUME NEW w \in Workers, Settle(w) PROVE Promise!Next
  <2> DEFINE j == cur[w]
  <2>1. /\ pc[w] \in Busy /\ j \in Jobs /\ status[j] = "running"
        /\ Mine(w) = <<j, attempts[j]>> /\ Mine(w) \in Held
        /\ att[w] = attempts[j]
    BY <1>7 DEF Settle, Owns, Busy, Mine, Held, TypeInv, BusyWorkersHaveJobs, AttemptInv,
                OwnerHasLatestAttempt
  <2>2. Held' = Held \ {<<j, attempts[j]>>}
    BY <1>7, <2>1, LeaveHeld DEF Settle
  <2>3. PICK to \in {"succeeded", "queued", "failed"} :
          /\ status' = [status EXCEPT ![j] = to]
          /\ to = "queued" => ~Terminal(w)
          /\ to = "failed" => Terminal(w)
    BY <1>7 DEF Settle
  <2>4. /\ to = "queued" => attempts[j] < MaxAttempts
        /\ to = "failed" => attempts[j] >= MaxAttempts
    BY <2>1, <2>3 DEF Terminal, TypeInv, TypeOK
  <2>5. Promise!Settle(j, to)
    BY <1>7, <2>1, <2>2, <2>3, <2>4 DEF Settle, Held, Promise!Settle
  <2>6. QED
    BY <2>1, <2>5 DEF Promise!Next, Promise!Settled
<1>8. QED
  BY <1>1, <1>2, <1>3, <1>4, <1>5, <1>6, <1>7, StepKinds

\* The queue of worker ids, leases and clocks implements the queue that fences with
\* attempt numbers: every step of the code is one JobLease allows, or invisible.
THEOREM Refinement == Spec => KeepsPromise
<1>1. Init => Promise!Init
  BY DEF Init, Promise!Init, Busy, Scanning
<1>2. QED
  BY <1>1, InitTypeInv, InitAttemptInv, NextTypeInv, NextAttemptInv, StepKeepsPromise, PTL
     DEF Spec, KeepsPromise, Promise!Spec
===============================================================================
