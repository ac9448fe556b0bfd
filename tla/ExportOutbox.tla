----------------------------- MODULE ExportOutbox -----------------------------
(***************************************************************************)
(* The export outbox of bladedr: every upsert of an observation leaves, in *)
(* the same transaction, one delivery for each enabled target, and the     *)
(* workers of internal/export/worker.go claim the deliveries and send what *)
(* the observation has become by then.                                     *)
(*                                                                         *)
(* A delivery is named by what it was written for: target, observation and *)
(* the version of the observation that its upsert made.  Every store call  *)
(* and every exchange with a target is a step of its own; the store is     *)
(* Postgres.                                                               *)
(***************************************************************************)
EXTENDS Integers, FiniteSets

CONSTANTS
  Targets,      \* export_targets rows that exist at the start
  Syslog,       \* the targets of type syslog; the others speak HTTP
  Sealed,       \* the targets whose secret or config this server cannot use
  Observations, \* identities available to observations rows
  Workers,      \* loop goroutines; a restart brings new ones
  NoDelivery, NoWorker,
  MaxAttempts,  \* export_outbox.max_attempts (10 in the code)
  MaxVersions,  \* bound: upserts of one observation
  MaxRedrives,  \* bound: retries of dead deliveries by an administrator
  MaxLapses,    \* bound: leases that run out while their worker is alive
  MaxFaults     \* bound: store calls that fail for reasons of the database

Versions == 1..MaxVersions
Deliveries == [target: Targets, observation: Observations, version: Versions]

ASSUME OutboxAssumption ==
  /\ Syslog \subseteq Targets /\ Sealed \subseteq Targets
  /\ MaxAttempts \in Nat \ {0}
  /\ MaxVersions \in Nat /\ MaxRedrives \in Nat
  /\ MaxLapses \in Nat /\ MaxFaults \in Nat
  /\ NoDelivery \notin Deliveries
  /\ NoWorker \notin Workers

VARIABLES
  target,     \* target -> enabled, disabled or deleted
  version,    \* observation -> upserts so far, 0 before the row exists
  dropped,    \* observations deleted, by retention or with their host
  status,     \* delivery -> export_outbox.status, "absent" before the row exists
  owner,      \* delivery -> worker_id
  lease,      \* delivery -> is there a lease_until, and has it passed
  due,        \* delivery -> available_at has passed
  attempts,   \* delivery -> attempts
  first,      \* delivery -> version in the first request the target accepted under
              \* its Idempotency-Key, 0 if it accepted none
  pc,         \* worker -> where runOne is
  cur,        \* worker -> the delivery it claimed
  att,        \* worker -> delivery.Attempts in the copy the claim returned
  payload,    \* worker -> version of the observation it has read
  stopping,   \* workers whose context is cancelled by a shutdown
  redrives, lapses, faults

rows == <<target, version, dropped>>
claim == <<owner, lease, due, attempts>>
worker == <<pc, cur, att, payload, stopping>>
bounds == <<redrives, lapses, faults>>
vars == <<rows, status, claim, first, worker, bounds>>

Status == {"absent", "queued", "delivering", "sent", "dead", "deleted"}
Unsettled == {"queued", "delivering"}
Busy == {"claimed", "found", "sending", "accepted", "failing", "refused", "unusable"}
PC == Busy \cup {"idle", "dead"}

TypeOK ==
  /\ target \in [Targets -> {"enabled", "disabled", "deleted"}]
  /\ version \in [Observations -> 0..MaxVersions]
  /\ dropped \in SUBSET Observations
  /\ status \in [Deliveries -> Status]
  /\ owner \in [Deliveries -> Workers \cup {NoWorker}]
  /\ lease \in [Deliveries -> {"none", "held", "lapsed"}]
  /\ due \in [Deliveries -> BOOLEAN]
  /\ attempts \in [Deliveries -> Nat]
  /\ first \in [Deliveries -> 0..MaxVersions]
  /\ pc \in [Workers -> PC]
  /\ cur \in [Workers -> Deliveries \cup {NoDelivery}]
  /\ att \in [Workers -> Nat]
  /\ payload \in [Workers -> 0..MaxVersions]
  /\ stopping \in SUBSET Workers
  /\ redrives \in Nat /\ lapses \in Nat /\ faults \in Nat

Init ==
  /\ target = [t \in Targets |-> "enabled"]
  /\ version = [o \in Observations |-> 0]
  /\ dropped = {}
  /\ status = [d \in Deliveries |-> "absent"]
  /\ owner = [d \in Deliveries |-> NoWorker]
  /\ lease = [d \in Deliveries |-> "none"]
  /\ due = [d \in Deliveries |-> FALSE]
  /\ attempts = [d \in Deliveries |-> 0]
  /\ first = [d \in Deliveries |-> 0]
  /\ pc = [w \in Workers |-> "idle"]
  /\ cur = [w \in Workers |-> NoDelivery]
  /\ att = [w \in Workers |-> 0]
  /\ payload = [w \in Workers |-> 0]
  /\ stopping = {}
  /\ redrives = 0 /\ lapses = 0 /\ faults = 0

\* A store call fails when its context is cancelled, when its row does not match,
\* or when the database does.
StoreWorks(w, matches) == w \notin stopping /\ matches /\ UNCHANGED faults
DatabaseFails == faults < MaxFaults /\ faults' = faults + 1
StoreFails(w, matches) ==
  \/ (w \in stopping \/ ~matches) /\ UNCHANGED faults
  \/ DatabaseFails

Goto(w, there) == pc' = [pc EXCEPT ![w] = there]
-------------------------------------------------------------------------------
(***************************************************************************)
(* Scans and administrators.                                               *)
(***************************************************************************)

\* UpsertObservation: the row and its deliveries are one transaction.
Upsert(o) ==
  LET new == {d \in Deliveries : /\ target[d.target] = "enabled"
                                 /\ d.observation = o
                                 /\ d.version = version[o] + 1}
  IN /\ o \notin dropped /\ version[o] < MaxVersions
     /\ version' = [version EXCEPT ![o] = @ + 1]
     /\ status' = [d \in Deliveries |-> IF d \in new THEN "queued" ELSE status[d]]
     /\ due' = [d \in Deliveries |-> d \in new \/ due[d]]
     /\ UNCHANGED <<target, dropped, owner, lease, attempts, first, worker, bounds>>

\* The rows that ON DELETE CASCADE takes along.
Cascade(gone) ==
  /\ status' = [d \in Deliveries |-> IF d \in gone THEN "deleted" ELSE status[d]]
  /\ owner' = [d \in Deliveries |-> IF d \in gone THEN NoWorker ELSE owner[d]]
  /\ lease' = [d \in Deliveries |-> IF d \in gone THEN "none" ELSE lease[d]]

\* ApplyRetention, or DeleteHost, deletes an observation.
DropObservation(o) ==
  /\ version[o] > 0 /\ o \notin dropped
  /\ dropped' = dropped \cup {o}
  /\ Cascade({d \in Deliveries : d.observation = o})
  /\ UNCHANGED <<target, version, due, attempts, first, worker, bounds>>

\* patchExportTarget enables or disables a target.
SetEnabled(t, to) ==
  /\ target[t] # "deleted" /\ target[t] # to
  /\ target' = [target EXCEPT ![t] = to]
  /\ UNCHANGED <<version, dropped, status, claim, first, worker, bounds>>

DeleteTarget(t) ==
  /\ target[t] # "deleted"
  /\ target' = [target EXCEPT ![t] = "deleted"]
  /\ Cascade({d \in Deliveries : d.target = t})
  /\ UNCHANGED <<version, dropped, due, attempts, first, worker, bounds>>

\* RetryExportDelivery, the way out of the dead-letter queue.
Redrive(d) ==
  /\ status[d] = "dead" /\ redrives < MaxRedrives
  /\ status' = [status EXCEPT ![d] = "queued"]
  /\ attempts' = [attempts EXCEPT ![d] = 0]
  /\ due' = [due EXCEPT ![d] = TRUE]
  /\ redrives' = redrives + 1
  /\ UNCHANGED <<rows, owner, lease, first, worker, lapses, faults>>
-------------------------------------------------------------------------------
(***************************************************************************)
(* A worker: runOne and the deliver it calls.                              *)
(***************************************************************************)

\* The WHERE clause of Complete- and FailExportDelivery.
Owns(w) == cur[w] # NoDelivery /\ status[cur[w]] = "delivering" /\ owner[cur[w]] = w

\* Mutant of Claimable: nothing is reclaimed.
ClaimableQueued(d) == target[d.target] = "enabled" /\ status[d] = "queued" /\ due[d]

Claimable(d) ==
  /\ target[d.target] = "enabled"
  /\ \/ status[d] = "queued" /\ due[d]
     \/ status[d] = "delivering" /\ lease[d] = "lapsed"

\* ClaimExportDelivery, whose answer may be lost after it has committed.
Claim(w, d) ==
  /\ pc[w] = "idle"
  /\ Claimable(d)
  /\ status' = [status EXCEPT ![d] = "delivering"]
  /\ owner' = [owner EXCEPT ![d] = w]
  /\ lease' = [lease EXCEPT ![d] = "held"]
  /\ attempts' = [attempts EXCEPT ![d] = @ + 1]
  /\ \/ /\ Goto(w, "claimed")
        /\ cur' = [cur EXCEPT ![w] = d]
        /\ att' = [att EXCEPT ![w] = attempts[d] + 1]
        /\ UNCHANGED <<payload, stopping, faults>>
     \/ DatabaseFails /\ UNCHANGED worker
  /\ UNCHANGED <<rows, due, first, redrives, lapses>>

\* GetExportTarget; every error it returns is permanent.
FindTarget(w) ==
  LET there == target[cur[w].target] # "deleted"
  IN /\ pc[w] = "claimed"
     /\ \/ StoreWorks(w, there) /\ Goto(w, "found")
        \/ StoreFails(w, there) /\ Goto(w, "unusable")
     /\ UNCHANGED <<rows, status, claim, first, cur, att, payload, stopping, redrives, lapses>>

\* Mutant of ReadObservation: the read is served by a replica that lags behind.
ReadReplica(w) ==
  LET o == cur[w].observation
  IN /\ pc[w] = "found"
     /\ StoreWorks(w, o \notin dropped) /\ Goto(w, "sending")
     /\ \E v \in 1..version[o] : payload' = [payload EXCEPT ![w] = v]
     /\ UNCHANGED <<rows, status, claim, first, cur, att, stopping, redrives, lapses>>

\* GetObservation and GetHost, then the secret; again every error is permanent.
ReadObservation(w) ==
  LET o == cur[w].observation
      usable == cur[w].target \notin Sealed
  IN /\ pc[w] = "found"
     /\ \/ /\ StoreWorks(w, o \notin dropped)
           /\ Goto(w, IF usable THEN "sending" ELSE "unusable")
           /\ payload' = [payload EXCEPT ![w] = version[o]]
        \/ /\ StoreFails(w, o \notin dropped)
           /\ Goto(w, "unusable")
           /\ UNCHANGED payload
     /\ UNCHANGED <<rows, status, claim, first, cur, att, stopping, redrives, lapses>>

\* The target takes the request: only the first one under a key has an effect on a
\* target that deduplicates.
Accept(w) == first' = [first EXCEPT ![cur[w]] = IF @ = 0 THEN payload[w] ELSE @]

\* sendHTTP or sendSyslog.  An answer may be lost; a 4xx but 429 refuses for good; what
\* is written to a syslog socket is not acknowledged at all.
Send(w) ==
  /\ pc[w] = "sending"
  /\ \/ Accept(w) /\ \E there \in {"accepted", "failing"} : Goto(w, there)
     \/ UNCHANGED first /\ Goto(w, "failing")
     \/ cur[w].target \notin Syslog /\ UNCHANGED first /\ Goto(w, "refused")
     \/ cur[w].target \in Syslog /\ UNCHANGED first /\ Goto(w, "accepted")
  /\ UNCHANGED <<rows, status, claim, cur, att, payload, stopping, bounds>>

\* runOne returns, and loop ends after a shutdown.
Leave(w) ==
  /\ Goto(w, IF w \in stopping THEN "dead" ELSE "idle")
  /\ cur' = [cur EXCEPT ![w] = NoDelivery]
  /\ att' = [att EXCEPT ![w] = 0]
  /\ payload' = [payload EXCEPT ![w] = 0]
  /\ stopping' = stopping \ {w}

Release(d) ==
  /\ owner' = [owner EXCEPT ![d] = NoWorker]
  /\ lease' = [lease EXCEPT ![d] = "none"]

\* CompleteExportDelivery.
Complete(w) ==
  /\ pc[w] = "accepted"
  /\ \/ /\ StoreWorks(w, Owns(w))
        /\ status' = [status EXCEPT ![cur[w]] = "sent"]
        /\ Release(cur[w])
     \/ StoreFails(w, Owns(w)) /\ UNCHANGED <<status, owner, lease>>
  /\ Leave(w)
  /\ UNCHANGED <<rows, due, attempts, first, redrives, lapses>>

\* terminal: the attempts of the worker's copy, or a permanentError.
Terminal(w) == att[w] >= MaxAttempts \/ pc[w] \in {"refused", "unusable"}

\* FailExportDelivery: retry after a back-off, or give up.
Fail(w) ==
  /\ pc[w] \in {"failing", "refused", "unusable"}
  /\ \/ /\ StoreWorks(w, Owns(w))
        /\ status' = [status EXCEPT ![cur[w]] = IF Terminal(w) THEN "dead" ELSE "queued"]
        /\ due' = [due EXCEPT ![cur[w]] = FALSE]
        /\ Release(cur[w])
     \/ StoreFails(w, Owns(w)) /\ UNCHANGED <<status, owner, lease, due>>
  /\ Leave(w)
  /\ UNCHANGED <<rows, attempts, first, redrives, lapses>>
-------------------------------------------------------------------------------
(***************************************************************************)
(* The clock, and the loss of a server process.                            *)
(***************************************************************************)

\* available_at <= now
BackoffEnds(d) ==
  /\ status[d] = "queued" /\ ~due[d]
  /\ due' = [due EXCEPT ![d] = TRUE]
  /\ UNCHANGED <<rows, status, owner, lease, attempts, first, worker, bounds>>

Attended(d) == \E w \in Workers : pc[w] \in Busy /\ cur[w] = d /\ Owns(w)

\* lease_until <= now.  The lease of 30 s outlasts the timeout of 15 s, so a living
\* worker loses it only when it is paused or waits for the database.
LeaseLapses(d) ==
  /\ status[d] = "delivering" /\ lease[d] = "held"
  /\ lease' = [lease EXCEPT ![d] = "lapsed"]
  /\ lapses' = IF Attended(d) THEN lapses + 1 ELSE lapses
  /\ lapses' <= MaxLapses
  /\ UNCHANGED <<rows, status, owner, due, attempts, first, worker, redrives, faults>>

\* Another process is there, or is started in place of the lost one.
Replaced(w) == \E v \in Workers \ {w} : pc[v] # "dead" /\ v \notin stopping

Crash(w) ==
  /\ pc[w] # "dead" /\ Replaced(w)
  /\ Goto(w, "dead")
  /\ cur' = [cur EXCEPT ![w] = NoDelivery]
  /\ att' = [att EXCEPT ![w] = 0]
  /\ payload' = [payload EXCEPT ![w] = 0]
  /\ stopping' = stopping \ {w}
  /\ UNCHANGED <<rows, status, claim, first, bounds>>

Shutdown(w) ==
  /\ pc[w] \in Busy /\ w \notin stopping /\ Replaced(w)
  /\ stopping' = stopping \cup {w}
  /\ UNCHANGED <<rows, status, claim, first, pc, cur, att, payload, bounds>>
-------------------------------------------------------------------------------
Proceed(w) ==
  FindTarget(w) \/ ReadObservation(w) \/ Send(w) \/ Complete(w) \/ Fail(w)

Next ==
  \/ \E o \in Observations : Upsert(o) \/ DropObservation(o)
  \/ \E t \in Targets :
       DeleteTarget(t) \/ \E to \in {"enabled", "disabled"} : SetEnabled(t, to)
  \/ \E d \in Deliveries : Redrive(d) \/ BackoffEnds(d) \/ LeaseLapses(d)
  \/ \E w \in Workers, d \in Deliveries : Claim(w, d)
  \/ \E w \in Workers : Proceed(w) \/ Crash(w) \/ Shutdown(w)

Spec == Init /\ [][Next]_vars

(***************************************************************************)
(* Fairness: the goroutines that are not lost keep polling and running,    *)
(* every exchange with a target ends at the latest by the timeout, and     *)
(* time passes.                                                            *)
(***************************************************************************)
FairSpec ==
  /\ Spec
  /\ \A w \in Workers : WF_vars(Proceed(w))
  /\ \A w \in Workers, d \in Deliveries : WF_vars(Claim(w, d) /\ UNCHANGED faults)
  /\ \A d \in Deliveries : WF_vars(BackoffEnds(d)) /\ WF_vars(LeaseLapses(d))
-------------------------------------------------------------------------------
(***************************************************************************)
(* Properties.                                                             *)
(***************************************************************************)

\* A delivery marked sent to an HTTP target has reached it, and what the target got
\* first under its Idempotency-Key is no older than the upsert it was written for:
\* a target that deduplicates by the key misses nothing.
SentIsCurrent ==
  \A d \in Deliveries :
    status[d] = "sent" /\ d.target \notin Syslog => first[d] >= d.version

\* A retry is only scheduled while attempts are left: neither a superseded worker's
\* copy of Attempts nor a retry from the dead-letter queue upsets the count.
RetryBudget ==
  \A d \in Deliveries : status[d] = "queued" => attempts[d] < MaxAttempts

\* As long as no lease runs out under a living worker, no delivery is in the hands of
\* two workers, through crashes, lost answers and retries of dead deliveries.
ExclusiveDelivery ==
  lapses = 0 =>
    \A v, w \in Workers :
      pc[v] \in Busy /\ pc[w] \in Busy /\ cur[v] = cur[w]
      /\ status[cur[v]] # "deleted" => v = w

\* What becomes of a delivery is what its present worker has seen in the latest
\* attempt: sent after an acceptance, dead after a permanent error or the last attempt.
OwnOutcome ==
  [][\A d \in Deliveries :
       status[d] = "delivering" /\ status'[d] \in {"queued", "sent", "dead"} =>
         LET w == owner[d]
         IN /\ cur[w] = d /\ att[w] = attempts[d]
            /\ status'[d] = "sent" <=> pc[w] = "accepted"
            /\ status'[d] = "dead" =>
                 pc[w] \in {"refused", "unusable"} \/ attempts[d] >= MaxAttempts]_vars

\* No delivery is lost: it is settled in the end, unless its target is disabled.
EveryDeliverySettles ==
  \A d \in Deliveries :
    status[d] \in Unsettled ~> status[d] \notin Unsettled \/ target[d.target] # "enabled"
-------------------------------------------------------------------------------
(***************************************************************************)
(* A claim of the documentation that the code does not keep.               *)
(***************************************************************************)

\* CHANGELOG.md: permanent failures, the ones not retried, are 4xx other than 429.
DeadOnlyWhenRefused ==
  [][\A d \in Deliveries :
       status[d] = "delivering" /\ status'[d] = "dead" =>
         pc[owner[d]] = "refused" \/ attempts[d] >= MaxAttempts]_vars
===============================================================================
