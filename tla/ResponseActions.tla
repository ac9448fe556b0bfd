--------------------------- MODULE ResponseActions ---------------------------
(***************************************************************************)
(* Response actions of bladedr: root commands that an administrator        *)
(* requests, another one approves, and the ResponseQueue of some server    *)
(* process runs on the host over SSH (internal/scan/response.go, the       *)
(* response_actions rows of the store and their API handlers).             *)
(*                                                                         *)
(* A claim has a lease that is never renewed and no attempt limit: what a  *)
(* lost worker had begun is begun again.  Every store call and every       *)
(* exchange with the host is a step of its own.  The store is Postgres;    *)
(* Memory differs in that it never fails and keeps a deleted host's rows.  *)
(***************************************************************************)
EXTENDS Integers, FiniteSets

CONSTANTS
  Hosts,      \* hosts rows that exist at the start
  Actions,    \* identities available to response_actions rows
  Users,      \* administrators
  Workers,    \* ResponseQueue.Run of each server process; a restart brings a new one
  NoHost, NoAction, NoUser, NoWorker,
  AllowSelfApproval,  \* BLADEDR_RESPONSE_ALLOW_SELF_APPROVAL
  MaxLapses,  \* bound: leases that run out while their worker is alive
  MaxFaults   \* bound: store calls that fail for reasons of the database

ASSUME ResponseAssumption ==
  /\ AllowSelfApproval \in BOOLEAN
  /\ MaxLapses \in Nat
  /\ MaxFaults \in Nat
  /\ NoHost \notin Hosts
  /\ NoAction \notin Actions
  /\ NoUser \notin Users
  /\ NoWorker \notin Workers

VARIABLES
  status,     \* action -> response_actions.status, "absent" before the row exists
  target,     \* action -> host_id
  requester,  \* action -> requested_by
  approver,   \* action -> approved_by
  rejecter,   \* action -> rejected_by
  owner,      \* action -> worker_id
  lease,      \* action -> is there a lease_until, and has it passed
  known,      \* hosts that have a row
  runs,       \* action -> times its command was sent to the host
  expiries,   \* action -> times its lease ran out
  pc,         \* worker -> where RunOne is
  cur,        \* worker -> the action it claimed
  stopping,   \* workers whose context is cancelled by a shutdown
  lapses,     \* leases that ran out under a living worker so far
  faults      \* store calls that failed so far

decision == <<requester, approver, rejecter>>
claim == <<owner, lease, expiries, lapses>>
worker == <<pc, cur, stopping>>
vars == <<status, target, decision, claim, known, runs, worker, faults>>

Status == {"absent", "pending", "approved", "rejected", "running", "succeeded",
           "failed", "deleted"}
Busy == {"claimed", "dialing", "connected", "executing", "completing", "failing"}
PC == Busy \cup {"idle", "dead"}

TypeOK ==
  /\ status \in [Actions -> Status]
  /\ target \in [Actions -> Hosts \cup {NoHost}]
  /\ requester \in [Actions -> Users \cup {NoUser}]
  /\ approver \in [Actions -> Users \cup {NoUser}]
  /\ rejecter \in [Actions -> Users \cup {NoUser}]
  /\ owner \in [Actions -> Workers \cup {NoWorker}]
  /\ lease \in [Actions -> {"none", "held", "lapsed"}]
  /\ known \in SUBSET Hosts
  /\ runs \in [Actions -> Nat]
  /\ expiries \in [Actions -> Nat]
  /\ pc \in [Workers -> PC]
  /\ cur \in [Workers -> Actions \cup {NoAction}]
  /\ stopping \in SUBSET Workers
  /\ lapses \in Nat
  /\ faults \in Nat

Init ==
  /\ status = [a \in Actions |-> "absent"]
  /\ target = [a \in Actions |-> NoHost]
  /\ requester = [a \in Actions |-> NoUser]
  /\ approver = [a \in Actions |-> NoUser]
  /\ rejecter = [a \in Actions |-> NoUser]
  /\ owner = [a \in Actions |-> NoWorker]
  /\ lease = [a \in Actions |-> "none"]
  /\ known = Hosts
  /\ runs = [a \in Actions |-> 0]
  /\ expiries = [a \in Actions |-> 0]
  /\ pc = [w \in Workers |-> "idle"]
  /\ cur = [w \in Workers |-> NoAction]
  /\ stopping = {}
  /\ lapses = 0
  /\ faults = 0

\* A store call fails when its context is cancelled, when its row does not match,
\* or when the database does.
StoreWorks(w, matches) == w \notin stopping /\ matches /\ UNCHANGED faults
DatabaseFails == faults < MaxFaults /\ faults' = faults + 1
StoreFails(w, matches) ==
  \/ (w \in stopping \/ ~matches) /\ UNCHANGED faults
  \/ DatabaseFails

Goto(w, there) == pc' = [pc EXCEPT ![w] = there]
-------------------------------------------------------------------------------
(***************************************************************************)
(* The administrators.                                                     *)
(***************************************************************************)

\* createResponse and CreateResponseAction.
Request(u, a, h) ==
  /\ h \in known
  /\ status[a] = "absent"
  /\ status' = [status EXCEPT ![a] = "pending"]
  /\ target' = [target EXCEPT ![a] = h]
  /\ requester' = [requester EXCEPT ![a] = u]
  /\ UNCHANGED <<approver, rejecter, claim, known, runs, worker, faults>>

\* Mutant of Approve: two-person control left to the handler that called before.
ApproveAnybody(u, a) ==
  /\ status[a] = "pending"
  /\ status' = [status EXCEPT ![a] = "approved"]
  /\ approver' = [approver EXCEPT ![a] = u]
  /\ UNCHANGED <<target, requester, rejecter, claim, known, runs, worker, faults>>

\* ApproveResponseAction: the condition and the transition are one statement.
Approve(u, a) ==
  /\ status[a] = "pending"
  /\ requester[a] # u \/ AllowSelfApproval
  /\ status' = [status EXCEPT ![a] = "approved"]
  /\ approver' = [approver EXCEPT ![a] = u]
  /\ UNCHANGED <<target, requester, rejecter, claim, known, runs, worker, faults>>

\* RejectResponseAction, which the requester may use as well.
Reject(u, a) ==
  /\ status[a] = "pending"
  /\ status' = [status EXCEPT ![a] = "rejected"]
  /\ rejecter' = [rejecter EXCEPT ![a] = u]
  /\ UNCHANGED <<target, requester, approver, claim, known, runs, worker, faults>>

\* DeleteHost deletes the host's actions with it.
DeleteHost(h) ==
  LET gone == {a \in Actions : target[a] = h}
  IN /\ h \in known
     /\ known' = known \ {h}
     /\ status' = [a \in Actions |-> IF a \in gone THEN "deleted" ELSE status[a]]
     /\ owner' = [a \in Actions |-> IF a \in gone THEN NoWorker ELSE owner[a]]
     /\ lease' = [a \in Actions |-> IF a \in gone THEN "none" ELSE lease[a]]
     /\ UNCHANGED <<target, decision, expiries, lapses, runs, worker, faults>>
-------------------------------------------------------------------------------
(***************************************************************************)
(* A worker: ResponseQueue.RunOne and Runner.ExecuteResponse.              *)
(***************************************************************************)

\* The WHERE clause of Complete- and FailResponseAction.
Owns(w) == cur[w] # NoAction /\ status[cur[w]] = "running" /\ owner[cur[w]] = w

\* Mutants of Claimable: leases are not looked at; running actions are never reclaimed.
ClaimableRunning(a) == status[a] \in {"approved", "running"}
ClaimableApproved(a) == status[a] = "approved"

Claimable(a) ==
  \/ status[a] = "approved"
  \/ status[a] = "running" /\ lease[a] = "lapsed"

\* ClaimResponseAction, whose answer may be lost after it has committed.
Claim(w, a) ==
  /\ pc[w] = "idle"
  /\ Claimable(a)
  /\ status' = [status EXCEPT ![a] = "running"]
  /\ owner' = [owner EXCEPT ![a] = w]
  /\ lease' = [lease EXCEPT ![a] = "held"]
  /\ \/ /\ Goto(w, "claimed")
        /\ cur' = [cur EXCEPT ![w] = a]
        /\ UNCHANGED <<stopping, faults>>
     \/ DatabaseFails /\ UNCHANGED worker
  /\ UNCHANGED <<target, decision, expiries, lapses, known, runs>>

\* GetHost, NewSensorTransport and responseCommand; any of them may fail.
Prepare(w) ==
  /\ pc[w] = "claimed"
  /\ \/ StoreWorks(w, target[cur[w]] \in known) /\ \E there \in {"dialing", "failing"} : Goto(w, there)
     \/ StoreFails(w, target[cur[w]] \in known) /\ Goto(w, "failing")
  /\ UNCHANGED <<status, target, decision, claim, known, runs, cur, stopping>>

\* dial, up to the end of the handshake, which has no deadline.
Dial(w) ==
  /\ pc[w] = "dialing"
  /\ \E there \in {"connected", "failing"} : Goto(w, there)
  /\ UNCHANGED <<status, target, decision, claim, known, runs, cur, stopping, faults>>

\* run hands the command to the host, or cannot open a session.
Send(w) ==
  /\ pc[w] = "connected"
  /\ \/ Goto(w, "executing") /\ runs' = [runs EXCEPT ![cur[w]] = @ + 1]
     \/ Goto(w, "failing") /\ UNCHANGED runs
  /\ UNCHANGED <<status, target, decision, claim, known, cur, stopping, faults>>

\* The command exits, or the timeout, a shutdown or the network cuts its session.
Return(w) ==
  /\ pc[w] = "executing"
  /\ \E there \in {"completing", "failing"} : Goto(w, there)
  /\ UNCHANGED <<status, target, decision, claim, known, runs, cur, stopping, faults>>

\* RunOne returns, and Run ends after a shutdown.
Leave(w) ==
  /\ Goto(w, IF w \in stopping THEN "dead" ELSE "idle")
  /\ cur' = [cur EXCEPT ![w] = NoAction]
  /\ stopping' = stopping \ {w}

Settle(a, outcome) ==
  /\ status' = [status EXCEPT ![a] = outcome]
  /\ owner' = [owner EXCEPT ![a] = NoWorker]
  /\ lease' = [lease EXCEPT ![a] = "none"]

\* CompleteResponseAction and FailResponseAction.
Report(w, from, outcome) ==
  /\ pc[w] = from
  /\ \/ StoreWorks(w, Owns(w)) /\ Settle(cur[w], outcome)
     \/ StoreFails(w, Owns(w)) /\ UNCHANGED <<status, owner, lease>>
  /\ Leave(w)
  /\ UNCHANGED <<target, decision, expiries, lapses, known, runs>>

Complete(w) == Report(w, "completing", "succeeded")
Fail(w) == Report(w, "failing", "failed")
-------------------------------------------------------------------------------
(***************************************************************************)
(* The clock, and the loss of a server process.                            *)
(***************************************************************************)

Attended(a) == \E w \in Workers : pc[w] \in Busy /\ cur[w] = a /\ Owns(w)

\* lease_until <= now.  The lease of three minutes outlasts the timeout of two, so a
\* living worker loses it only when it is paused or stuck in a handshake.
LeaseLapses(a) ==
  /\ status[a] = "running" /\ lease[a] = "held"
  /\ lease' = [lease EXCEPT ![a] = "lapsed"]
  /\ expiries' = [expiries EXCEPT ![a] = @ + 1]
  /\ lapses' = IF Attended(a) THEN lapses + 1 ELSE lapses
  /\ lapses' <= MaxLapses
  /\ UNCHANGED <<status, target, decision, owner, known, runs, worker, faults>>

\* Another process is there, or is started in place of the lost one.
Replaced(w) == \E v \in Workers \ {w} : pc[v] # "dead" /\ v \notin stopping

Crash(w) ==
  /\ pc[w] # "dead" /\ Replaced(w)
  /\ Goto(w, "dead")
  /\ cur' = [cur EXCEPT ![w] = NoAction]
  /\ stopping' = stopping \ {w}
  /\ UNCHANGED <<status, target, decision, claim, known, runs, faults>>

Shutdown(w) ==
  /\ pc[w] \in Busy /\ w \notin stopping /\ Replaced(w)
  /\ stopping' = stopping \cup {w}
  /\ UNCHANGED <<status, target, decision, claim, known, runs, pc, cur, faults>>
-------------------------------------------------------------------------------
Proceed(w) == Prepare(w) \/ Send(w) \/ Return(w) \/ Complete(w) \/ Fail(w)

Next ==
  \/ \E u \in Users, a \in Actions :
       \/ \E h \in Hosts : Request(u, a, h)
       \/ Approve(u, a) \/ Reject(u, a)
  \/ \E h \in Hosts : DeleteHost(h)
  \/ \E w \in Workers, a \in Actions : Claim(w, a)
  \/ \E w \in Workers : Proceed(w) \/ Dial(w) \/ Crash(w) \/ Shutdown(w)
  \/ \E a \in Actions : LeaseLapses(a)

Spec == Init /\ [][Next]_vars

(***************************************************************************)
(* Fairness: the goroutine of Run that is not lost keeps running, a        *)
(* session is cut at the latest by the timeout, time passes, and (Answers) *)
(* SSH handshakes end.                                                     *)
(***************************************************************************)
FairSpec ==
  /\ Spec
  /\ \A w \in Workers : WF_vars(Proceed(w))
  /\ \A w \in Workers, a \in Actions : WF_vars(Claim(w, a) /\ UNCHANGED faults)
  /\ \A a \in Actions : WF_vars(LeaseLapses(a))

Answers == \A w \in Workers : WF_vars(Dial(w))
AnsweringSpec == FairSpec /\ Answers
-------------------------------------------------------------------------------
(***************************************************************************)
(* Properties.                                                             *)
(***************************************************************************)

\* README.md: nothing reaches the host until a second administrator approves, and
\* nothing that was rejected ever does, in whatever order decisions and claims race.
TwoPersonControl ==
  \A a \in Actions : runs[a] > 0 =>
    /\ approver[a] # NoUser /\ rejecter[a] = NoUser
    /\ approver[a] # requester[a] \/ AllowSelfApproval

\* An action is decided once: a rejection is terminal, was not preceded by an
\* approval, and no worker is named in the row (response_actions_rejected_terminal).
RejectionTerminal ==
  \A a \in Actions : rejecter[a] # NoUser =>
    /\ status[a] \in {"rejected", "deleted"}
    /\ approver[a] = NoUser /\ owner[a] = NoWorker

\* A command is sent again only after a lease has run out: each further run of a
\* root command is paid for by a worker that was lost or late.
RerunsPaidFor == \A a \in Actions : runs[a] <= 1 + expiries[a]

\* As long as no lease runs out under a living worker, no two workers are at the
\* same action at once, though crashes and lost answers bring it back.
OneWorkerPerAction ==
  lapses = 0 =>
    \A v, w \in Workers :
      pc[v] \in Busy /\ pc[w] \in Busy /\ cur[v] = cur[w]
      /\ status[cur[v]] # "deleted" => v = w

\* An action reported as succeeded has had its command run, by whichever worker.
SuccessWasRun == \A a \in Actions : status[a] = "succeeded" => runs[a] > 0

\* The outcome in the row is the outcome its present worker has seen: a worker whose
\* claim was taken over reports nothing.
OwnOutcome ==
  [][\A a \in Actions :
       status[a] = "running" /\ status'[a] \in {"succeeded", "failed"} =>
         LET from == IF status'[a] = "succeeded" THEN "completing" ELSE "failing"
         IN pc[owner[a]] = from /\ cur[owner[a]] = a]_vars

\* An approved action is run or given up in the end, or disappears with its host.
ApprovedActionSettles ==
  \A a \in Actions :
    status[a] \in {"approved", "running"} ~> status[a] \in {"succeeded", "failed", "deleted"}
===============================================================================
