-------------------------- MODULE ExportOutboxProofs --------------------------
(***************************************************************************)
(* Proofs about ExportOutbox for any targets, observations, workers and    *)
(* bounds.                                                                 *)
(***************************************************************************)
EXTENDS ExportOutbox, TLAPS

USE OutboxAssumption

(***************************************************************************)
(* Type correctness, with what reading an observation needs: a worker in   *)
(* runOne has a delivery in hand.                                          *)
(***************************************************************************)
InHand == \A w \in Workers : pc[w] \in Busy <=> cur[w] # NoDelivery

TypeInv == TypeOK /\ InHand

\* Every action keeps the types, and takes a delivery in hand when it enters runOne.
LEMMA TypeInvariant == Spec => []TypeInv
<1>1. Init => TypeInv
  BY DEF Init, TypeInv, InHand, TypeOK, Status, PC, Busy
<1>2. TypeInv /\ [Next]_vars => TypeInv'
  <2> SUFFICES ASSUME TypeInv, [Next]_vars PROVE TypeInv'
    OBVIOUS
  <2> USE DEF TypeInv, InHand, TypeOK, Status, PC, Busy, rows, claim, worker, bounds
  <2>1. ASSUME NEW o \in Observations, Upsert(o) PROVE TypeInv'
    BY <2>1 DEF Upsert, Versions
  <2>2. ASSUME NEW o \in Observations, DropObservation(o) PROVE TypeInv'
    <3>1. TypeOK'
      BY <2>2 DEF DropObservation, Cascade
    <3>2. InHand'
      BY <2>2 DEF DropObservation
    <3>3. QED
      BY <3>1, <3>2
  <2>3. ASSUME NEW t \in Targets, DeleteTarget(t) PROVE TypeInv'
    BY <2>3 DEF DeleteTarget, Cascade
  <2>4. ASSUME NEW t \in Targets, NEW to \in {"enabled", "disabled"}, SetEnabled(t, to)
        PROVE  TypeInv'
    BY <2>4 DEF SetEnabled
  <2>5. ASSUME NEW d \in Deliveries, Redrive(d) \/ BackoffEnds(d) PROVE TypeInv'
    <3>1. /\ due' = [due EXCEPT ![d] = TRUE]
          /\ status' \in {status, [status EXCEPT ![d] = "queued"]}
          /\ attempts' \in {attempts, [attempts EXCEPT ![d] = 0]}
          /\ redrives' \in {redrives, redrives + 1}
          /\ UNCHANGED <<rows, owner, lease, first, worker, lapses, faults>>
      BY <2>5 DEF Redrive, BackoffEnds
    <3>2. /\ due' \in [Deliveries -> BOOLEAN]
          /\ status' \in [Deliveries -> Status]
          /\ attempts' \in [Deliveries -> Nat]
      BY <3>1
    <3>3. QED
      BY <3>1, <3>2
  <2>6. ASSUME NEW d \in Deliveries, LeaseLapses(d) PROVE TypeInv'
    <3>1. lapses' \in Nat
      BY <2>6 DEF LeaseLapses
    <3>2. QED
      BY <2>6, <3>1 DEF LeaseLapses
  <2>7. ASSUME NEW w \in Workers, NEW d \in Deliveries, Claim(w, d) PROVE TypeInv'
    BY <2>7 DEF Claim, Claimable, Goto, DatabaseFails
  <2>8. ASSUME NEW w \in Workers, FindTarget(w) PROVE TypeInv'
    BY <2>8 DEF FindTarget, StoreWorks, StoreFails, DatabaseFails, Goto
  <2>9. ASSUME NEW w \in Workers, ReadObservation(w) PROVE TypeInv'
    <3>1. PICK there \in {"sending", "unusable"} :
            /\ pc[w] = "found" /\ Goto(w, there)
            /\ UNCHANGED <<rows, status, claim, first, cur, att, stopping, redrives, lapses>>
      BY <2>9 DEF ReadObservation
    <3>2. version[cur[w].observation] \in 0..MaxVersions
      BY <3>1 DEF Deliveries
    <3>3. payload' \in [Workers -> 0..MaxVersions]
      BY <2>9, <3>2 DEF ReadObservation
    <3>4. faults' \in Nat
      BY <2>9 DEF ReadObservation, StoreWorks, StoreFails, DatabaseFails
    <3>5. QED
      BY <3>1, <3>3, <3>4 DEF Goto
  <2>10. ASSUME NEW w \in Workers, Send(w) PROVE TypeInv'
    BY <2>10 DEF Send, Accept, Goto
  <2>11. ASSUME NEW w \in Workers, Complete(w) PROVE TypeInv'
    BY <2>11 DEF Complete, StoreWorks, StoreFails, DatabaseFails, Release, Leave, Goto
  <2>12. ASSUME NEW w \in Workers, Fail(w) PROVE TypeInv'
    <3>1. /\ status' \in [Deliveries -> Status]
          /\ owner' \in [Deliveries -> Workers \cup {NoWorker}]
          /\ lease' \in [Deliveries -> {"none", "held", "lapsed"}]
          /\ due' \in [Deliveries -> BOOLEAN]
          /\ faults' \in Nat
      <4>1. faults' \in Nat
        BY <2>12 DEF Fail, StoreWorks, StoreFails, DatabaseFails
      <4>2. CASE UNCHANGED <<status, owner, lease, due>>
        BY <4>1, <4>2
      <4>3. CASE /\ status' \in {[status EXCEPT ![cur[w]] = "dead"],
                                 [status EXCEPT ![cur[w]] = "queued"]}
                 /\ due' = [due EXCEPT ![cur[w]] = FALSE]
                 /\ Release(cur[w])
        <5>1. cur[w] \in Deliveries
          BY <2>12 DEF Fail
        <5>2. /\ status' \in [Deliveries -> Status]
              /\ owner' \in [Deliveries -> Workers \cup {NoWorker}]
              /\ lease' \in [Deliveries -> {"none", "held", "lapsed"}]
          BY <4>3, <5>1 DEF Release
        <5>3. due' \in [Deliveries -> BOOLEAN]
          BY <4>3, <5>1
        <5>4. QED
          BY <4>1, <5>2, <5>3
      <4>4. QED
        BY <2>12, <4>2, <4>3 DEF Fail
    <3>2. QED
      BY <2>12, <3>1 DEF Fail, Leave, Goto
  <2>13. ASSUME NEW w \in Workers, Crash(w) \/ Shutdown(w) PROVE TypeInv'
    BY <2>13 DEF Crash, Shutdown, Goto
  <2>14. CASE UNCHANGED vars
    BY <2>14 DEF vars
  <2>15. QED
    BY <2>1, <2>2, <2>3, <2>4, <2>5, <2>6, <2>7, <2>8, <2>9, <2>10, <2>11, <2>12, <2>13, <2>14
       DEF Next, Proceed
<1>3. QED
  BY <1>1, <1>2, PTL DEF Spec

\* Type correctness: claims, reports, retries and cascades keep the types of the rows
\* and of what the workers hold.
THEOREM TypeCorrect == Spec => []TypeOK
<1>1. TypeInv => TypeOK
  BY DEF TypeInv
<1>2. QED
  BY <1>1, TypeInvariant, PTL
-------------------------------------------------------------------------------
(***************************************************************************)
(* The count of attempts.  Rows exist only for versions that were written, *)
(* and before that nothing was attempted; a worker that owns its delivery  *)
(* has the row's count in its copy, because whoever reclaims the delivery  *)
(* becomes its owner.                                                      *)
(***************************************************************************)
RowInv ==
  \A d \in Deliveries :
    /\ version[d.observation] < d.version =>
         attempts[d] = 0 /\ status[d] \in {"absent", "deleted"}
    /\ status[d] = "queued" => attempts[d] < MaxAttempts

CopyInv ==
  \A w \in Workers : pc[w] \in Busy =>
    /\ cur[w].version <= version[cur[w].observation]
    /\ Owns(w) => att[w] = attempts[cur[w]]

\* A row is written for a version that its observation did not have before.
LEMMA NewRows ==
  ASSUME TypeInv, RowInv, NEW o \in Observations, Upsert(o), NEW d \in Deliveries
  PROVE  /\ status'[d] = status[d] \/ (status'[d] = "queued" /\ attempts[d] = 0)
         /\ version'[d.observation] < d.version =>
              version[d.observation] < d.version /\ status'[d] = status[d]
         /\ d.version <= version[d.observation] =>
              d.version <= version'[d.observation] /\ status'[d] = status[d]
<1>1. /\ d.observation \in Observations /\ d.version \in Nat
      /\ version[d.observation] \in Nat /\ version[o] \in Nat
  BY DEF Deliveries, Versions, TypeInv, TypeOK
<1>2. version' = [version EXCEPT ![o] = @ + 1]
  BY DEF Upsert
<1>3. \/ d.observation = o /\ d.version = version[o] + 1 /\ status'[d] = "queued"
      \/ status'[d] = status[d] /\ ~(d.observation = o /\ d.version = version[o] + 1
                                      /\ target[d.target] = "enabled")
  BY DEF Upsert
<1>4. CASE d.observation = o /\ d.version = version[o] + 1 /\ status'[d] = "queued"
  BY <1>1, <1>2, <1>4 DEF RowInv, TypeInv, TypeOK
<1>5. CASE status'[d] = status[d]
  BY <1>1, <1>2, <1>5 DEF TypeInv, TypeOK
<1>6. QED
  BY <1>3, <1>4, <1>5

LEMMA AttemptInvariant == Spec => [](RowInv /\ CopyInv)
<1>1. Init => RowInv /\ CopyInv
  BY DEF Init, RowInv, CopyInv, Busy
<1>2. TypeInv /\ RowInv /\ CopyInv /\ [Next]_vars => (RowInv /\ CopyInv)'
  <2> SUFFICES ASSUME TypeInv, RowInv, CopyInv, [Next]_vars PROVE RowInv' /\ CopyInv'
    OBVIOUS
  <2>1. ASSUME NEW o \in Observations, Upsert(o) PROVE RowInv' /\ CopyInv'
    <3>1. /\ \A d \in Deliveries : attempts'[d] = attempts[d] /\ owner'[d] = owner[d]
          /\ \A w \in Workers : pc'[w] = pc[w] /\ cur'[w] = cur[w] /\ att'[w] = att[w]
      BY <2>1 DEF Upsert, worker
    <3>2. ASSUME NEW d \in Deliveries
          PROVE  /\ version'[d.observation] < d.version =>
                      attempts'[d] = 0 /\ status'[d] \in {"absent", "deleted"}
                 /\ status'[d] = "queued" => attempts'[d] < MaxAttempts
      <4>1. attempts[d] = 0 => attempts[d] < MaxAttempts
        OBVIOUS
      <4>2. QED
        BY <2>1, <3>1, <4>1, NewRows DEF RowInv
    <3>3. ASSUME NEW w \in Workers, pc'[w] \in Busy
          PROVE  /\ cur'[w].version <= version'[cur'[w].observation]
                 /\ Owns(w)' => att'[w] = attempts'[cur'[w]]
      <4>1. cur[w] \in Deliveries /\ cur[w].version <= version[cur[w].observation]
        BY <3>1, <3>3 DEF CopyInv, TypeInv, InHand, TypeOK
      <4>2. /\ cur[w].version <= version'[cur[w].observation]
            /\ status'[cur[w]] = status[cur[w]]
        BY <2>1, <4>1, NewRows
      <4>3. QED
        BY <3>1, <3>3, <4>1, <4>2 DEF CopyInv, Owns
    <3>4. QED
      BY <3>2, <3>3 DEF RowInv, CopyInv
  <2> USE DEF TypeInv, InHand, TypeOK, Busy, Owns, rows, claim, worker, bounds
  <2>2. ASSUME NEW gone \in SUBSET Deliveries, Cascade(gone),
               UNCHANGED <<version, attempts, worker>>
        PROVE  RowInv' /\ CopyInv'
    BY <2>2 DEF RowInv, CopyInv, Cascade
  <2>3. ASSUME NEW d \in Deliveries, Redrive(d) PROVE RowInv' /\ CopyInv'
    BY <2>3 DEF RowInv, CopyInv, Redrive
  <2>4. ASSUME NEW w \in Workers, NEW d \in Deliveries, Claim(w, d)
        PROVE  RowInv' /\ CopyInv'
    <3>1. RowInv'
      BY <2>4 DEF RowInv, Claim, Claimable
    <3>2. CopyInv'
      <4>1. d.version <= version[d.observation]
        BY <2>4 DEF RowInv, Claim, Claimable, Deliveries, Versions
      <4>2. ASSUME NEW v \in Workers, pc'[v] = pc[v], cur'[v] = cur[v], att'[v] = att[v],
                   pc[v] \in Busy, Owns(v)'
            PROVE  Owns(v) /\ attempts'[cur[v]] = attempts[cur[v]]
        BY <2>4, <4>2 DEF Claim
      <4>3. ASSUME NEW v \in Workers, pc'[v] = pc[v], cur'[v] = cur[v], att'[v] = att[v],
                   pc[v] \in Busy
            PROVE  /\ cur[v].version <= version'[cur[v].observation]
                   /\ Owns(v)' => att[v] = attempts'[cur[v]]
        BY <2>4, <4>2, <4>3 DEF CopyInv, Claim
      <4>4. QED
        BY <2>4, <4>1, <4>3 DEF CopyInv, Claim, Goto
    <3>3. QED
      BY <3>1, <3>2
  <2>5. ASSUME NEW w \in Workers, FindTarget(w) \/ ReadObservation(w) \/ Send(w)
        PROVE  RowInv' /\ CopyInv'
    BY <2>5 DEF RowInv, CopyInv, FindTarget, ReadObservation, Send, Goto
  <2>6. ASSUME NEW w \in Workers, Complete(w) PROVE RowInv' /\ CopyInv'
    <3>1. RowInv'
      <4>1. CASE status' = [status EXCEPT ![cur[w]] = "sent"] /\ Owns(w)
        BY <2>6, <4>1 DEF RowInv, Complete
      <4>2. CASE UNCHANGED status
        BY <2>6, <4>2 DEF RowInv, Complete
      <4>3. QED
        BY <2>6, <4>1, <4>2 DEF Complete, StoreWorks
    <3>2. CopyInv'
      BY <2>6 DEF CopyInv, Complete, Release, Leave, Goto
    <3>3. QED
      BY <3>1, <3>2
  <2>7. ASSUME NEW w \in Workers, Fail(w) PROVE RowInv' /\ CopyInv'
    <3>1. RowInv'
      <4>1. CASE Owns(w) /\ ~Terminal(w)
        <5>1. attempts[cur[w]] < MaxAttempts
          BY <2>7, <4>1 DEF CopyInv, Fail, Terminal
        <5>2. QED
          BY <2>7, <4>1, <5>1 DEF RowInv, Fail
      <4>2. CASE Owns(w) /\ Terminal(w)
        BY <2>7, <4>2 DEF RowInv, Fail
      <4>3. CASE ~Owns(w)
        BY <2>7, <4>3 DEF RowInv, Fail, StoreWorks
      <4>4. QED
        BY <4>1, <4>2, <4>3
    <3>2. CopyInv'
      <4>1. CASE UNCHANGED <<status, owner>>
        BY <2>7, <4>1 DEF CopyInv, Fail, Leave, Goto
      <4>2. CASE Owns(w) /\ Release(cur[w]) /\ UNCHANGED faults
        BY <2>7, <4>2 DEF CopyInv, Fail, Release, Leave, Goto
      <4>3. QED
        BY <2>7, <4>1, <4>2 DEF Fail, StoreWorks
    <3>3. QED
      BY <3>1, <3>2
  <2>8. ASSUME NEW w \in Workers, Crash(w) \/ Shutdown(w) PROVE RowInv' /\ CopyInv'
    BY <2>8 DEF RowInv, CopyInv, Crash, Shutdown, Goto
  <2>9. CASE \/ \E t \in Targets, to \in {"enabled", "disabled"} : SetEnabled(t, to)
             \/ \E d \in Deliveries : BackoffEnds(d) \/ LeaseLapses(d)
             \/ UNCHANGED vars
    BY <2>9 DEF RowInv, CopyInv, SetEnabled, BackoffEnds, LeaseLapses, vars
  <2>10. QED
    BY <2>1, <2>2, <2>3, <2>4, <2>5, <2>6, <2>7, <2>8, <2>9
       DEF Next, Proceed, DropObservation, DeleteTarget
<1>3. QED
  BY <1>1, <1>2, TypeInvariant, PTL DEF Spec

\* A retry is only scheduled while attempts are left, although the decision is taken
\* from a worker's copy of the count.
THEOREM BudgetKept == Spec => []RetryBudget
<1>1. RowInv => RetryBudget
  BY DEF RowInv, RetryBudget
<1>2. QED
  BY <1>1, AttemptInvariant, PTL

\* What becomes of a delivery is what its present worker has seen in its latest attempt.
THEOREM OutcomeIsOwn == Spec => OwnOutcome
<1> DEFINE Right(d) ==
      status[d] = "delivering" /\ status'[d] \in {"queued", "sent", "dead"} =>
        LET w == owner[d]
        IN /\ cur[w] = d /\ att[w] = attempts[d]
           /\ status'[d] = "sent" <=> pc[w] = "accepted"
           /\ status'[d] = "dead" =>
                pc[w] \in {"refused", "unusable"} \/ attempts[d] >= MaxAttempts
<1>1. TypeInv /\ RowInv /\ CopyInv /\ [Next]_vars => [\A d \in Deliveries : Right(d)]_vars
  <2> SUFFICES ASSUME TypeInv, RowInv, CopyInv, Next, NEW d \in Deliveries,
                      status[d] = "delivering", status'[d] \in {"queued", "sent", "dead"}
               PROVE  LET w == owner[d]
                      IN /\ cur[w] = d /\ att[w] = attempts[d]
                         /\ status'[d] = "sent" <=> pc[w] = "accepted"
                         /\ status'[d] = "dead" =>
                              pc[w] \in {"refused", "unusable"} \/ attempts[d] >= MaxAttempts
    OBVIOUS
  <2>1. ~\E o \in Observations : Upsert(o)
    <3>1. d.version <= version[d.observation]
      BY DEF RowInv, TypeInv, TypeOK, Deliveries, Versions
    <3>2. QED
      BY <3>1, NewRows
  <2>2. PICK w \in Workers : Complete(w) \/ Fail(w)
    BY <2>1 DEF Next, Proceed, DropObservation, DeleteTarget, Cascade, SetEnabled, Redrive,
          BackoffEnds, LeaseLapses, Claim, FindTarget, ReadObservation, Send, Crash,
          Shutdown, TypeInv, TypeOK, rows
  <2>3. cur[w] = d /\ owner[d] = w /\ pc[w] \in Busy
    BY <2>2 DEF Complete, Fail, StoreWorks, Owns, TypeInv, TypeOK, Busy
  <2>4. att[w] = attempts[d]
    BY <2>3 DEF CopyInv, Owns
  <2>5. CASE Complete(w)
    BY <2>3, <2>4, <2>5 DEF Complete, TypeInv, TypeOK
  <2>6. CASE Fail(w)
    <3>1. status'[d] = IF Terminal(w) THEN "dead" ELSE "queued"
      BY <2>3, <2>6 DEF Fail, TypeInv, TypeOK
    <3>2. QED
      BY <2>3, <2>4, <2>6, <3>1 DEF Fail, Terminal
  <2>7. QED
    BY <2>2, <2>5, <2>6
<1>2. QED
  BY <1>1, TypeInvariant, AttemptInvariant, PTL DEF Spec, OwnOutcome
-------------------------------------------------------------------------------
(***************************************************************************)
(* What the targets have.  The version a worker reads is no older than the *)
(* one its delivery was written for, and a worker reports success to the   *)
(* outbox only after an HTTP target has accepted something under the key.  *)
(***************************************************************************)
PayloadInv ==
  /\ \A d \in Deliveries :
       /\ first[d] # 0 => first[d] >= d.version
       /\ status[d] = "sent" /\ d.target \notin Syslog => first[d] # 0
  /\ \A w \in Workers :
       /\ pc[w] = "sending" => payload[w] >= cur[w].version
       /\ pc[w] = "accepted" /\ cur[w].target \notin Syslog => first[cur[w]] # 0

LEMMA PayloadInvariant == Spec => []PayloadInv
<1>1. Init => PayloadInv
  BY DEF Init, PayloadInv
<1>2. TypeInv /\ RowInv /\ CopyInv /\ PayloadInv /\ [Next]_vars => PayloadInv'
  <2> SUFFICES ASSUME TypeInv, RowInv, CopyInv, PayloadInv, [Next]_vars PROVE PayloadInv'
    OBVIOUS
  <2>1. ASSUME NEW o \in Observations, Upsert(o) PROVE PayloadInv'
    <3>1. \A d \in Deliveries : status'[d] = "sent" => status[d] = "sent"
      BY <2>1, NewRows
    <3>2. UNCHANGED <<first, pc, cur, payload>>
      BY <2>1 DEF Upsert, worker
    <3>3. QED
      BY <3>1, <3>2 DEF PayloadInv
  <2> USE DEF TypeInv, InHand, TypeOK, Busy, rows, claim, worker, bounds
  <2>2. ASSUME NEW w \in Workers, ReadObservation(w) PROVE PayloadInv'
    <3>1. cur[w] \in Deliveries /\ cur[w].version <= version[cur[w].observation]
      BY <2>2 DEF CopyInv, ReadObservation
    <3>2. pc'[w] # "accepted"
      BY <2>2 DEF ReadObservation, Goto
    <3>3. pc'[w] = "sending" => payload'[w] >= cur[w].version
      BY <2>2, <3>1 DEF ReadObservation, Goto, Deliveries, Versions
    <3>4. \A v \in Workers \ {w} : pc'[v] = pc[v] /\ payload'[v] = payload[v]
      BY <2>2 DEF ReadObservation, Goto
    <3>5. UNCHANGED <<status, first, cur>>
      BY <2>2 DEF ReadObservation
    <3>6. QED
      BY <3>2, <3>3, <3>4, <3>5 DEF PayloadInv
  <2>3. ASSUME NEW w \in Workers, Send(w) PROVE PayloadInv'
    <3>1. cur[w] \in Deliveries /\ cur[w].version \in Nat \ {0}
      BY <2>3 DEF Send, Deliveries, Versions
    <3>2. payload[w] >= cur[w].version /\ payload[w] # 0
      BY <2>3, <3>1 DEF PayloadInv, Send
    <3>3. \A d \in Deliveries :
            first'[d] = first[d] \/ (d = cur[w] /\ first[d] = 0 /\ first'[d] = payload[w])
      BY <2>3, <3>1 DEF Send, Accept
    <3>4. pc'[w] = "accepted" /\ cur[w].target \notin Syslog => first'[cur[w]] # 0
      BY <2>3, <3>1, <3>2 DEF Send, Accept, Goto
    <3>5. /\ pc'[w] # "sending"
          /\ \A v \in Workers \ {w} : pc'[v] = pc[v]
          /\ UNCHANGED <<status, cur, payload>>
      BY <2>3 DEF Send, Goto
    <3>6. QED
      BY <3>1, <3>2, <3>3, <3>4, <3>5 DEF PayloadInv
  <2>4. ASSUME NEW w \in Workers, Complete(w) PROVE PayloadInv'
    BY <2>4 DEF PayloadInv, Complete, Leave, Goto
  <2>5. ASSUME NEW w \in Workers, Fail(w) PROVE PayloadInv'
    <3>1. \A d \in Deliveries : status'[d] = "sent" => status[d] = "sent"
      BY <2>5 DEF Fail
    <3>2. QED
      BY <2>5, <3>1 DEF PayloadInv, Fail, Leave, Goto
  <2>6. ASSUME NEW w \in Workers, NEW d \in Deliveries, Claim(w, d) PROVE PayloadInv'
    BY <2>6 DEF PayloadInv, Claim, Goto
  <2>7. ASSUME NEW w \in Workers, FindTarget(w) \/ Crash(w) \/ Shutdown(w)
        PROVE  PayloadInv'
    BY <2>7 DEF PayloadInv, FindTarget, Crash, Shutdown, Goto
  <2>8. ASSUME NEW gone \in SUBSET Deliveries, Cascade(gone), UNCHANGED <<first, worker>>
        PROVE  PayloadInv'
    BY <2>8 DEF PayloadInv, Cascade
  <2>9. CASE \/ \E t \in Targets, to \in {"enabled", "disabled"} : SetEnabled(t, to)
             \/ \E d \in Deliveries : Redrive(d) \/ BackoffEnds(d) \/ LeaseLapses(d)
             \/ UNCHANGED vars
    BY <2>9 DEF PayloadInv, SetEnabled, Redrive, BackoffEnds, LeaseLapses, vars
  <2>10. QED
    BY <2>1, <2>2, <2>3, <2>4, <2>5, <2>6, <2>7, <2>8, <2>9
       DEF Next, Proceed, DropObservation, DeleteTarget
<1>3. QED
  BY <1>1, <1>2, TypeInvariant, AttemptInvariant, PTL DEF Spec

\* A delivery marked sent to an HTTP target has reached it, and what the target got
\* first under the key is no older than the upsert the delivery was written for.
THEOREM NothingMissed == Spec => []SentIsCurrent
<1>1. PayloadInv => SentIsCurrent
  BY DEF PayloadInv, SentIsCurrent
<1>2. QED
  BY <1>1, PayloadInvariant, PTL
-------------------------------------------------------------------------------
(***************************************************************************)
(* Exclusion.  While no lease has run out under a living worker, a worker  *)
(* owns the delivery in its hands unless the row was deleted, and a lease  *)
(* that has run out is nobody's.                                           *)
(***************************************************************************)
OwnedInv ==
  lapses = 0 =>
    /\ \A w \in Workers : pc[w] \in Busy => Owns(w) \/ status[cur[w]] = "deleted"
    /\ \A d \in Deliveries : lease[d] = "lapsed" => ~Attended(d)

LEMMA OwnedInvariant == Spec => []OwnedInv
<1>1. Init => OwnedInv
  BY DEF Init, OwnedInv, Busy
<1>2. TypeInv /\ RowInv /\ CopyInv /\ OwnedInv /\ [Next]_vars => OwnedInv'
  <2> SUFFICES ASSUME TypeInv, RowInv, CopyInv, OwnedInv, [Next]_vars PROVE OwnedInv'
    OBVIOUS
  <2>1. ASSUME NEW o \in Observations, Upsert(o) PROVE OwnedInv'
    <3>1. UNCHANGED <<owner, lease, pc, cur, lapses>>
      BY <2>1 DEF Upsert, worker, bounds
    <3>2. ASSUME NEW w \in Workers, pc[w] \in Busy PROVE status'[cur[w]] = status[cur[w]]
      BY <2>1, <3>2, NewRows DEF TypeInv, InHand, TypeOK, CopyInv
    <3>3. QED
      BY <3>1, <3>2 DEF OwnedInv, Attended, Owns
  <2> USE DEF TypeInv, InHand, TypeOK, Busy, OwnedInv, Attended, Owns, rows, claim, worker,
              bounds
  <2>2. ASSUME NEW w \in Workers, NEW d \in Deliveries, Claim(w, d) PROVE OwnedInv'
    <3>1. SUFFICES ASSUME lapses = 0 PROVE OwnedInv'
      BY <2>2 DEF Claim
    <3>2. \A v \in Workers : pc[v] \in Busy => cur[v] # d
      BY <2>2, <3>1 DEF Claim, Claimable
    <3>3. ASSUME NEW v \in Workers, pc[v] \in Busy
          PROVE  /\ pc'[v] = pc[v] /\ cur'[v] = cur[v]
                 /\ status'[cur[v]] = status[cur[v]] /\ owner'[cur[v]] = owner[cur[v]]
      BY <2>2, <3>2, <3>3 DEF Claim, Goto
    <3>4. ASSUME NEW v \in Workers, pc[v] \notin Busy, pc'[v] \in Busy
          PROVE  v = w /\ cur'[v] = d /\ Owns(v)'
      BY <2>2, <3>4 DEF Claim, Goto
    <3>5. /\ lease' = [lease EXCEPT ![d] = "held"]
          /\ \A e \in Deliveries \ {d} : status'[e] = status[e] /\ owner'[e] = owner[e]
      BY <2>2 DEF Claim
    <3>6. QED
      BY <3>1, <3>3, <3>4, <3>5
  <2>3. ASSUME NEW w \in Workers, FindTarget(w) \/ ReadObservation(w) \/ Send(w)
        PROVE  OwnedInv'
    BY <2>3 DEF FindTarget, ReadObservation, Send, Goto
  <2>4. ASSUME NEW w \in Workers, Complete(w) \/ Fail(w) PROVE OwnedInv'
    <3>1. \/ UNCHANGED <<status, owner, lease>>
          \/ /\ Owns(w) /\ Release(cur[w])
             /\ \E to \in Status : status' = [status EXCEPT ![cur[w]] = to]
      BY <2>4 DEF Complete, Fail, StoreWorks, Status
    <3>2. Leave(w) /\ UNCHANGED lapses
      BY <2>4 DEF Complete, Fail
    <3>3. CASE UNCHANGED <<status, owner, lease>>
      BY <3>2, <3>3 DEF Leave, Goto
    <3>4. CASE /\ Owns(w) /\ Release(cur[w])
               /\ \E to \in Status : status' = [status EXCEPT ![cur[w]] = to]
      BY <3>2, <3>4 DEF Leave, Goto, Release
    <3>5. QED
      BY <3>1, <3>3, <3>4
  <2>5. ASSUME NEW w \in Workers, Crash(w) \/ Shutdown(w) PROVE OwnedInv'
    BY <2>5 DEF Crash, Shutdown, Goto
  <2>6. ASSUME NEW gone \in SUBSET Deliveries, Cascade(gone), UNCHANGED <<worker, lapses>>
        PROVE  OwnedInv'
    BY <2>6 DEF Cascade
  <2>7. ASSUME NEW d \in Deliveries, Redrive(d) PROVE OwnedInv'
    BY <2>7 DEF Redrive
  <2>8. ASSUME NEW d \in Deliveries, LeaseLapses(d) PROVE OwnedInv'
    BY <2>8 DEF LeaseLapses
  <2>9. CASE \/ \E t \in Targets, to \in {"enabled", "disabled"} : SetEnabled(t, to)
             \/ \E d \in Deliveries : BackoffEnds(d)
             \/ UNCHANGED vars
    BY <2>9 DEF SetEnabled, BackoffEnds, vars
  <2>10. QED
    BY <2>1, <2>2, <2>3, <2>4, <2>5, <2>6, <2>7, <2>8, <2>9
       DEF Next, Proceed, DropObservation, DeleteTarget
<1>3. QED
  BY <1>1, <1>2, TypeInvariant, AttemptInvariant, PTL DEF Spec

\* No delivery is in the hands of two workers while no lease runs out under a living one.
THEOREM Exclusive == Spec => []ExclusiveDelivery
<1>1. OwnedInv => ExclusiveDelivery
  BY DEF OwnedInv, ExclusiveDelivery, Owns
<1>2. QED
  BY <1>1, OwnedInvariant, PTL
===============================================================================
