------------------------ MODULE ResponseActionsProofs ------------------------
(***************************************************************************)
(* Proofs about ResponseActions for any hosts, actions, administrators,    *)
(* workers and bounds, with and without self-approval.                     *)
(***************************************************************************)
EXTENDS ResponseActions, TLAPS, FiniteSetTheorems

USE ResponseAssumption

\* A busy worker has the action of its claim, any other none.
BusyWorkersHaveActions ==
  \A w \in Workers :
    /\ pc[w] \in Busy => cur[w] \in Actions
    /\ pc[w] \notin Busy => cur[w] = NoAction

TypeInv == TypeOK /\ BusyWorkersHaveActions

LEMMA TypeInvariant == Spec => []TypeInv
<1>1. Init => TypeInv
  BY DEF Init, TypeInv, TypeOK, BusyWorkersHaveActions, Status, PC, Busy
<1>2. TypeInv /\ [Next]_vars => TypeInv'
  <2> SUFFICES ASSUME TypeInv, [Next]_vars PROVE TypeInv'
    OBVIOUS
  <2> USE DEF TypeInv, TypeOK, BusyWorkersHaveActions, Status, PC, Busy, Goto,
              decision, claim, worker, DatabaseFails
  <2>1. ASSUME NEW u \in Users, NEW a \in Actions, NEW h \in Hosts, Request(u, a, h)
        PROVE  TypeInv'
    BY <2>1 DEF Request
  <2>2. ASSUME NEW u \in Users, NEW a \in Actions, Approve(u, a) \/ Reject(u, a)
        PROVE  TypeInv'
    BY <2>2 DEF Approve, Reject
  <2>3. ASSUME NEW h \in Hosts, DeleteHost(h) PROVE TypeInv'
    BY <2>3 DEF DeleteHost
  <2>4. ASSUME NEW w \in Workers, NEW a \in Actions, Claim(w, a) PROVE TypeInv'
    BY <2>4 DEF Claim
  <2>5. ASSUME NEW w \in Workers, Prepare(w) PROVE TypeInv'
    BY <2>5 DEF Prepare, StoreWorks, StoreFails
  <2>6. ASSUME NEW w \in Workers, Dial(w) \/ Send(w) \/ Return(w) PROVE TypeInv'
    BY <2>6 DEF Dial, Send, Return
  <2>7. ASSUME NEW w \in Workers, Complete(w) \/ Fail(w) PROVE TypeInv'
    <3>1. faults' \in Nat /\ stopping' \in SUBSET Workers
      BY <2>7 DEF Complete, Fail, Report, StoreWorks, StoreFails, Leave
    <3>2. /\ status' \in [Actions -> Status]
          /\ owner' \in [Actions -> Workers \cup {NoWorker}]
          /\ lease' \in [Actions -> {"none", "held", "lapsed"}]
      BY <2>7 DEF Complete, Fail, Report, Settle
    <3>3. pc' \in [Workers -> PC] /\ cur' \in [Workers -> Actions \cup {NoAction}]
          /\ BusyWorkersHaveActions'
      BY <2>7 DEF Complete, Fail, Report, Leave
    <3>4. QED
      BY <2>7, <3>1, <3>2, <3>3 DEF Complete, Fail, Report
  <2>8. ASSUME NEW w \in Workers, Crash(w) \/ Shutdown(w) PROVE TypeInv'
    BY <2>8 DEF Crash, Shutdown
  <2>9. ASSUME NEW a \in Actions, LeaseLapses(a) PROVE TypeInv'
    BY <2>9 DEF LeaseLapses
  <2>10. CASE UNCHANGED vars
    BY <2>10 DEF vars
  <2>11. QED
    BY <2>1, <2>2, <2>3, <2>4, <2>5, <2>6, <2>7, <2>8, <2>9, <2>10 DEF Next, Proceed
<1>3. QED
  BY <1>1, <1>2, PTL DEF Spec

\* Type correctness: every handler, claim and report keeps the types of the rows and of
\* what the workers hold.
THEOREM TypeCorrect == Spec => []TypeOK
  BY TypeInvariant, PTL DEF TypeInv
-------------------------------------------------------------------------------
(***************************************************************************)
(* Who decided what.  The approval of an action outlives its claims: a     *)
(* busy worker's action and one that was sent have an approver, even when  *)
(* the row is gone meanwhile.                                              *)
(***************************************************************************)
DecisionInv ==
  /\ \A a \in Actions :
       /\ status[a] \in {"absent", "pending"} =>
            approver[a] = NoUser /\ rejecter[a] = NoUser /\ owner[a] = NoWorker
       /\ status[a] \in {"approved", "running", "succeeded", "failed"} =>
            approver[a] # NoUser
       /\ approver[a] # NoUser =>
            rejecter[a] = NoUser /\ (approver[a] # requester[a] \/ AllowSelfApproval)
       /\ rejecter[a] # NoUser =>
            status[a] \in {"rejected", "deleted"} /\ owner[a] = NoWorker
       /\ runs[a] > 0 => approver[a] # NoUser
  /\ \A w \in Workers : pc[w] \in Busy => approver[cur[w]] # NoUser

LEMMA DecisionInvariant == Spec => []DecisionInv
<1>1. Init => DecisionInv
  BY DEF Init, DecisionInv, Busy
<1>2. TypeInv /\ DecisionInv /\ [Next]_vars => DecisionInv'
  <2> SUFFICES ASSUME TypeInv, DecisionInv, [Next]_vars PROVE DecisionInv'
    OBVIOUS
  <2> USE DEF TypeInv, TypeOK, BusyWorkersHaveActions, DecisionInv, Status, PC, Busy,
              Goto, decision, claim, worker
  <2>1. ASSUME NEW u \in Users, NEW a \in Actions, NEW h \in Hosts, Request(u, a, h)
        PROVE  DecisionInv'
    BY <2>1 DEF Request
  <2>2. ASSUME NEW u \in Users, NEW a \in Actions, Approve(u, a) PROVE DecisionInv'
    BY <2>2 DEF Approve
  <2>3. ASSUME NEW u \in Users, NEW a \in Actions, Reject(u, a) PROVE DecisionInv'
    BY <2>3 DEF Reject
  <2>4. ASSUME NEW h \in Hosts, DeleteHost(h) PROVE DecisionInv'
    BY <2>4 DEF DeleteHost
  <2>5. ASSUME NEW w \in Workers, NEW a \in Actions, Claim(w, a) PROVE DecisionInv'
    BY <2>5 DEF Claim, Claimable
  <2>6. ASSUME NEW w \in Workers, Prepare(w) \/ Dial(w) \/ Return(w) PROVE DecisionInv'
    BY <2>6 DEF Prepare, Dial, Return
  <2>7. ASSUME NEW w \in Workers, Send(w) PROVE DecisionInv'
    BY <2>7 DEF Send
  <2>8. ASSUME NEW w \in Workers, Complete(w) \/ Fail(w) PROVE DecisionInv'
    <3>1. \A v \in Workers : pc'[v] \in Busy => pc[v] \in Busy /\ cur'[v] = cur[v]
      BY <2>8 DEF Complete, Fail, Report, Leave
    <3>2. UNCHANGED <<requester, approver, rejecter, runs>>
      BY <2>8 DEF Complete, Fail, Report
    <3>3. \A a \in Actions :
            \/ status'[a] = status[a] /\ owner'[a] = owner[a]
            \/ /\ status[a] = "running" /\ status'[a] \in {"succeeded", "failed"}
               /\ owner'[a] = NoWorker
      BY <2>8 DEF Complete, Fail, Report, Settle, StoreWorks, Owns
    <3>4. QED
      BY <3>1, <3>2, <3>3
  <2>9. ASSUME NEW w \in Workers, Crash(w) \/ Shutdown(w) PROVE DecisionInv'
    BY <2>9 DEF Crash, Shutdown
  <2>10. ASSUME NEW a \in Actions, LeaseLapses(a) PROVE DecisionInv'
    BY <2>10 DEF LeaseLapses
  <2>11. CASE UNCHANGED vars
    BY <2>11 DEF vars
  <2>12. QED
    BY <2>1, <2>2, <2>3, <2>4, <2>5, <2>6, <2>7, <2>8, <2>9, <2>10, <2>11
       DEF Next, Proceed
<1>3. QED
  BY <1>1, <1>2, TypeInvariant, PTL DEF Spec

\* Two-person control: no command reaches a host unless another administrator than the
\* one who requested it has approved it, and nobody has rejected it.
THEOREM TwoPersons == Spec => []TwoPersonControl
<1>1. DecisionInv => TwoPersonControl
  BY DEF DecisionInv, TwoPersonControl
<1>2. QED
  BY <1>1, DecisionInvariant, PTL

\* A rejection is terminal, and excludes an approval and a worker.
THEOREM RejectedForGood == Spec => []RejectionTerminal
<1>1. DecisionInv => RejectionTerminal
  BY DEF DecisionInv, RejectionTerminal
<1>2. QED
  BY <1>1, DecisionInvariant, PTL
-------------------------------------------------------------------------------
(***************************************************************************)
(* What has been sent.                                                     *)
(***************************************************************************)
SentInv ==
  /\ \A w \in Workers : pc[w] \in {"executing", "completing"} => runs[cur[w]] > 0
  /\ \A a \in Actions : status[a] = "succeeded" => runs[a] > 0

\* A succeeded action was sent to its host, by whichever worker.
THEOREM SuccessRan == Spec => []SuccessWasRun
<1>1. Init => SentInv
  BY DEF Init, SentInv
<1>2. TypeInv /\ SentInv /\ [Next]_vars => SentInv'
  <2> SUFFICES ASSUME TypeInv, SentInv, [Next]_vars PROVE SentInv'
    OBVIOUS
  <2> USE DEF TypeInv, TypeOK, BusyWorkersHaveActions, SentInv, PC, Busy, Goto,
              decision, claim, worker
  <2>1. ASSUME NEW u \in Users, NEW a \in Actions,
               (\E h \in Hosts : Request(u, a, h)) \/ Approve(u, a) \/ Reject(u, a)
        PROVE  SentInv'
    BY <2>1 DEF Request, Approve, Reject
  <2>2. ASSUME NEW h \in Hosts, DeleteHost(h) PROVE SentInv'
    BY <2>2 DEF DeleteHost
  <2>3. ASSUME NEW w \in Workers, NEW a \in Actions, Claim(w, a) PROVE SentInv'
    BY <2>3 DEF Claim
  <2>4. ASSUME NEW w \in Workers, Prepare(w) \/ Dial(w) \/ Return(w) PROVE SentInv'
    BY <2>4 DEF Prepare, Dial, Return
  <2>5. ASSUME NEW w \in Workers, Send(w) PROVE SentInv'
    BY <2>5 DEF Send
  <2>6. ASSUME NEW w \in Workers, Complete(w) \/ Fail(w) PROVE SentInv'
    <3>1. /\ runs' = runs
          /\ \A v \in Workers : pc'[v] \in Busy => pc'[v] = pc[v] /\ cur'[v] = cur[v]
      BY <2>6 DEF Complete, Fail, Report, Leave
    <3>2. \A a \in Actions :
            status'[a] = "succeeded" =>
              status[a] = "succeeded" \/ (pc[w] = "completing" /\ a = cur[w])
      BY <2>6 DEF Complete, Fail, Report, Settle
    <3>3. QED
      BY <3>1, <3>2
  <2>7. ASSUME NEW w \in Workers, Crash(w) \/ Shutdown(w) PROVE SentInv'
    BY <2>7 DEF Crash, Shutdown
  <2>8. ASSUME NEW a \in Actions, LeaseLapses(a) PROVE SentInv'
    BY <2>8 DEF LeaseLapses
  <2>9. CASE UNCHANGED vars
    BY <2>9 DEF vars
  <2>10. QED
    BY <2>1, <2>2, <2>3, <2>4, <2>5, <2>6, <2>7, <2>8, <2>9 DEF Next, Proceed
<1>3. SentInv => SuccessWasRun
  BY DEF SentInv, SuccessWasRun
<1>4. QED
  BY <1>1, <1>2, <1>3, TypeInvariant, PTL DEF Spec
-------------------------------------------------------------------------------
(***************************************************************************)
(* Exclusion.  While no lease has run out under a living worker, a busy    *)
(* worker is the owner in the row of its action, which is running and      *)
(* whose lease is held, unless the row was deleted.                        *)
(***************************************************************************)
HoldingInv ==
  lapses = 0 =>
    \A w \in Workers : pc[w] \in Busy =>
      \/ status[cur[w]] = "deleted"
      \/ /\ status[cur[w]] = "running"
         /\ owner[cur[w]] = w /\ lease[cur[w]] = "held"

\* No two workers are at one action as long as no lease runs out under a living worker.
THEOREM Exclusive == Spec => []OneWorkerPerAction
<1>1. Init => HoldingInv
  BY DEF Init, HoldingInv, Busy
<1>2. TypeInv /\ HoldingInv /\ [Next]_vars => HoldingInv'
  <2> SUFFICES ASSUME TypeInv, HoldingInv, [Next]_vars, lapses' = 0 PROVE HoldingInv'
    BY DEF HoldingInv
  <2>0. lapses = 0
    <3>1. lapses' = lapses \/ lapses' = lapses + 1
      BY DEF Next, vars, claim, Proceed, Request, Approve, Reject, DeleteHost, Claim,
             Prepare, Dial, Send, Return, Complete, Fail, Report, Crash, Shutdown,
             LeaseLapses
    <3>2. QED
      BY <3>1 DEF TypeInv, TypeOK
  <2> USE <2>0 DEF TypeInv, TypeOK, BusyWorkersHaveActions, HoldingInv, Status, PC, Busy,
                   Goto, decision, claim, worker
  <2>1. ASSUME NEW u \in Users, NEW a \in Actions,
               (\E h \in Hosts : Request(u, a, h)) \/ Approve(u, a) \/ Reject(u, a)
        PROVE  HoldingInv'
    BY <2>1 DEF Request, Approve, Reject
  <2>2. ASSUME NEW h \in Hosts, DeleteHost(h) PROVE HoldingInv'
    BY <2>2 DEF DeleteHost
  <2>3. ASSUME NEW w \in Workers, NEW a \in Actions, Claim(w, a) PROVE HoldingInv'
    BY <2>3 DEF Claim, Claimable
  <2>4. ASSUME NEW w \in Workers, Prepare(w) \/ Dial(w) \/ Send(w) \/ Return(w)
        PROVE  HoldingInv'
    BY <2>4 DEF Prepare, Dial, Send, Return
  <2>5. ASSUME NEW w \in Workers, Complete(w) \/ Fail(w) PROVE HoldingInv'
    <3>1. \A v \in Workers :
            pc'[v] \in Busy => v # w /\ pc[v] \in Busy /\ cur'[v] = cur[v]
      BY <2>5 DEF Complete, Fail, Report, Leave
    <3>2. \A a \in Actions :
            \/ status'[a] = status[a] /\ owner'[a] = owner[a] /\ lease'[a] = lease[a]
            \/ status[a] = "running" /\ owner[a] = w
      BY <2>5 DEF Complete, Fail, Report, Settle, StoreWorks, Owns
    <3>3. QED
      BY <3>1, <3>2
  <2>6. ASSUME NEW w \in Workers, Crash(w) \/ Shutdown(w) PROVE HoldingInv'
    BY <2>6 DEF Crash, Shutdown
  <2>7. ASSUME NEW a \in Actions, LeaseLapses(a) PROVE HoldingInv'
    <3>1. ~Attended(a)
      BY <2>7 DEF LeaseLapses
    <3>2. \A w \in Workers : pc[w] \in Busy => cur[w] # a
      BY <2>7, <3>1 DEF LeaseLapses, Attended, Owns
    <3>3. QED
      BY <2>7, <3>2 DEF LeaseLapses
  <2>8. CASE UNCHANGED vars
    BY <2>8 DEF vars
  <2>9. QED
    BY <2>1, <2>2, <2>3, <2>4, <2>5, <2>6, <2>7, <2>8 DEF Next, Proceed
<1>3. HoldingInv => OneWorkerPerAction
  BY DEF HoldingInv, OneWorkerPerAction
<1>4. QED
  BY <1>1, <1>2, <1>3, TypeInvariant, PTL DEF Spec
-------------------------------------------------------------------------------
\* The outcome in the row is what its present worker has seen.
THEOREM OutcomeIsOwn == Spec => OwnOutcome
<1> DEFINE Own(a) ==
      status[a] = "running" /\ status'[a] \in {"succeeded", "failed"} =>
        LET from == IF status'[a] = "succeeded" THEN "completing" ELSE "failing"
        IN pc[owner[a]] = from /\ cur[owner[a]] = a
<1>1. TypeInv /\ [Next]_vars => [\A a \in Actions : Own(a)]_vars
  <2> SUFFICES ASSUME TypeInv, Next, NEW a \in Actions, status[a] = "running",
                      status'[a] \in {"succeeded", "failed"}
               PROVE  Own(a)
    OBVIOUS
  <2> USE DEF TypeInv, TypeOK, decision, claim, worker
  <2>1. PICK w \in Workers : Complete(w) \/ Fail(w)
    BY DEF Next, Proceed, Request, Approve, Reject, DeleteHost, Claim, Prepare, Dial,
           Send, Return, Crash, Shutdown, LeaseLapses
  <2>2. CASE Complete(w)
    <3>1. pc[w] = "completing" /\ cur[w] = a /\ owner[a] = w /\ status'[a] = "succeeded"
      BY <2>2 DEF Complete, Report, Settle, StoreWorks, Owns
    <3>2. QED
      BY <3>1
  <2>3. CASE Fail(w)
    <3>1. pc[w] = "failing" /\ cur[w] = a /\ owner[a] = w /\ status'[a] = "failed"
      BY <2>3 DEF Fail, Report, Settle, StoreWorks, Owns
    <3>2. QED
      BY <3>1
  <2>4. QED
    BY <2>1, <2>2, <2>3
<1>2. QED
  BY <1>1, TypeInvariant, PTL DEF Spec, OwnOutcome
-------------------------------------------------------------------------------
(***************************************************************************)
(* Runs and leases.  What may still be sent is counted: the workers about  *)
(* to send a's command, and the claim that its row allows at present.      *)
(***************************************************************************)
AboutToSend(a) ==
  {w \in Workers : pc[w] \in {"claimed", "dialing", "connected"} /\ cur[w] = a}
Offered(a) ==
  IF status[a] \in {"absent", "pending", "approved"} \/ lease[a] = "lapsed" THEN 1 ELSE 0

BudgetInv ==
  \A a \in Actions :
    /\ IsFiniteSet(AboutToSend(a))
    /\ runs[a] + Cardinality(AboutToSend(a)) + Offered(a) <= 1 + expiries[a]

\* A step that lets nobody new approach the host, sends nothing and offers no claim.
LEMMA BudgetKept ==
  ASSUME TypeInv, BudgetInv, NEW a \in Actions,
         AboutToSend(a)' \subseteq AboutToSend(a), Offered(a)' <= Offered(a),
         runs'[a] = runs[a], expiries'[a] = expiries[a]
  PROVE  /\ IsFiniteSet(AboutToSend(a)')
         /\ runs'[a] + Cardinality(AboutToSend(a)') + Offered(a)' <= 1 + expiries'[a]
<1>1. IsFiniteSet(AboutToSend(a)') /\ Cardinality(AboutToSend(a)') <= Cardinality(AboutToSend(a))
  BY FS_Subset DEF BudgetInv
<1>2. Cardinality(AboutToSend(a)') \in Nat /\ Cardinality(AboutToSend(a)) \in Nat
  BY <1>1, FS_CardinalityType DEF BudgetInv
<1>3. runs[a] \in Nat /\ expiries[a] \in Nat /\ Offered(a) \in 0..1 /\ Offered(a)' \in 0..1
  BY DEF TypeInv, TypeOK, Offered
<1>4. runs[a] + Cardinality(AboutToSend(a)) + Offered(a) <= 1 + expiries[a]
  BY DEF BudgetInv
<1>5. QED
  BY <1>1, <1>2, <1>3, <1>4

\* A root command is sent again only after a lease has run out.
THEOREM RerunsPaid == Spec => []RerunsPaidFor
<1>1. Init => BudgetInv
  <2> SUFFICES ASSUME Init, NEW a \in Actions
               PROVE  IsFiniteSet(AboutToSend(a))
                      /\ runs[a] + Cardinality(AboutToSend(a)) + Offered(a) <= 1 + expiries[a]
    BY DEF BudgetInv
  <2>1. AboutToSend(a) = {}
    BY DEF Init, AboutToSend
  <2>2. runs[a] = 0 /\ expiries[a] = 0 /\ Offered(a) = 1
    BY DEF Init, Offered
  <2>3. QED
    BY <2>1, <2>2, FS_EmptySet
<1>2. TypeInv /\ BudgetInv /\ [Next]_vars => BudgetInv'
  <2> SUFFICES ASSUME TypeInv, BudgetInv, [Next]_vars, NEW a \in Actions
               PROVE  /\ IsFiniteSet(AboutToSend(a)')
                      /\ runs'[a] + Cardinality(AboutToSend(a)') + Offered(a)' <= 1 + expiries'[a]
    BY DEF BudgetInv
  <2> USE DEF TypeInv, TypeOK, BusyWorkersHaveActions, Status, PC, Busy, Goto,
              decision, claim, worker
  <2>1. ASSUME NEW u \in Users, NEW b \in Actions,
               (\E h \in Hosts : Request(u, b, h)) \/ Approve(u, b) \/ Reject(u, b)
        PROVE  /\ AboutToSend(a)' \subseteq AboutToSend(a) /\ Offered(a)' <= Offered(a)
               /\ runs'[a] = runs[a] /\ expiries'[a] = expiries[a]
    BY <2>1 DEF Request, Approve, Reject, AboutToSend, Offered
  <2>2. ASSUME NEW h \in Hosts, DeleteHost(h)
        PROVE  /\ AboutToSend(a)' \subseteq AboutToSend(a) /\ Offered(a)' <= Offered(a)
               /\ runs'[a] = runs[a] /\ expiries'[a] = expiries[a]
    BY <2>2 DEF DeleteHost, AboutToSend, Offered
  <2>3. ASSUME NEW w \in Workers,
               Prepare(w) \/ Dial(w) \/ Return(w) \/ Crash(w) \/ Shutdown(w)
        PROVE  /\ AboutToSend(a)' \subseteq AboutToSend(a) /\ Offered(a)' <= Offered(a)
               /\ runs'[a] = runs[a] /\ expiries'[a] = expiries[a]
    BY <2>3 DEF Prepare, Dial, Return, Crash, Shutdown, AboutToSend, Offered
  <2>4. ASSUME NEW w \in Workers, Complete(w) \/ Fail(w)
        PROVE  /\ AboutToSend(a)' \subseteq AboutToSend(a) /\ Offered(a)' <= Offered(a)
               /\ runs'[a] = runs[a] /\ expiries'[a] = expiries[a]
    <3>1. AboutToSend(a)' \subseteq AboutToSend(a)
      BY <2>4 DEF Complete, Fail, Report, Leave, AboutToSend
    <3>2. Offered(a)' <= Offered(a)
      BY <2>4 DEF Complete, Fail, Report, Settle, Offered
    <3>3. QED
      BY <2>4, <3>1, <3>2 DEF Complete, Fail, Report
  <2>5. CASE UNCHANGED vars
    BY <2>5, BudgetKept DEF vars, AboutToSend, Offered
  <2>6. ASSUME NEW w \in Workers, NEW b \in Actions, Claim(w, b)
        PROVE  /\ IsFiniteSet(AboutToSend(a)')
               /\ runs'[a] + Cardinality(AboutToSend(a)') + Offered(a)' <= 1 + expiries'[a]
    <3>1. CASE a # b
      <4>1. AboutToSend(a)' = AboutToSend(a) /\ Offered(a)' = Offered(a)
        BY <2>6, <3>1 DEF Claim, AboutToSend, Offered
      <4>2. QED
        BY <2>6, <4>1 DEF Claim, BudgetInv
    <3>2. CASE a = b
      <4>1. Offered(a) = 1 /\ Offered(a)' = 0
        BY <2>6, <3>2 DEF Claim, Claimable, Offered
      <4>2. AboutToSend(a)' \subseteq AboutToSend(a) \cup {w}
        BY <2>6, <3>2 DEF Claim, AboutToSend
      <4>3. w \notin AboutToSend(a)
        BY <2>6 DEF Claim, AboutToSend
      <4>4. /\ IsFiniteSet(AboutToSend(a) \cup {w})
            /\ Cardinality(AboutToSend(a) \cup {w}) = Cardinality(AboutToSend(a)) + 1
        BY <4>3, FS_AddElement DEF BudgetInv
      <4>5. /\ IsFiniteSet(AboutToSend(a)')
            /\ Cardinality(AboutToSend(a)') <= Cardinality(AboutToSend(a)) + 1
        BY <4>2, <4>4, FS_Subset
      <4>6. Cardinality(AboutToSend(a)') \in Nat /\ Cardinality(AboutToSend(a)) \in Nat
        BY <4>5, FS_CardinalityType DEF BudgetInv
      <4>7. /\ runs'[a] = runs[a] /\ expiries'[a] = expiries[a]
            /\ runs[a] \in Nat /\ expiries[a] \in Nat
        BY <2>6 DEF Claim
      <4>8. runs[a] + Cardinality(AboutToSend(a)) + Offered(a) <= 1 + expiries[a]
        BY DEF BudgetInv
      <4>9. QED
        BY <4>1, <4>5, <4>6, <4>7, <4>8
    <3>3. QED
      BY <3>1, <3>2
  <2>7. ASSUME NEW w \in Workers, Send(w)
        PROVE  /\ IsFiniteSet(AboutToSend(a)')
               /\ runs'[a] + Cardinality(AboutToSend(a)') + Offered(a)' <= 1 + expiries'[a]
    <3>1. CASE runs'[a] = runs[a]
      <4>1. /\ AboutToSend(a)' \subseteq AboutToSend(a) /\ Offered(a)' <= Offered(a)
            /\ expiries'[a] = expiries[a]
        BY <2>7 DEF Send, AboutToSend, Offered
      <4>2. QED
        BY <3>1, <4>1, BudgetKept
    <3>2. CASE runs'[a] # runs[a]
      <4>1. /\ cur[w] = a /\ w \in AboutToSend(a) /\ runs'[a] = runs[a] + 1
            /\ AboutToSend(a)' = AboutToSend(a) \ {w}
        BY <2>7, <3>2 DEF Send, AboutToSend
      <4>2. /\ IsFiniteSet(AboutToSend(a)')
            /\ Cardinality(AboutToSend(a)') = Cardinality(AboutToSend(a)) - 1
        BY <4>1, FS_RemoveElement DEF BudgetInv
      <4>3. Cardinality(AboutToSend(a)) \in Nat
        BY FS_CardinalityType DEF BudgetInv
      <4>4. /\ Offered(a)' = Offered(a) /\ Offered(a) \in 0..1 /\ expiries'[a] = expiries[a]
            /\ runs[a] \in Nat /\ expiries[a] \in Nat
        BY <2>7 DEF Send, Offered
      <4>5. runs[a] + Cardinality(AboutToSend(a)) + Offered(a) <= 1 + expiries[a]
        BY DEF BudgetInv
      <4>6. QED
        BY <4>1, <4>2, <4>3, <4>4, <4>5
    <3>3. QED
      BY <3>1, <3>2
  <2>8. ASSUME NEW b \in Actions, LeaseLapses(b)
        PROVE  /\ IsFiniteSet(AboutToSend(a)')
               /\ runs'[a] + Cardinality(AboutToSend(a)') + Offered(a)' <= 1 + expiries'[a]
    <3>1. AboutToSend(a)' = AboutToSend(a) /\ runs' = runs
      BY <2>8 DEF LeaseLapses, AboutToSend
    <3>2. \/ Offered(a)' = Offered(a) /\ expiries'[a] = expiries[a]
          \/ Offered(a) = 0 /\ Offered(a)' = 1 /\ expiries'[a] = expiries[a] + 1
      BY <2>8 DEF LeaseLapses, Offered
    <3>3. /\ IsFiniteSet(AboutToSend(a)) /\ Cardinality(AboutToSend(a)) \in Nat
          /\ runs[a] \in Nat /\ expiries[a] \in Nat
          /\ runs[a] + Cardinality(AboutToSend(a)) + Offered(a) <= 1 + expiries[a]
      BY FS_CardinalityType DEF BudgetInv
    <3>4. QED
      BY <3>1, <3>2, <3>3
  <2>9. QED
    BY <2>1, <2>2, <2>3, <2>4, <2>5, <2>6, <2>7, <2>8, BudgetKept DEF Next, Proceed
<1>3. TypeInv /\ BudgetInv => RerunsPaidFor
  <2> SUFFICES ASSUME TypeInv, BudgetInv, NEW a \in Actions PROVE runs[a] <= 1 + expiries[a]
    BY DEF RerunsPaidFor
  <2>1. /\ Cardinality(AboutToSend(a)) \in Nat /\ Offered(a) \in 0..1
        /\ runs[a] \in Nat /\ expiries[a] \in Nat
        /\ runs[a] + Cardinality(AboutToSend(a)) + Offered(a) <= 1 + expiries[a]
    BY FS_CardinalityType DEF BudgetInv, Offered, TypeInv, TypeOK
  <2>2. QED
    BY <2>1
<1>4. QED
  BY <1>1, <1>2, <1>3, TypeInvariant, PTL DEF Spec
===============================================================================
