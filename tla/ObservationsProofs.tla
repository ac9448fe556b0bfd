-------------------------- MODULE ObservationsProofs --------------------------
(***************************************************************************)
(* Proofs about Observations for any findings, scans, ages and bound of    *)
(* the clock.                                                              *)
(***************************************************************************)
EXTENDS Observations, TLAPS

USE ObservationsAssumption

\* The analysts' actions lead to known states and verdicts, and one resolves without a
\* verdict of its own.
LEMMA DispositionType ==
  ASSUME NEW action \in DOMAIN Disposition
  PROVE  /\ Disposition[action][1] \in {"open", "acknowledged"} \cup Closed
         /\ Disposition[action][2] \in Verdicts \cup {""}
         /\ action # "resolve" /\ Disposition[action][1] = "resolved" =>
              Disposition[action][2] = "unknown"
<1>1. action \in {"take_ownership", "confirm_finding", "close_false_positive", "resolve",
                 "close_inconclusive", "reopen"}
  BY DEF Disposition
<1>2. CASE action = "take_ownership"
  BY <1>2 DEF Disposition
<1>3. CASE action = "confirm_finding"
  BY <1>3 DEF Disposition, Verdicts
<1>4. CASE action = "close_false_positive"
  BY <1>4 DEF Disposition, Closed, Verdicts
<1>5. CASE action = "resolve"
  BY <1>5 DEF Disposition, Closed
<1>6. CASE action = "close_inconclusive"
  BY <1>6 DEF Disposition, Closed, Verdicts
<1>7. CASE action = "reopen"
  BY <1>7 DEF Disposition
<1>8. QED
  BY <1>1, <1>2, <1>3, <1>4, <1>5, <1>6, <1>7

\* Type correctness: upserts, dispositions and retention keep the types of the rows,
\* and only closed findings are archived.
THEOREM TypeCorrect == Spec => []TypeOK
<1>1. Init => TypeOK
  BY DEF Init, TypeOK, Closed, Completed, Verdicts
<1>2. TypeOK /\ [Next]_vars => TypeOK'
  <2> SUFFICES ASSUME TypeOK, [Next]_vars PROVE TypeOK'
    OBVIOUS
  <2> USE DEF TypeOK, rows, scanRows
  <2>1. CASE Tick
    BY <2>1 DEF Tick
  <2>2. CASE ApplyRetention
    BY <2>2 DEF ApplyRetention, Retirable
  <2>3. ASSUME NEW s \in Scans, StartScan(s) PROVE TypeOK'
    BY <2>3 DEF StartScan
  <2>4. ASSUME NEW s \in Scans, NEW f \in Findings, See(s, f) PROVE TypeOK'
    BY <2>4 DEF See, Record, Verdicts
  <2>5. ASSUME NEW s \in Scans, NEW to \in {"ok", "partial", "failed"}, FinishScan(s, to)
        PROVE  TypeOK'
    BY <2>5 DEF FinishScan, Completed
  <2>6. ASSUME NEW f \in Findings, Sense(f) PROVE TypeOK'
    BY <2>6 DEF Sense, Record, Verdicts
  <2>7. ASSUME NEW f \in Findings, NEW action \in DOMAIN Disposition, Dispose(f, action)
        PROVE  TypeOK'
    BY <2>7, DispositionType DEF Dispose
  <2>8. ASSUME NEW f \in Findings, NEW v \in Verdicts, SetVerdict(f, v) PROVE TypeOK'
    BY <2>8 DEF SetVerdict
  <2>9. CASE UNCHANGED vars
    BY <2>9 DEF vars
  <2>10. QED
    BY <2>1, <2>2, <2>3, <2>4, <2>5, <2>6, <2>7, <2>8, <2>9 DEF Next
<1>3. QED
  BY <1>1, <1>2, PTL DEF Spec
-------------------------------------------------------------------------------
\* What an upsert does to the row of its finding, and that it leaves the others alone.
LEMMA RecordEffect ==
  ASSUME TypeOK, NEW f \in Findings, NEW s, Record(f, s)
  PROVE  /\ status[f] = "absent" \/ Reopens(f, s) => status'[f] = "open"
         /\ status[f] # "absent" /\ ~Reopens(f, s) => status'[f] = status[f]
         /\ \A g \in Findings \ {f} : status'[g] = status[g]
         /\ status'[f] # "absent"
<1>1. CASE status[f] = "absent" \/ Reopens(f, s)
  <2>1. status' = [status EXCEPT ![f] = "open"]
    BY <1>1 DEF Record
  <2>2. QED
    BY <1>1, <2>1 DEF TypeOK
<1>2. CASE ~(status[f] = "absent" \/ Reopens(f, s))
  <2>1. status' = status
    BY <1>2 DEF Record
  <2>2. QED
    BY <1>2, <2>1
<1>3. QED
  BY <1>1, <1>2

\* Nothing that a scan has reported is lost: it is in the table, or was closed and
\* archived.
THEOREM NoneLost == Spec => []NoFindingLost
<1>1. Init => NoFindingLost
  BY DEF Init, NoFindingLost
<1>2. TypeOK /\ NoFindingLost /\ [Next]_vars => NoFindingLost'
  <2> SUFFICES ASSUME TypeOK, NoFindingLost, [Next]_vars PROVE NoFindingLost'
    OBVIOUS
  <2> USE DEF TypeOK, NoFindingLost, rows, scanRows
  <2>1. CASE Tick
    BY <2>1 DEF Tick
  <2>2. ASSUME ApplyRetention, NEW s \in Scans, NEW f \in saw'[s]
        PROVE  status'[f] # "absent" \/ \E c \in Closed : <<f, c>> \in archive'
    <3>1. f \in Findings /\ f \in saw[s] /\ archive \subseteq archive'
      BY <2>2 DEF ApplyRetention
    <3>2. CASE Retirable(f)
      BY <2>2, <3>1, <3>2 DEF ApplyRetention, Retirable
    <3>3. CASE ~Retirable(f)
      BY <2>2, <3>1, <3>3 DEF ApplyRetention
    <3>4. QED
      BY <3>2, <3>3
  <2>3. ASSUME NEW s \in Scans, StartScan(s) PROVE NoFindingLost'
    BY <2>3 DEF StartScan
  <2>4. ASSUME NEW s \in Scans, NEW f \in Findings, See(s, f) PROVE NoFindingLost'
    BY <2>4, RecordEffect DEF See
  <2>5. ASSUME NEW s \in Scans, NEW to \in {"ok", "partial", "failed"}, FinishScan(s, to)
        PROVE  NoFindingLost'
    BY <2>5 DEF FinishScan
  <2>6. ASSUME NEW f \in Findings, Sense(f) PROVE NoFindingLost'
    BY <2>6, RecordEffect DEF Sense
  <2>7. ASSUME NEW f \in Findings, NEW action \in DOMAIN Disposition, Dispose(f, action)
        PROVE  NoFindingLost'
    BY <2>7, DispositionType DEF Dispose, Closed
  <2>8. ASSUME NEW f \in Findings, NEW v \in Verdicts, SetVerdict(f, v)
        PROVE  NoFindingLost'
    BY <2>8 DEF SetVerdict
  <2>9. CASE UNCHANGED vars
    BY <2>9 DEF vars
  <2>10. QED
    BY <2>1, <2>2, <2>3, <2>4, <2>5, <2>6, <2>7, <2>8, <2>9 DEF Next
<1>3. QED
  BY <1>1, <1>2, TypeCorrect, PTL DEF Spec
-------------------------------------------------------------------------------
(***************************************************************************)
(* Timestamps and sightings.  A scan saw a finding after it had started,   *)
(* and last_seen never goes back, so that a scan which started after       *)
(* last_seen has missed the finding: this is what the code infers.         *)
(***************************************************************************)
SeenSince ==
  \A s \in Scans :
    /\ started[s] <= now
    /\ scans[s] = "absent" => saw[s] = {}
    /\ \A f \in saw[s] : started[s] <= lastSeen[f]

LEMMA SeenSinceInvariant == Spec => []SeenSince
<1>1. Init => SeenSince
  BY DEF Init, SeenSince
<1>2. TypeOK /\ SeenSince /\ [Next]_vars => SeenSince'
  <2> SUFFICES ASSUME TypeOK, SeenSince, [Next]_vars PROVE SeenSince'
    OBVIOUS
  <2> USE DEF TypeOK, SeenSince, rows, scanRows
  <2>1. CASE Tick
    BY <2>1 DEF Tick
  <2>2. CASE ApplyRetention
    BY <2>2 DEF ApplyRetention
  <2>3. ASSUME NEW s \in Scans, StartScan(s) PROVE SeenSince'
    BY <2>3 DEF StartScan
  <2>4. ASSUME NEW s \in Scans, NEW f \in Findings, See(s, f) PROVE SeenSince'
    BY <2>4 DEF See, Record
  <2>5. ASSUME NEW s \in Scans, NEW to \in {"ok", "partial", "failed"}, FinishScan(s, to)
        PROVE  SeenSince'
    BY <2>5 DEF FinishScan, Completed
  <2>6. ASSUME NEW f \in Findings, Sense(f) PROVE SeenSince'
    BY <2>6 DEF Sense, Record
  <2>7. ASSUME NEW f \in Findings,
               \/ \E action \in DOMAIN Disposition : Dispose(f, action)
               \/ \E v \in Verdicts : SetVerdict(f, v)
        PROVE  SeenSince'
    BY <2>7 DEF Dispose, SetVerdict
  <2>8. CASE UNCHANGED vars
    BY <2>8 DEF vars
  <2>9. QED
    BY <2>1, <2>2, <2>3, <2>4, <2>5, <2>6, <2>7, <2>8 DEF Next
<1>3. QED
  BY <1>1, <1>2, TypeCorrect, PTL DEF Spec

\* A scan that sees a finding records it.
LEMMA SeesIsSee ==
  ASSUME TypeOK, Next, NEW s \in Scans, NEW f \in Findings, Sees(s, f)
  PROVE  See(s, f)
<1>1. PICK t \in Scans, g \in Findings : See(t, g)
  BY DEF Next, Sees, Tick, ApplyRetention, StartScan, FinishScan, Sense, Dispose,
         SetVerdict, scanRows
<1>2. t = s /\ g = f
  BY <1>1 DEF See, Sees, TypeOK
<1>3. QED
  BY <1>1, <1>2

\* What the previous completed scan has seen stays closed: the timestamps decide as the
\* sightings themselves would.
THEOREM StaysClosed == Spec => PresentStaysClosed
<1> DEFINE Right(s, f) ==
      Sees(s, f) /\ status[f] \in Closed /\ status'[f] = "open" =>
        /\ now - lastSeen[f] >= ReopenAfter
        /\ \E t \in Scans \ {s} : scans[t] \in Completed
        /\ \A t \in Scans : Previous(t, s) => f \notin saw[t]
<1>1. TypeOK /\ SeenSince /\ [Next]_vars =>
        [\A s \in Scans, f \in Findings : Right(s, f)]_vars
  <2> SUFFICES ASSUME TypeOK, SeenSince, Next, NEW s \in Scans, NEW f \in Findings,
                      Sees(s, f), status[f] \in Closed, status'[f] = "open"
               PROVE  /\ now - lastSeen[f] >= ReopenAfter
                      /\ \E t \in Scans \ {s} : scans[t] \in Completed
                      /\ \A t \in Scans : Previous(t, s) => f \notin saw[t]
    OBVIOUS
  <2>1. Reopens(f, s)
    BY SeesIsSee, RecordEffect DEF See, Closed
  <2>2. PICK t \in Scans \ ({s} \cup expired) :
          scans[t] \in Completed /\ lastSeen[f] < started[t]
    BY <2>1 DEF Reopens, Absent
  <2>3. ASSUME NEW u \in Scans, Previous(u, s) PROVE f \notin saw[u]
    <3>1. started[t] <= started[u]
      BY <2>2, <2>3 DEF Previous
    <3>2. lastSeen[f] < started[u]
      BY <2>2, <3>1 DEF TypeOK
    <3>3. QED
      BY <3>2 DEF SeenSince, TypeOK
  <2>4. QED
    BY <2>1, <2>2, <2>3 DEF Reopens, LongUnseen
<1>2. QED
  BY <1>1, TypeCorrect, SeenSinceInvariant, PTL DEF Spec, PresentStaysClosed

\* A closed finding that the previous scan has missed, and that returns late enough,
\* reopens while that scan's row exists.
THEOREM Returns == Spec => ReturnReopens
<1> DEFINE Right(s, f) ==
      /\ Sees(s, f) /\ status[f] \in Closed
      /\ ReopenAfter > 0 /\ now - lastSeen[f] >= ReopenAfter
      /\ \E t \in Scans \ expired :
           Previous(t, s) /\ f \notin saw[t] /\ lastSeen[f] < started[t]
      => status'[f] = "open"
<1>1. TypeOK /\ [Next]_vars => [\A s \in Scans, f \in Findings : Right(s, f)]_vars
  <2> SUFFICES ASSUME TypeOK, Next, NEW s \in Scans, NEW f \in Findings,
                      Sees(s, f), status[f] \in Closed,
                      ReopenAfter > 0, now - lastSeen[f] >= ReopenAfter,
                      NEW t \in Scans \ expired, Previous(t, s), lastSeen[f] < started[t]
               PROVE  status'[f] = "open"
    OBVIOUS
  <2>1. Reopens(f, s)
    BY DEF Reopens, LongUnseen, Absent, Previous
  <2>2. QED
    BY <2>1, SeesIsSee, RecordEffect DEF See
<1>2. QED
  BY <1>1, TypeCorrect, PTL DEF Spec, ReturnReopens

\* Scans preserve assessments: the verdict always, the status unless it is closed.
THEOREM AssessmentKept == Spec => SightingsKeepAssessment
<1> DEFINE Right(s, f) ==
      Sees(s, f) /\ status[f] # "absent" =>
        /\ verdict'[f] = verdict[f]
        /\ status'[f] # status[f] => status[f] \in Closed
<1>1. TypeOK /\ [Next]_vars => [\A s \in Scans, f \in Findings : Right(s, f)]_vars
  <2> SUFFICES ASSUME TypeOK, Next, NEW s \in Scans, NEW f \in Findings,
                      Sees(s, f), status[f] # "absent"
               PROVE  /\ verdict'[f] = verdict[f]
                      /\ status'[f] # status[f] => status[f] \in Closed
    OBVIOUS
  <2>1. See(s, f) /\ Record(f, s)
    BY SeesIsSee DEF See
  <2>2. verdict'[f] = verdict[f]
    BY <2>1 DEF Record, TypeOK
  <2>3. status'[f] # status[f] => Reopens(f, s)
    BY <2>1, RecordEffect
  <2>4. QED
    BY <2>2, <2>3 DEF Reopens, LongUnseen
<1>2. QED
  BY <1>1, TypeCorrect, PTL DEF Spec, SightingsKeepAssessment

\* No interleaving of dispositions and verdicts resolves a finding that is assessed as a
\* false positive: the resolution is conditional on the verdict it finds in the row.
THEOREM NoneRefuted == Spec => ResolvedNotRefuted
<1> DEFINE Right(f) ==
      status[f] # "resolved" /\ status'[f] = "resolved" => verdict'[f] # "false_positive"
<1>1. TypeOK /\ [Next]_vars => [\A f \in Findings : Right(f)]_vars
  <2> SUFFICES ASSUME TypeOK, Next, NEW f \in Findings,
                      status[f] # "resolved", status'[f] = "resolved"
               PROVE  verdict'[f] # "false_positive"
    OBVIOUS
  <2>1. PICK action \in DOMAIN Disposition : Dispose(f, action)
    <3>1. CASE \E s \in Scans, g \in Findings : See(s, g)
      BY <3>1, RecordEffect DEF See, TypeOK
    <3>2. CASE \E g \in Findings : Sense(g)
      BY <3>2, RecordEffect DEF Sense, TypeOK
    <3>3. CASE \E g \in Findings, action \in DOMAIN Disposition : Dispose(g, action)
      BY <3>3 DEF Dispose, TypeOK
    <3>4. QED
      BY <3>1, <3>2, <3>3
         DEF Next, Tick, ApplyRetention, StartScan, FinishScan, SetVerdict, TypeOK, rows
  <2>2. verdict'[f] = IF Disposition[action][2] = "" THEN verdict[f]
                      ELSE Disposition[action][2]
    BY <2>1 DEF Dispose, TypeOK
  <2>3. Disposition[action][1] = "resolved"
    BY <2>1 DEF Dispose, TypeOK
  <2>4. CASE action = "resolve"
    <3>1. Disposition[action][2] = ""
      BY <2>4 DEF Disposition
    <3>2. QED
      BY <2>1, <2>2, <2>4, <3>1 DEF Dispose
  <2>5. CASE action # "resolve"
    <3>1. Disposition[action][2] = "unknown"
      BY <2>3, <2>5, DispositionType
    <3>2. QED
      BY <2>2, <3>1
  <2>6. QED
    BY <2>4, <2>5
<1>2. QED
  BY <1>1, TypeCorrect, PTL DEF Spec, ResolvedNotRefuted
===============================================================================
