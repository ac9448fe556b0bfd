----------------------------- MODULE Observations -----------------------------
(***************************************************************************)
(* The observations of one host: UpsertObservation, which deduplicates a   *)
(* finding and may reopen a closed one, the analysts' dispositions and     *)
(* verdicts, and retention.  Scans and the sensor report findings at any   *)
(* time; a superseded scan may still write beside its successor.           *)
(*                                                                         *)
(* The code decides by timestamps whether a finding was absent from the    *)
(* previous scan; the history variable saw holds what the scans really     *)
(* saw.  One clock serves the server and the database.                     *)
(***************************************************************************)
EXTENDS Integers

CONSTANTS
  Findings,        \* dedup keys
  Scans,           \* identities of scans rows
  NoScan,          \* an observation of the sensor has no scan
  ReopenAfter,     \* BLADEDR_REOPEN_AFTER in ticks, 0 when it is off
  ObservationAge,  \* BLADEDR_RETENTION_OBSERVATIONS in ticks, 0 when disabled
  ScanAge,         \* BLADEDR_RETENTION_SCANS in ticks, 0 when disabled
  MaxTime          \* bound: ticks of the clock

ASSUME ObservationsAssumption ==
  /\ NoScan \notin Scans
  /\ ReopenAfter \in Nat /\ ObservationAge \in Nat /\ ScanAge \in Nat
  /\ MaxTime \in Nat

VARIABLES
  now,
  status,    \* finding -> observations.status, "absent" without a row
  verdict,   \* finding -> verdict
  lastSeen,  \* finding -> last_seen
  scans,     \* scan -> scans.status, "absent" before the row exists
  started,   \* scan -> started_at
  saw,       \* scan -> the findings it has upserted
  expired,   \* scans whose row retention has moved to the archive
  archive    \* <<finding, status>> of the observations retention has moved there

rows == <<status, verdict, lastSeen>>
scanRows == <<scans, started, saw, expired>>
vars == <<now, rows, scanRows, archive>>

Closed == {"resolved", "false_positive"}
Completed == {"ok", "partial"}
Verdicts == {"unknown", "true_positive", "false_positive"}

TypeOK ==
  /\ now \in 0..MaxTime
  /\ status \in [Findings -> {"absent", "open", "acknowledged"} \cup Closed]
  /\ verdict \in [Findings -> Verdicts]
  /\ lastSeen \in [Findings -> 0..MaxTime]
  /\ scans \in [Scans -> {"absent", "running", "failed"} \cup Completed]
  /\ started \in [Scans -> 0..MaxTime]
  /\ saw \in [Scans -> SUBSET Findings]
  /\ expired \in SUBSET Scans
  /\ archive \in SUBSET (Findings \X Closed)

Init ==
  /\ now = 0
  /\ status = [f \in Findings |-> "absent"]
  /\ verdict = [f \in Findings |-> "unknown"]
  /\ lastSeen = [f \in Findings |-> 0]
  /\ scans = [s \in Scans |-> "absent"]
  /\ started = [s \in Scans |-> 0]
  /\ saw = [s \in Scans |-> {}]
  /\ expired = {}
  /\ archive = {}

Tick ==
  /\ now < MaxTime
  /\ now' = now + 1
  /\ UNCHANGED <<rows, scanRows, archive>>
-------------------------------------------------------------------------------
(***************************************************************************)
(* Scans and the sensor.                                                   *)
(***************************************************************************)

\* CreateScan.
StartScan(s) ==
  /\ scans[s] = "absent"
  /\ scans' = [scans EXCEPT ![s] = "running"]
  /\ started' = [started EXCEPT ![s] = now]
  /\ UNCHANGED <<now, rows, saw, expired, archive>>

\* The time condition of reopens: closed, and long enough unseen.
LongUnseen(f) ==
  /\ ReopenAfter > 0 /\ status[f] \in Closed
  /\ now - lastSeen[f] >= ReopenAfter

\* Mutant of Absent: the oldest completed scan counts.
AbsentFromOldest(f, s) ==
  LET completed == {t \in Scans \ ({s} \cup expired) : scans[t] \in Completed}
  IN completed # {} /\ \A t \in completed : lastSeen[f] < started[t]
\* absentFromPreviousScanLocked: the latest completed scan but the present one has
\* started after the finding was seen.
Absent(f, s) ==
  \E t \in Scans \ ({s} \cup expired) :
    scans[t] \in Completed /\ lastSeen[f] < started[t]

Reopens(f, s) == LongUnseen(f) /\ Absent(f, s)

\* UpsertObservation by scan s, or by the sensor: a new row, or one that reopens, is
\* open; any other keeps its status, and what existed keeps its verdict.
Record(f, s) ==
  /\ IF status[f] = "absent" \/ Reopens(f, s)
     THEN status' = [status EXCEPT ![f] = "open"]
     ELSE UNCHANGED status
  /\ verdict' = [verdict EXCEPT ![f] = IF status[f] = "absent" THEN "unknown" ELSE @]
  /\ lastSeen' = [lastSeen EXCEPT ![f] = now]

\* A scan reports a finding once; its row may have expired (a foreign key).
See(s, f) ==
  /\ scans[s] = "running" /\ s \notin expired /\ f \notin saw[s]
  /\ Record(f, s)
  /\ saw' = [saw EXCEPT ![s] = @ \cup {f}]
  /\ UNCHANGED <<now, scans, started, expired, archive>>

Sense(f) ==
  /\ Record(f, NoScan)
  /\ UNCHANGED <<now, scanRows, archive>>

\* UpdateScan at the end of the scan.
FinishScan(s, to) ==
  /\ scans[s] = "running" /\ s \notin expired
  /\ scans' = [scans EXCEPT ![s] = to]
  /\ UNCHANGED <<now, rows, started, saw, expired, archive>>
-------------------------------------------------------------------------------
(***************************************************************************)
(* Analysts.                                                               *)
(***************************************************************************)

\* ObservationDisposition: the status and, when there is one, the verdict of an action.
Disposition == [
  take_ownership       |-> <<"acknowledged", "">>,
  confirm_finding      |-> <<"acknowledged", "true_positive">>,
  close_false_positive |-> <<"false_positive", "false_positive">>,
  resolve              |-> <<"resolved", "">>,
  close_inconclusive   |-> <<"resolved", "unknown">>,
  reopen               |-> <<"open", "">>]

\* Mutant of Dispose: the verdict of a resolution is left to the caller to check.
DisposeUnchecked(f, action) ==
  LET to == Disposition[action]
  IN /\ status[f] # "absent"
     /\ status' = [status EXCEPT ![f] = to[1]]
     /\ verdict' = [verdict EXCEPT ![f] = IF to[2] = "" THEN @ ELSE to[2]]
     /\ UNCHANGED <<now, lastSeen, scanRows, archive>>

\* ApplyObservationAction: status and verdict change together, and a resolution is
\* conditional on the verdict of the row.
Dispose(f, action) ==
  LET to == Disposition[action]
  IN /\ status[f] # "absent"
     /\ action = "resolve" => verdict[f] = "true_positive"
     /\ status' = [status EXCEPT ![f] = to[1]]
     /\ verdict' = [verdict EXCEPT ![f] = IF to[2] = "" THEN @ ELSE to[2]]
     /\ UNCHANGED <<now, lastSeen, scanRows, archive>>

\* SetObservationVerdict.
SetVerdict(f, v) ==
  /\ status[f] # "absent"
  /\ verdict' = [verdict EXCEPT ![f] = v]
  /\ UNCHANGED <<now, status, lastSeen, scanRows, archive>>
-------------------------------------------------------------------------------
(***************************************************************************)
(* Retention.                                                              *)
(***************************************************************************)

\* Mutant of Retirable: findings are archived by age alone.
RetirableByAge(f) ==
  /\ status[f] # "absent"
  /\ ObservationAge > 0 /\ now - lastSeen[f] > ObservationAge

Retirable(f) ==
  /\ status[f] \in Closed
  /\ ObservationAge > 0 /\ now - lastSeen[f] > ObservationAge

\* ApplyRetention, one transaction.
ApplyRetention ==
  LET retired == {f \in Findings : Retirable(f)}
      old == {s \in Scans : /\ scans[s] # "absent"
                            /\ ScanAge > 0 /\ now - started[s] > ScanAge}
  IN /\ retired \cup (old \ expired) # {}
     /\ archive' = archive \cup {<<f, status[f]>> : f \in retired}
     /\ status' = [f \in Findings |-> IF f \in retired THEN "absent" ELSE status[f]]
     /\ expired' = expired \cup old
     /\ UNCHANGED <<now, verdict, lastSeen, scans, started, saw>>

Next ==
  \/ Tick \/ ApplyRetention
  \/ \E s \in Scans :
       \/ StartScan(s)
       \/ \E f \in Findings : See(s, f)
       \/ \E to \in {"ok", "partial", "failed"} : FinishScan(s, to)
  \/ \E f \in Findings :
       \/ Sense(f)
       \/ \E action \in DOMAIN Disposition : Dispose(f, action)
       \/ \E v \in Verdicts : SetVerdict(f, v)

Spec == Init /\ [][Next]_vars
-------------------------------------------------------------------------------
(***************************************************************************)
(* Properties.                                                             *)
(***************************************************************************)

\* s sees f in this step.
Sees(s, f) == f \in saw'[s] \ saw[s]

\* The scan that completed last, by its start, whether or not its row still exists.
Previous(t, s) ==
  /\ t # s /\ scans[t] \in Completed
  /\ \A u \in Scans \ {s} : scans[u] \in Completed => started[u] <= started[t]

\* A finding that the previous completed scan has seen stays closed, however long the
\* host could not be scanned in between (README.md, BLADEDR_REOPEN_AFTER): what reopens
\* by a scan was closed and long unseen, and there is a previous scan, which missed it.
PresentStaysClosed ==
  [][\A s \in Scans, f \in Findings :
       Sees(s, f) /\ status[f] \in Closed /\ status'[f] = "open" =>
         /\ now - lastSeen[f] >= ReopenAfter
         /\ \E t \in Scans \ {s} : scans[t] \in Completed
         /\ \A t \in Scans : Previous(t, s) => f \notin saw[t]]_vars

\* A closed finding that was absent from the previous completed scan and returns after
\* ReopenAfter reopens (README.md, BLADEDR_REOPEN_AFTER), unless retention has archived
\* that scan: nothing tells then that the finding was ever gone.
ReturnReopens ==
  [][\A s \in Scans, f \in Findings :
       /\ Sees(s, f) /\ status[f] \in Closed
       /\ ReopenAfter > 0 /\ now - lastSeen[f] >= ReopenAfter
       /\ \E t \in Scans \ expired :
            Previous(t, s) /\ f \notin saw[t] /\ lastSeen[f] < started[t]
       => status'[f] = "open"]_vars

\* Scans preserve assessments: what is seen again keeps its verdict, and a finding
\* somebody works on keeps its status.
SightingsKeepAssessment ==
  [][\A s \in Scans, f \in Findings :
       Sees(s, f) /\ status[f] # "absent" =>
         /\ verdict'[f] = verdict[f]
         /\ status'[f] # status[f] => status[f] \in Closed]_vars

\* However dispositions and verdicts of several analysts interleave, none resolves a
\* finding that is assessed as a false positive at that moment.
ResolvedNotRefuted ==
  [][\A f \in Findings :
       status[f] # "resolved" /\ status'[f] = "resolved" => verdict'[f] # "false_positive"]_vars

\* What a scan has reported is in the table, or somebody closed it and it is archived.
NoFindingLost ==
  \A s \in Scans : \A f \in saw[s] :
    status[f] # "absent" \/ \E c \in Closed : <<f, c>> \in archive
===============================================================================
