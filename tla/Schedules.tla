------------------------------ MODULE Schedules ------------------------------
(* Recurring scans: the tick of the scheduler that every server process has,  *)
(* which lists the schedules once and then fires and rewrites them one after  *)
(* another, claiming none of them, beside the API's handlers, which read a    *)
(* schedule, wait for the request's body and write it back.                   *)
(*                                                                            *)
(* Abstracted: firing a schedule puts its targets into the scan queue, which  *)
(* is the ScanQueue module's, where a host that has an active job gets no     *)
(* second one; here it is an event with a time.  The servers' clocks agree.   *)
EXTENDS Naturals, FiniteSets

CONSTANTS Schedule,       \* schedule ids
          Schedulers,     \* server processes, each with its scheduler
          Intervals,      \* interval_s values, at least minScheduleInterval
          Editors,        \* PATCH requests the server handles at a time
          LastInstant,    \* bound: the clock's last instant
          Nil             \* no row, no list, no edit, no firing

ASSUME ScheduleAssumption ==
    Intervals \subseteq Nat \ {0} /\ LastInstant \in Nat /\ Nil \notin Nat \cup Schedule

VARIABLES clock,
          schedules,   \* the schedules table
          listed,      \* each RunDue's list: the rows it has still to look at, and when it began
          advancing,   \* the schedule each RunDue has fired and not written back yet
          edits,       \* the row each running PATCH handler holds
          fired,       \* history: when each schedule fired last, and its interval then
          overlapped   \* history: since then a write of its row lost another's change, or
                       \* another server's tick had it too

scheduleVars == <<clock, schedules, listed, advancing, edits, fired, overlapped>>

Rows == [enabled : BOOLEAN, interval : Intervals, nextRun : Nat]

SchedulesInit ==
    /\ clock = 0
    /\ schedules = [s \in Schedule |-> Nil]
    /\ listed = [p \in Schedulers |-> Nil]
    /\ advancing = [p \in Schedulers |-> Nil]
    /\ edits = [e \in Editors |-> Nil]
    /\ fired = [s \in Schedule |-> Nil]
    /\ overlapped = {}

-----------------------------------------------------------------------------
(* RunDue.                                                                    *)

\* The tick's time is read, and the schedules are listed.
RunDue(p) ==
    /\ listed[p] = Nil
    /\ listed' = [listed EXCEPT ![p] = [at |-> clock, rows |-> schedules]]
    /\ overlapped' = overlapped \cup {s \in Schedule : \E q \in Schedulers : advancing[q] = s}
    /\ UNCHANGED <<clock, schedules, advancing, edits, fired>>

Has(p, s) == listed[p] # Nil /\ listed[p].rows[s] # Nil
Take(p, s) == listed' = [listed EXCEPT ![p].rows[s] = Nil]

\* Neither disabled nor early, as listed.
DueAsListed(p, s) == listed[p].rows[s].enabled /\ listed[p].at >= listed[p].rows[s].nextRun

Skip(p, s) ==
    /\ Has(p, s) /\ advancing[p] = Nil /\ ~DueAsListed(p, s)
    /\ Take(p, s)
    /\ UNCHANGED <<clock, schedules, advancing, edits, fired, overlapped>>

fire(p, s) ==
    /\ Has(p, s) /\ advancing[p] = Nil /\ DueAsListed(p, s)
    /\ advancing' = [advancing EXCEPT ![p] = s]
    /\ fired' = [fired EXCEPT ![s] = [at |-> listed[p].at, interval |-> listed[p].rows[s].interval]]
    /\ overlapped' = IF \E q \in Schedulers \ {p} : Has(q, s) THEN overlapped \cup {s}
                                                            ELSE overlapped \ {s}
    /\ UNCHANGED <<clock, schedules, listed, edits>>

\* Mutant of nextRun: counted from the time it was due.
FromDueTime(at, row) == row.nextRun + row.interval

nextRun(at, row) == at + row.interval

\* The row as listed goes back with a new time; an error is only logged.  A row
\* that is gone stays gone.
UpdateSchedule(p, s, failing) ==
    LET row == listed[p].rows[s] IN
    /\ advancing[p] = s
    /\ schedules' = IF failing \/ schedules[s] = Nil THEN schedules
                    ELSE [schedules EXCEPT ![s] = [row EXCEPT !.nextRun = nextRun(listed[p].at, row)]]
    /\ overlapped' = IF failing \/ schedules[s] # row THEN overlapped \cup {s} ELSE overlapped
    /\ advancing' = [advancing EXCEPT ![p] = Nil]
    /\ Take(p, s)
    /\ UNCHANGED <<clock, edits, fired>>

EndOfTick(p) ==
    /\ listed[p] # Nil
    /\ \A s \in Schedule : listed[p].rows[s] = Nil
    /\ listed' = [listed EXCEPT ![p] = Nil]
    /\ UNCHANGED <<clock, schedules, advancing, edits, fired, overlapped>>

\* A process stops in the middle of a tick, and of the edits it handles.
Crash(p) ==
    /\ listed' = [listed EXCEPT ![p] = Nil]
    /\ advancing' = [advancing EXCEPT ![p] = Nil]
    /\ \E lost \in SUBSET Editors : edits' = [e \in Editors |-> IF e \in lost THEN Nil ELSE edits[e]]
    /\ overlapped' = overlapped \cup ({advancing[p]} \cap Schedule)
    /\ UNCHANGED <<clock, schedules, fired>>

\* The next tick, or the next start of a server that was down for a while.
Later ==
    /\ clock < LastInstant
    /\ clock' = clock + 1
    /\ UNCHANGED <<schedules, listed, advancing, edits, fired, overlapped>>

-----------------------------------------------------------------------------
(* The API's handlers.                                                        *)

\* A new schedule, with an id nobody has seen, fires on the next tick.
createSchedule(s) ==
    /\ schedules[s] = Nil /\ fired[s] = Nil
    /\ \A p \in Schedulers : ~Has(p, s)
    /\ \A e \in Editors : edits[e] # Nil => edits[e].id # s
    /\ \E enabled \in BOOLEAN, i \in Intervals :
         schedules' = [schedules EXCEPT ![s] = [enabled |-> enabled, interval |-> i, nextRun |-> clock]]
    /\ UNCHANGED <<clock, listed, advancing, edits, fired, overlapped>>

GetSchedule(e, s) ==
    /\ edits[e] = Nil /\ schedules[s] # Nil
    /\ edits' = [edits EXCEPT ![e] = [id |-> s, row |-> schedules[s]]]
    /\ UNCHANGED <<clock, schedules, listed, advancing, fired, overlapped>>

\* Interval and enabled are the caller's; the rest is the row that was read.
patchSchedule(e) ==
    LET s == edits[e].id IN
    /\ edits[e] # Nil
    /\ \E enabled \in BOOLEAN, i \in Intervals :
         schedules' = IF schedules[s] = Nil THEN schedules
                      ELSE [schedules EXCEPT ![s] =
                              [edits[e].row EXCEPT !.enabled = enabled, !.interval = i]]
    /\ overlapped' = IF schedules[s] # edits[e].row THEN overlapped \cup {s} ELSE overlapped
    /\ edits' = [edits EXCEPT ![e] = Nil]
    /\ UNCHANGED <<clock, listed, advancing, fired>>

deleteSchedule(s) ==
    /\ schedules[s] # Nil
    /\ schedules' = [schedules EXCEPT ![s] = Nil]
    /\ UNCHANGED <<clock, listed, advancing, edits, fired, overlapped>>

SchedulesNext ==
    \/ \E p \in Schedulers :
         \/ RunDue(p) \/ EndOfTick(p) \/ Crash(p)
         \/ \E s \in Schedule :
              Skip(p, s) \/ fire(p, s) \/ \E failing \in BOOLEAN : UpdateSchedule(p, s, failing)
    \/ Later
    \/ \E s \in Schedule : createSchedule(s) \/ deleteSchedule(s)
    \/ \E e \in Editors : patchSchedule(e) \/ \E s \in Schedule : GetSchedule(e, s)

SchedulesSpec == SchedulesInit /\ [][SchedulesNext]_scheduleVars

-----------------------------------------------------------------------------
(* Properties.                                                                *)

\* A schedule never fires again before its interval is over, not even after the
\* server was down for several of them (nextRun: "so we don't backlog-fire
\* repeatedly"), unless the row was not advanced or the advance was undone: a
\* failing store, a crash, or an edit that was already under way; or unless two
\* servers' ticks had the schedule at the same time, of which nothing keeps the
\* second from firing it too.
FiringsAreSpaced ==
    [][\A p \in Schedulers, s \in Schedule :
         /\ advancing[p] = Nil /\ advancing'[p] = s
         /\ fired[s] # Nil /\ s \notin overlapped
         => listed[p].at >= fired[s].at + fired[s].interval]_scheduleVars
=============================================================================
