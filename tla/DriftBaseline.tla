---------------------------- MODULE DriftBaseline ----------------------------
(***************************************************************************)
(* The drift engine of bladedr for one host: applyBaseline in              *)
(* internal/scan/runner.go and the baselines row it keeps.  The first scan *)
(* establishes the baseline, later ones report every item of their digest  *)
(* that is not in it, and an administrator may reset it.                   *)
(*                                                                         *)
(* A digest is a set of items, one for each <category, item> pair.  The    *)
(* host changes at any moment, and a scan may read less than there is.     *)
(***************************************************************************)
EXTENDS Integers, FiniteSets

CONSTANTS
  Items,        \* <category, item> pairs of a state digest
  Scans,        \* scans of the host
  NoBaseline,
  Overlapping,  \* may a superseded scan still run beside its successor
  MaxResets,    \* bound: resets by an administrator
  MaxFaults     \* bound: store calls that fail for reasons of the database

ASSUME BaselineAssumption ==
  /\ Overlapping \in BOOLEAN
  /\ MaxResets \in Nat /\ MaxFaults \in Nat
  /\ \A d \in SUBSET Items : NoBaseline # d

VARIABLES
  state,     \* items that are on the host
  baseline,  \* the digest in the baselines row, or NoBaseline
  drift,     \* items with an observation baseline|category|item
  pc,        \* scan -> where it is
  digest,    \* scan -> what its probe returned
  todo,      \* scan -> items of the digest it has still to compare
  compared,  \* scan -> the baseline it compares with
  resets, faults

scan == <<pc, digest, todo, compared>>
driftVars == <<state, baseline, drift, scan, resets, faults>>

PC == {"new", "probed", "establishing", "comparing", "done", "lost"}
InProgress == {s \in Scans : pc[s] \in {"probed", "establishing", "comparing"}}

DriftTypeOK ==
  /\ state \in SUBSET Items
  /\ baseline \in {NoBaseline} \cup SUBSET Items
  /\ drift \in SUBSET Items
  /\ pc \in [Scans -> PC]
  /\ digest \in [Scans -> SUBSET Items]
  /\ todo \in [Scans -> SUBSET Items]
  /\ compared \in [Scans -> {NoBaseline} \cup SUBSET Items]
  /\ resets \in Nat /\ faults \in Nat

DriftInit ==
  /\ state \in SUBSET Items
  /\ baseline = NoBaseline
  /\ drift = {}
  /\ pc = [s \in Scans |-> "new"]
  /\ digest = [s \in Scans |-> {}]
  /\ todo = [s \in Scans |-> {}]
  /\ compared = [s \in Scans |-> NoBaseline]
  /\ resets = 0 /\ faults = 0

DatabaseFails == faults < MaxFaults /\ faults' = faults + 1
Goto(s, there) == pc' = [pc EXCEPT ![s] = there]
-------------------------------------------------------------------------------
\* Something appears on the host, or disappears.
Change(i) ==
  /\ state' = IF i \in state THEN state \ {i} ELSE state \cup {i}
  /\ UNCHANGED <<baseline, drift, scan, resets, faults>>

\* resetBaseline and DeleteBaseline.
Reset ==
  /\ resets < MaxResets
  /\ resets' = resets + 1
  /\ baseline' = NoBaseline
  /\ UNCHANGED <<state, drift, scan, faults>>

\* The probe returns a digest; applyBaseline ignores an empty one.
Probe(s) ==
  /\ pc[s] = "new"
  /\ Overlapping \/ InProgress = {}
  /\ \E d \in SUBSET state :
       /\ digest' = [digest EXCEPT ![s] = d]
       /\ Goto(s, IF d = {} THEN "done" ELSE "probed")
  /\ UNCHANGED <<state, baseline, drift, todo, compared, resets, faults>>

\* GetBaseline.  Whatever its error, there is no baseline then.
ReadBaseline(s) ==
  /\ pc[s] = "probed"
  /\ \/ baseline = NoBaseline /\ Goto(s, "establishing") /\ UNCHANGED <<todo, compared, faults>>
     \/ DatabaseFails /\ Goto(s, "establishing") /\ UNCHANGED <<todo, compared>>
     \/ /\ baseline # NoBaseline
        /\ compared' = [compared EXCEPT ![s] = baseline]
        /\ todo' = [todo EXCEPT ![s] = digest[s]]
        /\ Goto(s, "comparing")
        /\ UNCHANGED faults
  /\ UNCHANGED <<state, baseline, drift, digest, resets>>

\* SaveBaseline inserts or overwrites; its error is ignored.
Establish(s) ==
  /\ pc[s] = "establishing"
  /\ \/ baseline' = digest[s] /\ UNCHANGED faults
     \/ DatabaseFails /\ UNCHANGED baseline
  /\ Goto(s, "done")
  /\ UNCHANGED <<state, drift, digest, todo, compared, resets>>

\* Mutant of Compare: the loop ends after the first new item.
CompareFirst(s, i) ==
  /\ pc[s] = "comparing" /\ i \in todo[s]
  /\ IF i \in compared[s]
     THEN drift' = drift /\ todo' = [todo EXCEPT ![s] = @ \ {i}]
     ELSE drift' = drift \cup {i} /\ todo' = [todo EXCEPT ![s] = {}]
  /\ UNCHANGED <<state, baseline, pc, digest, compared, resets, faults>>

\* UpsertObservation for an item that is not in the baseline; its error is ignored.
Compare(s, i) ==
  /\ pc[s] = "comparing" /\ i \in todo[s]
  /\ todo' = [todo EXCEPT ![s] = @ \ {i}]
  /\ \/ i \in compared[s] /\ UNCHANGED <<drift, faults>>
     \/ i \notin compared[s] /\ drift' = drift \cup {i} /\ UNCHANGED faults
     \/ i \notin compared[s] /\ DatabaseFails /\ UNCHANGED drift
  /\ UNCHANGED <<state, baseline, pc, digest, compared, resets>>

\* Mutant of Finish: what has been reported once becomes part of the baseline.
FinishRefreshing(s) ==
  /\ pc[s] = "comparing" /\ todo[s] = {}
  /\ baseline' = digest[s]
  /\ Goto(s, "done")
  /\ UNCHANGED <<state, drift, digest, todo, compared, resets, faults>>

\* The loop over the digest ends.
Finish(s) ==
  /\ pc[s] = "comparing" /\ todo[s] = {}
  /\ Goto(s, "done")
  /\ UNCHANGED <<state, baseline, drift, digest, todo, compared, resets, faults>>

\* The process dies, or the deadline passes and every later store call fails.
Lose(s) ==
  /\ s \in InProgress
  /\ Goto(s, "lost")
  /\ UNCHANGED <<state, baseline, drift, digest, todo, compared, resets, faults>>

DriftNext ==
  \/ Reset
  \/ \E i \in Items : Change(i)
  \/ \E s \in Scans :
       \/ Probe(s) \/ ReadBaseline(s) \/ Establish(s) \/ Finish(s) \/ Lose(s)
       \/ \E i \in Items : Compare(s, i)

DriftSpec == DriftInit /\ [][DriftNext]_driftVars
-------------------------------------------------------------------------------
(***************************************************************************)
(* Properties.                                                             *)
(***************************************************************************)

\* The baseline is frozen: once there is one, only a reset by an administrator takes
\* it away, and no scan replaces it (the comment of applyBaseline).
FrozenBaseline ==
  [][baseline # NoBaseline => baseline' \in {baseline, NoBaseline}]_driftVars

\* A scan that has come to its end leaves nothing it has seen unexplained: each item is
\* an open question or was in the baseline at the time, unless the database failed.
DriftSurfaces ==
  faults = 0 =>
    \A s \in Scans :
      pc[s] = "done" /\ compared[s] # NoBaseline => digest[s] \subseteq compared[s] \cup drift

\* What has appeared since the baseline was established does not slip into it: while
\* the database works and scans exclude each other, an item that a scan reported is not
\* in the baseline until a reset, however scans are lost in between.
DriftStaysDrift ==
  faults = 0 /\ resets = 0 /\ baseline # NoBaseline => drift \cap baseline = {}
===============================================================================
