---------------------------- MODULE DetectionProofs ----------------------------
(***************************************************************************)
(* Proofs about detection, from the host that is watched to the analyst    *)
(* who is told: the probe launcher, the sensor's channel, the probe's      *)
(* search for what hides, the baseline of the host, then the figures that  *)
(* decide whether the risk model is trusted, and the pages of a list, each *)
(* for any values of its constants.  The sums over groups and scores are   *)
(* folds over sets; what is claimed of them for every set is proved from a *)
(* smallest counterexample.                                                *)
(***************************************************************************)
EXTENDS ProbeLauncher, SensorChannel, HiddenState, DriftBaseline, RiskEvaluation, Paging,
        SequenceTheorems, FiniteSetTheorems, WellFoundedInduction, TLAPS

-------------------------------------------------------------------------------
(* ProbeLauncher                                                             *)

Attempt == [step : {"pruned", "missing", "uploading", "uploaded", "installed", "waiting", "running"},
            version : Versions, staged : {"part", "whole", Absent}, attached : BOOLEAN,
            mode : Modes, polls : Nat, runs : {"part", "whole", Absent}]

LauncherTyped ==
  /\ login \in {"root", "other"}
  /\ cached \in [Versions -> {"part", "whole", Absent}]
  /\ old \subseteq Versions
  /\ scans \in [ProbeRuns -> Attempt \cup {Absent}]
  /\ cutOff \subseteq Versions

\* A part of a version's binary is at its path only after an upload of it was cut off.
PathsHold == \A v \in Versions : cached[v] = "part" => v \in cutOff

\* So it is in a staging file that is about to be moved there, and in what runs.
AttemptHolds(n, cut) ==
  /\ n.step = "uploading" => n.staged = "part"
  /\ n.step = "uploaded" => n.staged = "whole" \/ (n.staged = "part" /\ n.version \in cut)
  /\ n.step = "running" /\ n.runs # "whole" => n.mode # "sudo" /\ n.version \in cut

LauncherInv ==
  /\ LauncherTyped /\ PathsHold /\ OneProbeAtATime
  /\ \A s \in ProbeRuns : scans[s] # Absent => AttemptHolds(scans[s], cutOff)

\* A step of one attempt that starts no probe.
LEMMA OrdinaryStep ==
  ASSUME LauncherInv, UNCHANGED login, old' \subseteq Versions,
         cutOff \subseteq cutOff', cutOff' \subseteq Versions,
         cached' \in [Versions -> {"part", "whole", Absent}], PathsHold',
         NEW s \in ProbeRuns, NEW n \in Attempt \cup {Absent},
         scans' = [scans EXCEPT ![s] = n],
         n # Absent => AttemptHolds(n, cutOff'),
         n # Absent /\ n.step = "running" =>
           At(s, "running") /\ LockOf(scans[s].mode) = LockOf(n.mode)
  PROVE  LauncherInv'
<1>1. LauncherTyped'
  BY DEF LauncherInv, LauncherTyped
<1>2. \A t \in ProbeRuns : At(t, "running")' =>
        At(t, "running") /\ LockOf(scans'[t].mode) = LockOf(scans[t].mode)
  BY DEF LauncherInv, LauncherTyped, At
<1>3. OneProbeAtATime'
  BY <1>2 DEF LauncherInv, OneProbeAtATime
<1>4. ASSUME NEW t \in ProbeRuns, scans'[t] # Absent PROVE AttemptHolds(scans'[t], cutOff')
  <2>1. CASE t = s
    BY <1>4, <2>1 DEF LauncherInv, LauncherTyped
  <2>2. CASE t # s
    BY <1>4, <2>2 DEF LauncherInv, LauncherTyped, AttemptHolds
  <2>3. QED
    BY <2>1, <2>2
<1>5. QED
  BY <1>1, <1>3, <1>4 DEF LauncherInv

\* Where only the attempt changes.
LEMMA AttemptStep ==
  ASSUME LauncherInv, UNCHANGED <<login, cached, old>>,
         cutOff \subseteq cutOff', cutOff' \subseteq Versions,
         NEW s \in ProbeRuns, NEW n \in Attempt \cup {Absent},
         scans' = [scans EXCEPT ![s] = n],
         n # Absent => AttemptHolds(n, cutOff'),
         n # Absent /\ n.step = "running" =>
           At(s, "running") /\ LockOf(scans[s].mode) = LockOf(n.mode)
  PROVE  LauncherInv'
<1>1. PathsHold' /\ old' \subseteq Versions /\ cached' \in [Versions -> {"part", "whole", Absent}]
  BY DEF LauncherInv, LauncherTyped, PathsHold
<1>2. QED
  BY <1>1, OrdinaryStep

LEMMA LauncherInvariant == LauncherSpec => []LauncherInv
<1> USE LauncherAssumption
<1>1. LauncherInit => LauncherInv
  <2> SUFFICES ASSUME LauncherInit PROVE LauncherInv
    OBVIOUS
  <2>1. Absent # "part"
    OBVIOUS
  <2>2. QED
    BY <2>1 DEF LauncherInit, LauncherInv, LauncherTyped, PathsHold, OneProbeAtATime, At
<1>2. LauncherInv /\ [LauncherNext]_launcherVars => LauncherInv'
  <2> SUFFICES ASSUME LauncherInv, [LauncherNext]_launcherVars PROVE LauncherInv'
    OBVIOUS
  <2>0. LauncherTyped /\ PathsHold
    BY DEF LauncherInv
  <2>1. CASE HourPasses
    BY <2>1 DEF HourPasses, LauncherInv, LauncherTyped, PathsHold, AttemptHolds, OneProbeAtATime, At
  <2>2. ASSUME NEW s \in ProbeRuns, NEW v \in Versions, pruneStaleProbes(s, v) PROVE LauncherInv'
    <3> DEFINE n == [step |-> "pruned", version |-> v, staged |-> Absent, attached |-> TRUE,
                     mode |-> "root", polls |-> 0, runs |-> Absent]
    <3>1. n \in Attempt /\ n.step = "pruned"
      BY DEF Attempt, Modes
    <3>2. scans' = [scans EXCEPT ![s] = n] /\ UNCHANGED <<login, cutOff>>
      BY <2>2 DEF pruneStaleProbes
    <3>3. AttemptHolds(n, cutOff')
      BY <3>1 DEF AttemptHolds
    <3> HIDE DEF n
    <3>4. cached' \in [Versions -> {"part", "whole", Absent}] /\ old' \subseteq Versions
      BY <2>2, <2>0 DEF pruneStaleProbes, LauncherTyped
    <3>5. \A w \in Versions : cached'[w] \in {cached[w], Absent}
      BY <2>2 DEF pruneStaleProbes
    <3>6. PathsHold'
      BY <2>0, <3>2, <3>5, LauncherAssumption DEF PathsHold
    <3>7. QED
      BY <2>0, <3>1, <3>2, <3>3, <3>4, <3>6, OrdinaryStep DEF LauncherTyped
  <2>3. ASSUME NEW s \in ProbeRuns, Over(s), UNCHANGED <<login, cached, old>>,
               cutOff \subseteq cutOff', cutOff' \subseteq Versions
        PROVE  LauncherInv'
    BY <2>3, AttemptStep DEF Over
  <2>4. ASSUME NEW s \in ProbeRuns, NEW step \in {"missing", "installed"}, scans[s] # Absent, Step(s, step),
               UNCHANGED <<login, cutOff>>, old' \subseteq Versions,
               cached' \in [Versions -> {"part", "whole", Absent}], PathsHold'
        PROVE  LauncherInv'
    <3> DEFINE n == [scans[s] EXCEPT !.step = step]
    <3>1. scans[s] \in Attempt
      BY <2>0, <2>4 DEF LauncherTyped
    <3>2. n \in Attempt /\ n.step = step
      BY <3>1 DEF Attempt
    <3>3. scans' = [scans EXCEPT ![s] = n]
      BY <2>4 DEF Step
    <3>4. AttemptHolds(n, cutOff')
      BY <3>2 DEF AttemptHolds
    <3> HIDE DEF n
    <3>5. QED
      BY <2>0, <2>4, <3>2, <3>3, <3>4, OrdinaryStep DEF LauncherTyped
  <2>5. ASSUME NEW s \in ProbeRuns, probeCached(s) PROVE LauncherInv'
    <3>1. scans[s] # Absent /\ UNCHANGED <<login, cached, old, cutOff>>
      BY <2>5 DEF probeCached, At
    <3>2. Step(s, "installed") \/ Step(s, "missing")
      BY <2>5 DEF probeCached
    <3>3. PathsHold'
      BY <2>0, <3>1 DEF PathsHold
    <3>4. QED
      BY <3>1, <3>2, <3>3, <2>0, <2>4 DEF LauncherTyped
  <2>6. ASSUME NEW s \in ProbeRuns, StartInstall(s) PROVE LauncherInv'
    <3> DEFINE n == [scans[s] EXCEPT !.step = "uploading", !.staged = "part"]
    <3>1. scans[s] \in Attempt /\ UNCHANGED <<login, cached, old, cutOff>>
      BY <2>0, <2>6 DEF LauncherTyped, StartInstall, At
    <3>2. n \in Attempt /\ n.step = "uploading"
      BY <3>1 DEF Attempt
    <3>3. scans' = [scans EXCEPT ![s] = n]
      BY <2>6 DEF StartInstall
    <3>4. AttemptHolds(n, cutOff')
      BY <3>2 DEF AttemptHolds
    <3> HIDE DEF n
    <3>5. QED
      BY <2>0, <3>1, <3>2, <3>3, <3>4, AttemptStep DEF LauncherTyped
  <2>7. ASSUME NEW s \in ProbeRuns, FinishUpload(s) PROVE LauncherInv'
    <3> DEFINE n == [scans[s] EXCEPT !.step = "uploaded", !.staged = "whole"]
    <3>1. scans[s] \in Attempt /\ UNCHANGED <<login, cached, old, cutOff>>
      BY <2>0, <2>7 DEF LauncherTyped, FinishUpload, At
    <3>2. n \in Attempt /\ n.step = "uploaded" /\ n.staged = "whole"
      BY <3>1 DEF Attempt
    <3>3. scans' = [scans EXCEPT ![s] = n]
      BY <2>7 DEF FinishUpload
    <3>4. AttemptHolds(n, cutOff')
      BY <3>2 DEF AttemptHolds
    <3> HIDE DEF n
    <3>5. QED
      BY <2>0, <3>1, <3>2, <3>3, <3>4, AttemptStep DEF LauncherTyped
  <2>8. ASSUME NEW s \in ProbeRuns, Install(s) PROVE LauncherInv'
    <3> DEFINE v == scans[s].version
               b == scans[s].staged
    <3>1. /\ scans[s] \in Attempt /\ scans[s].step = "uploaded" /\ UNCHANGED <<login, cutOff>>
          /\ cached' = [cached EXCEPT ![v] = b] /\ old' = old \ {v}
      BY <2>0, <2>8 DEF LauncherTyped, Install, At
    <3>2. v \in Versions /\ AttemptHolds(scans[s], cutOff)
      BY <2>8, <3>1 DEF LauncherInv, Attempt, Install, At
    <3>3. b \in {"part", "whole"} /\ (b = "part" => v \in cutOff)
      BY <3>1, <3>2 DEF AttemptHolds
    <3> HIDE DEF v, b
    <3>4. /\ cached' \in [Versions -> {"part", "whole", Absent}] /\ old' \subseteq Versions
          /\ \A w \in Versions : cached'[w] = cached[w] \/ (w = v /\ cached'[w] = b)
      BY <2>0, <3>1, <3>2, <3>3 DEF LauncherTyped
    <3>5. PathsHold'
      BY <2>0, <3>1, <3>3, <3>4 DEF PathsHold
    <3>6. CASE Step(s, "installed")
      BY <2>4, <2>8, <3>1, <3>4, <3>5, <3>6 DEF Install, At
    <3>7. CASE Over(s)
      BY <2>0, <3>1, <3>4, <3>5, <3>7, OrdinaryStep DEF LauncherTyped, Over
    <3>8. QED
      BY <2>8, <3>6, <3>7 DEF Install
  <2>9. ASSUME NEW s \in ProbeRuns, probeCommand(s) PROVE LauncherInv'
    <3>1. PICK mode \in Modes : scans' = [scans EXCEPT ![s].step = "waiting", ![s].mode = mode]
      BY <2>9 DEF probeCommand
    <3> DEFINE n == [scans[s] EXCEPT !.step = "waiting", !.mode = mode]
    <3>2. scans[s] \in Attempt /\ UNCHANGED <<login, cached, old, cutOff>>
      BY <2>0, <2>9 DEF LauncherTyped, probeCommand, At
    <3>3. n \in Attempt /\ n.step = "waiting"
      BY <3>2 DEF Attempt
    <3>4. scans' = [scans EXCEPT ![s] = n]
      BY <3>1
    <3>5. AttemptHolds(n, cutOff')
      BY <3>3 DEF AttemptHolds
    <3> HIDE DEF n
    <3>6. QED
      BY <2>0, <3>2, <3>3, <3>4, <3>5, AttemptStep DEF LauncherTyped
  <2>10. ASSUME NEW s \in ProbeRuns, lockedProbeScript(s) PROVE LauncherInv'
    <3> DEFINE there == cached[scans[s].version]
               n == [scans[s] EXCEPT !.step = "running", !.runs = there]
    <3>1. At(s, "waiting") /\ ~Held(LockOf(scans[s].mode)) /\ UNCHANGED <<login, cached, old, cutOff>>
      BY <2>10 DEF lockedProbeScript
    <3>2. scans[s] \in Attempt
      BY <3>1, <2>0 DEF At, LauncherTyped
    <3>3. CASE Over(s)
      BY <2>0, <3>1, <3>3, <2>3 DEF LauncherTyped
    <3>4. CASE /\ there # Absent /\ (scans[s].mode = "sudo" => there = "whole")
               /\ scans' = [scans EXCEPT ![s] = n]
      <4>1. there \in {"part", "whole"} /\ (there = "part" => scans[s].version \in cutOff)
        BY <2>0, <3>2, <3>4 DEF LauncherTyped, PathsHold, Attempt
      <4>2. /\ n \in Attempt /\ n.step = "running" /\ n.runs = there
            /\ n.mode = scans[s].mode /\ n.version = scans[s].version
        BY <3>2, <4>1 DEF Attempt
      <4>3. scans' = [scans EXCEPT ![s] = n] /\ (n.mode = "sudo" => n.runs = "whole")
        BY <3>4, <4>2
      <4>4. n.runs = "whole" \/ n.version \in cutOff
        BY <4>1, <4>2
      <4> HIDE DEF n, there
      <4>5. AttemptHolds(n, cutOff')
        BY <3>1, <4>2, <4>3, <4>4 DEF AttemptHolds
      <4>6. LauncherTyped' /\ PathsHold'
        BY <2>0, <3>1, <4>2, <4>3 DEF LauncherTyped, PathsHold
      <4>7. \A t \in ProbeRuns \ {s} : scans'[t] = scans[t]
        BY <2>0, <4>3 DEF LauncherTyped
      <4>8. scans'[s] = n
        BY <2>0, <4>3 DEF LauncherTyped
      <4>9. \A t \in ProbeRuns : scans'[t] # Absent => AttemptHolds(scans'[t], cutOff')
        BY <3>1, <4>5, <4>7, <4>8 DEF LauncherInv, AttemptHolds
      <4>10. \A t \in ProbeRuns : ~(At(t, "running") /\ LockOf(scans[t].mode) = LockOf(scans[s].mode))
        BY <3>1 DEF Held
      <4>11. OneProbeAtATime'
        BY <4>2, <4>7, <4>8, <4>10 DEF LauncherInv, OneProbeAtATime, At
      <4>12. QED
        BY <4>6, <4>9, <4>11 DEF LauncherInv
    <3>5. QED
      BY <2>10, <3>3, <3>4 DEF lockedProbeScript
  <2>11. ASSUME NEW s \in ProbeRuns, scans[s] # Absent, UNCHANGED <<login, cached, old, cutOff>>,
                NEW n \in Attempt, scans' = [scans EXCEPT ![s] = n],
                n.step = scans[s].step, n.mode = scans[s].mode, n.runs = scans[s].runs,
                n.version = scans[s].version, n.staged = scans[s].staged
         PROVE  LauncherInv'
    <3>1. AttemptHolds(n, cutOff')
      BY <2>11 DEF LauncherInv, AttemptHolds
    <3>2. QED
      BY <2>0, <2>11, <3>1, AttemptStep DEF LauncherTyped, At
  <2>12. ASSUME NEW s \in ProbeRuns, PollLock(s) PROVE LauncherInv'
    <3>1. scans[s] \in Attempt /\ scans[s] # Absent /\ UNCHANGED <<login, cached, old, cutOff>>
      BY <2>0, <2>12 DEF LauncherTyped, PollLock, At
    <3>2. CASE Over(s)
      BY <2>0, <3>1, <3>2, <2>3 DEF LauncherTyped
    <3>3. CASE scans' = [scans EXCEPT ![s].polls = scans[s].polls + 1]
      <4> DEFINE n == [scans[s] EXCEPT !.polls = scans[s].polls + 1]
      <4>1. /\ n \in Attempt /\ n.step = scans[s].step /\ n.mode = scans[s].mode /\ n.runs = scans[s].runs
            /\ n.version = scans[s].version /\ n.staged = scans[s].staged
        BY <3>1 DEF Attempt
      <4>2. scans' = [scans EXCEPT ![s] = n]
        BY <3>3
      <4> HIDE DEF n
      <4>3. QED
        BY <2>11, <3>1, <4>1, <4>2
    <3>4. QED
      BY <2>12, <3>2, <3>3 DEF PollLock
  <2>13. ASSUME NEW s \in ProbeRuns, ProbeExits(s) PROVE LauncherInv'
    BY <2>0, <2>13, <2>3 DEF ProbeExits, LauncherTyped
  <2>14. ASSUME NEW s \in ProbeRuns, CloseClient(s) PROVE LauncherInv'
    <3>1. scans[s] \in Attempt /\ scans[s] # Absent /\ UNCHANGED <<login, cached, old>>
      BY <2>0, <2>14 DEF LauncherTyped, CloseClient
    <3>2. CASE Over(s) /\ UNCHANGED cutOff
      BY <2>0, <3>1, <3>2, <2>3 DEF LauncherTyped
    <3>3. CASE /\ At(s, "uploading")
               /\ scans' = [scans EXCEPT ![s].attached = FALSE, ![s].step = "uploaded"]
               /\ cutOff' = cutOff \cup {scans[s].version}
      <4> DEFINE n == [scans[s] EXCEPT !.attached = FALSE, !.step = "uploaded"]
      <4>1. n \in Attempt /\ n.step = "uploaded" /\ n.version = scans[s].version /\ n.staged = scans[s].staged
        BY <3>1 DEF Attempt
      <4>2. scans' = [scans EXCEPT ![s] = n]
        BY <3>3
      <4>3. scans[s].staged = "part"
        BY <3>1, <3>3 DEF LauncherInv, AttemptHolds, At
      <4> HIDE DEF n
      <4>4. AttemptHolds(n, cutOff') /\ cutOff' \subseteq Versions
        BY <2>0, <3>1, <3>3, <4>1, <4>3 DEF AttemptHolds, Attempt, LauncherTyped
      <4>5. QED
        BY <3>1, <3>3, <4>1, <4>2, <4>4, AttemptStep
    <3>4. CASE scans' = [scans EXCEPT ![s].attached = FALSE] /\ UNCHANGED cutOff
      <4> DEFINE n == [scans[s] EXCEPT !.attached = FALSE]
      <4>1. /\ n \in Attempt /\ n.step = scans[s].step /\ n.mode = scans[s].mode /\ n.runs = scans[s].runs
            /\ n.version = scans[s].version /\ n.staged = scans[s].staged
        BY <3>1 DEF Attempt
      <4>2. scans' = [scans EXCEPT ![s] = n]
        BY <3>4
      <4> HIDE DEF n
      <4>3. QED
        BY <2>11, <3>1, <3>4, <4>1, <4>2
    <3>5. QED
      BY <2>14, <3>2, <3>3, <3>4 DEF CloseClient
  <2>15. CASE UNCHANGED launcherVars
    BY <2>15 DEF launcherVars, LauncherInv, LauncherTyped, PathsHold, AttemptHolds, OneProbeAtATime, At
  <2>16. QED
    BY <2>1, <2>2, <2>5, <2>6, <2>7, <2>8, <2>9, <2>10, <2>12, <2>13, <2>14, <2>15 DEF LauncherNext
<1>3. QED
  BY <1>1, <1>2, PTL DEF LauncherSpec

\* Two attempts that take one lock never collect on one host at a time, also when one was
\* given up by its server and reclaimed (lockedProbeScript).
THEOREM OneCollector == LauncherSpec => []OneProbeAtATime
BY LauncherInvariant, PTL DEF LauncherInv

\* Whatever other attempts upload, replace or prune meanwhile, a part of the binary is run
\* only if an upload of that version was cut off, and never under sudo (RunProbe's remote
\* install, privilegedProbeScript's check of its own copy).
THEOREM WholeBinary == LauncherSpec => []RunsWholeProbe
<1>1. LauncherInv => RunsWholeProbe
  BY DEF LauncherInv, AttemptHolds, RunsWholeProbe, At
<1>2. QED
  BY <1>1, LauncherInvariant, PTL

-------------------------------------------------------------------------------
(* SensorChannel                                                             *)

InOrder(s) == \A i, j \in 1 .. Len(s) : i < j => s[i] < s[j]

LEMMA ElementsOf ==
  ASSUME NEW s \in Seq(Stream)
  PROVE  /\ \A e : e \in Elements(s) <=> \E i \in 1 .. Len(s) : s[i] = e
         /\ Elements(s) \subseteq Stream
BY DEF Elements

LEMMA ElementsWithin ==
  ASSUME NEW s \in Seq(Stream), NEW S, \A i \in 1 .. Len(s) : s[i] \in S
  PROVE  Elements(s) \subseteq S
BY DEF Elements

\* A sequence cut after its first k elements.
LEMMA CutAt ==
  ASSUME NEW s \in Seq(Stream), NEW k \in 0 .. Len(s)
  PROVE  /\ SubSeq(s, 1, k) \in Seq(Stream) /\ SubSeq(s, k + 1, Len(s)) \in Seq(Stream)
         /\ Elements(SubSeq(s, 1, k)) \cup Elements(SubSeq(s, k + 1, Len(s))) = Elements(s)
         /\ Len(SubSeq(s, 1, k)) = k
         /\ InOrder(s) =>
              /\ InOrder(SubSeq(s, k + 1, Len(s)))
              /\ \A e \in Elements(SubSeq(s, 1, k)), f \in Elements(SubSeq(s, k + 1, Len(s))) : e < f
<1> DEFINE first == SubSeq(s, 1, k)
           rest == SubSeq(s, k + 1, Len(s))
<1>0. k \in Nat /\ Len(s) \in Nat /\ k <= Len(s) /\ \A i \in 1 .. Len(s) : s[i] \in Stream
  OBVIOUS
<1>1. first \in Seq(Stream) /\ Len(first) = k /\ \A i \in 1 .. k : first[i] = s[i]
  <2>1. \A i \in 1 .. k : s[i] \in Stream
    BY <1>0
  <2>2. /\ first \in Seq(Stream)
        /\ Len(first) = IF 1 <= k THEN k - 1 + 1 ELSE 0
        /\ \A i \in 1 .. k - 1 + 1 : first[i] = s[1 + i - 1]
    BY <1>0, <2>1, SubSeqProperties
  <2>3. QED
    BY <1>0, <2>2
<1>2. rest \in Seq(Stream) /\ Len(rest) = Len(s) - k /\ \A i \in 1 .. Len(s) - k : rest[i] = s[i + k]
  <2>1. \A i \in k + 1 .. Len(s) : s[i] \in Stream
    BY <1>0
  <2>2. /\ rest \in Seq(Stream)
        /\ Len(rest) = IF k + 1 <= Len(s) THEN Len(s) - (k + 1) + 1 ELSE 0
        /\ \A i \in 1 .. Len(s) - (k + 1) + 1 : rest[i] = s[k + 1 + i - 1]
    BY <1>0, <2>1, SubSeqProperties
  <2>3. QED
    BY <1>0, <2>2
<1> HIDE DEF first, rest
<1>3. Elements(first) \cup Elements(rest) = Elements(s)
  <2>1. /\ \A i \in 1 .. Len(first) : first[i] \in Elements(s)
        /\ \A i \in 1 .. Len(rest) : rest[i] \in Elements(s)
    <3>1. ASSUME NEW i \in 1 .. Len(first) PROVE first[i] \in Elements(s)
      <4>1. i \in 1 .. Len(s) /\ first[i] = s[i]
        BY <1>0, <1>1
      <4>2. QED
        BY <4>1, ElementsOf
    <3>2. ASSUME NEW i \in 1 .. Len(rest) PROVE rest[i] \in Elements(s)
      <4>1. i + k \in 1 .. Len(s) /\ rest[i] = s[i + k]
        BY <1>0, <1>2
      <4>2. QED
        BY <4>1, ElementsOf
    <3>3. QED
      BY <3>1, <3>2
  <2>2. ASSUME NEW i \in 1 .. Len(s) PROVE s[i] \in Elements(first) \cup Elements(rest)
    <3>1. CASE i <= k
      BY <1>0, <1>1, <3>1, ElementsOf
    <3>2. CASE i > k
      <4>1. i - k \in 1 .. Len(rest) /\ rest[i - k] = s[i]
        BY <1>0, <1>2, <3>2
      <4>2. QED
        BY <1>2, <4>1, ElementsOf
    <3>3. QED
      BY <1>0, <3>1, <3>2
  <2>3. Elements(first) \subseteq Elements(s) /\ Elements(rest) \subseteq Elements(s)
    BY <1>1, <1>2, <2>1, ElementsWithin
  <2>4. Elements(s) \subseteq Elements(first) \cup Elements(rest)
    BY <2>2, ElementsWithin
  <2>5. QED
    BY <2>3, <2>4
<1>4. ASSUME InOrder(s)
      PROVE  InOrder(rest) /\ \A e \in Elements(first), f \in Elements(rest) : e < f
  <2>1. InOrder(rest)
    BY <1>0, <1>2, <1>4 DEF InOrder
  <2>2. ASSUME NEW i \in 1 .. k, NEW j \in 1 .. Len(rest) PROVE first[i] < rest[j]
    <3>1. i \in 1 .. Len(s) /\ j + k \in 1 .. Len(s) /\ i < j + k
      BY <1>0, <1>2
    <3>2. s[i] < s[j + k]
      BY <3>1, <1>4 DEF InOrder
    <3>3. QED
      BY <1>1, <1>2, <3>2
  <2>3. QED
    BY <1>1, <1>2, <2>1, <2>2, ElementsOf
<1>5. QED
  BY <1>1, <1>2, <1>3, <1>4 DEF first, rest

LEMMA AppendOne ==
  ASSUME NEW s \in Seq(Stream), NEW e \in Stream
  PROVE  /\ Append(s, e) \in Seq(Stream)
         /\ Elements(Append(s, e)) = Elements(s) \cup {e}
         /\ InOrder(s) /\ (\A f \in Elements(s) : f < e) => InOrder(Append(s, e))
<1>1. /\ Append(s, e) \in Seq(Stream) /\ Len(Append(s, e)) = Len(s) + 1
      /\ Append(s, e)[Len(s) + 1] = e
      /\ \A i \in 1 .. Len(s) : Append(s, e)[i] = s[i]
  OBVIOUS
<1>2. Elements(Append(s, e)) = Elements(s) \cup {e}
  <2> DEFINE t == Append(s, e)
  <2>0. t \in Seq(Stream) /\ Len(t) = Len(s) + 1 /\ t[Len(s) + 1] = e /\ \A i \in 1 .. Len(s) : t[i] = s[i]
    BY <1>1
  <2> HIDE DEF t
  <2>1. ASSUME NEW i \in 1 .. Len(t) PROVE t[i] \in Elements(s) \cup {e}
    <3>1. i = Len(s) + 1 \/ i \in 1 .. Len(s)
      BY <2>0
    <3>2. QED
      BY <2>0, <3>1, ElementsOf
  <2>2. ASSUME NEW i \in 1 .. Len(s) PROVE s[i] \in Elements(t)
    <3>1. i \in 1 .. Len(t) /\ t[i] = s[i]
      BY <2>0
    <3>2. QED
      BY <2>0, <3>1, ElementsOf
  <2>3. e \in Elements(t)
    <3>1. Len(s) + 1 \in 1 .. Len(t)
      BY <2>0
    <3>2. QED
      BY <2>0, <3>1, ElementsOf
  <2>4. Elements(t) \subseteq Elements(s) \cup {e}
    BY <2>0, <2>1, ElementsOf
  <2>5. Elements(s) \subseteq Elements(t)
    BY <2>2, ElementsOf
  <2>6. QED
    BY <2>3, <2>4, <2>5 DEF t
<1>3. InOrder(s) /\ (\A f \in Elements(s) : f < e) => InOrder(Append(s, e))
  <2> SUFFICES ASSUME InOrder(s), \A f \in Elements(s) : f < e,
                      NEW i \in 1 .. Len(s) + 1, NEW j \in 1 .. Len(s) + 1, i < j
               PROVE  Append(s, e)[i] < Append(s, e)[j]
    BY <1>1 DEF InOrder
  <2>1. i \in 1 .. Len(s) /\ s[i] \in Elements(s)
    BY ElementsOf
  <2>2. CASE j = Len(s) + 1
    BY <1>1, <2>1, <2>2
  <2>3. CASE j # Len(s) + 1
    BY <1>1, <2>1, <2>3 DEF InOrder
  <2>4. QED
    BY <2>2, <2>3
<1>4. QED
  BY <1>1, <1>2, <1>3

LEMMA HeadAndTail ==
  ASSUME NEW s \in Seq(Stream), s # <<>>
  PROVE  /\ Head(s) \in Stream /\ Tail(s) \in Seq(Stream)
         /\ Elements(s) = {Head(s)} \cup Elements(Tail(s))
         /\ InOrder(s) => InOrder(Tail(s)) /\ \A f \in Elements(Tail(s)) : Head(s) < f
<1>1. /\ Head(s) \in Stream /\ Tail(s) \in Seq(Stream) /\ Len(s) \in Nat \ {0}
      /\ Head(s) = s[1] /\ Len(Tail(s)) = Len(s) - 1
      /\ \A i \in 1 .. Len(s) - 1 : Tail(s)[i] = s[i + 1]
  OBVIOUS
<1>2. Elements(s) = {Head(s)} \cup Elements(Tail(s))
  <2>1. /\ Head(s) \in Elements(s)
        /\ \A i \in 1 .. Len(Tail(s)) : Tail(s)[i] \in Elements(s)
    <3>1. 1 \in 1 .. Len(s) /\ s[1] = Head(s)
      BY <1>1
    <3>2. ASSUME NEW i \in 1 .. Len(Tail(s)) PROVE Tail(s)[i] \in Elements(s)
      <4>1. i + 1 \in 1 .. Len(s) /\ Tail(s)[i] = s[i + 1]
        BY <1>1
      <4>2. QED
        BY <4>1, ElementsOf
    <3>3. QED
      BY <3>1, <3>2, ElementsOf
  <2>2. ASSUME NEW i \in 1 .. Len(s) PROVE s[i] \in {Head(s)} \cup Elements(Tail(s))
    <3>1. CASE i = 1
      BY <1>1, <3>1
    <3>2. CASE i # 1
      <4>1. i - 1 \in 1 .. Len(Tail(s)) /\ Tail(s)[i - 1] = s[i]
        BY <1>1, <3>2
      <4>2. QED
        BY <1>1, <4>1, ElementsOf
    <3>3. QED
      BY <3>1, <3>2
  <2>3. Elements(Tail(s)) \subseteq Elements(s)
    BY <1>1, <2>1, ElementsWithin
  <2>4. Elements(s) \subseteq {Head(s)} \cup Elements(Tail(s))
    BY <2>2, ElementsOf
  <2>5. QED
    BY <2>1, <2>3, <2>4
<1>3. InOrder(s) => InOrder(Tail(s)) /\ \A f \in Elements(Tail(s)) : Head(s) < f
  <2> SUFFICES ASSUME InOrder(s) PROVE InOrder(Tail(s)) /\ \A f \in Elements(Tail(s)) : Head(s) < f
    OBVIOUS
  <2>1. InOrder(Tail(s))
    BY <1>1 DEF InOrder
  <2>2. \A i \in 1 .. Len(Tail(s)) : Head(s) < Tail(s)[i]
    BY <1>1 DEF InOrder
  <2>3. QED
    BY <1>1, <2>1, <2>2, ElementsOf
<1>4. QED
  BY <1>1, <1>2, <1>3

ChannelTyped ==
  /\ next \in 1 .. Events + 1
  /\ pending \in Seq(Stream)
  /\ ch \in Seq(Stream)

\* What is on its way is in the order of the stream, each event once.
Ordered ==
  /\ InOrder(pending) /\ InOrder(ch)
  /\ \A e \in Elements(pending), f \in Elements(ch) : e < f
  /\ \A e \in Elements(pending) \cup Elements(ch) : e < next

\* An event still to be sent that the server has is one the agent is in doubt about.
OnlyDoubtedAgain ==
  \A e \in Stream :
    (e \in Elements(pending) \cup Elements(ch) \/ e >= next) /\ e \in ingested => e \in inDoubt

ChannelInv == ChannelTyped /\ Ordered /\ OnlyDoubtedAgain /\ NoEventVanishes

\* The batch and what remains after it.
LEMMA BatchOfPending ==
  ASSUME ChannelInv
  PROVE  LET rest == SubSeq(pending, Len(Batch) + 1, Len(pending)) IN
         /\ rest \in Seq(Stream)
         /\ Elements(Batch) \cup Elements(rest) = Elements(pending)
         /\ InOrder(rest)
         /\ \A e \in Elements(Batch), f \in Elements(rest) : e < f
<1> DEFINE k == Least(Len(pending), maxPostBatch)
<1>1. pending \in Seq(Stream) /\ InOrder(pending)
  BY DEF ChannelInv, ChannelTyped, Ordered
<1>2. k \in 0 .. Len(pending)
  BY <1>1, ChannelAssumption DEF Least
<1>3. Batch = SubSeq(pending, 1, k)
  BY DEF Batch
<1> HIDE DEF k
<1>4. Len(Batch) = k
  BY <1>1, <1>2, <1>3, CutAt
<1>5. QED
  BY <1>1, <1>2, <1>3, <1>4, CutAt

LEMMA NothingIn == Elements(<<>>) = {} /\ InOrder(<<>>) /\ <<>> \in Seq(Stream)
BY DEF Elements, InOrder

LEMMA ChannelInvariant == ChannelSpec => []ChannelInv
<1> USE ChannelAssumption
<1>1. ChannelInit => ChannelInv
  BY NothingIn DEF ChannelInit, ChannelInv, ChannelTyped, Ordered, OnlyDoubtedAgain, NoEventVanishes, Stream
<1>2. ChannelInv /\ [ChannelNext]_channelVars => ChannelInv'
  <2> SUFFICES ASSUME ChannelInv, [ChannelNext]_channelVars PROVE ChannelInv'
    OBVIOUS
  <2>0. /\ pending \in Seq(Stream) /\ ch \in Seq(Stream) /\ next \in 1 .. Events + 1
        /\ Elements(pending) \subseteq Stream /\ Elements(ch) \subseteq Stream
        /\ \A e \in Stream : e \in Nat
    BY ElementsOf DEF ChannelInv, ChannelTyped, Stream
  <2>1. CASE Read
    <3>1. /\ next \in Stream /\ ch' = Append(ch, next) /\ next' = next + 1
          /\ UNCHANGED <<pending, ingested, dropped, refused, lost, inDoubt>>
      BY <2>1, <2>0 DEF Read, serverVars, Stream
    <3>2. /\ ch' \in Seq(Stream) /\ Elements(ch') = Elements(ch) \cup {next} /\ InOrder(ch')
      <4>1. InOrder(ch) /\ \A f \in Elements(ch) : f < next
        BY DEF ChannelInv, Ordered
      <4>2. QED
        BY <2>0, <3>1, <4>1, AppendOne
    <3>3. ChannelTyped'
      BY <2>0, <3>1, <3>2 DEF ChannelTyped, Stream
    <3>4. Ordered'
      <4>1. next \in Nat /\ \A e \in Elements(pending) \cup Elements(ch) : e \in Nat /\ e < next
        BY <2>0 DEF ChannelInv, Ordered, Stream
      <4>2. \A e \in Elements(pending), f \in Elements(ch') : e < f
        BY <3>2, <4>1 DEF ChannelInv, Ordered
      <4>3. \A e \in Elements(pending) \cup Elements(ch') : e < next'
        BY <3>1, <3>2, <4>1
      <4>4. QED
        BY <3>1, <3>2, <4>2, <4>3 DEF ChannelInv, Ordered
    <3>5. OnlyDoubtedAgain'
      BY <2>0, <3>1, <3>2 DEF ChannelInv, OnlyDoubtedAgain
    <3>6. NoEventVanishes'
      BY <2>0, <3>1, <3>2 DEF ChannelInv, NoEventVanishes, Settled
    <3>7. QED
      BY <3>3, <3>4, <3>5, <3>6 DEF ChannelInv
  <2>2. CASE add
    <3> DEFINE all == Append(pending, Head(ch))
               over == IF Len(all) > maxBufferedEvents THEN Len(all) - maxBufferedEvents ELSE 0
               gone == SubSeq(all, 1, over)
               kept == SubSeq(all, over + 1, Len(all))
    <3>1. /\ ch # <<>> /\ ch' = Tail(ch) /\ pending' = kept
          /\ dropped' = dropped \cup Elements(gone)
          /\ UNCHANGED <<next, ingested, refused, lost, inDoubt>>
      BY <2>2 DEF add
    <3>2. /\ Head(ch) \in Stream /\ Tail(ch) \in Seq(Stream)
          /\ Elements(ch) = {Head(ch)} \cup Elements(Tail(ch))
          /\ InOrder(Tail(ch)) /\ \A f \in Elements(Tail(ch)) : Head(ch) < f
      BY <2>0, <3>1, HeadAndTail DEF ChannelInv, Ordered
    <3>3. all \in Seq(Stream) /\ Elements(all) = Elements(pending) \cup {Head(ch)} /\ InOrder(all)
      <4>1. InOrder(pending) /\ \A f \in Elements(pending) : f < Head(ch)
        BY <3>2 DEF ChannelInv, Ordered
      <4>2. QED
        BY <2>0, <3>2, <4>1, AppendOne
    <3> HIDE DEF all
    <3>4. over \in 0 .. Len(all)
      BY <3>3
    <3> HIDE DEF over
    <3>5. kept \in Seq(Stream) /\ Elements(gone) \cup Elements(kept) = Elements(all) /\ InOrder(kept)
      BY <3>3, <3>4, CutAt
    <3> HIDE DEF gone, kept
    <3>6. ChannelTyped'
      BY <2>0, <3>1, <3>2, <3>5 DEF ChannelTyped
    <3>7. Elements(pending') \subseteq Elements(pending) \cup {Head(ch)} /\ Elements(ch') \subseteq Elements(ch)
      BY <3>1, <3>2, <3>3, <3>5
    <3>8. Ordered'
      <4>1. \A e \in Elements(pending'), f \in Elements(ch') : e < f
        BY <3>1, <3>2, <3>7 DEF ChannelInv, Ordered
      <4>2. \A e \in Elements(pending') \cup Elements(ch') : e < next
        BY <3>2, <3>7 DEF ChannelInv, Ordered
      <4>3. QED
        BY <3>1, <3>2, <3>5, <4>1, <4>2 DEF Ordered
    <3>9. OnlyDoubtedAgain'
      BY <3>1, <3>2, <3>7 DEF ChannelInv, OnlyDoubtedAgain
    <3>10. NoEventVanishes'
      BY <3>1, <3>2, <3>3, <3>5 DEF ChannelInv, NoEventVanishes, Settled
    <3>11. QED
      BY <3>6, <3>8, <3>9, <3>10 DEF ChannelInv
  <2>3. CASE flusher \/ Elapse \/ UNCHANGED channelVars
    <3>1. UNCHANGED <<next, ch, pending, ingested, dropped, refused, lost, inDoubt>>
      BY <2>3 DEF flusher, Elapse, channelVars, agentVars, serverVars
    <3>2. QED
      BY <3>1 DEF ChannelInv, ChannelTyped, Ordered, OnlyDoubtedAgain, NoEventVanishes, Settled
  <2>4. ASSUME NEW stored \in SUBSET Elements(Batch), SendSucceeds(stored) PROVE ChannelInv'
    <3> DEFINE rest == SubSeq(pending, Len(Batch) + 1, Len(pending))
    <3>1. /\ pending' = rest
          /\ ingested' = ingested \cup stored
          /\ refused' = refused \cup (Elements(Batch) \ stored)
          /\ inDoubt' = inDoubt \ Elements(Batch)
          /\ UNCHANGED <<next, ch, dropped, lost>>
      BY <2>4 DEF SendSucceeds, ingestEvents
    <3>2. /\ rest \in Seq(Stream) /\ InOrder(rest)
          /\ Elements(Batch) \cup Elements(rest) = Elements(pending)
          /\ \A e \in Elements(Batch), f \in Elements(rest) : e < f
      BY BatchOfPending
    <3> HIDE DEF rest
    <3>3. ChannelTyped'
      BY <2>0, <3>1, <3>2 DEF ChannelTyped
    <3>4. Ordered'
      BY <3>1, <3>2 DEF ChannelInv, Ordered
    <3>5. \A e \in Stream : e \in Elements(rest) \cup Elements(ch) \/ e >= next => e \notin Elements(Batch)
      <4> SUFFICES ASSUME NEW e \in Stream, e \in Elements(Batch)
                   PROVE  e \notin Elements(rest) /\ e \notin Elements(ch) /\ ~(e >= next)
        OBVIOUS
      <4>1. e \in Nat /\ e < next /\ \A f \in Elements(ch) : e < f
        BY <2>0, <3>2 DEF ChannelInv, Ordered
      <4>2. \A f \in Elements(rest) : e < f
        BY <3>2
      <4>3. QED
        BY <2>0, <4>1, <4>2
    <3>6. OnlyDoubtedAgain'
      BY <3>1, <3>2, <3>5 DEF ChannelInv, OnlyDoubtedAgain
    <3>7. NoEventVanishes'
      BY <3>1, <3>2 DEF ChannelInv, NoEventVanishes, Settled
    <3>8. QED
      BY <3>3, <3>4, <3>6, <3>7 DEF ChannelInv
  <2>5. ASSUME NEW stored \in SUBSET Elements(Batch), SendFails(stored) PROVE ChannelInv'
    <3>1. /\ ingested' = ingested \cup stored /\ inDoubt' = inDoubt \cup Elements(Batch)
          /\ UNCHANGED <<next, ch, pending, dropped, refused, lost>>
      BY <2>5 DEF SendFails, ingestEvents
    <3>2. ChannelTyped' /\ Ordered' /\ NoEventVanishes'
      BY <3>1 DEF ChannelInv, ChannelTyped, Ordered, NoEventVanishes, Settled
    <3>3. OnlyDoubtedAgain'
      BY <3>1 DEF ChannelInv, OnlyDoubtedAgain
    <3>4. QED
      BY <3>2, <3>3 DEF ChannelInv
  <2>6. CASE Restart
    <3>1. ch' = <<>> /\ pending' = <<>> /\ UNCHANGED <<ingested, dropped, refused>>
      BY <2>6 DEF Restart
    <3>2. CASE followed
      <4>1. next' = 1 /\ inDoubt' = Stream
        BY <2>6, <3>2 DEF Restart
      <4>2. QED
        BY <3>1, <4>1, NothingIn
        DEF ChannelInv, ChannelTyped, Ordered, OnlyDoubtedAgain, NoEventVanishes, Stream
    <3>3. CASE ~followed
      <4>1. next' = next /\ inDoubt' = inDoubt /\ lost' = lost \cup Elements(ch) \cup Elements(pending)
        BY <2>6, <3>3 DEF Restart
      <4>2. QED
        BY <3>1, <4>1, NothingIn
        DEF ChannelInv, ChannelTyped, Ordered, OnlyDoubtedAgain, NoEventVanishes, Settled
    <3>4. QED
      BY <3>2, <3>3
  <2>7. QED
    BY <2>1, <2>2, <2>3, <2>4, <2>5, <2>6 DEF ChannelNext, AgentNext, Sent, NotSent
<1>3. QED
  BY <1>1, <1>2, PTL DEF ChannelSpec

\* Through retries, lost answers, partly stored batches, a full buffer and restarts, every
\* event that was read is on its way or accounted for (eventBuffer.add and flush).
THEOREM EventsAccountedFor == ChannelSpec => []NoEventVanishes
BY ChannelInvariant, PTL DEF ChannelInv

\* An event the server has is sent again only where the agent cannot know that it has it
\* (eventBuffer.flush, which keeps a chunk until it is answered for).
THEOREM NoNeedlessResend == ChannelSpec => []ResentOnlyInDoubt
<1>1. ChannelInv => ResentOnlyInDoubt
  <2> SUFFICES ASSUME ChannelInv, NEW e \in Elements(Batch), e \in ingested PROVE e \in inDoubt
    BY DEF ResentOnlyInDoubt
  <2>1. e \in Elements(pending) /\ Elements(pending) \subseteq Stream
    BY BatchOfPending, ElementsOf DEF ChannelInv, ChannelTyped
  <2>2. QED
    BY <2>1 DEF ChannelInv, OnlyDoubtedAgain
<1>2. QED
  BY <1>1, ChannelInvariant, PTL
-------------------------------------------------------------------------------
(* HiddenState                                                               *)

HiddenStateTyped ==
  /\ proc \in [Pids -> Kinds]
  /\ was \in [Pids -> SUBSET Kinds]
  /\ lives \in [Pids -> Nat]
  /\ \A p \in Pids : proc[p] \in was[p]
  /\ mods \in [Modules -> SUBSET Lists]
  /\ seenMods \in [Lists -> SUBSET Modules]
  /\ cursor \in Pids
  /\ candidates \subseteq Pids /\ hidden \subseteq Pids
  /\ reading \in {"kallsyms", "proc", "sys", "comparing", "listing", "probing", "relisting",
                  "verifying", "done"}
  /\ reading \in {"kallsyms", "proc", "sys", "comparing"} => cursor = 2

\* The collector is past pid p in the phase, later being the phases that follow it.
Past(p, phase, later) == reading \in later \/ (reading = phase /\ p < cursor)
Probed(p) == Past(p, "probing", {"relisting", "verifying", "done"})
Relisted(p) == Past(p, "relisting", {"verifying", "done"})
Verified(p) == Past(p, "verifying", {"done"})

\* What a listing shows was visible, and what hides all the while is kept through each phase.
HidersKept ==
  \A p \in Pids :
    /\ p \in firstListing \cup after => "visible" \in was[p]
    /\ was[p] = {"hidden"} =>
         /\ Probed(p) => p \in candidates
         /\ Verified(p) => p \in hidden

\* A pid that never hid and that one process has had is, once it is a candidate, this process
\* or free, and free when the second listing did not show it.
OthersCleared ==
  \A p \in Pids :
    /\ proc[p] # "none" => lives[p] >= 1
    /\ p \in candidates /\ "hidden" \notin was[p] =>
         /\ lives[p] >= 1
         /\ lives[p] = 1 => proc[p] \in {"visible", "none"}
         /\ lives[p] = 1 /\ Relisted(p) /\ p \notin after /\ ~blind => proc[p] = "none"
    /\ p \in hidden => "hidden" \in was[p] \/ lives[p] > 1 \/ blind

\* A list that was read shows the modules that stayed as they are.
ListsHold ==
  \A n \in Modules \ moved :
    /\ reading \in {"proc", "sys", "comparing"} => (n \in seenMods["kallsyms"] <=> "kallsyms" \in mods[n])
    /\ reading \in {"sys", "comparing"} => (n \in seenMods["proc"] <=> "proc" \in mods[n])
    /\ reading = "comparing" => (n \in seenMods["sys"] <=> "sys" \in mods[n])

HiddenStateInv == HiddenStateTyped /\ HidersKept /\ OthersCleared /\ ListsHold /\ HiddenModulesFound

\* A step of the module collector leaves the pids to be listed.
LEMMA ModuleStep ==
  ASSUME HiddenStateInv, UNCHANGED processVars, UNCHANGED pidVars,
         reading \in {"kallsyms", "proc", "sys", "comparing"},
         reading' \in {"proc", "sys", "comparing", "listing"}
  PROVE  HidersKept' /\ OthersCleared'
BY DEF HiddenStateInv, HidersKept, OthersCleared, processVars, pidVars, Probed, Relisted, Verified, Past

\* A step over the pids leaves the modules that were found.
LEMMA PidStep ==
  ASSUME HiddenStateInv, UNCHANGED moduleVars,
         reading \in {"listing", "probing", "relisting", "verifying"},
         reading' \in {reading, "probing", "relisting", "verifying", "done"}
  PROVE  ListsHold' /\ HiddenModulesFound'
BY DEF HiddenStateInv, ListsHold, HiddenModulesFound, moduleVars

\* The next pid, or the next phase: the collector is past the pid it was at.
LEMMA Advanced ==
  ASSUME HiddenStateTyped, NEW next2, Advance(next2), next2 # reading
  PROVE  /\ cursor' \in Pids
         /\ \/ reading' = reading /\ \A p \in Pids : p < cursor' <=> p < cursor \/ p = cursor
            \/ reading' = next2 /\ cursor' = 2 /\ \A p \in Pids : p < cursor \/ p = cursor
BY HiddenStateAssumption DEF HiddenStateTyped, Advance, Pids

LEMMA HiddenStateStarts == HiddenStateInit => HiddenStateInv
<1> SUFFICES ASSUME HiddenStateInit PROVE HiddenStateInv
  OBVIOUS
<1>1. HiddenStateTyped
  BY HiddenStateAssumption DEF HiddenStateInit, HiddenStateTyped, Pids, Kinds, Lists
<1>2. HidersKept /\ OthersCleared
  BY DEF HiddenStateInit, HidersKept, OthersCleared, Probed, Relisted, Verified, Past
<1>3. ListsHold /\ HiddenModulesFound
  BY DEF HiddenStateInit, ListsHold, HiddenModulesFound
<1> QED BY <1>1, <1>2, <1>3 DEF HiddenStateInv

LEMMA HostStep ==
  ASSUME HiddenStateInv, NEW p \in Pids, NEW kind \in Kinds, Become(p, kind)
  PROVE  HiddenStateInv'
<1> USE DEF HiddenStateInv, pidVars, moduleVars
<1>1. HiddenStateTyped'
  BY DEF HiddenStateTyped, Become, Happens
<1>2. HidersKept'
  BY DEF HidersKept, HiddenStateTyped, Become, Probed, Verified, Past
<1>3. OthersCleared'
  <2> SUFFICES ASSUME NEW q \in Pids
               PROVE /\ proc'[q] # "none" => lives'[q] >= 1
                     /\ q \in candidates' /\ "hidden" \notin was'[q] =>
                          /\ lives'[q] >= 1
                          /\ lives'[q] = 1 => proc'[q] \in {"visible", "none"}
                          /\ lives'[q] = 1 /\ Relisted(q)' /\ q \notin after' /\ ~blind' => proc'[q] = "none"
                     /\ q \in hidden' => "hidden" \in was'[q] \/ lives'[q] > 1 \/ blind'
    BY DEF OthersCleared
  <2>1. Relisted(q)' <=> Relisted(q)
    BY DEF Relisted, Past, Become
  <2>2. CASE q # p
    BY <2>1, <2>2 DEF OthersCleared, HiddenStateTyped, Become
  <2>3. CASE q = p /\ kind = "none"
    BY <2>1, <2>3 DEF OthersCleared, HiddenStateTyped, Become
  <2>4. CASE q = p /\ kind # "none"
    BY <2>1, <2>4 DEF OthersCleared, HiddenStateTyped, Become
  <2> QED BY <2>2, <2>3, <2>4
<1>4. ListsHold' /\ HiddenModulesFound'
  BY DEF ListsHold, HiddenModulesFound, Become
<1> QED BY <1>1, <1>2, <1>3, <1>4

LEMMA ModuleMovesStep ==
  ASSUME HiddenStateInv, NEW n \in Modules, ModuleMoves(n)
  PROVE  HiddenStateInv'
<1> USE DEF HiddenStateInv, pidVars, processVars
<1>1. HiddenStateTyped'
  BY DEF HiddenStateTyped, ModuleMoves, Happens
<1>2. HidersKept' /\ OthersCleared'
  BY DEF HidersKept, OthersCleared, ModuleMoves, Probed, Relisted, Verified, Past
<1>3. ListsHold' /\ HiddenModulesFound'
  BY DEF ListsHold, HiddenModulesFound, ModuleMoves, HiddenStateTyped
<1> QED BY <1>1, <1>2, <1>3

\* A list is read, or cannot be: the order is kallsyms, /proc/modules, /sys/module.
LEMMA ReadListStep ==
  ASSUME HiddenStateInv, NEW l \in Lists, NEW phase, NEW next2,
         <<l, phase, next2>> \in {<<"kallsyms", "kallsyms", "proc">>, <<"proc", "proc", "sys">>,
                                  <<"sys", "sys", "comparing">>},
         ReadList(l, phase, next2) \/ ReadListFails(phase, next2)
  PROVE  HiddenStateInv'
<1> USE DEF HiddenStateInv
<1>1. /\ l = phase
      /\ \/ phase = "kallsyms" /\ next2 = "proc"
         \/ phase = "proc" /\ next2 = "sys"
         \/ phase = "sys" /\ next2 = "comparing"
  OBVIOUS
<1>2. HidersKept' /\ OthersCleared'
  BY <1>1, ModuleStep DEF ReadList, ReadListFails
<1>3. CASE ReadList(l, phase, next2)
  <2>1. HiddenStateTyped'
    BY <1>1, <1>3 DEF HiddenStateTyped, ReadList, processVars, pidVars
  <2>2. ListsHold' /\ HiddenModulesFound'
    BY <1>1, <1>3 DEF ListsHold, HiddenModulesFound, ReadList, HiddenStateTyped, Lists
  <2> QED BY <1>2, <2>1, <2>2
<1>4. CASE ReadListFails(phase, next2)
  <2>1. HiddenStateTyped'
    BY <1>1, <1>4 DEF HiddenStateTyped, ReadListFails, processVars, pidVars
  <2>2. ListsHold' /\ HiddenModulesFound'
    BY <1>1, <1>4 DEF ListsHold, HiddenModulesFound, ReadListFails
  <2> QED BY <1>2, <2>1, <2>2
<1> QED BY <1>3, <1>4

LEMMA ComparingStep ==
  ASSUME HiddenStateInv, collectHiddenModules
  PROVE  HiddenStateInv'
<1> USE DEF HiddenStateInv
<1>1. HiddenStateTyped'
  BY DEF HiddenStateTyped, collectHiddenModules, processVars, pidVars
<1>2. HidersKept' /\ OthersCleared'
  BY ModuleStep DEF collectHiddenModules
<1>3. ListsHold'
  BY DEF ListsHold, collectHiddenModules
<1>4. HiddenModulesFound'
  <2> SUFFICES ASSUME NEW n \in Modules \ moved
               PROVE n \in hiddenMods' <=> mods[n] \in {{"proc"}, {"proc", "kallsyms"}, {"kallsyms"}}
    BY DEF HiddenModulesFound, collectHiddenModules
  <2>1. \A l \in Lists : n \in seenMods[l] <=> l \in mods[n]
    BY DEF ListsHold, collectHiddenModules, Lists
  <2>2. n \in hiddenMods' <=> \/ "proc" \in mods[n] /\ "sys" \notin mods[n]
                              \/ "kallsyms" \in mods[n] /\ "proc" \notin mods[n] /\ "sys" \notin mods[n]
    BY <2>1 DEF collectHiddenModules, Lists
  <2>3. mods[n] \subseteq {"kallsyms", "proc", "sys"}
    BY DEF HiddenStateTyped, Lists
  <2> QED BY <2>2, <2>3
<1> QED BY <1>1, <1>2, <1>3, <1>4

LEMMA ListingStep ==
  ASSUME HiddenStateInv, readProcPidSet \/ ListingFails
  PROVE  HiddenStateInv'
<1> USE DEF HiddenStateInv, processVars, moduleVars
<1>1. CASE readProcPidSet
  <2>1. /\ cursor' \in Pids
        /\ reading' \in {"listing", "probing"} /\ (reading' = "probing" => cursor' = 2)
    BY <1>1, Advanced DEF readProcPidSet
  <2>2. HiddenStateTyped'
    BY <1>1, <2>1 DEF HiddenStateTyped, readProcPidSet
  <2>3. HidersKept' /\ OthersCleared'
    BY <1>1, <2>1 DEF HidersKept, OthersCleared, readProcPidSet, HiddenStateTyped, Probed, Relisted,
                      Verified, Past, Pids
  <2>4. ListsHold' /\ HiddenModulesFound'
    BY <1>1, <2>1, PidStep DEF readProcPidSet
  <2> QED BY <2>2, <2>3, <2>4
<1>2. CASE ListingFails
  <2>1. HiddenStateTyped'
    BY <1>2, HiddenStateAssumption DEF HiddenStateTyped, ListingFails, Pids
  <2>2. HidersKept' /\ OthersCleared'
    BY <1>2 DEF HidersKept, OthersCleared, ListingFails, Probed, Relisted, Verified, Past, Pids
  <2>3. ListsHold' /\ HiddenModulesFound'
    BY <1>2, PidStep DEF ListingFails
  <2> QED BY <2>1, <2>2, <2>3
<1> QED BY <1>1, <1>2

LEMMA ProbingStep ==
  ASSUME HiddenStateInv, CollectCandidates
  PROVE  HiddenStateInv'
<1> USE DEF HiddenStateInv, processVars, moduleVars
<1>1. /\ cursor' \in Pids
      /\ \/ reading' = "probing" /\ \A p \in Pids : p < cursor' <=> p < cursor \/ p = cursor
         \/ reading' = "relisting" /\ cursor' = 2 /\ \A p \in Pids : p < cursor \/ p = cursor
  BY Advanced DEF CollectCandidates
<1>2. HiddenStateTyped'
  BY <1>1 DEF HiddenStateTyped, CollectCandidates
<1>3. /\ \A p \in Pids : Probed(p)' <=> Probed(p) \/ p = cursor
      /\ \A p \in Pids : ~Relisted(p)' /\ ~Verified(p)'
  BY <1>1 DEF CollectCandidates, Probed, Relisted, Verified, Past, Pids
<1>4. \A p \in Pids : p \in candidates' <=>
        p \in candidates \/ (p = cursor /\ cursor \notin firstListing /\ proc[p] \in {"visible", "hidden"})
  BY DEF CollectCandidates, readTgid
<1>5. HidersKept'
  BY <1>3, <1>4 DEF HidersKept, CollectCandidates, HiddenStateTyped
<1>6. OthersCleared'
  BY <1>3, <1>4 DEF OthersCleared, CollectCandidates, HiddenStateTyped
<1>7. ListsHold' /\ HiddenModulesFound'
  BY <1>1, PidStep DEF CollectCandidates
<1> QED BY <1>2, <1>5, <1>6, <1>7

LEMMA RelistingStep ==
  ASSUME HiddenStateInv, ListAgain \/ ListingAgainFails
  PROVE  HiddenStateInv'
<1> USE DEF HiddenStateInv, processVars, moduleVars
<1>1. CASE ListAgain
  <2>1. /\ cursor' \in Pids
        /\ \/ reading' = "relisting" /\ \A p \in Pids : p < cursor' <=> p < cursor \/ p = cursor
           \/ reading' = "verifying" /\ cursor' = 2 /\ \A p \in Pids : p < cursor \/ p = cursor
    BY <1>1, Advanced DEF ListAgain
  <2>2. HiddenStateTyped'
    BY <1>1, <2>1 DEF HiddenStateTyped, ListAgain
  <2>3. /\ \A p \in Pids : Relisted(p)' <=> Relisted(p) \/ p = cursor
        /\ \A p \in Pids : Probed(p) /\ ~Verified(p)'
    BY <1>1, <2>1 DEF ListAgain, Probed, Relisted, Verified, Past, Pids
  <2>4. \A p \in Pids : p \in after' <=> p \in after \/ (p = cursor /\ proc[p] = "visible")
    BY <1>1 DEF ListAgain
  <2>5. HidersKept'
    BY <1>1, <2>3, <2>4 DEF HidersKept, ListAgain, HiddenStateTyped
  <2>6. OthersCleared'
    BY <1>1, <2>3, <2>4 DEF OthersCleared, ListAgain, HiddenStateTyped
  <2>7. ListsHold' /\ HiddenModulesFound'
    BY <1>1, <2>1, PidStep DEF ListAgain
  <2> QED BY <2>2, <2>5, <2>6, <2>7
<1>2. CASE ListingAgainFails
  <2>1. HiddenStateTyped'
    BY <1>2, HiddenStateAssumption DEF HiddenStateTyped, ListingAgainFails, Pids
  <2>2. \A p \in Pids : Probed(p) /\ ~Verified(p)'
    BY <1>2 DEF ListingAgainFails, Probed, Verified, Past, Pids
  <2>3. HidersKept' /\ OthersCleared'
    BY <1>2, <2>2 DEF HidersKept, OthersCleared, ListingAgainFails
  <2>4. ListsHold' /\ HiddenModulesFound'
    BY <1>2, PidStep DEF ListingAgainFails
  <2> QED BY <2>1, <2>3, <2>4
<1> QED BY <1>1, <1>2

LEMMA VerifyingStep ==
  ASSUME HiddenStateInv, collectHiddenPIDs
  PROVE  HiddenStateInv'
<1> USE DEF HiddenStateInv, processVars, moduleVars
<1>1. /\ cursor' \in Pids
      /\ \/ reading' = "verifying" /\ \A p \in Pids : p < cursor' <=> p < cursor \/ p = cursor
         \/ reading' = "done" /\ cursor' = 2 /\ \A p \in Pids : p < cursor \/ p = cursor
  BY Advanced DEF collectHiddenPIDs
<1>2. HiddenStateTyped'
  BY <1>1 DEF HiddenStateTyped, collectHiddenPIDs
<1>3. /\ \A p \in Pids : Verified(p)' <=> Verified(p) \/ p = cursor
      /\ \A p \in Pids : Probed(p) /\ Relisted(p) /\ Relisted(p)'
  BY <1>1 DEF collectHiddenPIDs, Probed, Relisted, Verified, Past, Pids
<1>4. \A p \in Pids : p \in hidden' <=>
        p \in hidden \/ (p = cursor /\ p \in candidates /\ p \notin after /\ proc[p] \in {"visible", "hidden"})
  BY DEF collectHiddenPIDs, readTgid
<1>5. HidersKept'
  BY <1>3, <1>4 DEF HidersKept, collectHiddenPIDs, HiddenStateTyped
<1>6. OthersCleared'
  BY <1>3, <1>4 DEF OthersCleared, collectHiddenPIDs, HiddenStateTyped
<1>7. ListsHold' /\ HiddenModulesFound'
  BY <1>1, PidStep DEF collectHiddenPIDs
<1> QED BY <1>2, <1>5, <1>6, <1>7

\* The invariant of the search for what hides, for any pids and modules.
THEOREM HiddenStateInvariant == HiddenStateSpec => []HiddenStateInv
<1>1. HiddenStateInv /\ [HiddenStateNext]_hiddenVars => HiddenStateInv'
  <2> SUFFICES ASSUME HiddenStateInv, [HiddenStateNext]_hiddenVars PROVE HiddenStateInv'
    OBVIOUS
  <2>1. CASE \E p \in Pids, kind \in Kinds : Become(p, kind)
    BY <2>1, HostStep
  <2>2. CASE \E n \in Modules : ModuleMoves(n)
    BY <2>2, ModuleMovesStep
  <2>3. CASE readProcPidSet \/ ListingFails
    BY <2>3, ListingStep
  <2>4. CASE CollectCandidates
    BY <2>4, ProbingStep
  <2>5. CASE ListAgain \/ ListingAgainFails
    BY <2>5, RelistingStep
  <2>6. CASE collectHiddenPIDs
    BY <2>6, VerifyingStep
  <2>7. CASE collectKallsyms
    BY <2>7, ReadListStep DEF collectKallsyms, Lists
  <2>8. CASE ReadProcModules
    BY <2>8, ReadListStep DEF ReadProcModules, Lists
  <2>9. CASE ReadSysModule
    BY <2>9, ReadListStep DEF ReadSysModule, Lists
  <2>10. CASE collectHiddenModules
    BY <2>10, ComparingStep
  <2>11. CASE UNCHANGED hiddenVars
    BY <2>11 DEF HiddenStateInv, HiddenStateTyped, HidersKept, OthersCleared, ListsHold, HiddenModulesFound,
                 hiddenVars, processVars, pidVars, moduleVars, Probed, Relisted, Verified, Past
  <2> QED BY <2>1, <2>2, <2>3, <2>4, <2>5, <2>6, <2>7, <2>8, <2>9, <2>10, <2>11 DEF HiddenStateNext
<1> QED BY <1>1, HiddenStateStarts, PTL DEF HiddenStateSpec

\* A process that hides all the while is found, and what is reported did hide: collectHiddenPIDs
\* probes every pid, whatever the listings lacked.
THEOREM HidersFound == HiddenStateSpec => []HiddenProcessesFound
<1>1. HiddenStateInv => HiddenProcessesFound
  BY DEF HiddenStateInv, HiddenStateTyped, HidersKept, OthersCleared, HiddenProcessesFound, Verified, Past
<1> QED BY <1>1, HiddenStateInvariant, PTL

\* Of the modules that stayed as they were, collectHiddenModules reports exactly those that
\* /sys/module lacks and another list shows, in this way.
THEOREM HiddenModulesListed == HiddenStateSpec => []HiddenModulesFound
<1>1. HiddenStateInv => HiddenModulesFound
  BY DEF HiddenStateInv
<1> QED BY <1>1, HiddenStateInvariant, PTL

-------------------------------------------------------------------------------
(* DriftBaseline                                                             *)

USE BaselineAssumption

\* Type correctness: digests, the baseline and the reported items keep their types
\* through every scan, reset and failing call.
THEOREM DriftTypeCorrect == DriftSpec => []DriftTypeOK
<1>1. DriftInit => DriftTypeOK
  BY DEF DriftInit, DriftTypeOK, PC
<1>2. DriftTypeOK /\ [DriftNext]_driftVars => DriftTypeOK'
  <2> SUFFICES ASSUME DriftTypeOK, [DriftNext]_driftVars PROVE DriftTypeOK'
    OBVIOUS
  <2> USE DEF DriftTypeOK, scan, Goto, PC, DatabaseFails
  <2>1. CASE Reset
    BY <2>1 DEF Reset
  <2>2. ASSUME NEW i \in Items, Change(i) PROVE DriftTypeOK'
    BY <2>2 DEF Change
  <2>3. ASSUME NEW s \in Scans, Probe(s) PROVE DriftTypeOK'
    BY <2>3 DEF Probe
  <2>4. ASSUME NEW s \in Scans, ReadBaseline(s) PROVE DriftTypeOK'
    BY <2>4 DEF ReadBaseline
  <2>5. ASSUME NEW s \in Scans, Establish(s) PROVE DriftTypeOK'
    BY <2>5 DEF Establish
  <2>6. ASSUME NEW s \in Scans, NEW i \in Items, Compare(s, i) PROVE DriftTypeOK'
    BY <2>6 DEF Compare
  <2>7. ASSUME NEW s \in Scans, Finish(s) \/ Lose(s) PROVE DriftTypeOK'
    BY <2>7 DEF Finish, Lose
  <2>8. CASE UNCHANGED driftVars
    BY <2>8 DEF driftVars
  <2>9. QED
    BY <2>1, <2>2, <2>3, <2>4, <2>5, <2>6, <2>7, <2>8 DEF DriftNext
<1>3. QED
  BY <1>1, <1>2, PTL DEF DriftSpec
-------------------------------------------------------------------------------
\* Every item of a digest that has been taken off the list is explained, unless a store
\* call failed; and only a scan that compares has a list.
ComparedExplained ==
  faults = 0 =>
    \A s \in Scans :
      /\ compared[s] # NoBaseline /\ pc[s] \in {"comparing", "done"} =>
           digest[s] \subseteq compared[s] \cup drift \cup todo[s]
      /\ pc[s] = "done" => todo[s] = {}
      /\ pc[s] \in {"new", "probed", "establishing"} =>
           todo[s] = {} /\ compared[s] = NoBaseline

LEMMA ComparedExplainedInvariant == DriftSpec => []ComparedExplained
<1>1. DriftInit => ComparedExplained
  BY DEF DriftInit, ComparedExplained
<1>2. DriftTypeOK /\ ComparedExplained /\ [DriftNext]_driftVars => ComparedExplained'
  <2> SUFFICES ASSUME DriftTypeOK, ComparedExplained, [DriftNext]_driftVars, faults' = 0
               PROVE  ComparedExplained'
    BY DEF ComparedExplained
  <2>0. faults = 0
    <3>1. faults' = faults \/ faults' = faults + 1
      BY DEF DriftNext, driftVars, Reset, Change, Probe, ReadBaseline, Establish, Compare,
             Finish, Lose, DatabaseFails
    <3>2. QED
      BY <3>1 DEF DriftTypeOK
  <2> USE <2>0 DEF DriftTypeOK, ComparedExplained, scan, Goto, PC, DatabaseFails
  <2>1. CASE Reset
    BY <2>1 DEF Reset
  <2>2. ASSUME NEW i \in Items, Change(i) PROVE ComparedExplained'
    BY <2>2 DEF Change
  <2>3. ASSUME NEW s \in Scans, Probe(s) PROVE ComparedExplained'
    BY <2>3 DEF Probe
  <2>4. ASSUME NEW s \in Scans, ReadBaseline(s) PROVE ComparedExplained'
    BY <2>4 DEF ReadBaseline
  <2>5. ASSUME NEW s \in Scans, Establish(s) PROVE ComparedExplained'
    BY <2>5 DEF Establish
  <2>6. ASSUME NEW s \in Scans, NEW i \in Items, Compare(s, i) PROVE ComparedExplained'
    BY <2>6 DEF Compare
  <2>7. ASSUME NEW s \in Scans, Finish(s) \/ Lose(s) PROVE ComparedExplained'
    BY <2>7 DEF Finish, Lose, InProgress
  <2>8. CASE UNCHANGED driftVars
    BY <2>8 DEF driftVars
  <2>9. QED
    BY <2>1, <2>2, <2>3, <2>4, <2>5, <2>6, <2>7, <2>8 DEF DriftNext
<1>3. QED
  BY <1>1, <1>2, DriftTypeCorrect, PTL DEF DriftSpec

\* Drift surfaces: while the database works, what a finished scan has seen is in the
\* baseline it compared with or reported, whether or not scans overlap.
THEOREM Surfaces == DriftSpec => []DriftSurfaces
<1>1. ComparedExplained => DriftSurfaces
  BY DEF ComparedExplained, DriftSurfaces
<1>2. QED
  BY <1>1, ComparedExplainedInvariant, PTL
-------------------------------------------------------------------------------
\* One scan at a time; the one about to establish a baseline is right that there is
\* none, and the one that compares does so with the present one, or that was reset.
OneAtATime ==
  /\ \A s, t \in InProgress : s = t
  /\ faults = 0 => \A s \in Scans : pc[s] = "establishing" => baseline = NoBaseline

LEMMA OneAtATimeInvariant ==
  ASSUME ~Overlapping PROVE DriftSpec => []OneAtATime
<1>1. DriftInit => OneAtATime
  BY DEF DriftInit, OneAtATime, InProgress
<1>2. DriftTypeOK /\ OneAtATime /\ [DriftNext]_driftVars => OneAtATime'
  <2> SUFFICES ASSUME DriftTypeOK, OneAtATime, [DriftNext]_driftVars PROVE OneAtATime'
    OBVIOUS
  <2> USE DEF DriftTypeOK, OneAtATime, InProgress, scan, Goto, PC, DatabaseFails
  <2>1. CASE Reset
    BY <2>1 DEF Reset
  <2>2. ASSUME NEW i \in Items, Change(i) PROVE OneAtATime'
    BY <2>2 DEF Change
  <2>3. ASSUME NEW s \in Scans, Probe(s) PROVE OneAtATime'
    BY <2>3 DEF Probe
  <2>4. ASSUME NEW s \in Scans, ReadBaseline(s) PROVE OneAtATime'
    BY <2>4 DEF ReadBaseline
  <2>5. ASSUME NEW s \in Scans, Establish(s) PROVE OneAtATime'
    BY <2>5 DEF Establish
  <2>6. ASSUME NEW s \in Scans, NEW i \in Items, Compare(s, i) PROVE OneAtATime'
    BY <2>6 DEF Compare
  <2>7. ASSUME NEW s \in Scans, Finish(s) \/ Lose(s) PROVE OneAtATime'
    BY <2>7 DEF Finish, Lose
  <2>8. CASE UNCHANGED driftVars
    BY <2>8 DEF driftVars
  <2>9. QED
    BY <2>1, <2>2, <2>3, <2>4, <2>5, <2>6, <2>7, <2>8 DEF DriftNext
<1>3. QED
  BY <1>1, <1>2, DriftTypeCorrect, PTL DEF DriftSpec

\* No store call has failed when none may.
LEMMA NoFaults == ASSUME MaxFaults = 0 PROVE DriftSpec => [](faults = 0)
<1>1. DriftInit => faults = 0
  BY DEF DriftInit
<1>2. faults = 0 /\ [DriftNext]_driftVars => (faults = 0)'
  BY DEF DriftNext, driftVars, scan, Reset, Change, Probe, ReadBaseline, Establish, Compare,
         Finish, Lose, DatabaseFails
<1>3. QED
  BY <1>1, <1>2, PTL DEF DriftSpec

\* The baseline is frozen when scans exclude each other and the database works: only a
\* reset takes it away, and nothing replaces it.
THEOREM Frozen ==
  ASSUME ~Overlapping, MaxFaults = 0 PROVE DriftSpec => FrozenBaseline
<1> DEFINE Keeps == baseline # NoBaseline => baseline' \in {baseline, NoBaseline}
<1>1. OneAtATime /\ faults = 0 /\ [DriftNext]_driftVars => [Keeps]_driftVars
  <2> SUFFICES ASSUME OneAtATime, faults = 0, DriftNext, baseline # NoBaseline
               PROVE  baseline' \in {baseline, NoBaseline}
    OBVIOUS
  <2>1. ASSUME NEW s \in Scans, Establish(s) PROVE FALSE
    BY <2>1 DEF Establish, OneAtATime
  <2>2. QED
    BY <2>1 DEF DriftNext, Reset, Change, Probe, ReadBaseline, Compare, Finish, Lose
<1>2. QED
  BY <1>1, OneAtATimeInvariant, NoFaults, PTL DEF DriftSpec, FrozenBaseline
-------------------------------------------------------------------------------
\* Until a reset, a scan compares with the present baseline, and nothing is reported
\* before there is one.
ComparesWithPresent ==
  faults = 0 /\ resets = 0 =>
    /\ baseline = NoBaseline => drift = {}
    /\ baseline # NoBaseline => drift \cap baseline = {}
    /\ \A s \in Scans :
         pc[s] = "comparing" => compared[s] = baseline /\ baseline # NoBaseline

\* An item that was reported as drift does not slip into the baseline while scans
\* exclude each other, no call fails and nobody resets it.
THEOREM StaysDrift == ASSUME ~Overlapping PROVE DriftSpec => []DriftStaysDrift
<1>1. DriftInit => ComparesWithPresent
  BY DEF DriftInit, ComparesWithPresent
<1>2. DriftTypeOK /\ OneAtATime /\ ComparesWithPresent /\ [DriftNext]_driftVars => ComparesWithPresent'
  <2> SUFFICES ASSUME DriftTypeOK, OneAtATime, ComparesWithPresent, [DriftNext]_driftVars,
                      faults' = 0, resets' = 0
               PROVE  ComparesWithPresent'
    BY DEF ComparesWithPresent
  <2>0. faults = 0 /\ resets = 0 /\ ~Reset
    <3>1. faults' = faults \/ faults' = faults + 1
      BY DEF DriftNext, driftVars, Reset, Change, Probe, ReadBaseline, Establish, Compare,
             Finish, Lose, DatabaseFails
    <3>2. resets' = resets \/ resets' = resets + 1
      BY DEF DriftNext, driftVars, Reset, Change, Probe, ReadBaseline, Establish, Compare,
             Finish, Lose
    <3>3. QED
      BY <3>1, <3>2 DEF DriftTypeOK, Reset
  <2> USE <2>0 DEF DriftTypeOK, OneAtATime, ComparesWithPresent, scan, Goto, PC, DatabaseFails
  <2>2. ASSUME NEW i \in Items, Change(i) PROVE ComparesWithPresent'
    BY <2>2 DEF Change
  <2>3. ASSUME NEW s \in Scans, Probe(s) PROVE ComparesWithPresent'
    BY <2>3 DEF Probe
  <2>4. ASSUME NEW s \in Scans, ReadBaseline(s) PROVE ComparesWithPresent'
    BY <2>4 DEF ReadBaseline
  <2>5. ASSUME NEW s \in Scans, Establish(s) PROVE ComparesWithPresent'
    BY <2>5 DEF Establish, InProgress
  <2>6. ASSUME NEW s \in Scans, NEW i \in Items, Compare(s, i)
        PROVE ComparesWithPresent'
    BY <2>6 DEF Compare
  <2>7. ASSUME NEW s \in Scans, Finish(s) \/ Lose(s) PROVE ComparesWithPresent'
    BY <2>7 DEF Finish, Lose, InProgress
  <2>8. CASE UNCHANGED driftVars
    BY <2>8 DEF driftVars
  <2>9. QED
    BY <2>2, <2>3, <2>4, <2>5, <2>6, <2>7, <2>8 DEF DriftNext
<1>3. ComparesWithPresent => DriftStaysDrift
  BY DEF ComparesWithPresent, DriftStaysDrift
<1>4. QED
  BY <1>1, <1>2, <1>3, DriftTypeCorrect, OneAtATimeInvariant, PTL DEF DriftSpec

HIDE BaselineAssumption

-------------------------------------------------------------------------------
(* Smallest counterexamples: induction over finite sets and numbers          *)

\* Of subsets of a finite set, one has no other of them in it: how a claim about every
\* finite set is proved, from its smallest counterexample.
LEMMA SmallestSubset ==
  ASSUME NEW D, IsFiniteSet(D), NEW T, T \subseteq SUBSET D, T # {}
  PROVE  \E s \in T : \A u \in T : ~(u \subseteq s /\ u # s)
<1>1. IsWellFoundedOn(StrictSubsetOrdering(D), FiniteSubsetsOf(D))
  BY FS_StrictSubsetOrderingWellFounded
<1>2. FiniteSubsetsOf(D) = SUBSET D
  BY FS_FiniteSubsetsOfFinite
<1>3. PICK s \in T : \A u \in T : ~(<<u, s>> \in StrictSubsetOrdering(D))
  BY <1>1, <1>2, WFMin
<1>4. QED
  BY <1>3 DEF StrictSubsetOrdering

\* Induction over the numbers, of a set: it has no smallest number outside it.
LEMMA Climb ==
  ASSUME NEW T, 0 \in T, \A n \in Nat : n \in T => n + 1 \in T
  PROVE  Nat \subseteq T
<1> SUFFICES ASSUME Nat \ T # {} PROVE FALSE
  OBVIOUS
<1>1. PICK n \in Nat \ T : \A m \in Nat \ T : ~(<<m, n>> \in OpToRel(<, Nat))
  BY NatLessThanWellFounded, WFMin
<1>2. n # 0 /\ n - 1 \in Nat /\ n - 1 < n
  OBVIOUS
<1>3. n - 1 \in T
  BY <1>1, <1>2 DEF OpToRel
<1>4. QED
  BY <1>2, <1>3

\* A finite set has a first element in any order that compares all of them.
LEMMA FirstInOrder ==
  ASSUME NEW D, IsFiniteSet(D), D # {}, NEW R,
         \A x, y \in D : x = y \/ <<x, y>> \in R \/ <<y, x>> \in R,
         \A x, y, z \in D : <<x, y>> \in R /\ <<y, z>> \in R => <<x, z>> \in R
  PROVE  \E x \in D : \A y \in D \ {x} : <<x, y>> \in R
<1> DEFINE First(s, x) == \A y \in s \ {x} : <<x, y>> \in R
           Bad == {s \in SUBSET D : s # {} /\ ~ \E x \in s : First(s, x)}
<1>1. ASSUME Bad # {} PROVE FALSE
  <2>1. PICK s \in Bad : \A u \in Bad : ~(u \subseteq s /\ u # s)
    <3> HIDE DEF Bad
    <3>1. Bad \subseteq SUBSET D
      BY DEF Bad
    <3>2. QED
      BY <1>1, <3>1, SmallestSubset
  <2>2. PICK a \in s : TRUE
    OBVIOUS
  <2>3. s \in SUBSET D /\ ~ \E x \in s : First(s, x)
    OBVIOUS
  <2>4. s \ {a} # {}
    <3>1. ~First(s, a)
      BY <2>2, <2>3
    <3>2. QED
      BY <3>1
  <2>5. s \ {a} \notin Bad
    <3>1. s \ {a} \subseteq s /\ s \ {a} # s
      BY <2>2
    <3> HIDE DEF Bad
    <3>2. QED
      BY <2>1, <3>1
  <2>6. PICK b \in s \ {a} : First(s \ {a}, b)
    <3>1. s \ {a} \in SUBSET D
      BY <2>3
    <3>2. QED
      BY <2>4, <2>5, <3>1
  <2>7. a \in D /\ b \in D /\ a # b
    BY <2>2, <2>3, <2>6
  <2>8. CASE <<a, b>> \in R
    <3>1. First(s, a)
      BY <2>3, <2>6, <2>7, <2>8
    <3>2. QED
      BY <2>2, <2>3, <3>1
  <2>9. CASE <<b, a>> \in R
    <3>1. First(s, b)
      BY <2>3, <2>6, <2>7, <2>9
    <3>2. QED
      BY <2>3, <2>6, <3>1
  <2>10. QED
    BY <2>7, <2>8, <2>9
<1>2. D \notin Bad
  BY <1>1
<1>3. QED
  BY <1>2

-------------------------------------------------------------------------------
(* Sums (MapThenSumSet), for any finite set                                  *)

\* The element that CHOOSE names; MapThenFoldSet takes the elements out in this order.
Any(s) == CHOOSE x \in s : TRUE

\* g adds up f over the subsets of S, one element after the other.
Adds(g, f, S) ==
  g = [s \in SUBSET S |-> IF s = {} THEN 0 ELSE f[Any(s)] + g[s \ {Any(s)}]]

Adding(f, S) == CHOOSE g : Adds(g, f, S)

Sum(f, S) == MapThenSumSet(LAMBDA x : f[x], S)

\* Any is an element.
LEMMA AnyIn == ASSUME NEW s, s # {} PROVE Any(s) \in s
BY DEF Any

\* Two functions that add up f over subsets agree wherever both do.
LEMMA AddsAgree ==
  ASSUME NEW f, NEW S, IsFiniteSet(S), NEW T, NEW g, NEW h,
         Adds(g, f, S), Adds(h, f, T), NEW r \in SUBSET (S \cap T)
  PROVE  g[r] = h[r]
<1> DEFINE Bad == {s \in SUBSET (S \cap T) : g[s] # h[s]}
<1> SUFFICES ASSUME Bad # {} PROVE FALSE
  OBVIOUS
<1>1. Bad \subseteq SUBSET S
  OBVIOUS
<1> HIDE DEF Bad
<1>2. PICK s \in Bad : \A u \in Bad : ~(u \subseteq s /\ u # s)
  BY <1>1, SmallestSubset
<1>3. s \subseteq S /\ s \subseteq T /\ g[s] # h[s]
  BY DEF Bad
<1>4. g[s] = IF s = {} THEN 0 ELSE f[Any(s)] + g[s \ {Any(s)}]
  BY <1>3 DEF Adds
<1>5. h[s] = IF s = {} THEN 0 ELSE f[Any(s)] + h[s \ {Any(s)}]
  BY <1>3 DEF Adds
<1>6. s # {} /\ g[s \ {Any(s)}] # h[s \ {Any(s)}]
  BY <1>3, <1>4, <1>5
<1>7. s \ {Any(s)} \in Bad
  BY <1>3, <1>6 DEF Bad
<1>8. QED
  BY <1>2, <1>6, <1>7, AnyIn

\* Over the subsets of a finite set there is a function that adds up f.
LEMMA AddsExists == ASSUME NEW f, NEW D, IsFiniteSet(D) PROVE Adds(Adding(f, D), f, D)
<1> DEFINE Bad == {S \in SUBSET D : ~ \E g : Adds(g, f, S)}
<1>1. ASSUME Bad # {} PROVE FALSE
  <2>1. PICK S \in Bad : \A u \in Bad : ~(u \subseteq S /\ u # S)
    <3> HIDE DEF Bad
    <3>1. Bad \subseteq SUBSET D
      BY DEF Bad
    <3>2. QED
      BY <1>1, <3>1, SmallestSubset
  <2>2. S \in SUBSET D /\ IsFiniteSet(S)
    BY FS_Subset
  <2>3. \A T \in SUBSET S : T # S => Adds(Adding(f, T), f, T)
    <3>1. SUFFICES ASSUME NEW T \in SUBSET S, T # S PROVE \E g : Adds(g, f, T)
      BY DEF Adding
    <3>2. T \notin Bad /\ T \in SUBSET D
      BY <2>1, <2>2, <3>1
    <3>3. QED
      BY <3>2
  <2> DEFINE g == [s \in SUBSET S |->
                     IF s = {} THEN 0
                     ELSE f[Any(s)] + Adding(f, s \ {Any(s)})[s \ {Any(s)}]]
  <2>4. ASSUME NEW t \in SUBSET S, t # S PROVE g[t] = Adding(f, t)[t]
    <3>1. Adds(Adding(f, t), f, t)
      BY <2>3, <2>4
    <3> DEFINE r == t \ {Any(t)}
    <3>2. CASE t = {}
      <4>1. Adding(f, t)[t] = 0
        BY <3>1, <3>2 DEF Adds
      <4>2. QED
        BY <3>2, <4>1
    <3>3. CASE t # {}
      <4>1. r \in SUBSET t /\ r # S
        BY <2>4, <3>3, AnyIn
      <4>2. Adds(Adding(f, r), f, r)
        BY <2>3, <4>1
      <4>3. Adding(f, t)[r] = Adding(f, r)[r]
        <5> HIDE DEF r
        <5>1. IsFiniteSet(t) /\ r \in SUBSET (t \cap r)
          BY <2>2, <4>1, FS_Subset
        <5>2. QED
          BY <3>1, <4>2, <5>1, AddsAgree
      <4>4. Adding(f, t)[t] = f[Any(t)] + Adding(f, t)[r]
        BY <3>1, <3>3 DEF Adds
      <4>5. g[t] = f[Any(t)] + Adding(f, r)[r]
        BY <3>3
      <4>6. QED
        BY <4>3, <4>4, <4>5
    <3>4. QED
      BY <3>2, <3>3
  <2>5. ASSUME NEW s \in SUBSET S, s # {} PROVE g[s] = f[Any(s)] + g[s \ {Any(s)}]
    <3>1. s \ {Any(s)} \in SUBSET S /\ s \ {Any(s)} # S
      BY <2>5, AnyIn
    <3>2. g[s \ {Any(s)}] = Adding(f, s \ {Any(s)})[s \ {Any(s)}]
      BY <2>4, <3>1
    <3>3. g[s] = f[Any(s)] + Adding(f, s \ {Any(s)})[s \ {Any(s)}]
      BY <2>5
    <3> HIDE DEF g
    <3>4. QED
      BY <3>2, <3>3
  <2>6. g = [s \in SUBSET S |-> g[s]] /\ g[{}] = 0
    OBVIOUS
  <2>7. Adds(g, f, S)
    <3> HIDE DEF g
    <3>1. \A s \in SUBSET S : g[s] = IF s = {} THEN 0 ELSE f[Any(s)] + g[s \ {Any(s)}]
      BY <2>5, <2>6
    <3>2. QED
      BY <2>6, <3>1 DEF Adds
  <2>8. QED
    BY <2>1, <2>7
<1>2. \E g : Adds(g, f, D)
  BY <1>1
<1>3. QED
  BY <1>2 DEF Adding

\* The folds' own definition of the sum is the value of that function.
LEMMA SumIs == ASSUME NEW f, NEW S PROVE Sum(f, S) = Adding(f, S)[S]
BY DEF Sum, MapThenSumSet, MapThenFoldSet, Adding, Adds, Any

\* The recursion of the sum: nothing adds up to zero; the element taken out is added.
LEMMA SumStep ==
  ASSUME NEW f, NEW S, IsFiniteSet(S)
  PROVE  /\ Sum(f, {}) = 0
         /\ S # {} => Sum(f, S) = f[Any(S)] + Sum(f, S \ {Any(S)})
<1>1. Sum(f, {}) = 0
  <2>1. Adds(Adding(f, {}), f, {})
    BY AddsExists, FS_EmptySet
  <2>2. QED
    BY <2>1, SumIs DEF Adds
<1>2. ASSUME S # {} PROVE Sum(f, S) = f[Any(S)] + Sum(f, S \ {Any(S)})
  <2> DEFINE r == S \ {Any(S)}
  <2>1. Adds(Adding(f, S), f, S)
    BY AddsExists
  <2>2. IsFiniteSet(r) /\ r \in SUBSET (S \cap r)
    BY FS_Subset
  <2>3. Adds(Adding(f, r), f, r)
    BY <2>2, AddsExists
  <2>4. Adding(f, S)[r] = Adding(f, r)[r]
    <3> HIDE DEF r
    <3>1. QED
      BY <2>1, <2>2, <2>3, AddsAgree
  <2>5. Adding(f, S)[S] = f[Any(S)] + Adding(f, S)[r]
    BY <1>2, <2>1 DEF Adds
  <2> HIDE DEF r
  <2>6. Sum(f, S) = f[Any(S)] + Sum(f, r)
    BY <2>4, <2>5, SumIs
  <2>7. QED
    BY <2>6 DEF r
<1>3. QED
  BY <1>1, <1>2

\* Natural numbers add up to a natural number.
LEMMA SumNat ==
  ASSUME NEW S, IsFiniteSet(S), NEW f, \A x \in S : f[x] \in Nat
  PROVE  Sum(f, S) \in Nat
<1> DEFINE Bad == {s \in SUBSET S : Sum(f, s) \notin Nat}
<1>1. ASSUME Bad # {} PROVE FALSE
  <2>1. PICK s \in Bad : \A u \in Bad : ~(u \subseteq s /\ u # s)
    <3> HIDE DEF Bad
    <3>1. Bad \subseteq SUBSET S
      BY DEF Bad
    <3>2. QED
      BY <1>1, <3>1, SmallestSubset
  <2>2. IsFiniteSet(s)
    BY FS_Subset
  <2>3. s # {}
    <3>1. Sum(f, s) \notin Nat /\ Sum(f, {}) = 0
      BY <2>2, SumStep
    <3> HIDE DEF Bad
    <3>2. QED
      BY <3>1
  <2>4. Any(s) \in s /\ Sum(f, s) = f[Any(s)] + Sum(f, s \ {Any(s)})
    BY <2>2, <2>3, SumStep, AnyIn
  <2>5. Sum(f, s \ {Any(s)}) \in Nat
    BY <2>1, <2>4
  <2>6. QED
    BY <2>4, <2>5
<1>2. QED
  BY <1>1

\* Whichever element is taken out, the rest adds up to the difference.
LEMMA SumRemove ==
  ASSUME NEW S, IsFiniteSet(S), NEW f, \A x \in S : f[x] \in Nat, NEW z \in S
  PROVE  Sum(f, S) = f[z] + Sum(f, S \ {z})
<1> DEFINE Bad == {s \in SUBSET S : \E x \in s : Sum(f, s) # f[x] + Sum(f, s \ {x})}
<1>1. ASSUME Bad # {} PROVE FALSE
  <2>1. PICK s \in Bad : \A u \in Bad : ~(u \subseteq s /\ u # s)
    <3> HIDE DEF Bad
    <3>1. Bad \subseteq SUBSET S
      BY DEF Bad
    <3>2. QED
      BY <1>1, <3>1, SmallestSubset
  <2>2. PICK x \in s : Sum(f, s) # f[x] + Sum(f, s \ {x})
    OBVIOUS
  <2> DEFINE y == Any(s)
  <2>3. s \in SUBSET S /\ IsFiniteSet(s) /\ IsFiniteSet(s \ {x}) /\ IsFiniteSet(s \ {y})
    BY FS_Subset
  <2>4. y \in s /\ Sum(f, s) = f[y] + Sum(f, s \ {y})
    <3> HIDE DEF Bad
    <3>1. s # {}
      BY <2>2
    <3>2. QED
      BY <2>3, <3>1, SumStep, AnyIn
  <2>5. x # y
    BY <2>2, <2>4
  <2> HIDE DEF y
  <2>6. ASSUME NEW a \in s, NEW b \in s, a # b
        PROVE  Sum(f, s \ {a}) = f[b] + Sum(f, (s \ {a}) \ {b})
    <3>1. s \ {a} \in SUBSET S /\ s \ {a} # s /\ b \in s \ {a}
      BY <2>3, <2>6
    <3>2. s \ {a} \notin Bad
      BY <2>1, <3>1
    <3>3. QED
      BY <3>1, <3>2
  <2>7. (s \ {y}) \ {x} = (s \ {x}) \ {y}
    OBVIOUS
  <2>8. Sum(f, s \ {y}) = f[x] + Sum(f, (s \ {x}) \ {y})
    BY <2>4, <2>5, <2>6, <2>7
  <2>9. Sum(f, s \ {x}) = f[y] + Sum(f, (s \ {x}) \ {y})
    BY <2>4, <2>5, <2>6
  <2>10. Sum(f, (s \ {x}) \ {y}) \in Nat /\ f[x] \in Nat /\ f[y] \in Nat
    <3>1. IsFiniteSet((s \ {x}) \ {y}) /\ (\A k \in (s \ {x}) \ {y} : f[k] \in Nat)
      BY <2>3, FS_Subset
    <3>2. Sum(f, (s \ {x}) \ {y}) \in Nat
      BY <3>1, SumNat
    <3>3. QED
      BY <2>3, <2>4, <3>2
  <2> HIDE DEF Bad
  <2>11. QED
    BY <2>2, <2>4, <2>8, <2>9, <2>10
<1>2. QED
  BY <1>1

\* A sum with a positive term is positive.
LEMMA SumZero ==
  ASSUME NEW S, IsFiniteSet(S), NEW f, \A x \in S : f[x] \in Nat, NEW z \in S, f[z] > 0
  PROVE  Sum(f, S) > 0
<1>1. Sum(f, S) = f[z] + Sum(f, S \ {z})
  BY SumRemove
<1>2. IsFiniteSet(S \ {z}) /\ \A x \in S \ {z} : f[x] \in Nat
  BY FS_Subset
<1>3. Sum(f, S \ {z}) \in Nat
  BY <1>2, SumNat
<1>4. QED
  BY <1>1, <1>3

\* The terms decide: they may be given by any function that has them.
LEMMA SumSame ==
  ASSUME NEW S, IsFiniteSet(S), NEW f, NEW g, \A x \in S : f[x] = g[x]
  PROVE  Sum(f, S) = Sum(g, S)
<1> DEFINE Bad == {s \in SUBSET S : Sum(f, s) # Sum(g, s)}
<1>1. ASSUME Bad # {} PROVE FALSE
  <2>1. PICK s \in Bad : \A u \in Bad : ~(u \subseteq s /\ u # s)
    <3> HIDE DEF Bad
    <3>1. Bad \subseteq SUBSET S
      BY DEF Bad
    <3>2. QED
      BY <1>1, <3>1, SmallestSubset
  <2>2. IsFiniteSet(s)
    BY FS_Subset
  <2>3. s # {}
    <3>1. Sum(f, s) # Sum(g, s) /\ Sum(f, {}) = 0 /\ Sum(g, {}) = 0
      BY <2>2, SumStep
    <3> HIDE DEF Bad
    <3>2. QED
      BY <3>1
  <2>4. Any(s) \in s
    BY <2>3, AnyIn
  <2>5. Sum(f, s) = f[Any(s)] + Sum(f, s \ {Any(s)}) /\ Sum(g, s) = g[Any(s)] + Sum(g, s \ {Any(s)})
    BY <2>2, <2>3, SumStep
  <2>6. s \ {Any(s)} \in SUBSET S /\ s \ {Any(s)} # s /\ s \ {Any(s)} \notin Bad
    BY <2>1, <2>4
  <2>7. QED
    BY <2>4, <2>5, <2>6
<1>2. QED
  BY <1>1

\* The sum over two sets that share nothing is the two sums.
LEMMA SumUnion ==
  ASSUME NEW S, NEW T, IsFiniteSet(S), IsFiniteSet(T), S \cap T = {},
         NEW f, \A x \in S \cup T : f[x] \in Nat
  PROVE  Sum(f, S \cup T) = Sum(f, S) + Sum(f, T)
<1> DEFINE Bad == {s \in SUBSET S : Sum(f, s \cup T) # Sum(f, s) + Sum(f, T)}
<1>1. ASSUME Bad # {} PROVE FALSE
  <2>1. PICK s \in Bad : \A u \in Bad : ~(u \subseteq s /\ u # s)
    <3> HIDE DEF Bad
    <3>1. Bad \subseteq SUBSET S
      BY DEF Bad
    <3>2. QED
      BY <1>1, <3>1, SmallestSubset
  <2>2. s \in SUBSET S /\ IsFiniteSet(s) /\ IsFiniteSet(s \cup T)
    BY FS_Subset, FS_Union
  <2>3. Sum(f, T) \in Nat
    BY SumNat
  <2>4. s # {}
    <3>1. ASSUME s = {} PROVE FALSE
      <4>1. s \cup T = T /\ Sum(f, s) = 0
        BY <2>2, <3>1, SumStep
      <4>2. QED
        BY <2>3, <4>1
    <3>2. QED
      BY <3>1
  <2>5. PICK x \in s : TRUE
    BY <2>4
  <2>6. Sum(f, s) = f[x] + Sum(f, s \ {x})
    BY <2>2, SumRemove
  <2>7. Sum(f, s \cup T) = f[x] + Sum(f, (s \ {x}) \cup T)
    <3>1. (s \cup T) \ {x} = (s \ {x}) \cup T
      BY <2>2
    <3>2. Sum(f, s \cup T) = f[x] + Sum(f, (s \cup T) \ {x})
      BY <2>2, SumRemove
    <3>3. QED
      BY <3>1, <3>2
  <2>8. Sum(f, (s \ {x}) \cup T) = Sum(f, s \ {x}) + Sum(f, T)
    <3>1. s \ {x} \in SUBSET S /\ s \ {x} # s /\ s \ {x} \notin Bad
      BY <2>1, <2>2
    <3>2. QED
      BY <3>1
  <2>9. Sum(f, s \ {x}) \in Nat /\ f[x] \in Nat
    <3>1. IsFiniteSet(s \ {x})
      BY <2>2, FS_Subset
    <3>2. QED
      BY <2>2, <3>1, SumNat
  <2>10. Sum(f, s \cup T) # Sum(f, s) + Sum(f, T)
    OBVIOUS
  <2> HIDE DEF Bad
  <2>11. QED
    BY <2>3, <2>6, <2>7, <2>8, <2>9, <2>10
<1>2. QED
  BY <1>1

\* The sum over a set is that over a part of it and that over the rest.
LEMMA SumWithin ==
  ASSUME NEW S, NEW T, IsFiniteSet(S), T \subseteq S, NEW f, \A x \in S : f[x] \in Nat
  PROVE  Sum(f, S) = Sum(f, T) + Sum(f, S \ T) /\ Sum(f, T) \in Nat /\ Sum(f, S \ T) \in Nat
<1>1. IsFiniteSet(T) /\ IsFiniteSet(S \ T) /\ S = T \cup (S \ T) /\ T \cap (S \ T) = {}
  BY FS_Subset
<1>2. Sum(f, T \cup (S \ T)) = Sum(f, T) + Sum(f, S \ T)
  BY <1>1, SumUnion
<1>3. Sum(f, T) \in Nat /\ Sum(f, S \ T) \in Nat
  BY <1>1, SumNat
<1>4. QED
  BY <1>1, <1>2, <1>3

\* Zeros add up to zero.
LEMMA SumZeros ==
  ASSUME NEW S, IsFiniteSet(S), NEW f, \A x \in S : f[x] = 0
  PROVE  Sum(f, S) = 0
<1> DEFINE Bad == {s \in SUBSET S : Sum(f, s) # 0}
<1>1. ASSUME Bad # {} PROVE FALSE
  <2>1. PICK s \in Bad : \A u \in Bad : ~(u \subseteq s /\ u # s)
    <3> HIDE DEF Bad
    <3>1. Bad \subseteq SUBSET S
      BY DEF Bad
    <3>2. QED
      BY <1>1, <3>1, SmallestSubset
  <2>2. IsFiniteSet(s) /\ s \in SUBSET S
    BY FS_Subset
  <2>3. s # {}
    <3>1. Sum(f, s) # 0 /\ Sum(f, {}) = 0
      BY <2>2, SumStep
    <3> HIDE DEF Bad
    <3>2. QED
      BY <3>1
  <2>4. Any(s) \in s /\ Sum(f, s) = f[Any(s)] + Sum(f, s \ {Any(s)})
    BY <2>2, <2>3, SumStep, AnyIn
  <2>5. Sum(f, s \ {Any(s)}) = 0
    BY <2>1, <2>4
  <2>6. f[Any(s)] = 0
    BY <2>2, <2>4
  <2>7. Sum(f, s) = 0
    BY <2>4, <2>5, <2>6
  <2>8. QED
    BY <2>7
<1>2. QED
  BY <1>1

\* The sum of the numbers up to n + 1 is the sum up to n and the next number.
LEMMA SumNext ==
  ASSUME NEW n \in Nat, NEW f, \A k \in 1 .. (n + 1) : f[k] \in Nat
  PROVE  Sum(f, 1 .. (n + 1)) = Sum(f, 1 .. n) + f[n + 1] /\ Sum(f, 1 .. n) \in Nat
<1>1. IsFiniteSet(1 .. (n + 1)) /\ IsFiniteSet(1 .. n)
  BY FS_Interval
<1>2. n + 1 \in 1 .. (n + 1) /\ (1 .. (n + 1)) \ {n + 1} = 1 .. n
  OBVIOUS
<1>3. Sum(f, 1 .. (n + 1)) = f[n + 1] + Sum(f, (1 .. (n + 1)) \ {n + 1})
  BY <1>1, <1>2, SumRemove
<1>4. Sum(f, 1 .. n) \in Nat
  BY <1>1, SumNat
<1>5. f[n + 1] \in Nat
  BY <1>2
<1>6. Sum(f, 1 .. (n + 1)) = f[n + 1] + Sum(f, 1 .. n)
  BY <1>2, <1>3
<1>7. QED
  BY <1>4, <1>5, <1>6

-------------------------------------------------------------------------------
(* The evaluation's types                                                    *)

\* The rows of one group by label, an evaluation that runs and the labels a request is
\* reading (productionRiskLabels, evaluate).
Row == [Labels -> Nat]

IsEvaluation(e) ==
  /\ e = [phase |-> e.phase, scope |-> e.scope, rows |-> e.rows, foldOf |-> e.foldOf,
          ran |-> e.ran, ranked |-> e.ranked, area |-> e.area, sound |-> e.sound,
          granted |-> e.granted]
  /\ e.phase \in {"folding", "judging", "judged"}
  /\ \/ e.scope = "all" /\ e.rows \in [Groups -> Row]
     \/ e.scope = "fleet" /\ e.rows \in [FleetHosts -> Row]

IsReading(e) ==
  /\ e = [phase |-> "reading", positives |-> e.positives]
  /\ e.positives \in [FleetHosts -> Nat]

RiskTyped ==
  /\ verdicts \in [FleetHosts -> Row]
  /\ lab \in [Techniques -> Row]
  /\ eval # Nothing => IsReading(eval) \/ IsEvaluation(eval)

\* What a group's row is, and when it is empty.
LEMMA RowOf ==
  /\ NoRows \in Row
  /\ \A m, n \in Nat : [positive |-> m, negative |-> n] \in Row
  /\ \A row \in Row : row["positive"] \in Nat /\ row["negative"] \in Nat
  /\ \A row \in Row : row = NoRows <=> row["positive"] = 0 /\ row["negative"] = 0
BY DEF Row, NoRows, Labels

\* Total of a label is a sum over the groups; it is positive when one of them has a row of
\* that label (evaluate's counts).
LEMMA TotalIs ==
  ASSUME NEW S, NEW rows \in [S -> Row], IsFiniteSet(S), NEW label \in Labels
  PROVE  /\ Total(rows, label) = Sum([g \in S |-> rows[g][label]], S)
         /\ Total(rows, label) \in Nat
         /\ \A g \in S : rows[g][label] > 0 => Total(rows, label) > 0
<1> DEFINE f == [g \in S |-> rows[g][label]]
<1>1. \A g \in S : f[g] \in Nat /\ f[g] = rows[g][label]
  BY DEF Row
<1>2. Total(rows, label) = Sum(f, S)
  BY DEF Total, SumOf, Sum
<1> HIDE DEF f
<1>3. Sum(f, S) \in Nat
  BY <1>1, SumNat
<1>4. \A g \in S : rows[g][label] > 0 => Sum(f, S) > 0
  BY <1>1, SumZero
<1>5. QED
  BY <1>2, <1>3, <1>4 DEF f

\* evaluate starts with an evaluation that is not judged yet.
LEMMA EvaluationStarts ==
  ASSUME NEW scope, NEW rows, NEW granted,
         \/ scope = "all" /\ rows \in [Groups -> Row]
         \/ scope = "fleet" /\ rows \in [FleetHosts -> Row]
  PROVE  /\ IsEvaluation(EvaluationOf(scope, rows, granted))
         /\ EvaluationOf(scope, rows, granted).phase # "judged"
BY DEF IsEvaluation, EvaluationOf

\* A group of the range has no rows when its part of them counts none.
LEMMA EmptyPart ==
  ASSUME NEW rows \in [Groups -> Row], NEW G \in {FleetHosts, Techniques},
         ~(Size(Part(rows, G)) > 0)
  PROVE  \A g \in G : rows[g] = NoRows
<1> DEFINE part == Part(rows, G)
<1>1. part \in [G -> Row] /\ IsFiniteSet(G) /\ \A g \in G : part[g] = rows[g]
  BY RiskAssumption DEF Part, Groups
<1> HIDE DEF part
<1>2. \A label \in Labels : Total(part, label) \in Nat
  BY <1>1, TotalIs
<1>3. Total(part, "positive") = 0 /\ Total(part, "negative") = 0
  BY <1>2 DEF Size, Labels, part
<1>4. \A g \in G, label \in Labels : ~(part[g][label] > 0)
  <2>1. \A label \in Labels : Total(part, label) = 0
    BY <1>3 DEF Labels
  <2>2. \A label \in Labels, g \in G : part[g][label] > 0 => Total(part, label) > 0
    BY <1>1, TotalIs
  <2>3. QED
    BY <2>1, <2>2
<1>5. ASSUME NEW g \in G PROVE rows[g] = NoRows
  <2>1. rows[g]["positive"] = 0 /\ rows[g]["negative"] = 0
    BY <1>1, <1>4, RowOf DEF Labels
  <2>2. QED
    BY <1>1, <2>1, RowOf
<1>6. QED
  BY <1>5

\* Every group has its row when the labels have been read.
LEMMA LabelsRead ==
  ASSUME RiskTyped, ListFalsePositives
  PROVE  \E rows \in [Groups -> Row] : eval' = EvaluationOf("all", rows, TRUE)
<1> DEFINE rows == [g \in Groups |-> IF g \in Techniques THEN lab[g]
                                     ELSE [positive |-> eval.positives[g],
                                           negative |-> verdicts[g]["negative"]]]
<1>1. IsReading(eval)
  BY DEF ListFalsePositives, RiskTyped, IsEvaluation
<1>2. ASSUME NEW g \in Techniques PROVE rows[g] \in Row
  BY DEF Groups, RiskTyped
<1>3. ASSUME NEW g \in FleetHosts PROVE rows[g] \in Row
  <2>1. eval.positives[g] \in Nat /\ verdicts[g]["negative"] \in Nat
    BY <1>1, RowOf DEF RiskTyped, IsReading
  <2>2. rows[g] = [positive |-> eval.positives[g], negative |-> verdicts[g]["negative"]]
    BY RiskAssumption DEF Groups
  <2>3. QED
    BY <2>1, <2>2, RowOf
<1>4. rows \in [Groups -> Row]
  BY <1>2, <1>3 DEF Groups
<1>5. eval' = EvaluationOf("all", rows, TRUE)
  BY DEF ListFalsePositives
<1> HIDE DEF rows
<1>6. QED
  BY <1>4, <1>5

\* Verdicts, labels and the evaluation of a request have the types the model gives them, in
\* every state of the risk evaluation.
LEMMA RiskTypedInvariant == RiskSpec => []RiskTyped
<1> USE RiskAssumption
<1>1. RiskInit => RiskTyped
  <2> SUFFICES ASSUME RiskInit PROVE RiskTyped
    OBVIOUS
  <2>1. lab \in [Techniques -> Row]
    BY DEF RiskInit, RiskAssumption, Row
  <2>2. QED
    BY <2>1, RowOf DEF RiskInit, RiskTyped
<1>2. RiskTyped /\ [RiskNext]_riskVars => RiskTyped'
  <2> SUFFICES ASSUME RiskTyped, [RiskNext]_riskVars PROVE RiskTyped'
    OBVIOUS
  <2>1. ASSUME NEW h \in FleetHosts, NEW label \in Labels, SetObservationVerdict(h, label)
        PROVE  RiskTyped'
    <3>1. verdicts' \in [FleetHosts -> Row]
      <4>1. CASE verdicts' = [verdicts EXCEPT ![h][label] = @ + 1]
        BY <4>1 DEF RiskTyped, Row
      <4>2. ASSUME NEW l \in Labels \ {label}, verdicts[h][l] > 0,
                   verdicts' = [verdicts EXCEPT ![h][l] = @ - 1, ![h][label] = @ + 1]
            PROVE  verdicts' \in [FleetHosts -> Row]
        BY <4>2 DEF RiskTyped, Row
      <4>3. QED
        BY <2>1, <4>1, <4>2 DEF SetObservationVerdict
    <3>2. QED
      BY <2>1, <3>1 DEF SetObservationVerdict, RiskTyped
  <2>2. ASSUME ListTruePositives PROVE RiskTyped'
    <3> DEFINE p == [h \in FleetHosts |-> verdicts[h]["positive"]]
    <3>1. p \in [FleetHosts -> Nat]
      BY RowOf DEF RiskTyped
    <3> HIDE DEF p
    <3>2. IsReading([phase |-> "reading", positives |-> p])
      BY <3>1 DEF IsReading
    <3>3. eval' = [phase |-> "reading", positives |-> p]
      BY <2>2 DEF ListTruePositives, p
    <3>4. IsReading(eval')
      BY <3>2, <3>3
    <3>5. QED
      BY <2>2, <3>4 DEF ListTruePositives, RiskTyped
  <2>3. ASSUME ListFalsePositives PROVE RiskTyped'
    <3>1. PICK rows \in [Groups -> Row] : eval' = EvaluationOf("all", rows, TRUE)
      BY <2>3, LabelsRead
    <3>2. IsEvaluation(eval')
      BY <3>1, EvaluationStarts
    <3>3. QED
      BY <2>3, <3>2 DEF ListFalsePositives, RiskTyped
  <2>4. ASSUME NEW g \in Groups, groupedFolds(g) PROVE RiskTyped'
    <3>1. IsEvaluation(eval)
      BY <2>4 DEF groupedFolds, RiskTyped, IsReading
    <3>2. IsEvaluation(eval')
      BY <2>4, <3>1 DEF groupedFolds, IsEvaluation
    <3>3. QED
      BY <2>4, <3>2 DEF groupedFolds, RiskTyped
  <2>5. ASSUME crossValidate PROVE RiskTyped'
    <3>1. IsEvaluation(eval)
      <4>1. eval # Nothing /\ eval.phase = "folding"
        BY <2>5 DEF crossValidate
      <4>2. QED
        BY <4>1 DEF RiskTyped, IsReading
    <3>2. IsEvaluation(eval')
      BY <2>5, <3>1 DEF crossValidate, IsEvaluation
    <3>3. QED
      BY <2>5, <3>2 DEF crossValidate, RiskTyped
  <2>6. ASSUME evaluate PROVE RiskTyped'
    <3>1. IsEvaluation(eval)
      BY <2>6 DEF evaluate, RiskTyped, IsReading
    <3>2. CASE NeedsFleetPass
      <4>1. Part(eval.rows, FleetHosts) \in [FleetHosts -> Row]
        BY <3>1, <3>2 DEF NeedsFleetPass, IsEvaluation, Part, Groups
      <4>2. eval' = EvaluationOf("fleet", Part(eval.rows, FleetHosts), Passes)
        BY <2>6, <3>2 DEF evaluate
      <4>3. IsEvaluation(eval')
        BY <4>1, <4>2, EvaluationStarts
      <4>4. QED
        BY <2>6, <4>3 DEF evaluate, RiskTyped
    <3>3. CASE ~NeedsFleetPass
      <4>1. IsEvaluation(eval')
        BY <2>6, <3>1, <3>3 DEF evaluate, IsEvaluation
      <4>2. QED
        BY <2>6, <4>1 DEF evaluate, RiskTyped
    <3>4. QED
      BY <3>2, <3>3
  <2>7. ASSUME Answer PROVE RiskTyped'
    BY <2>7 DEF Answer, RiskTyped
  <2>8. CASE UNCHANGED riskVars
    BY <2>8 DEF riskVars, RiskTyped, IsReading, IsEvaluation
  <2>9. QED
    BY <2>1, <2>2, <2>3, <2>4, <2>5, <2>6, <2>7, <2>8 DEF RiskNext
<1>3. QED
  BY <1>1, <1>2, PTL DEF RiskSpec

-------------------------------------------------------------------------------
(* Trust                                                                     *)

\* Trust is granted on the fleet's rows alone: whatever the dataset of the attack range and
\* the analysts' verdicts are, and whenever those change, the last figures of a granted
\* evaluation are of rows of the fleet, enough of them and ranked well enough (evaluate).
THEOREM TrustOfTheFleet == RiskSpec => []TrustIsEarnedOnTheFleet
<1> USE RiskAssumption
<1>1. RiskInit => TrustIsEarnedOnTheFleet
  BY DEF RiskInit, TrustIsEarnedOnTheFleet, Validated
<1>2. RiskTyped /\ TrustIsEarnedOnTheFleet /\ [RiskNext]_riskVars => TrustIsEarnedOnTheFleet'
  <2> SUFFICES ASSUME RiskTyped, TrustIsEarnedOnTheFleet, [RiskNext]_riskVars,
                      eval' # Nothing, eval'.phase = "judged", eval'.granted
               PROVE  /\ \A g \in Occupied(eval'.rows) : g \in FleetHosts
                      /\ EnoughRows(eval'.rows) /\ eval'.ran /\ ~Weak(eval'.rows, eval'.area)
    BY DEF TrustIsEarnedOnTheFleet, Validated
  <2>1. CASE UNCHANGED eval
    BY <2>1 DEF TrustIsEarnedOnTheFleet, Validated
  <2>2. CASE evaluate
    <3>1. IsEvaluation(eval)
      BY <2>2 DEF evaluate, RiskTyped, IsReading
    <3>2. ~NeedsFleetPass
      BY <2>2, EvaluationStarts DEF evaluate, EvaluationOf
    <3>3. eval' = [eval EXCEPT !.phase = "judged", !.granted = @ /\ Passes]
      BY <2>2, <3>2 DEF evaluate
    <3>4. /\ eval'.rows = eval.rows /\ eval'.ran = eval.ran /\ eval'.area = eval.area
          /\ Passes
      BY <3>1, <3>3 DEF IsEvaluation
    <3>5. ASSUME NEW g \in Occupied(eval.rows) PROVE g \in FleetHosts
      <4>1. CASE eval.scope = "fleet"
        BY <3>1, <4>1 DEF IsEvaluation, Occupied
      <4>2. CASE eval.scope = "all"
        <5>1. eval.rows \in [Groups -> Row]
          BY <3>1, <4>2 DEF IsEvaluation
        <5>2. ~(Size(Part(eval.rows, Techniques)) > 0)
          BY <3>2, <3>4, <4>2 DEF NeedsFleetPass, Passes
        <5>3. \A t \in Techniques : eval.rows[t] = NoRows
          BY <5>1, <5>2, EmptyPart
        <5>4. QED
          BY <5>1, <5>3 DEF Occupied, Groups
      <4>3. QED
        BY <3>1, <4>1, <4>2 DEF IsEvaluation
    <3>6. EnoughRows(eval.rows) /\ eval.ran /\ ~Weak(eval.rows, eval.area)
      BY <3>4 DEF Passes
    <3>7. QED
      BY <3>4, <3>5, <3>6
  <2>3. CASE \E g \in Groups : groupedFolds(g)
    BY <2>3 DEF groupedFolds, RiskTyped, IsReading, IsEvaluation
  <2>4. CASE crossValidate
    BY <2>4 DEF crossValidate, RiskTyped, IsReading, IsEvaluation
  <2>5. CASE ListTruePositives
    BY <2>5 DEF ListTruePositives
  <2>6. CASE ListFalsePositives
    BY <2>6, EvaluationStarts DEF ListFalsePositives, EvaluationOf
  <2>7. CASE Answer
    BY <2>7 DEF Answer
  <2>8. QED
    BY <2>1, <2>2, <2>3, <2>4, <2>5, <2>6, <2>7 DEF RiskNext, riskVars, SetObservationVerdict
<1>3. QED
  BY <1>1, <1>2, RiskTypedInvariant, PTL DEF RiskSpec

-------------------------------------------------------------------------------
(* Folds                                                                     *)

\* A set of two or more has two different elements.
LEMMA TwoOf ==
  ASSUME NEW S, IsFiniteSet(S), Cardinality(S) >= 2
  PROVE  \E p, q \in S : p # q
<1>1. Cardinality(S) # 0 /\ Cardinality(S) # 1 /\ Cardinality(S) \in Nat
  BY FS_CardinalityType
<1>2. S # {}
  BY <1>1, FS_EmptySet
<1>3. PICK p \in S : TRUE
  BY <1>2
<1>4. S # {p}
  BY <1>1, FS_Singleton
<1>5. QED
  BY <1>3, <1>4

\* Of finitely many costs, one is the first of the smallest (the loop over folds).
LEMMA SmallestCost ==
  ASSUME NEW F \in Nat, F >= 1, NEW cost \in [1 .. F -> Nat]
  PROVE  \E f \in 1 .. F : \A k \in 1 .. F : cost[f] < cost[k] \/ (cost[f] = cost[k] /\ f <= k)
<1> DEFINE Best(n, f) == \A k \in 1 .. n : cost[f] < cost[k] \/ (cost[f] = cost[k] /\ f <= k)
           T == {n \in Nat : n \in 1 .. F => \E f \in 1 .. n : Best(n, f)}
<1>1. 0 \in T
  OBVIOUS
<1>2. ASSUME NEW n \in Nat, n \in T PROVE n + 1 \in T
  <2> SUFFICES ASSUME n + 1 \in 1 .. F PROVE \E f \in 1 .. (n + 1) : Best(n + 1, f)
    OBVIOUS
  <2>1. CASE n = 0
    <3>1. Best(n + 1, 1)
      BY <2>1
    <3>2. QED
      BY <2>1, <3>1
  <2>2. CASE n # 0
    <3>1. PICK f \in 1 .. n : Best(n, f)
      BY <1>2, <2>2
    <3>2. CASE cost[n + 1] < cost[f]
      <4>1. Best(n + 1, n + 1)
        BY <3>1, <3>2
      <4>2. QED
        BY <4>1
    <3>3. CASE ~(cost[n + 1] < cost[f])
      <4>1. Best(n + 1, f)
        BY <3>1, <3>3
      <4>2. QED
        BY <4>1
    <3>4. QED
      BY <3>2, <3>3
  <2>3. QED
    BY <2>1, <2>2
<1> HIDE DEF T
<1>3. F \in T
  BY <1>1, <1>2, Climb
<1>4. QED
  BY <1>3 DEF T

\* When the folds are two or more, each label has rows in two groups at least
\* (crossValidate's smallest class).
LEMMA EnoughGroups ==
  ASSUME NEW S, NEW rows \in [S -> Row], IsFiniteSet(S)
  PROVE  /\ Folds(rows) \in Nat
         /\ Folds(rows) >= 2 =>
              \A label \in Labels : \E p, q \in S :
                p # q /\ rows[p][label] > 0 /\ rows[q][label] > 0
<1>1. \A label \in Labels : Total(rows, label) \in Nat
  BY TotalIs
<1>2. ASSUME NEW label \in Labels
      PROVE  /\ IsFiniteSet(GroupsWith(rows, label))
             /\ Cardinality(GroupsWith(rows, label)) \in Nat
             /\ GroupsWith(rows, label) = {g \in S : rows[g][label] > 0}
  BY FS_Subset, FS_CardinalityType DEF GroupsWith
<1> DEFINE cards(label) == Cardinality(GroupsWith(rows, label))
<1>3. MaxFolds \in Nat
  BY RiskAssumption
<1>4. /\ Total(rows, "positive") \in Nat /\ Total(rows, "negative") \in Nat
      /\ cards("positive") \in Nat /\ cards("negative") \in Nat
  BY <1>1, <1>2 DEF Labels
<1> HIDE DEF cards
<1>5. /\ Folds(rows) \in Nat
      /\ Folds(rows) >= 2 => cards("positive") >= 2 /\ cards("negative") >= 2
  BY <1>3, <1>4 DEF Folds, Smaller, cards
<1>6. ASSUME Folds(rows) >= 2, NEW label \in Labels
      PROVE  \E p, q \in S : p # q /\ rows[p][label] > 0 /\ rows[q][label] > 0
  <2>1. Cardinality(GroupsWith(rows, label)) >= 2
    BY <1>5, <1>6 DEF Labels, cards
  <2>2. PICK p, q \in GroupsWith(rows, label) : p # q
    BY <1>2, <2>1, TwoOf
  <2>3. QED
    BY <1>2, <2>2
<1>7. QED
  BY <1>5, <1>6

\* The groups that have been put into folds are groups of the evaluation's rows.
Assigned(S) ==
  /\ eval.rows \in [S -> Row]
  /\ DOMAIN eval.foldOf \subseteq S

\* What a fold holds of a label is part of what there is, and nothing when no group in it
\* has the label.
LEMMA LoadOf ==
  ASSUME NEW S, IsFiniteSet(S), Assigned(S), NEW f, NEW label \in Labels
  PROVE  /\ Load(f, label) \in Nat
         /\ \A k \in DOMAIN eval.foldOf :
              eval.foldOf[k] = f /\ eval.rows[k][label] > 0 => Load(f, label) > 0
         /\ (\A k \in DOMAIN eval.foldOf : eval.foldOf[k] = f => ~(eval.rows[k][label] > 0))
              => Load(f, label) = 0
         /\ \A k \in DOMAIN eval.foldOf :
              eval.foldOf[k] # f /\ eval.rows[k][label] > 0 =>
                Load(f, label) < Total(eval.rows, label)
<1> DEFINE held == {k \in DOMAIN eval.foldOf : eval.foldOf[k] = f}
           w == [k \in S |-> eval.rows[k][label]]
           v == [k \in held |-> InFold(f)[k][label]]
<1>1. held \subseteq S /\ IsFiniteSet(held)
  BY FS_Subset DEF Assigned
<1>2. InFold(f) \in [held -> Row] /\ \A k \in held : InFold(f)[k] = eval.rows[k]
  BY <1>1 DEF InFold, Assigned
<1>3. Load(f, label) = Sum(v, held) /\ Load(f, label) \in Nat
  BY <1>1, <1>2, TotalIs DEF Load
<1>4. Sum(v, held) = Sum(w, held)
  <2>1. \A k \in held : v[k] = w[k]
    BY <1>1, <1>2
  <2> HIDE DEF v, w, held
  <2>2. QED
    BY <1>1, <2>1, SumSame
<1>5. Total(eval.rows, label) = Sum(w, S)
  BY TotalIs DEF Assigned
<1>6. \A k \in S : w[k] \in Nat /\ w[k] = eval.rows[k][label]
  BY DEF Assigned, Row
<1>7. \A k \in DOMAIN eval.foldOf : k \in S /\ (k \in held <=> eval.foldOf[k] = f)
  BY DEF Assigned
<1> HIDE DEF held, w, v
<1>8. \A k \in held : w[k] > 0 => Sum(w, held) > 0
  BY <1>1, <1>6, SumZero
<1>9. (\A k \in held : w[k] = 0) => Sum(w, held) = 0
  BY <1>1, SumZeros
<1>10. /\ Sum(w, S) = Sum(w, held) + Sum(w, S \ held)
       /\ Sum(w, held) \in Nat /\ Sum(w, S \ held) \in Nat
  BY <1>1, <1>6, SumWithin
<1>11. \A k \in S \ held : w[k] > 0 => Sum(w, S \ held) > 0
  <2>1. IsFiniteSet(S \ held)
    BY FS_Subset
  <2>2. QED
    BY <1>6, <2>1, SumZero
<1>12. ASSUME NEW k \in DOMAIN eval.foldOf, eval.foldOf[k] = f, eval.rows[k][label] > 0
       PROVE  Load(f, label) > 0
  BY <1>3, <1>4, <1>6, <1>7, <1>8, <1>12
<1>13. ASSUME \A k \in DOMAIN eval.foldOf : eval.foldOf[k] = f => ~(eval.rows[k][label] > 0)
       PROVE  Load(f, label) = 0
  <2>1. ASSUME NEW k \in held PROVE w[k] = 0
    <3>1. k \in DOMAIN eval.foldOf /\ k \in S /\ eval.foldOf[k] = f
      BY <1>1 DEF held
    <3>2. QED
      BY <1>6, <1>13, <3>1
  <2>2. QED
    BY <1>3, <1>4, <1>9, <2>1
<1>14. ASSUME NEW k \in DOMAIN eval.foldOf, eval.foldOf[k] # f, eval.rows[k][label] > 0
       PROVE  Load(f, label) < Total(eval.rows, label)
  <2>1. Sum(w, S \ held) > 0
    BY <1>6, <1>7, <1>11, <1>14
  <2>2. QED
    BY <1>3, <1>4, <1>5, <1>10, <2>1
<1>15. QED
  BY <1>3, <1>12, <1>13, <1>14

\* The fold that is chosen costs no more than any other.
LEMMA CheapestFold ==
  ASSUME NEW S, IsFiniteSet(S), Assigned(S), NEW g \in S, Folds(eval.rows) >= 2
  PROVE  /\ BestFold(g) \in 1 .. Folds(eval.rows)
         /\ \A k \in 1 .. Folds(eval.rows) : Cost(g, BestFold(g)) <= Cost(g, k)
<1> DEFINE F == Folds(eval.rows)
           cost == [f \in 1 .. F |-> Cost(g, f)]
<1>1. F \in Nat /\ F >= 1
  BY EnoughGroups DEF Assigned
<1>2. \A f \in 1 .. F : Cost(g, f) \in Nat
  <2>1. \A f \in 1 .. F : Load(f, "positive") \in Nat /\ Load(f, "negative") \in Nat
    BY LoadOf DEF Labels
  <2>2. eval.rows[g]["positive"] \in Nat /\ eval.rows[g]["negative"] \in Nat
    BY RowOf DEF Assigned
  <2>3. QED
    BY <2>1, <2>2 DEF Cost
<1>3. cost \in [1 .. F -> Nat]
  BY <1>2
<1> HIDE DEF F
<1>4. \E f \in 1 .. F : \A k \in 1 .. F : cost[f] < cost[k] \/ (cost[f] = cost[k] /\ f <= k)
  <2> HIDE DEF cost
  <2>1. QED
    BY <1>1, <1>3, SmallestCost
<1>5. \E f \in 1 .. F : \A k \in 1 .. F :
        Cost(g, f) < Cost(g, k) \/ (Cost(g, f) = Cost(g, k) /\ f <= k)
  BY <1>4
<1>6. /\ BestFold(g) \in 1 .. F
      /\ \A k \in 1 .. F : \/ Cost(g, BestFold(g)) < Cost(g, k)
                           \/ Cost(g, BestFold(g)) = Cost(g, k) /\ BestFold(g) <= k
  BY <1>5 DEF BestFold, F
<1>7. QED
  BY <1>2, <1>6 DEF F

\* Of each label, two groups that have been put into folds are not all in one.
Spread(rows, foldOf) ==
  \A label \in Labels : \A g, h \in DOMAIN foldOf :
    g # h /\ rows[g][label] > 0 /\ rows[h][label] > 0 =>
      \E p, q \in DOMAIN foldOf :
        rows[p][label] > 0 /\ rows[q][label] > 0 /\ foldOf[p] # foldOf[q]

\* While the groups are put into folds: there are two folds or more, and separate groups
\* are spread.
FoldingInv ==
  eval # Nothing /\ eval.phase = "folding" =>
    /\ Folds(eval.rows) >= 2
    /\ DOMAIN eval.foldOf \subseteq DOMAIN eval.rows
    /\ ~HasMixedGroup(eval.rows) => Spread(eval.rows, eval.foldOf)

\* The rows of an evaluation are rows of finitely many groups.
LEMMA RowsOfEvaluation ==
  ASSUME IsEvaluation(eval)
  PROVE  \E S : S = DOMAIN eval.rows /\ IsFiniteSet(S) /\ eval.rows \in [S -> Row]
<1>1. IsFiniteSet(Groups)
  BY RiskAssumption, FS_Union DEF Groups
<1>2. QED
  BY <1>1, RiskAssumption DEF IsEvaluation

\* The group that comes next goes where its label is rarest, so a second group of a label
\* goes to another fold than the first.
LEMMA FoldingSpreads ==
  ASSUME IsEvaluation(eval), FoldingInv, NEW g, groupedFolds(g), ~HasMixedGroup(eval.rows)
  PROVE  Spread(eval.rows, eval'.foldOf)
<1> DEFINE held == eval.foldOf
           new == eval'.foldOf
           rows == eval.rows
<1>1. PICK S : S = DOMAIN rows /\ IsFiniteSet(S) /\ rows \in [S -> Row]
  BY RowsOfEvaluation
<1>2. /\ g \in S \ DOMAIN held
      /\ eval # Nothing /\ eval.phase = "folding"
  BY <1>1 DEF groupedFolds, Occupied
<1>3. new = [k \in DOMAIN held \cup {g} |-> IF k = g THEN BestFold(g) ELSE held[k]]
  BY DEF groupedFolds, IsEvaluation
<1>4. DOMAIN held \subseteq S /\ Folds(rows) >= 2 /\ Spread(rows, held)
  BY <1>1, <1>2 DEF FoldingInv
<1>5. Assigned(S)
  BY <1>1, <1>4 DEF Assigned
<1>6. SUFFICES ASSUME NEW label \in Labels, NEW a \in DOMAIN new, NEW b \in DOMAIN new,
                      a # b, rows[a][label] > 0, rows[b][label] > 0
               PROVE  \E p, q \in DOMAIN new :
                        rows[p][label] > 0 /\ rows[q][label] > 0 /\ new[p] # new[q]
  BY DEF Spread
<1>7. CASE \E c, d \in DOMAIN held : c # d /\ rows[c][label] > 0 /\ rows[d][label] > 0
  <2>1. PICK p, q \in DOMAIN held :
          rows[p][label] > 0 /\ rows[q][label] > 0 /\ held[p] # held[q]
    BY <1>4, <1>7 DEF Spread
  <2>2. p \in DOMAIN new /\ q \in DOMAIN new /\ new[p] = held[p] /\ new[q] = held[q]
    BY <1>2, <1>3
  <2>3. QED
    BY <2>1, <2>2
<1>8. CASE ~ \E c, d \in DOMAIN held : c # d /\ rows[c][label] > 0 /\ rows[d][label] > 0
  <2>1. PICK p \in DOMAIN held :
          /\ rows[p][label] > 0 /\ rows[g][label] > 0
          /\ \A k \in DOMAIN held : rows[k][label] > 0 => k = p
    <3>1. DOMAIN new = DOMAIN held \cup {g}
      BY <1>3
    <3>2. QED
      BY <1>6, <1>8, <3>1
  <2>2. PICK f \in 1 .. Folds(rows) : f # held[p]
    <3>1. 1 \in 1 .. Folds(rows) /\ 2 \in 1 .. Folds(rows)
      BY <1>1, <1>4, EnoughGroups
    <3>2. QED
      BY <3>1
  <2>3. \A k \in Labels \ {label} : rows[g][k] = 0
    <3>1. \A k \in Labels \ {label} : ~(rows[g][k] > 0)
      BY <1>1, <1>2, <2>1 DEF HasMixedGroup, Labels
    <3>2. QED
      BY <1>1, <1>2, <3>1 DEF Row
  <2>4. \A k : Load(k, "positive") \in Nat /\ Load(k, "negative") \in Nat
    BY <1>1, <1>5, LoadOf DEF Labels
  <2>5. \A k : Cost(g, k) = rows[g][label] * Load(k, label)
    <3>1. rows[g]["positive"] \in Nat /\ rows[g]["negative"] \in Nat
      BY <1>1, <1>2, RowOf
    <3>2. CASE label = "positive"
      <4>1. rows[g]["negative"] = 0
        BY <2>3, <3>2 DEF Labels
      <4>2. QED
        BY <2>4, <3>1, <3>2, <4>1 DEF Cost
    <3>3. CASE label = "negative"
      <4>1. rows[g]["positive"] = 0
        BY <2>3, <3>3 DEF Labels
      <4>2. QED
        BY <2>4, <3>1, <3>3, <4>1 DEF Cost
    <3>4. QED
      BY <3>2, <3>3 DEF Labels
  <2>6. Load(f, label) = 0
    <3>1. \A k \in DOMAIN eval.foldOf : eval.foldOf[k] = f => ~(eval.rows[k][label] > 0)
      BY <2>1, <2>2
    <3>2. QED
      BY <1>1, <1>5, <3>1, LoadOf
  <2>7. Load(held[p], label) > 0
    BY <1>1, <1>5, <2>1, LoadOf
  <2>8. BestFold(g) # held[p]
    <3>1. Cost(g, BestFold(g)) <= Cost(g, f)
      BY <1>1, <1>2, <1>4, <1>5, <2>2, CheapestFold
    <3>2. rows[g][label] \in Nat /\ rows[g][label] > 0
      BY <1>1, <1>2, <2>1 DEF Row
    <3>3. Cost(g, f) = 0
      BY <2>5, <2>6, <3>2
    <3>4. Load(held[p], label) \in Nat
      BY <2>4 DEF Labels
    <3>5. rows[g][label] * Load(held[p], label) > 0 /\ rows[g][label] * Load(held[p], label) \in Nat
      BY <2>7, <3>2, <3>4
    <3>6. Cost(g, held[p]) > 0 /\ Cost(g, held[p]) \in Nat
      BY <2>5, <3>5
    <3>7. BestFold(g) = held[p] => Cost(g, BestFold(g)) = Cost(g, held[p])
      OBVIOUS
    <3>8. QED
      BY <3>1, <3>3, <3>6, <3>7
  <2>9. g \in DOMAIN new /\ p \in DOMAIN new /\ new[g] = BestFold(g) /\ new[p] = held[p]
    BY <1>2, <1>3
  <2>10. QED
    BY <2>1, <2>8, <2>9
<1>9. QED
  BY <1>7, <1>8

\* With both labels in two folds, holding one out leaves both.
LEMMA SpreadIsTrained ==
  ASSUME IsEvaluation(eval), FoldingInv, crossValidate, ~HasMixedGroup(eval.rows)
  PROVE  eval'.ran
<1>1. PICK S : S = DOMAIN eval.rows /\ IsFiniteSet(S) /\ eval.rows \in [S -> Row]
  BY RowsOfEvaluation
<1>2. eval # Nothing /\ eval.phase = "folding" /\ Occupied(eval.rows) = DOMAIN eval.foldOf
  BY DEF crossValidate
<1>3. Assigned(S) /\ Folds(eval.rows) >= 2 /\ Spread(eval.rows, eval.foldOf)
  BY <1>1, <1>2 DEF FoldingInv, Assigned
<1>4. ASSUME NEW f, NEW label \in Labels
      PROVE  Load(f, label) < Total(eval.rows, label)
  <2>1. PICK p, q \in S : p # q /\ eval.rows[p][label] > 0 /\ eval.rows[q][label] > 0
    BY <1>1, <1>3, EnoughGroups
  <2>2. p \in DOMAIN eval.foldOf /\ q \in DOMAIN eval.foldOf
    <3>1. \A k \in S : eval.rows[k][label] > 0 => eval.rows[k] # NoRows
      BY DEF NoRows
    <3>2. QED
      BY <1>1, <1>2, <2>1, <3>1 DEF Occupied
  <2>3. PICK r, t \in DOMAIN eval.foldOf :
          /\ eval.rows[r][label] > 0 /\ eval.rows[t][label] > 0
          /\ eval.foldOf[r] # eval.foldOf[t]
    BY <1>3, <2>1, <2>2 DEF Spread
  <2>4. PICK k \in {r, t} : eval.foldOf[k] # f
    BY <2>3
  <2>5. QED
    BY <1>1, <1>3, <2>3, <2>4, LoadOf
<1>5. \A f \in 1 .. Folds(eval.rows) : Trained(f)
  BY <1>4 DEF Trained
<1>6. QED
  BY <1>5 DEF crossValidate, IsEvaluation

\* Groups of one label each never leave a fold untrained: whatever the order of the shuffle,
\* two folds or more are validated (groupedFolds, crossValidate).
THEOREM SeparateGroups == RiskSpec => []SeparateGroupsAreValidated
<1> USE RiskAssumption
<1> DEFINE Inv == FoldingInv /\ SeparateGroupsAreValidated
<1>1. RiskInit => Inv
  BY DEF RiskInit, FoldingInv, SeparateGroupsAreValidated, Validated
<1>2. RiskTyped /\ Inv /\ [RiskNext]_riskVars => Inv'
  <2> SUFFICES ASSUME RiskTyped, FoldingInv, SeparateGroupsAreValidated, [RiskNext]_riskVars
               PROVE  FoldingInv' /\ SeparateGroupsAreValidated'
    OBVIOUS
  <2>1. CASE UNCHANGED eval
    <3>1. FoldingInv' = FoldingInv
      BY <2>1 DEF FoldingInv
    <3>2. SeparateGroupsAreValidated' = SeparateGroupsAreValidated
      BY <2>1 DEF SeparateGroupsAreValidated, Validated
    <3>3. QED
      BY <3>1, <3>2
  <2>2. ASSUME NEW scope, NEW rows, NEW granted, eval' = EvaluationOf(scope, rows, granted),
               Folds(rows) \in Nat
        PROVE  FoldingInv' /\ SeparateGroupsAreValidated'
    <3>1. /\ eval'.rows = rows /\ eval'.foldOf = <<>>
          /\ eval'.phase = IF Folds(rows) < 2 THEN "judging" ELSE "folding"
      BY <2>2 DEF EvaluationOf
    <3>2. Spread(eval'.rows, eval'.foldOf)
      BY <3>1 DEF Spread
    <3>3. FoldingInv'
      BY <2>2, <3>1, <3>2 DEF FoldingInv
    <3>4. SeparateGroupsAreValidated'
      BY <2>2, <3>1 DEF SeparateGroupsAreValidated, Validated
    <3>5. QED
      BY <3>3, <3>4
  <2>3. CASE ListTruePositives
    BY <2>3 DEF ListTruePositives, FoldingInv, SeparateGroupsAreValidated, Validated
  <2>4. CASE ListFalsePositives
    <3>1. PICK rows \in [Groups -> Row] : eval' = EvaluationOf("all", rows, TRUE)
      BY <2>4, LabelsRead
    <3>2. IsFiniteSet(Groups)
      BY FS_Union DEF Groups
    <3>3. Folds(rows) \in Nat
      BY <3>2, EnoughGroups
    <3>4. QED
      BY <2>2, <3>1, <3>3
  <2>5. ASSUME NEW g \in Groups, groupedFolds(g)
        PROVE  FoldingInv' /\ SeparateGroupsAreValidated'
    <3>1. IsEvaluation(eval)
      BY <2>5 DEF groupedFolds, RiskTyped, IsReading
    <3>2. /\ eval'.rows = eval.rows /\ eval'.phase = "folding"
          /\ DOMAIN eval'.foldOf = DOMAIN eval.foldOf \cup {g}
          /\ g \in DOMAIN eval.rows
          /\ eval # Nothing /\ eval.phase = "folding"
      BY <2>5, <3>1 DEF groupedFolds, IsEvaluation, Occupied
    <3>3. FoldingInv'
      BY <2>5, <3>1, <3>2, FoldingSpreads DEF FoldingInv
    <3>4. SeparateGroupsAreValidated'
      BY <3>2 DEF SeparateGroupsAreValidated, Validated
    <3>5. QED
      BY <3>3, <3>4
  <2>6. CASE crossValidate
    <3>1. IsEvaluation(eval)
      <4>1. eval # Nothing /\ eval.phase = "folding"
        BY <2>6 DEF crossValidate
      <4>2. QED
        BY <4>1 DEF RiskTyped, IsReading
    <3>2. eval'.rows = eval.rows /\ eval'.phase = "judging"
      BY <2>6, <3>1 DEF crossValidate, IsEvaluation
    <3>3. QED
      BY <2>6, <3>1, <3>2, SpreadIsTrained DEF FoldingInv, SeparateGroupsAreValidated, Validated
  <2>7. CASE evaluate
    <3>1. IsEvaluation(eval) /\ eval # Nothing /\ eval.phase = "judging"
      BY <2>7 DEF evaluate, RiskTyped, IsReading
    <3>2. CASE NeedsFleetPass
      <4>1. Part(eval.rows, FleetHosts) \in [FleetHosts -> Row]
        BY <3>1, <3>2 DEF NeedsFleetPass, IsEvaluation, Part, Groups
      <4>2. Folds(Part(eval.rows, FleetHosts)) \in Nat
        BY <4>1, EnoughGroups
      <4>3. QED
        BY <2>2, <2>7, <3>2, <4>2 DEF evaluate
    <3>3. CASE ~NeedsFleetPass
      <4>1. eval'.rows = eval.rows /\ eval'.ran = eval.ran /\ eval'.phase = "judged"
        BY <2>7, <3>1, <3>3 DEF evaluate, IsEvaluation
      <4>2. QED
        BY <3>1, <4>1 DEF FoldingInv, SeparateGroupsAreValidated, Validated
    <3>4. QED
      BY <3>2, <3>3
  <2>8. CASE Answer
    BY <2>8 DEF Answer, FoldingInv, SeparateGroupsAreValidated, Validated
  <2>9. QED
    BY <2>1, <2>3, <2>4, <2>5, <2>6, <2>7, <2>8 DEF RiskNext, riskVars, SetObservationVerdict
<1>3. QED
  BY <1>1, <1>2, RiskTypedInvariant, PTL DEF RiskSpec

-------------------------------------------------------------------------------
(* Ranks and pairs                                                           *)

PairsWith(a, m) == {<<a, k>> : k \in 1 .. m}
Pairs(n) == {q \in (1 .. n) \X (1 .. n) : q[1] > q[2]}

\* Products of natural numbers, doubled too, are natural.
LEMMA Products ==
  ASSUME NEW a \in Nat, NEW b \in Nat
  PROVE  a * b \in Nat /\ 2 * a * b \in Nat
OBVIOUS

\* One more score adds the pairs of that score with the lower ones.
LEMMA PairsGrow ==
  ASSUME NEW n \in Nat
  PROVE  /\ Pairs(n + 1) = Pairs(n) \cup PairsWith(n + 1, n)
         /\ Pairs(n) \cap PairsWith(n + 1, n) = {}
         /\ IsFiniteSet(Pairs(n)) /\ IsFiniteSet(PairsWith(n + 1, n))
<1>1. ASSUME NEW q \in Pairs(n + 1), q \notin Pairs(n) PROVE q \in PairsWith(n + 1, n)
  <2>1. PICK l \in 1 .. (n + 1), k \in 1 .. (n + 1) : q = <<l, k>> /\ l > k
    BY DEF Pairs
  <2>2. l = n + 1 /\ k \in 1 .. n
    BY <1>1, <2>1 DEF Pairs
  <2>3. QED
    BY <2>1, <2>2 DEF PairsWith
<1>2. ASSUME NEW q \in Pairs(n) PROVE q \in Pairs(n + 1) /\ q \notin PairsWith(n + 1, n)
  BY DEF Pairs, PairsWith
<1>3. ASSUME NEW q \in PairsWith(n + 1, n) PROVE q \in Pairs(n + 1)
  <2>1. PICK k \in 1 .. n : q = <<n + 1, k>>
    BY DEF PairsWith
  <2>2. QED
    BY <2>1 DEF Pairs
<1>4. IsFiniteSet(Pairs(n + 1))
  <2>1. IsFiniteSet(1 .. (n + 1))
    BY FS_Interval
  <2>2. IsFiniteSet((1 .. (n + 1)) \X (1 .. (n + 1)))
    BY <2>1, FS_Product
  <2>3. QED
    BY <2>2, FS_Subset DEF Pairs
<1>5. Pairs(n) \subseteq Pairs(n + 1) /\ PairsWith(n + 1, n) \subseteq Pairs(n + 1)
  BY <1>2, <1>3
<1>6. IsFiniteSet(Pairs(n)) /\ IsFiniteSet(PairsWith(n + 1, n))
  BY <1>4, <1>5, FS_Subset
<1>7. QED
  BY <1>1, <1>2, <1>3, <1>6

\* One more lower score adds one pair.
LEMMA PairsWithGrow ==
  ASSUME NEW a, NEW n \in Nat
  PROVE  /\ PairsWith(a, n + 1) = PairsWith(a, n) \cup {<<a, n + 1>>}
         /\ <<a, n + 1>> \notin PairsWith(a, n)
BY DEF PairsWith

\* The weights of the pairs of score a: twice the findings there times the others below.
PairsWeigh(cross, a, c, neg, m) ==
  \A k \in 1 .. m : neg[k] \in Nat /\ cross[<<a, k>>] = 2 * c * neg[k]

\* The arithmetic of one more lower score.
LEMMA Distributes == ASSUME NEW c \in Nat, NEW x \in Nat, NEW y \in Nat
                     PROVE  2 * c * x + 2 * c * y = 2 * c * (y + x)
OBVIOUS

\* The pairs of one score weigh twice its findings times all the others below it.
LEMMA PairsOfOne ==
  ASSUME NEW m \in Nat, NEW c \in Nat, NEW neg, NEW a, NEW cross, PairsWeigh(cross, a, c, neg, m)
  PROVE  Sum(cross, PairsWith(a, m)) = 2 * c * Sum(neg, 1 .. m)
<1> DEFINE Claim(n) == /\ IsFiniteSet(PairsWith(a, n))
                       /\ Sum(cross, PairsWith(a, n)) = 2 * c * Sum(neg, 1 .. n)
           T == {n \in Nat : n <= m => Claim(n)}
<1>1. Claim(0)
  <2>1. PairsWith(a, 0) = {} /\ 1 .. 0 = {}
    BY DEF PairsWith
  <2>2. IsFiniteSet({}) /\ Sum(cross, {}) = 0 /\ Sum(neg, {}) = 0
    BY FS_EmptySet, SumStep
  <2>3. 2 * c * 0 = 0
    OBVIOUS
  <2>4. QED
    BY <2>1, <2>2, <2>3
<1>2. ASSUME NEW n \in Nat, Claim(n), n + 1 <= m PROVE Claim(n + 1)
  <2> DEFINE S == PairsWith(a, n + 1)
             z == <<a, n + 1>>
  <2>1. S \ {z} = PairsWith(a, n) /\ z \in S /\ IsFiniteSet(S)
    BY <1>2, PairsWithGrow, FS_AddElement
  <2>2. \A p \in S : cross[p] \in Nat
    <3>1. ASSUME NEW k \in 1 .. (n + 1) PROVE cross[<<a, k>>] \in Nat
      <4>1. k \in 1 .. m
        BY <1>2
      <4>2. neg[k] \in Nat /\ cross[<<a, k>>] = 2 * c * neg[k]
        BY <4>1 DEF PairsWeigh
      <4>3. QED
        BY <4>2, Products
    <3>2. QED
      BY <3>1 DEF PairsWith
  <2>3. Sum(cross, S) = cross[z] + Sum(cross, S \ {z})
    <3> HIDE DEF S, z
    <3>1. QED
      BY <2>1, <2>2, SumRemove
  <2>4. n + 1 \in 1 .. m
    BY <1>2
  <2>5. cross[z] = 2 * c * neg[n + 1] /\ neg[n + 1] \in Nat
    BY <2>4 DEF PairsWeigh
  <2>6. Sum(neg, 1 .. (n + 1)) = Sum(neg, 1 .. n) + neg[n + 1] /\ Sum(neg, 1 .. n) \in Nat
    <3>1. \A k \in 1 .. (n + 1) : k \in 1 .. m
      BY <1>2
    <3>2. \A k \in 1 .. (n + 1) : neg[k] \in Nat
      BY <3>1 DEF PairsWeigh
    <3>3. QED
      BY <3>2, SumNext
  <2>7. 2 * c * neg[n + 1] + 2 * c * Sum(neg, 1 .. n) = 2 * c * (Sum(neg, 1 .. n) + neg[n + 1])
    BY <2>5, <2>6, Distributes
  <2>8. Sum(cross, S) = 2 * c * neg[n + 1] + 2 * c * Sum(neg, 1 .. n)
    <3> HIDE DEF S, z
    <3>1. Sum(cross, S \ {z}) = 2 * c * Sum(neg, 1 .. n)
      BY <1>2, <2>1
    <3>2. QED
      BY <2>3, <2>5, <3>1
  <2>9. Sum(cross, S) = 2 * c * Sum(neg, 1 .. (n + 1))
    <3> HIDE DEF S, z
    <3>1. QED
      BY <2>6, <2>7, <2>8
  <2>10. QED
    BY <2>1, <2>9
<1> HIDE DEF Claim
<1>3. 0 \in T /\ \A n \in Nat : n \in T => n + 1 \in T
  BY <1>1, <1>2
<1>4. m \in T
  <2> HIDE DEF T
  <2>1. QED
    BY <1>3, Climb
<1>5. QED
  BY <1>4 DEF Claim

\* The arithmetic of one more score: its ranks, its pairs and its ties.
LEMMA RankStep ==
  ASSUME NEW P \in Nat, NEW N \in Nat, NEW a \in Nat, NEW b \in Nat
  PROVE  P * (P + 1) + a * (2 * (P + N) + a + b + 1)
           = (P + a) * (P + a + 1) + 2 * a * N + a * b
OBVIOUS

\* rank, cross and tie are what areaUnderROC makes of the counts: the ranks of the findings
\* of each score, the weights of the pairs and of the ties.
Ranked(L, pos, neg, rank, cross, tie) ==
  /\ \A l \in 1 .. L :
       /\ rank[l] \in Nat
       /\ rank[l] = pos[l] * (2 * (Sum(pos, 1 .. (l - 1)) + Sum(neg, 1 .. (l - 1)))
                                + pos[l] + neg[l] + 1)
       /\ tie[l] = pos[l] * neg[l]
  /\ \A l, k \in 1 .. L : l > k => cross[<<l, k>>] = 2 * pos[l] * neg[k]

\* The rank sum of the findings, less what it is when none is ranked above any other, is the
\* pairs and the ties.
LEMMA RanksCountPairs ==
  ASSUME NEW L \in Nat, NEW pos \in [1 .. L -> Nat], NEW neg \in [1 .. L -> Nat],
         NEW rank, NEW cross, NEW tie, Ranked(L, pos, neg, rank, cross, tie)
  PROVE  Sum(rank, 1 .. L) = Sum(pos, 1 .. L) * (Sum(pos, 1 .. L) + 1)
                               + Sum(cross, Pairs(L)) + Sum(tie, 1 .. L)
<1> DEFINE Claim(n) == Sum(rank, 1 .. n) = Sum(pos, 1 .. n) * (Sum(pos, 1 .. n) + 1)
                                             + Sum(cross, Pairs(n)) + Sum(tie, 1 .. n)
           T == {n \in Nat : n <= L => Claim(n)}
<1>1. Claim(0)
  <2>1. Pairs(0) = {} /\ 1 .. 0 = {}
    BY DEF Pairs
  <2>2. Sum(rank, {}) = 0 /\ Sum(pos, {}) = 0 /\ Sum(cross, {}) = 0 /\ Sum(tie, {}) = 0
    BY FS_EmptySet, SumStep
  <2>3. Sum(rank, {}) = 0 * (0 + 1) + 0 + 0
    BY <2>2
  <2>4. QED
    BY <2>1, <2>2, <2>3
<1>2. ASSUME NEW n \in Nat, Claim(n), n + 1 <= L PROVE Claim(n + 1)
  <2>1. \A k \in 1 .. (n + 1) : /\ k \in 1 .. L /\ pos[k] \in Nat /\ neg[k] \in Nat
                                /\ rank[k] \in Nat
                                /\ tie[k] = pos[k] * neg[k] /\ tie[k] \in Nat
    <3>1. \A k \in 1 .. (n + 1) : k \in 1 .. L
      BY <1>2
    <3>2. \A k \in 1 .. L : pos[k] \in Nat /\ neg[k] \in Nat
      OBVIOUS
    <3>3. QED
      BY <3>1, <3>2, Products DEF Ranked
  <2>2. n + 1 \in 1 .. (n + 1) /\ (n + 1) - 1 = n
    OBVIOUS
  <2>3. /\ Sum(pos, 1 .. (n + 1)) = Sum(pos, 1 .. n) + pos[n + 1] /\ Sum(pos, 1 .. n) \in Nat
        /\ Sum(neg, 1 .. n) \in Nat
        /\ Sum(tie, 1 .. (n + 1)) = Sum(tie, 1 .. n) + tie[n + 1] /\ Sum(tie, 1 .. n) \in Nat
        /\ Sum(rank, 1 .. (n + 1)) = Sum(rank, 1 .. n) + rank[n + 1] /\ Sum(rank, 1 .. n) \in Nat
    BY <2>1, SumNext
  <2>4. /\ Sum(cross, Pairs(n + 1)) = Sum(cross, Pairs(n)) + 2 * pos[n + 1] * Sum(neg, 1 .. n)
        /\ Sum(cross, Pairs(n)) \in Nat
    <3>1. \A l, k \in 1 .. (n + 1) : l > k => cross[<<l, k>>] \in Nat
      <4>1. SUFFICES ASSUME NEW l \in 1 .. (n + 1), NEW k \in 1 .. (n + 1), l > k
                     PROVE  cross[<<l, k>>] \in Nat
        OBVIOUS
      <4>2. cross[<<l, k>>] = 2 * pos[l] * neg[k] /\ pos[l] \in Nat /\ neg[k] \in Nat
        BY <2>1, <4>1 DEF Ranked
      <4>3. QED
        BY <4>2, Products
    <3>2. \A q \in Pairs(n) \cup PairsWith(n + 1, n) : cross[q] \in Nat
      <4>1. \A q \in Pairs(n + 1) : cross[q] \in Nat
        BY <3>1 DEF Pairs
      <4>2. QED
        BY <4>1, PairsGrow
    <3>3. Sum(cross, Pairs(n + 1)) = Sum(cross, Pairs(n)) + Sum(cross, PairsWith(n + 1, n))
      <4>1. Sum(cross, Pairs(n) \cup PairsWith(n + 1, n))
              = Sum(cross, Pairs(n)) + Sum(cross, PairsWith(n + 1, n))
        BY <3>2, PairsGrow, SumUnion
      <4>2. QED
        BY <4>1, PairsGrow
    <3>4. Sum(cross, Pairs(n)) \in Nat
      BY <3>2, PairsGrow, SumNat
    <3>5. PairsWeigh(cross, n + 1, pos[n + 1], neg, n)
      <4>1. n + 1 \in 1 .. L
        BY <2>1, <2>2
      <4>2. \A k \in 1 .. n : k \in 1 .. L /\ n + 1 > k
        BY <1>2
      <4>3. \A k \in 1 .. L : neg[k] \in Nat
        OBVIOUS
      <4>4. QED
        BY <4>1, <4>2, <4>3 DEF PairsWeigh, Ranked
    <3>6. pos[n + 1] \in Nat
      BY <2>1, <2>2
    <3>7. Sum(cross, PairsWith(n + 1, n)) = 2 * pos[n + 1] * Sum(neg, 1 .. n)
      BY <3>5, <3>6, PairsOfOne
    <3>8. QED
      BY <3>3, <3>4, <3>7
  <2>5. PICK P, N, a, b \in Nat :
          P = Sum(pos, 1 .. n) /\ N = Sum(neg, 1 .. n) /\ a = pos[n + 1] /\ b = neg[n + 1]
    BY <2>1, <2>2, <2>3
  <2>6. rank[n + 1] = a * (2 * (P + N) + a + b + 1) /\ tie[n + 1] = a * b
    <3>1. n + 1 \in 1 .. L
      BY <2>1, <2>2
    <3>2. QED
      BY <2>2, <2>5, <3>1 DEF Ranked
  <2>7. P * (P + 1) + rank[n + 1] = (P + a) * (P + a + 1) + 2 * a * N + tie[n + 1]
    BY <2>6, RankStep
  <2>8. PICK x, y, z \in Nat : x = P * (P + 1) /\ y = (P + a) * (P + a + 1) /\ z = 2 * a * N
    BY Products
  <2>9. Sum(rank, 1 .. n) = x + Sum(cross, Pairs(n)) + Sum(tie, 1 .. n)
    BY <1>2, <2>5, <2>8
  <2>10. x + rank[n + 1] = y + z + tie[n + 1] /\ rank[n + 1] \in Nat /\ tie[n + 1] \in Nat
    BY <2>1, <2>2, <2>7, <2>8
  <2>11. Sum(cross, Pairs(n + 1)) = Sum(cross, Pairs(n)) + z
    BY <2>4, <2>5, <2>8
  <2>12. Sum(pos, 1 .. (n + 1)) * (Sum(pos, 1 .. (n + 1)) + 1) = y
    BY <2>3, <2>5, <2>8
  <2> HIDE DEF Claim
  <2>13. Sum(rank, 1 .. (n + 1)) = y + Sum(cross, Pairs(n + 1)) + Sum(tie, 1 .. (n + 1))
    <3>1. PICK r, c, t, s, u \in Nat : /\ r = Sum(rank, 1 .. n) /\ c = Sum(cross, Pairs(n))
                                       /\ t = Sum(tie, 1 .. n)
                                       /\ s = tie[n + 1] /\ u = rank[n + 1]
      BY <2>3, <2>4, <2>10
    <3>2. r = x + c + t /\ x + u = y + z + s
      BY <2>9, <2>10, <3>1
    <3>3. r + u = y + (c + z) + (t + s)
      BY <3>2
    <3>4. QED
      BY <2>3, <2>11, <3>1, <3>3
  <2>14. QED
    BY <2>12, <2>13 DEF Claim
<1> HIDE DEF Claim
<1>3. 0 \in T /\ \A n \in Nat : n \in T => n + 1 \in T
  BY <1>1, <1>2
<1>4. L \in T
  <2> HIDE DEF T
  <2>1. QED
    BY <1>3, Climb
<1>5. QED
  BY <1>4 DEF Claim

\* Rows of each label at each score.
Counts == [1 .. Levels -> [positive : Nat, negative : Nat]]

\* Below is the sum over the lower scores.
LEMMA BelowIs ==
  ASSUME NEW ranked \in Counts, NEW label \in Labels,
         NEW count, count = [l \in 1 .. Levels |-> ranked[l][label]]
  PROVE  /\ count \in [1 .. Levels -> Nat]
         /\ \A l \in 1 .. (Levels + 1) : Below(ranked, l, label) = Sum(count, 1 .. (l - 1))
         /\ \A l \in 1 .. (Levels + 1) : Sum(count, 1 .. (l - 1)) \in Nat
<1>1. Levels \in Nat
  BY RiskAssumption
<1>2. \A l \in 1 .. Levels : count[l] = ranked[l][label] /\ count[l] \in Nat
  BY DEF Counts, Labels
<1>3. count \in [1 .. Levels -> Nat]
  BY <1>2
<1>4. ASSUME NEW l \in 1 .. (Levels + 1)
      PROVE  /\ Below(ranked, l, label) = Sum(count, 1 .. (l - 1))
             /\ Sum(count, 1 .. (l - 1)) \in Nat
  <2> DEFINE f == [k \in 1 .. l - 1 |-> ranked[k][label]]
  <2>1. \A k \in 1 .. (l - 1) : k \in 1 .. Levels
    BY <1>1
  <2>2. IsFiniteSet(1 .. (l - 1))
    BY <1>1, FS_Interval
  <2>3. \A k \in 1 .. (l - 1) : f[k] = count[k] /\ count[k] \in Nat
    BY <1>2, <2>1
  <2>4. Below(ranked, l, label) = Sum(f, 1 .. (l - 1))
    BY DEF Below, SumOf, Sum
  <2> HIDE DEF f
  <2>5. Sum(f, 1 .. (l - 1)) = Sum(count, 1 .. (l - 1))
    BY <2>2, <2>3, SumSame
  <2>6. QED
    BY <2>2, <2>3, <2>4, <2>5, SumNat
<1>5. QED
  BY <1>3, <1>4

\* areaUnderROC counts the pairs, whatever the ranking.
LEMMA AreaIsPairs ==
  ASSUME NEW ranked \in Counts
  PROVE  areaUnderROC(ranked) =
           SumOf([p \in {q \in (1 .. Levels) \X (1 .. Levels) : q[1] > q[2]} |->
                    2 * ranked[p[1]]["positive"] * ranked[p[2]]["negative"]])
         + SumOf([l \in 1 .. Levels |-> ranked[l]["positive"] * ranked[l]["negative"]])
<1> DEFINE pos   == [l \in 1 .. Levels |-> ranked[l]["positive"]]
           neg   == [l \in 1 .. Levels |-> ranked[l]["negative"]]
           rank  == [l \in 1 .. Levels |-> ranked[l]["positive"] * RankAt(ranked, l)]
           tie   == [l \in 1 .. Levels |-> ranked[l]["positive"] * ranked[l]["negative"]]
           cross == [p \in Pairs(Levels) |-> 2 * ranked[p[1]]["positive"] * ranked[p[2]]["negative"]]
<1>1. Levels \in Nat
  BY RiskAssumption
<1>2. /\ pos \in [1 .. Levels -> Nat]
      /\ \A l \in 1 .. (Levels + 1) : /\ Below(ranked, l, "positive") = Sum(pos, 1 .. (l - 1))
                                      /\ Sum(pos, 1 .. (l - 1)) \in Nat
  <2> HIDE DEF pos
  <2>1. pos = [l \in 1 .. Levels |-> ranked[l]["positive"]]
    BY DEF pos
  <2>2. "positive" \in Labels
    BY DEF Labels
  <2>3. /\ pos \in [1 .. Levels -> Nat]
        /\ \A l \in 1 .. (Levels + 1) : Below(ranked, l, "positive") = Sum(pos, 1 .. (l - 1))
        /\ \A l \in 1 .. (Levels + 1) : Sum(pos, 1 .. (l - 1)) \in Nat
    BY <2>1, <2>2, BelowIs
  <2>4. QED
    BY <2>3
<1>3. /\ neg \in [1 .. Levels -> Nat]
      /\ \A l \in 1 .. (Levels + 1) : /\ Below(ranked, l, "negative") = Sum(neg, 1 .. (l - 1))
                                      /\ Sum(neg, 1 .. (l - 1)) \in Nat
  <2> HIDE DEF neg
  <2>1. neg = [l \in 1 .. Levels |-> ranked[l]["negative"]]
    BY DEF neg
  <2>2. "negative" \in Labels
    BY DEF Labels
  <2>3. /\ neg \in [1 .. Levels -> Nat]
        /\ \A l \in 1 .. (Levels + 1) : Below(ranked, l, "negative") = Sum(neg, 1 .. (l - 1))
        /\ \A l \in 1 .. (Levels + 1) : Sum(neg, 1 .. (l - 1)) \in Nat
    BY <2>1, <2>2, BelowIs
  <2>4. QED
    BY <2>3
<1>4. \A l \in 1 .. Levels : /\ pos[l] = ranked[l]["positive"] /\ pos[l] \in Nat
                             /\ neg[l] = ranked[l]["negative"] /\ neg[l] \in Nat
  BY <1>2, <1>3
<1>5. areaUnderROC(ranked) = Sum(rank, 1 .. Levels) - Sum(pos, 1 .. Levels) * (Sum(pos, 1 .. Levels) + 1)
  <2>1. Levels + 1 \in 1 .. (Levels + 1) /\ (Levels + 1) - 1 = Levels
    BY <1>1
  <2>2. Below(ranked, Levels + 1, "positive") = Sum(pos, 1 .. Levels)
    BY <1>2, <2>1
  <2>3. SumOf(rank) = Sum(rank, 1 .. Levels)
    BY DEF SumOf, Sum
  <2> HIDE DEF pos
  <2>4. QED
    BY <2>2, <2>3 DEF areaUnderROC
<1>6. SumOf(cross) = Sum(cross, Pairs(Levels)) /\ SumOf(tie) = Sum(tie, 1 .. Levels)
  BY DEF SumOf, Sum
<1>7. Ranked(Levels, pos, neg, rank, cross, tie)
  <2>1. ASSUME NEW l \in 1 .. Levels
        PROVE  /\ rank[l] \in Nat
               /\ rank[l] = pos[l] * (2 * (Sum(pos, 1 .. (l - 1)) + Sum(neg, 1 .. (l - 1)))
                                        + pos[l] + neg[l] + 1)
               /\ tie[l] = pos[l] * neg[l]
    <3>1. rank[l] = pos[l] * RankAt(ranked, l) /\ tie[l] = pos[l] * neg[l]
      BY <1>4
    <3>2. l \in 1 .. (Levels + 1)
      BY <1>1
    <3> HIDE DEF pos, neg, rank, tie, cross
    <3>3. RankAt(ranked, l) = 2 * (Sum(pos, 1 .. (l - 1)) + Sum(neg, 1 .. (l - 1)))
                                + (pos[l] + neg[l]) + 1
      BY <1>2, <1>3, <1>4, <3>2 DEF RankAt, RowsBelow, RowsAt
    <3>4. PICK P, N, a, b \in Nat : /\ P = Sum(pos, 1 .. (l - 1)) /\ N = Sum(neg, 1 .. (l - 1))
                                    /\ a = pos[l] /\ b = neg[l]
      BY <1>2, <1>3, <1>4, <3>2
    <3>5. RankAt(ranked, l) = 2 * (P + N) + a + b + 1
      BY SMTT(30), <3>3, <3>4
    <3>6. 2 * (P + N) + a + b + 1 \in Nat
      OBVIOUS
    <3>7. rank[l] = a * (2 * (P + N) + a + b + 1)
      BY <3>1, <3>4, <3>5
    <3>8. rank[l] \in Nat
      BY <3>6, <3>7, Products
    <3>9. QED
      BY <3>1, <3>4, <3>7, <3>8
  <2>2. ASSUME NEW l \in 1 .. Levels, NEW k \in 1 .. Levels, l > k
        PROVE  cross[<<l, k>>] = 2 * pos[l] * neg[k]
    <3>1. <<l, k>> \in Pairs(Levels)
      BY <2>2 DEF Pairs
    <3>2. cross[<<l, k>>] = 2 * ranked[l]["positive"] * ranked[k]["negative"]
      BY <3>1
    <3>3. QED
      BY <1>4, <3>2
  <2> HIDE DEF pos, neg, rank, tie, cross
  <2>3. QED
    BY <2>1, <2>2 DEF Ranked
<1>8. \E x \in Nat : x = Sum(pos, 1 .. Levels) * (Sum(pos, 1 .. Levels) + 1)
  <2>1. Sum(pos, 1 .. Levels) \in Nat
    <3>1. Levels + 1 \in 1 .. (Levels + 1) /\ (Levels + 1) - 1 = Levels
      BY <1>1
    <3> HIDE DEF pos
    <3>2. QED
      BY <1>2, <3>1
  <2> HIDE DEF pos
  <2>2. QED
    BY <2>1, Products
<1>9. SumOf(cross) \in Nat /\ SumOf(tie) \in Nat
  <2>1. IsFiniteSet(Pairs(Levels)) /\ IsFiniteSet(1 .. Levels)
    BY <1>1, PairsGrow, FS_Interval
  <2>2. \A l \in 1 .. Levels : tie[l] \in Nat
    BY <1>4, Products
  <2>3. \A p \in Pairs(Levels) : cross[p] \in Nat
    <3>1. ASSUME NEW p \in Pairs(Levels) PROVE cross[p] \in Nat
      <4>1. p[1] \in 1 .. Levels /\ p[2] \in 1 .. Levels
        BY DEF Pairs
      <4>2. ranked[p[1]]["positive"] \in Nat /\ ranked[p[2]]["negative"] \in Nat
        BY <1>4, <4>1
      <4>3. QED
        BY <4>2, Products
    <3>2. QED
      BY <3>1
  <2> HIDE DEF tie, cross
  <2>4. QED
    BY <1>6, <2>1, <2>2, <2>3, SumNat
<1>10. areaUnderROC(ranked) = SumOf(cross) + SumOf(tie)
  <2> HIDE DEF pos, neg, rank, tie, cross
  <2>1. PICK x \in Nat : x = Sum(pos, 1 .. Levels) * (Sum(pos, 1 .. Levels) + 1)
    BY <1>8
  <2>2. Sum(rank, 1 .. Levels) = x + SumOf(cross) + SumOf(tie)
    <3>1. pos \in [1 .. Levels -> Nat] /\ neg \in [1 .. Levels -> Nat]
      BY <1>2, <1>3
    <3>2. Sum(rank, 1 .. Levels) = Sum(pos, 1 .. Levels) * (Sum(pos, 1 .. Levels) + 1)
                                     + Sum(cross, Pairs(Levels)) + Sum(tie, 1 .. Levels)
      BY SMTT(30), <1>1, <1>7, <3>1, RanksCountPairs
    <3>3. QED
      BY <1>6, <2>1, <3>2
  <2>3. areaUnderROC(ranked) = Sum(rank, 1 .. Levels) - x
    BY <1>5, <2>1
  <2>4. QED
    BY <1>9, <2>2, <2>3
<1>11. QED
  BY <1>10 DEF Pairs

\* An evaluation has not ranked anything while its groups are put into folds.
RanksOnce ==
  eval # Nothing /\ eval.phase = "folding" => ~eval.ran

\* The figure that the gate compares is the share of pairs ranked rightly, ties for half, for
\* any number of scores and rows (areaUnderROC).
THEOREM AreaIsTheShareOfPairs == RiskSpec => []AreaCountsPairs
<1> USE RiskAssumption
<1>1. RiskInit => RanksOnce /\ AreaCountsPairs
  BY DEF RiskInit, RanksOnce, AreaCountsPairs, Validated
<1>2. RiskTyped /\ RanksOnce /\ AreaCountsPairs /\ [RiskNext]_riskVars => RanksOnce' /\ AreaCountsPairs'
  <2> SUFFICES ASSUME RiskTyped, RanksOnce, AreaCountsPairs, [RiskNext]_riskVars
               PROVE  RanksOnce' /\ AreaCountsPairs'
    OBVIOUS
  <2>1. CASE UNCHANGED eval
    <3>1. RanksOnce'
      BY <2>1 DEF RanksOnce
    <3>2. AreaCountsPairs' = AreaCountsPairs
      BY <2>1 DEF AreaCountsPairs, Validated
    <3>3. QED
      BY <3>1, <3>2
  <2>2. ASSUME NEW scope, NEW rows, NEW granted, eval' = EvaluationOf(scope, rows, granted)
        PROVE  RanksOnce' /\ AreaCountsPairs'
    <3>1. eval'.ran = FALSE
      BY <2>2 DEF EvaluationOf
    <3>2. QED
      BY <3>1 DEF RanksOnce, AreaCountsPairs
  <2>3. ASSUME eval' # Nothing => eval'.phase \in {"reading", "folding"} /\ RanksOnce'
        PROVE  RanksOnce' /\ AreaCountsPairs'
    BY <2>3 DEF RanksOnce, AreaCountsPairs, Validated
  <2>4. ASSUME IsEvaluation(eval), eval # Nothing, eval.phase = "judging",
               eval' = [eval EXCEPT !.phase = "judged", !.granted = @ /\ Passes]
        PROVE  RanksOnce' /\ AreaCountsPairs'
    <3>1. /\ eval'.ran = eval.ran /\ eval'.area = eval.area /\ eval'.ranked = eval.ranked
          /\ eval'.phase = "judged"
      BY <2>4 DEF IsEvaluation
    <3>2. eval.ran => AreaCountsPairs'
      BY <2>4, <3>1 DEF AreaCountsPairs, Validated
    <3>3. ~eval.ran => AreaCountsPairs'
      BY <3>1 DEF AreaCountsPairs
    <3>4. QED
      BY <3>1, <3>2, <3>3 DEF RanksOnce
  <2>5. ASSUME crossValidate PROVE RanksOnce' /\ AreaCountsPairs'
    <3>1. eval # Nothing /\ eval.phase = "folding"
      BY <2>5 DEF crossValidate
    <3>2. IsEvaluation(eval) /\ ~eval.ran
      BY <3>1 DEF RiskTyped, IsReading, RanksOnce
    <3>3. CASE eval' = [eval EXCEPT !.phase = "judging"]
      <4>1. ~eval'.ran /\ eval'.phase = "judging"
        BY <3>2, <3>3 DEF IsEvaluation
      <4>2. QED
        BY <4>1 DEF RanksOnce, AreaCountsPairs
    <3>4. ASSUME NEW ranked \in Rankings(eval.rows), NEW sound \in BOOLEAN,
                 eval' = [eval EXCEPT !.phase = "judging", !.ran = TRUE, !.ranked = ranked,
                                      !.area = areaUnderROC(ranked), !.sound = sound]
          PROVE  RanksOnce' /\ AreaCountsPairs'
      <4>1. ranked \in Counts
        <5>1. PICK S : IsFiniteSet(S) /\ eval.rows \in [S -> Row]
          BY <3>2, RowsOfEvaluation
        <5>2. Total(eval.rows, "positive") \in Nat /\ Total(eval.rows, "negative") \in Nat
          BY <5>1, TotalIs DEF Labels
        <5>3. 0 .. Total(eval.rows, "positive") \subseteq Nat /\ 0 .. Total(eval.rows, "negative") \subseteq Nat
          BY <5>2
        <5>4. QED
          BY <5>3 DEF Rankings, Counts
      <4>2. eval'.area = areaUnderROC(ranked) /\ eval'.ranked = ranked /\ eval'.phase = "judging"
        BY <3>2, <3>4 DEF IsEvaluation
      <4>3. AreaCountsPairs'
        BY <4>1, <4>2, AreaIsPairs DEF AreaCountsPairs
      <4>4. QED
        BY <4>2, <4>3 DEF RanksOnce
    <3>5. QED
      BY <2>5, <3>3, <3>4 DEF crossValidate
  <2>6. ASSUME ListTruePositives PROVE RanksOnce' /\ AreaCountsPairs'
    <3>1. eval'.phase = "reading"
      BY <2>6 DEF ListTruePositives
    <3>2. QED
      BY <2>3, <3>1 DEF RanksOnce
  <2>7. ASSUME ListFalsePositives PROVE RanksOnce' /\ AreaCountsPairs'
    BY <2>2, <2>7, LabelsRead
  <2>8. ASSUME NEW g \in Groups, groupedFolds(g) PROVE RanksOnce' /\ AreaCountsPairs'
    <3>1. IsEvaluation(eval) /\ ~eval.ran
      BY <2>8 DEF groupedFolds, RiskTyped, IsReading, RanksOnce
    <3>2. eval'.phase = "folding" /\ ~eval'.ran
      BY <2>8, <3>1 DEF groupedFolds, IsEvaluation
    <3>3. QED
      BY <2>3, <3>2 DEF RanksOnce
  <2>9. ASSUME evaluate PROVE RanksOnce' /\ AreaCountsPairs'
    <3>1. IsEvaluation(eval) /\ eval # Nothing /\ eval.phase = "judging"
      BY <2>9 DEF evaluate, RiskTyped, IsReading
    <3>2. QED
      BY <2>2, <2>4, <2>9, <3>1 DEF evaluate
  <2>10. ASSUME Answer PROVE RanksOnce' /\ AreaCountsPairs'
    BY <2>3, <2>10 DEF Answer
  <2>11. QED
    BY <2>1, <2>5, <2>6, <2>7, <2>8, <2>9, <2>10 DEF RiskNext, riskVars, SetObservationVerdict
<1>3. QED
  BY <1>1, <1>2, RiskTypedInvariant, PTL DEF RiskSpec

-------------------------------------------------------------------------------
(* Pages                                                                     *)

\* The rows that are there, and the order of the pages.
Present == {i \in RowIds : sortTime[i] # NoRow}
Earlier(i, j) == Before(sortTime[i], i, sortTime[j], j)

\* The rows, the transactions that write them and the clock.
PagingTyped ==
  /\ sortTime \in [RowIds -> Nat \cup {NoRow}]
  /\ writing \in [RowIds -> Nat \cup {NoRow}]
  /\ pgNow \in Nat
  /\ list \in {"observations", "audit"}

\* Of the rows that stayed, those up to the cursor have been on one page, those after it
\* on none.
ListedUpTo(at, listed, steady) ==
  \A i \in steady : listed[i] = IF AfterCursor(i, at) THEN 0 ELSE 1

\* A cursor is a row's time and its id.
IsCursor(at) == at \in Nat \X RowIds

\* What makes every page right: the listing's own types, and the rows that stayed are listed
\* once up to the cursor and not yet after it.
ListingInv ==
  listing # NoRow =>
    /\ listing = [limit |-> listing.limit, cursor |-> listing.cursor, listed |-> listing.listed,
                  steady |-> listing.steady]
    /\ listing.limit \in Nat \ {0}
    /\ listing.listed \in [RowIds -> Nat]
    /\ listing.steady \subseteq Present
    /\ listing.cursor = NoRow \/ IsCursor(listing.cursor)
    /\ list = "observations" =>
         IF listing.cursor = NoRow THEN \A i \in listing.steady : listing.listed[i] = 1
         ELSE ListedUpTo(listing.cursor, listing.listed, listing.steady)

\* Before orders the rows that are there: no two tie, as the id decides between equal times.
LEMMA Order ==
  ASSUME PagingTyped
  PROVE  /\ \A i, j \in Present : i = j \/ Earlier(i, j) \/ Earlier(j, i)
         /\ \A i, j \in Present : Earlier(i, j) => ~Earlier(j, i) /\ i # j
         /\ \A i, j, k \in Present : Earlier(i, j) /\ Earlier(j, k) => Earlier(i, k)
<1>1. MaxRow \in Nat
  BY PagingAssumption
<1>2. \A i \in Present : i \in Nat /\ sortTime[i] \in Nat
  BY <1>1 DEF PagingTyped, Present, RowIds
<1>3. \A i, j \in Present : i = j \/ Earlier(i, j) \/ Earlier(j, i)
  BY <1>2 DEF Earlier, Before
<1>4. \A i, j \in Present : Earlier(i, j) => ~Earlier(j, i) /\ i # j
  BY <1>2 DEF Earlier, Before
<1>5. \A i, j, k \in Present : Earlier(i, j) /\ Earlier(j, k) => Earlier(i, k)
  BY <1>2 DEF Earlier, Before
<1>6. QED
  BY <1>3, <1>4, <1>5

\* There are finitely many rows.
LEMMA PresentFinite == ASSUME NEW S \in SUBSET Present PROVE IsFiniteSet(S)
<1>1. IsFiniteSet(RowIds)
  BY PagingAssumption, FS_Interval DEF RowIds
<1>2. S \subseteq RowIds
  BY DEF Present
<1>3. QED
  BY <1>1, <1>2, FS_Subset

\* Last of some rows is one of them, older than the others.
LEMMA LastIs ==
  ASSUME PagingTyped, NEW S \in SUBSET Present, S # {}
  PROVE  Last(S) \in S /\ \A j \in S \ {Last(S)} : Earlier(Last(S), j)
<1> DEFINE R == {p \in Present \X Present : Earlier(p[1], p[2])}
<1>1. \A i, j \in S : <<i, j>> \in R <=> Earlier(i, j)
  OBVIOUS
<1> HIDE DEF R
<1>2. \E i \in S : \A j \in S \ {i} : <<i, j>> \in R
  <2>1. IsFiniteSet(S)
    BY PresentFinite
  <2>2. \A i, j \in S : i = j \/ <<i, j>> \in R \/ <<j, i>> \in R
    BY <1>1, Order
  <2>3. \A i, j, k \in S : <<i, j>> \in R /\ <<j, k>> \in R => <<i, k>> \in R
    BY <1>1, Order
  <2>4. QED
    BY <2>1, <2>2, <2>3, FirstInOrder
<1>3. \E i \in S : \A j \in S \ {i} : Before(sortTime[i], i, sortTime[j], j)
  BY <1>1, <1>2 DEF Earlier
<1>4. QED
  BY <1>3 DEF Last, Earlier

\* Of some rows one is newer than the others.
LEMMA NewestIs ==
  ASSUME PagingTyped, NEW S \in SUBSET Present, S # {}
  PROVE  \E i \in S : \A j \in S \ {i} : Earlier(j, i)
<1> DEFINE R == {p \in Present \X Present : Earlier(p[2], p[1])}
<1>1. \A i, j \in S : <<i, j>> \in R <=> Earlier(j, i)
  OBVIOUS
<1> HIDE DEF R
<1>2. IsFiniteSet(S)
  BY PresentFinite
<1>3. \A i, j \in S : i = j \/ <<i, j>> \in R \/ <<j, i>> \in R
  BY <1>1, Order
<1>4. \A i, j, k \in S : <<i, j>> \in R /\ <<j, k>> \in R => <<i, k>> \in R
  BY <1>1, Order
<1>5. \E i \in S : \A j \in S \ {i} : <<i, j>> \in R
  BY <1>2, <1>3, <1>4, FirstInOrder
<1>6. QED
  BY <1>1, <1>5

\* The rows after a cursor, and those of S that come before row i.
After(at) == {i \in RowIds : sortTime[i] # NoRow /\ AfterCursor(i, at)}
NewerIn(S, i) == {j \in S : Earlier(i, j)}

\* The store's query in these words.
LEMMA RowsAre ==
  ASSUME NEW at, NEW n
  PROVE  /\ ListRows(at, n) = {i \in After(at) : Cardinality(NewerIn(After(at), i)) < StoreLimit(n)}
         /\ ListRows(at, n) \subseteq After(at)
         /\ After(at) \subseteq Present
<1>1. ListRows(at, n) = {i \in After(at) : Cardinality(NewerIn(After(at), i)) < StoreLimit(n)}
  BY DEF ListRows, After, NewerIn, Earlier
<1>2. QED
  BY <1>1 DEF After, Present

\* A row the query leaves out for its limit is older than every row it gives.
LEMMA RowsAreNewest ==
  ASSUME PagingTyped, NEW at, NEW n, StoreLimit(n) \in Nat,
         NEW i \in ListRows(at, n), NEW j \in After(at) \ ListRows(at, n)
  PROVE  Earlier(j, i)
<1> DEFINE left == After(at)
<1>1. i \in left /\ j \in left /\ i # j /\ left \subseteq Present
  BY RowsAre
<1>2. ASSUME Earlier(i, j) PROVE FALSE
  <2>1. NewerIn(left, j) \subseteq NewerIn(left, i)
    BY <1>1, <1>2, Order DEF NewerIn
  <2>2. IsFiniteSet(NewerIn(left, i)) /\ IsFiniteSet(NewerIn(left, j))
    <3>1. NewerIn(left, i) \in SUBSET Present /\ NewerIn(left, j) \in SUBSET Present
      BY <1>1 DEF NewerIn
    <3>2. QED
      BY <3>1, PresentFinite
  <2> HIDE DEF left
  <2>3. /\ Cardinality(NewerIn(left, j)) <= Cardinality(NewerIn(left, i))
        /\ Cardinality(NewerIn(left, j)) \in Nat /\ Cardinality(NewerIn(left, i)) \in Nat
    BY <2>1, <2>2, FS_Subset, FS_CardinalityType
  <2>4. Cardinality(NewerIn(left, i)) < StoreLimit(n)
    BY RowsAre DEF left
  <2>5. Cardinality(NewerIn(left, j)) < StoreLimit(n)
    BY <2>3, <2>4
  <2>6. QED
    BY <1>1, <2>5, RowsAre DEF left
<1>3. QED
  BY <1>1, <1>2, Order

\* When the query gives fewer rows than asked for, it gives every row after the cursor.
LEMMA RowsAreAll ==
  ASSUME PagingTyped, NEW at, NEW n \in Nat, StoreLimit(n) = n,
         Cardinality(ListRows(at, n)) < n
  PROVE  ListRows(at, n) = After(at)
<1> DEFINE left == After(at)
           rows == ListRows(at, n)
<1>1. rows \subseteq left /\ left \subseteq Present
  BY RowsAre
<1>2. ASSUME left \ rows # {} PROVE FALSE
  <2>1. PICK m \in left \ rows : \A j \in (left \ rows) \ {m} : Earlier(j, m)
    <3>1. left \ rows \in SUBSET Present
      BY <1>1
    <3> HIDE DEF left, rows
    <3>2. QED
      BY <1>2, <3>1, NewestIs
  <2>2. NewerIn(left, m) \subseteq rows
    <3>1. SUFFICES ASSUME NEW j \in left, Earlier(m, j), j \notin rows PROVE FALSE
      BY DEF NewerIn
    <3>2. m \in Present /\ j \in Present /\ m # j
      BY <1>1, <2>1, <3>1, Order
    <3>3. Earlier(j, m)
      BY <2>1, <3>1, <3>2
    <3>4. QED
      BY <3>1, <3>2, <3>3, Order
  <2>3. IsFiniteSet(rows)
    BY <1>1, PresentFinite
  <2> HIDE DEF left
  <2>4. /\ Cardinality(NewerIn(left, m)) <= Cardinality(rows)
        /\ Cardinality(NewerIn(left, m)) \in Nat /\ Cardinality(rows) \in Nat
    <3> HIDE DEF rows
    <3>1. QED
      BY <2>2, <2>3, FS_Subset, FS_CardinalityType
  <2>5. Cardinality(NewerIn(left, m)) < n
    BY <2>4
  <2>6. QED
    BY <2>1, <2>5, RowsAre DEF left
<1>3. QED
  BY <1>1, <1>2

\* What is kept of one row too many is not nothing.
LEMMA PageIsKept ==
  ASSUME PagingTyped, NEW rows \in SUBSET Present, NEW limit \in Nat \ {0}, Cardinality(rows) > limit
  PROVE  Last(rows) \in rows /\ rows \ {Last(rows)} # {}
<1>1. IsFiniteSet(rows)
  BY PresentFinite
<1>2. rows # {}
  BY FS_EmptySet
<1>3. Last(rows) \in rows
  BY <1>2, LastIs
<1>4. ASSUME rows = {Last(rows)} PROVE FALSE
  <2>1. Cardinality(rows) = 1
    BY <1>4, FS_Singleton
  <2>2. QED
    BY <2>1
<1>5. QED
  BY <1>3, <1>4

\* The page: the row more than asked for is dropped.
Kept(limit, at) ==
  LET rows == ListRows(at, limit + 1) IN
  IF Cardinality(rows) > limit THEN rows \ {Last(rows)} ELSE rows

\* With the next cursor, a row is still to come exactly when it was to come and is not on
\* this page; without one, every row that was to come is on it (pageLimit, ListObservations).
LEMMA PageAdvances ==
  ASSUME PagingTyped, list = "observations", NEW limit \in Nat \ {0},
         NEW at, at = NoRow \/ IsCursor(at),
         NEW i \in Present
  PROVE  LET rows == ListRows(at, limit + 1)
             page == Kept(limit, at) IN
         IF page = rows THEN i \in page <=> AfterCursor(i, at)
         ELSE /\ i \in page => AfterCursor(i, at)
              /\ Earlier(i, Last(page)) <=> AfterCursor(i, at) /\ i \notin page
<1> DEFINE rows == ListRows(at, limit + 1)
           page == Kept(limit, at)
           left == After(at)
<1>1. rows \subseteq left /\ left \subseteq Present /\ page \subseteq rows
  BY RowsAre DEF Kept
<1>2. StoreLimit(limit + 1) = limit + 1 /\ limit + 1 \in Nat
  BY DEF StoreLimit
<1>3. i \in left <=> AfterCursor(i, at)
  BY DEF After, Present
<1>4. IsFiniteSet(rows) /\ Cardinality(rows) \in Nat
  BY <1>1, PresentFinite, FS_CardinalityType
<1>5. CASE Cardinality(rows) > limit
  <2>1. Last(rows) \in rows /\ page = rows \ {Last(rows)} /\ page # {} /\ page # rows
    <3>1. rows \in SUBSET Present
      BY <1>1
    <3>2. page = rows \ {Last(rows)}
      BY <1>5 DEF Kept
    <3> HIDE DEF rows, page
    <3>3. Last(rows) \in rows /\ rows \ {Last(rows)} # {}
      BY <1>5, <3>1, PageIsKept
    <3>4. QED
      BY <3>2, <3>3
  <2> DEFINE P == Last(page)
             L == Last(rows)
  <2>2. P \in page /\ \A j \in page \ {P} : Earlier(P, j)
    <3>1. page \in SUBSET Present /\ page # {}
      BY <1>1, <2>1
    <3> HIDE DEF page
    <3>2. QED
      BY <3>1, LastIs
  <2>3. L \in rows /\ \A j \in rows \ {L} : Earlier(L, j)
    <3>1. rows \in SUBSET Present /\ rows # {}
      BY <1>1, <2>1
    <3> HIDE DEF rows
    <3>2. QED
      BY <3>1, LastIs
  <2>4. P \in Present /\ AfterCursor(P, at) /\ P \in rows
    BY <1>1, <2>2 DEF After
  <2>5. CASE i \notin left
    <3>1. ~AfterCursor(i, at) /\ i \notin page
      BY <1>1, <1>3, <2>5
    <3>2. at # NoRow /\ IsCursor(at)
      BY <3>1 DEF AfterCursor
    <3>3. at[1] \in Nat /\ at[2] \in Nat
      BY <3>2, PagingAssumption DEF IsCursor, RowIds
    <3>4. i \in Nat /\ P \in Nat /\ sortTime[i] \in Nat /\ sortTime[P] \in Nat
      BY <2>4, PagingAssumption DEF Present, PagingTyped, RowIds
    <3> HIDE DEF P
    <3>5. ~Before(sortTime[i], i, at[1], at[2]) /\ Before(sortTime[P], P, at[1], at[2])
      BY <2>4, <3>1, <3>2 DEF AfterCursor
    <3>6. ~Earlier(i, P)
      BY <3>3, <3>4, <3>5 DEF Earlier, Before
    <3>7. QED
      BY <2>1, <3>1, <3>6 DEF P
  <2>6. CASE i \in page
    <3>1. AfterCursor(i, at)
      BY <1>1, <1>3, <2>6
    <3>2. ~Earlier(i, P)
      BY <2>2, <2>4, <2>6, Order
    <3>3. QED
      BY <2>1, <2>6, <3>1, <3>2
  <2>7. CASE i \in left /\ i \notin page
    <3>1. Earlier(i, P)
      <4>1. CASE i \in rows
        <5>1. i = L /\ P # L
          BY <2>1, <2>2, <2>7, <4>1
        <5>2. QED
          BY <2>3, <2>4, <5>1
      <4>2. CASE i \notin rows
        <5> HIDE DEF P
        <5>1. QED
          BY <1>2, <2>4, <2>7, <4>2, RowsAreNewest
      <4>3. QED
        BY <4>1, <4>2
    <3>2. QED
      BY <1>3, <2>1, <2>7, <3>1
  <2>8. QED
    BY <2>5, <2>6, <2>7
<1>6. CASE ~(Cardinality(rows) > limit)
  <2>1. page = rows
    BY <1>6 DEF Kept
  <2>2. Cardinality(rows) < limit + 1
    BY <1>4, <1>6
  <2>3. rows = left
    BY <1>2, <2>2, RowsAreAll
  <2>4. QED
    BY <1>3, <2>1, <2>3
<1>7. QED
  BY <1>5, <1>6

\* Reading a page keeps the invariant: the first one, and each next one.
LEMMA PageIsRead ==
  ASSUME PagingTyped, NEW limit \in Nat \ {0},
         NEW at, at = NoRow \/ IsCursor(at),
         NEW listed \in [RowIds -> Nat], NEW steady \in SUBSET Present,
         list = "observations" => ListedUpTo(at, listed, steady),
         ListPage(limit, at, listed, steady),
         sortTime' = sortTime, list' = list
  PROVE  ListingInv'
<1> DEFINE rows == ListRows(at, limit + 1)
           page == Kept(limit, at)
           ahead == IF page = rows THEN NoRow ELSE <<sortTime[Last(page)], Last(page)>>
           count == [i \in RowIds |-> listed[i] + IF i \in page THEN 1 ELSE 0]
<1>1. listing' = [limit |-> limit, cursor |-> ahead, listed |-> count, steady |-> steady]
  BY DEF ListPage, Kept
<1>2. Present' = Present
  BY DEF Present
<1>3. count \in [RowIds -> Nat]
  OBVIOUS
<1>4. rows \subseteq Present
  BY RowsAre
<1>5. page # rows => IsCursor(ahead) /\ ahead # NoRow
  <2>1. SUFFICES ASSUME page # rows PROVE IsCursor(ahead) /\ ahead # NoRow
    OBVIOUS
  <2>2. Cardinality(rows) > limit /\ page = rows \ {Last(rows)}
    BY <2>1 DEF Kept
  <2>3. page # {}
    <3> HIDE DEF rows
    <3>1. QED
      BY <1>4, <2>2, PageIsKept
  <2>4. Last(page) \in Present
    <3>1. page \in SUBSET Present
      BY <1>4, <2>2
    <3> HIDE DEF page
    <3>2. QED
      BY <2>3, <3>1, LastIs
  <2>5. sortTime[Last(page)] \in Nat /\ Last(page) \in RowIds
    BY <2>4 DEF Present, PagingTyped
  <2>6. ahead = <<sortTime[Last(page)], Last(page)>>
    BY <2>1
  <2> HIDE DEF ahead, page
  <2>7. IsCursor(ahead)
    BY <2>5, <2>6 DEF IsCursor
  <2>8. RowIds \subseteq Nat
    BY PagingAssumption DEF RowIds
  <2>9. QED
    BY <2>7, <2>8, PagingAssumption DEF IsCursor
<1>6. ASSUME list = "observations", NEW i \in steady
      PROVE  IF ahead = NoRow THEN count[i] = 1 ELSE count[i] = IF AfterCursor(i, ahead) THEN 0 ELSE 1
  <2>1. i \in Present /\ i \in RowIds
    BY DEF Present
  <2>2. listed[i] = IF AfterCursor(i, at) THEN 0 ELSE 1
    BY <1>6 DEF ListedUpTo
  <2>3. count[i] = listed[i] + IF i \in page THEN 1 ELSE 0
    BY <2>1
  <2>4. IF page = rows THEN i \in page <=> AfterCursor(i, at)
        ELSE /\ i \in page => AfterCursor(i, at)
             /\ Earlier(i, Last(page)) <=> AfterCursor(i, at) /\ i \notin page
    BY <1>6, <2>1, PageAdvances
  <2>5. CASE page = rows
    BY <2>2, <2>3, <2>4, <2>5
  <2>6. CASE page # rows
    <3>1. ahead = <<sortTime[Last(page)], Last(page)>> /\ ahead # NoRow
      BY <1>5, <2>6
    <3>2. AfterCursor(i, ahead) <=> Earlier(i, Last(page))
      <4> HIDE DEF ahead, page
      <4>1. ahead[1] = sortTime[Last(page)] /\ ahead[2] = Last(page)
        BY <3>1
      <4>2. QED
        BY <3>1, <4>1 DEF AfterCursor, Earlier
    <3> HIDE DEF ahead, page, rows, count
    <3>3. QED
      BY <2>2, <2>3, <2>4, <2>6, <3>1, <3>2
  <2>7. QED
    BY <2>5, <2>6
<1> HIDE DEF rows, page, ahead, count
<1>7. ahead = NoRow \/ IsCursor(ahead)
  BY <1>5 DEF ahead
<1>8. list = "observations" =>
        IF ahead = NoRow THEN \A i \in steady : count[i] = 1 ELSE ListedUpTo(ahead, count, steady)
  BY <1>6 DEF ListedUpTo
<1>9. /\ listing'.limit = limit /\ listing'.cursor = ahead
      /\ listing'.listed = count /\ listing'.steady = steady
  BY <1>1
<1>10. list' = "observations" =>
         IF listing'.cursor = NoRow THEN \A i \in listing'.steady : listing'.listed[i] = 1
         ELSE ListedUpTo(listing.cursor, listing.listed, listing.steady)'
  BY <1>8, <1>9 DEF ListedUpTo, AfterCursor
<1>11. QED
  BY <1>1, <1>2, <1>3, <1>7, <1>9, <1>10 DEF ListingInv, IsCursor

\* A row that is written or leaves keeps it: the others are where they were.
LEMMA TouchedKeeps ==
  ASSUME PagingTyped, ListingInv, NEW i \in RowIds, listing' = Touched(i), list' = list,
         \A j \in RowIds \ {i} : sortTime'[j] = sortTime[j]
  PROVE  ListingInv'
<1>1. CASE listing = NoRow
  BY <1>1 DEF Touched, ListingInv
<1>2. CASE listing # NoRow
  <2> DEFINE steady == listing.steady \ {i}
  <2>1. /\ listing = [limit |-> listing.limit, cursor |-> listing.cursor,
                      listed |-> listing.listed, steady |-> listing.steady]
        /\ listing' = [listing EXCEPT !.steady = @ \ {i}]
    BY <1>2 DEF Touched, ListingInv
  <2>2. listing' = [limit |-> listing.limit, cursor |-> listing.cursor,
                    listed |-> listing.listed, steady |-> steady]
    BY <2>1
  <2>3. steady \subseteq Present'
    <3>1. listing.steady \subseteq Present
      BY <1>2 DEF ListingInv
    <3>2. \A j \in steady : j \in RowIds \ {i} /\ sortTime[j] # NoRow
      BY <3>1 DEF Present
    <3>3. QED
      BY <3>2 DEF Present
  <2> HIDE DEF steady
  <2>4. /\ listing'.limit = listing.limit /\ listing'.cursor = listing.cursor
        /\ listing'.listed = listing.listed /\ listing'.steady = steady
    BY <2>2
  <2>5. list' = "observations" =>
          IF listing'.cursor = NoRow THEN \A j \in listing'.steady : listing'.listed[j] = 1
          ELSE ListedUpTo(listing.cursor, listing.listed, listing.steady)'
    <3>1. CASE listing.cursor = NoRow
      BY <1>2, <2>4, <3>1 DEF ListingInv, steady
    <3>2. CASE listing.cursor # NoRow /\ list = "observations"
      <4>1. ListedUpTo(listing.cursor, listing.listed, listing.steady)
        BY <1>2, <3>2 DEF ListingInv
      <4>2. \A j \in steady : listing.listed[j] = IF AfterCursor(j, listing.cursor)' THEN 0 ELSE 1
        <5>1. \A j \in steady : sortTime'[j] = sortTime[j] /\ j \in listing.steady
          BY <1>2 DEF ListingInv, steady, Present
        <5>2. QED
          BY <2>4, <4>1, <5>1 DEF ListedUpTo, AfterCursor
      <4>3. QED
        BY <2>4, <3>2, <4>2 DEF ListedUpTo
    <3>3. QED
      BY <3>1, <3>2
  <2>6. QED
    BY <1>2, <2>2, <2>3, <2>4, <2>5 DEF ListingInv, IsCursor
<1>3. QED
  BY <1>1, <1>2

\* The types and what the pages rest on, in every state of a listing.
LEMMA ListingInvariant == PagingSpec => [](PagingTyped /\ ListingInv)
<1>1. PagingInit => PagingTyped /\ ListingInv
  BY PagingAssumption DEF PagingInit, PagingTyped, ListingInv
<1>2. PagingTyped /\ ListingInv /\ [PagingNext]_pagingVars => (PagingTyped /\ ListingInv)'
  <2> SUFFICES ASSUME PagingTyped, ListingInv, [PagingNext]_pagingVars
               PROVE  (PagingTyped /\ ListingInv)'
    OBVIOUS
  <2>1. CASE Tick
    BY <2>1 DEF Tick, PagingTyped, ListingInv, Present, ListedUpTo, AfterCursor, IsCursor
  <2>2. CASE FirstPage
    <3>1. UNCHANGED <<list, sortTime, writing, pgNow>>
      BY <2>2 DEF FirstPage
    <3>2. PICK n \in 0 .. maxPage + 1 :
            ListPage(pageLimit(n), NoRow, [i \in RowIds |-> 0], {i \in RowIds : sortTime[i] # NoRow})
      BY <2>2 DEF FirstPage
    <3>3. pageLimit(n) \in Nat \ {0}
      BY PagingAssumption DEF pageLimit
    <3>4. ListPage(pageLimit(n), NoRow, [i \in RowIds |-> 0], Present)
      BY <3>2 DEF Present
    <3>5. ListedUpTo(NoRow, [i \in RowIds |-> 0], Present)
      BY DEF ListedUpTo, AfterCursor, Present
    <3>6. [i \in RowIds |-> 0] \in [RowIds -> Nat]
      OBVIOUS
    <3>7. ListingInv'
      BY <3>1, <3>3, <3>4, <3>5, <3>6, PageIsRead
    <3>8. QED
      BY <3>1, <3>7 DEF PagingTyped
  <2>3. CASE NextPage
    <3>1. UNCHANGED <<list, sortTime, writing, pgNow>>
      BY <2>3 DEF NextPage
    <3>2. ListPage(listing.limit, listing.cursor, listing.listed, listing.steady)
      BY <2>3 DEF NextPage
    <3>3. /\ listing.limit \in Nat \ {0}
          /\ IsCursor(listing.cursor)
          /\ listing.listed \in [RowIds -> Nat]
          /\ listing.steady \in SUBSET Present
          /\ list = "observations" => ListedUpTo(listing.cursor, listing.listed, listing.steady)
      BY <2>3 DEF NextPage, ListingInv
    <3>4. ListingInv'
      BY <3>1, <3>2, <3>3, PageIsRead
    <3>5. QED
      BY <3>1, <3>4 DEF PagingTyped
  <2>4. CASE StopListing
    BY <2>4 DEF StopListing, PagingTyped, ListingInv
  <2>5. ASSUME NEW i \in RowIds, BeginWrite(i) PROVE (PagingTyped /\ ListingInv)'
    BY <2>5 DEF BeginWrite, PagingTyped, ListingInv, Present, ListedUpTo, AfterCursor, IsCursor
  <2>6. ASSUME NEW i \in RowIds, CommitWrite(i) PROVE (PagingTyped /\ ListingInv)'
    <3>1. PagingTyped'
      BY <2>6 DEF CommitWrite, PagingTyped
    <3>2. \A j \in RowIds \ {i} : sortTime'[j] = sortTime[j]
      BY <2>6 DEF CommitWrite, PagingTyped
    <3>3. QED
      BY <2>6, <3>1, <3>2, TouchedKeeps DEF CommitWrite
  <2>7. ASSUME NEW i \in RowIds, RowLeaves(i) PROVE (PagingTyped /\ ListingInv)'
    <3>1. PagingTyped'
      BY <2>7 DEF RowLeaves, PagingTyped
    <3>2. \A j \in RowIds \ {i} : sortTime'[j] = sortTime[j]
      BY <2>7 DEF RowLeaves, PagingTyped
    <3>3. QED
      BY <2>7, <3>1, <3>2, TouchedKeeps DEF RowLeaves
  <2>8. CASE UNCHANGED pagingVars
    BY <2>8 DEF pagingVars, PagingTyped, ListingInv, Present, ListedUpTo, AfterCursor, IsCursor
  <2>9. QED
    BY <2>1, <2>2, <2>3, <2>4, <2>5, <2>6, <2>7, <2>8 DEF PagingNext
<1>3. QED
  BY <1>1, <1>2, PTL DEF PagingSpec

\* Every observation that stays while a client reads page by page is on exactly one page,
\* for any number of rows, any limit and any writes in between (ListObservations).
THEOREM SteadyRows == PagingSpec => []SteadyRowsListedOnce
<1>1. ListingInv => SteadyRowsListedOnce
  BY DEF ListingInv, SteadyRowsListedOnce, LastPageRead, ListedUpTo
<1>2. QED
  BY <1>1, ListingInvariant, PTL
================================================================================
