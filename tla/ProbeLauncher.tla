---------------------------- MODULE ProbeLauncher ----------------------------
(* What the attempts to scan one host do there: the cache of probe binaries   *)
(* they share, its pruning, and the lock that keeps probes one at a time.     *)
(* Attempts of several control planes, with several versions of the probe,    *)
(* overlap; what an attempt whose connection is closed has started on the     *)
(* host may go on there.                                                      *)
(*                                                                            *)
(* Abstracted: dialing, the staging directory's checks and the rule bundle,   *)
(* which has a name of its own in every attempt.                              *)
EXTENDS Naturals, FiniteSets

CONSTANTS ProbeRuns,     \* attempts under way at a time
          Versions,      \* versions of the probe binary
          MaxPolls,      \* 300: polls of a busy lock before an attempt gives up
          Absent         \* no file, no attempt

ASSUME LauncherAssumption ==
    MaxPolls \in Nat \ {0} /\ Absent \notin Versions \cup {"part", "whole"}

VARIABLES login,     \* the account the attempts log in with owns the staging directory
          cached,    \* what is at each version's path in the cache
          old,       \* the paths last written more than an hour ago
          scans,     \* how far each attempt is
          cutOff     \* history: the versions an upload of which was cut off

launcherVars == <<login, cached, old, scans, cutOff>>

\* How the probe is run: by the account that is root, by sudo, by another account.
Modes == {"root", "sudo", "account"}

\* /run/bladedr-probe/scan.lock, or the one in the account's own directory.
LockOf(mode) == IF mode = "account" THEN "account" ELSE "root"

LauncherInit ==
    /\ login \in {"root", "other"}
    /\ cached = [v \in Versions |-> Absent]
    /\ old = {}
    /\ scans = [s \in ProbeRuns |-> Absent]
    /\ cutOff = {}

-----------------------------------------------------------------------------

At(s, step) == scans[s] # Absent /\ scans[s].step = step
Step(s, step) == scans' = [scans EXCEPT ![s].step = step]
Over(s) == scans' = [scans EXCEPT ![s] = Absent]

\* pruneStaleProbes: other versions' binaries go if they are an hour old.
pruneStaleProbes(s, v) ==
    /\ scans[s] = Absent
    /\ cached' = [w \in Versions |-> IF w # v /\ w \in old THEN Absent ELSE cached[w]]
    /\ old' = old \cap {v}
    /\ scans' = [scans EXCEPT ![s] =
         [step |-> "pruned", version |-> v, staged |-> Absent, attached |-> TRUE,
          mode |-> "root", polls |-> 0, runs |-> Absent]]
    /\ UNCHANGED <<login, cutOff>>

\* The digest of what is there is the binary's: a part of it is a miss.
probeCached(s) ==
    /\ At(s, "pruned")
    /\ Step(s, IF cached[scans[s].version] = "whole" THEN "installed" ELSE "missing")
    /\ UNCHANGED <<login, cached, old, cutOff>>

\* Mutant of StartInstall: the upload goes to the path itself.
WriteInPlace(s) ==
    /\ At(s, "missing")
    /\ cached' = [cached EXCEPT ![scans[s].version] = "part"]
    /\ scans' = [scans EXCEPT ![s].step = "uploading", ![s].staged = "part"]
    /\ UNCHANGED <<login, old, cutOff>>

\* One remote command, which goes on without its client: cat to a staging file of
\* the attempt's own until the end of the input ...
StartInstall(s) ==
    /\ At(s, "missing")
    /\ scans' = [scans EXCEPT ![s].step = "uploading", ![s].staged = "part"]
    /\ UNCHANGED <<login, cached, old, cutOff>>

\* ... which is the whole binary, if the client is not closed before (CloseClient);
FinishUpload(s) ==
    /\ At(s, "uploading")
    /\ scans' = [scans EXCEPT ![s].step = "uploaded", ![s].staged = "whole"]
    /\ UNCHANGED <<login, cached, old, cutOff>>

\* ... chmod and mv over the path, of whatever cat has received.
Install(s) ==
    LET v == scans[s].version IN
    /\ At(s, "uploaded")
    /\ cached' = [cached EXCEPT ![v] = scans[s].staged]
    /\ old' = old \ {v}
    /\ IF scans[s].attached THEN Step(s, "installed") ELSE Over(s)
    /\ UNCHANGED <<login, cutOff>>

\* Root runs the probe from the path; another account as root, if sudo lets it.
probeCommand(s) ==
    /\ At(s, "installed")
    /\ \E mode \in Modes :
         /\ mode = "root" <=> login = "root"
         /\ scans' = [scans EXCEPT ![s].step = "waiting", ![s].mode = mode]
    /\ UNCHANGED <<login, cached, old, cutOff>>

\* Mutant of Held: the lock is the connection's.
HeldByClient(lock) ==
    \E s \in ProbeRuns : At(s, "running") /\ LockOf(scans[s].mode) = lock /\ scans[s].attached

Held(lock) == \E s \in ProbeRuns : At(s, "running") /\ LockOf(scans[s].mode) = lock

\* The lock is free: what the path holds now is run.  Under sudo it is copied and
\* the copy's digest checked first, else it is run as it is; a missing file fails.
lockedProbeScript(s) ==
    LET there == cached[scans[s].version] IN
    /\ At(s, "waiting") /\ ~Held(LockOf(scans[s].mode))
    /\ IF there = Absent \/ (scans[s].mode = "sudo" /\ there # "whole")
       THEN Over(s)
       ELSE scans' = [scans EXCEPT ![s].step = "running", ![s].runs = there]
    /\ UNCHANGED <<login, cached, old, cutOff>>

\* Busy: try again in 100 ms, or exit 75.
PollLock(s) ==
    /\ At(s, "waiting") /\ Held(LockOf(scans[s].mode))
    /\ IF scans[s].polls + 1 >= MaxPolls THEN Over(s)
       ELSE scans' = [scans EXCEPT ![s].polls = @ + 1]
    /\ UNCHANGED <<login, cached, old, cutOff>>

ProbeExits(s) ==
    /\ At(s, "running")
    /\ Over(s)
    /\ UNCHANGED <<login, cached, old, cutOff>>

\* The deadline, a lease that was reclaimed, a server that stopped: the client is
\* closed.  The remote command may end with it, as after an error of its own, or go
\* on alone; to one that is receiving the binary the input is over.
CloseClient(s) ==
    /\ scans[s] # Absent /\ scans[s].attached
    /\ \/ Over(s) /\ UNCHANGED cutOff
       \/ /\ At(s, "uploading")
          /\ scans' = [scans EXCEPT ![s].attached = FALSE, ![s].step = "uploaded"]
          /\ cutOff' = cutOff \cup {scans[s].version}
       \/ /\ At(s, "uploaded") \/ At(s, "waiting") \/ At(s, "running")
          /\ scans' = [scans EXCEPT ![s].attached = FALSE] /\ UNCHANGED cutOff
    /\ UNCHANGED <<login, cached, old>>

HourPasses ==
    /\ old' = {v \in Versions : cached[v] # Absent}
    /\ UNCHANGED <<login, cached, scans, cutOff>>

LauncherNext ==
    \/ HourPasses
    \/ \E s \in ProbeRuns :
         \/ \E v \in Versions : pruneStaleProbes(s, v)
         \/ probeCached(s) \/ StartInstall(s) \/ FinishUpload(s) \/ Install(s)
         \/ probeCommand(s) \/ lockedProbeScript(s) \/ PollLock(s) \/ ProbeExits(s)
         \/ CloseClient(s)

LauncherSpec == LauncherInit /\ [][LauncherNext]_launcherVars

-----------------------------------------------------------------------------
(* Properties.                                                                *)

\* Two attempts that take the same lock never collect on one host at a time, also
\* when one of them was given up by its server and reclaimed (lockedProbeScript:
\* "a waiting attempt cannot appear in /proc as a second collector").
OneProbeAtATime ==
    \A s, t \in ProbeRuns :
      At(s, "running") /\ At(t, "running") /\ LockOf(scans[s].mode) = LockOf(scans[t].mode) => s = t

\* Whatever other attempts upload, replace or prune meanwhile, a part of the binary
\* is run only where the path is not checked again, and only if an upload of that
\* version was cut off: concurrent uploads that come to their end never make it so
\* (RunProbe's staging file, privilegedProbeScript's copy).
RunsWholeProbe ==
    \A s \in ProbeRuns : At(s, "running") /\ scans[s].runs # "whole" =>
      scans[s].mode # "sudo" /\ scans[s].version \in cutOff

\* RunProbe's comment as it stands: "Concurrent scans of the same host therefore
\* never execute a half-written probe".  A client that is closed in the middle of
\* its upload ends the remote cat's input, and chmod and mv follow.
NeverRunsHalfAProbe == \A s \in ProbeRuns : At(s, "running") => scans[s].runs = "whole"
=============================================================================
