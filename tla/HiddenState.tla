----------------------------- MODULE HiddenState -----------------------------
(* The probe's search for what a rootkit hides: processes that exist but are  *)
(* not in the listing of /proc, and modules that one of the kernel's lists    *)
(* lacks.  The host runs on while the collectors read: processes start and    *)
(* exit and modules come and go between any two reads.                        *)
(*                                                                            *)
(* Abstracted: a thread is an entry that can be read but whose Tgid is        *)
(* another; a pseudo-module is one only kallsyms ever shows.                  *)
EXTENDS Naturals, FiniteSets

CONSTANTS MaxPid,       \* pids are 2 .. MaxPid; 65536 or less in the code
          Modules,      \* names of modules
          MaxChanges    \* bound: what happens on the host during a collection

ASSUME HiddenStateAssumption == MaxPid \in Nat \ {0, 1} /\ MaxChanges \in Nat

VARIABLES proc,         \* what each pid is now
          was,          \* history: everything it was since the collection began
          lives,        \* history: how many processes or threads it has been
          changes,
          reading,      \* the collector's phase ...
          cursor,       \* ... and the pid it looks at next
          firstListing, \* the first listing of /proc
          candidates,
          after,        \* the second listing
          hidden,       \* the collector's result
          blind,        \* history: the second listing could not be read
          mods,         \* where each module shows
          moved,        \* history: modules that came or went, or a list could not be read
          seenMods,     \* what the module collector has read, until it has compared
          hiddenMods    \* its result

processVars == <<proc, was, lives>>
pidVars == <<cursor, firstListing, candidates, after, hidden, blind>>
moduleVars == <<mods, moved, seenMods, hiddenMods>>
hiddenVars == <<processVars, pidVars, moduleVars, changes, reading>>

Pids == 2 .. MaxPid
Kinds == {"none", "visible", "hidden", "thread"}
Lists == {"kallsyms", "proc", "sys"}

\* A module that hides shows in some of the lists; an honest one in all.
HiddenStateInit ==
    /\ proc \in [Pids -> Kinds]
    /\ was = [p \in Pids |-> {proc[p]}]
    /\ lives = [p \in Pids |-> IF proc[p] = "none" THEN 0 ELSE 1]
    /\ changes = 0
    /\ reading = "kallsyms" /\ cursor = 2
    /\ firstListing = {} /\ candidates = {} /\ after = {} /\ hidden = {} /\ blind = FALSE
    /\ mods \in [Modules -> SUBSET Lists]
    /\ moved = {}
    /\ seenMods = [l \in Lists |-> {}]
    /\ hiddenMods = {}

-----------------------------------------------------------------------------
(* The host.                                                                  *)

Happens == changes < MaxChanges /\ changes' = changes + 1

\* A pid is taken, or given back.
Become(p, kind) ==
    /\ Happens
    /\ (proc[p] = "none") # (kind = "none")
    /\ proc' = [proc EXCEPT ![p] = kind]
    /\ was' = [was EXCEPT ![p] = @ \cup {kind}]
    /\ lives' = [lives EXCEPT ![p] = IF kind = "none" THEN @ ELSE @ + 1]
    /\ UNCHANGED <<pidVars, moduleVars, reading>>

\* A module is loaded, or unloaded, everywhere at once.
ModuleMoves(n) ==
    /\ Happens
    /\ mods' = [mods EXCEPT ![n] = IF @ = {} THEN Lists ELSE {}]
    /\ moved' = moved \cup {n}
    /\ UNCHANGED <<processVars, pidVars, seenMods, hiddenMods, reading>>

-----------------------------------------------------------------------------
(* The module lists, each read at its own moment, kallsyms first.             *)

ReadList(l, phase, next) ==
    /\ reading = phase
    /\ seenMods' = [seenMods EXCEPT ![l] = {n \in Modules : l \in mods[n]}]
    /\ reading' = next
    /\ UNCHANGED <<processVars, pidVars, mods, moved, hiddenMods, changes>>

\* A list that cannot be read counts as empty.
ReadListFails(phase, next) ==
    /\ reading = phase
    /\ moved' = Modules
    /\ reading' = next
    /\ UNCHANGED <<processVars, pidVars, mods, seenMods, hiddenMods, changes>>

collectKallsyms == ReadList("kallsyms", "kallsyms", "proc") \/ ReadListFails("kallsyms", "proc")
ReadProcModules == ReadList("proc", "proc", "sys") \/ ReadListFails("proc", "sys")
ReadSysModule == ReadList("sys", "sys", "comparing") \/ ReadListFails("sys", "comparing")

\* Mutant of collectHiddenModules: what only kallsyms shows is taken for built-in.
WithoutKallsyms ==
    /\ reading = "comparing"
    /\ hiddenMods' = seenMods["proc"] \ seenMods["sys"]
    /\ seenMods' = [l \in Lists |-> {}]
    /\ reading' = "listing"
    /\ UNCHANGED <<processVars, pidVars, mods, moved, changes>>

collectHiddenModules ==
    /\ reading = "comparing"
    /\ hiddenMods' = (seenMods["proc"] \ seenMods["sys"])
                       \cup (seenMods["kallsyms"] \ (seenMods["proc"] \cup seenMods["sys"]))
    /\ seenMods' = [l \in Lists |-> {}]
    /\ reading' = "listing"
    /\ UNCHANGED <<processVars, pidVars, mods, moved, changes>>

-----------------------------------------------------------------------------
(* collectHiddenPIDs.                                                         *)

\* The next pid, or the next phase.
Advance(next) ==
    IF cursor < MaxPid THEN cursor' = cursor + 1 /\ UNCHANGED reading
    ELSE cursor' = 2 /\ reading' = next

\* readdir comes to each pid in turn, and shows the processes that do not hide.
readProcPidSet ==
    /\ reading = "listing"
    /\ firstListing' = IF proc[cursor] = "visible" THEN firstListing \cup {cursor} ELSE firstListing
    /\ Advance("probing")
    /\ UNCHANGED <<processVars, candidates, after, hidden, blind, moduleVars, changes>>

\* The listing fails: it is empty.
ListingFails ==
    /\ reading = "listing"
    /\ firstListing' = {} /\ cursor' = 2 /\ reading' = "probing"
    /\ UNCHANGED <<processVars, candidates, after, hidden, blind, moduleVars, changes>>

\* /proc/<pid>/status names the pid itself: a process, listed or not.
readTgid(p) == proc[p] \in {"visible", "hidden"}

CollectCandidates ==
    /\ reading = "probing"
    /\ candidates' = IF cursor \notin firstListing /\ readTgid(cursor)
                     THEN candidates \cup {cursor} ELSE candidates
    /\ Advance("relisting")
    /\ UNCHANGED <<processVars, firstListing, after, hidden, blind, moduleVars, changes>>

ListAgain ==
    /\ reading = "relisting"
    /\ after' = IF proc[cursor] = "visible" THEN after \cup {cursor} ELSE after
    /\ Advance("verifying")
    /\ UNCHANGED <<processVars, firstListing, candidates, hidden, blind, moduleVars, changes>>

ListingAgainFails ==
    /\ reading = "relisting"
    /\ after' = {} /\ blind' = TRUE /\ cursor' = 2 /\ reading' = "verifying"
    /\ UNCHANGED <<processVars, firstListing, candidates, hidden, moduleVars, changes>>

\* Mutant of collectHiddenPIDs: a candidate that is still unlisted is hidden.
WithoutSecondLook ==
    /\ reading = "verifying"
    /\ hidden' = IF cursor \in candidates \ after THEN hidden \cup {cursor} ELSE hidden
    /\ Advance("done")
    /\ UNCHANGED <<processVars, firstListing, candidates, after, blind, moduleVars, changes>>

\* Neither listed by now nor gone.
collectHiddenPIDs ==
    /\ reading = "verifying"
    /\ hidden' = IF cursor \in candidates \ after /\ readTgid(cursor)
                 THEN hidden \cup {cursor} ELSE hidden
    /\ Advance("done")
    /\ UNCHANGED <<processVars, firstListing, candidates, after, blind, moduleVars, changes>>

HiddenStateNext ==
    \/ \E p \in Pids, kind \in Kinds : Become(p, kind)
    \/ \E n \in Modules : ModuleMoves(n)
    \/ readProcPidSet \/ ListingFails \/ CollectCandidates
    \/ ListAgain \/ ListingAgainFails \/ collectHiddenPIDs
    \/ collectKallsyms \/ ReadProcModules \/ ReadSysModule \/ collectHiddenModules

HiddenStateSpec == HiddenStateInit /\ [][HiddenStateNext]_hiddenVars

-----------------------------------------------------------------------------
(* Properties.                                                                *)

\* A process that hides all the while is found, whatever else starts and exits
\* meanwhile and even if no listing could be read; and what is reported did hide,
\* unless its pid was given to several processes during the collection or the
\* second listing failed ("re-verify each candidate to kill race-condition false
\* positives").
HiddenProcessesFound ==
    reading = "done" =>
      /\ \A p \in Pids : was[p] = {"hidden"} => p \in hidden
      /\ \A p \in hidden : "hidden" \in was[p] \/ lives[p] > 1 \/ blind

\* Once every list was read: of the modules that stayed as they were, exactly
\* those are reported that /proc/modules shows and /sys/module does not, or that
\* only kallsyms shows.
\* Nothing re-verifies a module: one that is unloaded between two reads is
\* reported, and falls outside of what can be promised.
HiddenModulesFound ==
    reading = "listing" =>
      \A n \in Modules \ moved :
        n \in hiddenMods <=> mods[n] \in {{"proc"}, {"proc", "kallsyms"}, {"kallsyms"}}

\* The comment of collectHiddenModules: "modules that still own symbols in
\* /proc/kallsyms ([mod]) yet are absent from /proc/modules".  The code asks that
\* they be absent from /sys/module too.
SymbolsWithoutModuleFound ==
    reading = "listing" =>
      \A n \in Modules \ moved :
        "kallsyms" \in mods[n] /\ "proc" \notin mods[n] => n \in hiddenMods
=============================================================================
