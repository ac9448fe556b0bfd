------------------------------- MODULE JobLease -------------------------------
(***************************************************************************)
(* What a durable scan queue promises, without workers, leases, clocks or  *)
(* a database: every job is handed out as a series of numbered attempts,   *)
(* and only the latest attempt may decide what becomes of the job.  The    *)
(* attempt number is the fencing token the real queue does not have: it    *)
(* compares worker ids and never a number.                                 *)
(***************************************************************************)
EXTENDS Integers

CONSTANTS
  Jobs,    \* identities of scan_jobs rows
  Hosts,   \* the hosts that are scanned
  NoHost,  \* where a job that was never submitted is
  Limit    \* attempts after which a failure is final

VARIABLES
  phase,   \* job -> what a reader of the row sees
  place,   \* job -> the host it scans
  token,   \* job -> number of its latest attempt, 0 before the first
  holders  \* the attempts <<job, number>> somebody is still working on

vars == <<phase, place, token, holders>>

Active == {"queued", "running"}
Settled == {"succeeded", "failed"}

Init ==
  /\ phase = [j \in Jobs |-> "absent"]
  /\ place = [j \in Jobs |-> NoHost]
  /\ token = [j \in Jobs |-> 0]
  /\ holders = {}

\* A host gets a job only while it has no unfinished one.
Submit(j, h) ==
  /\ phase[j] = "absent"
  /\ \A k \in Jobs : ~(place[k] = h /\ phase[k] \in Active)
  /\ phase' = [phase EXCEPT ![j] = "queued"]
  /\ place' = [place EXCEPT ![j] = h]
  /\ UNCHANGED <<token, holders>>

\* An unfinished job is handed out under a new number.  The attempt may be lost
\* on the way, in which case nobody works on it.
Grant(j) ==
  /\ phase[j] \in Active
  /\ phase' = [phase EXCEPT ![j] = "running"]
  /\ token' = [token EXCEPT ![j] = @ + 1]
  /\ holders' \in {holders, holders \cup {<<j, token[j] + 1>>}}
  /\ UNCHANGED place

\* The latest attempt settles the job; an earlier one never does.
Settle(j, to) ==
  /\ phase[j] = "running"
  /\ <<j, token[j]>> \in holders
  /\ \/ to = "succeeded"
     \/ to = "queued" /\ token[j] < Limit
     \/ to = "failed" /\ token[j] >= Limit
  /\ phase' = [phase EXCEPT ![j] = to]
  /\ holders' = holders \ {<<j, token[j]>>}
  /\ UNCHANGED <<place, token>>

\* An attempt ends without saying anything about the job.
GiveUp(a) ==
  /\ a \in holders
  /\ holders' = holders \ {a}
  /\ UNCHANGED <<phase, place, token>>

\* The host is deleted and its rows with it.
Withdraw(h) ==
  /\ phase' = [j \in Jobs |-> IF place[j] = h THEN "deleted" ELSE phase[j]]
  /\ UNCHANGED <<place, token, holders>>

Next ==
  \/ \E j \in Jobs, h \in Hosts : Submit(j, h)
  \/ \E j \in Jobs : Grant(j)
  \/ \E j \in Jobs, to \in Settled \cup {"queued"} : Settle(j, to)
  \/ \E a \in holders : GiveUp(a)
  \/ \E h \in Hosts : Withdraw(h)

Spec == Init /\ [][Next]_vars
===============================================================================
