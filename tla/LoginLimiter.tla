---------------------------- MODULE LoginLimiter ----------------------------
(* The sign-in throttle: a growing lockout per client address, kept in one    *)
(* process's memory.  login asks it before it compares a password and tells   *)
(* it the outcome afterwards; the comparison takes its time, so the attempts  *)
(* of one address overlap.                                                    *)
EXTENDS Integers, FiniteSets

CONSTANTS Addresses,         \* client addresses
          Attempts,          \* sign-ins the server handles at a time
          Nowhere,           \* no entry, no attempt
          MaxTime,           \* bound: the clock's last instant
          loginMaxFails,     \* 5
          loginWindow,       \* 15 min
          loginLockoutBase,  \* 30 s
          loginLockoutMax    \* 15 min

\* loginAttempt.
Entry == [fails : Nat, until : Int, last : Int]

ASSUME LimiterAssumption ==
    /\ Nowhere \notin Addresses \cup Entry
    /\ {MaxTime, loginMaxFails, loginWindow, loginLockoutBase, loginLockoutMax} \subseteq Nat \ {0}

VARIABLES now,        \* the clock
          attempts,   \* loginLimiter.attempts
          nextPrune,  \* loginLimiter.nextPrune
          comparing,  \* the address of each admitted attempt
          failures    \* history: per address, the failures in a row and the last one's time

limiterVars == <<now, attempts, nextPrune, comparing, failures>>

\* The zero time.Time is longer ago than any window.
Never == -loginWindow - 1
NoFailures == [count |-> 0, last |-> Never]

LimiterInit ==
    /\ now = 0 /\ nextPrune = 0
    /\ attempts = [a \in Addresses |-> Nowhere]
    /\ comparing = [i \in Attempts |-> Nowhere]
    /\ failures = [a \in Addresses |-> NoFailures]

-----------------------------------------------------------------------------

\* Mutant of prune: every entry that is not locked out goes.
PruneUnlocked(entries) ==
    IF now < nextPrune THEN entries
    ELSE [a \in Addresses |->
           IF entries[a] # Nowhere /\ now > entries[a].until THEN Nowhere ELSE entries[a]]

\* At most once per window: entries idle for longer and not locked out go.
prune(entries) ==
    IF now < nextPrune THEN entries
    ELSE [a \in Addresses |->
           IF entries[a] # Nowhere /\ now - entries[a].last > loginWindow /\ now > entries[a].until
           THEN Nowhere ELSE entries[a]]

PrunedUntil == IF now < nextPrune THEN nextPrune ELSE now + loginWindow

\* The address may not try now.
LockedOut(entries, a) == entries[a] # Nowhere /\ now < entries[a].until

\* login's first question; an attempt that is told to wait ends there.
retryAfter(i, a) ==
    /\ comparing[i] = Nowhere
    /\ attempts' = prune(attempts) /\ nextPrune' = PrunedUntil
    /\ comparing' = IF LockedOut(attempts', a) THEN comparing ELSE [comparing EXCEPT ![i] = a]
    /\ UNCHANGED <<now, failures>>

Lockout(fails) ==
    LET n == fails - loginMaxFails
        d == loginLockoutBase * 2 ^ (IF n < 20 THEN n ELSE 20) IN
    IF d > loginLockoutMax THEN loginLockoutMax ELSE d

\* The entry after one more failure.
Failed(entry) ==
    LET old   == IF entry = Nowhere THEN [fails |-> 0, until |-> Never, last |-> Never] ELSE entry
        fails == IF now - old.last > loginWindow THEN 1 ELSE old.fails + 1 IN
    [fails |-> fails, last |-> now,
     until |-> IF fails >= loginMaxFails THEN now + Lockout(fails) ELSE old.until]

\* A wrong password, or a wrong code.
fail(i) ==
    LET a == comparing[i] IN
    /\ a # Nowhere
    /\ LET kept == prune(attempts) IN attempts' = [kept EXCEPT ![a] = Failed(kept[a])]
    /\ nextPrune' = PrunedUntil
    /\ comparing' = [comparing EXCEPT ![i] = Nowhere]
    /\ failures' = [failures EXCEPT ![a] =
         [count |-> IF now - @.last > loginWindow THEN 1 ELSE @.count + 1, last |-> now]]
    /\ UNCHANGED now

\* Signed in.
reset(i) ==
    LET a == comparing[i] IN
    /\ a # Nowhere
    /\ attempts' = [attempts EXCEPT ![a] = Nowhere]
    /\ failures' = [failures EXCEPT ![a] = NoFailures]
    /\ comparing' = [comparing EXCEPT ![i] = Nowhere]
    /\ UNCHANGED <<now, nextPrune>>

\* The attempt ends without an answer to either: the MFA key is unavailable.
GiveUp(i) ==
    /\ comparing[i] # Nowhere
    /\ comparing' = [comparing EXCEPT ![i] = Nowhere]
    /\ UNCHANGED <<now, attempts, nextPrune, failures>>

Pass ==
    /\ now < MaxTime
    /\ now' = now + 1
    /\ UNCHANGED <<attempts, nextPrune, comparing, failures>>

\* The process starts again, with an empty limiter.
newLoginLimiter ==
    /\ attempts' = [a \in Addresses |-> Nowhere]
    /\ nextPrune' = 0
    /\ comparing' = [i \in Attempts |-> Nowhere]
    /\ failures' = [a \in Addresses |-> NoFailures]
    /\ UNCHANGED now

LimiterNext ==
    \/ Pass \/ newLoginLimiter
    \/ \E i \in Attempts : fail(i) \/ reset(i) \/ GiveUp(i)
    \/ \E i \in Attempts, a \in Addresses : retryAfter(i, a)

LimiterSpec == LimiterInit /\ [][LimiterNext]_limiterVars

-----------------------------------------------------------------------------
(* Properties.                                                                *)

\* Every failure counts, also of attempts that overlap and across prunings: an
\* address that failed loginMaxFails times in a row, with no pause longer than
\* the window and no success, is locked out, for as long as all its failures
\* call for, from its latest failure on.
FailuresLockOut ==
    \A a \in Addresses :
      failures[a].count >= loginMaxFails /\ now - failures[a].last < Lockout(failures[a].count) =>
        LockedOut(attempts, a)

=============================================================================
