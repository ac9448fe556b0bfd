------------------------------ MODULE Migrations ------------------------------
(* Servers that start together bring one database's schema up to date: each   *)
(* reads which migrations are recorded and runs the missing ones in order,    *)
(* each in a transaction with its record.  Nothing but the transactions keeps *)
(* the servers apart, and a server can be killed at any point.                *)
(*                                                                            *)
(* Abstracted: what a migration changes is how often it has been run; the     *)
(* first one may be run again, the others fail when what they change is there *)
(* already ("RENAME COLUMN token TO token_hash").                             *)
EXTENDS Naturals, FiniteSets

CONSTANTS Servers,
          MaxVersion,      \* the migrations are 1 .. MaxVersion
          Embedded         \* server -> the last migration its binary has

MigrationVersions == 1 .. MaxVersion
ASSUME MigrationsAssumption ==
    /\ MaxVersion \in Nat \ {0}
    /\ Embedded \in [Servers -> MigrationVersions]

VARIABLES runs,            \* how often each migration has been run and committed
          recorded,        \* the schema_migrations table
          server,          \* where each server's start is
          legacy           \* the database predates the table
migrationVars == <<runs, recorded, server, legacy>>

Down == [phase |-> "down", pending |-> {}]
First(S) == CHOOSE v \in S : \A w \in S : v <= w

MigrationsInit ==
    /\ legacy \in BOOLEAN
    /\ runs = [v \in MigrationVersions |-> IF v = 1 /\ legacy THEN 1 ELSE 0]
    /\ recorded = {}
    /\ server = [s \in Servers |-> Down]

\* pendingMigrations, by what is recorded now.
appliedMigrations(s) ==
    /\ server[s] = Down
    /\ server' = [server EXCEPT ![s] = [phase |-> "migrating", pending |-> 1 .. Embedded[s] \ recorded]]
    /\ UNCHANGED <<runs, recorded, legacy>>

\* The transaction that runs a migration holds what it changes.
Holds(s, v) == server[s].phase = "running" /\ First(server[s].pending) = v

\* It waits for another that runs the same one; on an error the server exits.
RunMigration(s) ==
    /\ server[s].phase = "migrating" /\ server[s].pending # {}
    /\ LET v == First(server[s].pending) IN
         /\ \A k \in Servers : ~Holds(k, v)
         /\ server' = [server EXCEPT ![s] = IF v > 1 /\ runs[v] > 0 THEN Down
                                            ELSE [@ EXCEPT !.phase = "running"]]
    /\ UNCHANGED <<runs, recorded, legacy>>

\* Mutant of applyMigration: a version that is recorded already is no error.
ApplyAgain(s) ==
    /\ server[s].phase = "running"
    /\ LET v == First(server[s].pending) IN
         /\ server' = [server EXCEPT ![s] = [phase |-> "migrating", pending |-> @.pending \ {v}]]
         /\ recorded' = recorded \cup {v}
         /\ runs' = [runs EXCEPT ![v] = @ + 1]
    /\ UNCHANGED legacy

\* The version is recorded and the transaction committed; a version that is recorded
\* already is an error, which rolls the migration back.
applyMigration(s) ==
    /\ server[s].phase = "running"
    /\ LET v == First(server[s].pending) IN
         IF v \in recorded
         THEN server' = [server EXCEPT ![s] = Down] /\ UNCHANGED <<runs, recorded>>
         ELSE /\ server' = [server EXCEPT ![s] = [phase |-> "migrating", pending |-> @.pending \ {v}]]
              /\ recorded' = recorded \cup {v}
              /\ runs' = [runs EXCEPT ![v] = @ + 1]
    /\ UNCHANGED legacy

Serve(s) ==
    /\ server[s] = [phase |-> "migrating", pending |-> {}]
    /\ server' = [server EXCEPT ![s].phase = "serving"]
    /\ UNCHANGED <<runs, recorded, legacy>>

Killed(s) ==
    /\ server[s] # Down
    /\ server' = [server EXCEPT ![s] = Down]
    /\ UNCHANGED <<runs, recorded, legacy>>

MigrationsNext ==
    \E s \in Servers : \/ appliedMigrations(s) \/ RunMigration(s) \/ applyMigration(s)
                       \/ Serve(s) \/ Killed(s)

MigrationsSpec == MigrationsInit /\ [][MigrationsNext]_migrationVars

-----------------------------------------------------------------------------
(* Properties.                                                                *)

\* Whatever the servers race for and wherever they are killed, the record says what was
\* done: the recorded migrations are the first ones, each has been run once, an older
\* database's first one twice, and a server serves with all of its own in place.
RecordMatchesSchema ==
    /\ \E n \in 0 .. MaxVersion : recorded = 1 .. n
    /\ \A v \in MigrationVersions :
         runs[v] = (IF v \in recorded THEN 1 ELSE 0) + (IF v = 1 /\ legacy THEN 1 ELSE 0)
    /\ \A s \in Servers : server[s].phase = "serving" => 1 .. Embedded[s] \subseteq recorded
=============================================================================
