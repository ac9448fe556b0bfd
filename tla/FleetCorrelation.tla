--------------------------- MODULE FleetCorrelation ---------------------------
(* What a scan learns by comparing its host with the others: credentials that *)
(* several hosts share, and items that are rare in the host's cohort.  Scans  *)
(* of different hosts overlap; each saves what its probe read and then lists  *)
(* what every other scan saved last.                                          *)
(*                                                                            *)
(* Abstracted: a credential is an id, with the accounts that carry it left    *)
(* out; a category of the digest that rarity looks at stands for all four;    *)
(* what becomes of a finding afterwards is the Observations module's.         *)
EXTENDS Naturals, FiniteSets

CONSTANTS Hosts,
          Credentials,     \* fingerprints of keys and of password hashes
          Unparsed,        \* the fingerprint of the lines that are not keys, if any
          Cron,            \* items of the categories that rarity compares
          Cohorts,         \* distribution and major version
          minFleetHosts,   \* 4
          rareShare,       \* 20: rare is on one host in so many
          Cascades,        \* a deleted host's rows go with it (PostgreSQL)
          MaxHostChanges,  \* bound: changes of what is on the hosts
          NoHost           \* no row, no scan

\* What a scan saves of its host, and what it holds while it runs.
Inventory == [authorized : SUBSET (Credentials \cup Unparsed), passwords : SUBSET Credentials,
              private : SUBSET Credentials]
Scan == [phase : {"probed", "ranked", "saved", "listed", "compared"},
         cohort : Cohorts \cup {"unknown"}, inv : Inventory, cron : SUBSET Cron,
         seen : {<<>>} \cup [Hosts -> Inventory \cup {NoHost}]]

ASSUME FleetAssumption ==
    /\ Unparsed \cap Credentials = {} /\ Cascades \in BOOLEAN
    /\ {minFleetHosts, rareShare} \subseteq Nat \ {0} /\ MaxHostChanges \in Nat
    /\ "unknown" \notin Cohorts
    /\ NoHost \notin Inventory \cup Scan \cup Cohorts \cup {"unknown"}

VARIABLES content,       \* what is on each host
          rows,          \* the hosts table: the cohort of each row
          inventories,   \* the host_inventory table
          baselines,     \* the baselines table, as far as rarity reads it
          scanning,      \* what the scan of each host holds
          reported,      \* the findings of source "fleet"
          told,          \* history: per host, the inventory whose matches were all raised
          hostChanges

fleetVars == <<content, rows, inventories, baselines, scanning, reported, told, hostChanges>>

\* Keys authorized on a host, password hashes of accounts with a login shell,
\* private keys whose public half can be told, and the items rarity looks at.
Empty == [authorized |-> {}, passwords |-> {}, private |-> {}, cron |-> {}]
Holdings == [authorized |-> Credentials \cup Unparsed, passwords |-> Credentials,
          private |-> Credentials, cron |-> Cron]

\* The digest holds each of them; a line of an authorized_keys file that is not a
\* key is in it too.
BuildStateDigest(c) == c

\* What the drift engine never sees, and the keys, which it does.
takeInventory(d) == [authorized |-> d.authorized, passwords |-> d.passwords, private |-> d.private]

FleetInit ==
    /\ content = [h \in Hosts |-> Empty]
    /\ rows = [h \in Hosts |-> "unknown"]
    /\ inventories = [h \in Hosts |-> NoHost]
    /\ baselines = [h \in Hosts |-> NoHost]
    /\ scanning = [h \in Hosts |-> NoHost]
    /\ reported = {}
    /\ told = [h \in Hosts |-> NoHost]
    /\ hostChanges = 0

-----------------------------------------------------------------------------

In(h, phase) == scanning[h] # NoHost /\ scanning[h].phase = phase
Proceed(h, phase) == scanning' = [scanning EXCEPT ![h].phase = phase]

\* A key, a hash or a cron line appears on a host, or goes.
HostChanges(h) ==
    /\ hostChanges < MaxHostChanges
    /\ hostChanges' = hostChanges + 1
    /\ \E kind \in DOMAIN Holdings : \E i \in Holdings[kind] :
         content' = [content EXCEPT ![h][kind] = IF i \in @ THEN @ \ {i} ELSE @ \cup {i}]
    /\ UNCHANGED <<rows, inventories, baselines, scanning, reported, told>>

\* The probe has run; the scan keeps the host's row as it read it before.  The
\* first scan establishes the baseline.
ProbeHost(h) ==
    /\ rows[h] # NoHost /\ scanning[h] = NoHost
    /\ LET d == BuildStateDigest(content[h]) IN
         /\ scanning' = [scanning EXCEPT ![h] =
              [phase |-> "probed", cohort |-> rows[h], inv |-> takeInventory(d), cron |-> d.cron, seen |-> <<>>]]
         /\ baselines' = [baselines EXCEPT ![h] = IF @ = NoHost THEN d.cron ELSE @]
    /\ UNCHANGED <<content, rows, inventories, reported, told, hostChanges>>

\* Hosts of the cohort that have a baseline, and those among them with the item.
InCohort(c) == {h \in Hosts : baselines[h] # NoHost /\ rows[h] = c}
HostsWith(c, item) == {h \in InCohort(c) : item \in baselines[h]}
RareMax(n) == IF n \div rareShare < 1 THEN 1 ELSE n \div rareShare

Findings(rule, h, ids) == {<<rule, h, id>> : id \in ids}
\* A row that refers to a host which is gone is refused.
Refused(h) == Cascades /\ rows[h] = NoHost

\* Reads and writes that fail are passed over.
applyRarity(h) ==
    LET c == scanning[h].cohort
        n == Cardinality(InCohort(c))
        rare == {i \in scanning[h].cron : Cardinality(HostsWith(c, i)) \in 1 .. RareMax(n)} IN
    /\ In(h, "probed")
    /\ \E stored \in IF n < minFleetHosts \/ Refused(h) THEN {{}} ELSE {Findings("rare", h, rare), {}} :
         reported' = reported \cup stored
    /\ Proceed(h, "ranked")
    /\ UNCHANGED <<content, rows, inventories, baselines, told, hostChanges>>

\* Mutant of SaveInventory: like the baseline, it stays as it was first saved.
SaveOnce(h) ==
    /\ In(h, "ranked") /\ rows[h] # NoHost
    /\ inventories' = [inventories EXCEPT ![h] = IF @ = NoHost THEN scanning[h].inv ELSE @]
    /\ told' = [told EXCEPT ![h] = NoHost]
    /\ Proceed(h, "saved")
    /\ UNCHANGED <<content, rows, baselines, reported, hostChanges>>

\* Also when it is empty.
SaveInventory(h) ==
    /\ In(h, "ranked") /\ ~Refused(h)
    /\ inventories' = [inventories EXCEPT ![h] = scanning[h].inv]
    /\ told' = [told EXCEPT ![h] = NoHost]
    /\ Proceed(h, "saved")
    /\ UNCHANGED <<content, rows, baselines, reported, hostChanges>>

ListInventories(h) ==
    /\ In(h, "saved")
    /\ scanning' = [scanning EXCEPT ![h].phase = "listed", ![h].seen = inventories]
    /\ UNCHANGED <<content, rows, inventories, baselines, reported, told, hostChanges>>

\* Neither is saved or listed: nothing is compared, and the scan goes on.
ReuseFails(h) ==
    /\ In(h, "ranked") \/ In(h, "saved")
    /\ Proceed(h, "compared")
    /\ UNCHANGED <<content, rows, inventories, baselines, reported, told, hostChanges>>

\* Others that hold the identifier, by what was listed.
OthersWith(h, category, id) ==
    {g \in Hosts \ {h} : scanning[h].seen[g] # NoHost /\ id \in scanning[h].seen[g][category]}

Matches(h, mine, theirs) == {id \in scanning[h].inv[mine] : OthersWith(h, theirs, id) # {}}

Reuse(h) ==
    Findings("fleet-shared-ssh-key", h, Matches(h, "authorized", "authorized"))
      \cup Findings("fleet-shared-password-hash", h, Matches(h, "passwords", "passwords"))
      \cup Findings("ssh-private-key-grants-access", h, Matches(h, "private", "authorized"))
      \cup Findings("fleet-private-key-copied", h, Matches(h, "private", "private"))

\* Each match is raised; one that the store refuses is passed over, and it refuses
\* those of a host that is gone.
applyCredentialReuse(h) ==
    /\ In(h, "listed")
    /\ \E stored \in IF Refused(h) THEN {{}} ELSE {Reuse(h), {}} :
         /\ reported' = reported \cup stored
         /\ told' = [told EXCEPT ![h] = IF stored = Reuse(h) /\ rows[h] # NoHost
                                       THEN scanning[h].inv ELSE @]
    /\ Proceed(h, "compared")
    /\ UNCHANGED <<content, rows, inventories, baselines, hostChanges>>

\* The host's row learns its cohort, and the scan is over.
updateHostFromResult(h) ==
    /\ In(h, "compared")
    /\ \E c \in Cohorts : rows' = [rows EXCEPT ![h] = IF @ = NoHost THEN NoHost ELSE c]
    /\ scanning' = [scanning EXCEPT ![h] = NoHost]
    /\ UNCHANGED <<content, inventories, baselines, reported, told, hostChanges>>

\* The scan is lost.
ScanLost(h) ==
    /\ scanning[h] # NoHost
    /\ scanning' = [scanning EXCEPT ![h] = NoHost]
    /\ UNCHANGED <<content, rows, inventories, baselines, reported, told, hostChanges>>

\* What the host's row is referenced by goes with it in PostgreSQL; the memory
\* store leaves it.
DeleteHost(h) ==
    /\ rows[h] # NoHost
    /\ rows' = [rows EXCEPT ![h] = NoHost]
    /\ IF Cascades
       THEN /\ inventories' = [inventories EXCEPT ![h] = NoHost]
            /\ baselines' = [baselines EXCEPT ![h] = NoHost]
            /\ reported' = {f \in reported : f[2] # h}
            /\ told' = [told EXCEPT ![h] = NoHost]
       ELSE UNCHANGED <<inventories, baselines, reported, told>>
    /\ UNCHANGED <<content, scanning, hostChanges>>

FleetNext ==
    \E h \in Hosts :
      \/ HostChanges(h) \/ ProbeHost(h) \/ applyRarity(h) \/ SaveInventory(h)
      \/ ListInventories(h) \/ ReuseFails(h) \/ applyCredentialReuse(h) \/ updateHostFromResult(h)
      \/ ScanLost(h) \/ DeleteHost(h)

FleetSpec == FleetInit /\ [][FleetNext]_fleetVars

-----------------------------------------------------------------------------
(* Properties.                                                                *)

Shared(x, y, category) == told[x][category] \cap told[y][category]

\* Each scan saves before it lists, so of two overlapping scans at least one sees
\* the other's inventory: a credential that two hosts share as of their latest
\* completed comparisons has been reported on one of them.
SharingIsNoticed ==
    \A x, y \in Hosts : x # y /\ told[x] # NoHost /\ told[y] # NoHost =>
      /\ \A k \in Shared(x, y, "authorized") :
           \E h \in {x, y} : <<"fleet-shared-ssh-key", h, k>> \in reported
      /\ \A k \in Shared(x, y, "passwords") :
           \E h \in {x, y} : <<"fleet-shared-password-hash", h, k>> \in reported
      /\ \A k \in Shared(x, y, "private") :
           \E h \in {x, y} : <<"fleet-private-key-copied", h, k>> \in reported

\* What is reported as a shared key is a key.  parseAuthKey gives a line without
\* one an empty fingerprint, and BuildStateDigest, which leaves out a private key
\* without one ("no public half to compare, excluded"), keeps it.
SharedKeysAreKeys == \A f \in reported : f[3] \notin Unparsed

\* What is shared is shared with a host there is: the memory store keeps the
\* inventory of a deleted host ("must stop counting as one that has it").
SharedWithExistingHosts ==
    [][\A h \in Hosts : \A f \in reported' \ reported :
         f[1] = "fleet-shared-ssh-key" /\ f[2] = h =>
           \E g \in OthersWith(h, "authorized", f[3]) : rows[g] # NoHost]_fleetVars
=============================================================================
