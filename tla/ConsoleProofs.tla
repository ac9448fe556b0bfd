----------------------------- MODULE ConsoleProofs -----------------------------
(***************************************************************************)
(* Proofs about parts of the server's console: the migrations, the rules   *)
(* and their scans, the sensor's deployment, the comparison of hosts, the  *)
(* schedules, the sign-in throttle, and the accounts, each for any values  *)
(* of its constants.                                                       *)
(***************************************************************************)
EXTENDS Accounts, SensorDeployment, Schedules, FleetCorrelation, RuleLayers, Migrations,
        LoginLimiter, TLAPS

-------------------------------------------------------------------------------
(* Migrations                                                                *)

\* What a server has still to run continues what is recorded, though others record the
\* same versions meanwhile.
Continues(s, k) ==
  /\ server[s].pending = (k + 1) .. Embedded[s]
  /\ 1 .. k \subseteq recorded
  /\ server[s].phase = "running" => k < Embedded[s]

PendingContinues ==
  \A s \in Servers : server[s].phase \in {"migrating", "running"} =>
    \E k \in 0 .. Embedded[s] : Continues(s, k)

MigrationsTyped ==
  /\ server \in [Servers -> [phase : {"down", "migrating", "running", "serving"},
                             pending : SUBSET MigrationVersions]]
  /\ runs \in [MigrationVersions -> Nat]
  /\ legacy \in BOOLEAN

LEMMA FirstOfInterval ==
  ASSUME NEW a \in Nat, NEW b \in Nat, a < b
  PROVE  First((a + 1) .. b) = a + 1
<1>1. a + 1 \in (a + 1) .. b /\ \A w \in (a + 1) .. b : a + 1 <= w
  OBVIOUS
<1>2. \A v \in (a + 1) .. b : (\A w \in (a + 1) .. b : v <= w) => v = a + 1
  BY <1>1
<1>3. QED
  BY <1>1, <1>2 DEF First

\* The record says what was done to the schema, whatever servers race and wherever they
\* are killed (pendingMigrations, applyMigration).
THEOREM RecordIsTrue == MigrationsSpec => []RecordMatchesSchema
<1> USE MigrationsAssumption
<1> DEFINE Inv == MigrationsTyped /\ PendingContinues /\ RecordMatchesSchema
<1>1. MigrationsInit => Inv
  <2> SUFFICES ASSUME MigrationsInit PROVE Inv
    OBVIOUS
  <2>1. recorded = 1 .. 0
    BY DEF MigrationsInit
  <2>2. MigrationsTyped /\ PendingContinues
    BY DEF MigrationsInit, MigrationsTyped, PendingContinues, Down
  <2>3. RecordMatchesSchema
    <3>1. 0 \in 0 .. MaxVersion
      OBVIOUS
    <3>2. \A v \in MigrationVersions :
            runs[v] = (IF v \in recorded THEN 1 ELSE 0) + (IF v = 1 /\ legacy THEN 1 ELSE 0)
      BY DEF MigrationsInit
    <3>3. \A s \in Servers : server[s].phase # "serving"
      BY DEF MigrationsInit, Down
    <3>4. QED
      BY <2>1, <3>1, <3>2, <3>3 DEF RecordMatchesSchema
  <2>4. QED
    BY <2>2, <2>3
<1>2. Inv /\ [MigrationsNext]_migrationVars => Inv'
  <2> SUFFICES ASSUME Inv, [MigrationsNext]_migrationVars PROVE Inv'
    OBVIOUS
  <2> USE DEF MigrationsTyped, Down
  <2>0. PICK n \in 0 .. MaxVersion : recorded = 1 .. n
    BY DEF RecordMatchesSchema
  <2>e. \A t \in Servers : Embedded[t] \in Nat /\ Embedded[t] <= MaxVersion /\ 1 <= Embedded[t]
    BY DEF MigrationVersions
  <2>1. ASSUME NEW s \in Servers, appliedMigrations(s) PROVE Inv'
    <3> DEFINE k == IF n <= Embedded[s] THEN n ELSE Embedded[s]
    <3>1. /\ server' = [server EXCEPT ![s] = [phase |-> "migrating", pending |-> 1 .. Embedded[s] \ recorded]]
          /\ UNCHANGED <<runs, recorded, legacy>>
      BY <2>1 DEF appliedMigrations
    <3>2. /\ k \in 0 .. Embedded[s]
          /\ 1 .. Embedded[s] \ recorded = (k + 1) .. Embedded[s]
          /\ 1 .. k \subseteq recorded
      BY <2>0, <2>e
    <3> HIDE DEF k
    <3>3. MigrationsTyped'
      BY <2>e, <3>1 DEF MigrationVersions
    <3>4. PendingContinues'
      <4> SUFFICES ASSUME NEW t \in Servers, server'[t].phase \in {"migrating", "running"}
                   PROVE  \E j \in 0 .. Embedded[t] : Continues(t, j)'
        BY DEF PendingContinues
      <4>1. CASE t = s
        <5>1. Continues(s, k)'
          BY <3>1, <3>2 DEF Continues
        <5>2. QED
          BY <3>2, <4>1, <5>1
      <4>2. CASE t # s
        BY <3>1, <4>2 DEF PendingContinues, Continues
      <4>3. QED
        BY <4>1, <4>2
    <3>5. RecordMatchesSchema'
      BY <3>1 DEF RecordMatchesSchema
    <3>6. QED
      BY <3>3, <3>4, <3>5
  <2>2. ASSUME NEW s \in Servers, RunMigration(s) PROVE Inv'
    <3>1. /\ server[s].phase = "migrating" /\ server[s].pending # {}
          /\ UNCHANGED <<runs, recorded, legacy>>
          /\ \/ server' = [server EXCEPT ![s] = Down]
             \/ server' = [server EXCEPT ![s].phase = "running"]
      BY <2>2 DEF RunMigration
    <3>2. MigrationsTyped'
      BY <3>1
    <3>3. PendingContinues'
      <4> SUFFICES ASSUME NEW t \in Servers, server'[t].phase \in {"migrating", "running"}
                   PROVE  \E j \in 0 .. Embedded[t] : Continues(t, j)'
        BY DEF PendingContinues
      <4>1. server[t].phase \in {"migrating", "running"} /\ server'[t].pending = server[t].pending
        BY <3>1
      <4>2. PICK j \in 0 .. Embedded[t] : Continues(t, j)
        BY <4>1 DEF PendingContinues
      <4>3. server'[t].phase = "running" => server[t].pending # {} \/ j < Embedded[t]
        BY <3>1, <4>2 DEF Continues
      <4>4. server[t].pending # {} => j < Embedded[t]
        BY <2>e, <4>2 DEF Continues
      <4>5. QED
        BY <3>1, <4>1, <4>2, <4>3, <4>4 DEF Continues
    <3>4. \A t \in Servers : server'[t].phase = "serving" => server[t].phase = "serving"
      BY <3>1
    <3>5. RecordMatchesSchema'
      BY <3>1, <3>4 DEF RecordMatchesSchema
    <3>6. QED
      BY <3>2, <3>3, <3>5
  <2>3. ASSUME NEW s \in Servers, applyMigration(s) PROVE Inv'
    <3> DEFINE v == First(server[s].pending)
    <3>1. PICK k \in 0 .. Embedded[s] :
            /\ server[s].pending = (k + 1) .. Embedded[s]
            /\ 1 .. k \subseteq recorded
            /\ k < Embedded[s]
      BY <2>3 DEF applyMigration, PendingContinues, Continues
    <3>2. v = k + 1 /\ v \in MigrationVersions
      BY <2>e, <3>1, FirstOfInterval DEF MigrationVersions
    <3> HIDE DEF v
    <3>3. CASE v \in recorded
      <4>1. server' = [server EXCEPT ![s] = Down] /\ UNCHANGED <<runs, recorded, legacy>>
        BY <2>3, <3>3 DEF applyMigration, v
      <4>2. QED
        BY ZenonT(40), <4>1 DEF PendingContinues, Continues, RecordMatchesSchema
    <3>4. CASE v \notin recorded
      <4>1. /\ server' = [server EXCEPT ![s] = [phase |-> "migrating", pending |-> @.pending \ {v}]]
            /\ recorded' = recorded \cup {v}
            /\ runs' = [runs EXCEPT ![v] = @ + 1]
            /\ legacy' = legacy
        BY <2>3, <3>4 DEF applyMigration, v
      <4>2. k = n
        <5>1. k \in Nat /\ (k = 0 \/ k \in 1 .. k)
          BY <2>e, <3>1
        <5>2. k = 0 \/ k \in recorded
          BY <3>1, <5>1
        <5>3. k <= n
          BY <2>0, <5>1, <5>2
        <5>4. ~(k + 1 \in 1 .. n)
          BY <2>0, <3>2, <3>4
        <5>5. QED
          BY <2>0, <5>1, <5>3, <5>4
      <4>3. recorded' = 1 .. (n + 1) /\ n + 1 \in 0 .. MaxVersion
        BY <2>0, <2>e, <3>1, <3>2, <4>1, <4>2
      <4>4. server[s].pending \ {v} = (k + 2) .. Embedded[s]
        BY <2>e, <3>1, <3>2
      <4>5. MigrationsTyped'
        BY <3>2, <4>1
      <4>6. PendingContinues'
        <5> SUFFICES ASSUME NEW t \in Servers, server'[t].phase \in {"migrating", "running"}
                     PROVE  \E j \in 0 .. Embedded[t] : Continues(t, j)'
          BY DEF PendingContinues
        <5>1. CASE t = s
          <6>1. k + 1 \in 0 .. Embedded[s] /\ (k + 1) + 1 = k + 2
            BY <2>e, <3>1
          <6>2. server'[s].pending = (k + 2) .. Embedded[s] /\ server'[s].phase = "migrating"
            BY <4>1, <4>4
          <6>3. Continues(s, k + 1)'
            BY <4>2, <4>3, <6>1, <6>2 DEF Continues
          <6>4. QED
            BY <5>1, <6>1, <6>3
        <5>2. CASE t # s
          BY <4>1, <5>2 DEF PendingContinues, Continues
        <5>3. QED
          BY <5>1, <5>2
      <4>7. RecordMatchesSchema'
        <5>1. \A w \in MigrationVersions :
                runs'[w] = (IF w \in recorded' THEN 1 ELSE 0) + (IF w = 1 /\ legacy' THEN 1 ELSE 0)
          BY <3>2, <3>4, <4>1 DEF RecordMatchesSchema
        <5>2. \A t \in Servers : server'[t].phase = "serving" => 1 .. Embedded[t] \subseteq recorded'
          BY <4>1 DEF RecordMatchesSchema
        <5>3. QED
          BY <4>3, <5>1, <5>2 DEF RecordMatchesSchema
      <4>8. QED
        BY <4>5, <4>6, <4>7
    <3>5. QED
      BY <3>3, <3>4
  <2>4. ASSUME NEW s \in Servers, Serve(s) PROVE Inv'
    <3>1. 1 .. Embedded[s] \subseteq recorded
      <4>1. server[s].phase = "migrating" /\ server[s].pending = {}
        BY <2>4 DEF Serve
      <4>2. PICK k \in 0 .. Embedded[s] : Continues(s, k)
        BY <4>1 DEF PendingContinues
      <4>3. k = Embedded[s]
        <5>1. (k + 1) .. Embedded[s] = {}
          BY <4>1, <4>2 DEF Continues
        <5>2. k < Embedded[s] => k + 1 \in (k + 1) .. Embedded[s]
          BY <2>e
        <5>3. ~(k < Embedded[s])
          BY <5>1, <5>2
        <5>4. Embedded[s] \in Nat /\ k \in Nat /\ k <= Embedded[s]
          BY <2>e
        <5>5. QED
          BY <5>3, <5>4
      <4>4. QED
        BY <4>2, <4>3 DEF Continues
    <3>2. server' = [server EXCEPT ![s].phase = "serving"] /\ UNCHANGED <<runs, recorded, legacy>>
      BY <2>4 DEF Serve
    <3>3. \A t \in Servers : t # s => server'[t] = server[t]
      BY <3>2
    <3>4. server'[s].phase = "serving"
      BY <3>2
    <3>5. MigrationsTyped' /\ PendingContinues'
      BY <3>2, <3>3, <3>4 DEF PendingContinues, Continues
    <3>6. RecordMatchesSchema'
      BY <3>1, <3>2, <3>3 DEF RecordMatchesSchema
    <3>7. QED
      BY <3>5, <3>6
  <2>5. ASSUME NEW s \in Servers, Killed(s) PROVE Inv'
    BY ZenonT(40), <2>5 DEF Killed, PendingContinues, Continues, RecordMatchesSchema
  <2>6. CASE UNCHANGED migrationVars
    BY <2>6 DEF migrationVars, PendingContinues, Continues, RecordMatchesSchema
  <2>7. QED
    BY <2>1, <2>2, <2>3, <2>4, <2>5, <2>6 DEF MigrationsNext
<1>3. QED
  BY <1>1, <1>2, PTL DEF MigrationsSpec
-------------------------------------------------------------------------------
(* RuleLayers                                                                *)

RuleRow == [def : Definitions, enabled : BOOLEAN]
RuleOrNone == RuleRow \cup {NoRule}
PatchRow == [id : Rules, enabled : BOOLEAN, phase : {"missing", "active"},
             def : Definitions \cup {NoRule}, overlapped : BOOLEAN]
ScanRow == [phase : {"loaded", "probed"}, index : [Rules -> RuleOrNone],
            found : SUBSET (Rules \X Definitions), off : SUBSET Rules]
RulesTyped ==
  /\ rulesTable \in [Rules -> RuleOrNone]
  /\ patches \in [Clients -> PatchRow \cup {NoRule}]
  /\ \A c \in Clients : patches[c] # NoRule /\ patches[c].phase = "active" => patches[c].def \in Definitions
  /\ scanRuns \in [RuleScans -> ScanRow \cup [phase : {"failed", "over"}] \cup {NoRule}]
  /\ uploaded \in [Rules -> Definitions \cup {NoRule}]

\* A scan goes on with the rules it loaded: what was disabled then is not in its bundle,
\* and what was found was found by a rule of the bundle.
ScanHolds ==
  \A s \in RuleScans : scanRuns[s] # NoRule =>
    /\ scanRuns[s].phase \in {"loaded", "probed"} =>
         \A r \in scanRuns[s].off : ~scanRuns[s].index[r].enabled
    /\ scanRuns[s].phase = "probed" =>
         \A f \in scanRuns[s].found :
           /\ scanRuns[s].index[f[1]] # NoRule
           /\ scanRuns[s].index[f[1]].enabled
           /\ f[2] = scanRuns[s].index[f[1]].def

\* A patch that found no rule of the user's, and that nothing overtook, still finds none.
PatchesHold ==
  /\ \A c \in Clients : patches[c] # NoRule /\ ~patches[c].overlapped => rulesTable[patches[c].id] = NoRule
  /\ \A r \in Rules : uploaded[r] # NoRule => rulesTable[r] # NoRule

LEMMA ActiveRulesTyped ==
  ASSUME RulesTyped PROVE loadActiveRules \in [Rules -> RuleOrNone]
BY RulesAssumption DEF RulesTyped, loadActiveRules, RuleOrNone, RuleRow

\* A write of a rule marks the patches of it, and nothing else of them.
LEMMA OverlappedMarks ==
  ASSUME RulesTyped, NEW r \in Rules
  PROVE  /\ Overlapped(r) \in [Clients -> PatchRow \cup {NoRule}]
         /\ \A c \in Clients : Overlapped(r)[c] # NoRule =>
              /\ patches[c] # NoRule
              /\ Overlapped(r)[c].id = patches[c].id
              /\ Overlapped(r)[c].phase = patches[c].phase
              /\ Overlapped(r)[c].def = patches[c].def
              /\ (Overlapped(r)[c].overlapped <=> patches[c].overlapped \/ patches[c].id = r)
<1> SUFFICES ASSUME NEW c \in Clients
             PROVE  /\ Overlapped(r)[c] \in PatchRow \cup {NoRule}
                    /\ Overlapped(r)[c] # NoRule =>
                         /\ patches[c] # NoRule
                         /\ Overlapped(r)[c].id = patches[c].id
                         /\ Overlapped(r)[c].phase = patches[c].phase
                         /\ Overlapped(r)[c].def = patches[c].def
                         /\ (Overlapped(r)[c].overlapped <=> patches[c].overlapped \/ patches[c].id = r)
  BY DEF Overlapped
<1>1. CASE patches[c] = NoRule
  BY <1>1 DEF Overlapped
<1>2. CASE patches[c] # NoRule
  <2>1. patches[c] \in PatchRow
    BY <1>2 DEF RulesTyped
  <2>2. CASE patches[c].id = r
    <3>1. Overlapped(r)[c] = [patches[c] EXCEPT !.overlapped = TRUE]
      BY <1>2, <2>2 DEF Overlapped
    <3>2. QED
      BY <1>2, <2>1, <2>2, <3>1 DEF PatchRow
  <2>3. CASE patches[c].id # r
    <3>1. Overlapped(r)[c] = patches[c]
      BY <1>2, <2>3 DEF Overlapped
    <3>2. QED
      BY <1>2, <2>1, <2>3, <3>1
  <2>4. QED
    BY <2>2, <2>3
<1>3. QED
  BY <1>1, <1>2

\* What a write of a rule's row and the marks on the patches of it leave is typed.
LEMMA RulesTypedAfterWrite ==
  ASSUME RulesTyped, NEW r \in Rules, NEW row \in RuleOrNone,
         rulesTable' = [rulesTable EXCEPT ![r] = row],
         patches' = Overlapped(r),
         scanRuns' = scanRuns,
         uploaded' \in [Rules -> Definitions \cup {NoRule}]
  PROVE  RulesTyped'
<1>1. rulesTable' \in [Rules -> RuleOrNone]
  BY DEF RulesTyped
<1>2. /\ patches' \in [Clients -> PatchRow \cup {NoRule}]
      /\ \A c \in Clients : patches'[c] # NoRule =>
           /\ patches[c] # NoRule
           /\ patches'[c].phase = patches[c].phase
           /\ patches'[c].def = patches[c].def
  BY OverlappedMarks
<1>3. \A c \in Clients : patches'[c] # NoRule /\ patches'[c].phase = "active" =>
                          patches'[c].def \in Definitions
  <2> SUFFICES ASSUME NEW c \in Clients, patches'[c] # NoRule, patches'[c].phase = "active"
               PROVE  patches'[c].def \in Definitions
    OBVIOUS
  <2>1. patches[c] # NoRule /\ patches[c].phase = "active"
    BY <1>2
  <2>2. patches[c].def \in Definitions
    BY <2>1 DEF RulesTyped
  <2>3. QED
    BY <1>2, <2>2
<1>4. scanRuns' \in [RuleScans -> ScanRow \cup [phase : {"failed", "over"}] \cup {NoRule}]
  BY DEF RulesTyped
<1>5. QED
  BY <1>1, <1>2, <1>3, <1>4 DEF RulesTyped

LEMMA RulesTypedInvariant == RulesSpec => []RulesTyped
<1> USE RulesAssumption
<1>1. RulesInit => RulesTyped
  BY DEF RulesInit, RulesTyped, RuleOrNone
<1>2. RulesTyped /\ [RulesNext]_ruleVars => RulesTyped'
  <2> SUFFICES ASSUME RulesTyped, [RulesNext]_ruleVars PROVE RulesTyped'
    OBVIOUS
  <2>1. ASSUME NEW r \in Rules, NEW d \in Uploads, NEW enabled \in BOOLEAN, createRule(r, d, enabled)
        PROVE  RulesTyped'
    <3>1. d \in Definitions /\ [def |-> d, enabled |-> enabled] \in RuleOrNone
      BY DEF RuleOrNone, RuleRow
    <3>2. /\ rulesTable' = [rulesTable EXCEPT ![r] = [def |-> d, enabled |-> enabled]]
          /\ uploaded' = [uploaded EXCEPT ![r] = d]
          /\ patches' = Overlapped(r) /\ scanRuns' = scanRuns
      BY <2>1 DEF createRule
    <3>3. uploaded' \in [Rules -> Definitions \cup {NoRule}]
      BY <3>1, <3>2 DEF RulesTyped
    <3>4. QED
      BY <3>1, <3>2, <3>3, RulesTypedAfterWrite
  <2>2. ASSUME NEW r \in Rules, deleteRule(r) PROVE RulesTyped'
    <3>1. NoRule \in RuleOrNone
      BY DEF RuleOrNone
    <3>2. /\ rulesTable' = [rulesTable EXCEPT ![r] = NoRule]
          /\ uploaded' = [uploaded EXCEPT ![r] = NoRule]
          /\ patches' = Overlapped(r) /\ scanRuns' = scanRuns
      BY <2>2 DEF deleteRule
    <3>3. uploaded' \in [Rules -> Definitions \cup {NoRule}]
      BY <3>2 DEF RulesTyped
    <3>4. QED
      BY <3>1, <3>2, <3>3, RulesTypedAfterWrite
  <2>3. ASSUME NEW c \in Clients, NEW r \in Rules, NEW enabled \in BOOLEAN, SetRuleEnabled(c, r, enabled)
        PROVE  RulesTyped'
    <3>1. CASE rulesTable[r] # NoRule
      <4> DEFINE row == [rulesTable[r] EXCEPT !.enabled = enabled]
      <4>1. row \in RuleOrNone
        BY <3>1 DEF RulesTyped, RuleOrNone, RuleRow
      <4>2. /\ rulesTable' = [rulesTable EXCEPT ![r] = row]
            /\ patches' = Overlapped(r)
            /\ scanRuns' = scanRuns /\ uploaded' = uploaded
        BY <2>3, <3>1 DEF SetRuleEnabled
      <4>3. uploaded' \in [Rules -> Definitions \cup {NoRule}]
        BY <4>2 DEF RulesTyped
      <4> HIDE DEF row
      <4>4. QED
        BY <4>1, <4>2, <4>3, RulesTypedAfterWrite
    <3>2. CASE rulesTable[r] = NoRule
      <4> DEFINE patch == [id |-> r, enabled |-> enabled, phase |-> "missing",
                           def |-> NoRule, overlapped |-> FALSE]
      <4>1. patch \in PatchRow /\ patch.phase # "active"
        BY DEF PatchRow
      <4>2. patches' = [patches EXCEPT ![c] = patch] /\ UNCHANGED <<rulesTable, scanRuns, uploaded>>
        BY <2>3, <3>2 DEF SetRuleEnabled
      <4> HIDE DEF patch
      <4>3. QED
        BY <4>1, <4>2 DEF RulesTyped
    <3>3. QED
      BY <3>1, <3>2
  <2>4. ASSUME NEW c \in Clients, activeRule(c) PROVE RulesTyped'
    <3> DEFINE rule == loadActiveRules[patches[c].id]
               patch == IF rule = NoRule THEN NoRule
                        ELSE [patches[c] EXCEPT !.phase = "active", !.def = rule.def]
    <3>1. patches[c] \in PatchRow
      BY <2>4 DEF RulesTyped, activeRule
    <3>2. rule = NoRule \/ rule.def \in Definitions
      BY <3>1, ActiveRulesTyped DEF PatchRow, RuleOrNone, RuleRow
    <3>3. patches' = [patches EXCEPT ![c] = patch]
      BY <2>4 DEF activeRule
    <3>4. patch = NoRule \/ (patch \in PatchRow /\ patch.def \in Definitions)
      BY <3>1, <3>2 DEF PatchRow
    <3> HIDE DEF patch
    <3>5. QED
      BY ZenonT(40), <2>4, <3>3, <3>4 DEF RulesTyped, activeRule
  <2>5. ASSUME NEW c \in Clients, UpsertOverride(c) PROVE RulesTyped'
    <3> DEFINE r == patches[c].id
               override == [def |-> patches[c].def, enabled |-> patches[c].enabled]
    <3>1. r \in Rules /\ override \in RuleOrNone
      BY <2>5 DEF RulesTyped, UpsertOverride, PatchRow, RuleOrNone, RuleRow
    <3>2. /\ rulesTable' = [rulesTable EXCEPT ![r] = override]
          /\ patches' = [Overlapped(r) EXCEPT ![c] = NoRule]
          /\ UNCHANGED <<scanRuns, raised, uploaded>>
      BY <2>5 DEF UpsertOverride
    <3> HIDE DEF r, override
    <3>3. QED
      BY <3>1, <3>2, OverlappedMarks DEF RulesTyped
  <2>6. ASSUME NEW s \in RuleScans, LoadRules(s) PROVE RulesTyped'
    <3> DEFINE loaded == [phase |-> "loaded", index |-> loadActiveRules, found |-> {},
                          off |-> {r \in Rules : rulesTable[r] # NoRule /\ ~rulesTable[r].enabled}]
    <3>1. loaded \in ScanRow
      BY ActiveRulesTyped DEF ScanRow
    <3>2. scanRuns' = [scanRuns EXCEPT ![s] = loaded] /\ UNCHANGED <<rulesTable, patches, uploaded>>
      BY <2>6 DEF LoadRules
    <3> HIDE DEF loaded
    <3>3. QED
      BY <3>1, <3>2 DEF RulesTyped
  <2>7. ASSUME NEW s \in RuleScans, RunProbe(s) PROVE RulesTyped'
    <3>0. UNCHANGED <<rulesTable, patches, uploaded>> /\ scanRuns[s] \in ScanRow
      BY <2>7 DEF RulesTyped, RunProbe
    <3>1. CASE scanRuns' = [scanRuns EXCEPT ![s] = [phase |-> "failed"]]
      BY <3>0, <3>1 DEF RulesTyped
    <3>2. ASSUME NEW matched \in SUBSET BundleFrom(scanRuns[s].index),
                 scanRuns' = [scanRuns EXCEPT ![s].phase = "probed",
                                              ![s].found = {<<r, scanRuns[s].index[r].def>> : r \in matched}]
          PROVE  RulesTyped'
      <4> DEFINE found == {<<r, scanRuns[s].index[r].def>> : r \in matched}
                 probed == [scanRuns[s] EXCEPT !.phase = "probed", !.found = found]
      <4>1. \A r \in matched : r \in Rules /\ scanRuns[s].index[r].def \in Definitions
        BY <3>0 DEF BundleFrom, ScanRow, RuleOrNone, RuleRow
      <4>2. found \in SUBSET (Rules \X Definitions)
        BY <4>1
      <4>3. scanRuns' = [scanRuns EXCEPT ![s] = probed]
        BY <3>2
      <4> HIDE DEF found
      <4>4. probed \in ScanRow
        BY <3>0, <4>2 DEF ScanRow
      <4> HIDE DEF probed
      <4>5. QED
        BY <3>0, <4>3, <4>4 DEF RulesTyped
    <3>3. QED
      BY <2>7, <3>1, <3>2 DEF RunProbe
  <2>8. ASSUME NEW s \in RuleScans, Ingest(s) PROVE RulesTyped'
    BY <2>8 DEF RulesTyped, Ingest
  <2>9. CASE UNCHANGED ruleVars
    BY <2>9 DEF RulesTyped, ruleVars
  <2>10. QED
    BY <2>1, <2>2, <2>3, <2>4, <2>5, <2>6, <2>7, <2>8, <2>9 DEF RulesNext
<1>3. QED
  BY <1>1, <1>2, PTL DEF RulesSpec

\* A finding carries the metadata of the definition that matched on the host, whatever is
\* edited while the probe runs, and no rule that was disabled when the scan began raises
\* one (Runner.scan, BundleFrom).
THEOREM FindingsAreTheirRules == RulesSpec => []FindingsCarryTheirRule
<1> DEFINE Inv == ScanHolds /\ FindingsCarryTheirRule
<1>1. RulesInit => Inv
  BY DEF RulesInit, ScanHolds, FindingsCarryTheirRule
<1>2. RulesTyped /\ Inv /\ [RulesNext]_ruleVars => Inv'
  <2> SUFFICES ASSUME RulesTyped, Inv, [RulesNext]_ruleVars PROVE Inv'
    OBVIOUS
  <2>1. ASSUME NEW s \in RuleScans, LoadRules(s) PROVE Inv'
    <3> DEFINE loaded == [phase |-> "loaded", index |-> loadActiveRules, found |-> {},
                          off |-> {r \in Rules : rulesTable[r] # NoRule /\ ~rulesTable[r].enabled}]
    <3>1. \A r \in loaded.off : ~loaded.index[r].enabled
      BY DEF loadActiveRules
    <3>2. scanRuns' = [scanRuns EXCEPT ![s] = loaded] /\ raised' = raised
      BY <2>1 DEF LoadRules
    <3>3. loaded.phase = "loaded"
      OBVIOUS
    <3> HIDE DEF loaded
    <3>4. QED
      BY <3>1, <3>2, <3>3 DEF RulesTyped, ScanHolds, FindingsCarryTheirRule
  <2>2. ASSUME NEW s \in RuleScans, RunProbe(s) PROVE Inv'
    <3>0. raised' = raised /\ scanRuns[s] \in ScanRow /\ scanRuns[s] # NoRule
      BY <2>2 DEF RulesTyped, RunProbe
    <3>1. CASE scanRuns' = [scanRuns EXCEPT ![s] = [phase |-> "failed"]]
      BY <3>0, <3>1 DEF RulesTyped, ScanHolds, FindingsCarryTheirRule
    <3>2. ASSUME NEW matched \in SUBSET BundleFrom(scanRuns[s].index),
                 scanRuns' = [scanRuns EXCEPT ![s].phase = "probed",
                                              ![s].found = {<<r, scanRuns[s].index[r].def>> : r \in matched}]
          PROVE  Inv'
      <4> DEFINE found == {<<r, scanRuns[s].index[r].def>> : r \in matched}
                 probed == [scanRuns[s] EXCEPT !.phase = "probed", !.found = found]
      <4>1. \A r \in matched : scanRuns[s].index[r] # NoRule /\ scanRuns[s].index[r].enabled
        BY DEF BundleFrom
      <4>2. \A f \in found : /\ scanRuns[s].index[f[1]] # NoRule
                            /\ scanRuns[s].index[f[1]].enabled
                            /\ f[2] = scanRuns[s].index[f[1]].def
        BY <4>1
      <4>3. scanRuns' = [scanRuns EXCEPT ![s] = probed]
        BY <3>2
      <4> HIDE DEF found
      <4>4. /\ probed.phase = "probed" /\ probed.found = found
            /\ probed.index = scanRuns[s].index /\ probed.off = scanRuns[s].off
        BY <3>0 DEF ScanRow
      <4>5. scanRuns[s].phase = "loaded"
        BY <2>2 DEF RunProbe
      <4> HIDE DEF probed
      <4>6. QED
        BY <3>0, <4>2, <4>3, <4>4, <4>5 DEF RulesTyped, ScanHolds, FindingsCarryTheirRule
    <3>3. QED
      BY <2>2, <3>1, <3>2 DEF RunProbe
  <2>3. ASSUME NEW s \in RuleScans, Ingest(s) PROVE Inv'
    <3>1. scanRuns[s] # NoRule /\ scanRuns[s].phase = "probed"
      BY <2>3 DEF Ingest
    <3>2. ASSUME NEW o \in Raised(s, scanRuns[s].index) PROVE o.meta = o.matched /\ ~o.muted
      <4>1. PICK f \in scanRuns[s].found :
              o = [rule |-> f[1], matched |-> f[2], meta |-> scanRuns[s].index[f[1]].def,
                   muted |-> f[1] \in scanRuns[s].off]
        BY <3>2 DEF Raised
      <4>2. /\ scanRuns[s].index[f[1]].enabled
            /\ f[2] = scanRuns[s].index[f[1]].def
        BY <3>1, <4>1 DEF ScanHolds
      <4>3. f[1] \notin scanRuns[s].off
        BY <3>1, <4>2 DEF ScanHolds
      <4>4. o.meta = scanRuns[s].index[f[1]].def /\ o.matched = f[2] /\ o.muted = (f[1] \in scanRuns[s].off)
        BY <4>1
      <4>5. QED
        BY <4>2, <4>3, <4>4
    <3>3. FindingsCarryTheirRule'
      BY <2>3, <3>2 DEF Ingest, FindingsCarryTheirRule
    <3>4. ScanHolds'
      BY <2>3 DEF Ingest, RulesTyped, ScanHolds
    <3>5. QED
      BY <3>3, <3>4
  <2>4. CASE UNCHANGED <<scanRuns, raised>>
    BY <2>4 DEF ScanHolds, FindingsCarryTheirRule
  <2>5. QED
    BY <2>1, <2>2, <2>3, <2>4 DEF RulesNext, ruleVars, createRule, deleteRule, SetRuleEnabled,
                                  activeRule, UpsertOverride
<1>3. QED
  BY <1>1, <1>2, RulesTypedInvariant, PTL DEF RulesSpec

\* A patch that a write leaves unmarked is of another rule, and still finds none.
LEMMA UnmarkedFindsNone ==
  ASSUME RulesTyped, PatchesHold, NEW r \in Rules, NEW c \in Clients,
         Overlapped(r)[c] # NoRule, ~Overlapped(r)[c].overlapped
  PROVE  LET q == Overlapped(r)[c].id IN q \in Rules /\ q # r /\ rulesTable[q] = NoRule
<1>1. /\ patches[c] # NoRule /\ ~patches[c].overlapped
      /\ patches[c].id # r /\ Overlapped(r)[c].id = patches[c].id
  BY OverlappedMarks
<1>2. patches[c].id \in Rules /\ rulesTable[patches[c].id] = NoRule
  BY <1>1 DEF RulesTyped, PatchRow, PatchesHold
<1>3. QED
  BY <1>1, <1>2 DEF RulesTyped

LEMMA PatchesHoldInvariant == RulesSpec => []PatchesHold
<1> USE RulesAssumption
<1>1. RulesInit => PatchesHold
  BY DEF RulesInit, PatchesHold
<1>2. RulesTyped /\ PatchesHold /\ [RulesNext]_ruleVars => PatchesHold'
  <2> SUFFICES ASSUME RulesTyped, PatchesHold, [RulesNext]_ruleVars PROVE PatchesHold'
    OBVIOUS
  <2>1. ASSUME NEW r \in Rules, NEW d \in Uploads, NEW enabled \in BOOLEAN, createRule(r, d, enabled)
        PROVE  PatchesHold'
    <3> DEFINE row == [def |-> d, enabled |-> enabled]
    <3>1. row # NoRule
      OBVIOUS
    <3>2. /\ rulesTable' = [rulesTable EXCEPT ![r] = row] /\ patches' = Overlapped(r)
          /\ uploaded' = [uploaded EXCEPT ![r] = d]
      BY <2>1 DEF createRule
    <3> HIDE DEF row
    <3>3. \A c \in Clients : patches'[c] # NoRule /\ ~patches'[c].overlapped => rulesTable'[patches'[c].id] = NoRule
      BY <3>2, UnmarkedFindsNone DEF RulesTyped
    <3>4. \A q \in Rules : uploaded'[q] # NoRule => rulesTable'[q] # NoRule
      BY <3>1, <3>2 DEF RulesTyped, PatchesHold
    <3>5. QED
      BY <3>3, <3>4 DEF PatchesHold
  <2>2. ASSUME NEW r \in Rules, deleteRule(r) PROVE PatchesHold'
    <3>1. /\ rulesTable' = [rulesTable EXCEPT ![r] = NoRule] /\ patches' = Overlapped(r)
          /\ uploaded' = [uploaded EXCEPT ![r] = NoRule]
      BY <2>2 DEF deleteRule
    <3>2. \A c \in Clients : patches'[c] # NoRule /\ ~patches'[c].overlapped => rulesTable'[patches'[c].id] = NoRule
      BY <3>1, UnmarkedFindsNone DEF RulesTyped
    <3>3. \A q \in Rules : uploaded'[q] # NoRule => rulesTable'[q] # NoRule
      BY <3>1 DEF RulesTyped, PatchesHold
    <3>4. QED
      BY <3>2, <3>3 DEF PatchesHold
  <2>3. ASSUME NEW c \in Clients, NEW r \in Rules, NEW enabled \in BOOLEAN, SetRuleEnabled(c, r, enabled)
        PROVE  PatchesHold'
    <3>1. CASE rulesTable[r] # NoRule
      <4> DEFINE row == [rulesTable[r] EXCEPT !.enabled = enabled]
      <4>1. row # NoRule
        BY <3>1 DEF RulesTyped, RuleOrNone, RuleRow
      <4>2. rulesTable' = [rulesTable EXCEPT ![r] = row] /\ patches' = Overlapped(r) /\ uploaded' = uploaded
        BY <2>3, <3>1 DEF SetRuleEnabled
      <4> HIDE DEF row
      <4>3. \A q \in Clients : patches'[q] # NoRule /\ ~patches'[q].overlapped => rulesTable'[patches'[q].id] = NoRule
        BY <4>2, UnmarkedFindsNone DEF RulesTyped
      <4>4. \A q \in Rules : uploaded'[q] # NoRule => rulesTable'[q] # NoRule
        BY <4>1, <4>2 DEF RulesTyped, PatchesHold
      <4>5. QED
        BY <4>3, <4>4 DEF PatchesHold
    <3>2. CASE rulesTable[r] = NoRule
      <4> DEFINE patch == [id |-> r, enabled |-> enabled, phase |-> "missing",
                           def |-> NoRule, overlapped |-> FALSE]
      <4>1. patch.id = r
        OBVIOUS
      <4>2. patches' = [patches EXCEPT ![c] = patch] /\ UNCHANGED <<rulesTable, scanRuns, uploaded>>
        BY <2>3, <3>2 DEF SetRuleEnabled
      <4> HIDE DEF patch
      <4>3. QED
        BY <3>2, <4>1, <4>2 DEF RulesTyped, PatchesHold
    <3>3. QED
      BY <3>1, <3>2
  <2>4. ASSUME NEW c \in Clients, activeRule(c) PROVE PatchesHold'
    <3> DEFINE rule == loadActiveRules[patches[c].id]
               patch == IF rule = NoRule THEN NoRule
                        ELSE [patches[c] EXCEPT !.phase = "active", !.def = rule.def]
    <3>1. patches[c] \in PatchRow /\ patches[c] # NoRule
      BY <2>4 DEF RulesTyped, activeRule
    <3>2. patches' = [patches EXCEPT ![c] = patch] /\ UNCHANGED <<rulesTable, uploaded>>
      BY <2>4 DEF activeRule
    <3>3. patch # NoRule => patch.id = patches[c].id /\ patch.overlapped = patches[c].overlapped
      BY <3>1 DEF PatchRow
    <3> HIDE DEF patch
    <3>4. QED
      BY <3>1, <3>2, <3>3 DEF RulesTyped, PatchesHold
  <2>5. ASSUME NEW c \in Clients, UpsertOverride(c) PROVE PatchesHold'
    <3> DEFINE r == patches[c].id
               override == [def |-> patches[c].def, enabled |-> patches[c].enabled]
    <3>1. r \in Rules /\ override # NoRule
      BY <2>5 DEF RulesTyped, UpsertOverride, PatchRow
    <3>2. /\ rulesTable' = [rulesTable EXCEPT ![r] = override]
          /\ patches' = [Overlapped(r) EXCEPT ![c] = NoRule]
          /\ uploaded' = uploaded
      BY <2>5 DEF UpsertOverride
    <3> HIDE DEF r, override
    <3>3. \A q \in Clients : patches'[q] # NoRule /\ ~patches'[q].overlapped => rulesTable'[patches'[q].id] = NoRule
      BY <3>1, <3>2, OverlappedMarks, UnmarkedFindsNone DEF RulesTyped
    <3>4. \A q \in Rules : uploaded'[q] # NoRule => rulesTable'[q] # NoRule
      BY <3>1, <3>2 DEF RulesTyped, PatchesHold
    <3>5. QED
      BY <3>3, <3>4 DEF PatchesHold
  <2>6. CASE UNCHANGED <<rulesTable, patches, uploaded>>
    BY <2>6 DEF PatchesHold
  <2>7. QED
    BY <2>1, <2>2, <2>3, <2>4, <2>5, <2>6 DEF RulesNext, ruleVars, LoadRules, RunProbe, Ingest
<1>3. QED
  BY <1>1, <1>2, RulesTypedInvariant, PTL DEF RulesSpec

\* Enabling or disabling a rule leaves the definition a user uploaded: it is put back to
\* the shipped one only by a patch that found no rule of the user's and that the upload
\* overtook (patchRule: SetRuleEnabled, then the active rule, then UpsertOverride).
THEOREM UploadsSurvivePatches == RulesSpec => OnlyOvertakenPatchesRevert
<1> USE RulesAssumption
<1> DEFINE Reverted(r) == /\ uploaded[r] # NoRule /\ uploaded'[r] = uploaded[r]
                          /\ rulesTable[r].def = uploaded[r] /\ rulesTable'[r].def # uploaded[r]
           Overtaken(r) == \E c \in Clients : /\ patches[c] # NoRule /\ patches'[c] = NoRule
                                              /\ patches[c].id = r /\ patches[c].overlapped
<1>1. RulesTyped /\ PatchesHold /\ [RulesNext]_ruleVars => \A r \in Rules : Reverted(r) => Overtaken(r)
  <2> SUFFICES ASSUME RulesTyped, PatchesHold, [RulesNext]_ruleVars, NEW r \in Rules, Reverted(r)
               PROVE  Overtaken(r)
    OBVIOUS
  <2>1. ASSUME NEW q \in Rules, NEW d \in Uploads, NEW enabled \in BOOLEAN, createRule(q, d, enabled)
        PROVE  FALSE
    BY <2>1 DEF createRule, RulesTyped
  <2>2. ASSUME NEW q \in Rules, deleteRule(q) PROVE FALSE
    BY <2>2 DEF deleteRule, RulesTyped
  <2>3. ASSUME NEW c \in Clients, NEW q \in Rules, NEW enabled \in BOOLEAN, SetRuleEnabled(c, q, enabled)
        PROVE  FALSE
    <3>1. rulesTable[q] # NoRule /\ q = r
      BY <2>3 DEF SetRuleEnabled, RulesTyped
    <3>2. rulesTable[r] \in RuleRow
      BY <3>1 DEF RulesTyped, RuleOrNone
    <3>3. rulesTable'[r] = [rulesTable[r] EXCEPT !.enabled = enabled]
      BY <2>3, <3>1 DEF SetRuleEnabled, RulesTyped
    <3>4. QED
      BY <3>2, <3>3 DEF RuleRow
  <2>4. ASSUME NEW c \in Clients, UpsertOverride(c) PROVE Overtaken(r)
    <3>1. patches[c] # NoRule /\ patches'[c] = NoRule
      BY <2>4, OverlappedMarks DEF UpsertOverride, RulesTyped, PatchRow
    <3>2. patches[c].id = r
      BY <2>4 DEF UpsertOverride, RulesTyped
    <3>3. rulesTable[r] # NoRule
      BY DEF PatchesHold
    <3>4. patches[c].overlapped
      BY <3>1, <3>2, <3>3 DEF PatchesHold
    <3>5. QED
      BY <3>1, <3>2, <3>4
  <2>5. CASE UNCHANGED rulesTable
    BY <2>5
  <2>6. QED
    BY <2>1, <2>2, <2>3, <2>4, <2>5 DEF RulesNext, ruleVars, activeRule, LoadRules, RunProbe, Ingest
<1>2. QED
  BY <1>1, RulesTypedInvariant, PatchesHoldInvariant, PTL DEF RulesSpec, OnlyOvertakenPatchesRevert
-------------------------------------------------------------------------------
(* SensorDeployment                                                          *)

HostTyped ==
  /\ host \in HostRows
  /\ created \in 0 .. MaxTokens
  /\ tokens \subseteq 1 .. created
  /\ staged \in 0 .. created \cup {NoToken}
  /\ env \in 0 .. created \cup {NoToken}
  /\ agent \in 0 .. created \cup {NoToken}
  /\ unit \in {"on", "off", "none"}

HandlersTyped ==
  /\ handlers \in [Handlers -> Held \cup {NoToken}]
  /\ scripts \in [Handlers -> Script \cup {NoToken}]
  /\ \A h \in Handlers : handlers[h] # NoToken => handlers[h].token \in 1 .. created \cup {NoToken}
  /\ \A h \in Handlers : scripts[h] # NoToken => scripts[h].token \in 0 .. created \cup {NoToken}

\* What the stage of a sound operation, its credential k and its script sc say of the
\* credentials ts, the agent ag, the staged file st, sensor.env en and the unit un.
StageHolds(op, stage, k, sc, ts, ag, st, en, un) ==
  /\ op # "disable" /\ stage # "scripted" => sc = NoToken
  /\ op = "enable" =>
       /\ stage # "stopped"
       /\ stage \in {"credential", "scripted", "deployed", "revoked"} => k \in ts
       /\ stage \in {"credential", "failed"} => ag # k /\ en # k
       /\ stage = "scripted" =>
            /\ sc # NoToken /\ sc.at # "stop"
            /\ sc.at = "read" => st = k
            /\ sc.at # "read" => sc.token = k
            /\ sc.at # "restart" => ag # k /\ en # k
            /\ sc.at = "restart" => en = k
       /\ stage \in {"deployed", "revoked"} => ag = k /\ (un = "on" => en = k)
       /\ stage = "revoked" => ts = {k}
  /\ op = "disable" /\ stage = "revoked" => ts = {}

SoundHolds(h) ==
  StageHolds(handlers[h].op, handlers[h].stage, handlers[h].token, scripts[h],
             tokens, agent, staged, env, unit)

\* A sound operation is the only one, also on the host, and its stage holds.
Undisturbed ==
  \A h \in Handlers : handlers[h] # NoToken /\ handlers[h].sound =>
    (\A g \in Handlers \ {h} : Idle(g)) /\ SoundHolds(h)

DeploymentInv == HostTyped /\ HandlersTyped /\ Undisturbed

\* The others' rows keep their shape, and none of them is sound any more.
LEMMA DisturbedTyped ==
  ASSUME HandlersTyped
  PROVE  /\ Disturbed(handlers) \in [Handlers -> Held \cup {NoToken}]
         /\ \A g \in Handlers : Disturbed(handlers)[g] # NoToken =>
              /\ handlers[g] # NoToken /\ ~Disturbed(handlers)[g].sound
              /\ Disturbed(handlers)[g].token = handlers[g].token
<1> SUFFICES ASSUME NEW g \in Handlers
             PROVE  /\ Disturbed(handlers)[g] \in Held \cup {NoToken}
                    /\ Disturbed(handlers)[g] # NoToken =>
                         /\ handlers[g] # NoToken /\ ~Disturbed(handlers)[g].sound
                         /\ Disturbed(handlers)[g].token = handlers[g].token
  BY DEF Disturbed
<1>1. CASE handlers[g] = NoToken
  BY <1>1 DEF Disturbed
<1>2. CASE handlers[g] # NoToken
  <2>1. handlers[g] \in Held /\ Disturbed(handlers)[g] = [handlers[g] EXCEPT !.sound = FALSE]
    BY <1>2 DEF HandlersTyped, Disturbed
  <2>2. QED
    BY <1>2, <2>1 DEF Held
<1>3. QED
  BY <1>1, <1>2

\* Credentials that were created stay so.
LEMMA CreatedGrow ==
  ASSUME NEW a \in Nat, NEW b \in {a, a + 1}
  PROVE  0 .. a \subseteq 0 .. b /\ 1 .. a \subseteq 1 .. b /\ 1 .. a \subseteq 0 .. a
OBVIOUS

\* A step that disturbs the handlers leaves no stage to keep.
LEMMA DisturbingStep ==
  ASSUME DeploymentInv, HostTyped', created' \in {created, created + 1},
         handlers' = Disturbed(handlers), scripts' = scripts
  PROVE  DeploymentInv'
<1>1. 0 .. created \subseteq 0 .. created' /\ 1 .. created \subseteq 1 .. created'
  <2>1. created \in Nat
    BY DeploymentAssumption DEF DeploymentInv, HostTyped
  <2>2. QED
    BY <2>1, CreatedGrow
<1>2. HandlersTyped'
  BY <1>1, DisturbedTyped DEF DeploymentInv, HandlersTyped
<1>3. QED
  BY <1>2, DisturbedTyped DEF DeploymentInv, Undisturbed

\* While an operation is sound nobody else is there: a step of a handler or of its script
\* has only its own stage to keep.
LEMMA HandlerStep ==
  ASSUME DeploymentInv, HostTyped', created' \in {created, created + 1},
         NEW h \in Handlers, ~Idle(h),
         NEW n \in Held \cup {NoToken}, NEW sc \in Script \cup {NoToken},
         handlers' = [handlers EXCEPT ![h] = n], scripts' = [scripts EXCEPT ![h] = sc],
         n # NoToken => n.token \in 1 .. created' \cup {NoToken},
         sc # NoToken => sc.token \in 0 .. created' \cup {NoToken},
         n # NoToken /\ n.sound =>
           /\ handlers[h] # NoToken /\ handlers[h].sound
           /\ StageHolds(n.op, n.stage, n.token, sc, tokens', agent', staged', env', unit')
  PROVE  DeploymentInv'
<1>1. 0 .. created \subseteq 0 .. created' /\ 1 .. created \subseteq 1 .. created'
  <2>1. created \in Nat
    BY DeploymentAssumption DEF DeploymentInv, HostTyped
  <2>2. QED
    BY <2>1, CreatedGrow
<1>2. /\ handlers'[h] = n /\ scripts'[h] = sc
      /\ \A g \in Handlers \ {h} : handlers'[g] = handlers[g] /\ scripts'[g] = scripts[g]
  BY DEF DeploymentInv, HandlersTyped
<1>3. HandlersTyped'
  <2>1. /\ handlers' \in [Handlers -> Held \cup {NoToken}]
        /\ scripts' \in [Handlers -> Script \cup {NoToken}]
    BY DEF DeploymentInv, HandlersTyped
  <2>2. ASSUME NEW g \in Handlers
        PROVE  /\ handlers'[g] # NoToken => handlers'[g].token \in 1 .. created' \cup {NoToken}
               /\ scripts'[g] # NoToken => scripts'[g].token \in 0 .. created' \cup {NoToken}
    BY <1>1, <1>2 DEF DeploymentInv, HandlersTyped
  <2>3. QED
    BY <2>1, <2>2 DEF HandlersTyped
<1>4. ASSUME NEW g \in Handlers, handlers'[g] # NoToken, handlers'[g].sound
      PROVE  (\A q \in Handlers \ {g} : Idle(q)') /\ SoundHolds(g)'
  <2>1. g = h
    BY <1>2, <1>4 DEF DeploymentInv, Undisturbed
  <2>2. \A q \in Handlers \ {h} : Idle(q)
    BY <1>2, <1>4, <2>1 DEF DeploymentInv, Undisturbed
  <2>3. QED
    BY <1>2, <1>4, <2>1, <2>2 DEF Idle, SoundHolds
<1>5. QED
  BY <1>3, <1>4 DEF DeploymentInv, Undisturbed

LEMMA FinishStep ==
  ASSUME DeploymentInv, HostTyped', UNCHANGED <<created, scripts>>,
         NEW h \in Handlers, handlers[h] # NoToken, Finished(h)
  PROVE  DeploymentInv'
<1>1. /\ scripts[h] \in Script \cup {NoToken} /\ scripts' = [scripts EXCEPT ![h] = scripts[h]]
      /\ scripts[h] # NoToken => scripts[h].token \in 0 .. created' \cup {NoToken}
  BY DEF DeploymentInv, HandlersTyped
<1>2. QED
  BY <1>1, HandlerStep DEF Finished, Idle

LEMMA StageStep ==
  ASSUME DeploymentInv, HostTyped', UNCHANGED created,
         NEW h \in Handlers, handlers[h] # NoToken, NEW stage \in Stages, ToStage(h, stage),
         NEW sc \in Script \cup {NoToken}, scripts' = [scripts EXCEPT ![h] = sc],
         sc # NoToken => sc.token \in 0 .. created \cup {NoToken},
         handlers[h].sound =>
           StageHolds(handlers[h].op, stage, handlers[h].token, sc, tokens', agent', staged', env', unit')
  PROVE  DeploymentInv'
<1> DEFINE n == [handlers[h] EXCEPT !.stage = stage]
<1>1. handlers[h] \in Held /\ handlers' = [handlers EXCEPT ![h] = n]
  BY DEF DeploymentInv, HandlersTyped, ToStage
<1>2. /\ n \in Held /\ n.op = handlers[h].op /\ n.stage = stage /\ n.token = handlers[h].token
      /\ n.sound = handlers[h].sound
  BY <1>1 DEF Held
<1>3. handlers[h].token \in 1 .. created' \cup {NoToken}
  BY DEF DeploymentInv, HandlersTyped
<1> HIDE DEF n
<1>4. QED
  BY <1>1, <1>2, <1>3, HandlerStep DEF Idle

LEMMA StageOnlyStep ==
  ASSUME DeploymentInv, HostTyped', UNCHANGED <<created, scripts>>,
         NEW h \in Handlers, handlers[h] # NoToken, NEW stage \in Stages, ToStage(h, stage),
         handlers[h].sound =>
           StageHolds(handlers[h].op, stage, handlers[h].token, scripts[h],
                      tokens', agent', staged', env', unit')
  PROVE  DeploymentInv'
<1>1. /\ scripts[h] \in Script \cup {NoToken} /\ scripts' = [scripts EXCEPT ![h] = scripts[h]]
      /\ scripts[h] # NoToken => scripts[h].token \in 0 .. created \cup {NoToken}
  BY DEF DeploymentInv, HandlersTyped
<1>2. QED
  BY <1>1, StageStep

\* A script ends: a handler that waits goes on to the stage; a sound one that does not
\* wait disables the sensor, and its stage says nothing of scripts.
LEMMA EndsStep ==
  ASSUME DeploymentInv, HostTyped', UNCHANGED <<tokens, created>>,
         NEW h \in Handlers, scripts[h] # NoToken, NEW stage \in Stages, NEW sound \in BOOLEAN,
         Ends(h, stage, sound),
         Waiting(h) /\ handlers[h].sound /\ sound =>
           StageHolds(handlers[h].op, stage, handlers[h].token, NoToken, tokens', agent', staged', env', unit')
  PROVE  DeploymentInv'
<1>1. scripts' = [scripts EXCEPT ![h] = NoToken]
  BY DEF Ends, ToScript
<1>2. CASE Waiting(h)
  <2> DEFINE b == handlers[h].sound /\ sound
             n == [handlers[h] EXCEPT !.stage = stage, !.sound = b]
  <2>1. handlers[h] \in Held /\ handlers[h] # NoToken /\ b \in BOOLEAN
    BY <1>2 DEF DeploymentInv, HandlersTyped, Waiting
  <2>2. handlers' = [handlers EXCEPT ![h] = n]
    BY <1>2 DEF Ends
  <2> HIDE DEF b
  <2>3. /\ n \in Held /\ n.op = handlers[h].op /\ n.stage = stage /\ n.token = handlers[h].token
        /\ n.sound = b
    BY <2>1 DEF Held
  <2>4. handlers[h].token \in 1 .. created' \cup {NoToken}
    BY <2>1 DEF DeploymentInv, HandlersTyped
  <2>5. b => handlers[h].sound /\ sound
    BY DEF b
  <2> HIDE DEF n
  <2>6. QED
    BY <1>1, <1>2, <2>1, <2>2, <2>3, <2>4, <2>5, HandlerStep DEF Idle
<1>3. CASE ~Waiting(h)
  <2>1. handlers' = handlers /\ handlers' = [handlers EXCEPT ![h] = handlers[h]]
    BY <1>3 DEF Ends, DeploymentInv, HandlersTyped
  <2>2. /\ handlers[h] \in Held \cup {NoToken}
        /\ handlers[h] # NoToken => handlers[h].token \in 1 .. created' \cup {NoToken}
    BY DEF DeploymentInv, HandlersTyped
  <2>3. handlers[h] # NoToken /\ handlers[h].sound =>
          StageHolds(handlers[h].op, handlers[h].stage, handlers[h].token, NoToken,
                     tokens', agent', staged', env', unit')
    BY <1>3 DEF DeploymentInv, Undisturbed, SoundHolds, StageHolds, Waiting
  <2>4. QED
    BY <1>1, <2>1, <2>2, <2>3, HandlerStep DEF Idle
<1>4. QED
  BY <1>2, <1>3

\* A script goes on.
LEMMA GoesOnStep ==
  ASSUME DeploymentInv, HostTyped', UNCHANGED <<created, handlers>>,
         NEW h \in Handlers, scripts[h] # NoToken,
         NEW sc \in Script, sc.token \in 0 .. created \cup {NoToken}, scripts' = [scripts EXCEPT ![h] = sc],
         handlers[h] # NoToken /\ handlers[h].sound =>
           StageHolds(handlers[h].op, handlers[h].stage, handlers[h].token, sc,
                      tokens', agent', staged', env', unit')
  PROVE  DeploymentInv'
<1>1. /\ handlers[h] \in Held \cup {NoToken} /\ handlers' = [handlers EXCEPT ![h] = handlers[h]]
      /\ handlers[h] # NoToken => handlers[h].token \in 1 .. created' \cup {NoToken}
  BY DEF DeploymentInv, HandlersTyped
<1>2. QED
  BY <1>1, HandlerStep DEF Idle

\* Dialing keeps the row's shape.
LEMMA DialTyped ==
  ASSUME host \in HostRows, NEW h \in Handlers, dial(h) \/ UNCHANGED host
  PROVE  host' \in HostRows
<1>1. (host.pinned \/ ~handlers[h].pinned) \in BOOLEAN
  OBVIOUS
<1>2. QED
  BY <1>1 DEF dial, HostRows

LEMMA DeploymentInvariant == DeploymentSpec => []DeploymentInv
<1> USE DeploymentAssumption
<1>1. DeploymentInit => DeploymentInv
  <2> SUFFICES ASSUME DeploymentInit PROVE DeploymentInv
    OBVIOUS
  <2>1. HostTyped
    BY DEF DeploymentInit, HostTyped, HostRows, Modes
  <2>2. HandlersTyped /\ Undisturbed
    BY DEF DeploymentInit, HandlersTyped, Undisturbed
  <2>3. QED
    BY <2>1, <2>2 DEF DeploymentInv
<1>2. DeploymentInv /\ [DeploymentNext]_deploymentVars => DeploymentInv'
  <2> SUFFICES ASSUME DeploymentInv, [DeploymentNext]_deploymentVars PROVE DeploymentInv'
    OBVIOUS
  <2>0. HostTyped /\ HandlersTyped /\ created \in Nat /\ 1 .. created \subseteq 0 .. created
    <3>1. HostTyped /\ HandlersTyped
      BY DEF DeploymentInv
    <3>2. created \in Nat
      BY <3>1 DEF HostTyped
    <3>3. QED
      BY <3>1, <3>2, CreatedGrow
  <2>1. ASSUME NEW h \in Handlers, NEW op \in {"enable", "disable", "edit"}, Begin(h, op)
        PROVE  DeploymentInv'
    <3> DEFINE n == Begun(op)
    <3>1. /\ n \in Held /\ n # NoToken /\ n.stage = "begun" /\ n.token = NoToken
          /\ n.sound => \A g \in Handlers : Idle(g)
      <4> DEFINE alone == \A g \in Handlers : Idle(g)
      <4>1. n = [op |-> op, stage |-> "begun", pinned |-> host.pinned, token |-> NoToken, sound |-> alone]
        BY DEF Begun
      <4>2. alone \in BOOLEAN /\ host.pinned \in BOOLEAN
        BY <2>0 DEF HostTyped, HostRows
      <4>3. n.sound = alone /\ n.stage = "begun" /\ n.token = NoToken
        BY <4>1
      <4>4. n.sound => \A g \in Handlers : Idle(g)
        BY <4>3
      <4> HIDE DEF alone, n
      <4>5. n \in Held
        BY <4>1, <4>2 DEF Held, Stages
      <4>6. QED
        BY <4>3, <4>4, <4>5
    <3>2. handlers' = [Disturbed(handlers) EXCEPT ![h] = n] /\ Idle(h)
      BY <2>1 DEF Begin
    <3>3. UNCHANGED <<host, tokens, created, onHost, scripts>>
      BY <2>1 DEF Begin
    <3> HIDE DEF n
    <3>4. HostTyped' /\ HandlersTyped'
      BY <2>0, <3>1, <3>2, <3>3, DisturbedTyped DEF HostTyped, HandlersTyped, onHost
    <3>5. ASSUME NEW g \in Handlers, handlers'[g] # NoToken, handlers'[g].sound
          PROVE  (\A q \in Handlers \ {g} : Idle(q)') /\ SoundHolds(g)'
      <4>1. g = h /\ handlers'[g] = n
        BY <2>0, <3>2, <3>5, DisturbedTyped
      <4>2. \A q \in Handlers : Idle(q)
        BY <3>1, <3>5, <4>1
      <4>3. \A q \in Handlers \ {h} : Idle(q)'
        BY <3>2, <3>3, <4>2 DEF Disturbed, Idle
      <4>4. SoundHolds(h)'
        BY <3>1, <3>2, <3>3, <4>1 DEF SoundHolds, StageHolds, Idle
      <4>5. QED
        BY <4>1, <4>3, <4>4
    <3>6. QED
      BY <3>4, <3>5 DEF DeploymentInv, Undisturbed
  <2>2. ASSUME NEW h \in Handlers, CreateSensorToken(h) PROVE DeploymentInv'
    <3> DEFINE n == [handlers[h] EXCEPT !.stage = "credential", !.token = created + 1]
    <3>1. handlers[h] \in Held /\ handlers[h] # NoToken /\ handlers[h].op = "enable" /\ handlers[h].stage = "begun"
      BY <2>0, <2>2 DEF HandlersTyped, CreateSensorToken, Running
    <3>2. /\ handlers' = [handlers EXCEPT ![h] = n] /\ created' = created + 1
          /\ tokens' = tokens \cup {created'} /\ UNCHANGED <<host, onHost, scripts>>
      BY <2>2 DEF CreateSensorToken
    <3>3. /\ created' \in 1 .. MaxTokens /\ created' \in 1 .. created'
          /\ 1 .. created \subseteq 1 .. created' /\ 0 .. created \subseteq 0 .. created'
      <4>1. created < MaxTokens /\ created' = created + 1
        BY <2>2 DEF CreateSensorToken
      <4>2. QED
        BY <2>0, <4>1, CreatedGrow
    <3>4. HostTyped'
      <4>1. tokens' \subseteq 1 .. created'
        BY <2>0, <3>2, <3>3 DEF HostTyped
      <4>2. QED
        BY <2>0, <3>2, <3>3, <4>1 DEF HostTyped, onHost
    <3>5. /\ n \in Held /\ n.op = "enable" /\ n.stage = "credential" /\ n.token = created'
          /\ n.sound = handlers[h].sound
      BY <3>1, <3>2, <3>3 DEF Held, Stages
    <3> HIDE DEF n
    <3>6. /\ scripts[h] \in Script \cup {NoToken} /\ scripts' = [scripts EXCEPT ![h] = scripts[h]]
          /\ scripts[h] # NoToken => scripts[h].token \in 0 .. created' \cup {NoToken}
      BY <2>0, <3>2, <3>3 DEF HandlersTyped
    <3>7. agent # created' /\ env # created'
      <4>1. NoToken # created'
        BY <2>0, <3>3
      <4>2. QED
        BY <2>0, <3>2, <4>1 DEF HostTyped
    <3>8. handlers[h].sound => scripts[h] = NoToken
      BY <3>1 DEF DeploymentInv, Undisturbed, SoundHolds, StageHolds
    <3>9. handlers[h].sound =>
            StageHolds(n.op, n.stage, n.token, scripts[h], tokens', agent', staged', env', unit')
      BY <3>2, <3>5, <3>7, <3>8 DEF StageHolds, onHost
    <3>10. ~Idle(h) /\ created' \in {created, created + 1} /\ n.token \in 1 .. created'
      BY <3>1, <3>2, <3>3, <3>5 DEF Idle
    <3>11. /\ n # NoToken => n.token \in 1 .. created' \cup {NoToken}
           /\ n # NoToken /\ n.sound =>
                /\ handlers[h] # NoToken /\ handlers[h].sound
                /\ StageHolds(n.op, n.stage, n.token, scripts[h], tokens', agent', staged', env', unit')
      BY <3>1, <3>5, <3>9, <3>10
    <3>12. n \in Held \cup {NoToken} /\ handlers' = [handlers EXCEPT ![h] = n]
      BY <3>2, <3>5
    <3>13. QED
      BY <3>4, <3>6, <3>10, <3>11, <3>12, HandlerStep
  <2>3. ASSUME NEW h \in Handlers, DeploySensor(h) PROVE DeploymentInv'
    <3> DEFINE sc == [at |-> "read", token |-> NoToken]
    <3>1. /\ handlers[h] \in Held /\ handlers[h] # NoToken /\ handlers[h].op = "enable"
          /\ handlers[h].stage = "credential" /\ handlers[h].token \in 1 .. created \cup {NoToken}
      BY <2>0, <2>3 DEF HandlersTyped, DeploySensor, Running
    <3>2. /\ dial(h) /\ staged' = handlers[h].token /\ ToStage(h, "scripted")
          /\ scripts' = [scripts EXCEPT ![h] = sc] /\ UNCHANGED <<tokens, created, env, unit, agent>>
      BY <2>3 DEF DeploySensor, ToScript
    <3>3. HostTyped'
      BY <2>0, <3>1, <3>2, DialTyped DEF HostTyped
    <3>4. sc \in Script /\ sc # NoToken /\ sc.at = "read" /\ sc.token = NoToken
      BY DEF Script, Files
    <3> HIDE DEF sc
    <3>5. handlers[h].sound =>
            StageHolds("enable", "scripted", handlers[h].token, sc, tokens', agent', staged', env', unit')
      BY <3>1, <3>2, <3>4 DEF DeploymentInv, Undisturbed, SoundHolds, StageHolds
    <3>6. QED
      BY <3>1, <3>2, <3>3, <3>4, <3>5, StageStep DEF Stages
  <2>4. ASSUME NEW h \in Handlers, DeployFails(h) PROVE DeploymentInv'
    <3>1. /\ handlers[h] \in Held /\ handlers[h] # NoToken /\ handlers[h].op = "enable"
          /\ handlers[h].stage = "credential" /\ handlers[h].token \in 1 .. created \cup {NoToken}
      BY <2>0, <2>4 DEF HandlersTyped, DeployFails, Running
    <3>2. /\ dial(h) \/ UNCHANGED host
          /\ staged' \in {staged, handlers[h].token, 0} /\ ToStage(h, "failed")
          /\ UNCHANGED <<tokens, created, env, unit, agent, scripts>>
      BY <2>4 DEF DeployFails
    <3>3. HostTyped'
      <4>1. 0 \in 0 .. created
        BY <2>0
      <4>2. staged' \in 0 .. created \cup {NoToken}
        BY <2>0, <3>1, <3>2, <4>1 DEF HostTyped
      <4>3. QED
        BY <2>0, <3>2, <4>2, DialTyped DEF HostTyped
    <3>4. handlers[h].sound =>
            StageHolds(handlers[h].op, "failed", handlers[h].token, scripts[h],
                       tokens', agent', staged', env', unit')
      BY <3>1, <3>2 DEF DeploymentInv, Undisturbed, SoundHolds, StageHolds
    <3>5. QED
      BY <3>1, <3>2, <3>3, <3>4, StageOnlyStep DEF Stages
  <2>5. ASSUME NEW h \in Handlers, RevokeOtherSensorTokens(h) PROVE DeploymentInv'
    <3>1. handlers[h] # NoToken /\ handlers[h].op = "enable" /\ handlers[h].stage = "deployed"
      BY <2>5 DEF RevokeOtherSensorTokens, Running
    <3>2. /\ tokens' = tokens \cap {handlers[h].token} /\ ToStage(h, "revoked")
          /\ UNCHANGED <<host, created, onHost, scripts>>
      BY <2>5 DEF RevokeOtherSensorTokens
    <3>3. HostTyped'
      BY <2>0, <3>2 DEF HostTyped, onHost
    <3>4. handlers[h].sound =>
            StageHolds(handlers[h].op, "revoked", handlers[h].token, scripts[h],
                       tokens', agent', staged', env', unit')
      BY <3>1, <3>2 DEF DeploymentInv, Undisturbed, SoundHolds, StageHolds, onHost
    <3>5. QED
      BY <3>1, <3>2, <3>3, <3>4, StageOnlyStep DEF Stages
  <2>6. ASSUME NEW h \in Handlers,
               RevokeSensorToken(h) \/ EnableSensor(h) \/ StoreFails(h) \/ DisableSensor(h)
                 \/ patchHost(h) \/ uiEditHost(h)
        PROVE  DeploymentInv'
    <3>1. handlers[h] # NoToken /\ Finished(h) /\ UNCHANGED <<created, onHost, scripts>>
      BY <2>6 DEF RevokeSensorToken, EnableSensor, StoreFails, DisableSensor, patchHost, uiEditHost,
         Running, UpdateHost
    <3>2. tokens' \subseteq tokens
      BY <2>6 DEF RevokeSensorToken, EnableSensor, StoreFails, DisableSensor, patchHost, uiEditHost
    <3>3. host' \in HostRows
      <4>1. handlers[h].pinned \in BOOLEAN /\ host \in HostRows
        BY <2>0, <3>1 DEF HostTyped, HandlersTyped, Held
      <4>2. CASE RevokeSensorToken(h) \/ StoreFails(h)
        BY <4>1, <4>2 DEF RevokeSensorToken, StoreFails
      <4>3. CASE EnableSensor(h) \/ DisableSensor(h) \/ patchHost(h)
        BY <4>1, <4>3 DEF EnableSensor, DisableSensor, patchHost, UpdateHost, HostRows, Modes
      <4>4. CASE uiEditHost(h)
        <5>1. PICK mode \in Modes, secret \in BOOLEAN : UpdateHost(h, mode, handlers[h].pinned /\ ~secret)
          BY <4>4 DEF uiEditHost
        <5>2. (handlers[h].pinned /\ ~secret) \in BOOLEAN
          OBVIOUS
        <5>3. QED
          BY <5>1, <5>2 DEF UpdateHost, HostRows
      <4>5. QED
        BY <2>6, <4>2, <4>3, <4>4
    <3>4. HostTyped'
      BY <2>0, <3>1, <3>2, <3>3 DEF HostTyped, onHost
    <3>5. QED
      BY <3>1, <3>4, FinishStep
  <2>7. ASSUME NEW h \in Handlers, ReadToken(h) PROVE DeploymentInv'
    <3>1. scripts[h] # NoToken /\ scripts[h].at = "read" /\ UNCHANGED <<host, tokens, created, onHost>>
      BY <2>7 DEF ReadToken, ScriptAt
    <3>2. HostTyped'
      BY <2>0, <3>1 DEF HostTyped, onHost
    <3>3. handlers[h] # NoToken /\ handlers[h].sound => SoundHolds(h)
      BY DEF DeploymentInv, Undisturbed
    <3>4. CASE Ends(h, "failed", TRUE)
      <4>1. Waiting(h) /\ handlers[h].sound =>
              StageHolds(handlers[h].op, "failed", handlers[h].token, NoToken, tokens', agent', staged', env', unit')
        BY <3>1, <3>3 DEF Waiting, SoundHolds, StageHolds, onHost
      <4>2. QED
        BY <3>1, <3>2, <3>4, <4>1, EndsStep DEF Stages
    <3>5. CASE GoesOn(h, "remove", staged)
      <4> DEFINE sc == [at |-> "remove", token |-> staged]
      <4>1. scripts' = [scripts EXCEPT ![h] = sc] /\ UNCHANGED handlers
        BY <3>5 DEF GoesOn, ToScript
      <4>2. sc \in Script /\ sc.at = "remove" /\ sc.token = staged /\ sc.token \in 0 .. created \cup {NoToken}
        <5>1. staged \in 0 .. created \cup {NoToken} /\ staged \in Files
          BY <2>0 DEF HostTyped, Files
        <5>2. QED
          BY <5>1 DEF Script
      <4> HIDE DEF sc
      <4>3. sc # NoToken
        BY <4>2
      <4>4. handlers[h] # NoToken /\ handlers[h].sound =>
              StageHolds(handlers[h].op, handlers[h].stage, handlers[h].token, sc, tokens', agent', staged', env', unit')
        BY <3>1, <3>3, <4>2, <4>3 DEF SoundHolds, StageHolds, onHost
      <4>5. QED
        BY <3>1, <3>2, <4>1, <4>2, <4>4, GoesOnStep
    <3>6. QED
      BY <2>7, <3>4, <3>5 DEF ReadToken
  <2>8. ASSUME NEW h \in Handlers, Prepare(h) PROVE DeploymentInv'
    <3>1. /\ scripts[h] # NoToken /\ scripts[h].at = "remove" /\ staged' \in {staged, NoToken}
          /\ UNCHANGED <<host, tokens, created, env, unit, agent>>
      BY <2>8 DEF Prepare, ScriptAt
    <3>2. HostTyped' /\ scripts[h] \in Script /\ scripts[h].token \in 0 .. created \cup {NoToken}
      BY <2>0, <3>1 DEF HostTyped, HandlersTyped
    <3>3. handlers[h] # NoToken /\ handlers[h].sound => SoundHolds(h)
      BY DEF DeploymentInv, Undisturbed
    <3>4. CASE Ends(h, "failed", TRUE)
      <4>1. Waiting(h) /\ handlers[h].sound =>
              StageHolds(handlers[h].op, "failed", handlers[h].token, NoToken, tokens', agent', staged', env', unit')
        BY <3>1, <3>3 DEF Waiting, SoundHolds, StageHolds
      <4>2. QED
        BY <3>1, <3>2, <3>4, <4>1, EndsStep DEF Stages
    <3>5. CASE GoesOn(h, "write", scripts[h].token)
      <4> DEFINE sc == [at |-> "write", token |-> scripts[h].token]
      <4>1. scripts' = [scripts EXCEPT ![h] = sc] /\ UNCHANGED handlers
        BY <3>5 DEF GoesOn, ToScript
      <4>2. sc \in Script /\ sc.at = "write" /\ sc.token = scripts[h].token
        BY <3>2 DEF Script
      <4> HIDE DEF sc
      <4>3. sc # NoToken
        BY <4>2
      <4>4. handlers[h] # NoToken /\ handlers[h].sound =>
              StageHolds(handlers[h].op, handlers[h].stage, handlers[h].token, sc, tokens', agent', staged', env', unit')
        BY <3>1, <3>3, <4>2, <4>3 DEF SoundHolds, StageHolds
      <4>5. QED
        BY <3>1, <3>2, <4>1, <4>2, <4>4, GoesOnStep
    <3>6. QED
      BY <2>8, <3>4, <3>5 DEF Prepare
  <2>9. ASSUME NEW h \in Handlers, WriteEnv(h) PROVE DeploymentInv'
    <3> DEFINE sc == [scripts[h] EXCEPT !.at = "restart"]
    <3>1. /\ scripts[h] # NoToken /\ scripts[h].at = "write" /\ env' \in {scripts[h].token, env, 0}
          /\ scripts' = [scripts EXCEPT ![h] = sc] /\ UNCHANGED <<host, tokens, created, staged, unit, agent>>
      BY <2>9 DEF WriteEnv, ScriptAt, ToScript
    <3>2. scripts[h] \in Script /\ scripts[h].token \in 0 .. created \cup {NoToken}
      BY <2>0, <3>1 DEF HandlersTyped
    <3>3. sc \in Script /\ sc.at = "restart" /\ sc.token = scripts[h].token
      BY <3>2 DEF Script
    <3> HIDE DEF sc
    <3>4. env' \in 0 .. created \cup {NoToken}
      <4>1. 0 \in 0 .. created
        BY <2>0
      <4>2. QED
        BY <2>0, <3>1, <3>2, <4>1 DEF HostTyped
    <3>5. HostTyped' /\ sc # NoToken
      BY <2>0, <3>1, <3>3, <3>4 DEF HostTyped
    <3>6. handlers[h] # NoToken /\ handlers[h].sound => SoundHolds(h)
      BY DEF DeploymentInv, Undisturbed
    <3>7. CASE Waiting(h)
      <4> DEFINE b == handlers[h].sound /\ env' = scripts[h].token
                 n == [handlers[h] EXCEPT !.sound = b]
      <4>1. handlers[h] \in Held /\ handlers[h] # NoToken /\ b \in BOOLEAN /\ handlers[h].stage = "scripted"
        BY <2>0, <3>7 DEF HandlersTyped, Waiting
      <4>2. handlers' = [handlers EXCEPT ![h] = n]
        BY <2>9, <3>7 DEF WriteEnv
      <4>3. b => handlers[h].sound /\ env' = scripts[h].token
        OBVIOUS
      <4> HIDE DEF b
      <4>4. /\ n \in Held /\ n.op = handlers[h].op /\ n.stage = "scripted" /\ n.token = handlers[h].token
            /\ n.sound = b /\ n.token \in 1 .. created' \cup {NoToken}
        BY <2>0, <3>1, <4>1 DEF Held, HandlersTyped
      <4> HIDE DEF n
      <4>5. b => StageHolds(n.op, n.stage, n.token, sc, tokens', agent', staged', env', unit')
        BY <3>1, <3>3, <3>5, <3>6, <4>1, <4>3, <4>4 DEF SoundHolds, StageHolds
      <4>6. QED
        BY <3>1, <3>2, <3>3, <3>5, <4>1, <4>2, <4>3, <4>4, <4>5, HandlerStep DEF Idle
    <3>8. CASE ~Waiting(h)
      <4>1. UNCHANGED handlers
        BY <2>9, <3>8 DEF WriteEnv
      <4>2. handlers[h] # NoToken /\ handlers[h].sound =>
              StageHolds(handlers[h].op, handlers[h].stage, handlers[h].token, sc, tokens', agent', staged', env', unit')
        BY <3>1, <3>6, <3>8 DEF SoundHolds, StageHolds, Waiting
      <4>3. QED
        BY <3>1, <3>2, <3>3, <3>5, <4>1, <4>2, GoesOnStep
    <3>9. QED
      BY <3>7, <3>8
  <2>10. ASSUME NEW h \in Handlers, RestartAgent(h) PROVE DeploymentInv'
    <3> DEFINE k == scripts[h].token
               b == agent' = k /\ unit' # "off"
    <3>1. /\ scripts[h] # NoToken /\ scripts[h].at = "restart" /\ UNCHANGED <<host, tokens, created, staged, env>>
          /\ Ends(h, "deployed", b) /\ unit' \in {unit, "on"} /\ agent' \in {agent, NoToken, env, k}
      BY <2>10 DEF RestartAgent, ScriptAt
    <3>2. b \in BOOLEAN /\ (b => agent' = scripts[h].token)
      OBVIOUS
    <3> HIDE DEF b
    <3>3. k \in 0 .. created \cup {NoToken}
      BY <2>0, <3>1 DEF HandlersTyped
    <3>4. HostTyped'
      BY <2>0, <3>1, <3>3 DEF HostTyped
    <3>5. Waiting(h) /\ handlers[h].sound /\ b =>
            StageHolds(handlers[h].op, "deployed", handlers[h].token, NoToken, tokens', agent', staged', env', unit')
      BY <3>1, <3>2 DEF DeploymentInv, Undisturbed, Waiting, SoundHolds, StageHolds
    <3>6. QED
      BY <3>1, <3>2, <3>4, <3>5, EndsStep DEF Stages
  <2>11. ASSUME NEW h \in Handlers, Teardown(h) PROVE DeploymentInv'
    <3>1. /\ scripts[h] # NoToken /\ scripts[h].at = "stop" /\ UNCHANGED <<host, tokens, created, staged, env>>
          /\ Ends(h, "stopped", TRUE) /\ unit' \in {unit, "off"} /\ agent' \in {agent, NoToken}
      BY <2>11 DEF Teardown, ScriptAt
    <3>2. HostTyped'
      BY <2>0, <3>1 DEF HostTyped
    <3>3. Waiting(h) /\ handlers[h].sound =>
            StageHolds(handlers[h].op, "stopped", handlers[h].token, NoToken, tokens', agent', staged', env', unit')
      BY <3>1 DEF DeploymentInv, Undisturbed, Waiting, SoundHolds, StageHolds
    <3>4. QED
      BY <3>1, <3>2, <3>3, EndsStep DEF Stages
  <2>12. ASSUME NEW h \in Handlers, ScriptDies(h) PROVE DeploymentInv'
    <3> DEFINE b == handlers[h].op = "disable"
    <3>1. scripts[h] # NoToken /\ UNCHANGED <<host, tokens, created, onHost>> /\ Ends(h, AfterScript(h), b)
      BY <2>12 DEF ScriptDies
    <3>2. b \in BOOLEAN /\ (b => AfterScript(h) = "stopped") /\ AfterScript(h) \in Stages
      BY DEF AfterScript, Stages
    <3>3. b => handlers[h].op = "disable"
      OBVIOUS
    <3> HIDE DEF b
    <3>4. HostTyped'
      BY <2>0, <3>1 DEF HostTyped, onHost
    <3>5. Waiting(h) /\ handlers[h].sound /\ b =>
            StageHolds(handlers[h].op, AfterScript(h), handlers[h].token, NoToken, tokens', agent', staged', env', unit')
      BY <3>2, <3>3 DEF StageHolds
    <3>6. QED
      BY <3>1, <3>2, <3>4, <3>5, EndsStep
  <2>13. ASSUME NEW h \in Handlers, HandlerGivesUp(h) PROVE DeploymentInv'
    <3> DEFINE b == handlers[h].sound /\ handlers[h].op = "disable"
               n == [handlers[h] EXCEPT !.stage = AfterScript(h), !.sound = b]
    <3>1. handlers[h] \in Held /\ handlers[h] # NoToken /\ b \in BOOLEAN
      BY <2>0, <2>13 DEF HandlersTyped, HandlerGivesUp, Waiting
    <3>2. handlers' = [handlers EXCEPT ![h] = n] /\ UNCHANGED <<host, tokens, created, onHost, scripts>>
      BY <2>13 DEF HandlerGivesUp
    <3>3. b => handlers[h].sound /\ handlers[h].op = "disable"
      OBVIOUS
    <3>4. AfterScript(h) \in Stages /\ (b => AfterScript(h) = "stopped")
      BY DEF AfterScript, Stages
    <3> HIDE DEF b
    <3>5. /\ n \in Held /\ n.op = handlers[h].op /\ n.stage = AfterScript(h) /\ n.token = handlers[h].token
          /\ n.sound = b /\ n.token \in 1 .. created' \cup {NoToken}
      BY <2>0, <3>1, <3>2, <3>4 DEF Held, HandlersTyped
    <3> HIDE DEF n
    <3>6. HostTyped'
      BY <2>0, <3>2 DEF HostTyped, onHost
    <3>7. /\ scripts[h] \in Script \cup {NoToken} /\ scripts' = [scripts EXCEPT ![h] = scripts[h]]
          /\ scripts[h] # NoToken => scripts[h].token \in 0 .. created' \cup {NoToken}
      BY <2>0, <3>2 DEF HandlersTyped
    <3>8. b => StageHolds(n.op, n.stage, n.token, scripts[h], tokens', agent', staged', env', unit')
      BY <3>3, <3>4, <3>5 DEF StageHolds
    <3>9. QED
      BY <3>1, <3>2, <3>3, <3>5, <3>6, <3>7, <3>8, HandlerStep DEF Idle
  <2>14. ASSUME NEW h \in Handlers, StopSensor(h) PROVE DeploymentInv'
    <3> DEFINE sc == [at |-> "stop", token |-> NoToken]
    <3>1. /\ handlers[h] # NoToken /\ handlers[h].op = "disable" /\ UNCHANGED <<tokens, created, onHost>>
          /\ dial(h) \/ UNCHANGED host
      BY <2>14 DEF StopSensor, Running
    <3>2. HostTyped'
      BY <2>0, <3>1, DialTyped DEF HostTyped, onHost
    <3>3. sc \in Script /\ sc.token = NoToken
      BY DEF Script, Files
    <3> HIDE DEF sc
    <3>4. CASE ToStage(h, "scripted") /\ scripts' = [scripts EXCEPT ![h] = sc]
      <4>1. StageHolds("disable", "scripted", handlers[h].token, sc, tokens', agent', staged', env', unit')
        BY DEF StageHolds
      <4>2. QED
        BY <3>1, <3>2, <3>3, <3>4, <4>1, StageStep DEF Stages
    <3>5. CASE ToStage(h, "stopped") /\ UNCHANGED scripts
      <4>1. StageHolds(handlers[h].op, "stopped", handlers[h].token, scripts[h],
                       tokens', agent', staged', env', unit')
        BY <3>1 DEF StageHolds
      <4>2. QED
        BY <3>1, <3>2, <3>5, <4>1, StageOnlyStep DEF Stages
    <3>6. QED
      BY <2>14, <3>4, <3>5 DEF StopSensor, ToScript, sc
  <2>15. ASSUME NEW h \in Handlers, RevokeSensorTokens(h) PROVE DeploymentInv'
    <3>1. /\ handlers[h] # NoToken /\ handlers[h].op = "disable" /\ tokens' = {} /\ ToStage(h, "revoked")
          /\ UNCHANGED <<host, created, onHost, scripts>>
      BY <2>15 DEF RevokeSensorTokens, Running
    <3>2. HostTyped'
      BY <2>0, <3>1 DEF HostTyped, onHost
    <3>3. StageHolds(handlers[h].op, "revoked", handlers[h].token, scripts[h],
                     tokens', agent', staged', env', unit')
      BY <3>1 DEF StageHolds
    <3>4. QED
      BY <3>1, <3>2, <3>3, StageOnlyStep DEF Stages
  <2>16. CASE SetHostSSHHostKey
    <3>1. HostTyped'
      BY <2>0, <2>16 DEF SetHostSSHHostKey, HostTyped, HostRows, onHost
    <3>2. QED
      BY <2>16, <3>1 DEF SetHostSSHHostKey, DeploymentInv, HandlersTyped, Undisturbed, SoundHolds, Idle, onHost
  <2>17. CASE AgentRestarts
    <3>1. UNCHANGED <<host, tokens, created, staged, env, unit, scripts>>
      BY <2>17 DEF AgentRestarts
    <3>2. CASE agent' = env /\ UNCHANGED handlers /\ unit = "on"
      <4>1. HostTyped' /\ HandlersTyped'
        BY <2>0, <3>1, <3>2 DEF HostTyped, HandlersTyped
      <4>2. ASSUME NEW h \in Handlers, handlers[h] # NoToken, handlers[h].sound PROVE SoundHolds(h)'
        BY <3>1, <3>2, <4>2 DEF DeploymentInv, Undisturbed, SoundHolds, StageHolds
      <4>3. QED
        BY <3>1, <3>2, <4>1, <4>2 DEF DeploymentInv, Undisturbed, Idle
    <3>3. CASE agent' = NoToken /\ handlers' = Disturbed(handlers)
      <4>1. HostTyped'
        BY <2>0, <3>1, <3>3 DEF HostTyped
      <4>2. QED
        BY <3>1, <3>3, <4>1, DisturbingStep
    <3>4. QED
      BY <2>17, <3>2, <3>3 DEF AgentRestarts
  <2>18. CASE createSensorToken
    <3>1. /\ created' = created + 1 /\ tokens' = tokens \cup {created'} /\ handlers' = Disturbed(handlers)
          /\ UNCHANGED <<host, onHost, scripts>>
      BY <2>18 DEF createSensorToken
    <3>2. /\ created' \in 1 .. MaxTokens /\ created' \in 1 .. created'
          /\ 1 .. created \subseteq 1 .. created' /\ 0 .. created \subseteq 0 .. created'
      <4>1. created < MaxTokens /\ created' = created + 1
        BY <2>18 DEF createSensorToken
      <4>2. QED
        BY <2>0, <4>1, CreatedGrow
    <3>3. HostTyped'
      <4>1. tokens' \subseteq 1 .. created'
        BY <2>0, <3>1, <3>2 DEF HostTyped
      <4>2. QED
        BY <2>0, <3>1, <3>2, <4>1 DEF HostTyped, onHost
    <3>4. QED
      BY <3>1, <3>3, DisturbingStep
  <2>19. ASSUME NEW t \in tokens, revokeSensorToken(t) PROVE DeploymentInv'
    <3>1. HostTyped'
      BY <2>0, <2>19 DEF revokeSensorToken, HostTyped, onHost
    <3>2. QED
      BY <2>19, <3>1, DisturbingStep DEF revokeSensorToken
  <2>20. CASE UNCHANGED deploymentVars
    BY <2>20 DEF deploymentVars, onHost, DeploymentInv, HostTyped, HandlersTyped, Undisturbed, SoundHolds, Idle
  <2>21. QED
    BY <2>1, <2>2, <2>3, <2>4, <2>5, <2>6, <2>7, <2>8, <2>9, <2>10, <2>11, <2>12, <2>13, <2>14, <2>15,
       <2>16, <2>17, <2>18, <2>19, <2>20
    DEF DeploymentNext
<1>3. QED
  BY <1>1, <1>2, PTL DEF DeploymentSpec

\* While an operation is sound, a step that is its own and leaves it sound is one of its
\* handler's or of its script's.
LEMMA SoundStepIsOwn ==
  ASSUME DeploymentInv, NEW h \in Handlers, SoundStep(h), [DeploymentNext]_deploymentVars
  PROVE  \/ CreateSensorToken(h) \/ DeploySensor(h)
         \/ DeployFails(h) \/ RevokeSensorToken(h) \/ RevokeOtherSensorTokens(h)
         \/ EnableSensor(h) \/ StoreFails(h)
         \/ ReadToken(h) \/ Prepare(h) \/ WriteEnv(h) \/ RestartAgent(h) \/ Teardown(h)
         \/ ScriptDies(h) \/ HandlerGivesUp(h)
         \/ StopSensor(h) \/ RevokeSensorTokens(h) \/ DisableSensor(h)
         \/ patchHost(h) \/ uiEditHost(h)
<1>1. /\ handlers[h] # NoToken /\ handlers[h].sound /\ handlers[h] \in Held
      /\ ~(handlers'[h] = handlers[h] /\ scripts'[h] = scripts[h])
      /\ handlers'[h] = NoToken \/ handlers'[h].sound
  BY DEF SoundStep, OwnStep, DeploymentInv, HandlersTyped
<1>2. \A g \in Handlers \ {h} : handlers[g] = NoToken /\ scripts[g] = NoToken
  BY <1>1 DEF DeploymentInv, Undisturbed, Idle
<1>3. handlers'[h] # [handlers[h] EXCEPT !.sound = FALSE]
  <2> DEFINE n == [handlers[h] EXCEPT !.sound = FALSE]
  <2>1. n \in Held /\ ~n.sound
    BY <1>1 DEF Held
  <2>2. QED
    BY <1>1, <2>1, DeploymentAssumption
<1>4. Disturbed(handlers)[h] = [handlers[h] EXCEPT !.sound = FALSE]
  BY <1>1 DEF Disturbed
<1>5. ASSUME NEW g \in Handlers, NEW op \in {"enable", "disable", "edit"}, Begin(g, op) PROVE FALSE
  <2>1. g # h /\ handlers' = [Disturbed(handlers) EXCEPT ![g] = Begun(op)]
    BY <1>1, <1>5 DEF Begin, Idle
  <2>2. handlers'[h] = Disturbed(handlers)[h]
    BY <2>1 DEF Disturbed
  <2>3. QED
    BY <1>3, <1>4, <2>2
<1>6. ~SetHostSSHHostKey /\ ~AgentRestarts /\ ~createSensorToken /\ \A k : ~revokeSensorToken(k)
  BY <1>1, <1>3, <1>4 DEF SetHostSSHHostKey, AgentRestarts, createSensorToken, revokeSensorToken
<1>7. \A g \in Handlers \ {h} :
        /\ ~CreateSensorToken(g) /\ ~DeploySensor(g)
        /\ ~DeployFails(g) /\ ~RevokeSensorToken(g) /\ ~RevokeOtherSensorTokens(g)
        /\ ~EnableSensor(g) /\ ~StoreFails(g)
        /\ ~ReadToken(g) /\ ~Prepare(g) /\ ~WriteEnv(g) /\ ~RestartAgent(g) /\ ~Teardown(g)
        /\ ~ScriptDies(g) /\ ~HandlerGivesUp(g)
        /\ ~StopSensor(g) /\ ~RevokeSensorTokens(g) /\ ~DisableSensor(g)
        /\ ~patchHost(g) /\ ~uiEditHost(g)
  BY <1>2 DEF CreateSensorToken, DeploySensor, DeployFails, RevokeSensorToken,
     RevokeOtherSensorTokens, EnableSensor, StoreFails, ReadToken, Prepare, WriteEnv, RestartAgent,
     Teardown, ScriptDies, HandlerGivesUp, StopSensor, RevokeSensorTokens, DisableSensor,
     patchHost, uiEditHost, Running, ScriptAt, Waiting
<1>8. ~UNCHANGED deploymentVars
  BY <1>1 DEF deploymentVars
<1>9. QED
  BY <1>5, <1>6, <1>7, <1>8 DEF DeploymentNext

\* Enabling the sensor of a host whose agent is authenticated never interrupts it, when
\* nothing else touches the host's sensor, no failure on the host goes unsaid and no answer
\* is lost (EnableSensor, sensorDeployScript).
THEOREM UndisturbedRotation == DeploymentSpec => RotationHasNoGap
<1> USE DeploymentAssumption
<1>1. DeploymentInv /\ [DeploymentNext]_deploymentVars =>
        \A h \in Handlers :
          SoundStep(h) /\ handlers[h].op = "enable" /\ Authenticated => Authenticated'
  <2> SUFFICES ASSUME DeploymentInv, [DeploymentNext]_deploymentVars, NEW h \in Handlers,
                      SoundStep(h), handlers[h].op = "enable", Authenticated
               PROVE  Authenticated'
    OBVIOUS
  <2>1. SoundHolds(h) /\ agent \in tokens /\ handlers[h] # NoToken /\ handlers[h] \in Held
    BY DEF SoundStep, OwnStep, DeploymentInv, HandlersTyped, Undisturbed, Authenticated
  <2>2. CASE RestartAgent(h)
    <3> DEFINE b == agent' = scripts[h].token /\ unit' # "off"
    <3>1. /\ scripts[h] # NoToken /\ scripts[h].at = "restart" /\ tokens' = tokens
          /\ Ends(h, "deployed", b)
      BY <2>2 DEF RestartAgent, ScriptAt
    <3>2. b \in BOOLEAN /\ (b => agent' = scripts[h].token)
      OBVIOUS
    <3> HIDE DEF b
    <3>3. handlers[h].stage = "scripted" /\ scripts[h].token = handlers[h].token /\ handlers[h].token \in tokens
      BY <2>1, <3>1 DEF SoundHolds, StageHolds
    <3>4. handlers'[h] = [handlers[h] EXCEPT !.stage = "deployed", !.sound = handlers[h].sound /\ b]
      BY <2>1, <3>1, <3>3 DEF Ends, Waiting, DeploymentInv, HandlersTyped
    <3>5. (handlers[h].sound /\ b) \in BOOLEAN
      OBVIOUS
    <3>6. handlers'[h] \in Held /\ handlers'[h].sound = (handlers[h].sound /\ b)
      BY <2>1, <3>4, <3>5 DEF Held, Stages
    <3>7. b
      BY <3>6 DEF SoundStep
    <3>8. QED
      BY <3>1, <3>2, <3>3, <3>7 DEF Authenticated
  <2>3. CASE CreateSensorToken(h) \/ DeploySensor(h) \/ DeployFails(h) \/ EnableSensor(h) \/ StoreFails(h)
             \/ ReadToken(h) \/ Prepare(h) \/ WriteEnv(h) \/ ScriptDies(h) \/ HandlerGivesUp(h)
    <3>1. agent' = agent
      BY <2>3 DEF CreateSensorToken, DeploySensor, DeployFails, EnableSensor, StoreFails,
         ReadToken, Prepare, WriteEnv, ScriptDies, HandlerGivesUp, onHost
    <3>2. tokens \subseteq tokens'
      BY <2>3 DEF CreateSensorToken, DeploySensor, DeployFails, EnableSensor, StoreFails,
         ReadToken, Prepare, WriteEnv, ScriptDies, HandlerGivesUp
    <3>3. QED
      BY <2>1, <3>1, <3>2 DEF Authenticated
  <2>4. CASE RevokeSensorToken(h)
    BY <2>1, <2>4 DEF RevokeSensorToken, Running, SoundHolds, StageHolds, onHost, Authenticated
  <2>5. CASE RevokeOtherSensorTokens(h)
    BY <2>1, <2>5 DEF RevokeOtherSensorTokens, Running, SoundHolds, StageHolds, onHost, Authenticated
  <2>6. CASE StopSensor(h) \/ RevokeSensorTokens(h) \/ DisableSensor(h) \/ patchHost(h) \/ uiEditHost(h)
    BY <2>6 DEF StopSensor, RevokeSensorTokens, DisableSensor, patchHost, uiEditHost, Running
  <2>7. CASE Teardown(h)
    BY <2>1, <2>7 DEF Teardown, ScriptAt, SoundHolds, StageHolds
  <2>8. QED
    BY <2>2, <2>3, <2>4, <2>5, <2>6, <2>7, SoundStepIsOwn
<1>2. QED
  BY <1>1, DeploymentInvariant, PTL DEF DeploymentSpec, RotationHasNoGap

\* A sound operation that gets past its revocations leaves credentials, agent and row
\* agreeing (EnableSensor, DisableSensor).
THEOREM UndisturbedSettles == DeploymentSpec => OperationSettles
<1> USE DeploymentAssumption
<1>1. DeploymentInv /\ [DeploymentNext]_deploymentVars =>
        \A h \in Handlers :
          SoundStep(h) /\ handlers[h].stage = "revoked" =>
            IF handlers[h].op = "enable"
            THEN /\ tokens' = {agent} /\ (unit = "on" => env = agent)
                 /\ host' # host => host'.mode = "scan_plus_sensor"
            ELSE tokens' = {} /\ (host' # host => host'.mode = "scan_only")
  <2> SUFFICES ASSUME DeploymentInv, [DeploymentNext]_deploymentVars, NEW h \in Handlers,
                      SoundStep(h), handlers[h].stage = "revoked"
               PROVE  IF handlers[h].op = "enable"
                      THEN /\ tokens' = {agent} /\ (unit = "on" => env = agent)
                           /\ host' # host => host'.mode = "scan_plus_sensor"
                      ELSE tokens' = {} /\ (host' # host => host'.mode = "scan_only")
    OBVIOUS
  <2>1. SoundHolds(h) /\ handlers[h] # NoToken /\ handlers[h] \in Held
    BY DEF SoundStep, OwnStep, DeploymentInv, HandlersTyped, Undisturbed
  <2>2. CASE EnableSensor(h)
    BY <2>1, <2>2 DEF EnableSensor, UpdateHost, Running, SoundHolds, StageHolds
  <2>3. CASE DisableSensor(h)
    BY <2>1, <2>3 DEF DisableSensor, UpdateHost, Running, SoundHolds, StageHolds
  <2>4. CASE StoreFails(h)
    <3>1. tokens' = tokens /\ host' = host /\ handlers[h].op \in {"enable", "disable"}
      BY <2>4 DEF StoreFails, Running
    <3>2. QED
      BY <2>1, <3>1 DEF SoundHolds, StageHolds
  <2>5. CASE Teardown(h) \/ ScriptDies(h)
    <3>1. tokens' = tokens /\ host' = host /\ scripts[h] # NoToken
      BY <2>5 DEF Teardown, ScriptDies, ScriptAt
    <3>2. handlers[h].op = "disable"
      BY <2>1, <3>1 DEF SoundHolds, StageHolds
    <3>3. QED
      BY <2>1, <3>1, <3>2 DEF SoundHolds, StageHolds
  <2>6. CASE ReadToken(h) \/ Prepare(h) \/ WriteEnv(h) \/ RestartAgent(h)
    <3>1. tokens' = tokens /\ host' = host /\ scripts[h] # NoToken
      BY <2>6 DEF ReadToken, Prepare, WriteEnv, RestartAgent, ScriptAt
    <3>2. handlers[h].op = "disable"
      BY <2>1, <3>1 DEF SoundHolds, StageHolds
    <3>3. QED
      BY <2>1, <3>1, <3>2 DEF SoundHolds, StageHolds
  <2>7. QED
    BY <2>2, <2>3, <2>4, <2>5, <2>6, SoundStepIsOwn
    DEF CreateSensorToken, DeploySensor, DeployFails, RevokeSensorToken, HandlerGivesUp, Waiting,
        RevokeOtherSensorTokens, StopSensor, RevokeSensorTokens, patchHost, uiEditHost, Running
<1>2. QED
  BY <1>1, DeploymentInvariant, PTL DEF DeploymentSpec, OperationSettles
-------------------------------------------------------------------------------
(* FleetCorrelation                                                          *)

Content == [authorized : SUBSET (Credentials \cup Unparsed), passwords : SUBSET Credentials,
            private : SUBSET Credentials, cron : SUBSET Cron]

FleetTyped ==
  /\ content \in [Hosts -> Content]
  /\ rows \in [Hosts -> Cohorts \cup {"unknown", NoHost}]
  /\ inventories \in [Hosts -> Inventory \cup {NoHost}]
  /\ told \in [Hosts -> Inventory \cup {NoHost}]
  /\ scanning \in [Hosts -> Scan \cup {NoHost}]
  /\ \A h \in Hosts : In(h, "listed") => scanning[h].seen \in [Hosts -> Inventory \cup {NoHost}]

LEMMA FleetTypedInvariant == FleetSpec => []FleetTyped
<1> USE FleetAssumption
<1>1. FleetInit => FleetTyped
  BY DEF FleetInit, FleetTyped, Empty, Content, In
<1>2. FleetTyped /\ [FleetNext]_fleetVars => FleetTyped'
  <2> SUFFICES ASSUME FleetTyped, [FleetNext]_fleetVars PROVE FleetTyped'
    OBVIOUS
  <2> DEFINE Listed(h) == scanning'[h] # NoHost /\ scanning'[h].phase = "listed" =>
                            scanning'[h].seen \in [Hosts -> Inventory \cup {NoHost}]
  <2>1. ASSUME NEW h \in Hosts, HostChanges(h) PROVE FleetTyped'
    <3>0. PICK kind \in {"authorized", "passwords", "private", "cron"} : \E i \in Holdings[kind] :
            content' = [content EXCEPT ![h][kind] = IF i \in content[h][kind] THEN content[h][kind] \ {i}
                                                    ELSE content[h][kind] \cup {i}]
      <4>1. DOMAIN Holdings = {"authorized", "passwords", "private", "cron"}
        BY DEF Holdings
      <4>2. QED
        BY <2>1, <4>1 DEF HostChanges, FleetTyped, Content
    <3>1. PICK i \in Holdings[kind] :
            content' = [content EXCEPT ![h][kind] = IF i \in content[h][kind] THEN content[h][kind] \ {i}
                                                    ELSE content[h][kind] \cup {i}]
      BY <3>0
    <3> DEFINE items == IF i \in content[h][kind] THEN content[h][kind] \ {i} ELSE content[h][kind] \cup {i}
               row == [content[h] EXCEPT ![kind] = items]
    <3>2. content[h] \in Content
      BY DEF FleetTyped
    <3>3. items \subseteq content[h][kind] \cup Holdings[kind]
      OBVIOUS
    <3>4. content' = [content EXCEPT ![h] = row]
      BY <3>1
    <3> HIDE DEF items
    <3>5. row \in Content
      <4>1. CASE kind = "authorized"
        BY <3>2, <3>3, <4>1 DEF Content, Holdings
      <4>2. CASE kind = "passwords"
        BY <3>2, <3>3, <4>2 DEF Content, Holdings
      <4>3. CASE kind = "private"
        BY <3>2, <3>3, <4>3 DEF Content, Holdings
      <4>4. CASE kind = "cron"
        BY <3>2, <3>3, <4>4 DEF Content, Holdings
      <4>5. QED
        BY <4>1, <4>2, <4>3, <4>4
    <3> HIDE DEF row
    <3>6. content' \in [Hosts -> Content]
      BY <3>4, <3>5 DEF FleetTyped
    <3>7. UNCHANGED <<rows, inventories, scanning, told>>
      BY <2>1 DEF HostChanges
    <3>8. QED
      BY <3>6, <3>7 DEF FleetTyped, In
  <2>2. ASSUME NEW h \in Hosts, NEW n \in Scan \cup {NoHost}, scanning' = [scanning EXCEPT ![h] = n],
               n # NoHost /\ n.phase = "listed" => n.seen \in [Hosts -> Inventory \cup {NoHost}]
        PROVE  /\ scanning' \in [Hosts -> Scan \cup {NoHost}]
               /\ \A g \in Hosts : Listed(g)
    BY <2>2 DEF FleetTyped, In
  <2>3. ASSUME NEW h \in Hosts, ProbeHost(h) PROVE FleetTyped'
    <3> DEFINE n == [phase |-> "probed", cohort |-> rows[h], inv |-> takeInventory(content[h]),
                     cron |-> content[h].cron, seen |-> <<>>]
    <3>1. content[h] \in Content /\ rows[h] \in Cohorts \cup {"unknown"}
      BY <2>3 DEF ProbeHost, FleetTyped
    <3>2. takeInventory(content[h]) \in Inventory
      BY <3>1 DEF takeInventory, Content, Inventory
    <3>3. n \in Scan
      BY <3>1, <3>2 DEF Scan, Content
    <3>4. n.phase = "probed"
      OBVIOUS
    <3>5. scanning' = [scanning EXCEPT ![h] = n] /\ UNCHANGED <<content, rows, inventories, told>>
      BY <2>3 DEF ProbeHost, BuildStateDigest
    <3> HIDE DEF n
    <3>6. QED
      BY <2>2, <3>3, <3>4, <3>5 DEF FleetTyped, In
  <2>4. ASSUME NEW h \in Hosts, NEW phase \in {"ranked", "saved", "compared"},
               scanning[h] # NoHost, Proceed(h, phase)
        PROVE  /\ scanning' \in [Hosts -> Scan \cup {NoHost}]
               /\ \A g \in Hosts : Listed(g)
    <3> DEFINE n == [scanning[h] EXCEPT !.phase = phase]
    <3>1. scanning[h] \in Scan
      BY <2>4 DEF FleetTyped
    <3>2. n \in Scan /\ n.phase # "listed"
      BY <3>1 DEF Scan
    <3>3. scanning' = [scanning EXCEPT ![h] = n]
      BY <2>4 DEF Proceed
    <3> HIDE DEF n
    <3>4. QED
      BY <2>2, <3>2, <3>3
  <2>5. ASSUME NEW h \in Hosts, applyRarity(h) PROVE FleetTyped'
    <3>1. scanning[h] # NoHost /\ Proceed(h, "ranked") /\ UNCHANGED <<content, rows, inventories, told>>
      BY <2>5 DEF applyRarity, In
    <3>2. QED
      BY <2>4, <3>1 DEF FleetTyped, In
  <2>6. ASSUME NEW h \in Hosts, SaveInventory(h) PROVE FleetTyped'
    <3>1. scanning[h] # NoHost /\ Proceed(h, "saved") /\ UNCHANGED <<content, rows>>
      BY <2>6 DEF SaveInventory, In
    <3>2. scanning[h].inv \in Inventory
      BY <3>1 DEF FleetTyped, Scan
    <3>3. /\ inventories' = [inventories EXCEPT ![h] = scanning[h].inv]
          /\ told' = [told EXCEPT ![h] = NoHost]
      BY <2>6 DEF SaveInventory
    <3>4. QED
      BY <2>4, <3>1, <3>2, <3>3 DEF FleetTyped, In
  <2>7. ASSUME NEW h \in Hosts, ListInventories(h) PROVE FleetTyped'
    <3> DEFINE n == [scanning[h] EXCEPT !.phase = "listed", !.seen = inventories]
    <3>1. scanning[h] \in Scan /\ inventories \in [Hosts -> Inventory \cup {NoHost}]
      BY <2>7 DEF ListInventories, In, FleetTyped
    <3>2. n \in Scan /\ n.seen \in [Hosts -> Inventory \cup {NoHost}]
      BY <3>1 DEF Scan
    <3>3. scanning' = [scanning EXCEPT ![h] = n] /\ UNCHANGED <<content, rows, inventories, told>>
      BY <2>7 DEF ListInventories
    <3> HIDE DEF n
    <3>4. QED
      BY <2>2, <3>2, <3>3 DEF FleetTyped, In
  <2>8. ASSUME NEW h \in Hosts, ReuseFails(h) PROVE FleetTyped'
    <3>1. scanning[h] # NoHost /\ Proceed(h, "compared") /\ UNCHANGED <<content, rows, inventories, told>>
      BY <2>8 DEF ReuseFails, In
    <3>2. QED
      BY <2>4, <3>1 DEF FleetTyped, In
  <2>9. ASSUME NEW h \in Hosts, applyCredentialReuse(h) PROVE FleetTyped'
    <3>1. scanning[h] # NoHost /\ Proceed(h, "compared") /\ UNCHANGED <<content, rows, inventories>>
      BY <2>9 DEF applyCredentialReuse, In
    <3>2. scanning[h].inv \in Inventory
      BY <3>1 DEF FleetTyped, Scan
    <3>3. \/ told' = [told EXCEPT ![h] = scanning[h].inv]
          \/ told' = [told EXCEPT ![h] = told[h]]
      BY <2>9 DEF applyCredentialReuse
    <3>4. told' \in [Hosts -> Inventory \cup {NoHost}]
      BY <3>2, <3>3 DEF FleetTyped
    <3>5. QED
      BY <2>4, <3>1, <3>4 DEF FleetTyped, In
  <2>10. ASSUME NEW h \in Hosts, updateHostFromResult(h) \/ ScanLost(h) PROVE FleetTyped'
    <3>1. /\ scanning' = [scanning EXCEPT ![h] = NoHost]
          /\ UNCHANGED <<content, inventories, told>>
      BY <2>10 DEF updateHostFromResult, ScanLost
    <3>2. rows' \in [Hosts -> Cohorts \cup {"unknown", NoHost}]
      BY <2>10 DEF updateHostFromResult, ScanLost, FleetTyped
    <3>3. QED
      BY <2>2, <3>1, <3>2 DEF FleetTyped, In
  <2>11. ASSUME NEW h \in Hosts, DeleteHost(h) PROVE FleetTyped'
    BY <2>11 DEF DeleteHost, FleetTyped, In
  <2>12. CASE UNCHANGED fleetVars
    BY <2>12 DEF fleetVars, FleetTyped, In
  <2>13. QED
    BY <2>1, <2>3, <2>5, <2>6, <2>7, <2>8, <2>9, <2>10, <2>11, <2>12 DEF FleetNext
<1>3. QED
  BY <1>1, <1>2, PTL DEF FleetSpec

\* What the inventories p and q share is reported on host h.
ReportedOn(h, p, q, R) ==
  /\ \A k \in p.authorized \cap q.authorized : <<"fleet-shared-ssh-key", h, k>> \in R
  /\ \A k \in p.passwords \cap q.passwords : <<"fleet-shared-password-hash", h, k>> \in R
  /\ \A k \in p.private \cap q.private : <<"fleet-private-key-copied", h, k>> \in R

\* A scan that has saved compares what is saved, as long as its host is there.
SavedIsHeld ==
  \A h \in Hosts :
    /\ told[h] # NoHost => inventories[h] = told[h]
    /\ rows[h] # NoHost /\ (In(h, "saved") \/ In(h, "listed")) => inventories[h] = scanning[h].inv

\* Of two scans that have listed, one has listed what the other saved.
OneSeesTheOther ==
  \A x, y \in Hosts :
    x # y /\ rows[x] # NoHost /\ rows[y] # NoHost /\ In(x, "listed") /\ In(y, "listed") =>
      scanning[y].seen[x] = inventories[x] \/ scanning[x].seen[y] = inventories[y]

\* A scan that has listed knows what a completed comparison compared, or that one has
\* reported what the two share.
SeenOrReported ==
  \A x, y \in Hosts :
    x # y /\ told[x] # NoHost /\ rows[y] # NoHost /\ In(y, "listed") =>
      scanning[y].seen[x] = told[x] \/ ReportedOn(x, told[x], scanning[y].inv, reported)

\* What two completed comparisons share is reported on one of the hosts.
BothToldReported ==
  \A x, y \in Hosts :
    x # y /\ told[x] # NoHost /\ told[y] # NoHost =>
      ReportedOn(x, told[x], told[y], reported) \/ ReportedOn(y, told[x], told[y], reported)

FleetInv == FleetTyped /\ SavedIsHeld /\ OneSeesTheOther /\ SeenOrReported /\ BothToldReported

\* A comparison reports all that its host shares with one it has listed.
LEMMA ReuseReports ==
  ASSUME NEW h \in Hosts, NEW y \in Hosts \ {h}, scanning[h].seen[y] # NoHost
  PROVE  ReportedOn(h, scanning[h].inv, scanning[h].seen[y], Reuse(h))
<1>1. \A category : scanning[h].inv[category] \cap scanning[h].seen[y][category]
                      \subseteq Matches(h, category, category)
  BY DEF Matches, OthersWith
<1>2. /\ Findings("fleet-shared-ssh-key", h, Matches(h, "authorized", "authorized")) \subseteq Reuse(h)
      /\ Findings("fleet-shared-password-hash", h, Matches(h, "passwords", "passwords")) \subseteq Reuse(h)
      /\ Findings("fleet-private-key-copied", h, Matches(h, "private", "private")) \subseteq Reuse(h)
  BY DEF Reuse
<1>3. \A rule, ids : \A k \in ids : <<rule, h, k>> \in Findings(rule, h, ids)
  BY DEF Findings
<1>4. QED
  BY <1>1, <1>2, <1>3 DEF ReportedOn

LEMMA ReportedMore ==
  ASSUME NEW h, NEW p, NEW q, NEW R, NEW T, ReportedOn(h, p, q, R), R \subseteq T
  PROVE  ReportedOn(h, p, q, T)
BY DEF ReportedOn

\* A step that saves, lists and completes nothing.
LEMMA QuietStep ==
  ASSUME FleetInv, UNCHANGED <<inventories, told>>, reported \subseteq reported',
         \A g \in Hosts : rows'[g] # NoHost => rows[g] # NoHost,
         \A g \in Hosts : In(g, "saved")' => In(g, "saved") /\ scanning'[g] = scanning[g],
         \A g \in Hosts : In(g, "listed")' => In(g, "listed") /\ scanning'[g] = scanning[g]
  PROVE  SavedIsHeld' /\ OneSeesTheOther' /\ SeenOrReported' /\ BothToldReported'
<1>1. SavedIsHeld' /\ OneSeesTheOther'
  BY DEF FleetInv, SavedIsHeld, OneSeesTheOther
<1>2. SeenOrReported'
  BY ReportedMore DEF FleetInv, SeenOrReported
<1>3. BothToldReported'
  BY ReportedMore DEF FleetInv, BothToldReported
<1>4. QED
  BY <1>1, <1>2, <1>3

\* A step of the scan of h to another phase.
LEMMA ProceedStep ==
  ASSUME FleetTyped, NEW h \in Hosts, scanning[h] # NoHost,
         NEW phase \in {"ranked", "saved", "compared"}, Proceed(h, phase)
  PROVE  /\ \A g \in Hosts \ {h} : scanning'[g] = scanning[g]
         /\ scanning'[h].phase = phase /\ scanning'[h].inv = scanning[h].inv
<1> DEFINE n == [scanning[h] EXCEPT !.phase = phase]
<1>1. n.phase = phase /\ n.inv = scanning[h].inv
  BY DEF FleetTyped, Scan
<1>2. scanning' = [scanning EXCEPT ![h] = n]
  BY DEF Proceed
<1> HIDE DEF n
<1>3. QED
  BY <1>1, <1>2 DEF FleetTyped

LEMMA FleetInvariant == FleetSpec => []FleetInv
<1> USE FleetAssumption
<1> DEFINE Rest == SavedIsHeld /\ OneSeesTheOther /\ SeenOrReported /\ BothToldReported
<1>1. FleetInit => Rest
  BY DEF FleetInit, SavedIsHeld, OneSeesTheOther, SeenOrReported, BothToldReported, In
<1>2. FleetInv /\ [FleetNext]_fleetVars => Rest'
  <2> SUFFICES ASSUME FleetInv, [FleetNext]_fleetVars PROVE Rest'
    OBVIOUS
  <2>0. FleetTyped
    BY DEF FleetInv
  <2>1. ASSUME NEW h \in Hosts, HostChanges(h) PROVE Rest'
    BY <2>1, QuietStep DEF HostChanges, In
  <2>2. ASSUME NEW h \in Hosts, ProbeHost(h) PROVE Rest'
    <3> DEFINE n == [phase |-> "probed", cohort |-> rows[h], inv |-> takeInventory(content[h]),
                     cron |-> content[h].cron, seen |-> <<>>]
    <3>1. scanning' = [scanning EXCEPT ![h] = n] /\ UNCHANGED <<rows, inventories, reported, told>>
      BY <2>2 DEF ProbeHost, BuildStateDigest
    <3>2. n.phase = "probed"
      OBVIOUS
    <3> HIDE DEF n
    <3>3. \A g \in Hosts : g # h => scanning'[g] = scanning[g]
      BY <3>1, <2>0 DEF FleetTyped
    <3>4. scanning'[h].phase = "probed"
      BY <3>1, <3>2, <2>0 DEF FleetTyped
    <3>5. QED
      BY <3>1, <3>3, <3>4, QuietStep DEF In
  <2>3. ASSUME NEW h \in Hosts, applyRarity(h) \/ ReuseFails(h) PROVE Rest'
    <3>1. /\ scanning[h] # NoHost
          /\ Proceed(h, "ranked") \/ Proceed(h, "compared")
          /\ UNCHANGED <<rows, inventories, told>> /\ reported \subseteq reported'
      BY <2>3 DEF applyRarity, ReuseFails, In
    <3>2. /\ \A g \in Hosts \ {h} : scanning'[g] = scanning[g]
          /\ scanning'[h].phase \in {"ranked", "compared"}
      BY <3>1, <2>0, ProceedStep
    <3>3. QED
      BY <3>1, <3>2, QuietStep DEF In
  <2>4. ASSUME NEW h \in Hosts, updateHostFromResult(h) \/ ScanLost(h) PROVE Rest'
    <3>1. scanning' = [scanning EXCEPT ![h] = NoHost] /\ UNCHANGED <<inventories, reported, told>>
      BY <2>4 DEF updateHostFromResult, ScanLost
    <3>2. \A g \in Hosts : rows'[g] # NoHost => rows[g] # NoHost
      BY <2>4, <2>0 DEF updateHostFromResult, ScanLost, FleetTyped
    <3>3. QED
      BY <3>1, <3>2, <2>0, QuietStep DEF In, FleetTyped
  <2>5. ASSUME NEW h \in Hosts, DeleteHost(h) PROVE Rest'
    <3>1. rows' = [rows EXCEPT ![h] = NoHost] /\ scanning' = scanning
      BY <2>5 DEF DeleteHost
    <3>2. \A g \in Hosts : rows'[g] # NoHost => rows[g] # NoHost /\ g # h
      BY <3>1, <2>0 DEF FleetTyped
    <3>3. CASE Cascades
      <4>1. /\ inventories' = [inventories EXCEPT ![h] = NoHost]
            /\ reported' = {f \in reported : f[2] # h}
            /\ told' = [told EXCEPT ![h] = NoHost]
        BY <2>5, <3>3 DEF DeleteHost
      <4>2. \A g \in Hosts \ {h} : inventories'[g] = inventories[g] /\ told'[g] = told[g]
        BY <4>1, <2>0 DEF FleetTyped
      <4>3. told'[h] = NoHost
        BY <4>1, <2>0 DEF FleetTyped
      <4>4. \A g \in Hosts \ {h} : \A p, q : ReportedOn(g, p, q, reported) => ReportedOn(g, p, q, reported')
        BY <4>1 DEF ReportedOn
      <4>5. SavedIsHeld' /\ OneSeesTheOther'
        BY <3>1, <3>2, <4>2, <4>3 DEF FleetInv, SavedIsHeld, OneSeesTheOther, In
      <4>6. SeenOrReported'
        BY <3>1, <3>2, <4>2, <4>3, <4>4 DEF FleetInv, SeenOrReported, In
      <4>7. BothToldReported'
        BY <4>2, <4>3, <4>4 DEF FleetInv, BothToldReported
      <4>8. QED
        BY <4>5, <4>6, <4>7
    <3>4. CASE ~Cascades
      BY <2>5, <3>1, <3>2, <3>4, QuietStep DEF DeleteHost, In
    <3>5. QED
      BY <3>3, <3>4
  <2>6. ASSUME NEW h \in Hosts, SaveInventory(h) PROVE Rest'
    <3>1. /\ scanning[h] # NoHost /\ Proceed(h, "saved")
          /\ UNCHANGED <<rows, reported>>
          /\ inventories' = [inventories EXCEPT ![h] = scanning[h].inv]
          /\ told' = [told EXCEPT ![h] = NoHost]
      BY <2>6 DEF SaveInventory, In
    <3>2. /\ \A g \in Hosts \ {h} : scanning'[g] = scanning[g]
          /\ scanning'[h].phase = "saved" /\ scanning'[h].inv = scanning[h].inv
      BY <3>1, <2>0, ProceedStep
    <3>3. /\ \A g \in Hosts \ {h} : inventories'[g] = inventories[g] /\ told'[g] = told[g]
          /\ inventories'[h] = scanning[h].inv /\ told'[h] = NoHost
      BY <3>1, <2>0 DEF FleetTyped
    <3>4. SavedIsHeld' /\ OneSeesTheOther'
      BY <3>1, <3>2, <3>3 DEF FleetInv, SavedIsHeld, OneSeesTheOther, In
    <3>5. SeenOrReported'
      BY <3>1, <3>2, <3>3 DEF FleetInv, SeenOrReported, In
    <3>6. BothToldReported'
      BY <3>1, <3>3 DEF FleetInv, BothToldReported
    <3>7. QED
      BY <3>4, <3>5, <3>6
  <2>7. ASSUME NEW h \in Hosts, ListInventories(h) PROVE Rest'
    <3> DEFINE n == [scanning[h] EXCEPT !.phase = "listed", !.seen = inventories]
    <3>1. /\ In(h, "saved") /\ scanning' = [scanning EXCEPT ![h] = n]
          /\ UNCHANGED <<rows, inventories, reported, told>>
      BY <2>7 DEF ListInventories
    <3>2. n.inv = scanning[h].inv /\ n.seen = inventories
      BY <2>0, <3>1 DEF FleetTyped, Scan, In
    <3> HIDE DEF n
    <3>3. /\ \A g \in Hosts \ {h} : scanning'[g] = scanning[g]
          /\ scanning'[h].inv = scanning[h].inv /\ scanning'[h].seen = inventories
      BY <2>0, <3>1, <3>2 DEF FleetTyped
    <3>4. SavedIsHeld' /\ OneSeesTheOther'
      BY <3>1, <3>3 DEF FleetInv, SavedIsHeld, OneSeesTheOther, In
    <3>5. SeenOrReported'
      BY <3>1, <3>3 DEF FleetInv, SavedIsHeld, SeenOrReported, In
    <3>6. BothToldReported'
      BY <3>1 DEF FleetInv, BothToldReported
    <3>7. QED
      BY <3>4, <3>5, <3>6
  <2>8. ASSUME NEW h \in Hosts, applyCredentialReuse(h) PROVE Rest'
    <3>1. /\ In(h, "listed") /\ Proceed(h, "compared")
          /\ UNCHANGED <<rows, inventories>> /\ reported \subseteq reported'
      BY <2>8 DEF applyCredentialReuse
    <3>2. /\ \A g \in Hosts \ {h} : scanning'[g] = scanning[g]
          /\ scanning'[h].phase = "compared"
      BY <3>1, <2>0, ProceedStep DEF In
    <3>3. CASE told' = told
      BY <3>1, <3>2, <3>3, QuietStep DEF In
    <3>4. CASE told' # told
      <4>1. /\ told' = [told EXCEPT ![h] = scanning[h].inv]
            /\ rows[h] # NoHost /\ Reuse(h) \subseteq reported'
        <5>1. PICK stored :
                /\ reported' = reported \cup stored
                /\ told' = [told EXCEPT ![h] = IF stored = Reuse(h) /\ rows[h] # NoHost
                                              THEN scanning[h].inv ELSE told[h]]
          BY <2>8 DEF applyCredentialReuse
        <5>2. stored = Reuse(h) /\ rows[h] # NoHost
          <6> SUFFICES ASSUME ~(stored = Reuse(h) /\ rows[h] # NoHost) PROVE FALSE
            OBVIOUS
          <6>1. told' = [told EXCEPT ![h] = told[h]]
            BY <5>1
          <6>2. QED
            BY <6>1, <3>4, <2>0 DEF FleetTyped
        <5>3. QED
          BY <5>1, <5>2
      <4>2. /\ \A g \in Hosts \ {h} : told'[g] = told[g]
            /\ told'[h] = scanning[h].inv /\ inventories[h] = scanning[h].inv
        BY <3>1, <4>1, <2>0 DEF FleetTyped, FleetInv, SavedIsHeld
      <4>3. SavedIsHeld' /\ OneSeesTheOther'
        BY <3>1, <3>2, <4>2 DEF FleetInv, SavedIsHeld, OneSeesTheOther, In
      <4>4. \A y \in Hosts \ {h} : scanning[h].seen[y] # NoHost =>
              ReportedOn(h, scanning[h].inv, scanning[h].seen[y], reported')
        BY <4>1, ReuseReports, ReportedMore
      <4>5. SeenOrReported'
        <5> SUFFICES ASSUME NEW x \in Hosts, NEW y \in Hosts, x # y, told'[x] # NoHost,
                            rows'[y] # NoHost, In(y, "listed")'
                     PROVE  scanning'[y].seen[x] = told'[x] \/ ReportedOn(x, told'[x], scanning'[y].inv, reported')
          BY DEF SeenOrReported
        <5>1. y # h /\ scanning'[y] = scanning[y] /\ In(y, "listed") /\ rows[y] # NoHost
          BY <3>1, <3>2 DEF In
        <5>2. CASE x = h
          <6>1. scanning[y].seen[h] = inventories[h] \/ scanning[h].seen[y] = inventories[y]
            BY <5>1, <3>1, <4>1 DEF FleetInv, OneSeesTheOther
          <6>2. inventories[y] = scanning[y].inv /\ scanning[y].inv # NoHost
            BY <5>1, <2>0 DEF FleetInv, SavedIsHeld, FleetTyped, Scan, In
          <6>3. QED
            BY <5>1, <5>2, <6>1, <6>2, <4>2, <4>4
        <5>3. CASE x # h
          BY <5>1, <5>3, <3>1, <4>2, ReportedMore DEF FleetInv, SeenOrReported
        <5>4. QED
          BY <5>2, <5>3
      <4>6. BothToldReported'
        <5>1. ASSUME NEW x \in Hosts, x # h, told[x] # NoHost
              PROVE  \/ ReportedOn(x, told[x], scanning[h].inv, reported')
                     \/ ReportedOn(h, scanning[h].inv, told[x], reported')
          BY <5>1, <3>1, <4>1, <4>4, ReportedMore DEF FleetInv, SeenOrReported
        <5>2. \A g, p, q : ReportedOn(g, p, q, reported') <=> ReportedOn(g, q, p, reported')
          BY DEF ReportedOn
        <5>3. \A x, y \in Hosts : x # y /\ x # h /\ y # h /\ told[x] # NoHost /\ told[y] # NoHost =>
                ReportedOn(x, told[x], told[y], reported') \/ ReportedOn(y, told[x], told[y], reported')
          BY <3>1, ReportedMore DEF FleetInv, BothToldReported
        <5>4. QED
          BY <4>2, <5>1, <5>2, <5>3 DEF BothToldReported
      <4>7. QED
        BY <4>3, <4>5, <4>6
    <3>5. QED
      BY <3>3, <3>4
  <2>9. CASE UNCHANGED fleetVars
    BY <2>9, QuietStep DEF fleetVars, In
  <2>10. QED
    BY <2>1, <2>2, <2>3, <2>4, <2>5, <2>6, <2>7, <2>8, <2>9 DEF FleetNext
<1>3. QED
  BY <1>1, <1>2, FleetTypedInvariant, PTL DEF FleetSpec, FleetInv

\* A credential that two hosts share as of their latest completed comparisons has been
\* reported on one of them, however their scans overlap (applyCredentialReuse).
THEOREM SharedCredentialsNoticed == FleetSpec => []SharingIsNoticed
<1>1. FleetInv => SharingIsNoticed
  BY DEF FleetInv, BothToldReported, ReportedOn, SharingIsNoticed, Shared
<1>2. QED
  BY <1>1, FleetInvariant, PTL
-------------------------------------------------------------------------------
(* Schedules                                                                 *)

Tick == [at : Nat, rows : [Schedule -> Rows \cup {Nil}]]
Edit == [id : Schedule, row : Rows]
Firing == [at : Nat, interval : Intervals]

SchedulesTyped ==
  /\ clock \in Nat
  /\ schedules \in [Schedule -> Rows \cup {Nil}]
  /\ listed \in [Schedulers -> Tick \cup {Nil}]
  /\ advancing \in [Schedulers -> Schedule \cup {Nil}]
  /\ \A p \in Schedulers, s \in Schedule : advancing[p] = s => Has(p, s)
  /\ edits \in [Editors -> Edit \cup {Nil}]
  /\ fired \in [Schedule -> Firing \cup {Nil}]

\* A row is due when the interval of the schedule's last firing is over.
Spaced(row, f) == row.nextRun >= f.at + f.interval

\* Nobody is between firing a schedule and writing it back.
Settled(s) == \A p \in Schedulers : advancing[p] # s

\* Until something overlaps, the row of a schedule that fired is spaced, in the table and as
\* the servers have listed it; between firing it and writing it back, its server is the only
\* one that has it.
RowsAreSpaced ==
  \A s \in Schedule : fired[s] # Nil /\ s \notin overlapped =>
    /\ Settled(s) =>
         /\ schedules[s] # Nil => Spaced(schedules[s], fired[s])
         /\ \A p \in Schedulers : Has(p, s) => Spaced(listed[p].rows[s], fired[s])
    /\ \A p \in Schedulers : advancing[p] = s =>
         /\ fired[s] = [at |-> listed[p].at, interval |-> listed[p].rows[s].interval]
         /\ \A q \in Schedulers \ {p} : ~Has(q, s)

SchedulesInv == SchedulesTyped /\ RowsAreSpaced

\* Taking a schedule from a list leaves the others listed as they were.
LEMMA TakeOne ==
  ASSUME SchedulesTyped, NEW p \in Schedulers, NEW s \in Schedule, Has(p, s), Take(p, s)
  PROVE  /\ listed' \in [Schedulers -> Tick \cup {Nil}]
         /\ ~Has(p, s)' /\ listed'[p].at = listed[p].at
         /\ \A q \in Schedulers \ {p} : listed'[q] = listed[q]
         /\ \A q \in Schedulers, r \in Schedule :
              Has(q, r)' => Has(q, r) /\ listed'[q].rows[r] = listed[q].rows[r]
<1> DEFINE t == [listed[p] EXCEPT !.rows[s] = Nil]
<1>1. listed[p] \in Tick /\ listed[p] # Nil /\ listed \in [Schedulers -> Tick \cup {Nil}]
  BY DEF SchedulesTyped, Has
<1>2. /\ t \in Tick /\ t.at = listed[p].at /\ t.rows[s] = Nil
      /\ \A r \in Schedule \ {s} : t.rows[r] = listed[p].rows[r]
  BY <1>1 DEF Tick
<1>3. listed' = [listed EXCEPT ![p] = t]
  BY <1>1 DEF Take
<1> HIDE DEF t
<1>4. listed'[p] = t /\ \A q \in Schedulers \ {p} : listed'[q] = listed[q]
  BY <1>1, <1>3
<1>5. listed' \in [Schedulers -> Tick \cup {Nil}]
  BY <1>1, <1>2, <1>3
<1>6. ASSUME NEW q \in Schedulers, NEW r \in Schedule, Has(q, r)'
      PROVE  Has(q, r) /\ listed'[q].rows[r] = listed[q].rows[r]
  <2>1. CASE q = p
    BY <1>1, <1>2, <1>4, <1>6, <2>1 DEF Has
  <2>2. CASE q # p
    BY <1>4, <1>6, <2>2 DEF Has
  <2>3. QED
    BY <2>1, <2>2
<1>7. QED
  BY <1>2, <1>4, <1>5, <1>6 DEF Has

\* A server that forgets its tick leaves the others theirs.
LEMMA Forgotten ==
  ASSUME SchedulesTyped, RowsAreSpaced, NEW p \in Schedulers,
         listed' = [listed EXCEPT ![p] = Nil],
         advancing' = [advancing EXCEPT ![p] = Nil] \/ (advancing[p] = Nil /\ advancing' = advancing),
         overlapped \subseteq overlapped', advancing[p] # Nil => advancing[p] \in overlapped',
         UNCHANGED <<clock, schedules, fired>>, edits' \in [Editors -> Edit \cup {Nil}]
  PROVE  SchedulesTyped' /\ RowsAreSpaced'
<1> USE ScheduleAssumption
<1>1. /\ listed'[p] = Nil /\ advancing'[p] = Nil
      /\ \A q \in Schedulers \ {p} : listed'[q] = listed[q] /\ advancing'[q] = advancing[q]
  BY DEF SchedulesTyped
<1>2. \A q \in Schedulers, s \in Schedule : Has(q, s)' => Has(q, s) /\ listed'[q] = listed[q]
  BY <1>1 DEF Has
<1>3. SchedulesTyped'
  <2>1. \A q \in Schedulers, r \in Schedule : advancing'[q] = r => Has(q, r)'
    BY <1>1 DEF SchedulesTyped, Has
  <2>2. /\ listed' \in [Schedulers -> Tick \cup {Nil}]
        /\ advancing' \in [Schedulers -> Schedule \cup {Nil}]
    BY DEF SchedulesTyped
  <2>3. QED
    BY <2>1, <2>2 DEF SchedulesTyped
<1>4. ASSUME NEW s \in Schedule, fired'[s] # Nil, s \notin overlapped'
      PROVE  /\ Settled(s)' =>
                  /\ schedules'[s] # Nil => Spaced(schedules'[s], fired'[s])
                  /\ \A q \in Schedulers : Has(q, s)' => Spaced(listed'[q].rows[s], fired'[s])
             /\ \A q \in Schedulers : advancing'[q] = s =>
                  /\ fired'[s] = [at |-> listed'[q].at, interval |-> listed'[q].rows[s].interval]
                  /\ \A z \in Schedulers \ {q} : ~Has(z, s)'
  <2>1. fired[s] # Nil /\ s \notin overlapped /\ fired'[s] = fired[s] /\ s # Nil /\ advancing[p] # s
    BY <1>4
  <2>2. \A q \in Schedulers : advancing'[q] = s <=> advancing[q] = s
    BY <1>1, <2>1
  <2>3. Settled(s)' <=> Settled(s)
    BY <2>2 DEF Settled
  <2>4. Settled(s)' =>
          /\ schedules'[s] # Nil => Spaced(schedules'[s], fired'[s])
          /\ \A q \in Schedulers : Has(q, s)' => Spaced(listed'[q].rows[s], fired'[s])
    BY <1>2, <2>1, <2>3 DEF RowsAreSpaced
  <2>5. ASSUME NEW q \in Schedulers, advancing'[q] = s
        PROVE  /\ fired'[s] = [at |-> listed'[q].at, interval |-> listed'[q].rows[s].interval]
               /\ \A z \in Schedulers \ {q} : ~Has(z, s)'
    <3>1. advancing[q] = s /\ q # p
      BY <1>1, <2>1, <2>5
    <3>2. QED
      BY <1>1, <1>2, <2>1, <3>1 DEF RowsAreSpaced
  <2>6. QED
    BY <2>4, <2>5
<1>5. QED
  BY <1>3, <1>4 DEF RowsAreSpaced

LEMMA SchedulesInvariant == SchedulesSpec => []SchedulesInv
<1> USE ScheduleAssumption
<1>1. SchedulesInit => SchedulesInv
  BY DEF SchedulesInit, SchedulesInv, SchedulesTyped, RowsAreSpaced
<1>2. SchedulesInv /\ [SchedulesNext]_scheduleVars => SchedulesInv'
  <2> SUFFICES ASSUME SchedulesInv, [SchedulesNext]_scheduleVars PROVE SchedulesInv'
    OBVIOUS
  <2>0. SchedulesTyped /\ RowsAreSpaced
    BY DEF SchedulesInv
  <2>1. ASSUME NEW p \in Schedulers, RunDue(p) PROVE SchedulesInv'
    <3> DEFINE t == [at |-> clock, rows |-> schedules]
               O == {s \in Schedule : \E q \in Schedulers : advancing[q] = s}
    <3>1. /\ listed[p] = Nil /\ listed' = [listed EXCEPT ![p] = t] /\ overlapped' = overlapped \cup O
          /\ UNCHANGED <<clock, schedules, advancing, edits, fired>>
      BY <2>1 DEF RunDue
    <3>2. t \in Tick /\ t.rows = schedules
      BY <2>0 DEF SchedulesTyped, Tick
    <3>3. \A s \in Schedule : s \notin O => Settled(s)
      BY DEF Settled
    <3>4. overlapped \subseteq overlapped' /\ \A s \in Schedule : s \notin overlapped' => s \notin O
      BY <3>1
    <3> HIDE DEF t, O
    <3>5. listed'[p] = t /\ \A q \in Schedulers \ {p} : listed'[q] = listed[q]
      BY <2>0, <3>1 DEF SchedulesTyped
    <3>6. SchedulesTyped'
      <4>1. \A q \in Schedulers, r \in Schedule : advancing'[q] = r => Has(q, r)'
        BY <2>0, <3>1, <3>5 DEF SchedulesTyped, Has
      <4>2. listed' \in [Schedulers -> Tick \cup {Nil}]
        BY <2>0, <3>1, <3>2 DEF SchedulesTyped
      <4>3. QED
        BY <2>0, <3>1, <4>1, <4>2 DEF SchedulesTyped
    <3>7. ASSUME NEW s \in Schedule, fired'[s] # Nil, s \notin overlapped'
          PROVE  /\ Settled(s)' /\ schedules'[s] # Nil => Spaced(schedules'[s], fired'[s])
                 /\ Settled(s)'
                 /\ \A q \in Schedulers : Has(q, s)' => Spaced(listed'[q].rows[s], fired'[s])
      <4>1. fired[s] # Nil /\ s \notin overlapped /\ Settled(s) /\ Settled(s)'
        BY <3>1, <3>3, <3>4, <3>7 DEF Settled
      <4>2. schedules[s] # Nil => Spaced(schedules[s], fired[s])
        BY <2>0, <4>1 DEF RowsAreSpaced
      <4>3. ASSUME NEW q \in Schedulers, Has(q, s)' PROVE Spaced(listed'[q].rows[s], fired'[s])
        <5>1. CASE q = p
          BY <3>1, <3>2, <3>5, <4>2, <4>3, <5>1 DEF Has
        <5>2. CASE q # p
          BY <2>0, <3>1, <3>5, <4>1, <4>3, <5>2 DEF Has, RowsAreSpaced
        <5>3. QED
          BY <5>1, <5>2
      <4>4. QED
        BY <3>1, <4>1, <4>2, <4>3
    <3>8. RowsAreSpaced'
      BY <3>7 DEF RowsAreSpaced, Settled
    <3>9. QED
      BY <3>6, <3>8 DEF SchedulesInv
  <2>2. ASSUME NEW p \in Schedulers, NEW s \in Schedule, Skip(p, s) PROVE SchedulesInv'
    <3>1. /\ Has(p, s) /\ advancing[p] = Nil /\ Take(p, s)
          /\ UNCHANGED <<clock, schedules, advancing, edits, fired, overlapped>>
      BY <2>2 DEF Skip
    <3>2. /\ listed' \in [Schedulers -> Tick \cup {Nil}]
          /\ \A q \in Schedulers \ {p} : listed'[q] = listed[q]
          /\ \A q \in Schedulers, r \in Schedule :
               Has(q, r)' => Has(q, r) /\ listed'[q].rows[r] = listed[q].rows[r]
      BY <2>0, <3>1, TakeOne
    <3>3. SchedulesTyped'
      <4>1. \A q \in Schedulers, r \in Schedule : advancing'[q] = r => Has(q, r)'
        BY <2>0, <3>1, <3>2 DEF SchedulesTyped, Has
      <4>2. QED
        BY <2>0, <3>1, <3>2, <4>1 DEF SchedulesTyped
    <3>4. ASSUME NEW r \in Schedule, fired'[r] # Nil, r \notin overlapped'
          PROVE  /\ Settled(r)' =>
                      /\ schedules'[r] # Nil => Spaced(schedules'[r], fired'[r])
                      /\ \A q \in Schedulers : Has(q, r)' => Spaced(listed'[q].rows[r], fired'[r])
                 /\ \A q \in Schedulers : advancing'[q] = r =>
                      /\ fired'[r] = [at |-> listed'[q].at, interval |-> listed'[q].rows[r].interval]
                      /\ \A z \in Schedulers \ {q} : ~Has(z, r)'
      <4>1. fired[r] # Nil /\ r \notin overlapped
        BY <3>1, <3>4
      <4>2. Settled(r)' =>
              /\ schedules'[r] # Nil => Spaced(schedules'[r], fired'[r])
              /\ \A q \in Schedulers : Has(q, r)' => Spaced(listed'[q].rows[r], fired'[r])
        BY <2>0, <3>1, <3>2, <4>1 DEF RowsAreSpaced, Settled
      <4>3. ASSUME NEW q \in Schedulers, advancing'[q] = r
            PROVE  /\ fired'[r] = [at |-> listed'[q].at, interval |-> listed'[q].rows[r].interval]
                   /\ \A z \in Schedulers \ {q} : ~Has(z, r)'
        <5>1. advancing[q] = r /\ q # p
          BY <3>1, <4>3
        <5>2. listed'[q] = listed[q]
          BY <3>2, <5>1
        <5>3. QED
          BY <2>0, <3>1, <3>2, <4>1, <5>1, <5>2 DEF RowsAreSpaced
      <4>4. QED
        BY <4>2, <4>3
    <3>5. QED
      BY <3>3, <3>4 DEF SchedulesInv, RowsAreSpaced
  <2>3. ASSUME NEW p \in Schedulers, NEW s \in Schedule, fire(p, s) PROVE SchedulesInv'
    <3> DEFINE f == [at |-> listed[p].at, interval |-> listed[p].rows[s].interval]
    <3>1. /\ Has(p, s) /\ advancing[p] = Nil /\ advancing' = [advancing EXCEPT ![p] = s]
          /\ fired' = [fired EXCEPT ![s] = f]
          /\ overlapped' = IF \E q \in Schedulers \ {p} : Has(q, s) THEN overlapped \cup {s}
                                                                  ELSE overlapped \ {s}
          /\ UNCHANGED <<clock, schedules, listed, edits>>
      BY <2>3 DEF fire
    <3>2. f \in Firing /\ f = [at |-> listed[p].at, interval |-> listed[p].rows[s].interval]
      <4>1. listed[p] \in Tick /\ listed[p].rows[s] \in Rows
        BY <2>0, <3>1 DEF SchedulesTyped, Has, Tick
      <4>2. QED
        BY <4>1 DEF Tick, Rows, Firing
    <3> HIDE DEF f
    <3>3. /\ advancing'[p] = s /\ fired'[s] = f
          /\ \A q \in Schedulers \ {p} : advancing'[q] = advancing[q]
          /\ \A r \in Schedule \ {s} : fired'[r] = fired[r]
      BY <2>0, <3>1 DEF SchedulesTyped
    <3>4. \A r \in Schedule : r # s /\ r \notin overlapped' => r \notin overlapped
      BY <3>1
    <3>5. \A q \in Schedulers, r \in Schedule : Has(q, r)' <=> Has(q, r)
      BY <3>1 DEF Has
    <3>6. SchedulesTyped'
      <4>1. \A q \in Schedulers, r \in Schedule : advancing'[q] = r => Has(q, r)'
        BY <2>0, <3>1, <3>3 DEF SchedulesTyped, Has
      <4>2. fired' \in [Schedule -> Firing \cup {Nil}] /\ advancing' \in [Schedulers -> Schedule \cup {Nil}]
        BY <2>0, <3>1, <3>2 DEF SchedulesTyped
      <4>3. QED
        BY <2>0, <3>1, <4>1, <4>2 DEF SchedulesTyped
    <3>7. ASSUME NEW r \in Schedule, fired'[r] # Nil, r \notin overlapped'
          PROVE  /\ Settled(r)' =>
                      /\ schedules'[r] # Nil => Spaced(schedules'[r], fired'[r])
                      /\ \A q \in Schedulers : Has(q, r)' => Spaced(listed'[q].rows[r], fired'[r])
                 /\ \A q \in Schedulers : advancing'[q] = r =>
                      /\ fired'[r] = [at |-> listed'[q].at, interval |-> listed'[q].rows[r].interval]
                      /\ \A z \in Schedulers \ {q} : ~Has(z, r)'
      <4>1. CASE r = s
        <5>1. \A z \in Schedulers \ {p} : ~Has(z, s)
          BY <3>1, <3>7, <4>1
        <5>2. \A q \in Schedulers \ {p} : advancing'[q] # s
          BY <2>0, <3>3, <5>1, ScheduleAssumption DEF SchedulesTyped
        <5>3. ~Settled(s)'
          BY <3>3 DEF Settled
        <5>4. \A q \in Schedulers : advancing'[q] = s => q = p
          BY <5>2
        <5>5. fired'[s] = [at |-> listed'[p].at, interval |-> listed'[p].rows[s].interval]
          BY <3>1, <3>2, <3>3
        <5>6. \A z \in Schedulers \ {p} : ~Has(z, s)'
          BY <3>5, <5>1
        <5>7. QED
          BY <4>1, <5>3, <5>4, <5>5, <5>6
      <4>2. CASE r # s
        <5>1. fired[r] # Nil /\ r \notin overlapped /\ fired'[r] = fired[r]
          BY <3>3, <3>4, <3>7, <4>2
        <5>2. \A q \in Schedulers : advancing'[q] = r <=> advancing[q] = r
          BY <3>1, <3>3, <4>2, ScheduleAssumption
        <5>3. Settled(r)' <=> Settled(r)
          BY <5>2 DEF Settled
        <5>4. QED
          BY <2>0, <3>1, <3>5, <5>1, <5>2, <5>3 DEF RowsAreSpaced
      <4>3. QED
        BY <4>1, <4>2
    <3>8. QED
      BY <3>6, <3>7 DEF SchedulesInv, RowsAreSpaced
  <2>4. ASSUME NEW p \in Schedulers, NEW s \in Schedule, NEW failing \in BOOLEAN,
               UpdateSchedule(p, s, failing)
        PROVE  SchedulesInv'
    <3> DEFINE row == listed[p].rows[s]
               new == [row EXCEPT !.nextRun = listed[p].at + row.interval]
    <3>1. /\ advancing[p] = s /\ advancing' = [advancing EXCEPT ![p] = Nil] /\ Take(p, s)
          /\ schedules' = IF failing \/ schedules[s] = Nil THEN schedules
                          ELSE [schedules EXCEPT ![s] = new]
          /\ overlapped' = IF failing \/ schedules[s] # row THEN overlapped \cup {s} ELSE overlapped
          /\ UNCHANGED <<clock, edits, fired>>
      BY <2>4 DEF UpdateSchedule, nextRun
    <3>2. Has(p, s) /\ listed[p] \in Tick /\ row \in Rows /\ row # Nil
      BY <2>0, <3>1 DEF SchedulesTyped, Has, Tick
    <3>3. /\ listed' \in [Schedulers -> Tick \cup {Nil}] /\ ~Has(p, s)'
          /\ \A q \in Schedulers \ {p} : listed'[q] = listed[q]
          /\ \A q \in Schedulers, r \in Schedule :
               Has(q, r)' => Has(q, r) /\ listed'[q].rows[r] = listed[q].rows[r]
      BY <2>0, <3>1, <3>2, TakeOne
    <3>4. new \in Rows /\ new.nextRun = listed[p].at + row.interval
      BY <3>2 DEF Tick, Rows
    <3>5. fired[s] # Nil /\ s \notin overlapped => Spaced(new, fired[s])
      <4> SUFFICES ASSUME fired[s] # Nil, s \notin overlapped PROVE Spaced(new, fired[s])
        OBVIOUS
      <4>1. fired[s] = [at |-> listed[p].at, interval |-> row.interval]
        BY <2>0, <3>1 DEF RowsAreSpaced
      <4>2. fired[s].at = listed[p].at /\ fired[s].interval = row.interval
        BY <4>1
      <4>3. new.nextRun \in Nat
        BY <3>4 DEF Rows
      <4>4. QED
        BY <3>4, <4>2, <4>3 DEF Spaced
    <3> HIDE DEF new, row
    <3>6. /\ schedules' \in [Schedule -> Rows \cup {Nil}]
          /\ \A q \in Schedule \ {s} : schedules'[q] = schedules[q]
      BY <2>0, <3>1, <3>4 DEF SchedulesTyped
    <3>7. s \in overlapped' \/ (s \notin overlapped /\ schedules'[s] = new)
      BY <2>0, <3>1, <3>2 DEF SchedulesTyped
    <3>8. advancing'[p] = Nil /\ \A q \in Schedulers \ {p} : advancing'[q] = advancing[q]
      BY <2>0, <3>1 DEF SchedulesTyped
    <3>9. SchedulesTyped'
      <4>1. \A q \in Schedulers, r \in Schedule : advancing'[q] = r => Has(q, r)'
        BY <2>0, <3>3, <3>8 DEF SchedulesTyped, Has
      <4>2. advancing' \in [Schedulers -> Schedule \cup {Nil}]
        BY <2>0, <3>1 DEF SchedulesTyped
      <4>3. QED
        BY <2>0, <3>1, <3>3, <3>6, <4>1, <4>2 DEF SchedulesTyped
    <3>10. overlapped \subseteq overlapped'
      BY <3>1
    <3>11. ASSUME NEW r \in Schedule, fired'[r] # Nil, r \notin overlapped'
          PROVE  /\ Settled(r)' =>
                      /\ schedules'[r] # Nil => Spaced(schedules'[r], fired'[r])
                      /\ \A q \in Schedulers : Has(q, r)' => Spaced(listed'[q].rows[r], fired'[r])
                 /\ \A q \in Schedulers : advancing'[q] = r =>
                      /\ fired'[r] = [at |-> listed'[q].at, interval |-> listed'[q].rows[r].interval]
                      /\ \A z \in Schedulers \ {q} : ~Has(z, r)'
      <4>1. fired[r] # Nil /\ r \notin overlapped /\ fired'[r] = fired[r]
        BY <3>1, <3>10, <3>11
      <4>2. CASE r = s
        <5>0. \A z \in Schedulers \ {p} : ~Has(z, s)
          BY <2>0, <3>1, <4>1, <4>2 DEF RowsAreSpaced
        <5>1. \A z \in Schedulers : ~Has(z, s)'
          <6> SUFFICES ASSUME NEW z \in Schedulers, Has(z, s)' PROVE FALSE
            OBVIOUS
          <6>1. Has(z, s) /\ z # p
            BY <3>3
          <6>2. QED
            BY <5>0, <6>1
        <5>2. \A q \in Schedulers : advancing'[q] # s
          BY <3>9, <5>1, ScheduleAssumption DEF SchedulesTyped
        <5>3. Spaced(schedules'[s], fired'[s])
          BY <3>5, <3>7, <3>11, <4>1, <4>2
        <5>4. QED
          BY <4>2, <5>1, <5>2, <5>3
      <4>3. CASE r # s
        <5>1. \A q \in Schedulers : advancing'[q] = r <=> advancing[q] = r
          BY <3>1, <3>8, <4>3, ScheduleAssumption
        <5>2. \A q \in Schedulers : advancing[q] = r => listed'[q] = listed[q]
          BY <3>1, <3>3, <4>3
        <5>3. schedules'[r] = schedules[r]
          BY <3>6, <4>3
        <5>4. Settled(r)' =>
                /\ schedules'[r] # Nil => Spaced(schedules'[r], fired'[r])
                /\ \A q \in Schedulers : Has(q, r)' => Spaced(listed'[q].rows[r], fired'[r])
          BY <2>0, <3>3, <4>1, <5>1, <5>3 DEF RowsAreSpaced, Settled
        <5>5. \A q \in Schedulers : advancing'[q] = r =>
                /\ fired'[r] = [at |-> listed'[q].at, interval |-> listed'[q].rows[r].interval]
                /\ \A z \in Schedulers \ {q} : ~Has(z, r)'
          BY <2>0, <3>3, <4>1, <5>1, <5>2 DEF RowsAreSpaced
        <5>6. QED
          BY <5>4, <5>5
      <4>4. QED
        BY <4>2, <4>3
    <3>12. QED
      BY <3>9, <3>11 DEF SchedulesInv, RowsAreSpaced
  <2>5. ASSUME NEW p \in Schedulers, EndOfTick(p) PROVE SchedulesInv'
    <3>1. /\ listed[p] # Nil /\ \A r \in Schedule : ~Has(p, r)
          /\ listed' = [listed EXCEPT ![p] = Nil]
          /\ UNCHANGED <<clock, schedules, advancing, edits, fired, overlapped>>
      BY <2>5 DEF EndOfTick, Has
    <3>2. advancing[p] = Nil /\ edits' \in [Editors -> Edit \cup {Nil}]
      BY <2>0, <3>1 DEF SchedulesTyped
    <3>3. SchedulesTyped' /\ RowsAreSpaced'
      BY <2>0, <3>1, <3>2, Forgotten
    <3>4. QED
      BY <3>3 DEF SchedulesInv
  <2>6. ASSUME NEW p \in Schedulers, Crash(p) PROVE SchedulesInv'
    <3>1. PICK lost \in SUBSET Editors : edits' = [e \in Editors |-> IF e \in lost THEN Nil ELSE edits[e]]
      BY <2>6 DEF Crash
    <3>2. edits' \in [Editors -> Edit \cup {Nil}]
      BY <2>0, <3>1 DEF SchedulesTyped
    <3>3. /\ listed' = [listed EXCEPT ![p] = Nil] /\ advancing' = [advancing EXCEPT ![p] = Nil]
          /\ overlapped' = overlapped \cup ({advancing[p]} \cap Schedule)
          /\ UNCHANGED <<clock, schedules, fired>>
      BY <2>6 DEF Crash
    <3>4. overlapped \subseteq overlapped' /\ (advancing[p] # Nil => advancing[p] \in overlapped')
      BY <2>0, <3>3 DEF SchedulesTyped
    <3>5. SchedulesTyped' /\ RowsAreSpaced'
      BY <2>0, <3>2, <3>3, <3>4, Forgotten
    <3>6. QED
      BY <3>5 DEF SchedulesInv
  <2>7. CASE Later
    <3>1. clock' \in Nat /\ UNCHANGED <<schedules, listed, advancing, edits, fired, overlapped>>
      BY <2>0, <2>7 DEF Later, SchedulesTyped
    <3>2. QED
      BY <2>0, <3>1 DEF SchedulesInv, SchedulesTyped, RowsAreSpaced, Has, Settled
  <2>8. ASSUME NEW s \in Schedule, createSchedule(s) PROVE SchedulesInv'
    <3>1. PICK enabled \in BOOLEAN, i \in Intervals :
            schedules' = [schedules EXCEPT ![s] = [enabled |-> enabled, interval |-> i, nextRun |-> clock]]
      BY <2>8 DEF createSchedule
    <3>2. fired[s] = Nil /\ UNCHANGED <<clock, listed, advancing, edits, fired, overlapped>>
      BY <2>8 DEF createSchedule
    <3> DEFINE row == [enabled |-> enabled, interval |-> i, nextRun |-> clock]
    <3>3. row \in Rows
      BY <2>0 DEF SchedulesTyped, Rows
    <3> HIDE DEF row
    <3>4. schedules' = [schedules EXCEPT ![s] = row]
      BY <3>1 DEF row
    <3>5. schedules' \in [Schedule -> Rows \cup {Nil}] /\ \A q \in Schedule \ {s} : schedules'[q] = schedules[q]
      BY <2>0, <3>3, <3>4 DEF SchedulesTyped
    <3>6. QED
      BY <2>0, <3>2, <3>5 DEF SchedulesInv, SchedulesTyped, RowsAreSpaced, Has, Settled
  <2>9. ASSUME NEW e \in Editors, NEW s \in Schedule, GetSchedule(e, s) PROVE SchedulesInv'
    <3> DEFINE edit == [id |-> s, row |-> schedules[s]]
    <3>1. edit \in Edit
      BY <2>0, <2>9 DEF GetSchedule, SchedulesTyped, Edit
    <3>2. edits' = [edits EXCEPT ![e] = edit] /\ UNCHANGED <<clock, schedules, listed, advancing, fired, overlapped>>
      BY <2>9 DEF GetSchedule
    <3> HIDE DEF edit
    <3>3. QED
      BY <2>0, <3>1, <3>2 DEF SchedulesInv, SchedulesTyped, RowsAreSpaced, Has, Settled
  <2>10. ASSUME NEW e \in Editors, patchSchedule(e) PROVE SchedulesInv'
    <3> DEFINE s == edits[e].id
    <3>1. edits[e] # Nil /\ edits[e] \in Edit
      BY <2>0, <2>10 DEF patchSchedule, SchedulesTyped
    <3>2. s \in Schedule /\ edits[e].row \in Rows
      BY <3>1 DEF Edit
    <3>3. PICK enabled \in BOOLEAN, i \in Intervals :
            schedules' = IF schedules[s] = Nil THEN schedules
                         ELSE [schedules EXCEPT ![s] = [edits[e].row EXCEPT !.enabled = enabled, !.interval = i]]
      BY <2>10 DEF patchSchedule
    <3>4. /\ overlapped' = IF schedules[s] # edits[e].row THEN overlapped \cup {s} ELSE overlapped
          /\ edits' = [edits EXCEPT ![e] = Nil]
          /\ UNCHANGED <<clock, listed, advancing, fired>>
      BY <2>10 DEF patchSchedule
    <3> DEFINE new == [edits[e].row EXCEPT !.enabled = enabled, !.interval = i]
    <3>5. new \in Rows /\ new.nextRun = edits[e].row.nextRun
      BY <3>2 DEF Rows
    <3>6. schedules' = IF schedules[s] = Nil THEN schedules ELSE [schedules EXCEPT ![s] = new]
      BY <3>3
    <3> HIDE DEF new, s
    <3>7. /\ schedules' \in [Schedule -> Rows \cup {Nil}]
          /\ \A q \in Schedule \ {s} : schedules'[q] = schedules[q]
          /\ schedules'[s] \in {schedules[s], new}
      BY <2>0, <3>2, <3>5, <3>6 DEF SchedulesTyped
    <3>8. SchedulesTyped'
      BY <2>0, <3>4, <3>7 DEF SchedulesTyped, Has
    <3>9. s \notin overlapped' => schedules[s] = edits[e].row
      BY <3>4
    <3>10. ASSUME NEW q \in Schedule, fired'[q] # Nil, q \notin overlapped', Settled(q)', schedules'[q] # Nil
           PROVE  Spaced(schedules'[q], fired'[q])
      <4>1. fired'[q] = fired[q] /\ q \notin overlapped /\ Settled(q)
        BY <3>4, <3>10 DEF Settled
      <4>2. CASE schedules'[q] = schedules[q]
        BY <2>0, <3>10, <4>1, <4>2 DEF RowsAreSpaced
      <4>3. CASE schedules'[q] # schedules[q]
        <5>1. q = s /\ schedules'[s] = new /\ schedules[s] = edits[e].row /\ schedules[s] # Nil
          BY <3>6, <3>7, <3>9, <3>10, <4>3
        <5>2. Spaced(schedules[s], fired[s])
          BY <2>0, <3>2, <3>10, <4>1, <5>1 DEF RowsAreSpaced
        <5>3. QED
          BY <3>5, <4>1, <5>1, <5>2 DEF Spaced
      <4>4. QED
        BY <4>2, <4>3
    <3>11. overlapped \subseteq overlapped'
      BY <3>4
    <3>12. RowsAreSpaced'
      BY <2>0, <3>4, <3>10, <3>11 DEF RowsAreSpaced, Has, Settled
    <3>13. QED
      BY <3>8, <3>12 DEF SchedulesInv
  <2>11. ASSUME NEW s \in Schedule, deleteSchedule(s) PROVE SchedulesInv'
    BY <2>0, <2>11 DEF deleteSchedule, SchedulesInv, SchedulesTyped, RowsAreSpaced, Has, Settled
  <2>12. CASE UNCHANGED scheduleVars
    BY <2>0, <2>12 DEF scheduleVars, SchedulesInv, SchedulesTyped, RowsAreSpaced, Has, Settled
  <2>13. QED
    BY <2>1, <2>2, <2>3, <2>4, <2>5, <2>6, <2>7, <2>8, <2>9, <2>10, <2>11, <2>12 DEF SchedulesNext
<1>3. QED
  BY <1>1, <1>2, PTL DEF SchedulesSpec

\* A schedule does not fire again before its interval is over, unless its row was not
\* advanced, the advance was undone, or two servers' ticks had the schedule at the same
\* time (Scheduler.RunDue, fire and nextRun).
THEOREM SpacedFirings == SchedulesSpec => FiringsAreSpaced
<1> USE ScheduleAssumption
<1>1. SchedulesInv /\ [SchedulesNext]_scheduleVars =>
        \A p \in Schedulers, s \in Schedule :
          /\ advancing[p] = Nil /\ advancing'[p] = s
          /\ fired[s] # Nil /\ s \notin overlapped
          => listed[p].at >= fired[s].at + fired[s].interval
  <2> SUFFICES ASSUME SchedulesInv, [SchedulesNext]_scheduleVars,
                      NEW p \in Schedulers, NEW s \in Schedule,
                      advancing[p] = Nil, advancing'[p] = s, fired[s] # Nil, s \notin overlapped
               PROVE  listed[p].at >= fired[s].at + fired[s].interval
    OBVIOUS
  <2>0. SchedulesTyped /\ RowsAreSpaced /\ s # Nil
    BY DEF SchedulesInv
  <2>1. PICK q \in Schedulers, r \in Schedule : fire(q, r)
    <3>1. CASE advancing' = advancing
      BY <2>0, <3>1
    <3>2. CASE \E q \in Schedulers : advancing' = [advancing EXCEPT ![q] = Nil]
      BY <2>0, <3>2 DEF SchedulesTyped
    <3>3. QED
      BY <3>1, <3>2 DEF SchedulesNext, scheduleVars, RunDue, EndOfTick, Crash, Later, Skip, createSchedule,
             deleteSchedule, UpdateSchedule, patchSchedule, GetSchedule
  <2>2. q = p /\ r = s /\ Has(p, s) /\ listed[p].at >= listed[p].rows[s].nextRun
    <3>1. advancing' = [advancing EXCEPT ![q] = r] /\ Has(q, r) /\ DueAsListed(q, r)
      BY <2>1 DEF fire
    <3>2. q = p /\ r = s
      BY <2>0, <3>1 DEF SchedulesTyped
    <3>3. QED
      BY <3>1, <3>2 DEF DueAsListed
  <2>3. Settled(s)
    BY <2>0, <2>2 DEF RowsAreSpaced, Settled
  <2>4. Spaced(listed[p].rows[s], fired[s])
    BY <2>0, <2>2, <2>3 DEF RowsAreSpaced
  <2>5. /\ listed[p].at \in Nat /\ listed[p].rows[s].nextRun \in Nat
        /\ fired[s].at \in Nat /\ fired[s].interval \in Nat
    <3>1. listed[p] \in Tick /\ fired[s] \in Firing
      BY <2>0, <2>2 DEF SchedulesTyped, Has
    <3>2. listed[p].at \in Nat /\ listed[p].rows[s] \in Rows
      BY <2>2, <3>1 DEF Has, Tick
    <3>3. QED
      BY <3>1, <3>2 DEF Rows, Firing
  <2>6. QED
    BY <2>2, <2>4, <2>5 DEF Spaced
<1>2. QED
  BY <1>1, SchedulesInvariant, PTL DEF SchedulesSpec, FiringsAreSpaced
-------------------------------------------------------------------------------
(* The sign-in throttle                                                      *)

\* The powers that Lockout uses are numbers.
LEMMA PowersOfTwo == ASSUME NEW k \in 0 .. 20 PROVE 2 ^ k \in Nat
<1>1. \/ k = 0 \/ k = 1 \/ k = 2 \/ k = 3 \/ k = 4 \/ k = 5 \/ k = 6 \/ k = 7 \/ k = 8
      \/ k = 9 \/ k = 10 \/ k = 11 \/ k = 12 \/ k = 13 \/ k = 14 \/ k = 15 \/ k = 16
      \/ k = 17 \/ k = 18 \/ k = 19 \/ k = 20
  OBVIOUS
<1>2. /\ 2 ^ 0 = 1 /\ 2 ^ 1 = 2 /\ 2 ^ 2 = 4 /\ 2 ^ 3 = 8 /\ 2 ^ 4 = 16 /\ 2 ^ 5 = 32
      /\ 2 ^ 6 = 64 /\ 2 ^ 7 = 128 /\ 2 ^ 8 = 256 /\ 2 ^ 9 = 512 /\ 2 ^ 10 = 1024
      /\ 2 ^ 11 = 2048 /\ 2 ^ 12 = 4096 /\ 2 ^ 13 = 8192 /\ 2 ^ 14 = 16384
      /\ 2 ^ 15 = 32768 /\ 2 ^ 16 = 65536 /\ 2 ^ 17 = 131072 /\ 2 ^ 18 = 262144
      /\ 2 ^ 19 = 524288 /\ 2 ^ 20 = 1048576
  OBVIOUS
<1>3. {2 ^ 0, 2 ^ 1, 2 ^ 2, 2 ^ 3, 2 ^ 4, 2 ^ 5, 2 ^ 6, 2 ^ 7, 2 ^ 8, 2 ^ 9, 2 ^ 10, 2 ^ 11,
       2 ^ 12, 2 ^ 13, 2 ^ 14, 2 ^ 15, 2 ^ 16, 2 ^ 17, 2 ^ 18, 2 ^ 19, 2 ^ 20} \subseteq Nat
  BY <1>2
<1>4. QED
  BY <1>1, <1>3, Zenon

\* A lockout is a number of instants.
LEMMA LockoutIs ==
  ASSUME NEW fails \in Nat, fails >= loginMaxFails
  PROVE  Lockout(fails) \in Nat
<1> DEFINE n == fails - loginMaxFails
           k == IF n < 20 THEN n ELSE 20
<1>1. loginMaxFails \in Nat /\ loginLockoutBase \in Nat /\ loginLockoutMax \in Nat
  BY LimiterAssumption
<1>2. k \in 0 .. 20
  BY <1>1
<1>3. 2 ^ k \in Nat
  <2> HIDE DEF k
  <2>1. QED
    BY <1>2, PowersOfTwo
<1>4. PICK power \in Nat : 2 ^ k = power
  BY <1>3
<1>5. loginLockoutBase * power \in Nat
  BY <1>1, <1>4
<1>6. Lockout(fails) = IF loginLockoutBase * power > loginLockoutMax THEN loginLockoutMax
                       ELSE loginLockoutBase * power
  BY <1>4 DEF Lockout
<1>7. QED
  BY <1>1, <1>5, <1>6

\* The limiter's entries, the attempts under way and the history of failures.
LimiterTyped ==
  /\ now \in Nat /\ nextPrune \in Nat
  /\ attempts \in [Addresses -> Entry \cup {Nowhere}]
  /\ comparing \in [Attempts -> Addresses \cup {Nowhere}]
  /\ failures \in [Addresses -> [count : Nat, last : Int]]

\* An entry is the address's failures in a row; there is none, or no more, when they are
\* too long ago and the lockout they called for is over.
Remembered(entry, history, time) ==
  /\ history.last <= time
  /\ IF entry = Nowhere
     THEN /\ time - history.last > loginWindow
          /\ history.count >= loginMaxFails => time - history.last > Lockout(history.count)
     ELSE /\ entry.fails = history.count /\ entry.last = history.last
          /\ entry.fails >= loginMaxFails => entry.until = entry.last + Lockout(entry.fails)

AllRemembered == \A a \in Addresses : Remembered(attempts[a], failures[a], now)

\* The zero time is longer ago than the window.
LEMMA LimiterConstants ==
  /\ loginMaxFails \in Nat \ {0} /\ loginWindow \in Nat \ {0} /\ Never \in Int
  /\ Never + loginWindow < 0 /\ Nowhere \notin Addresses \cup Entry
BY LimiterAssumption DEF Never

\* An address without failures needs no entry (newLoginLimiter, reset).
LEMMA EmptyRemembered ==
  ASSUME NEW time \in Nat
  PROVE  Remembered(Nowhere, NoFailures, time)
BY LimiterConstants DEF Remembered, NoFailures

\* What is remembered stays so as time passes.
LEMMA TimePasses ==
  ASSUME NEW entry \in Entry \cup {Nowhere}, NEW history \in [count : Nat, last : Int],
         NEW time \in Nat, Remembered(entry, history, time)
  PROVE  Remembered(entry, history, time + 1)
<1>1. history.count >= loginMaxFails => Lockout(history.count) \in Nat
  BY LockoutIs
<1>2. history.last \in Int /\ loginWindow \in Nat
  BY LimiterConstants
<1>3. QED
  BY <1>1, <1>2 DEF Remembered

\* prune forgets nothing that still counts.
LEMMA PrunedRemembered ==
  ASSUME LimiterTyped, AllRemembered
  PROVE  /\ prune(attempts) \in [Addresses -> Entry \cup {Nowhere}]
         /\ \A a \in Addresses : Remembered(prune(attempts)[a], failures[a], now)
         /\ PrunedUntil \in Nat
<1>1. PrunedUntil \in Nat
  BY LimiterConstants DEF PrunedUntil, LimiterTyped
<1>2. CASE now < nextPrune
  BY <1>1, <1>2 DEF prune, LimiterTyped, AllRemembered
<1>3. CASE ~(now < nextPrune)
  <2>1. ASSUME NEW a \in Addresses
        PROVE  /\ prune(attempts)[a] \in Entry \cup {Nowhere}
               /\ Remembered(prune(attempts)[a], failures[a], now)
    <3>1. attempts[a] \in Entry \cup {Nowhere} /\ Remembered(attempts[a], failures[a], now)
      BY DEF LimiterTyped, AllRemembered
    <3>2. CASE /\ attempts[a] # Nowhere
               /\ now - attempts[a].last > loginWindow /\ now > attempts[a].until
      <4>1. prune(attempts)[a] = Nowhere
        BY <1>3, <3>2 DEF prune
      <4>2. attempts[a] \in Entry /\ failures[a].count \in Nat /\ now \in Nat
        BY <3>1, <3>2 DEF LimiterTyped
      <4>3. failures[a].count >= loginMaxFails => Lockout(failures[a].count) \in Nat
        BY <4>2, LockoutIs
      <4>4. Remembered(Nowhere, failures[a], now)
        BY <3>1, <3>2, <4>2, <4>3 DEF Remembered, Entry
      <4>5. QED
        BY <4>1, <4>4
    <3>3. CASE ~(/\ attempts[a] # Nowhere
                 /\ now - attempts[a].last > loginWindow /\ now > attempts[a].until)
      <4>1. prune(attempts)[a] = attempts[a]
        BY <1>3, <3>3 DEF prune
      <4>2. QED
        BY <3>1, <4>1
    <3>4. QED
      BY <3>2, <3>3
  <2>2. prune(attempts) = [a \in Addresses |-> prune(attempts)[a]]
    BY <1>3 DEF prune
  <2>3. QED
    BY <1>1, <2>1, <2>2
<1>4. QED
  BY <1>2, <1>3

\* fail counts one more failure, or the first one after a pause (loginWindow).
LEMMA FailureRemembered ==
  ASSUME now \in Nat, NEW entry \in Entry \cup {Nowhere}, NEW history \in [count : Nat, last : Int],
         Remembered(entry, history, now)
  PROVE  LET next == [count |-> IF now - history.last > loginWindow THEN 1 ELSE history.count + 1,
                      last |-> now] IN
         /\ Failed(entry) \in Entry
         /\ next \in [count : Nat, last : Int]
         /\ Remembered(Failed(entry), next, now)
<1> DEFINE old == IF entry = Nowhere THEN [fails |-> 0, until |-> Never, last |-> Never] ELSE entry
           fails == IF now - old.last > loginWindow THEN 1 ELSE old.fails + 1
           until == IF fails >= loginMaxFails THEN now + Lockout(fails) ELSE old.until
           next == [count |-> IF now - history.last > loginWindow THEN 1 ELSE history.count + 1,
                    last |-> now]
<1>1. old \in Entry
  BY LimiterConstants DEF Entry
<1>2. Failed(entry) = [fails |-> fails, last |-> now, until |-> until]
  BY DEF Failed
<1>3. fails = next.count /\ fails \in Nat
  <2>1. CASE entry = Nowhere
    <3>1. now - old.last > loginWindow /\ now - history.last > loginWindow
      BY <2>1, LimiterConstants DEF Remembered
    <3>2. QED
      BY <3>1
  <2>2. CASE entry # Nowhere
    <3>1. old.last = history.last /\ old.fails = history.count
      BY <2>2 DEF Remembered
    <3>2. QED
      BY <3>1
  <2>3. QED
    BY <2>1, <2>2
<1> HIDE DEF fails
<1>4. fails >= loginMaxFails => Lockout(fails) \in Nat
  BY <1>3, LockoutIs
<1>5. until \in Int
  <2>1. old.until \in Int
    BY <1>1 DEF Entry
  <2> HIDE DEF old
  <2>2. QED
    BY <1>4, <2>1
<1>6. Failed(entry) \in Entry /\ next \in [count : Nat, last : Int]
  BY <1>2, <1>3, <1>5 DEF Entry
<1>7. Failed(entry) # Nowhere
  BY <1>6, LimiterConstants
<1>8. /\ Failed(entry).fails = fails /\ Failed(entry).last = now /\ Failed(entry).until = until
      /\ next.last = now
  BY <1>2
<1>9. Remembered(Failed(entry), next, now)
  <2> HIDE DEF next
  <2>1. QED
    BY <1>3, <1>7, <1>8 DEF Remembered
<1>10. QED
  BY <1>6, <1>9

\* The entries are the failures in a row, in every state of the limiter.
LEMMA LimiterInvariant == LimiterSpec => [](LimiterTyped /\ AllRemembered)
<1>1. LimiterInit => LimiterTyped /\ AllRemembered
  <2>1. NoFailures \in [count : Nat, last : Int]
    BY LimiterConstants DEF NoFailures
  <2>2. QED
    BY <2>1, EmptyRemembered DEF LimiterInit, LimiterTyped, AllRemembered
<1>2. LimiterTyped /\ AllRemembered /\ [LimiterNext]_limiterVars => (LimiterTyped /\ AllRemembered)'
  <2> SUFFICES ASSUME LimiterTyped, AllRemembered, [LimiterNext]_limiterVars
               PROVE  (LimiterTyped /\ AllRemembered)'
    OBVIOUS
  <2>0. NoFailures \in [count : Nat, last : Int]
    BY LimiterConstants DEF NoFailures
  <2>1. CASE Pass
    <3>1. now' = now + 1 /\ UNCHANGED <<attempts, nextPrune, comparing, failures>>
      BY <2>1 DEF Pass
    <3>2. now \in Nat /\ now' \in Nat
      BY <3>1 DEF LimiterTyped
    <3>3. \A a \in Addresses : Remembered(attempts[a], failures[a], now + 1)
      BY <3>2, TimePasses DEF LimiterTyped, AllRemembered
    <3>4. QED
      BY <3>1, <3>2, <3>3 DEF LimiterTyped, AllRemembered, Remembered
  <2>2. CASE newLoginLimiter
    <3>1. now' = now /\ now \in Nat
      BY <2>2 DEF newLoginLimiter, LimiterTyped
    <3>2. LimiterTyped'
      BY <2>0, <2>2, <3>1 DEF newLoginLimiter, LimiterTyped
    <3>3. \A a \in Addresses : attempts'[a] = Nowhere /\ failures'[a] = NoFailures
      BY <2>2 DEF newLoginLimiter
    <3>4. \A a \in Addresses : Remembered(attempts'[a], failures'[a], now')
      BY <3>1, <3>3, EmptyRemembered
    <3>5. QED
      BY <3>2, <3>4 DEF AllRemembered, Remembered
  <2>3. ASSUME NEW i \in Attempts, fail(i) PROVE (LimiterTyped /\ AllRemembered)'
    <3> DEFINE a == comparing[i]
               kept == prune(attempts)
               next == [count |-> IF now - failures[a].last > loginWindow THEN 1
                                  ELSE failures[a].count + 1,
                        last |-> now]
    <3>1. /\ a # Nowhere
          /\ attempts' = [kept EXCEPT ![a] = Failed(kept[a])]
          /\ nextPrune' = PrunedUntil
          /\ comparing' = [comparing EXCEPT ![i] = Nowhere]
          /\ failures' = [failures EXCEPT ![a] = next]
          /\ now' = now
      BY <2>3 DEF fail
    <3>2. a \in Addresses
      BY <3>1 DEF LimiterTyped
    <3>3. /\ kept \in [Addresses -> Entry \cup {Nowhere}]
          /\ \A b \in Addresses : Remembered(kept[b], failures[b], now)
          /\ PrunedUntil \in Nat
      BY PrunedRemembered
    <3>4. /\ Failed(kept[a]) \in Entry
          /\ next \in [count : Nat, last : Int]
          /\ Remembered(Failed(kept[a]), next, now)
      <4>1. /\ now \in Nat /\ kept[a] \in Entry \cup {Nowhere}
            /\ failures[a] \in [count : Nat, last : Int]
            /\ Remembered(kept[a], failures[a], now)
        BY <3>2, <3>3 DEF LimiterTyped
      <4> HIDE DEF kept, a
      <4>2. QED
        BY <4>1, FailureRemembered
    <3> HIDE DEF kept, next, a
    <3>5. LimiterTyped'
      BY <3>1, <3>2, <3>3, <3>4 DEF LimiterTyped
    <3>6. \A b \in Addresses :
            IF b = a THEN attempts'[b] = Failed(kept[a]) /\ failures'[b] = next
            ELSE attempts'[b] = kept[b] /\ failures'[b] = failures[b]
      BY <3>1, <3>3 DEF LimiterTyped
    <3>7. \A b \in Addresses : Remembered(attempts'[b], failures'[b], now)
      BY <3>3, <3>4, <3>6
    <3>8. QED
      BY <3>1, <3>5, <3>7 DEF AllRemembered, Remembered
  <2>4. ASSUME NEW i \in Attempts, reset(i) PROVE (LimiterTyped /\ AllRemembered)'
    <3> DEFINE a == comparing[i]
    <3>1. /\ a \in Addresses /\ now' = now /\ now \in Nat /\ nextPrune' = nextPrune
          /\ attempts' = [attempts EXCEPT ![a] = Nowhere]
          /\ failures' = [failures EXCEPT ![a] = NoFailures]
          /\ comparing' = [comparing EXCEPT ![i] = Nowhere]
      BY <2>4 DEF reset, LimiterTyped
    <3> HIDE DEF a
    <3>2. LimiterTyped'
      BY <2>0, <3>1 DEF LimiterTyped
    <3>3. \A b \in Addresses :
            IF b = a THEN attempts'[b] = Nowhere /\ failures'[b] = NoFailures
            ELSE attempts'[b] = attempts[b] /\ failures'[b] = failures[b]
      BY <3>1 DEF LimiterTyped
    <3>4. \A b \in Addresses : Remembered(attempts'[b], failures'[b], now)
      BY <3>1, <3>3, EmptyRemembered DEF AllRemembered
    <3>5. QED
      BY <3>1, <3>2, <3>4 DEF AllRemembered, Remembered
  <2>5. ASSUME NEW i \in Attempts, GiveUp(i) PROVE (LimiterTyped /\ AllRemembered)'
    BY <2>5 DEF GiveUp, LimiterTyped, AllRemembered, Remembered
  <2>6. ASSUME NEW i \in Attempts, NEW a \in Addresses, retryAfter(i, a)
        PROVE  (LimiterTyped /\ AllRemembered)'
    <3>1. /\ attempts' = prune(attempts) /\ nextPrune' = PrunedUntil
          /\ now' = now /\ failures' = failures
      BY <2>6 DEF retryAfter
    <3>2. comparing' \in [Attempts -> Addresses \cup {Nowhere}]
      BY <2>6 DEF retryAfter, LimiterTyped
    <3>3. /\ prune(attempts) \in [Addresses -> Entry \cup {Nowhere}]
          /\ \A b \in Addresses : Remembered(prune(attempts)[b], failures[b], now)
          /\ PrunedUntil \in Nat
      BY PrunedRemembered
    <3>4. QED
      BY <3>1, <3>2, <3>3 DEF LimiterTyped, AllRemembered, Remembered
  <2>7. CASE UNCHANGED limiterVars
    BY <2>7 DEF limiterVars, LimiterTyped, AllRemembered, Remembered
  <2>8. QED
    BY <2>1, <2>2, <2>3, <2>4, <2>5, <2>6, <2>7 DEF LimiterNext
<1>3. QED
  BY <1>1, <1>2, PTL DEF LimiterSpec

\* Every failure counts towards the lockout: for any number of addresses and overlapping
\* attempts, whenever entries are pruned, an address that failed too often is locked out for
\* as long as all its failures call for (loginLimiter.fail, retryAfter, prune).
THEOREM EveryFailureCounts == LimiterSpec => []FailuresLockOut
<1>1. LimiterTyped /\ AllRemembered => FailuresLockOut
  <2> SUFFICES ASSUME LimiterTyped, AllRemembered, NEW a \in Addresses,
                      failures[a].count >= loginMaxFails,
                      now - failures[a].last < Lockout(failures[a].count)
               PROVE  LockedOut(attempts, a)
    BY DEF FailuresLockOut
  <2>1. /\ failures[a].count \in Nat /\ failures[a].last \in Int /\ now \in Nat
        /\ attempts[a] \in Entry \cup {Nowhere}
        /\ Remembered(attempts[a], failures[a], now)
    BY DEF LimiterTyped, AllRemembered
  <2>2. Lockout(failures[a].count) \in Nat
    BY <2>1, LockoutIs
  <2>3. attempts[a] # Nowhere
    BY <2>1, <2>2 DEF Remembered
  <2>4. attempts[a].until = failures[a].last + Lockout(failures[a].count)
    BY <2>1, <2>3 DEF Remembered
  <2>5. QED
    BY <2>1, <2>2, <2>3, <2>4 DEF LockedOut
<1>2. QED
  BY <1>1, LimiterInvariant, PTL
-------------------------------------------------------------------------------
(* Accounts                                                                  *)

USE NoneAssumption

\* The routes whose handlers hold the row they write.
Holders == selfService \cup {"patchUser"}
HasRow(r) == requests[r] # None /\ requests[r].route \in Holders

\* What must be true of account u's row wherever it is, since it may be written at any time.
Safe(u, row) ==
  /\ ~row.mustChange => <<u, row.password>> \in chosen
  /\ row.mfa => row.secret \in proven

\* An id is never issued twice, so that a row that a handler holds cannot come to
\* be another account's.
IssuedIds ==
  /\ \A u \in Ids : users[u] # None => u \in issued
  /\ \A r \in Requests : requests[r] # None => requests[r].user \in issued

SafeRows ==
  /\ \A u \in Ids : users[u] # None => Safe(u, users[u])
  /\ \A r \in Requests : HasRow(r) => requests[r].row \in Row /\ Safe(requests[r].user, requests[r].row)

\* A fresh row is what the table holds, unless the account was deleted meanwhile.
FreshRows ==
  \A r \in Requests :
    HasRow(r) /\ requests[r].fresh /\ users[requests[r].user] # None =>
      requests[r].row = users[requests[r].user]

AccountsInv == TypeOK /\ IssuedIds /\ SafeRows /\ FreshRows
-------------------------------------------------------------------------------
\* Writing a row that is safe keeps the invariant, whatever was written since the
\* row was read.
LEMMA UpdateUserKeeps ==
  ASSUME AccountsInv, NEW r \in Requests, requests[r] # None, NEW row \in Row, UpdateUser(r, row),
         ~row.mustChange => <<requests[r].user, row.password>> \in chosen',
         row.mfa => row.secret \in proven',
         proven \subseteq proven', proven' \subseteq Secrets,
         chosen \subseteq chosen', chosen' \subseteq Ids \X Passwords,
         issued \subseteq issued', issued' \subseteq Ids \cup Secrets, sessions' = sessions
  PROVE  AccountsInv'
<1> DEFINE u == requests[r].user
<1>1. /\ u \in Ids
      /\ users' = [users EXCEPT ![u] = IF users[u] = None THEN None ELSE row]
  BY DEF AccountsInv, TypeOK, Handling, UpdateUser
<1>2. ASSUME NEW q \in Requests, requests'[q] # None
      PROVE  /\ q # r /\ requests[q] # None
             /\ requests'[q] \in Handling
             /\ requests'[q].route = requests[q].route
             /\ requests'[q].user = requests[q].user
             /\ requests'[q].row = requests[q].row
             /\ requests'[q].row # None /\ requests'[q].fresh => requests[q].fresh /\ requests[q].user # u
  <2>1. q # r /\ requests[q] # None /\ requests[q] \in Handling
    BY <1>2 DEF AccountsInv, TypeOK, UpdateUser
  <2>2. CASE requests[q].user = u /\ requests[q].row # None
    <3>1. requests'[q] = [requests[q] EXCEPT !.fresh = FALSE]
      BY <2>1, <2>2 DEF UpdateUser
    <3>2. QED
      BY <2>1, <3>1 DEF Handling
  <2>3. CASE ~(requests[q].user = u /\ requests[q].row # None)
    <3>1. requests'[q] = requests[q]
      BY <2>1, <2>3 DEF UpdateUser
    <3>2. QED
      BY <2>1, <2>3, <3>1
  <2>4. QED
    BY <2>2, <2>3
<1>3. TypeOK'
  <2>1. requests' \in [Requests -> Handling \cup {None}]
    BY <1>2 DEF UpdateUser
  <2>2. users' \in [Ids -> Row \cup {None}]
    BY <1>1 DEF AccountsInv, TypeOK
  <2>3. QED
    BY <2>1, <2>2 DEF AccountsInv, TypeOK
<1>4. IssuedIds'
  BY <1>1, <1>2 DEF AccountsInv, TypeOK, IssuedIds
<1>5. SafeRows'
  <2>1. ASSUME NEW v \in Ids, users'[v] # None PROVE Safe(v, users[v])'
    BY <1>1, <2>1 DEF AccountsInv, TypeOK, SafeRows, Safe
  <2>2. ASSUME NEW q \in Requests, HasRow(q)' PROVE requests'[q].row \in Row /\ Safe(requests[q].user, requests[q].row)'
    BY <1>2, <2>2 DEF AccountsInv, SafeRows, Safe, HasRow
  <2>3. QED
    BY <2>1, <2>2 DEF SafeRows
<1>6. FreshRows'
  <2> SUFFICES ASSUME NEW q \in Requests, HasRow(q)', requests'[q].fresh, users'[requests'[q].user] # None
               PROVE  requests'[q].row = users'[requests'[q].user]
    BY DEF FreshRows
  <2>1. HasRow(q) /\ requests[q].row \in Row /\ requests[q].user \in Ids
    BY <1>2 DEF HasRow, AccountsInv, SafeRows, TypeOK, Handling
  <2>2. requests[q].fresh /\ requests[q].user # u
    BY <1>2, <2>1 DEF HasRow
  <2>3. users'[requests[q].user] = users[requests[q].user]
    BY <1>1, <2>1, <2>2 DEF AccountsInv, TypeOK
  <2>4. QED
    BY <1>2, <2>1, <2>2, <2>3 DEF AccountsInv, FreshRows, HasRow
<1>7. QED
  BY <1>3, <1>4, <1>5, <1>6 DEF AccountsInv
-------------------------------------------------------------------------------
\* A request that ends, without a write to a row it holds, keeps what the others
\* hold.
LEMMA Ended ==
  ASSUME AccountsInv, NEW r \in Requests, Done(r)
  PROVE  /\ requests' \in [Requests -> Handling \cup {None}]
         /\ \A q \in Requests : requests'[q] # None => requests'[q] = requests[q]
BY DEF AccountsInv, TypeOK, Done

\* When rows only come and go, and no handler takes one, the invariant stays.
LEMMA RowsComeAndGo ==
  ASSUME AccountsInv, proven' = proven,
         chosen \subseteq chosen', chosen' \subseteq Ids \X Passwords,
         issued \subseteq issued', issued' \subseteq Ids \cup Secrets,
         sessions' \in [Tokens -> Ids \cup {None}],
         requests' \in [Requests -> Handling \cup {None}],
         \A q \in Requests : requests'[q] # None => requests'[q] = requests[q],
         users' \in [Ids -> Row \cup {None}],
         \A v \in Ids : users'[v] # None =>
           \/ users'[v] = users[v]
           \/ /\ v \notin issued /\ v \in issued'
              /\ ~users'[v].mustChange => <<v, users'[v].password>> \in chosen'
              /\ ~users'[v].mfa
  PROVE  AccountsInv'
<1>1. TypeOK'
  BY DEF AccountsInv, TypeOK
<1>2. IssuedIds'
  BY DEF AccountsInv, TypeOK, IssuedIds
<1>3. SafeRows'
  <2>1. ASSUME NEW v \in Ids, users'[v] # None PROVE Safe(v, users[v])'
    <3>1. CASE users'[v] = users[v]
      BY <2>1, <3>1 DEF AccountsInv, SafeRows, Safe
    <3>2. CASE users'[v] # users[v]
      BY <2>1, <3>2 DEF Safe
    <3>3. QED
      BY <3>1, <3>2
  <2>2. ASSUME NEW q \in Requests, HasRow(q)'
        PROVE  requests'[q].row \in Row /\ Safe(requests[q].user, requests[q].row)'
    BY <2>2 DEF AccountsInv, SafeRows, Safe, HasRow
  <2>3. QED
    BY <2>1, <2>2 DEF SafeRows
<1>4. FreshRows'
  <2> SUFFICES ASSUME NEW q \in Requests, HasRow(q)', requests'[q].fresh, users'[requests'[q].user] # None
               PROVE  requests'[q].row = users'[requests'[q].user]
    BY DEF FreshRows
  <2>1. requests'[q] = requests[q] /\ HasRow(q) /\ requests[q].user \in Ids /\ requests[q].user \in issued
    BY DEF AccountsInv, TypeOK, Handling, IssuedIds, HasRow
  <2>2. users'[requests[q].user] = users[requests[q].user]
    BY <2>1
  <2>3. QED
    BY <2>1, <2>2 DEF AccountsInv, FreshRows
<1>5. QED
  BY <1>1, <1>2, <1>3, <1>4 DEF AccountsInv

\* A request that comes in holds the row the table has, or none.
LEMMA RequestComesIn ==
  ASSUME AccountsInv, NEW r \in Requests, NEW route \in Routes \cup {"login"}, NEW u \in Ids,
         users[u] # None, NEW row, row = users[u] \/ (row = None /\ route \notin Holders),
         requests' = [requests EXCEPT ![r] =
           [route |-> route, user |-> u, row |-> row, fresh |-> TRUE]],
         UNCHANGED <<users, sessions, issued, proven, chosen>>
  PROVE  AccountsInv'
<1>1. [route |-> route, user |-> u, row |-> row, fresh |-> TRUE] \in Handling
  BY DEF AccountsInv, TypeOK, Handling
<1>2. TypeOK'
  BY <1>1 DEF AccountsInv, TypeOK
<1>3. IssuedIds'
  BY DEF AccountsInv, TypeOK, IssuedIds
<1>4. SafeRows'
  BY DEF AccountsInv, TypeOK, SafeRows, Safe, HasRow
<1>5. FreshRows'
  BY DEF AccountsInv, TypeOK, FreshRows, HasRow
<1>6. QED
  BY <1>2, <1>3, <1>4, <1>5 DEF AccountsInv
-------------------------------------------------------------------------------
LEMMA AccountsInvariant == Spec => []AccountsInv
<1>1. Init => AccountsInv
  BY DEF Init, AccountsInv, TypeOK, IssuedIds, SafeRows, FreshRows, HasRow
<1>2. AccountsInv /\ [Next]_vars => AccountsInv'
  <2> SUFFICES ASSUME AccountsInv, [Next]_vars PROVE AccountsInv'
    OBVIOUS
  <2>1. CASE bootstrapAdmin
    <3>1. PICK u \in Ids \ issued, generated \in BOOLEAN, p \in Passwords :
            /\ users' = [users EXCEPT ![u] = NewRow("admin", p, generated)]
            /\ issued' = issued \cup {u}
            /\ chosen' = IF generated THEN chosen ELSE chosen \cup {<<u, p>>}
      BY <2>1 DEF bootstrapAdmin
    <3> DEFINE row == NewRow("admin", p, generated)
    <3>2. row \in Row /\ ~row.mfa /\ (~row.mustChange => <<u, row.password>> \in chosen')
      BY <3>1 DEF NewRow, Row, Roles
    <3>3. chosen \subseteq chosen' /\ chosen' \subseteq Ids \X Passwords
      BY <3>1 DEF AccountsInv, TypeOK
    <3> HIDE DEF row
    <3>4. users' = [users EXCEPT ![u] = row]
      BY <3>1 DEF row
    <3>5. QED
      BY <2>1, <3>1, <3>2, <3>3, <3>4, RowsComeAndGo DEF bootstrapAdmin, AccountsInv, TypeOK
  <2>2. CASE Restart
    BY <2>2, RowsComeAndGo DEF Restart, AccountsInv, TypeOK
  <2>3. ASSUME NEW t \in Tokens, Expire(t) PROVE AccountsInv'
    BY <2>3, RowsComeAndGo DEF Expire, AccountsInv, TypeOK
  <2>4. ASSUME NEW r \in Requests, Refuse(r) PROVE AccountsInv'
    BY <2>4, Ended, RowsComeAndGo DEF Refuse, AccountsInv, TypeOK
  <2>5. ASSUME NEW r \in Requests, setupMFA(r) PROVE AccountsInv'
    <3>1. requests[r] # None /\ requests[r].row \in Row /\ Safe(requests[r].user, requests[r].row)
      BY <2>5 DEF setupMFA, At, AccountsInv, SafeRows, HasRow, Holders, selfService
    <3>2. PICK s \in Secrets \ issued :
            /\ UpdateUser(r, [requests[r].row EXCEPT !.secret = s, !.mfa = FALSE])
            /\ issued' = issued \cup {s}
      BY <2>5 DEF setupMFA
    <3> DEFINE row == [requests[r].row EXCEPT !.secret = s, !.mfa = FALSE]
    <3>3. row \in Row /\ (~row.mustChange => <<requests[r].user, row.password>> \in chosen) /\ ~row.mfa
      BY <3>1 DEF Row, Safe
    <3>4. issued' \subseteq Ids \cup Secrets /\ proven \subseteq Secrets /\ chosen \subseteq Ids \X Passwords
      BY <3>2 DEF AccountsInv, TypeOK
    <3> HIDE DEF row
    <3>5. UpdateUser(r, row)
      BY <3>2 DEF row
    <3>6. QED
      BY <2>5, <3>1, <3>2, <3>3, <3>4, <3>5, UpdateUserKeeps DEF setupMFA
  <2>6. ASSUME NEW r \in Requests, confirmMFA(r) PROVE AccountsInv'
    <3> DEFINE row == [requests[r].row EXCEPT !.mfa = TRUE]
    <3>1. requests[r] # None /\ requests[r].row \in Row /\ Safe(requests[r].user, requests[r].row)
      BY <2>6 DEF confirmMFA, At, AccountsInv, SafeRows, HasRow, Holders, selfService
    <3>2. /\ requests[r].row.secret \in Secrets
          /\ UpdateUser(r, row)
          /\ proven' = proven \cup {requests[r].row.secret}
          /\ sessions' = sessions /\ issued' = issued /\ chosen' = chosen
      BY <2>6, <3>1 DEF confirmMFA, Row
    <3>3. row \in Row /\ (~row.mustChange => <<requests[r].user, row.password>> \in chosen) /\ row.secret \in proven'
      BY <3>1, <3>2 DEF Row, Safe
    <3>4. issued \subseteq Ids \cup Secrets /\ proven \subseteq Secrets /\ chosen \subseteq Ids \X Passwords
      BY DEF AccountsInv, TypeOK
    <3> HIDE DEF row
    <3>5. QED
      BY <3>1, <3>2, <3>3, <3>4, UpdateUserKeeps
  <2>7. ASSUME NEW r \in Requests, disableMFA(r) PROVE AccountsInv'
    <3> DEFINE row == [requests[r].row EXCEPT !.secret = None, !.mfa = FALSE]
    <3>1. requests[r] # None /\ requests[r].row \in Row /\ Safe(requests[r].user, requests[r].row)
      BY <2>7 DEF disableMFA, At, AccountsInv, SafeRows, HasRow, Holders, selfService
    <3>2. UpdateUser(r, row) /\ UNCHANGED <<sessions, issued, proven, chosen>>
      BY <2>7 DEF disableMFA
    <3>3. row \in Row /\ (~row.mustChange => <<requests[r].user, row.password>> \in chosen) /\ ~row.mfa
      BY <3>1 DEF Row, Safe
    <3>4. issued \subseteq Ids \cup Secrets /\ proven \subseteq Secrets /\ chosen \subseteq Ids \X Passwords
      BY DEF AccountsInv, TypeOK
    <3> HIDE DEF row
    <3>5. QED
      BY <3>1, <3>2, <3>3, <3>4, UpdateUserKeeps
  <2>8. ASSUME NEW r \in Requests, changeOwnPassword(r) PROVE AccountsInv'
    <3>1. requests[r] # None /\ requests[r].row \in Row /\ Safe(requests[r].user, requests[r].row)
      BY <2>8 DEF changeOwnPassword, At, AccountsInv, SafeRows, HasRow, Holders, selfService
    <3>2. PICK p \in Passwords : p # requests[r].row.password /\ ChangeTo(r, p)
      BY <2>8 DEF changeOwnPassword
    <3> DEFINE row == [requests[r].row EXCEPT !.password = p, !.mustChange = FALSE]
    <3>3. /\ UpdateUser(r, row) /\ chosen' = chosen \cup {<<requests[r].user, p>>}
          /\ UNCHANGED <<sessions, issued, proven>>
      BY <2>8, <3>2 DEF changeOwnPassword, ChangeTo
    <3>4. row \in Row /\ row.password = p /\ (row.mfa => row.secret \in proven)
      BY <3>1 DEF Row, Safe
    <3>5. /\ issued \subseteq Ids \cup Secrets /\ proven \subseteq Secrets
          /\ chosen \subseteq chosen' /\ chosen' \subseteq Ids \X Passwords
      BY <3>1, <3>3 DEF AccountsInv, TypeOK, Handling
    <3> HIDE DEF row
    <3>6. <<requests[r].user, row.password>> \in chosen'
      BY <3>3, <3>4
    <3>7. QED
      BY <3>1, <3>3, <3>4, <3>5, <3>6, UpdateUserKeeps
  <2>9. ASSUME NEW r \in Requests, createUser(r) PROVE AccountsInv'
    <3>1. PICK u \in Ids \ issued, role \in Roles, p \in Passwords :
            /\ users' = [users EXCEPT ![u] = NewRow(role, p, TRUE)]
            /\ issued' = issued \cup {u}
      BY <2>9 DEF createUser
    <3>2. NewRow(role, p, TRUE) \in Row
      BY DEF NewRow, Row
    <3>3. QED
      BY <2>9, <3>1, <3>2, Ended, RowsComeAndGo DEF createUser, NewRow, AccountsInv, TypeOK
  <2>10. ASSUME NEW r \in Requests, patchUser(r) PROVE AccountsInv'
    <3> DEFINE row == requests[r].row
    <3>1. requests[r] # None /\ row \in Row /\ Safe(requests[r].user, row)
      BY <2>10 DEF patchUser, At, AccountsInv, SafeRows, HasRow, Holders
    <3>2. issued \subseteq Ids \cup Secrets /\ proven \subseteq Secrets /\ chosen \subseteq Ids \X Passwords
      BY DEF AccountsInv, TypeOK
    <3>3. PICK new \in Row :
            /\ UpdateUser(r, new)
            /\ ~new.mustChange => <<requests[r].user, new.password>> \in chosen
            /\ new.mfa = row.mfa /\ new.secret = row.secret
      <4>1. CASE \E role \in Roles : UpdateUser(r, [row EXCEPT !.role = role])
        <5>1. PICK role \in Roles : UpdateUser(r, [row EXCEPT !.role = role])
          BY <4>1
        <5>2. [row EXCEPT !.role = role] \in Row
          BY <3>1 DEF Row
        <5>3. QED
          BY <3>1, <5>1, <5>2 DEF Row, Safe
      <4>2. CASE \E disabled \in BOOLEAN : UpdateUser(r, [row EXCEPT !.disabled = disabled])
        <5>1. PICK disabled \in BOOLEAN : UpdateUser(r, [row EXCEPT !.disabled = disabled])
          BY <4>2
        <5>2. [row EXCEPT !.disabled = disabled] \in Row
          BY <3>1 DEF Row
        <5>3. QED
          BY <3>1, <5>1, <5>2 DEF Row, Safe
      <4>3. CASE \E p \in Passwords : UpdateUser(r, [row EXCEPT !.password = p, !.mustChange = TRUE])
        <5>1. PICK p \in Passwords : UpdateUser(r, [row EXCEPT !.password = p, !.mustChange = TRUE])
          BY <4>3
        <5> DEFINE byAdmin == [row EXCEPT !.password = p, !.mustChange = TRUE]
        <5>2. byAdmin \in Row /\ byAdmin.mustChange /\ byAdmin.mfa = row.mfa /\ byAdmin.secret = row.secret
          BY <3>1 DEF Row
        <5>3. UpdateUser(r, byAdmin)
          BY <5>1
        <5> HIDE DEF byAdmin
        <5>4. QED
          BY <5>2, <5>3
      <4>4. QED
        BY <2>10, <4>1, <4>2, <4>3 DEF patchUser
    <3>4. UNCHANGED <<sessions, issued, proven, chosen>>
      BY <2>10 DEF patchUser
    <3> HIDE DEF row
    <3>5. new.mfa => new.secret \in proven
      BY <3>1, <3>3 DEF Safe
    <3>6. QED
      BY <3>1, <3>2, <3>3, <3>4, <3>5, UpdateUserKeeps DEF row
  <2>11. ASSUME NEW r \in Requests, NEW u \in Ids, Login(r, u) PROVE AccountsInv'
    BY <2>11, RequestComesIn DEF Login, Serving, Holders, selfService
  <2>12. ASSUME NEW r \in Requests, NEW u \in Ids, deleteUser(r, u) PROVE AccountsInv'
    BY <2>12, Ended, RowsComeAndGo DEF deleteUser, AccountsInv, TypeOK
  <2>13. ASSUME NEW r \in Requests, NEW t \in Tokens, CreateSession(r, t) PROVE AccountsInv'
    <3>1. requests[r].user \in Ids
      BY <2>13 DEF CreateSession, At, AccountsInv, TypeOK, Handling
    <3>2. QED
      BY <2>13, <3>1, Ended, RowsComeAndGo DEF CreateSession, AccountsInv, TypeOK
  <2>14. ASSUME NEW r \in Requests, NEW t \in Tokens, logout(r, t) PROVE AccountsInv'
    BY <2>14, Ended, RowsComeAndGo DEF logout, AccountsInv, TypeOK
  <2>15. ASSUME NEW r \in Requests, NEW t \in Tokens, NEW route \in Writes, Enter(r, t, route)
         PROVE  AccountsInv'
    <3>1. /\ SessionUser(t) \in Ids
          /\ users[SessionUser(t)] # None
      BY <2>15 DEF Enter, authMiddleware, SessionUser, AccountsInv, TypeOK
    <3>2. route \in Routes /\ route # "patchUser"
      BY DEF Writes, Routes, adminOnly, selfService, passwordChangePath
    <3>3. CASE route \in selfService
      BY <2>15, <3>1, <3>2, <3>3, RequestComesIn DEF Enter, Holding
    <3>4. CASE route \notin selfService
      BY <2>15, <3>1, <3>2, <3>4, RequestComesIn DEF Enter, Serving, Holders
    <3>5. QED
      BY <3>3, <3>4
  <2>16. ASSUME NEW r \in Requests, NEW t \in Tokens, NEW u \in Ids, EnterPatch(r, t, u)
         PROVE  AccountsInv'
    <3>1. "patchUser" \in Routes
      BY DEF Routes, adminOnly
    <3>2. QED
      BY <2>16, <3>1, RequestComesIn DEF EnterPatch, Holding
  <2>17. CASE UNCHANGED vars
    BY <2>17 DEF vars, AccountsInv, TypeOK, IssuedIds, SafeRows, FreshRows, Safe, HasRow
  <2>18. QED
    BY <2>1, <2>2, <2>3, <2>4, <2>5, <2>6, <2>7, <2>8, <2>9, <2>10, <2>11, <2>12, <2>13,
       <2>14, <2>15, <2>16, <2>17 DEF Next
<1>3. QED
  BY <1>1, <1>2, PTL DEF Spec
-------------------------------------------------------------------------------
\* Type correctness: handlers that write whole rows, and rows and sessions that are
\* deleted under them, keep the types of the tables and of what requests hold.
THEOREM AccountsTyped == Spec => []TypeOK
BY AccountsInvariant, PTL DEF AccountsInv

\* What an account may keep is a password that its holder has chosen over another one:
\* the row that a handler writes was read together with the demand to change it
\* (patchUser, changeOwnPassword, UpdateUser).  It may be one that someone else knows:
\* the holder can choose it again.
THEOREM ToldPasswords == Spec => []ToldPasswordsMustChange
<1>1. AccountsInv => ToldPasswordsMustChange
  BY DEF AccountsInv, SafeRows, Safe, ToldPasswordsMustChange
<1>2. QED
  BY <1>1, AccountsInvariant, PTL

\* A second factor is enabled with a secret that a right code was given for, whichever
\* handlers' rows are written in between (setupMFA, confirmMFA, UpdateUser).
THEOREM ProvenFactors == Spec => []EnabledFactorIsProven
<1>1. AccountsInv => EnabledFactorIsProven
  BY DEF AccountsInv, SafeRows, Safe, EnabledFactorIsProven
<1>2. QED
  BY <1>1, AccountsInvariant, PTL
-------------------------------------------------------------------------------
Fields == {"role", "password", "mustChange", "disabled", "secret", "mfa"}

LEMMA FieldsOfRow == ASSUME NEW row \in Row PROVE DOMAIN row = Fields
BY DEF Row, Fields

\* What one step may do to the rows of a request that ends with it.
Scoped(r) ==
  requests[r] # None /\ requests'[r] = None /\ requests[r].fresh =>
    \A u \in Ids : users[u] # None /\ users'[u] # None =>
      \A f \in Fields :
        users'[u][f] # users[u][f] => u = requests[r].user /\ f \in Scope(requests[r].route)

\* The only request that ends in a step that writes a row is the one that writes it, and
\* what it writes differs from the row it holds in its scope.
LEMMA WriteIsScoped ==
  ASSUME AccountsInv, NEW q \in Requests, HasRow(q), NEW row \in Row, UpdateUser(q, row),
         \A f \in Fields : row[f] # requests[q].row[f] => f \in Scope(requests[q].route),
         NEW r \in Requests
  PROVE  Scoped(r)
<1> SUFFICES ASSUME requests[r] # None, requests'[r] = None, requests[r].fresh,
                    NEW u \in Ids, users[u] # None, users'[u] # None,
                    NEW f \in Fields, users'[u][f] # users[u][f]
             PROVE  u = requests[r].user /\ f \in Scope(requests[r].route)
  BY DEF Scoped
<1>1. r = q
  BY DEF UpdateUser, AccountsInv, TypeOK, Handling
<1>2. u = requests[q].user /\ users'[u] = row
  BY DEF UpdateUser, AccountsInv, TypeOK, Handling
<1>3. requests[q].row = users[u]
  BY <1>1, <1>2 DEF AccountsInv, FreshRows
<1>4. QED
  BY <1>1, <1>2, <1>3

\* Every other step leaves the rows that stay as they are.
LEMMA OthersChangeNoRow ==
  ASSUME \A u \in Ids : users[u] # None /\ users'[u] # None => users'[u] = users[u],
         NEW r \in Requests
  PROVE  Scoped(r)
BY DEF Scoped

\* A whole row that is written undoes another's change only if that change was made
\* after the request had read the row (UpdateUser and the handlers that call it).
THEOREM OverlapOnly == Spec => OnlyOverlapLosesChanges
<1> DEFINE Kept ==
      \A r \in Requests : requests[r] # None /\ requests'[r] = None /\ requests[r].fresh =>
        \A u \in Ids : users[u] # None /\ users'[u] # None =>
          \A f \in DOMAIN users[u] :
            users'[u][f] # users[u][f] =>
              u = requests[r].user /\ f \in Scope(requests[r].route)
<1>1. AccountsInv /\ [Next]_vars => [Kept]_vars
  <2> SUFFICES ASSUME AccountsInv, [Next]_vars PROVE [Kept]_vars
    OBVIOUS
  <2>1. ASSUME NEW q \in Requests, setupMFA(q), NEW r \in Requests PROVE Scoped(r)
    <3>1. HasRow(q) /\ requests[q].row \in Row /\ requests[q].route = "setupMFA"
      BY <2>1 DEF setupMFA, At, AccountsInv, SafeRows, HasRow, Holders, selfService
    <3>2. PICK s \in Secrets : UpdateUser(q, [requests[q].row EXCEPT !.secret = s, !.mfa = FALSE])
      BY <2>1 DEF setupMFA
    <3> DEFINE row == [requests[q].row EXCEPT !.secret = s, !.mfa = FALSE]
    <3>3. /\ row \in Row
          /\ \A f \in Fields : row[f] # requests[q].row[f] => f \in Scope(requests[q].route)
      BY <3>1 DEF Row, Fields, Scope
    <3>4. UpdateUser(q, row)
      BY <3>2
    <3> HIDE DEF row
    <3>5. QED
      BY <3>1, <3>3, <3>4, WriteIsScoped
  <2>2. ASSUME NEW q \in Requests, confirmMFA(q), NEW r \in Requests PROVE Scoped(r)
    <3> DEFINE row == [requests[q].row EXCEPT !.mfa = TRUE]
    <3>1. HasRow(q) /\ requests[q].row \in Row /\ requests[q].route = "confirmMFA"
      BY <2>2 DEF confirmMFA, At, AccountsInv, SafeRows, HasRow, Holders, selfService
    <3>2. UpdateUser(q, row)
      BY <2>2 DEF confirmMFA
    <3>3. /\ row \in Row
          /\ \A f \in Fields : row[f] # requests[q].row[f] => f \in Scope(requests[q].route)
      BY <3>1 DEF Row, Fields, Scope
    <3> HIDE DEF row
    <3>4. QED
      BY <3>1, <3>2, <3>3, WriteIsScoped
  <2>3. ASSUME NEW q \in Requests, disableMFA(q), NEW r \in Requests PROVE Scoped(r)
    <3> DEFINE row == [requests[q].row EXCEPT !.secret = None, !.mfa = FALSE]
    <3>1. HasRow(q) /\ requests[q].row \in Row /\ requests[q].route = "disableMFA"
      BY <2>3 DEF disableMFA, At, AccountsInv, SafeRows, HasRow, Holders, selfService
    <3>2. UpdateUser(q, row)
      BY <2>3 DEF disableMFA
    <3>3. /\ row \in Row
          /\ \A f \in Fields : row[f] # requests[q].row[f] => f \in Scope(requests[q].route)
      BY <3>1 DEF Row, Fields, Scope
    <3> HIDE DEF row
    <3>4. QED
      BY <3>1, <3>2, <3>3, WriteIsScoped
  <2>4. ASSUME NEW q \in Requests, changeOwnPassword(q), NEW r \in Requests PROVE Scoped(r)
    <3>1. HasRow(q) /\ requests[q].row \in Row /\ requests[q].route = "changeOwnPassword"
      BY <2>4 DEF changeOwnPassword, At, AccountsInv, SafeRows, HasRow, Holders, selfService
    <3>2. PICK p \in Passwords : ChangeTo(q, p)
      BY <2>4 DEF changeOwnPassword
    <3> DEFINE row == [requests[q].row EXCEPT !.password = p, !.mustChange = FALSE]
    <3>3. UpdateUser(q, row)
      BY <3>2 DEF ChangeTo
    <3>4. /\ row \in Row
          /\ \A f \in Fields : row[f] # requests[q].row[f] => f \in Scope(requests[q].route)
      BY <3>1 DEF Row, Fields, Scope
    <3> HIDE DEF row
    <3>5. QED
      BY <3>1, <3>3, <3>4, WriteIsScoped
  <2>5. ASSUME NEW q \in Requests, patchUser(q), NEW r \in Requests PROVE Scoped(r)
    <3> DEFINE row == requests[q].row
    <3>1. HasRow(q) /\ row \in Row /\ requests[q].route = "patchUser"
      BY <2>5 DEF patchUser, At, AccountsInv, SafeRows, HasRow, Holders
    <3>2. CASE \E role \in Roles : UpdateUser(q, [row EXCEPT !.role = role])
      <4>1. PICK role \in Roles : UpdateUser(q, [row EXCEPT !.role = role])
        BY <3>2
      <4> DEFINE new == [row EXCEPT !.role = role]
      <4>2. new \in Row /\ \A f \in Fields : new[f] # row[f] => f \in Scope(requests[q].route)
        BY <3>1 DEF Row, Fields, Scope
      <4>3. UpdateUser(q, new)
        BY <4>1
      <4> HIDE DEF new
      <4>4. QED
        BY <3>1, <4>2, <4>3, WriteIsScoped
    <3>3. CASE \E disabled \in BOOLEAN : UpdateUser(q, [row EXCEPT !.disabled = disabled])
      <4>1. PICK disabled \in BOOLEAN : UpdateUser(q, [row EXCEPT !.disabled = disabled])
        BY <3>3
      <4> DEFINE new == [row EXCEPT !.disabled = disabled]
      <4>2. new \in Row /\ \A f \in Fields : new[f] # row[f] => f \in Scope(requests[q].route)
        BY <3>1 DEF Row, Fields, Scope
      <4>3. UpdateUser(q, new)
        BY <4>1
      <4> HIDE DEF new
      <4>4. QED
        BY <3>1, <4>2, <4>3, WriteIsScoped
    <3>4. CASE \E p \in Passwords : UpdateUser(q, [row EXCEPT !.password = p, !.mustChange = TRUE])
      <4>1. PICK p \in Passwords : UpdateUser(q, [row EXCEPT !.password = p, !.mustChange = TRUE])
        BY <3>4
      <4> DEFINE new == [row EXCEPT !.password = p, !.mustChange = TRUE]
      <4>2. new \in Row /\ \A f \in Fields : new[f] # row[f] => f \in Scope(requests[q].route)
        BY <3>1 DEF Row, Fields, Scope
      <4>3. UpdateUser(q, new)
        BY <4>1
      <4> HIDE DEF new
      <4>4. QED
        BY <3>1, <4>2, <4>3, WriteIsScoped
    <3>5. QED
      BY <2>5, <3>2, <3>3, <3>4 DEF patchUser
  <2>6. ASSUME NEW r \in Requests,
               \/ bootstrapAdmin
               \/ UNCHANGED users
               \/ \E q \in Requests : createUser(q)
               \/ \E q \in Requests, u \in Ids : deleteUser(q, u)
         PROVE  Scoped(r)
    <3>1. ASSUME NEW u \in Ids, users[u] # None, users'[u] # None PROVE users'[u] = users[u]
      BY <2>6, <3>1 DEF bootstrapAdmin, createUser, deleteUser, AccountsInv, TypeOK, IssuedIds
    <3>2. QED
      BY <3>1, OthersChangeNoRow
  <2>7. ASSUME NEW r \in Requests PROVE Scoped(r)
    BY <2>1, <2>2, <2>3, <2>4, <2>5, <2>6
       DEF Next, vars, Restart, Expire, Refuse, Login, CreateSession, logout, Enter, EnterPatch
  <2>8. ASSUME NEW u \in Ids, users[u] # None PROVE DOMAIN users[u] = Fields
    BY <2>8, FieldsOfRow DEF AccountsInv, TypeOK
  <2>9. QED
    BY <2>7, <2>8 DEF Scoped
<1>2. QED
  BY <1>1, AccountsInvariant, PTL DEF Spec, OnlyOverlapLosesChanges
================================================================================
