------------------------------ MODULE RuleLayers ------------------------------
(* The detection rules: those shipped with the server, overridden by those of *)
(* the database, edited by requests of several steps while scans load them,   *)
(* send them to the probe and enrich what it found.                           *)
(*                                                                            *)
(* Abstracted: a definition is a model value, which a host matches or not; of *)
(* its metadata an observation keeps whose definition it was.                 *)
EXTENDS Naturals, FiniteSets

CONSTANTS Rules,           \* rule ids
          Definitions,
          Uploads,         \* the definitions that users upload
          NotCEL,          \* definitions that do not compile
          NotBoolean,      \* definitions whose condition compiles and has no answer
          Shipped,         \* baseRules: rule -> definition or NoRule
          Clients,
          RuleScans,
          NoRule           \* no rule, no request, no scan

ASSUME RulesAssumption ==
    /\ NotCEL \cup NotBoolean \cup Uploads \subseteq Definitions /\ NotCEL \cap NotBoolean = {}
    /\ Shipped \in [Rules -> (Definitions \ (NotCEL \cup NotBoolean)) \cup {NoRule}]
    /\ NoRule \notin [def : Definitions, enabled : BOOLEAN]

VARIABLES rulesTable,      \* the rules table: [def, enabled] or NoRule
          patches,         \* the patchRule requests under way
          scanRuns,        \* what each scan holds
          raised,          \* what the scans stored
          uploaded         \* history: the definition a user last uploaded and did not delete
ruleVars == <<rulesTable, patches, scanRuns, raised, uploaded>>

RulesInit ==
    /\ rulesTable = [r \in Rules |-> NoRule]
    /\ patches = [c \in Clients |-> NoRule]
    /\ scanRuns = [s \in RuleScans |-> NoRule]
    /\ raised = {}
    /\ uploaded = [r \in Rules |-> NoRule]

\* The base rules, each replaced by the database's rule of the same id.
loadActiveRules ==
    [r \in Rules |-> IF rulesTable[r] # NoRule THEN rulesTable[r]
                     ELSE IF Shipped[r] # NoRule THEN [def |-> Shipped[r], enabled |-> TRUE]
                     ELSE NoRule]

-----------------------------------------------------------------------------
(* Requests.  A write of a rule overlaps the patches of it under way.         *)

Overlapped(r) ==
    [c \in Clients |-> IF patches[c] # NoRule /\ patches[c].id = r
                       THEN [patches[c] EXCEPT !.overlapped = TRUE] ELSE patches[c]]

createRule(r, d, enabled) ==
    /\ d \notin NotCEL
    /\ rulesTable' = [rulesTable EXCEPT ![r] = [def |-> d, enabled |-> enabled]]
    /\ uploaded' = [uploaded EXCEPT ![r] = d]
    /\ patches' = Overlapped(r)
    /\ UNCHANGED <<scanRuns, raised>>

deleteRule(r) ==
    /\ rulesTable[r] # NoRule
    /\ rulesTable' = [rulesTable EXCEPT ![r] = NoRule]
    /\ uploaded' = [uploaded EXCEPT ![r] = NoRule]
    /\ patches' = Overlapped(r)
    /\ UNCHANGED <<scanRuns, raised>>

\* Mutant of SetRuleEnabled: a rule that is shipped is overridden at once.
SetRuleOverride(c, r, enabled) ==
    /\ patches[c] = NoRule
    /\ rulesTable' = [rulesTable EXCEPT ![r] =
         IF Shipped[r] # NoRule THEN [def |-> Shipped[r], enabled |-> enabled] ELSE @]
    /\ patches' = Overlapped(r)
    /\ UNCHANGED <<scanRuns, raised, uploaded>>

\* patchRule, first: a rule of the database gets the flag; for another it goes on.
SetRuleEnabled(c, r, enabled) ==
    /\ patches[c] = NoRule
    /\ IF rulesTable[r] # NoRule
       THEN /\ rulesTable' = [rulesTable EXCEPT ![r].enabled = enabled]
            /\ patches' = Overlapped(r)
       ELSE /\ patches' = [patches EXCEPT ![c] = [id |-> r, enabled |-> enabled, phase |-> "missing",
                                                  def |-> NoRule, overlapped |-> FALSE]]
            /\ UNCHANGED rulesTable
    /\ UNCHANGED <<scanRuns, raised, uploaded>>

\* Then: what is active under the id, if anything is,
activeRule(c) ==
    /\ patches[c] # NoRule /\ patches[c].phase = "missing"
    /\ LET rule == loadActiveRules[patches[c].id] IN
         patches' = [patches EXCEPT ![c] = IF rule = NoRule THEN NoRule
                                           ELSE [@ EXCEPT !.phase = "active", !.def = rule.def]]
    /\ UNCHANGED <<rulesTable, scanRuns, raised, uploaded>>

\* becomes a rule of the database with the flag.
UpsertOverride(c) ==
    /\ patches[c] # NoRule /\ patches[c].phase = "active"
    /\ rulesTable' = [rulesTable EXCEPT ![patches[c].id] =
                        [def |-> patches[c].def, enabled |-> patches[c].enabled]]
    /\ patches' = [Overlapped(patches[c].id) EXCEPT ![c] = NoRule]
    /\ UNCHANGED <<scanRuns, raised, uploaded>>

-----------------------------------------------------------------------------
(* Scans.                                                                     *)

\* One load serves the bundle and the enrichment.
LoadRules(s) ==
    /\ scanRuns[s] = NoRule
    /\ scanRuns' = [scanRuns EXCEPT ![s] =
         [phase |-> "loaded", index |-> loadActiveRules, found |-> {},
          off |-> {r \in Rules : rulesTable[r] # NoRule /\ ~rulesTable[r].enabled}]]
    /\ UNCHANGED <<rulesTable, patches, raised, uploaded>>

BundleFrom(index) == {r \in Rules : index[r] # NoRule /\ index[r].enabled}

\* The probe compiles the bundle and evaluates every rule of it; a condition without
\* an answer ends it, and the scan has failed.
RunProbe(s) ==
    /\ scanRuns[s] # NoRule /\ scanRuns[s].phase = "loaded"
    /\ LET bundle == BundleFrom(scanRuns[s].index)
           DefOf(r) == scanRuns[s].index[r].def IN
         IF \E r \in bundle : DefOf(r) \in NotCEL \cup NotBoolean
         THEN scanRuns' = [scanRuns EXCEPT ![s] = [phase |-> "failed"]]
         ELSE \E matched \in SUBSET bundle :
                scanRuns' = [scanRuns EXCEPT ![s].phase = "probed",
                                             ![s].found = {<<r, DefOf(r)>> : r \in matched}]
    /\ UNCHANGED <<rulesTable, patches, raised, uploaded>>

Raised(s, index) ==
    {[rule |-> f[1], matched |-> f[2], meta |-> index[f[1]].def, muted |-> f[1] \in scanRuns[s].off] :
       f \in {g \in scanRuns[s].found : index[g[1]] # NoRule}}

\* Mutant of Ingest: the definitions are those of the moment.
IngestWithCurrent(s) ==
    /\ scanRuns[s] # NoRule /\ scanRuns[s].phase = "probed"
    /\ raised' = raised \cup Raised(s, loadActiveRules)
    /\ scanRuns' = [scanRuns EXCEPT ![s] = [phase |-> "over"]]
    /\ UNCHANGED <<rulesTable, patches, uploaded>>

Ingest(s) ==
    /\ scanRuns[s] # NoRule /\ scanRuns[s].phase = "probed"
    /\ raised' = raised \cup Raised(s, scanRuns[s].index)
    /\ scanRuns' = [scanRuns EXCEPT ![s] = [phase |-> "over"]]
    /\ UNCHANGED <<rulesTable, patches, uploaded>>

RulesNext ==
    \/ \E r \in Rules, d \in Uploads, enabled \in BOOLEAN : createRule(r, d, enabled)
    \/ \E r \in Rules : deleteRule(r)
    \/ \E c \in Clients, r \in Rules, enabled \in BOOLEAN : SetRuleEnabled(c, r, enabled)
    \/ \E c \in Clients : activeRule(c) \/ UpsertOverride(c)
    \/ \E s \in RuleScans : LoadRules(s) \/ RunProbe(s) \/ Ingest(s)

RulesSpec == RulesInit /\ [][RulesNext]_ruleVars

-----------------------------------------------------------------------------
(* Properties.                                                                *)

\* A finding carries the metadata of the definition that matched on the host, and
\* none is raised by a rule that was disabled when its scan loaded the rules,
\* whatever is edited while the probe runs.
FindingsCarryTheirRule == \A o \in raised : o.meta = o.matched /\ ~o.muted

\* Enabling or disabling a rule leaves the definition a user uploaded: it is put back
\* to the shipped one only by a patch that found no rule of the user's and that the
\* upload overtook.
OnlyOvertakenPatchesRevert ==
    [][\A r \in Rules :
         /\ uploaded[r] # NoRule /\ uploaded'[r] = uploaded[r]
         /\ rulesTable[r].def = uploaded[r] /\ rulesTable'[r].def # uploaded[r]
         => \E c \in Clients : /\ patches[c] # NoRule /\ patches'[c] = NoRule
                               /\ patches[c].id = r /\ patches[c].overlapped]_ruleVars

\* A rule that was accepted can be run.  ValidateRule compiles it "so the API can
\* reject a malformed rule at write time"; it does not ask whether the condition is a
\* truth value, and the first one that is not ends every probe that has it.
AcceptedRulesCanRun == \A s \in RuleScans : scanRuns[s] # NoRule => scanRuns[s].phase # "failed"
=============================================================================
