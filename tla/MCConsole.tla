------------------------------- MODULE MCConsole ------------------------------
(* The parts of the server that share no state, each with its own variables,  *)
(* checked in one run: `part` says which of them moves.                       *)
EXTENDS SensorDeployment, LoginLimiter, Schedules, FleetCorrelation,
        RiskEvaluation, RuleLayers, Paging, Migrations, TLC

CONSTANTS t1, t2, r1, shipped, previous

\* The attack range has no labels, or one technique of each label.
Datasets ==
    {[t \in Techniques |-> NoRows],
     [t \in Techniques |-> [positive |-> IF t = t1 THEN 1 ELSE 0, negative |-> IF t = t2 THEN 2 ELSE 0]]}

\* One rule is shipped, the other is the user's.
ShippedRules == [r \in Rules |-> IF r = r1 THEN shipped ELSE NoRule]

\* One server's binary is older.
Binaries == [s \in Servers |-> IF s = previous THEN 2 ELSE 3]

Symmetric == Permutations(Handlers)

\* Bound: a deployment's key is pinned and stays so; nothing but the row's own column
\* depends on it.
KeyStaysPinned == \A h \in Handlers : handlers[h] # NoToken => handlers[h].pinned /\ host.pinned

VARIABLE part

others(p) ==
    /\ p # "deployment" => UNCHANGED deploymentVars
    /\ p # "limiter" => UNCHANGED limiterVars
    /\ p # "schedules" => UNCHANGED scheduleVars
    /\ p # "fleet" => UNCHANGED fleetVars
    /\ p # "risk" => UNCHANGED riskVars
    /\ p # "rules" => UNCHANGED ruleVars
    /\ p # "paging" => UNCHANGED pagingVars
    /\ p # "migrations" => UNCHANGED migrationVars

Init ==
    /\ part \in {"deployment", "limiter", "schedules", "fleet", "risk", "rules", "paging", "migrations"}
    /\ DeploymentInit /\ LimiterInit /\ SchedulesInit /\ FleetInit
    /\ RiskInit /\ RulesInit /\ PagingInit /\ MigrationsInit
    /\ part # "deployment" => unit = "off"
    /\ part # "risk" => lab = [t \in Techniques |-> NoRows]
    /\ part # "paging" => list = "audit"
    /\ part # "migrations" => ~legacy

Next ==
    /\ UNCHANGED part
    /\ \/ part = "deployment" /\ DeploymentNext
       \/ part = "limiter" /\ LimiterNext
       \/ part = "schedules" /\ SchedulesNext
       \/ part = "fleet" /\ FleetNext
       \/ part = "risk" /\ RiskNext
       \/ part = "rules" /\ RulesNext
       \/ part = "paging" /\ PagingNext
       \/ part = "migrations" /\ MigrationsNext
    /\ others(part)

Spec == Init /\ [][Next]_<<part, deploymentVars, limiterVars, scheduleVars, fleetVars,
                           riskVars, ruleVars, pagingVars, migrationVars>>
=============================================================================
