---------------------------- MODULE RiskEvaluation ----------------------------
(* Whether the risk model is to be trusted: the labels are read, every group  *)
(* of related rows is put into a fold of the cross-validation, each fold is   *)
(* ranked by a model fitted on the others, and the figures pass a list of     *)
(* gates, twice when some of the labels come from the attack range.           *)
(*                                                                            *)
(* Abstracted: what the model makes of the features is any ranking of the     *)
(* held-out rows; whether rules tie and whether resamplings differ is any     *)
(* answer; the seven shuffles are seven behaviours, of one pass each.         *)
EXTENDS Naturals, FiniteSets, FiniteSetsExt

CONSTANTS FleetHosts,      \* hosts whose findings analysts assess
          Techniques,      \* groups of the attack range's dataset
          LabDatasets,     \* what the dataset may hold: technique -> label -> rows
          minPerClass,     \* 30
          MaxFolds,        \* 5
          Levels,          \* scores of a held-out row: 1 .. Levels
          MaxLabels,       \* bound: rows that analysts assess
          Nothing          \* no evaluation

Labels == {"positive", "negative"}
Groups == FleetHosts \cup Techniques

ASSUME RiskAssumption ==
    /\ IsFiniteSet(FleetHosts) /\ IsFiniteSet(Techniques) /\ FleetHosts \cap Techniques = {}
    /\ LabDatasets \subseteq [Techniques -> [Labels -> Nat]]
    /\ {minPerClass, MaxFolds, Levels} \subseteq Nat \ {0} /\ MaxLabels \in Nat

VARIABLES verdicts,        \* observations of each host with each verdict
          lab,             \* the dataset file
          eval             \* the evaluation a request runs
riskVars == <<verdicts, lab, eval>>

NoRows == [l \in Labels |-> 0]
SumOf(f) == MapThenSumSet(LAMBDA x : f[x], DOMAIN f)
Total(rows, label) == SumOf([g \in DOMAIN rows |-> rows[g][label]])
Size(rows) == Total(rows, "positive") + Total(rows, "negative")
Smaller(a, b) == IF a < b THEN a ELSE b

RiskInit ==
    /\ verdicts = [h \in FleetHosts |-> NoRows]
    /\ lab \in LabDatasets
    /\ eval = Nothing

\* An analyst assesses an observation, or changes the verdict it had.
SetObservationVerdict(h, label) ==
    /\ \/ /\ Size(verdicts) < MaxLabels
          /\ verdicts' = [verdicts EXCEPT ![h][label] = @ + 1]
       \/ /\ \E l \in Labels \ {label} :
               /\ verdicts[h][l] > 0
               /\ verdicts' = [verdicts EXCEPT ![h][l] = @ - 1, ![h][label] = @ + 1]
    /\ eval # Nothing => eval.phase = "reading"
    /\ UNCHANGED <<lab, eval>>

-----------------------------------------------------------------------------
(* groupedFolds and crossValidate                                             *)

GroupsWith(rows, label) == {g \in DOMAIN rows : rows[g][label] > 0}
Occupied(rows) == {g \in DOMAIN rows : rows[g] # NoRows}

\* As many folds as the rows and then the groups of the smaller class allow.
Folds(rows) ==
    LET minClass == Smaller(Total(rows, "positive"), Total(rows, "negative")) IN
    IF minClass < 2 THEN 0
    ELSE Smaller(Smaller(MaxFolds, minClass),
               Smaller(Cardinality(GroupsWith(rows, "positive")),
                     Cardinality(GroupsWith(rows, "negative"))))

InFold(f) == [g \in {k \in DOMAIN eval.foldOf : eval.foldOf[k] = f} |-> eval.rows[g]]
Load(f, label) == Total(InFold(f), label)

\* Mutant of Cost: the rows of a fold are counted whatever their label.
CostOfAll(g, f) == (eval.rows[g]["positive"] + eval.rows[g]["negative"])
                     * (Load(f, "positive") + Load(f, "negative"))

Cost(g, f) == eval.rows[g]["positive"] * Load(f, "positive")
                + eval.rows[g]["negative"] * Load(f, "negative")

\* The first of the cheapest folds.
BestFold(g) ==
    CHOOSE f \in 1 .. Folds(eval.rows) :
       \A k \in 1 .. Folds(eval.rows) :
          Cost(g, f) < Cost(g, k) \/ (Cost(g, f) = Cost(g, k) /\ f <= k)

EvaluationOf(scope, rows, granted) ==
    [phase |-> IF Folds(rows) < 2 THEN "judging" ELSE "folding", scope |-> scope, rows |-> rows,
     foldOf |-> <<>>, ran |-> FALSE, ranked |-> <<>>, area |-> 0, sound |-> FALSE, granted |-> granted]

\* The groups come in the order of the shuffle.
groupedFolds(g) ==
    /\ eval # Nothing /\ eval.phase = "folding"
    /\ g \in Occupied(eval.rows) \ DOMAIN eval.foldOf
    /\ eval' = [eval EXCEPT !.foldOf = [k \in DOMAIN @ \cup {g} |-> IF k = g THEN BestFold(g) ELSE @[k]]]
    /\ UNCHANGED <<verdicts, lab>>

\* What is left when a fold is held out has both labels.
Trained(f) == \A label \in Labels : Load(f, label) < Total(eval.rows, label)

-----------------------------------------------------------------------------
(* areaUnderROC, in halves of a pair: ranked[l][label] rows scored l.         *)

Below(ranked, l, label) == SumOf([k \in 1 .. l - 1 |-> ranked[k][label]])
RowsBelow(ranked, l) == Below(ranked, l, "positive") + Below(ranked, l, "negative")
RowsAt(ranked, l) == ranked[l]["positive"] + ranked[l]["negative"]

\* Mutant of RankAt: tied rows all take the last rank of the tie.
LastRankAt(ranked, l) == 2 * RowsBelow(ranked, l) + 2 * RowsAt(ranked, l)

\* Twice the average rank of the rows of one score.
RankAt(ranked, l) == 2 * RowsBelow(ranked, l) + RowsAt(ranked, l) + 1

areaUnderROC(ranked) ==
    LET positives == Below(ranked, Levels + 1, "positive") IN
    SumOf([l \in 1 .. Levels |-> ranked[l]["positive"] * RankAt(ranked, l)])
      - positives * (positives + 1)

Rankings(rows) ==
    {ranked \in [1 .. Levels -> [positive : 0 .. Total(rows, "positive"),
                                 negative : 0 .. Total(rows, "negative")]] :
       \A label \in Labels : Below(ranked, Levels + 1, label) = Total(rows, label)}

\* Below 0.65 of the pairs.
Weak(rows, area) == 100 * area < 65 * 2 * Total(rows, "positive") * Total(rows, "negative")

crossValidate ==
    /\ eval # Nothing /\ eval.phase = "folding"
    /\ Occupied(eval.rows) = DOMAIN eval.foldOf
    /\ IF \A f \in 1 .. Folds(eval.rows) : Trained(f)
       THEN \E ranked \in Rankings(eval.rows), sound \in BOOLEAN :
              eval' = [eval EXCEPT !.phase = "judging", !.ran = TRUE, !.ranked = ranked,
                                   !.area = areaUnderROC(ranked), !.sound = sound]
       ELSE eval' = [eval EXCEPT !.phase = "judging"]
    /\ UNCHANGED <<verdicts, lab>>

-----------------------------------------------------------------------------
(* evaluate                                                                   *)

Part(rows, groups) == [g \in groups |-> rows[g]]
EnoughRows(rows) == \A label \in Labels : Total(rows, label) >= minPerClass

\* The gates, in the order that decides which one is named.
Passes ==
    /\ Size(eval.rows) >= 2 * minPerClass
    /\ eval.scope = "all" => Size(Part(eval.rows, FleetHosts)) > 0
    /\ EnoughRows(eval.rows)
    /\ eval.scope = "all" => EnoughRows(Part(eval.rows, FleetHosts))
    /\ eval.ran
    /\ ~Weak(eval.rows, eval.area)
    /\ eval.sound          \* rules do not tie, resamplings agree

NeedsFleetPass ==
    /\ eval.scope = "all"
    /\ Size(Part(eval.rows, Techniques)) > 0
    /\ Size(Part(eval.rows, FleetHosts)) > 0

\* Mutant of evaluate: the figures of all labels are enough.
EvaluateOnce ==
    /\ eval # Nothing /\ eval.phase = "judging"
    /\ eval' = [eval EXCEPT !.phase = "judged", !.granted = @ /\ Passes]
    /\ UNCHANGED <<verdicts, lab>>

\* Labels of the attack range are judged with the fleet's, and then the fleet's alone.
evaluate ==
    /\ eval # Nothing /\ eval.phase = "judging"
    /\ eval' = IF NeedsFleetPass
               THEN EvaluationOf("fleet", Part(eval.rows, FleetHosts), Passes)
               ELSE [eval EXCEPT !.phase = "judged", !.granted = @ /\ Passes]
    /\ UNCHANGED <<verdicts, lab>>

\* productionRiskLabels reads the two classes one after the other, so a verdict
\* that changes in between is in both, or in neither; the dataset is added.
ListTruePositives ==
    /\ eval = Nothing
    /\ eval' = [phase |-> "reading", positives |-> [h \in FleetHosts |-> verdicts[h]["positive"]]]
    /\ UNCHANGED <<verdicts, lab>>

ListFalsePositives ==
    /\ eval # Nothing /\ eval.phase = "reading"
    /\ eval' = EvaluationOf("all",
                     [g \in Groups |-> IF g \in Techniques THEN lab[g]
                                       ELSE [positive |-> eval.positives[g],
                                             negative |-> verdicts[g]["negative"]]], TRUE)
    /\ UNCHANGED <<verdicts, lab>>

Answer ==
    /\ eval # Nothing /\ eval.phase = "judged"
    /\ eval' = Nothing
    /\ UNCHANGED <<verdicts, lab>>

RiskNext ==
    \/ \E h \in FleetHosts, label \in Labels : SetObservationVerdict(h, label)
    \/ ListTruePositives \/ ListFalsePositives
    \/ \E g \in Groups : groupedFolds(g)
    \/ crossValidate \/ evaluate \/ Answer

RiskSpec == RiskInit /\ [][RiskNext]_riskVars

-----------------------------------------------------------------------------
(* Properties.                                                                *)

Validated(phases) == eval # Nothing /\ eval.phase \in phases
HasMixedGroup(rows) == \E g \in DOMAIN rows : \A label \in Labels : rows[g][label] > 0

\* Groups of one label each are spread so that every fold can be held out: the
\* order of the shuffle never leaves a fold without one of the labels.
SeparateGroupsAreValidated ==
    Validated({"judging", "judged"}) /\ Folds(eval.rows) >= 2 /\ ~HasMixedGroup(eval.rows)
      => eval.ran

\* The ranks count exactly the pairs of a real finding ranked above a false one,
\* a tie for half.
AreaCountsPairs ==
    Validated({"judging", "judged"}) /\ eval.ran =>
      eval.area = SumOf([p \in {q \in (1 .. Levels) \X (1 .. Levels) : q[1] > q[2]} |->
                           2 * eval.ranked[p[1]]["positive"] * eval.ranked[p[2]]["negative"]])
                + SumOf([l \in 1 .. Levels |->
                           eval.ranked[l]["positive"] * eval.ranked[l]["negative"]])

\* "Lab quality cannot stand in for deployment quality": when trust is granted, the
\* last figures are of the fleet's rows alone, ranked by models that had not seen them.
TrustIsEarnedOnTheFleet ==
    Validated({"judged"}) /\ eval.granted =>
      /\ \A g \in Occupied(eval.rows) : g \in FleetHosts
      /\ EnoughRows(eval.rows) /\ eval.ran /\ ~Weak(eval.rows, eval.area)

\* "not enough independent groups of each class for held-out validation" is said only
\* when there are not enough.  It is also said when the groups with both labels end up
\* together: the fold they share holds every positive row.
EnoughGroupsAreValidated ==
    Validated({"judging", "judged"}) /\ Folds(eval.rows) >= 2 => eval.ran
=============================================================================
