------------------------------ MODULE Comparison ------------------------------
(***************************************************************************)
(* The comparison of two revisions, src/src/comparison.rs: the results of  *)
(* accepted scenarios come in on two sides, are paired by scenario and are *)
(* given their verdicts; src/src/report/dashboard.rs loads the same inputs *)
(* and pairs them once more for its drawings.                              *)
(*                                                                         *)
(* Of a result, the model keeps what the verdicts read: its scenario, the  *)
(* rest of the workload contract as one value, whether validate accepts    *)
(* it, the largest send lag, the revision and the state of its telemetry.  *)
(* An order of inputs is never a part of a verdict and is left out.        *)
(***************************************************************************)
EXTENDS WorkloadAgreement, Sequences

CONSTANTS
    Compared,       \* the scenarios whose results are compared
    MaxPerSide,     \* bound: inputs of a side
    MaxDefects,     \* bound: inputs of both sides that are not as they should be
    None

VARIABLE sides      \* baseline and comparison: the inputs, as they were given

comparisonVars == <<stage, spec, sides>>

Sides == {"baseline", "comparison"}

Revisions == [baseline |-> "first", comparison |-> "second"]

\* Revisions of 40 hexadecimal digits: valid_revision.
FullRevisions == {"first", "second"}

-------------------------------------------------------------------------------
(* Inputs. *)

Unreadable == [loaded |-> FALSE]

Proper(side, s) ==
    [loaded |-> TRUE, scenario |-> s, contract |-> "current", exact |-> TRUE, lag |-> 20,
     revision |-> Revisions[side], telemetry |-> "complete"]

\* Two sides may have run with two policies, from a checkout without a revision or with a branch
\* name, late, or with scrapes that failed.
Defective(side, s) ==
    LET proper == Proper(side, s)
    IN  {Unreadable,
         [proper EXCEPT !.contract = "other"],
         [proper EXCEPT !.exact = FALSE]}
        \union {[proper EXCEPT !.lag = lag] : lag \in {21, 35}}
        \union {[proper EXCEPT !.revision = revision] :
                    revision \in {None, "branch", Revisions[CHOOSE other \in Sides : other # side]}}
        \union {[proper EXCEPT !.telemetry = telemetry] :
                    telemetry \in {"gaps", "empty", "absent"}}

Inputs(side) == UNION {{Proper(side, s)} \union Defective(side, s) : s \in Compared}

ASSUME ComparisonAssumption ==
    /\ Compared \subseteq Candidates /\ \A s \in Compared : Accepted(s)
    /\ MaxPerSide \in Nat /\ MaxDefects \in Nat
    /\ None \notin FullRevisions /\ \A side \in Sides : None \notin Inputs(side)

Defects ==
    MapThenSumSet(
        LAMBDA side : Cardinality({i \in DOMAIN sides[side] :
                                      \A s \in Compared : sides[side][i] # Proper(side, s)}),
        Sides)

ComparisonInit == Init /\ sides = [side \in Sides |-> <<>>]

Add(side, input) ==
    /\ Len(sides[side]) < MaxPerSide
    /\ side = "baseline" => sides["comparison"] = <<>>
    /\ sides' = [sides EXCEPT ![side] = Append(@, input)]
    /\ spec' = IF input.loaded THEN input.scenario ELSE spec
    /\ UNCHANGED stage

\* One more input of a side, proper or not.
AddProper(side) ==
    /\ stage = "accepted" /\ spec \in Compared
    /\ \E s \in Compared : Add(side, Proper(side, s))

AddDefective(side) ==
    /\ stage = "accepted" /\ spec \in Compared
    /\ Defects < MaxDefects
    /\ \E s \in Compared : \E input \in Defective(side, s) : Add(side, input)

ComparisonNext ==
    \/ (Refuse \/ Accept) /\ UNCHANGED sides
    \/ \E side \in Sides : AddProper(side) \/ AddDefective(side)

ComparisonSpec == ComparisonInit /\ [][ComparisonNext]_comparisonVars

-------------------------------------------------------------------------------
(* Pairing. *)

\* Mutant: a key without the work of the whole run.
KeyByRate(s) ==
    LET seconds == IF s.type = "smoke" THEN (s.work + AudioRate - 1) \div AudioRate ELSE s.work
    IN  <<s.type, PlannedDeliveries(s) \div seconds, s.rooms, s.peers, s.audio, s.video, seconds>>

\* scenario_key: what results are sorted by, so that equal scenarios come to lie together.
Key(s) ==
    LET seconds == IF s.type = "smoke" THEN (s.work + AudioRate - 1) \div AudioRate ELSE s.work
    IN  <<s.type, PlannedDeliveries(s) \div seconds, PlannedDeliveries(s),
          s.rooms, s.peers, s.audio, s.video, seconds>>

\* load_side: the results that could be read.
Runs(side) == {i \in DOMAIN sides[side] : sides[side][i].loaded}

Scenarios(side) == {sides[side][i].scenario : i \in Runs(side)}

RunsOf(side, s) == {i \in Runs(side) : sides[side][i].scenario = s}

WorkloadMatches(left, right) == left.scenario = right.scenario /\ left.contract = right.contract

\* The pairs of pair_runs: the scenarios with one result on each side.
Pairs ==
    {[baseline |-> sides.baseline[p[1]], comparison |-> sides.comparison[p[2]]] :
        p \in {q \in Runs("baseline") \X Runs("comparison") :
                  \E s \in Scenarios("baseline") :
                      RunsOf("baseline", s) = {q[1]} /\ RunsOf("comparison", s) = {q[2]}}}

Matching == {pair \in Pairs : WorkloadMatches(pair.baseline, pair.comparison)}

\* The scenarios with an issue of pair_runs: not one pair of results, or two contracts.
Issues ==
    {s \in Scenarios("baseline") \union Scenarios("comparison") :
        ~\E pair \in Matching : pair.baseline.scenario = s}

-------------------------------------------------------------------------------
(* Verdicts: render_sides. *)

\* revision: None, unless all results of a side name one.
Revision(side) ==
    LET named == {sides[side][i].revision : i \in Runs(side)}
    IN  IF Cardinality(named) = 1 THEN CHOOSE revision \in named : TRUE ELSE None

RevisionsValid ==
    /\ \A side \in Sides : Revision(side) \in FullRevisions
    /\ Revision("baseline") # Revision("comparison")

\* Mutant: two results that both sides have twice are no issue.
WorkloadsMatchPairs == Pairs # {} /\ Pairs = Matching

WorkloadsMatch == Pairs # {} /\ Issues = {} /\ Pairs = Matching

Exact ==
    /\ WorkloadsMatch
    /\ \A side \in Sides : Runs(side) = DOMAIN sides[side]
    /\ \A pair \in Pairs : pair.baseline.exact /\ pair.comparison.exact

\* pacing_valid: an audio packet late by a packet, a video frame by a frame.
PacingValid(result) == result.lag <= (IF result.scenario.type = "video-gallery" THEN 34 ELSE 20)

\* telemetry_complete of the summary; what it says of a run is in TelemetryWindow.
TelemetryComplete(result) == result.telemetry = "complete"

PerformanceValid ==
    /\ RevisionsValid
    /\ Exact
    /\ \A pair \in Pairs :
           /\ pair \in Matching
           /\ PacingValid(pair.baseline) /\ PacingValid(pair.comparison)
           /\ TelemetryComplete(pair.baseline) /\ TelemetryComplete(pair.comparison)

-------------------------------------------------------------------------------
(* Dashboards: write_comparison of dashboard.rs, with load_runs. *)

\* Mutant: the first of several results.
FirstOfScenario(side, s) ==
    IF RunsOf(side, s) = {} THEN None ELSE sides[side][Min(RunsOf(side, s))]

UniqueScenario(side, s) ==
    IF Cardinality(RunsOf(side, s)) = 1 THEN sides[side][Min(RunsOf(side, s))] ELSE None

HasSamples(result) == result.telemetry \in {"complete", "gaps"}

\* The pairs that are drawn, each as two drawings with the limits of both.
Dashboards ==
    {[baseline |-> UniqueScenario("baseline", s), comparison |-> UniqueScenario("comparison", s)] :
        s \in {t \in Scenarios("baseline") :
                  LET left == UniqueScenario("baseline", t)
                      right == UniqueScenario("comparison", t)
                  IN  /\ left # None /\ right # None
                      /\ WorkloadMatches(left, right)
                      /\ HasSamples(left) /\ HasSamples(right)}}

-------------------------------------------------------------------------------
(* Properties. *)

\* pair_runs sorts the scenarios of both sides by their keys and drops equal neighbours, which
\* is to keep each scenario once: no two legal scenarios have one key, not even two smoke runs,
\* whose seconds and rate are rounded.
KeyTellsScenariosApart ==
    stage = "accepted" /\ sides = [side \in Sides |-> <<>>] =>
        \A s \in Candidates : Accepted(s) /\ Key(s) = Key(spec) => s = spec

\* The inputs of the two sides match one to one, each scenario once.
OneToOne(Good(_)) ==
    LET left == sides.baseline
        right == sides.comparison
    IN  \E partner \in [DOMAIN left -> DOMAIN right] :
            /\ {partner[i] : i \in DOMAIN left} = DOMAIN right
            /\ \A i \in DOMAIN left :
                   /\ Good(left[i]) /\ Good(right[partner[i]])
                   /\ left[i].scenario = right[partner[i]].scenario
                   /\ left[i].contract = right[partner[i]].contract
            /\ \A i, j \in DOMAIN left : left[i].scenario = left[j].scenario => i = j

\* "The report marks a comparison valid only when its complete workload contract matches"
\* (README.md:194-195), and whenever nothing is wrong with it: work is exact when all inputs of
\* both sides match one to one with valid results, performance is valid when besides they all
\* kept their pace, have their whole telemetry and are of one revision a side.  An input that
\* is missing, given twice or unreadable can neither hide nor be hidden by the others.
VerdictsAreEarned ==
    sides.baseline # <<>> /\ sides.comparison # <<>> =>
        LET IsExact(result) == result.loaded /\ result.exact
            IsGood(result) ==
                /\ IsExact(result)
                /\ result.telemetry = "complete"
                /\ result.lag <= 20 \/ (result.lag <= 34 /\ result.scenario.type = "video-gallery")
        IN  /\ Exact <=> OneToOne(IsExact)
            /\ PerformanceValid <=>
                   /\ OneToOne(IsGood)
                   /\ \E first, second \in FullRevisions :
                          /\ first # second
                          /\ \A i \in DOMAIN sides.baseline : sides.baseline[i].revision = first
                          /\ \A i \in DOMAIN sides.comparison :
                                 sides.comparison[i].revision = second

\* The drawings are of the rows of the tables: both pair the inputs for themselves, and what is
\* drawn is every pair with equal workloads that was sampled on both sides, and no other result.
DashboardsAreTables ==
    Dashboards = {pair \in Matching : HasSamples(pair.baseline) /\ HasSamples(pair.comparison)}
===============================================================================
