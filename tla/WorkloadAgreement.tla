--------------------------- MODULE WorkloadAgreement ---------------------------
(***************************************************************************)
(* ScenarioSpec's constructors and validate against the plan and the       *)
(* expectations of Workload: arguments come, are refused or accepted, and  *)
(* an accepted scenario is planned.                                        *)
(***************************************************************************)
EXTENDS Workload

CONSTANT Candidates     \* what the constructors are called with

ASSUME CandidatesAssumption == \A s \in Candidates : Constructed(s)

VARIABLES
    stage,      \* "asked", "refused" or "accepted"
    spec        \* the scenario asked for

vars == <<stage, spec>>

Init == stage = "asked" /\ spec \in Candidates

Refuse == stage = "asked" /\ ~Accepted(spec) /\ stage' = "refused" /\ UNCHANGED spec

Accept == stage = "asked" /\ Accepted(spec) /\ stage' = "accepted" /\ UNCHANGED spec

Next == Refuse \/ Accept

Spec == Init /\ [][Next]_vars

-------------------------------------------------------------------------------
\* The packets that ScenarioSpec::plan makes a result be validated against are exactly the ones
\* that the ledgers of all receivers expect, kind by kind, over as many routes: the closed
\* formulas of model.rs agree with the loops of scenario.rs, wherever a camera is featured.
PlanIsExpectation ==
    stage = "accepted" =>
        /\ Routes(spec) = ExpectedRoutes(spec)
        /\ \A kind \in {"audio", "low", "high"} : Deliveries(spec, kind) = ExpectedOf(spec, kind)

Told(s) ==
    /\ \A p, q \in Places(s) :
           SourceId(s.peers, p[1], p[2]) = SourceId(s.peers, q[1], q[2]) => p = q
    /\ \A p \in Places(s) :
           /\ WithinU16(SourceId(s.peers, p[1], p[2]))
           /\ \A e \in Expected(s, p[1], p[2]) : e.source # SourceId(s.peers, p[1], p[2])
           /\ \A e, f \in Expected(s, p[1], p[2]) :
                  e.source = f.source /\ ((e.kind = "audio") <=> (f.kind = "audio")) => e = f

\* A receiver can tell its streams apart: sources of two peers, in whatever rooms, have two
\* numbers within the u16 of the payload, no peer expects itself, and a source and a kind
\* of media name one stream.
StreamsAreTold == stage = "accepted" => Told(spec)
===============================================================================
