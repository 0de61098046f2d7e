------------------------------ MODULE Resolution ------------------------------
(***************************************************************************)
(* Phase 5 as pure operators: the planner's rules, the failure variant the *)
(* deduplication of strategies is keyed by, the executor's record, and the *)
(* routing of its outcome (pipelines/resolution, pipelines/router.py); and *)
(* the learning policy that reads the same evidence (pipelines/learning/   *)
(* policy.py).                                                             *)
(***************************************************************************)
EXTENDS TruthEngine, Sequences

CoverageThreshold == 8000

AutonomousOrder == <<"prompt_refinement", "better_retrieval",
                     "image_preprocess", "model_escalation">>
Autonomous == {AutonomousOrder[i] : i \in 1..4}

\* Deduplicated by (strategy, variant); the other autonomous ones by strategy.
VariantDeduped == {"prompt_refinement", "better_retrieval"}

Strategies == Autonomous \cup {"accept", "retry", "hitl", "reject"}

(***************************************************************************)
(* failure_variant: the slug of a failure pattern.  The slug names at most *)
(* five missing fields; a schema of the model has no more.  "low_coverage" *)
(* needs a coverage below the threshold with no field missing.             *)
(***************************************************************************)
Variant == [cause : {"none", "verifier_failure", "missing_fields",
                     "low_coverage", "low_confidence"},
            names : SUBSET (Verifiers \cup Fields)]

NoVariant == [cause |-> "none", names |-> {}]

FailureVariant(report) ==
    CASE report.failed # {} ->
            [cause |-> "verifier_failure", names |-> report.failed]
      [] report.failed = {} /\ report.missing # {} ->
            [cause |-> "missing_fields", names |-> report.missing]
      [] report.failed = {} /\ report.missing = {}
            /\ report.coverage < CoverageThreshold ->
            [cause |-> "low_coverage", names |-> {}]
      [] OTHER -> [cause |-> "low_confidence", names |-> {}]

(***************************************************************************)
(* An execution history is read only through any(...), so it is the set of *)
(* the (strategy, variant) pairs recorded.                                 *)
(***************************************************************************)
Record == [strategy : Strategies, variant : Variant]

Tried(strategy, variant, history) ==
    \E r \in history :
        /\ r.strategy = strategy
        /\ strategy \in VariantDeduped => r.variant = variant

Untried(variant, history) ==
    {i \in 1..4 : ~Tried(AutonomousOrder[i], variant, history)}

\* Strategies are tried in their fixed order, each at most once per its key.
NextAutonomous(variant, history) ==
    AutonomousOrder[CHOOSE i \in Untried(variant, history) :
                        \A j \in Untried(variant, history) : i <= j]

Accepts(report) ==
    /\ report.failed = {}
    /\ report.confidence >= ConfidenceThreshold
    /\ report.coverage >= CoverageThreshold

(***************************************************************************)
(* ResolutionPlanner.plan: the five rules in order.  A decision is the     *)
(* record its execution will leave: requires_human is strategy = "hitl"    *)
(* and learning_candidate is strategy = "accept".                          *)
(***************************************************************************)
Decide(strategy) == [strategy |-> strategy, variant |-> NoVariant]

PlanAutonomous(variant, history) ==
    LET strategy == NextAutonomous(variant, history)
    IN  [strategy |-> strategy,
         variant  |-> IF strategy \in VariantDeduped THEN variant ELSE NoVariant]

\* Mutant: the budget is compared with < 0, one retry too many.
PlanOneMore(report, history, budget) ==
    IF report = NoReport THEN Decide("hitl")
    ELSE IF Accepts(report) THEN Decide("accept")
    ELSE IF budget < 0 THEN Decide("hitl")
    ELSE IF Untried(FailureVariant(report), history) # {}
    THEN PlanAutonomous(FailureVariant(report), history)
    ELSE Decide("retry")

Plan(report, history, budget) ==
    CASE report = NoReport -> Decide("hitl")
      [] report # NoReport /\ Accepts(report) -> Decide("accept")
      [] report # NoReport /\ ~Accepts(report) /\ budget <= 0 -> Decide("hitl")
      [] report # NoReport /\ ~Accepts(report) /\ budget > 0 ->
            IF Untried(FailureVariant(report), history) # {}
            THEN PlanAutonomous(FailureVariant(report), history)
            ELSE Decide("retry")

\* Mutant: what no rule names is normalized instead of reviewed.
RouteUnreviewed(strategy) ==
    IF strategy \in Autonomous \cup {"retry"} THEN "op_a_retry" ELSE "normalize"

\* route_after_executor, on the strategy of the decision.
RouteAfterExecutor(strategy) ==
    CASE strategy = "accept" -> "normalize"
      [] strategy \in Autonomous \cup {"retry"} -> "op_a_retry"
      [] strategy = "reject" -> "persist"
      [] OTHER -> "op_b_hitl"

\* Mutant: the strategy of the decision is not looked at.
AllowLearningAnyway(strategy, report) == Allows(report)

\* LearningPolicy.evaluate: allow_learning, and schema_candidate.
AllowLearning(strategy, report) ==
    /\ Allows(report)
    /\ strategy = "accept"
    /\ report.failed = {}

SchemaCandidate(strategy, report) ==
    /\ strategy = "accept"
    /\ report.failed = {}
    /\ report.additional # {}
=============================================================================
