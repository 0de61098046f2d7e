------------------------------- MODULE Routing -------------------------------
(***************************************************************************)
(* Phase 2 as pure operators: RoutingEngine.route turns a classifier       *)
(* answer into a routing plan, with the threshold of the type's            *)
(* ConfidencePolicy (pipelines/routing_engine.py, pipelines/registry.py).  *)
(***************************************************************************)
EXTENDS Integers

CONSTANTS
    Registered,         \* document types of the registry
    ProceedThreshold    \* [Registered -> Int], percent

ASSUME RegistryAssumption ==
    /\ "UNKNOWN" \in Registered
    /\ ProceedThreshold \in [Registered -> Int]

\* What the classifier answers: success, the type named, its confidence.
Action == {"proceed", "unknown", "failure"}

UnknownPlan(action, confidence) ==
    [action |-> action, doc_type |-> "UNKNOWN", confidence |-> confidence]

Route(result) ==
    CASE ~result.success -> UnknownPlan("failure", 0)
      [] result.success /\ (\/ result.doc_type \notin Registered
                            \/ result.doc_type = "UNKNOWN") ->
            UnknownPlan("unknown", result.confidence)
      [] result.success /\ result.doc_type \in Registered \ {"UNKNOWN"} ->
            IF result.confidence >= ProceedThreshold[result.doc_type]
            THEN [action     |-> "proceed",
                  doc_type   |-> result.doc_type,
                  confidence |-> result.confidence]
            ELSE UnknownPlan("unknown", result.confidence)
=============================================================================
