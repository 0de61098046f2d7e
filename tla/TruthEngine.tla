----------------------------- MODULE TruthEngine -----------------------------
(***************************************************************************)
(* Phase 4 of the pipeline as pure operators: field validation against the *)
(* active schema, deterministic verifiers, confidence fusion and the       *)
(* persistence decision (pipelines/truth_engine, pipelines/nodes/          *)
(* truth_engine.py).  The HITL node re-runs the same steps on corrected    *)
(* fields, so both call BuildReport.                                       *)
(*                                                                         *)
(* An extraction is a partial function from field names to values; a value *)
(* only tells apart what the verifiers and the field validation tell       *)
(* apart.  Confidences reported by a model are percentages, scores derived *)
(* from them are in units of 1/10000, the four digits fuse() rounds to.    *)
(***************************************************************************)
EXTENDS Integers, FiniteSets

CONSTANTS
    DocTypes,            \* document types with a schema
    Fields,              \* field names
    Verifiers,           \* registered verifier names
    RequiredOf,          \* [DocTypes -> SUBSET Fields]
    OptionalOf,          \* [DocTypes -> SUBSET Fields]
    VerifiersOf,         \* [DocTypes -> SUBSET Verifiers]
    Reads,               \* [Verifiers -> SUBSET Fields], the fields a verifier needs
    ConfidenceThreshold, \* settings.CONFIDENCE_THRESHOLD
    NoReport             \* truth_report is None

\* JSON null, a value its verifiers accept, a value they refuse.
Values == {"null", "good", "bad"}

Extracted == UNION {[S -> Values] : S \in SUBSET Fields}

NoFields == [f \in {} |-> "null"]

\* {**fields, **corrections}
Merge(corrections, fields) ==
    [f \in DOMAIN corrections \cup DOMAIN fields |->
        IF f \in DOMAIN corrections THEN corrections[f] ELSE fields[f]]

ASSUME SchemaAssumption ==
    /\ IsFiniteSet(Fields)
    /\ IsFiniteSet(Verifiers)
    /\ RequiredOf \in [DocTypes -> SUBSET Fields]
    /\ OptionalOf \in [DocTypes -> SUBSET Fields]
    /\ VerifiersOf \in [DocTypes -> SUBSET Verifiers]
    /\ Reads \in [Verifiers -> SUBSET Fields]
    /\ ConfidenceThreshold \in Int

\* A type without an active row and without a YAML file has no reference fields.
Required(dt) == IF dt \in DocTypes THEN RequiredOf[dt] ELSE {}
Known(dt) == IF dt \in DocTypes THEN RequiredOf[dt] \cup OptionalOf[dt] ELSE {}
VerifiersFor(dt) == IF dt \in DocTypes THEN VerifiersOf[dt] ELSE {}

(***************************************************************************)
(* Field validation.  Presence is presence of the key: a field extracted   *)
(* as null counts as covered.                                              *)
(***************************************************************************)
Missing(dt, fields) == Required(dt) \ DOMAIN fields
Additional(dt, fields) == DOMAIN fields \ Known(dt)

Share(whole, dt, fields) ==
    IF Required(dt) = {}
    THEN whole
    ELSE (whole * Cardinality(Required(dt) \cap DOMAIN fields))
            \div Cardinality(Required(dt))

\* len(present) / len(required), truncated to four digits; thresholds on it
\* are multiples of 1/10000, so the truncation decides no comparison.
Coverage(dt, fields) == Share(10000, dt, fields)

\* 0.30 * coverage, rounded to four digits.
CoverageTerm(dt, fields) == (Share(6000, dt, fields) + 1) \div 2

(***************************************************************************)
(* One verifier.  It is skipped (passed = None) when a field it reads is   *)
(* absent or null.                                                         *)
(***************************************************************************)
Verdict(v, fields) ==
    IF \E f \in Reads[v] : f \notin DOMAIN fields \/ fields[f] = "null"
    THEN "skipped"
    ELSE IF \E f \in Reads[v] : fields[f] = "bad" THEN "failed" ELSE "passed"

WithVerdict(dt, fields, verdict) ==
    {v \in VerifiersFor(dt) : Verdict(v, fields) = verdict}

Failed(dt, fields) == WithVerdict(dt, fields, "failed")

(***************************************************************************)
(* ConfidenceFusionPolicy.fuse: 0.20 classify + 0.50 extraction + 0.30     *)
(* coverage, capped by any failed verifier, raised a little when some ran  *)
(* and all of those passed, clamped and rounded.                           *)
(***************************************************************************)
FailureCap == 7000
PassBonus == 500

MaxScore == 10000
Scores == 0..MaxScore

Clamp(x) == IF x < 0 THEN 0 ELSE IF x > MaxScore THEN MaxScore ELSE x
AtMost(x, bound) == IF x > bound THEN bound ELSE x

\* Mutant: the pass bonus may lift the score above 1.
FuseUncapped(classify, extraction, coverageTerm, failed, passed) ==
    LET base == 20 * classify + 50 * extraction + coverageTerm
    IN  IF failed # {} THEN AtMost(base, FailureCap)
        ELSE IF passed # {} THEN base + PassBonus ELSE base

Fuse(classify, extraction, coverageTerm, failed, passed) ==
    LET base == 20 * classify + 50 * extraction + coverageTerm
    IN  Clamp(CASE failed # {} -> AtMost(base, FailureCap)
                [] failed = {} /\ passed # {} -> AtMost(base + PassBonus, MaxScore)
                [] OTHER -> base)

(***************************************************************************)
(* The TruthReport: the evidence the planner, the learning policy and      *)
(* write_output read.                                                      *)
(***************************************************************************)
Report == [failed     : SUBSET Verifiers,
           missing    : SUBSET Fields,
           additional : SUBSET Fields,
           coverage   : Int,
           confidence : Scores]

ASSUME ReportAssumption == NoReport \notin Report

BuildReport(dt, classify, extraction, fields) ==
    [failed     |-> Failed(dt, fields),
     missing    |-> Missing(dt, fields),
     additional |-> Additional(dt, fields),
     coverage   |-> Coverage(dt, fields),
     confidence |-> Fuse(classify, extraction, CoverageTerm(dt, fields),
                         Failed(dt, fields), WithVerdict(dt, fields, "passed"))]

(***************************************************************************)
(* PersistenceDecision.from_truth.  allow_completion, allow_embedding and  *)
(* allow_learning always have the same value, so one operator stands for   *)
(* the three.                                                              *)
(***************************************************************************)
Allows(report) == report.failed = {} /\ report.confidence >= ConfidenceThreshold

DocumentStatus(report) ==
    CASE report.failed # {} -> "verification_failed"
      [] Allows(report) -> "completed"
      [] OTHER -> "failed"
=============================================================================
