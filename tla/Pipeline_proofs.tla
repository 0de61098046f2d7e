--------------------------- MODULE Pipeline_proofs ---------------------------
(***************************************************************************)
(* Theorems of the pipeline, for any documents, threads, schemas, answers  *)
(* of the models and of the reviewers, and any number of retries, crashes, *)
(* failures and decisions.                                                 *)
(***************************************************************************)
EXTENDS Pipeline, FiniteSetTheorems, TLAPS

-----------------------------------------------------------------------------
(* The evidence operators, for every schema: what extractions are closed   *)
(* under, and what a report and a decision can be                          *)

LEMMA ExtractedMembers ==
    ASSUME NEW f
    PROVE  f \in Extracted <=> \E S \in SUBSET Fields : f \in [S -> Values]
BY DEF Extracted

LEMMA NoFieldsExtracted == NoFields \in Extracted
<1>1. NoFields \in [{} -> Values]
  BY DEF NoFields
<1>2. QED
  BY <1>1, ExtractedMembers

(***************************************************************************)
(* The reviewer's corrections laid over an extraction are an extraction.   *)
(***************************************************************************)
LEMMA MergeExtracted ==
    ASSUME NEW f \in Extracted, NEW g \in Extracted
    PROVE  Merge(f, g) \in Extracted
<1>1. PICK S \in SUBSET Fields : f \in [S -> Values]
  BY ExtractedMembers
<1>2. PICK T \in SUBSET Fields : g \in [T -> Values]
  BY ExtractedMembers
<1>3. DOMAIN f = S /\ DOMAIN g = T
  BY <1>1, <1>2
<1>4. Merge(f, g) \in [S \cup T -> Values]
  BY <1>1, <1>2, <1>3 DEF Merge
<1>5. S \cup T \in SUBSET Fields
  BY <1>1, <1>2
<1>6. QED
  BY <1>4, <1>5, ExtractedMembers

LEMMA RequiredFields == ASSUME NEW dt PROVE Required(dt) \in SUBSET Fields
BY SchemaAssumption DEF Required

LEMMA ShareInt ==
    ASSUME NEW whole \in Int, NEW dt, NEW fields
    PROVE  Share(whole, dt, fields) \in Int
<1> DEFINE present == Required(dt) \cap DOMAIN fields
<1>1. IsFiniteSet(Required(dt)) /\ IsFiniteSet(present)
  BY RequiredFields, SchemaAssumption, FS_Subset
<1>2. Cardinality(Required(dt)) \in Nat /\ Cardinality(present) \in Nat
  BY <1>1, FS_CardinalityType
<1>3. CASE Required(dt) = {}
  BY <1>3 DEF Share
<1>4. CASE Required(dt) # {}
  <2>1. Cardinality(Required(dt)) > 0
    BY <1>1, <1>2, <1>4, FS_EmptySet
  <2>2. whole * Cardinality(present) \in Int
    BY <1>2
  <2>3. (whole * Cardinality(present)) \div Cardinality(Required(dt)) \in Int
    BY <1>2, <2>1, <2>2
  <2>4. QED
    BY <1>4, <2>3 DEF Share
<1>5. QED
  BY <1>3, <1>4

(***************************************************************************)
(* Whatever the model claims and the verifiers say, the score is in 0..1.  *)
(***************************************************************************)
LEMMA FuseRange ==
    ASSUME NEW c \in Int, NEW e \in Int, NEW k \in Int, NEW failed, NEW passed
    PROVE  Fuse(c, e, k, failed, passed) \in Scores
<1>1. \A x \in Int : Clamp(x) \in Scores
  <2>1. MaxScore \in Int /\ 0 <= MaxScore
    BY DEF MaxScore
  <2>2. QED
    BY <2>1 DEF Clamp, Scores
<1>2. \A x \in Int, bound \in Int : AtMost(x, bound) \in Int
  BY DEF AtMost
<1>3. FailureCap \in Int /\ PassBonus \in Int /\ MaxScore \in Int
  BY DEF FailureCap, PassBonus, MaxScore
<1>4. PICK base \in Int : base = 20 * c + 50 * e + k
  OBVIOUS
<1>5. CASE failed # {}
  <2>1. Fuse(c, e, k, failed, passed) = Clamp(AtMost(base, FailureCap))
    BY <1>4, <1>5 DEF Fuse
  <2>2. QED
    BY <1>1, <1>2, <1>3, <2>1
<1>6. CASE failed = {} /\ passed # {}
  <2>1. Fuse(c, e, k, failed, passed) = Clamp(AtMost(base + PassBonus, MaxScore))
    BY <1>4, <1>6 DEF Fuse
  <2>2. base + PassBonus \in Int
    BY <1>3
  <2>3. AtMost(base + PassBonus, MaxScore) \in Int
    BY <1>2, <1>3, <2>2
  <2>4. QED
    BY <1>1, <2>1, <2>3
<1>7. CASE failed = {} /\ passed = {}
  <2>1. Fuse(c, e, k, failed, passed) = Clamp(base)
    BY <1>4, <1>7 DEF Fuse
  <2>2. QED
    BY <1>1, <2>1
<1>8. QED
  BY <1>5, <1>6, <1>7

(***************************************************************************)
(* A failing verifier caps the score, so a document with one is never      *)
(* allowed to complete, be embedded or be learned from, at any threshold.  *)
(***************************************************************************)
LEMMA FailureCaps ==
    ASSUME NEW c \in Int, NEW e \in Int, NEW k \in Int, NEW failed, NEW passed,
           failed # {}
    PROVE  Fuse(c, e, k, failed, passed) <= FailureCap
BY DEF Fuse, Clamp, AtMost, FailureCap, MaxScore

LEMMA ReportType ==
    ASSUME NEW dt, NEW c \in Int, NEW e \in Int, NEW fields \in Extracted
    PROVE  BuildReport(dt, c, e, fields) \in Report
<1>1. Failed(dt, fields) \in SUBSET Verifiers
  BY SchemaAssumption DEF Failed, WithVerdict, VerifiersFor
<1>2. Missing(dt, fields) \in SUBSET Fields
  BY RequiredFields DEF Missing
<1>3. Additional(dt, fields) \in SUBSET Fields
  BY ExtractedMembers DEF Additional
<1>4. Coverage(dt, fields) \in Int
  BY ShareInt DEF Coverage
<1>5. CoverageTerm(dt, fields) \in Int
  <2>1. Share(6000, dt, fields) \in Int
    BY ShareInt
  <2>2. QED
    BY <2>1 DEF CoverageTerm
<1>6. Fuse(c, e, CoverageTerm(dt, fields), Failed(dt, fields),
           WithVerdict(dt, fields, "passed")) \in Scores
  BY <1>5, FuseRange
<1>7. QED
  BY <1>1, <1>2, <1>3, <1>4, <1>6 DEF BuildReport, Report

-----------------------------------------------------------------------------
(* The planner *)

LEMMA NextIsAutonomous ==
    ASSUME NEW variant, NEW history, Untried(variant, history) # {}
    PROVE  /\ NextAutonomous(variant, history) \in Autonomous
           /\ \E i \in Untried(variant, history) :
                 NextAutonomous(variant, history) = AutonomousOrder[i]
<1> DEFINE U == Untried(variant, history)
<1>1. U \subseteq 1..4 /\ U # {}
  BY DEF Untried
<1>2. \E i \in U : \A j \in U : i <= j
  BY <1>1
<1> DEFINE m == CHOOSE i \in U : \A j \in U : i <= j
<1>3. m \in U
  BY <1>2
<1>4. AutonomousOrder[m] \in Autonomous
  BY <1>1, <1>3 DEF Autonomous
<1>5. NextAutonomous(variant, history) = AutonomousOrder[m]
  BY DEF NextAutonomous
<1>6. QED
  BY <1>3, <1>4, <1>5

LEMMA VariantType ==
    ASSUME NEW report \in Report
    PROVE  FailureVariant(report) \in Variant
BY DEF FailureVariant, Variant, Report

LEMMA PlanType ==
    ASSUME NEW report \in Report \cup {NoReport}, NEW history, NEW budget \in Int
    PROVE  Plan(report, history, budget) \in Record
<1>1. NoVariant \in Variant
  BY DEF NoVariant, Variant
<1>2. Decide("accept") \in Record /\ Decide("hitl") \in Record /\ Decide("retry") \in Record
  BY <1>1 DEF Decide, Record, Strategies
<1>3. ASSUME report # NoReport, Untried(FailureVariant(report), history) # {}
      PROVE  PlanAutonomous(FailureVariant(report), history) \in Record
  <2>1. report \in Report
    BY <1>3
  <2>2. FailureVariant(report) \in Variant
    BY <2>1, VariantType
  <2>3. NextAutonomous(FailureVariant(report), history) \in Strategies
    BY <1>3, NextIsAutonomous DEF Strategies
  <2>4. QED
    BY <1>1, <2>2, <2>3 DEF PlanAutonomous, Record
<1>4. QED
  BY <1>2, <1>3 DEF Plan

-----------------------------------------------------------------------------
(* What the nodes compute *)

LEMMA EvaluateType ==
    ASSUME NEW chan \in Channels
    PROVE  Evaluate(chan) \in Report
<1>1. /\ chan.classify_confidence \in Int
      /\ chan.extract_confidence \in Int
      /\ chan.fields \in Extracted
  BY DEF Channels
<1>2. QED
  BY <1>1, ReportType DEF Evaluate

LEMMA PlanForType ==
    ASSUME NEW chan \in Channels
    PROVE  PlanFor(chan) \in Record
<1>1. chan.report \in Report \cup {NoReport}
  BY DEF Channels
<1>2. MaxRetries - chan.retry_count \in Int
  BY PipelineAssumption DEF Channels
<1>3. QED
  BY <1>1, <1>2, PlanType DEF PlanFor

LEMMA UniversalExtracted ==
    ASSUME NEW dt, NEW fields \in Extracted
    PROVE  Universal(dt, fields) \in Extracted
<1> DEFINE S == IF dt \in DocTypes THEN MappedOf[dt] ELSE {}
<1>1. S \in SUBSET Fields
  BY PipelineAssumption
<1>2. PICK T \in SUBSET Fields : fields \in [T -> Values]
  BY ExtractedMembers
<1>3. "null" \in Values
  BY DEF Values
<1>4. Universal(dt, fields) \in [S -> Values]
  BY <1>2, <1>3 DEF Universal
<1>5. QED
  BY <1>1, <1>4, ExtractedMembers

LEMMA RouteType ==
    ASSUME NEW result \in ClassifierResults
    PROVE  Route(result).doc_type \in Types /\ Route(result).confidence \in Int
<1>1. result.success \in BOOLEAN /\ result.confidence \in Int
  BY PipelineAssumption
<1>2. "UNKNOWN" \in Types
  BY RegistryAssumption DEF Types
<1>3. CASE ~result.success
  BY <1>2, <1>3 DEF Route, UnknownPlan
<1>4. CASE result.success /\ (result.doc_type \notin Registered \/ result.doc_type = "UNKNOWN")
  BY <1>1, <1>2, <1>4 DEF Route, UnknownPlan
<1>5. CASE result.success /\ result.doc_type \in Registered \ {"UNKNOWN"}
  <2>1. result.doc_type \in Types
    BY <1>5 DEF Types
  <2>2. QED
    BY <1>1, <1>2, <1>5, <2>1 DEF Route, UnknownPlan
<1>6. QED
  BY <1>1, <1>3, <1>4, <1>5

LEMMA EmptyChannelsType == EmptyChannels \in Channels
<1>1. NoReport \in Report \cup {NoReport}
  OBVIOUS
<1>2. NoDecision \in Decision
  BY DEF Decision
<1>3. NoType \in Types
  BY DEF Types
<1>4. QED
  BY <1>1, <1>2, <1>3, NoFieldsExtracted DEF EmptyChannels, Channels

LEMMA IdleParts == Idle.chan \in Channels /\ Idle.node \in Nodes /\ Idle.resume \in Resume
BY EmptyChannelsType, NoFieldsExtracted DEF Idle, Nodes, NoResume, Resume

LEMMA IdleType == Idle \in Invocation
BY DEF Invocation

(***************************************************************************)
(* Each function a node applies to its channels gives channels.            *)
(***************************************************************************)
LEMMA RestartedType ==
    ASSUME NEW chan \in Channels PROVE Restarted(chan) \in Channels
BY NoFieldsExtracted DEF Restarted, Channels

LEMMA ExecutedType ==
    ASSUME NEW chan \in Channels PROVE Executed(chan) \in Channels
<1>1. CASE chan.decision = NoDecision
  BY <1>1 DEF Executed
<1>2. CASE chan.decision # NoDecision
  <2>1. chan.decision \in Record
    BY <1>2 DEF Channels, Decision
  <2>2. chan.history \cup {chan.decision} \in SUBSET Record
    BY <2>1 DEF Channels
  <2>3. {chan.decision.strategy} \cap Autonomous \in SUBSET Autonomous
    OBVIOUS
  <2>4. QED
    BY <1>2, <2>2, <2>3 DEF Executed, Channels
<1>3. QED
  BY <1>1, <1>2

LEMMA RetriedType ==
    ASSUME NEW chan \in Channels, NEW x \in Extractions, NEW discovered \in Discoveries
    PROVE  Retried(chan, x, discovered) \in Channels
<1>1. x.fields \in Extracted /\ x.confidence \in Int /\ discovered \in BOOLEAN
  BY PipelineAssumption
<1>2. chan.retry_count + 1 \in Nat
  BY DEF Channels
<1>3. QED
  BY <1>1, <1>2 DEF Retried, Channels

LEMMA CorrectedType ==
    ASSUME NEW chan \in Channels, NEW resume \in Resume
    PROVE  Revalidated(Corrected(chan, resume)) \in Channels
<1>1. Merge(resume.corrections, chan.fields) \in Extracted
  BY MergeExtracted DEF Channels, Resume
<1>2. Corrected(chan, resume) \in Channels
  BY <1>1 DEF Corrected, Channels
<1> DEFINE c == Corrected(chan, resume)
<1>3. Evaluate(c) \in Report
  BY <1>2, EvaluateType
<1> HIDE DEF c
<1>4. Revalidated(c) \in Channels
  BY <1>2, <1>3 DEF c, Revalidated, Channels
<1>5. QED
  BY <1>4 DEF c

LEMMA ReviewedType ==
    ASSUME NEW chan \in Channels, NEW resume \in Resume
    PROVE  Reviewed(chan, resume) \in Channels
<1> DEFINE fresh == Revalidated(Corrected(chan, resume))
<1>1. fresh \in Channels
  BY CorrectedType
<1> HIDE DEF fresh
<1>2. PlanFor(fresh) \in Decision
  BY <1>1, PlanForType DEF Decision
<1>3. Reviewed(chan, resume) =
        [fresh EXCEPT !.decision = PlanFor(fresh),
                      !.hitl = IF resume.approved THEN "approved" ELSE "rejected",
                      !.hitl_correction = DOMAIN resume.corrections # {}]
  BY DEF Reviewed, fresh
<1>4. QED
  BY <1>1, <1>2, <1>3 DEF Channels
-----------------------------------------------------------------------------
(* Type correctness *)

(***************************************************************************)
(* How an action may change what a thread holds.                           *)
(***************************************************************************)
LEMMA StartType ==
    ASSUME inv \in [Threads -> Invocation],
           NEW t \in Threads, NEW d \in Docs, NEW node \in Nodes,
           NEW chan \in Channels, NEW resume \in Resume,
           Start(t, d, node, chan, resume)
    PROVE  inv' \in [Threads -> Invocation]
<1>1. [doc |-> d, at |-> "stamp", node |-> node, chan |-> chan, resume |-> resume]
        \in Invocation
  BY DEF Invocation, Busy, Positions
<1>2. QED
  BY <1>1 DEF Start

LEMMA StopType ==
    ASSUME inv \in [Threads -> Invocation], NEW t \in Threads, Stop(t)
    PROVE  inv' \in [Threads -> Invocation]
BY IdleType DEF Stop

LEMMA MoveType ==
    ASSUME inv \in [Threads -> Invocation], NEW t \in Threads, NEW p \in Positions,
           inv[t].at # "idle", inv' = [inv EXCEPT ![t].at = p]
    PROVE  inv' \in [Threads -> Invocation]
<1>1. inv[t] \in Busy
  BY DEF Invocation, Idle
<1>2. [inv[t] EXCEPT !.at = p] \in Busy
  BY <1>1 DEF Busy
<1>3. inv' = [inv EXCEPT ![t] = [inv[t] EXCEPT !.at = p]]
  OBVIOUS
<1>4. QED
  BY <1>2, <1>3 DEF Invocation

LEMMA NoResumeType == NoResume \in Resume
BY NoFieldsExtracted DEF NoResume, Resume

LEMMA RowPhase ==
    ASSUME row \in [Docs -> Row], NEW d, NEW p \in Phases
    PROVE  [row EXCEPT ![d].phase = p] \in [Docs -> Row]
BY DEF Row

LEMMA RowStatus ==
    ASSUME row \in [Docs -> Row], NEW d, NEW s \in Statuses, NEW p \in Phases
    PROVE  [row EXCEPT ![d].status = s, ![d].phase = p] \in [Docs -> Row]
<1>1. CASE d \in Docs
  <2>1. row[d] \in Row
    BY <1>1
  <2>2. [[row[d] EXCEPT !.status = s] EXCEPT !.phase = p] \in Row
    BY <2>1 DEF Row
  <2>3. [row EXCEPT ![d].status = s, ![d].phase = p]
          = [row EXCEPT ![d] = [[row[d] EXCEPT !.status = s] EXCEPT !.phase = p]]
    BY <1>1
  <2>4. QED
    BY <2>2, <2>3
<1>2. CASE d \notin Docs
  BY <1>2
<1>3. QED
  BY <1>1, <1>2

LEMMA RowColumns ==
    ASSUME row \in [Docs -> Row], NEW d, NEW dt \in Types,
           NEW f \in Extracted, NEW u \in Extracted
    PROVE  [row EXCEPT ![d].doc_type = dt, ![d].fields = f, ![d].universal = u]
             \in [Docs -> Row]
<1>1. CASE d \in Docs
  <2>1. row[d] \in Row
    BY <1>1
  <2>2. [[[row[d] EXCEPT !.doc_type = dt] EXCEPT !.fields = f] EXCEPT !.universal = u] \in Row
    BY <2>1 DEF Row
  <2>3. [row EXCEPT ![d].doc_type = dt, ![d].fields = f, ![d].universal = u]
          = [row EXCEPT ![d] =
               [[[row[d] EXCEPT !.doc_type = dt] EXCEPT !.fields = f] EXCEPT !.universal = u]]
    BY <1>1
  <2>4. QED
    BY <2>2, <2>3
<1>2. CASE d \notin Docs
  BY <1>2
<1>3. QED
  BY <1>1, <1>2

LEMMA AuditAppend ==
    ASSUME audit \in [Docs -> Seq(AuditRow)], NEW d, NEW r \in AuditRow
    PROVE  [audit EXCEPT ![d] = Append(@, r)] \in [Docs -> Seq(AuditRow)]
<1>1. d \in Docs => Append(audit[d], r) \in Seq(AuditRow)
  OBVIOUS
<1>2. QED
  BY <1>1

LEMMA SpentType ==
    ASSUME NEW s \in Spent
    PROVE  /\ [s EXCEPT !.crashes = @ + 1] \in Spent
           /\ [s EXCEPT !.faults = @ + 1] \in Spent
           /\ \A d \in Docs : [s EXCEPT !.decisions[d] = @ + 1] \in Spent
BY DEF Spent

LEMMA PureType ==
    ASSUME TypeOK, NEW t \in Threads, NEW chan \in Channels, NEW next \in Nodes,
           Doc(t) \in Docs, Pure(t, chan, next)
    PROVE  TypeOK'
<1>1. ckpt' = [ckpt EXCEPT ![Doc(t)] = [next |-> next, chan |-> chan]]
  BY DEF Pure, Advance
<1>2. inv' \in [Threads -> Invocation]
  BY StartType, NoResumeType DEF TypeOK, Pure, Advance
<1>3. ckpt' \in [Docs -> [next : Nodes \cup {"none", "end"}, chan : Channels]]
  BY <1>1 DEF TypeOK
<1>4. QED
  BY <1>2, <1>3 DEF TypeOK, Pure, stores

LEMMA TerminalStatusType ==
    ASSUME NEW chan \in Channels
    PROVE  TerminalStatus(chan) \in TerminalStatuses
<1>1. chan.hitl \in {"none", "approved", "rejected"}
  BY DEF Channels
<1>2. DocumentStatus(chan.report) \in TerminalStatuses
  BY DEF DocumentStatus, TerminalStatuses
<1>3. "rejected" \in TerminalStatuses /\ "completed" \in TerminalStatuses
        /\ "failed" \in TerminalStatuses
  BY DEF TerminalStatuses
<1>4. QED
  BY <1>1, <1>2, <1>3 DEF TerminalStatus

LEMMA InitType == Init => TypeOK
<1> SUFFICES ASSUME Init PROVE TypeOK
  OBVIOUS
<1>1. "queued" \in Statuses
  BY DEF Statuses
<1>2. "ingested" \in Phases
  <2>1. PhaseOf["master"] = "ingested" /\ "master" \in Nodes
    BY DEF PhaseOf, Nodes
  <2>2. QED
    BY <2>1 DEF Phases
<1>3. NoType \in Types
  BY DEF Types
<1>4. <<>> \in Seq(AuditRow)
  OBVIOUS
<1>5. row \in [Docs -> Row]
  BY <1>1, <1>2, <1>3, NoFieldsExtracted DEF Init, Row
<1>6. QED
  BY <1>4, <1>5, NoFieldsExtracted, EmptyChannelsType, IdleType
  DEF Init, TypeOK, NoObject, Spent

LEMMA NextType == TypeOK /\ [Next]_vars => TypeOK'
<1> SUFFICES ASSUME TypeOK, [Next]_vars PROVE TypeOK'
  OBVIOUS
<1>1. \A t \in Threads : /\ Chan(t) \in Channels
                        /\ inv[t].node \in Nodes
                        /\ inv[t].resume \in Resume
  <2> TAKE t \in Threads
  <2>1. inv[t] \in Busy \/ inv[t] = Idle
    BY DEF TypeOK, Invocation
  <2>2. CASE inv[t] \in Busy
    BY <2>2 DEF Busy, Chan
  <2>3. CASE inv[t] = Idle
    BY <2>3, IdleParts DEF Chan
  <2>4. QED
    BY <2>1, <2>2, <2>3
<1> DEFINE busy(t) == inv[t].at # "idle"
<1>0. \A t \in Threads : busy(t) => Doc(t) \in Docs
  BY DEF TypeOK, Invocation, Busy, Idle, Doc
<1>2. ASSUME NEW t \in Threads, NEW d \in Docs, Dispatch(t, d) PROVE TypeOK'
  <2>1. Restarted(ckpt[d].chan) \in Channels
    BY RestartedType DEF TypeOK
  <2>2. "master" \in Nodes
    BY DEF Nodes
  <2>3. inv' \in [Threads -> Invocation]
    BY <1>2, <2>1, <2>2, StartType, NoResumeType DEF Dispatch, TypeOK
  <2>4. ckpt' \in [Docs -> [next : Nodes \cup {"none", "end"}, chan : Channels]]
    <3>1. ckpt' = [ckpt EXCEPT ![d] = [next |-> "master", chan |-> Restarted(ckpt[d].chan)]]
      BY <1>2 DEF Dispatch, TypeOK
    <3>2. QED
      BY <2>1, <2>2, <3>1 DEF TypeOK
  <2>5. QED
    BY <1>2, <2>3, <2>4 DEF Dispatch, TypeOK, stores
<1>3. ASSUME ListPending PROVE TypeOK'
  BY <1>3 DEF ListPending, TypeOK, stores
<1>4. ASSUME NEW t \in Threads, NEW d \in Docs, NEW approved \in BOOLEAN,
             NEW c \in Corrections, SubmitDecision(t, d, approved, c)
      PROVE  TypeOK'
  <2>1. [given |-> TRUE, approved |-> approved, corrections |-> c] \in Resume
    BY PipelineAssumption DEF Resume
  <2>2. ckpt[d].next \in Nodes /\ ckpt[d].chan \in Channels
    BY <1>4 DEF SubmitDecision, TypeOK
  <2>3. inv' \in [Threads -> Invocation]
    BY <1>4, <2>1, <2>2, StartType DEF SubmitDecision, TypeOK
  <2>4. spent' \in Spent
    BY <1>4, SpentType DEF SubmitDecision, TypeOK
  <2>5. QED
    BY <1>4, <2>3, <2>4 DEF SubmitDecision, TypeOK, stores
<1>5. ASSUME NEW t \in Threads, StampPhase(t) PROVE TypeOK'
  <2>1. PhaseOf[inv[t].node] \in Phases
    BY <1>1 DEF Phases
  <2>2. inv' \in [Threads -> Invocation]
    BY <1>5, MoveType DEF StampPhase, TypeOK, Positions
  <2>3. row' \in [Docs -> Row]
    <3>1. row \in [Docs -> Row]
      BY DEF TypeOK
    <3>2. row' = row \/ row' = [row EXCEPT ![Doc(t)].phase = PhaseOf[inv[t].node]]
      BY <1>5 DEF StampPhase
    <3>3. QED
      BY <2>1, <3>1, <3>2, RowPhase
  <2>4. spent' \in Spent
    BY <1>5, SpentType DEF StampPhase, Fault, TypeOK
  <2>5. QED
    BY <1>5, <2>2, <2>3, <2>4 DEF StampPhase, TypeOK, stores
<1>6. ASSUME NEW t \in Threads, Node(t) PROVE TypeOK'
  <2>0. Doc(t) \in Docs
    <3>1. inv[t].at = "run"
      BY <1>6 DEF Node, In, Master, Classify, UnknownHandler, Extract, TruthEngineNode,
                      ResolutionPlanner, StrategyExecutor, OpARetry, Interrupt, OpBHitl, Normalize
    <3>2. QED
      BY <1>0, <3>1
  <2>1. CASE Master(t)
    <3>1. PICK dt \in Types, n \in {"op_b_hitl", "classify"} :
            Pure(t, [Chan(t) EXCEPT !.doc_type = dt], n)
      <4>1. Chan(t).doc_type \in Types
        BY <1>1 DEF Channels
      <4>2. FileType[Doc(t)] \in Types
        BY <2>0, PipelineAssumption DEF Types
      <4>3. (IF FileType[Doc(t)] # NoType THEN FileType[Doc(t)] ELSE Chan(t).doc_type)
              \in Types
        BY <4>1, <4>2
      <4>4. (IF Doc(t) \in blank THEN "op_b_hitl" ELSE "classify")
              \in {"op_b_hitl", "classify"}
        OBVIOUS
      <4>5. QED
        BY <2>1, <4>3, <4>4 DEF Master
    <3>2. [Chan(t) EXCEPT !.doc_type = dt] \in Channels
      BY <1>1 DEF Channels
    <3>3. n \in Nodes
      BY DEF Nodes
    <3>4. QED
      BY <3>1, <3>2, <3>3, <2>0, PureType
  <2>2. CASE Classify(t)
    <3>1. PICK result \in ClassifierResults, n \in {"extract", "unknown_handler"} :
            Pure(t, [Chan(t) EXCEPT !.doc_type = Route(result).doc_type,
                                    !.classify_confidence = Route(result).confidence], n)
      BY <2>2 DEF Classify
    <3>2. [Chan(t) EXCEPT !.doc_type = Route(result).doc_type,
                          !.classify_confidence = Route(result).confidence] \in Channels
      BY <1>1, RouteType DEF Channels
    <3>3. n \in Nodes
      BY DEF Nodes
    <3>4. QED
      BY <3>1, <3>2, <3>3, <2>0, PureType
  <2>3. CASE UnknownHandler(t)
    <3>1. [Chan(t) EXCEPT !.error = TRUE] \in Channels /\ "persist" \in Nodes
      BY <1>1 DEF Channels, Nodes
    <3>2. QED
      BY <2>3, <3>1, <2>0, PureType DEF UnknownHandler
  <2>4. CASE Extract(t)
    <3>1. PICK x \in Extractions :
            Pure(t, [Chan(t) EXCEPT !.fields = x.fields,
                                    !.extract_confidence = x.confidence,
                                    !.error = ~x.success], "truth_engine")
      BY <2>4 DEF Extract
    <3>2. /\ [Chan(t) EXCEPT !.fields = x.fields,
                             !.extract_confidence = x.confidence,
                             !.error = ~x.success] \in Channels
          /\ "truth_engine" \in Nodes
      BY <1>1, PipelineAssumption DEF Channels, Nodes
    <3>3. QED
      BY <3>1, <3>2, <2>0, PureType
  <2>5. CASE TruthEngineNode(t)
    <3>1. /\ [Chan(t) EXCEPT !.report = Evaluate(Chan(t))] \in Channels
          /\ "resolution_planner" \in Nodes
      BY <1>1, EvaluateType DEF Channels, Nodes
    <3>2. QED
      BY <2>5, <3>1, <2>0, PureType DEF TruthEngineNode
  <2>6. CASE ResolutionPlanner(t)
    <3>1. PlanFor(Chan(t)) \in Decision
      BY <1>1, PlanForType DEF Decision
    <3>2. /\ [Chan(t) EXCEPT !.decision = PlanFor(Chan(t))] \in Channels
          /\ "strategy_executor" \in Nodes
      BY <1>1, <3>1 DEF Channels, Nodes
    <3>3. QED
      BY <2>6, <3>2, <2>0, PureType DEF ResolutionPlanner
  <2>7. CASE StrategyExecutor(t)
    <3>1. Executed(Chan(t)) \in Channels
      BY <1>1, ExecutedType
    <3>2. RouteAfterExecutor(Chan(t).decision.strategy) \in Nodes
      BY DEF RouteAfterExecutor, Nodes
    <3>3. QED
      BY <2>7, <3>1, <3>2, <2>0, PureType DEF StrategyExecutor
  <2>8. CASE OpARetry(t)
    <3>1. PICK x \in Extractions, discovered \in Discoveries :
            Pure(t, Retried(Chan(t), x, discovered), "truth_engine")
      BY <2>8 DEF OpARetry
    <3>2. Retried(Chan(t), x, discovered) \in Channels /\ "truth_engine" \in Nodes
      BY <1>1, RetriedType DEF Nodes
    <3>3. QED
      BY <3>1, <3>2, <2>0, PureType
  <2>9. CASE Interrupt(t)
    <3>1. inv' \in [Threads -> Invocation]
      BY <2>9, StopType DEF Interrupt, TypeOK
    <3>2. QED
      BY <2>9, <3>1 DEF Interrupt, TypeOK, stores
  <2>10. CASE OpBHitl(t)
    <3>1. Reviewed(Chan(t), inv[t].resume) \in Channels /\ "normalize" \in Nodes
      BY <1>1, ReviewedType DEF Nodes
    <3>2. QED
      BY <2>10, <3>1, <2>0, PureType DEF OpBHitl
  <2>11. CASE Normalize(t)
    <3>1. Universal(Chan(t).doc_type, Chan(t).fields) \in Extracted
      BY <1>1, UniversalExtracted DEF Channels
    <3>2. /\ [Chan(t) EXCEPT !.universal = Universal(Chan(t).doc_type, Chan(t).fields)]
                \in Channels
          /\ "persist" \in Nodes
      BY <1>1, <3>1 DEF Channels, Nodes
    <3>3. QED
      BY <2>11, <3>2, <2>0, PureType DEF Normalize
  <2>12. QED
    BY <1>6, <2>1, <2>2, <2>3, <2>4, <2>5, <2>6, <2>7, <2>8, <2>9, <2>10, <2>11 DEF Node
<1>7. ASSUME NEW t \in Threads, Persist(t) PROVE TypeOK'
  <2>0. Doc(t) \in Docs
    <3>1. inv[t].at # "idle"
      BY <1>7 DEF Persist, In, PersistAudit, PersistObject, QueryEmbedding,
                      InsertEmbedding, UpdateEmbedding, PersistStatus, PersistReturn, PersistFailed
    <3>2. QED
      BY <1>0, <3>1
  <2>1. /\ Chan(t).doc_type \in Types
        /\ Chan(t).fields \in Extracted
        /\ Chan(t).universal \in Extracted
    BY <1>1 DEF Channels
  <2>2. TerminalStatus(Chan(t)) \in TerminalStatuses
    BY <1>1, TerminalStatusType
  <2>3. CASE PersistAudit(t)
    <3>1. inv' \in [Threads -> Invocation]
      BY <2>3, MoveType DEF PersistAudit, In, TypeOK, Positions
    <3>2. row' \in [Docs -> Row]
      <4>1. PICK dt \in Types :
              row' = [row EXCEPT ![Doc(t)].doc_type = dt,
                                 ![Doc(t)].fields = Chan(t).fields,
                                 ![Doc(t)].universal = Chan(t).universal]
        <5>1. (IF Chan(t).doc_type # NoType THEN Chan(t).doc_type ELSE row[Doc(t)].doc_type)
                \in Types
          BY <2>0, <2>1 DEF TypeOK, Row
        <5>2. QED
          BY <2>3, <5>1 DEF PersistAudit
      <4>2. QED
        BY <2>1, <4>1, RowColumns DEF TypeOK
    <3>3. AuditOf(Chan(t)) \in AuditRow
      <4>1. Learns(Chan(t)) \in BOOLEAN /\ Proposes(Chan(t)) \in BOOLEAN
        BY DEF Learns, Proposes, HasEvidence, AllowLearning, SchemaCandidate
      <4>2. Chan(t).report \in Report \cup {NoReport} /\ Chan(t).decision \in Decision
        BY <1>1 DEF Channels
      <4>3. Chan(t).decision.strategy \in Strategies \cup {"none"}
        BY <4>2 DEF Decision, NoDecision, Record
      <4>4. QED
        BY <2>2, <4>1, <4>2, <4>3 DEF AuditRow, AuditOf
    <3>4. audit' \in [Docs -> Seq(AuditRow)]
      BY <2>3, <3>3, AuditAppend DEF PersistAudit, Logged, TypeOK
    <3>5. QED
      BY <2>3, <3>1, <3>2, <3>4 DEF PersistAudit, TypeOK
  <2>4. CASE PersistObject(t)
    <3>1. inv' \in [Threads -> Invocation]
      BY <2>4, MoveType DEF PersistObject, TypeOK, Positions
    <3>2. output' \in [Docs -> [written : BOOLEAN, universal : Extracted]]
      BY <2>1, <2>4 DEF PersistObject, TypeOK
    <3>3. QED
      BY <2>4, <3>1, <3>2 DEF PersistObject, TypeOK
  <2>5. CASE QueryEmbedding(t)
    <3>1. inv' \in [Threads -> Invocation]
      BY <2>5, MoveType DEF QueryEmbedding, TypeOK, Positions
    <3>2. QED
      BY <2>5, <3>1 DEF QueryEmbedding, TypeOK, stores
  <2>10. CASE InsertEmbedding(t) \/ UpdateEmbedding(t)
    <3>1. inv' \in [Threads -> Invocation]
      BY <2>10, MoveType DEF InsertEmbedding, UpdateEmbedding, TypeOK, Positions
    <3>2. Embedded(t) \in Embedding
      BY <2>1 DEF Embedded, Embedding
    <3>3. PICK kept \in SUBSET embedding[Doc(t)] :
              embedding' = [embedding EXCEPT ![Doc(t)] = kept \cup {Embedded(t)}]
      <4>1. CASE InsertEmbedding(t)
        BY <4>1 DEF InsertEmbedding
      <4>2. CASE UpdateEmbedding(t)
        <5>1. PICK old \in embedding[Doc(t)] :
                  embedding' = [embedding EXCEPT
                                  ![Doc(t)] = (embedding[Doc(t)] \ {old}) \cup {Embedded(t)}]
          BY <4>2 DEF UpdateEmbedding
        <5>2. QED
          BY <5>1
      <4>3. QED
        BY <2>10, <4>1, <4>2
    <3>4. embedding' \in [Docs -> SUBSET Embedding]
      BY <2>0, <3>2, <3>3 DEF TypeOK
    <3>5. QED
      BY <2>10, <3>1, <3>4 DEF InsertEmbedding, UpdateEmbedding, TypeOK
  <2>6. CASE PersistStatus(t)
    <3>1. inv' \in [Threads -> Invocation]
      BY <2>6, MoveType DEF PersistStatus, TypeOK, Positions
    <3>2. TerminalStatus(Chan(t)) \in Statuses /\ TerminalStatus(Chan(t)) \in Phases
      BY <2>2 DEF Statuses, Phases
    <3>3. row' \in [Docs -> Row]
      BY <2>6, <3>2, RowStatus DEF PersistStatus, TypeOK
    <3>4. QED
      BY <2>6, <3>1, <3>3 DEF PersistStatus, TypeOK, stores
  <2>7. CASE PersistReturn(t)
    <3>1. inv' \in [Threads -> Invocation]
      BY <2>7, StopType DEF PersistReturn, TypeOK
    <3>2. ckpt' \in [Docs -> [next : Nodes \cup {"none", "end"}, chan : Channels]]
      BY <1>1, <2>7 DEF PersistReturn, TypeOK
    <3>3. QED
      BY <2>7, <3>1, <3>2 DEF PersistReturn, TypeOK, stores
  <2>8. CASE PersistFailed(t)
    <3>1. inv' \in [Threads -> Invocation]
      BY <2>8, StopType DEF PersistFailed, TypeOK
    <3>2. "persist_failed" \in Statuses /\ "persist_failed" \in Phases
      BY DEF Statuses, Phases
    <3>3. row' \in [Docs -> Row]
      <4>1. row \in [Docs -> Row]
        BY DEF TypeOK
      <4>2. \/ row' = row
            \/ row' = [row EXCEPT ![Doc(t)].status = "persist_failed",
                                  ![Doc(t)].phase = "persist_failed"]
        BY <2>8 DEF PersistFailed
      <4>3. QED
        BY <3>2, <4>1, <4>2, RowStatus
    <3>4. spent' \in Spent
      BY <2>8, SpentType DEF PersistFailed, Fault, TypeOK
    <3>5. QED
      BY <2>8, <3>1, <3>3, <3>4 DEF PersistFailed, TypeOK, stores
  <2>9. QED
    BY <1>7, <2>3, <2>4, <2>5, <2>6, <2>7, <2>8, <2>10 DEF Persist
<1>8. ASSUME Failure PROVE TypeOK'
  <2>1. CASE CrashAndRecover
    <3>1. inv' \in [Threads -> Invocation]
      BY <2>1, IdleType DEF CrashAndRecover
    <3>2. spent' \in Spent
      <4>1. [[spent EXCEPT !.crashes = @ + 1] EXCEPT !.faults = @ + 1] \in Spent
        BY SpentType DEF TypeOK
      <4>2. QED
        BY <2>1, <4>1, SpentType DEF CrashAndRecover, TypeOK
    <3>3. tasks' \in SUBSET Docs
      BY <2>1 DEF CrashAndRecover, Stranded
    <3>4. QED
      BY <2>1, <3>1, <3>2, <3>3 DEF CrashAndRecover, TypeOK, stores
  <2>2. ASSUME NEW t \in Threads, PersistRaises(t) \/ InvocationRaises(t) PROVE TypeOK'
    <3>1. inv' \in [Threads -> Invocation]
      BY <2>2, StopType, MoveType DEF PersistRaises, InvocationRaises, In, TypeOK, Positions
    <3>2. spent' \in Spent
      BY <2>2, SpentType DEF PersistRaises, InvocationRaises, Fault, TypeOK
    <3>3. QED
      BY <2>2, <3>1, <3>2 DEF PersistRaises, InvocationRaises, TypeOK, stores
  <2>3. QED
    BY <1>8, <2>1, <2>2 DEF Failure
<1>9. CASE UNCHANGED vars
  BY <1>9 DEF vars, TypeOK
<1>10. QED
  BY <1>2, <1>3, <1>4, <1>5, <1>6, <1>7, <1>8, <1>9 DEF Next, Work, Review

(***************************************************************************)
(* Every state of the pipeline is well typed.                              *)
(***************************************************************************)
THEOREM TypeCorrect == Spec => []TypeOK
BY InitType, NextType, PTL DEF Spec

-----------------------------------------------------------------------------
(* The retry loop *)

(***************************************************************************)
(* What the planner's decision says about the evidence and the budget.     *)
(***************************************************************************)
LEMMA AutonomousStrategies ==
    "accept" \notin Autonomous /\ "hitl" \notin Autonomous /\ "retry" \notin Autonomous
    /\ "reject" \notin Autonomous
BY DEF Autonomous, AutonomousOrder

LEMMA PlanCases ==
    ASSUME NEW report, NEW history, NEW budget \in Int
    PROVE  \/ Plan(report, history, budget) = Decide("hitl")
           \/ Plan(report, history, budget) = Decide("accept") /\ Accepts(report)
           \/ /\ budget > 0
              /\ \/ Plan(report, history, budget) = Decide("retry")
                 \/ Plan(report, history, budget).strategy \in Autonomous
<1>1. CASE report = NoReport
  BY <1>1 DEF Plan
<1>2. CASE report # NoReport /\ Accepts(report)
  BY <1>2 DEF Plan
<1>3. CASE report # NoReport /\ ~Accepts(report) /\ budget <= 0
  BY <1>3 DEF Plan
<1>4. CASE report # NoReport /\ ~Accepts(report) /\ budget > 0
  <2> DEFINE u == Untried(FailureVariant(report), history)
  <2>1. Plan(report, history, budget) =
          IF u # {} THEN PlanAutonomous(FailureVariant(report), history) ELSE Decide("retry")
    BY <1>4 DEF Plan
  <2>2. u # {} => PlanAutonomous(FailureVariant(report), history).strategy \in Autonomous
    BY NextIsAutonomous DEF PlanAutonomous
  <2>3. QED
    BY <1>4, <2>1, <2>2
<1>5. QED
  BY <1>1, <1>2, <1>3, <1>4

(***************************************************************************)
(* The evaluation reads neither the report nor the decision it leads to.   *)
(***************************************************************************)
LEMMA EvaluateReads ==
    ASSUME NEW c \in Channels, NEW b \in Channels,
           b.doc_type = c.doc_type, b.classify_confidence = c.classify_confidence,
           b.extract_confidence = c.extract_confidence, b.fields = c.fields
    PROVE  Evaluate(b) = Evaluate(c)
BY DEF Evaluate

LEMMA ExecutedParts ==
    ASSUME NEW c \in Channels, c.decision \in Record, c.decision # NoDecision
    PROVE  /\ Executed(c).retry_count = c.retry_count
           /\ Executed(c).report = c.report
           /\ Executed(c).decision = c.decision
           /\ Executed(c).staged = {c.decision.strategy} \cap Autonomous
           /\ Evaluate(Executed(c)) = Evaluate(c)
<1>1. Executed(c) = [c EXCEPT !.history = c.history \cup {c.decision},
                              !.staged = {c.decision.strategy} \cap Autonomous]
  BY DEF Executed
<1>2. /\ Executed(c).retry_count = c.retry_count
      /\ Executed(c).report = c.report
      /\ Executed(c).decision = c.decision
      /\ Executed(c).staged = {c.decision.strategy} \cap Autonomous
      /\ Executed(c).doc_type = c.doc_type
      /\ Executed(c).classify_confidence = c.classify_confidence
      /\ Executed(c).extract_confidence = c.extract_confidence
      /\ Executed(c).fields = c.fields
  BY <1>1 DEF Channels
<1>3. Evaluate(Executed(c)) = Evaluate(c)
  BY <1>2, EvaluateReads, ExecutedType
<1>4. QED
  BY <1>2, <1>3

LEMMA PureViews ==
    ASSUME TypeOK, GoodViews, NEW t \in Threads, NEW chan, NEW next,
           Pure(t, chan, next), GoodView(next, chan)
    PROVE  GoodViews'
<1>1. inv' = [inv EXCEPT ![t] = [doc |-> Doc(t), at |-> "stamp", node |-> next,
                                 chan |-> chan, resume |-> NoResume]]
  BY DEF Pure, Advance, Start
<1>2. ckpt' = [ckpt EXCEPT ![Doc(t)] = [next |-> next, chan |-> chan]]
  BY DEF Pure, Advance
<1>3. ASSUME NEW u \in Threads PROVE GoodView(inv'[u].node, inv'[u].chan)
  <2>1. CASE u = t
    <3>1. inv'[u].node = next /\ inv'[u].chan = chan
      BY <1>1, <2>1 DEF TypeOK
    <3>2. QED
      BY <3>1
  <2>2. CASE u # t
    <3>1. inv'[u] = inv[u]
      BY <1>1, <2>2 DEF TypeOK
    <3>2. QED
      BY <3>1 DEF GoodViews
  <2>3. QED
    BY <2>1, <2>2
<1>4. ASSUME NEW d \in Docs PROVE GoodView(ckpt'[d].next, ckpt'[d].chan)
  <2>1. CASE d = Doc(t)
    <3>1. ckpt'[d].next = next /\ ckpt'[d].chan = chan
      BY <1>2, <2>1 DEF TypeOK
    <3>2. QED
      BY <3>1
  <2>2. CASE d # Doc(t)
    <3>1. ckpt'[d] = ckpt[d]
      BY <1>2, <2>2 DEF TypeOK
    <3>2. QED
      BY <3>1 DEF GoodViews
  <2>3. QED
    BY <2>1, <2>2
<1>5. QED
  BY <1>3, <1>4 DEF GoodViews, GoodView

(***************************************************************************)
(* One lemma per node that a conjunct of GoodView constrains.              *)
(***************************************************************************)
LEMMA PlannerView ==
    ASSUME NEW c \in Channels, GoodView("resolution_planner", c)
    PROVE  GoodView("strategy_executor", [c EXCEPT !.decision = PlanFor(c)])
<1> DEFINE b == [c EXCEPT !.decision = PlanFor(c)]
<1>1. b \in Channels
  BY PlanForType DEF Channels, Decision
<1>2. /\ b.retry_count = c.retry_count /\ b.report = c.report
      /\ b.history = c.history /\ b.decision = PlanFor(c)
      /\ b.doc_type = c.doc_type /\ b.classify_confidence = c.classify_confidence
      /\ b.extract_confidence = c.extract_confidence /\ b.fields = c.fields
  BY DEF Channels
<1> HIDE DEF b
<1>3. Evaluate(b) = Evaluate(c)
  BY <1>1, <1>2, EvaluateReads
<1>4. PlanFor(b) = PlanFor(c)
  BY <1>2 DEF PlanFor
<1>5. GoodView("strategy_executor", b)
  BY <1>2, <1>3, <1>4 DEF GoodView
<1>6. QED
  BY <1>5 DEF b

LEMMA ExecutorView ==
    ASSUME NEW c \in Channels, GoodView("strategy_executor", c)
    PROVE  GoodView(RouteAfterExecutor(c.decision.strategy), Executed(c))
<1> DEFINE s == c.decision.strategy
           budget == MaxRetries - c.retry_count
<1>1. c.decision = PlanFor(c) /\ c.report = Evaluate(c) /\ c.retry_count <= MaxRetries
  BY DEF GoodView
<1>2. c.decision \in Record /\ c.decision # NoDecision
  <2>1. c.decision \in Record
    BY <1>1, PlanForType
  <2>2. NoDecision \notin Record
    BY DEF NoDecision, Record, Strategies, Autonomous, AutonomousOrder
  <2>3. QED
    BY <2>1, <2>2
<1>3. budget \in Int /\ c.retry_count \in Nat
  BY PipelineAssumption DEF Channels
<1>4. \/ s = "hitl"
      \/ s = "accept" /\ Accepts(c.report)
      \/ budget > 0 /\ (s = "retry" \/ s \in Autonomous)
  <2>1. c.decision = Plan(c.report, c.history, budget)
    BY <1>1 DEF PlanFor
  <2>2. Decide("hitl").strategy = "hitl" /\ Decide("accept").strategy = "accept"
          /\ Decide("retry").strategy = "retry"
    BY DEF Decide
  <2>3. QED
    BY <1>3, <2>1, <2>2, PlanCases
<1>5. CASE s = "hitl"
  <2>1. RouteAfterExecutor(s) = "op_b_hitl"
    BY <1>5, AutonomousStrategies DEF RouteAfterExecutor
  <2>2. QED
    BY <1>1, <1>2, <2>1, ExecutedParts DEF GoodView
<1>6. CASE s = "accept" /\ Accepts(c.report)
  <2>1. RouteAfterExecutor(s) = "normalize"
    BY <1>6, AutonomousStrategies DEF RouteAfterExecutor
  <2>2. QED
    BY <1>1, <1>2, <1>6, <2>1, ExecutedParts DEF GoodView, AcceptsIfSaid
<1>7. CASE budget > 0 /\ (s = "retry" \/ s \in Autonomous)
  <2>1. RouteAfterExecutor(s) = "op_a_retry"
    <3>1. s # "accept" /\ s # "reject" /\ s \in Autonomous \cup {"retry"}
      BY <1>7, AutonomousStrategies
    <3> HIDE DEF s
    <3>2. QED
      BY <3>1, Zenon DEF RouteAfterExecutor
  <2>2. c.retry_count < MaxRetries
    BY <1>3, <1>7, PipelineAssumption
  <2>3. QED
    BY <1>1, <1>2, <2>1, <2>2, ExecutedParts DEF GoodView
<1>8. QED
  BY <1>4, <1>5, <1>6, <1>7

LEMMA RetryView ==
    ASSUME NEW c \in Channels, GoodView("op_a_retry", c), NEW x, NEW discovered
    PROVE  GoodView("truth_engine", Retried(c, x, discovered))
<1>1. c.retry_count < MaxRetries /\ c.retry_count \in Nat /\ MaxRetries \in Nat
  BY PipelineAssumption DEF GoodView, Channels
<1>2. Retried(c, x, discovered).retry_count = c.retry_count + 1
  BY DEF Retried, Channels
<1>3. c.retry_count + 1 <= MaxRetries
  BY <1>1
<1>4. QED
  BY <1>2, <1>3 DEF GoodView

LEMMA ReviewedView ==
    ASSUME NEW c \in Channels, GoodView("op_b_hitl", c), NEW resume \in Resume
    PROVE  GoodView("normalize", Reviewed(c, resume))
<1> DEFINE m == Corrected(c, resume)
           f == Revalidated(m)
           r == Reviewed(c, resume)
<1>1. f \in Channels /\ r \in Channels
  BY CorrectedType, ReviewedType
<1>2. m \in Channels /\ m.retry_count = c.retry_count
  BY MergeExtracted DEF Corrected, Channels, Resume
<1>3. /\ f.report = Evaluate(m) /\ f.retry_count = m.retry_count
      /\ f.doc_type = m.doc_type /\ f.classify_confidence = m.classify_confidence
      /\ f.extract_confidence = m.extract_confidence /\ f.fields = m.fields
  BY <1>2 DEF Revalidated, Channels
<1>4. r = [f EXCEPT !.decision = PlanFor(f),
                    !.hitl = IF resume.approved THEN "approved" ELSE "rejected",
                    !.hitl_correction = DOMAIN resume.corrections # {}]
  BY DEF Reviewed
<1> HIDE DEF m, f, r
<1>5. /\ r.report = f.report /\ r.retry_count = f.retry_count /\ r.hitl # "none"
      /\ r.doc_type = f.doc_type /\ r.classify_confidence = f.classify_confidence
      /\ r.extract_confidence = f.extract_confidence /\ r.fields = f.fields
  BY <1>1, <1>4 DEF Channels
<1>6. Evaluate(r) = Evaluate(f) /\ Evaluate(f) = Evaluate(m)
  BY <1>1, <1>2, <1>3, <1>5, EvaluateReads
<1>9. AcceptsIfSaid(r)
  <2>1. r.decision = Plan(f.report, f.history, MaxRetries - f.retry_count)
    BY <1>1, <1>4 DEF PlanFor, Channels
  <2>2. MaxRetries - f.retry_count \in Int
    BY <1>1, PipelineAssumption DEF Channels
  <2>3. "accept" \notin Autonomous
    BY AutonomousStrategies
  <2>4. Plan(f.report, f.history, MaxRetries - f.retry_count).strategy = "accept"
            => Accepts(f.report)
    BY <2>2, <2>3, PlanCases DEF Decide
  <2>5. QED
    BY <1>5, <2>1, <2>4 DEF AcceptsIfSaid
<1>7. GoodView("normalize", r)
  BY <1>2, <1>3, <1>5, <1>6, <1>9 DEF GoodView
<1>8. QED
  BY <1>7 DEF r

LEMMA InitViews == Init => GoodViews
<1> SUFFICES ASSUME Init PROVE GoodViews
  OBVIOUS
<1>1. 0 <= MaxRetries
  BY PipelineAssumption
<1>2. \A n \in {"master", "none"} : GoodView(n, EmptyChannels)
  BY <1>1 DEF GoodView, EmptyChannels
<1>3. \A t \in Threads : inv[t].node = "master" /\ inv[t].chan = EmptyChannels
  BY DEF Init, Idle
<1>4. \A d \in Docs : ckpt[d].next = "none" /\ ckpt[d].chan = EmptyChannels
  BY DEF Init
<1>5. QED
  BY <1>2, <1>3, <1>4 DEF GoodViews

LEMMA NextViews == TypeOK /\ GoodViews /\ [Next]_vars => GoodViews'
<1> SUFFICES ASSUME TypeOK, GoodViews, [Next]_vars PROVE GoodViews'
  OBVIOUS
<1>1. \A t \in Threads : /\ Chan(t) \in Channels
                        /\ inv[t].resume \in Resume
                        /\ GoodView(inv[t].node, Chan(t))
  <2> TAKE t \in Threads
  <2>1. CASE inv[t] \in Busy
    BY <2>1 DEF GoodViews, Busy, Chan
  <2>2. CASE inv[t] = Idle
    BY <2>2, IdleParts DEF GoodViews, Chan
  <2>3. QED
    BY <2>1, <2>2 DEF TypeOK, Invocation
<1>2. \A d \in Docs : ckpt[d].chan \in Channels /\ GoodView(ckpt[d].next, ckpt[d].chan)
  BY DEF TypeOK, GoodViews
<1>3. ASSUME NEW t \in Threads, NEW d \in Docs, Dispatch(t, d) PROVE GoodViews'
  <2> DEFINE c == Restarted(ckpt[d].chan)
  <2>1. c.retry_count = 0
    BY <1>2 DEF Restarted, Channels
  <2>2. GoodView("master", c)
    BY <2>1, PipelineAssumption DEF GoodView
  <2>3. inv' = [inv EXCEPT ![t] = [doc |-> d, at |-> "stamp", node |-> "master",
                                   chan |-> c, resume |-> NoResume]]
    BY <1>3 DEF Dispatch, Start
  <2>4. ckpt' = [ckpt EXCEPT ![d] = [next |-> "master", chan |-> c]]
    BY <1>3 DEF Dispatch, TypeOK
  <2> HIDE DEF c
  <2>5. \A u \in Threads : GoodView(inv'[u].node, inv'[u].chan)
    BY <2>2, <2>3 DEF TypeOK, GoodViews
  <2>6. \A e \in Docs : GoodView(ckpt'[e].next, ckpt'[e].chan)
    BY <2>2, <2>4 DEF TypeOK, GoodViews
  <2>7. QED
    BY <2>5, <2>6 DEF GoodViews, GoodView
<1>4. ASSUME NEW t \in Threads, NEW d \in Docs, NEW approved \in BOOLEAN,
             NEW x \in Corrections, SubmitDecision(t, d, approved, x)
      PROVE  GoodViews'
  <2>1. PICK r : inv' = [inv EXCEPT ![t] = [doc |-> d, at |-> "stamp",
                            node |-> ckpt[d].next, chan |-> ckpt[d].chan, resume |-> r]]
    BY <1>4 DEF SubmitDecision, Start
  <2>2. \A u \in Threads : GoodView(inv'[u].node, inv'[u].chan)
    BY <1>2, <2>1 DEF TypeOK, GoodViews
  <2>3. ckpt' = ckpt
    BY <1>4 DEF SubmitDecision
  <2>4. QED
    BY <2>2, <2>3 DEF GoodViews, GoodView
<1>5. ASSUME NEW t \in Threads, NEW p,
             inv' = [inv EXCEPT ![t].at = p], UNCHANGED ckpt
      PROVE  GoodViews'
  <2>1. \A u \in Threads : inv'[u].node = inv[u].node /\ inv'[u].chan = inv[u].chan
    <3> TAKE u \in Threads
    <3>1. inv[u] \in Busy \/ inv[u] = Idle
      BY DEF TypeOK, Invocation
    <3>2. inv'[u] = IF u = t THEN [inv[u] EXCEPT !.at = p] ELSE inv[u]
      BY <1>5 DEF TypeOK
    <3>3. QED
      BY <3>1, <3>2 DEF Busy, Idle
  <2>2. QED
    BY <1>5, <2>1 DEF GoodViews, GoodView
<1>6. ASSUME NEW t \in Threads, Stop(t), UNCHANGED ckpt PROVE GoodViews'
  <2>1. GoodView("master", EmptyChannels)
    BY PipelineAssumption DEF GoodView, EmptyChannels
  <2>2. Idle.node = "master" /\ Idle.chan = EmptyChannels
    BY DEF Idle
  <2>3. \A u \in Threads : inv'[u] = inv[u] \/ inv'[u] = Idle
    BY <1>6 DEF Stop, TypeOK
  <2>4. QED
    BY <1>6, <2>1, <2>2, <2>3 DEF GoodViews, GoodView
<1>7. ASSUME NEW t \in Threads, Node(t) PROVE GoodViews'
  <2> DEFINE c == Chan(t)
  <2>1. c \in Channels /\ c.retry_count <= MaxRetries
    BY <1>1 DEF GoodView
  <2>2. CASE Master(t)
    <3> DEFINE dt == IF FileType[Doc(t)] # NoType THEN FileType[Doc(t)] ELSE c.doc_type
               n == IF Doc(t) \in blank THEN "op_b_hitl" ELSE "classify"
    <3>1. Pure(t, [c EXCEPT !.doc_type = dt], n)
      BY <2>2 DEF Master
    <3>2. GoodView(n, [c EXCEPT !.doc_type = dt])
      BY <2>1 DEF GoodView, Channels
    <3>3. QED
      BY <3>1, <3>2, PureViews
  <2>3. CASE Classify(t)
    <3>1. PICK result \in ClassifierResults :
            Pure(t, [c EXCEPT !.doc_type = Route(result).doc_type,
                              !.classify_confidence = Route(result).confidence],
                 IF Route(result).action = "proceed" THEN "extract" ELSE "unknown_handler")
      BY <2>3 DEF Classify
    <3> DEFINE b == [c EXCEPT !.doc_type = Route(result).doc_type,
                              !.classify_confidence = Route(result).confidence]
    <3>2. b.retry_count = c.retry_count /\ b.doc_type = Route(result).doc_type
      BY <2>1 DEF Channels
    <3>3. Route(result).action # "proceed" => Route(result).doc_type = "UNKNOWN"
      BY DEF Route, UnknownPlan
    <3> HIDE DEF b
    <3>4. CASE Route(result).action = "proceed"
      <4>1. GoodView("extract", b)
        BY <2>1, <3>2 DEF GoodView
      <4>2. QED
        BY <3>1, <3>4, <4>1, PureViews DEF b
    <3>5. CASE Route(result).action # "proceed"
      <4>1. GoodView("unknown_handler", b)
        BY <2>1, <3>2, <3>3, <3>5 DEF GoodView
      <4>2. QED
        BY <3>1, <3>5, <4>1, PureViews DEF b
    <3>6. QED
      BY <3>4, <3>5
  <2>4. CASE UnknownHandler(t)
    <3>0. c.doc_type = "UNKNOWN"
      BY <1>1, <2>4 DEF UnknownHandler, In, GoodView
    <3>1. GoodView("persist", [c EXCEPT !.error = TRUE])
      BY <2>1, <3>0, PipelineAssumption DEF GoodView, Channels
    <3>2. QED
      BY <2>4, <3>1, PureViews DEF UnknownHandler
  <2>5. CASE Extract(t)
    <3>1. PICK x \in Extractions :
            Pure(t, [c EXCEPT !.fields = x.fields,
                              !.extract_confidence = x.confidence,
                              !.error = ~x.success], "truth_engine")
      BY <2>5 DEF Extract
    <3>2. GoodView("truth_engine", [c EXCEPT !.fields = x.fields,
                                             !.extract_confidence = x.confidence,
                                             !.error = ~x.success])
      BY <2>1 DEF GoodView, Channels
    <3>3. QED
      BY <3>1, <3>2, PureViews
  <2>6. CASE TruthEngineNode(t)
    <3> DEFINE b == [c EXCEPT !.report = Evaluate(c)]
    <3>1. b \in Channels
      BY <2>1, EvaluateType DEF Channels
    <3>2. /\ b.report = Evaluate(c) /\ b.retry_count = c.retry_count
          /\ b.doc_type = c.doc_type /\ b.classify_confidence = c.classify_confidence
          /\ b.extract_confidence = c.extract_confidence /\ b.fields = c.fields
      BY <2>1 DEF Channels
    <3>3. Pure(t, b, "resolution_planner")
      BY <2>6 DEF TruthEngineNode
    <3> HIDE DEF b
    <3>4. Evaluate(b) = Evaluate(c)
      BY <2>1, <3>1, <3>2, EvaluateReads
    <3>5. GoodView("resolution_planner", b)
      BY <2>1, <3>2, <3>4 DEF GoodView
    <3>6. QED
      BY <3>3, <3>5, PureViews
  <2>7. CASE ResolutionPlanner(t)
    <3>1. GoodView("resolution_planner", c)
      BY <1>1, <2>7 DEF ResolutionPlanner, In
    <3>2. QED
      BY <2>1, <2>7, <3>1, PlannerView, PureViews DEF ResolutionPlanner
  <2>8. CASE StrategyExecutor(t)
    <3>1. GoodView("strategy_executor", c)
      BY <1>1, <2>8 DEF StrategyExecutor, In
    <3>2. QED
      BY <2>1, <2>8, <3>1, ExecutorView, PureViews DEF StrategyExecutor
  <2>9. CASE OpARetry(t)
    <3>1. GoodView("op_a_retry", c)
      BY <1>1, <2>9 DEF OpARetry, In
    <3>2. PICK x \in Extractions, discovered \in Discoveries :
            Pure(t, Retried(c, x, discovered), "truth_engine")
      BY <2>9 DEF OpARetry
    <3>3. QED
      BY <2>1, <3>1, <3>2, RetryView, PureViews
  <2>10. CASE Interrupt(t)
    BY <1>6, <2>10 DEF Interrupt
  <2>11. CASE OpBHitl(t)
    <3>1. GoodView("op_b_hitl", c)
      BY <1>1, <2>11 DEF OpBHitl, In
    <3>2. QED
      BY <1>1, <2>1, <2>11, <3>1, ReviewedView, PureViews DEF OpBHitl
  <2>12. CASE Normalize(t)
    <3>0. GoodView("normalize", c)
      BY <1>1, <2>12 DEF Normalize, In
    <3>1. PICK u : Pure(t, [c EXCEPT !.universal = u], "persist") /\ u \in Extracted
      BY <2>1, <2>12, UniversalExtracted DEF Normalize, Channels
    <3> DEFINE b == [c EXCEPT !.universal = u]
    <3>2. b \in Channels
      BY <2>1, <3>1 DEF Channels
    <3>3. /\ b.report = c.report /\ b.decision = c.decision /\ b.retry_count = c.retry_count
          /\ b.doc_type = c.doc_type /\ b.classify_confidence = c.classify_confidence
          /\ b.extract_confidence = c.extract_confidence /\ b.fields = c.fields
      BY <2>1 DEF Channels
    <3> HIDE DEF b
    <3>4. Evaluate(b) = Evaluate(c)
      BY <2>1, <3>2, <3>3, EvaluateReads
    <3>5. GoodView("persist", b)
      BY <2>1, <3>0, <3>3, <3>4 DEF GoodView, AcceptsIfSaid
    <3>6. QED
      BY <3>1, <3>5, PureViews DEF b
  <2>13. QED
    BY <1>7, <2>2, <2>3, <2>4, <2>5, <2>6, <2>7, <2>8, <2>9, <2>10, <2>11, <2>12 DEF Node
<1>8. ASSUME NEW t \in Threads, PersistReturn(t) PROVE GoodViews'
  <2>1. ckpt' = [ckpt EXCEPT ![Doc(t)] = [next |-> "end", chan |-> Chan(t)]]
    BY <1>8 DEF PersistReturn
  <2>2. GoodView("end", Chan(t))
    BY <1>1 DEF GoodView
  <2>3. \A d \in Docs : GoodView(ckpt'[d].next, ckpt'[d].chan)
    BY <2>1, <2>2 DEF TypeOK, GoodViews
  <2>4. GoodView("master", EmptyChannels)
    BY PipelineAssumption DEF GoodView, EmptyChannels
  <2>5. \A u \in Threads : inv'[u] = inv[u] \/ (inv'[u].node = "master"
                                              /\ inv'[u].chan = EmptyChannels)
    BY <1>8 DEF PersistReturn, Stop, Idle, TypeOK
  <2>6. \A u \in Threads : GoodView(inv'[u].node, inv'[u].chan)
    BY <2>4, <2>5 DEF GoodViews
  <2>7. QED
    BY <2>3, <2>6 DEF GoodViews, GoodView
<1>9. ASSUME NEW t \in Threads, StampPhase(t) PROVE GoodViews'
  BY <1>5, <1>9 DEF StampPhase
<1>10. ASSUME NEW t \in Threads, Persist(t) PROVE GoodViews'
  <2>1. CASE PersistAudit(t)
    BY <1>5, <2>1 DEF PersistAudit
  <2>2. CASE PersistObject(t)
    BY <1>5, <2>2 DEF PersistObject
  <2>3. CASE QueryEmbedding(t) \/ InsertEmbedding(t) \/ UpdateEmbedding(t)
    BY <1>5, <2>3 DEF QueryEmbedding, InsertEmbedding, UpdateEmbedding
  <2>4. CASE PersistStatus(t)
    BY <1>5, <2>4 DEF PersistStatus
  <2>5. CASE PersistFailed(t)
    BY <1>6, <2>5 DEF PersistFailed
  <2>6. QED
    BY <1>8, <1>10, <2>1, <2>2, <2>3, <2>4, <2>5 DEF Persist
<1>11. ASSUME Failure PROVE GoodViews'
  <2>1. CASE CrashAndRecover
    <3>1. \A u \in Threads : inv'[u].node = "master" /\ inv'[u].chan = EmptyChannels
      BY <2>1 DEF CrashAndRecover, Idle
    <3>2. GoodView("master", EmptyChannels)
      BY PipelineAssumption DEF GoodView, EmptyChannels
    <3>3. ckpt' = ckpt
      BY <2>1 DEF CrashAndRecover
    <3>4. QED
      BY <3>1, <3>2, <3>3 DEF GoodViews, GoodView
  <2>2. ASSUME NEW t \in Threads, PersistRaises(t) PROVE GoodViews'
    BY <1>5, <2>2 DEF PersistRaises
  <2>3. ASSUME NEW t \in Threads, InvocationRaises(t) PROVE GoodViews'
    BY <1>6, <2>3 DEF InvocationRaises
  <2>4. QED
    BY <1>11, <2>1, <2>2, <2>3 DEF Failure
<1>12. CASE ListPending
  BY <1>12 DEF ListPending, GoodViews, GoodView
<1>13. CASE UNCHANGED vars
  BY <1>13 DEF vars, GoodViews, GoodView
<1>14. QED
  BY <1>3, <1>4, <1>7, <1>9, <1>10, <1>11, <1>12, <1>13 DEF Next, Work, Review

LEMMA ViewsAreGood == Spec => []GoodViews
BY InitType, NextType, InitViews, NextViews, PTL DEF Spec

LEMMA ViewsCovered ==
    ASSUME GoodViews, NEW v \in Views
    PROVE  GoodView(v.node, v.chan)
<1>1. CASE v \in Held
  <2>1. PICK t \in Threads : v = [node |-> inv[t].node, chan |-> inv[t].chan]
    BY <1>1 DEF Held
  <2>2. QED
    BY <2>1 DEF GoodViews
<1>2. CASE v \in Saved
  <2>1. PICK d \in Docs : v = [node |-> ckpt[d].next, chan |-> ckpt[d].chan]
    BY <1>2 DEF Saved
  <2>2. QED
    BY <2>1 DEF GoodViews
<1>3. QED
  BY <1>1, <1>2 DEF Views

(***************************************************************************)
(* No strategy's inputs leak into the retry of another, however often the  *)
(* pipeline crashes, fails or runs twice.                                  *)
(***************************************************************************)
THEOREM NoLeak == Spec => []NoStrategyLeak
<1>1. GoodViews => NoStrategyLeak
  BY ViewsCovered DEF NoStrategyLeak, GoodView
<1>2. QED
  BY <1>1, ViewsAreGood, PTL

(***************************************************************************)
(* A run re-extracts at most MAX_RETRIES times.                            *)
(***************************************************************************)
THEOREM BudgetKept == Spec => []RetryBudget
<1>1. GoodViews => RetryBudget
  BY ViewsCovered DEF RetryBudget, GoodView
<1>2. QED
  BY <1>1, ViewsAreGood, PTL

(***************************************************************************)
(* Decisions, retries, normalization and, but for UNKNOWN, write_output    *)
(* always see the evaluation of the fields they act on, a reviewer's       *)
(* corrections included.                                                   *)
(***************************************************************************)
THEOREM EvidenceCurrent == Spec => []EvidenceIsCurrent
<1>1. GoodViews => EvidenceIsCurrent
  BY ViewsCovered DEF EvidenceIsCurrent, GoodView
<1>2. QED
  BY <1>1, ViewsAreGood, PTL

(***************************************************************************)
(* What is normalized without a reviewer's answer fails no verifier and    *)
(* reaches both thresholds, for any values of them.                        *)
(***************************************************************************)
THEOREM NormalizedIsAccepted == Spec => []AcceptedOrReviewed
<1>1. ASSUME GoodViews, NEW v \in Views, v.node = "normalize", v.chan.hitl = "none"
      PROVE  /\ Failed(v.chan.doc_type, v.chan.fields) = {}
             /\ Coverage(v.chan.doc_type, v.chan.fields) >= CoverageThreshold
             /\ v.chan.report.confidence >= ConfidenceThreshold
  <2>1. Accepts(v.chan.report) /\ v.chan.report = Evaluate(v.chan)
    BY <1>1, ViewsCovered DEF GoodView
  <2>2. /\ v.chan.report.failed = Failed(v.chan.doc_type, v.chan.fields)
        /\ v.chan.report.coverage = Coverage(v.chan.doc_type, v.chan.fields)
    BY <2>1 DEF Evaluate, BuildReport
  <2>3. QED
    BY <2>1, <2>2 DEF Accepts
<1>2. GoodViews => AcceptedOrReviewed
  BY <1>1 DEF AcceptedOrReviewed
<1>3. QED
  BY <1>2, ViewsAreGood, PTL
=============================================================================
