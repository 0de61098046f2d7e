# A formal model of extract-it

TLA+ modules of the document pipeline, the extraction and its verification, the
ingestion, the schema governance and the page a reader sees of a document in
extract-it, the TLC configurations that check them on small instances, and TLAPS
proofs of every invariant the runs check, for every value of the constants (four of them
under the condition that a document is decided at most once, section 4). Every
definition is a translation of the Python sources; the lines it stands for are in
`PROJECT.json` under `map`.

To check: `tlc -config <run>.cfg <module>.tla` for a row of the table of runs,
`tlapm <module>_proofs.tla` for the proofs.

## 1. The system

One API process (FastAPI) with Postgres, an object store and a Gemini client. A
document is uploaded over HTTP or dropped into a watched folder, gets a row and
a raw object, and is run through a LangGraph state machine by a background
thread. The graph classifies and extracts with a model, evaluates the result
deterministically, retries within a budget, asks a human when it gives up, and
writes the result. LangGraph saves the state after every node; a restart reruns
what it finds unfinished.

| Component | State it keeps | Operations | Hard behaviour | What makes it correct |
|---|---|---|---|---|
| Ingestion (`io_pipeline/orchestrator.py`, `api/routes/ingest.py`, `adapters/trigger/local_watch.py`) | raw objects, `documents` rows, scheduled runs | dedup lookup, put, bootstrap, compensating delete, dispatch | uploads of one content race; a call fails, or takes effect and its answer is lost; a crash before the dispatch | same content gives the same document; a row has its object; orphans are bounded by failures; a registered document is processed, also after a crash in a phase recovery lists |
| Graph (`pipelines/graph.py`, `router.py`, `nodes/*`) | a checkpoint per document: channels and next node; `documents.current_phase` | eleven nodes, each preceded by a phase stamp with a commit of its own | a crash between any two commits; reruns that merge three inputs over old channels; a loop bounded by a counter | decisions are taken on the evaluation of the fields in the same state; no inputs of an earlier strategy leak into a retry; the budget bounds the loop |
| Routing (`pipelines/routing_engine.py`, `registry.py`) | none | classifier answer to plan | threshold boundaries, types outside the registry | UNKNOWN is never extracted |
| Truth engine (`pipelines/truth_engine/*`) | none | coverage, verifiers, confidence fusion, persistence decision | rounding and capping around thresholds | scores stay in 0..1; a failing verifier is never completed |
| Resolution (`pipelines/resolution/*`, `pipelines/learning/policy.py`) | execution history (a channel) | five rules, deduplication by strategy and failure variant | the history grows across reruns, the budget is reset | each strategy once per key; without a human only fields that fail no verifier and reach the thresholds are normalized |
| write_output (`io_pipeline/output_writer.py`, `db/vector_store.py`) | row columns, audit rows, JSON object, embedding, status | phases A, B, C, D and an exception handler | four commits to three stores, repeated on reruns, run by two threads at once | a published status is recorded, its object stored, its embedding that of the row |
| Review (`api/routes/review.py`, the review page) | the page as last loaded | list pending, submit a decision, which runs the graph in the request | two decisions at once; a page that is out of date | a decision is taken by the node that waits for it; corrections are evaluated again |
| Recovery (`api/main.py`) | none | find stranded documents, rerun | misses a phase; its own query fails; inherits channels | what is killed in a phase it lists is rerun (`stranded`) |
| Schema governance (`agents/schema_diff_agent.py`, `api/routes/schema_proposals.py`) | `schema_versions`, `schema_proposal_records` | draft, record, approve (two commits), reject | two approvals read the same base; a status checked at load and written later | one active version, the newest; an approved change is never lost; a schema only loosens |
| Extraction agent (`agents/extract_agent.py`, `self_consistency.py`) | the samples of one extraction | one or three samples, parsing, vote | a failed sample votes; ties; values Python cannot hash; the borders of the band that asks for a vote | two samples that agree win; one failure costs nothing; the rating is that of a sample that succeeded |
| LLM client (`agents/llm_client.py`) | the attempt | call with retry and back-off | retries within samples within an extraction | the number of remote calls is bounded |
| Verifiers (`agents/verifiers.py`, `truth_engine/verifier_registry.py`) | none | ten checks of checksums, formats, dates and sums | aliases chosen with `or`, unreadable values that are skipped, checksums | what a completed document shows is consistent; a misread digit is caught |
| Document explorer (`api/routes/documents.py`) | the page being put together | three queries for a page | runs commit in between, a second decision too | the page does not contradict itself; what it says was recorded |
| Checkpointer and graph singletons (`db/checkpointer.py`, `pipelines/graph.py`) | two module globals | creation on first use | none (section 5) | one saver, set up before it is used |

Ingestion hands a document to the graph through a background task or a thread
of the watcher. The graph calls the agents and the pure engines, and writes the
document row through sessions of its own, one per phase stamp, one per phase of
write_output. Review and recovery start further invocations of the same graph
thread, and nothing serializes invocations of one document. The explorer reads, in
queries of their own, what write_output commits. The graph drafts schema
proposals that write_output records and reviewers of the governance routes
decide; the active schema comes back as the reference of the truth engine.

Every component is listed in `PROJECT.json`, with the ones that are not modelled
and why; `hazards` there lists what is hard to test, at its line.

## 2. The modules

| Module | What it is |
|---|---|
| `TruthEngine` | pure: field validation, verdicts, `Fuse`, `BuildReport`, the persistence decision |
| `Resolution` | pure, extends TruthEngine: failure variants, `Plan`, `RouteAfterExecutor`, the learning policy |
| `Routing` | pure: `Route` |
| `Pipeline` | the state machine: graph, write_output, review, crash and recovery; composes the three above |
| `PipelineClaims` | statements of the repository about the pipeline that its code does not keep |
| `DocumentLifecycle` | abstract: record an outcome, store the result, publish the outcome; what write_output implements |
| `Explorer` | extends Pipeline: a reader puts the page of a document together while the pipeline works on it |
| `SelfConsistency` | pure: `Vote` over the samples of an extraction |
| `ExtractionAgent` | one extraction after another: samples, attempts of a remote call, parsing, the vote |
| `Verifiers` | pure: the verifiers of each document type on values |
| `Evidence` | extends ExtractionAgent: what verifiers and truth engine make of what it returns |
| `Ingestion` | uploads, their races, compensation, dispatch and recovery |
| `SchemaGovernance` | proposals and versions of one document type |
| `Pipeline_proofs` | the lemmas about the pure operators, and the theorems about the channels |
| `Output_proofs` | extends it: what write_output publishes and embeds, however invocations overlap |
| `Serial_proofs` | extends it: what holds besides while invocations of a document do not meet, and when they do not; the refinement |
| `Explorer_proofs` | extends it: the theorems about the page |
| `Evidence_proofs`, `DocumentLifecycle_proofs`, `Ingestion_proofs`, `SchemaGovernance_proofs` | the theorems of the other modules |
| `MCPipeline`, `MCExplorer`, `MCEvidence`, `MCIngestion`, `MCSchema` | constants for TLC |

`Ingestion` takes the pipeline as something that starts and ends; `Pipeline`
starts where Ingestion dispatches (row queued, object stored). Pipeline and
Evidence cut the truth engine differently: Pipeline takes any extraction and knows of a
value only whether it is null, accepted or refused, which is what its control
depends on; Evidence follows one extraction and its values from the model's replies to
the verdicts and uses the operators of TruthEngine that look at neither. Proofs live
beside the module they are about. No module declares a RECURSIVE operator.

### Pipeline: state and actions

| Variable | Code |
|---|---|
| `row` | `documents`: `status`, `current_phase`, `doc_type`, `extracted_fields`, `universal_schema` |
| `ckpt` | the PostgresSaver checkpoint of thread id = document id: next node, `GraphState` |
| `inv` | for every thread of the process, the `graph.invoke` it is in: document, node, position, working channels, resume value |
| `tasks` | background tasks and recovery threads not begun |
| `blank` | the outcome of the image check in `master`, a property of the file |
| `listed` | `GET /review/pending` as a reviewer last saw it |
| `audit`, `output`, `embedding` | `persistence_audit_log`, `output/<id>.json`, `document_embeddings` |
| `spent` | crashes and faults used, and the decisions on each document, for the bounds |

A step of the graph is `StampPhase`, then the action named after the node. The
node's action is atomic: it reads and writes channels only, and its result becomes
visible with the checkpoint. write_output is not: `PersistAudit` (phase A),
`PersistObject` (B), `QueryEmbedding` and then `InsertEmbedding` or `UpdateEmbedding`
(C, the halves of `upsert_embedding`), `PersistStatus` (D),
`PersistReturn` (the checkpoint after it), `PersistRaises` and `PersistFailed` (the
handler). `Interrupt` and `OpBHitl` are the two halves of the HITL node,
`SubmitDecision` is the review route, `Dispatch` the first or a recovery
invocation, `CrashAndRecover` the death of the process and its next start, and
`InvocationRaises` any node or checkpoint write that raises.

What is abstracted:

- A field value is null, accepted or refused by its verifiers; verifiers are sets of
  fields they read. Confidences are percentages, fused scores multiples of
  1/10000, which is what `round(..., 4)` leaves.
- The execution history is a set of (strategy, variant) pairs; it is read only
  with `any`. It is kept across reruns, as the checkpoint keeps it.
- Of the channels, those no later node reads are left out. Logs, prompts, image bytes and
  retrieval queries are left out; what they change in behaviour (the variant, the
  staged inputs) is kept.
- LangGraph is external and modelled as it is used: `invoke(inputs)` merges the
  inputs over the saved channels and begins at the entry point,
  `invoke(Command(resume))` begins at the saved next node, the resume value is
  there for the first step only, a node that raises leaves the last checkpoint
  in place, and a checkpoint is durable when the next node begins.
- The embedding rows of a document are a set of their contents, so that two equal rows
  are one element; `similarity_search` returns documents, not rows. A row does not hold
  its document type: `type` is a history variable, the type its fields
  were verified for. The vector itself is a function of the fields.
- An audit row stands for the truth row and the persistence row that Phase A
  commits together; a row without evidence has no report.
- `UNKNOWN` is not a type with a schema: the file `unknown.yaml` is in lower case, is
  not found under the registry's name, and requires nothing.
- The schema of a type is a constant of Pipeline; SchemaGovernance changes it in
  a model of its own.
- Documents share nothing but threads, so runs use one document; the proofs hold
  for any set.
- Classifier, extractor, discovery and reviewer answer arbitrarily within the
  constants `ClassifierResults`, `Extractions`, `Discoveries`, `Corrections`.

### Explorer: state and actions

`page` is what the reader has read: status and type of the row, the report, the audit row. `OpenPage`, `ReadTruth` and `ReadPersistence` are the
three queries of `get_document` and `explain_document`: the row, the latest truth audit,
the latest persistence audit. Under READ COMMITTED every one sees a snapshot
of its own, and any step of Pipeline may come between two.

### ExtractionAgent and Evidence: state and actions

`samples` are the results of `_extract_once`, `attempt` and `calls` the position in
and the cost of the retry loop of `generate`, `result` what `extract` returned.
`ModelReplies` is an answer and its parsing, `CallRaises` every way a sample fails (an
unparsable answer, an empty one, an error that is not retried, a transient one
at the last attempt), `Retry` a transient error before that. A reply is an envelope
with a confidence or a flat dictionary; an absent confidence is 0.9, and
in a flat reply one of 0 is too, since the code uses `or`. `Verdicts` and
`TruthReport` in Evidence are functions of the result.

Values are what the parsers of the verifiers return: amounts are integers, so the
tolerance of 0.01 is equality; dates are days; a text no parser accepts is
`Garbled`; a JSON number where a text is expected is `Number`, on which a verifier that
calls `strip()` raises, which counts as not attempted. A checksummed code is its character
values, and `MrzDigit` and `GstinCheck` are the real sums. `ClosingBy` keeps the
code's choice between running balances and signed amounts.

### Ingestion: state and actions

`step[u]` is the place of each call of `ingest`, `answer[u]` what it returns,
`objects` and `rows` the stores, `phase` the `current_phase` of each row, `tasks` and
`running` the pipeline as seen from here: `Start`, `Stamp` and `Finish` are what a run does
to its document. Of the phases it keeps what recovery tells apart: `ingested` for every
phase before the last one that `_IN_PROGRESS_PHASES` lists, `routing_failed`, which it does
not list, `finalizing`, and `settled` for `awaiting_review` and all phases that come with a
status other than queued. `Stranded` is recovery's query: the rows in a listed phase. `FindByHash`, `Put`, `Bootstrap`, `SafeDelete` and `Dispatch` are
the statements of `ingest` between which another thread may run. The upload route
is a coroutine that does not await inside `ingest`, so the event loop runs
one HTTP upload at a time (`EventLoopFree`); watched files have threads of their own
and race freely. A call may raise without effect (`Fault`) or raise after it took
effect (`LostAnswer`).

### SchemaGovernance: state and actions

`versions` numbers the versions of one type by their minor number, `proposals` are the
rows and the drafts still in graph states, `requests` the threads serving reviewers.
The routes are plain functions, so FastAPI runs them in a thread pool, each with a
session at READ COMMITTED. `LoadProposal`, `LoadActive`, `Flush`, `ApplyDiff`
(first commit), `Approve` (second commit) and `Reject` are the statements between
which another session may commit. `Flush` holds the row lock of the base until the
commit. `Insertable` is the two unique indexes. The similarity match of labels
is equality of names after `normalize_key`.

## 3. What is checked

Passing runs:

| Run | Checks | Instance |
|---|---|---|
| `crash` | `TypeOK`, `DurableResult`, `EvidenceIsCurrent`, `AcceptedOrReviewed`, `EmbeddingVerified`, `Serialized`, `ImplementsLifecycle` | two threads, up to symmetry, every classifier answer, extraction class and discovery, budget 1, one crash, one fault, one decision |
| `overlap` | `PublishedWasRecorded`, `EmbeddingVerified` | two threads, a certain classifier, two extractions, budget 1, two decisions, one crash |
| `live` | `ExplorerType`, `NoStrategyLeak`, `RetryBudget`, `VerdictIsExplained`, `LearnedIsSearchable`, `ShownWasRecorded`, `EventuallySettled`, `InvocationsEnd` | a reader of the page; fair, one thread, budget 5, one crash, one decision |
| `evidence` | `TypeOK`, `CallBudget`, `RatedByASample`, `AgreementStands`, `OneFailureCostsNothing`, `CompletedIsConsistent`, `MisreadIsCaught` | seven document types, for each the sure replies of the grids below and seven unsure ones, one retry |
| `ingest` | `TypeOK`, `AnswersAgree`, `RowHasObject`, `OrphansAreAccountedFor`, `LosersAreAnswered`, `EventuallySettled` | four uploads (two HTTP, two watched) of two contents, fair, one fault, one lost answer, one crash |
| `approvals` | `TypeOK`, `NewestIsActive`, `ApprovedIsInForce`, `SchemaOnlyLoosens` | two proposals, two threads, three requests, one fault, one crash |

The bounds, and why they are enough:

- `MaxRetries`: `settings.MAX_RETRIES` is 2 (`config/settings.py`). `live` uses 5
  so that all four strategies and then the plain retry are used, and so that the third
  retry of one run, the first to stage an input of another kind, is there for
  `NoStrategyLeak`. `crash` uses 1: one retry reaches every node, and what it checks
  does not depend on which strategy a retry uses. `MaxRetries` is 0 or 1 where a run is
  about review, which is only entered when the budget is spent.
- One crash: a crash forgets threads and tasks; the state it leaves is a state from
  which recovery reruns, so a second crash adds a longer history and no new kind of
  state. One fault: the failures of a step, of the handler and of a stamp are each
  reached by one; a failing handler after a failing phase takes two and ends where
  a crash ends. Recovery's own failure takes the fault.
- Decisions are bounded for each document, crashes and faults for all together. Two
  decisions and two threads are the least that overlap; three and more repeat
  the same interleavings. They are enough for two embedding rows of one document.
- Three uploads race for one content, so a winner, a loser and an upload
  that comes later are together in one behaviour.
- Two proposals and three requests let an approval overlap an approval, follow a
  failed one, and repeat one whose second commit never came.
- The passport of `MCPipeline` has two required fields, one optional and one
  verifier; the six extractions are one for each outcome of the planner's rules:
  accepted, refused by a verifier, incomplete, unsure, with an unknown field, failed.
  `crash` uses all of them, the other runs the first two.
- A reader has one page: pages do not interact, and after it is complete the
  reader opens it again, so a page is read at every place of every behaviour.
- `MCEvidence`: a sure reply is not voted on, so there may be many: every
  single-digit misreading of a line; every combination of present, absent, zero and
  garbled amounts and aliases of an invoice; every kind of row list of a
  statement; and so on. An unsure reply meets any two others or failures in a vote:
  the seven are on both borders of the band, inside it, without and with a
  confidence of 0, equal in all fields, different, and without a field. `_MAX_RETRIES`
  is 3; with 1 an attempt can be the last one and not the last one, which is all the
  loop tells apart, and the bound of `CallBudget` is in terms of it.
- Deadlock is not checked where the system stops by itself: a document that is
  decided has nothing left to do.

Fairness (`FairSpec`): a thread that is in an invocation goes on (`WF` of `Work(t)`),
and a scheduled task is taken by an idle thread (`WF` of `Dispatch`). Both are what
the interpreter's scheduling of running threads and FastAPI's background tasks give.
The
reader of Explorer is under no fairness. In Ingestion a call of `ingest` that has begun goes on, and a scheduled or
running pipeline is started, goes on with its stamps and ends. Nothing obliges a reviewer to decide, a file
to be uploaded, a call to fail or the process to die. With faults a document may
stay queued until the next restart, so `live` has none and Ingestion's
`EventuallySettled` is stated while no call failed; crashes both have. Ingestion's also
excepts a document whose run was killed in `routing_failed`, which its `Stamp` reaches and no
later restart looks for (`Forgotten`; run `stranded` shows it with the whole graph): a
crash between the commit and the dispatch, or in any listed phase, is recovered from.

Runs that TLC refutes, each a statement of the repository and what the code
does instead (`findings` in `PROJECT.json`):

| Run | Statement | What happens |
|---|---|---|
| `unknown` | a document routed as UNKNOWN ends as failed | a rerun after a crash inherits the truth report of the first run, and the report decides before the error flag |
| `stranded` | a document killed mid-flight is rerun | `routing_failed` is stamped but is not a phase recovery looks for |
| `rejection` | human rejection is final | two overlapping decisions: the approval overwrites the published rejection |
| `correction` | the correction flag means a human corrected the fields | the flag survives into a rerun and labels its embedding |
| `unverified` | the verifiers registered for a type check its documents | `invoice_total_consistency` reads `tax_amount` or `total_tax`, and the schema has `cgst`, `sgst` and `igst`: an invoice extracted as its schema says is never summed up and completes |
| `decided` | an approved or rejected proposal is not decided again | approve and reject both loaded it as pending |

The other runs are arranged so that these do not hide what holds. `live` lets
the classifier be certain, so no document takes the phase recovery does not list.
So does `overlap`, whose question is two decisions. `crash` lets it be uncertain.
All runs have one type with a schema; a rerun classified as another type with a schema
is covered by the proof of `EmbeddedIsVerified` only. `VerdictIsExplained` asks
for a report without failed verifiers except on a page of a document of type UNKNOWN:
the audit row of such a document may carry the decision of an earlier run, the cause of
the `unknown` finding.

Four more of the kind show in the models and have no run of their own, to keep
the runs few. The audit row of phase A is visible, and after a crash stays, without the status
of phase D (`db/models.py:192` says "Written atomically with the final status
update"). A decision from a page that is out of date resumes whatever node the
checkpoint has next, and is dropped (`api/routes/review.py:127`). A commit of
`_bootstrap` that took effect although its answer was lost is followed by the compensating
delete, so the row stays without its object (`io_pipeline/orchestrator.py:139`);
`RowHasObject` is therefore stated while no answer was lost. The new schema
version is committed before its proposal is marked approved
(`api/routes/schema_proposals.py:95`), so a crash in between leaves a pending
proposal whose version is active, and which can be approved again;
`ApprovedIsInForce` holds nevertheless.

`EvidenceIsCurrent` covers write_output for every type but UNKNOWN, which is persisted
without an evaluation, after a crash beside the report of an earlier run (`unknown`).
`EmbeddingVerified` is about documents of types with a schema: fields of a type outside
the registry have no verifiers. It says what the code enforces: no verifier that could read
its fields fails, one that is skipped does not count, and the coverage reaches the
threshold of 0.80, so that a required field may be missing. It is about the fields that
were embedded then; nothing removes the row when a later run of the document is not learned from. `ImplementsLifecycle` and `DurableResult` are checked for
one decision; already a second one, taken from a stale page when the first is
published, restarts write_output and replaces the outcome, the cause of `rejection`.
`Serialized` names what the second decision breaks, and section 4 proves that nothing
else in the model breaks it, where a reviewer decides from the list of pending documents.

Details of the code that the models keep and that a reader of it may not expect:

- A total of 0 counts as absent when its alias is chosen, and so does a tax or a
  subtotal (`verifier_registry.py:155-157`); `InvoiceAddsUp` and `SlipAddsUp` except 0 for it.
- A PAN or GSTIN that the model returns as a JSON number is not attempted, hence does
  not fail (`verifier_registry.py`), unlike a malformed text.
- Two failed samples outvote the one that succeeded: every field becomes null and
  the extraction is still a success (`self_consistency.py:21`). `OneFailureCostsNothing`
  says that one failure cannot do this.
- An empty response is raised outside the retry loop and is not retried
  (`llm_client.py`).
- A document a reviewer corrects and rejects is embedded as a correction: the learning
  decision does not look at `hitl_approved` (`output_writer.py:44`), whereas
  `architecture/phase-p7-query.md:153` says that the knowledge base grows only from
  documents the pipeline has fully validated. Its fields do pass the verifiers.
- The page's timeline shows a review only if `resolution_requires_human` is still
  set, which planning after the review resets (`documents.py`).
- `architecture/phase-p4-truth-engine.md:46` lets completion depend on the coverage; the code
  compares the fused confidence (`truth_engine/models.py:98-131`).

## 4. What is proved

`tlapm` checks these for every value of the constants that satisfies the
assumptions: any documents and threads, any schemas and verifiers, any answers of
the model, any budget, any number of crashes, faults and decisions.

| Theorem | States |
|---|---|
| `Pipeline_proofs!TypeCorrect` | `Spec => []TypeOK`; with the range of fused scores |
| `Pipeline_proofs!NoLeak` | `Spec => []NoStrategyLeak` |
| `Pipeline_proofs!BudgetKept` | `Spec => []RetryBudget` |
| `Pipeline_proofs!EvidenceCurrent` | `Spec => []EvidenceIsCurrent` |
| `Pipeline_proofs!NormalizedIsAccepted` | `Spec => []AcceptedOrReviewed` |
| `Output_proofs!PublishedIsRecorded` | `Spec => []PublishedWasRecorded` |
| `Output_proofs!EmbeddedIsVerified` | `Spec => []EmbeddingVerified` |
| `Serial_proofs!SerializedIsDurable` | `Spec /\ []Serialized => []DurableResult` |
| `Serial_proofs!SerializedImplements` | `Spec /\ []Serialized => ImplementsLifecycle`, the refinement |
| `Serial_proofs!SerializedRejectionIsFinal` | `Spec /\ []Serialized => RejectionIsFinal` |
| `Serial_proofs!OneDecisionSerializes` | `Spec => []Serialized`, if `MaxDecisions` is 0 or 1 |
| `Serial_proofs!OneDecisionIsEnough` | `Spec => []DurableResult /\ ImplementsLifecycle /\ RejectionIsFinal`, if `MaxDecisions` is 0 or 1 |
| `Explorer_proofs!SerializedIsExplained` | `ExplorerSpec /\ []Serialized => []VerdictIsExplained` |
| `Explorer_proofs!SerializedIsSearchable` | `ExplorerSpec /\ []Serialized => []LearnedIsSearchable` |
| `Explorer_proofs!OneDecisionIsExplained` | `ExplorerSpec => [](VerdictIsExplained /\ LearnedIsSearchable)`, if `MaxDecisions` is 0 or 1 |
| `Explorer_proofs!ShownIsRecorded` | `ExplorerSpec => []ShownWasRecorded` |
| `Explorer_proofs!PageTyped` | `ExplorerSpec => []ExplorerType` |
| `Evidence_proofs!TypeCorrect` | `Spec => []TypeOK` |
| `Evidence_proofs!BudgetKept` | `Spec => []CallBudget` |
| `Evidence_proofs!RatedByOne` | `Spec => []RatedByASample` |
| `Evidence_proofs!AgreementKept` | `Spec => []AgreementStands` |
| `Evidence_proofs!OneFailureCheap` | `Spec => []OneFailureCostsNothing` |
| `Evidence_proofs!MisreadCaught` | `Spec => []MisreadIsCaught` |
| `Evidence_proofs!CompletedConsistent` | `Spec => []CompletedIsConsistent` |
| `Ingestion_proofs!TypeCorrect` | `Spec => []TypeOK` |
| `Ingestion_proofs!SameContentSameDocument` | `Spec => []AnswersAgree` |
| `Ingestion_proofs!ObjectsKept` | `Spec => []RowHasObject` |
| `Ingestion_proofs!OrphansCounted` | `Spec => []OrphansAreAccountedFor` |
| `Ingestion_proofs!RacesAreNoErrors` | `Spec => []LosersAreAnswered` |
| `SchemaGovernance_proofs!TypeCorrect` | `Spec => []TypeOK` |
| `SchemaGovernance_proofs!NewestActive` | `Spec => []NewestIsActive` |
| `SchemaGovernance_proofs!ApprovedInForce` | `Spec => []ApprovedIsInForce` |
| `SchemaGovernance_proofs!OnlyLoosens` | `Spec => SchemaOnlyLoosens` |
| `DocumentLifecycle_proofs!PublishedIsBacked` | the abstract document: a published outcome is the last recorded one and its object is stored |
| `DocumentLifecycle_proofs!OutcomesAreFinal` | the abstract document: an outcome is not replaced by another |

The argument for the pipeline. The four properties of the channels speak of some
nodes only and are not inductive: that a retry has budget depends on which decision
the executor executed, which depends on the report the planner read. `GoodView`
adds what holds at each node on the way: after the truth engine the report
is the evaluation of the fields in the same channels, after the planner the
decision is `PlanFor` these channels, after the executor the staged inputs are
those of the decision and a retry has budget left, before normalization a human
answered or the evidence is accepted, which together with its being current gives
`AcceptedOrReviewed` for the fields themselves. `GoodViews` says so of what every thread holds
and of every checkpoint, at every position of a thread. Steps move a view from a
thread to a checkpoint, from a checkpoint to a thread, or along one edge of the
graph; `PlannerView`, `ExecutorView`, `RetryView` and `ReviewedView` are the edges that
compute something, and `PureViews` is the rest. `NextViews` goes through the
actions. Since a resumed thread starts with the checkpoint's view and a recovery
starts at `master`, where `GoodView` asks for the budget only, crashes and overlapping
invocations need no case of their own. The module begins
with the lemmas about the pure operators: types, the range of `Fuse`, that the planner's
choice exists.

The argument for write_output. `PublishedWasRecorded` is not inductive, since
`PersistStatus` publishes what an earlier step of its thread recorded. `OutputInv` adds
`Backed`: a thread past Phase A has its status in the trail, one past Phase B its object.
Both survive whatever other threads do, because no step deletes an audit row or
an object (`KeepsRecords`); a crash only empties threads. All steps but the three of
write_output are `Calm` and `Silent`: they bring no thread further into write_output
and publish nothing.

The argument for embeddings. `EmbedInv` adds `Prepared`: a thread inside write_output holds
what the node before gave it, and one in phase C holds channels the learning policy
allowed. That alone says nothing of the fields: `GoodView` at `persist` says that the
report is their evaluation and that only accepted evidence carries the decision to accept
it, also when a reviewer answered in between, since a correction is planned again. So
`EmbeddedVerified` combines the two, and whichever row an upsert replaces
or adds, only such contents enter the set.

The argument for invocations that do not meet. No lock keeps two invocations of a document
apart, and when they meet `DurableResult` and the refinement are false: the second decision
of run `rejection`. `Serialized` says that they do not: while a thread is at work on a
document no other is, and no task is scheduled for it. A thread about to stop at
`interrupt()` is not at work: it changes nothing but itself, and a decision may already be
under way. Two questions are then separate. What does serialization give? And what gives
serialization?

- Under `[]Serialized`, which is an assumption on the behaviour and none on the
  constants, `SerialInv` is inductive: a thread at work holds what the checkpoint
  of its document holds, each phase of write_output it has passed is still true (`InStep`), and a
  decided document is only persisted again, from the channels its result was made of
  (`DecidedInv`). A crash loses the thread, but the checkpoint gives the same
  channels to the rerun; hence a repeated write_output writes what is there.
  `DurableResult` is a part of it. For the refinement `StepKeepsOutcome` and the lemmas before
  `SerializedImplements` take each step of write_output to a step of `DocumentLifecycle` and
  every other step to a stutter. The number of threads, documents, decisions, crashes and
  faults does not matter.
- `[]Serialized` is an invariant while a document is decided at most once, by a reviewer
  who decides what the list of pending documents shows. The clients in the repository offer
  nothing else; the route does not check it (`api/routes/review.py:102-127`), and a decision
  posted for a document that is at work would overlap its run.
  `OneInv` adds that a document without a decision that is offered for review waits for one,
  with nothing at work on it nor scheduled: the phase becomes `awaiting_review` only
  when its thread is about to stop, and recovery does not schedule that phase. So
  the first decision finds the document alone, and a second one is excluded. TLC checks the
  instance in `crash`, so the hypothesis of the theorems above is one that behaviours
  with crashes, faults, reruns and reviews satisfy.

The argument for the page. What is read first must still be true when the rest is read:
`KeepsRecords` says that no step takes an audit row back, so a verdict read
with the row was recorded by then (`PublishedWasRecorded`) and stays recorded, and
the audit trail is not empty when its last row is read. For `VerdictIsExplained` more is
needed, namely that the last rows are those of the verdict. `RestInv` says so under
`[]Serialized`: from the moment a page has read a verdict, some channels `c` account for the
document, its row, audit row, object and embeddings are what `c` gives (`Rests`), and no
step changes that, since all a decided document can meet is another write_output of `c`
(`NextRests`). What the two later queries read is then of the same `c`. The channels of a type other than
UNKNOWN were evaluated (`GoodView`), so they have a report, and it is the one without
failed verifiers that let the planner accept.

The argument for extractions. A vote is over exactly three samples, the first of which
succeeded within the band, so `IInv` only has to say how many samples there are, which of
them succeeded with what confidence, and that the result is the vote over them.
`TwoOfThree` counts a majority of three, and `BestOfThree` finds the best sample, which is
one that succeeded because a failed sample is rated below the band's lower bound.
`MisreadDigit` is arithmetic: the weights 7, 3 and 1 have inverses modulo 10,
so changing one digit changes the sum; a failing verifier keeps the document from being
completed. `CompletedIsConsistent` has the same end: a completed document has no verdict
"failed", so it suffices that the verifier of its type was attempted and compared
the values that are shown. The first alias decides if it has a value (`FirstText`,
`FirstAmount`, the latter not for 0), the last row with a running balance gives the closing one
(`LastRowCloses`), and what the vote returns for a field is null or what some sample answered
(`VotedByASample`), hence still a list of rows or an amount.

The argument for ingestion. `AnswersAgree` needs that a content has at most one row
(the unique index, read at the commit and not at the lookup) and that what a call has
looked up or answered is such a row. `RowHasObject` needs that the object a call may
delete is still its own: until the commit nobody else knows its id, and a call that
reached the delete has no row, as long as no answer was lost.
`OrphansAreAccountedFor` and `LosersAreAnswered` count: `PaidFor` says that a set stays no larger than a
counter when a step adds at most one element and only while it counts one up, and
`PaidStep` applies it to the orphans and to the failed uploads, so each step
needs only to show which of the two cases it is.

The argument for governance. `LastIsActive` says that versions are appended, each one
deactivating its base, which is what the two unique indexes leave an insert to do: a
request whose base is no longer the last fails there. `RequestsInv` says what a
request holds between its statements, and `ForceInv` that an approved change, or one a
request is between the two commits with, is in the last version; `Apply` keeps what is there because it
only adds fields and relaxes them.

Assumptions: `GovernanceAssumption`, `SchemaAssumption`, `ReportAssumption`, `RegistryAssumption`,
`PipelineAssumption`, `ExplorerAssumption`, `AgentAssumption`, `PrintedAssumption`,
`ValuesAssumption`, `IngestionAssumption`, all checked by TLC in the runs. They give the
constants their types, and say that the values that stand for None are none of the others, that
`UNKNOWN` has no schema, that the uploads are finitely many, that a printed passport line
carries the check digit of its own characters, and that in a reply readable transactions
are a list of rows and a readable basic salary is an amount.

Model-checked only: liveness, `EventuallySettled` of both modules and `InvocationsEnd`.
Liveness under fairness and ENABLED are beyond the prover. So are induction over data,
which is why `CompletedIsConsistent` speaks of statements whose last row has a balance and of
slips without allowances and not of sums of any length (`Total` is recursive), and RECURSIVE
operators; the project has none of the latter. With a second decision on one document
`DurableResult`, the refinement, `VerdictIsExplained` and `LearnedIsSearchable` are not
theorems: the run `rejection` is a counterexample to the second of them.

## 5. What is not modelled

- The creation of the checkpointer and of the graph. `get_checkpointer` publishes the
  saver only after its setup and under a lock, and the lifespan calls it before any
  thread starts; the graph object holds no state.
- LangGraph's recursion limit, which would end an invocation of too many steps with an error.
  With the setting of 2 retries an invocation has at most 16 steps; the budget of 5 in `live`
  stands for a deployment that raises the limit too. `InvocationsEnd` holds by the budget.
- The change of a schema between extraction and evaluation of one document. A change
  only loosens (`SchemaOnlyLoosens`), so the older evidence is the stricter one.
- The text of prompts, of directives and of retrieval queries, the image operations, and the
  regular expressions of PAN and GSTIN: data that no property tells apart.
- `generate_with_tools` of the LLM client, which has no caller, and the length of its
  back-off.
- `retrieval_logs` and the knowledge graph, the confidence log of Phase A, the read routes
  other than the explorer's page, the frontend besides the review page, the query
  assistant, observability, migrations and scripts: they change no state of what is modelled.
- The GCP adapters, which raise `NotImplementedError`; the legacy validation node,
  which the graph does not use.

## 6. Plan

Done, in this order: the pure engines; `Pipeline` with write_output, review and
recovery; `DocumentLifecycle` and the refinement; proofs of the type invariant, of
the channel properties and of what write_output publishes; `Ingestion` and
`SchemaGovernance` with their proofs; the vote, the extraction agent, the verifiers and
`Evidence` with its proofs; the two halves of the embedding upsert and the
proof of `EmbeddingVerified`; `Explorer` with its proofs; the counting proofs of Ingestion;
serialized invocations, with the proofs of `DurableResult`, of the refinement and of the
page, and of `CompletedIsConsistent`.

Left:

1. Without `Serialized`: the strongest statement about `DurableResult` that two
   overlapping decisions leave true, beyond `PublishedWasRecorded`.
2. Pipeline taking its extractions from Evidence instead of arbitrary ones, and
   the reference schema from SchemaGovernance, if the state space allows it.
3. The knowledge graph's aggregation over `retrieval_logs`, written by reruns too.
