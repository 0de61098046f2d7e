------------------------------- MODULE Pipeline -------------------------------
(***************************************************************************)
(* The document pipeline: the LangGraph state machine of                   *)
(* pipelines/graph.py with every node, run by threads of one API process   *)
(* over a Postgres checkpoint per document; the document row, audit rows,  *)
(* embeddings and output objects it writes (io_pipeline/output_writer.py); *)
(* reviewer decisions (api/routes/review.py); exceptions, process crashes  *)
(* and the startup recovery (api/main.py).                                 *)
(*                                                                         *)
(* A step of the graph is two steps here, as in the code: the phase stamp, *)
(* committed by a session of its own, then the node, whose result LangGraph*)
(* checkpoints.  write_output is four more, one per commit or store write. *)
(* LangGraph itself is external: after each node it saves the channels and *)
(* the next node; invoke(inputs) merges inputs over the saved channels and *)
(* starts at the entry point; invoke(Command(resume)) starts at the saved  *)
(* next node; a node that raises leaves the last checkpoint in place.      *)
(***************************************************************************)
EXTENDS Resolution, Routing

CONSTANTS
    Docs,               \* documents already bootstrapped: row queued, object stored
    Threads,            \* background, recovery and request threads of the process
    NoDoc,              \* an idle thread's document
    NoType,             \* doc_type is None
    FileType,           \* [Docs -> DocTypes \cup {NoType}], parsed from the filename
    MappedOf,           \* [DocTypes -> SUBSET Fields], fields of the universal mapping
    ClassifierResults,  \* what the classifier may answer
    Extractions,        \* what one extraction may return
    Discoveries,        \* whether discovery may find a schema diff
    Corrections,        \* what a reviewer may correct
    MaxRetries,         \* settings.MAX_RETRIES
    MaxCrashes,         \* bound: crashes of the process
    MaxFaults,          \* bound: calls that raise or are lost
    MaxDecisions        \* bound: decisions submitted on one document

\* No schema is kept for UNKNOWN: schemas/unknown.yaml is in lower case, and it
\* requires no field.
ASSUME PipelineAssumption ==
    /\ NoDoc \notin Docs
    /\ NoType \notin DocTypes \cup Registered
    /\ "UNKNOWN" \notin DocTypes
    /\ FileType \in [Docs -> DocTypes \cup {NoType}]
    /\ MappedOf \in [DocTypes -> SUBSET Fields]
    /\ \A r \in ClassifierResults : r.success \in BOOLEAN /\ r.confidence \in Int
    /\ \A x \in Extractions : /\ x.success \in BOOLEAN
                             /\ x.fields \in Extracted
                             /\ x.confidence \in Int
    /\ Discoveries \subseteq BOOLEAN
    /\ Corrections \subseteq Extracted
    /\ MaxRetries \in Nat

VARIABLES
    row,        \* documents table: status, current_phase and the extracted columns
    ckpt,       \* LangGraph checkpoint per document: next node and channels
    inv,        \* what each thread is invoking
    tasks,      \* documents whose first or recovery invocation is scheduled
    blank,      \* documents whose file is a blank or solid-colour image
    listed,     \* documents on the review page as last loaded
    audit,      \* per document, the rows Phase A committed, oldest first
    output,     \* per document, the JSON in the object store
    embedding,  \* per document, the contents of its DocumentEmbedding rows
    spent       \* how much of each bound is used

vars == <<row, ckpt, inv, tasks, blank, listed, audit, output, embedding, spent>>
stores == <<audit, output, embedding>>

-----------------------------------------------------------------------------
(* Types *)

Types == DocTypes \cup Registered \cup {NoType}

Nodes == {"master", "classify", "unknown_handler", "extract", "truth_engine",
          "resolution_planner", "strategy_executor", "op_a_retry", "op_b_hitl",
          "normalize", "persist"}

PhaseOf == [master             |-> "ingested",
            classify           |-> "classifying",
            unknown_handler    |-> "routing_failed",
            extract            |-> "extracting",
            truth_engine       |-> "evaluating",
            resolution_planner |-> "planning",
            strategy_executor  |-> "executing",
            op_a_retry         |-> "retrying",
            op_b_hitl          |-> "awaiting_review",
            normalize          |-> "normalizing",
            persist            |-> "finalizing"]

\* Mutant: only the phases DOCUMENT_PHASES of db/models.py lists.
ListedPhases == {"ingested", "classifying", "extracting", "evaluating", "retrying",
                 "normalizing", "finalizing"}

InProgressPhases == {"ingested", "classifying", "extracting", "evaluating",
                     "planning", "executing", "retrying", "normalizing",
                     "finalizing"}

TerminalStatuses == {"completed", "failed", "verification_failed", "rejected"}
Statuses == TerminalStatuses \cup {"queued", "persist_failed"}
Phases == {PhaseOf[n] : n \in Nodes} \cup TerminalStatuses \cup {"persist_failed"}

NoDecision == [strategy |-> "none", variant |-> NoVariant]
Decision == Record \cup {NoDecision}

\* GraphState, without the file bytes and the channels nothing reads back.
\* hitl_required and hitl_approved are always written together: one channel.
Channels == [doc_type            : Types,
             classify_confidence : Int,
             fields              : Extracted,
             extract_confidence  : Int,
             report              : Report \cup {NoReport},
             decision            : Decision,
             history             : SUBSET Record,
             staged              : SUBSET Autonomous,
             universal           : Extracted,
             retry_count         : Nat,
             hitl                : {"none", "approved", "rejected"},
             hitl_correction     : BOOLEAN,
             proposal            : BOOLEAN,
             error               : BOOLEAN]

EmptyChannels == [doc_type            |-> NoType,
                  classify_confidence |-> 0,
                  fields              |-> NoFields,
                  extract_confidence  |-> 0,
                  report              |-> NoReport,
                  decision            |-> NoDecision,
                  history             |-> {},
                  staged              |-> {},
                  universal           |-> NoFields,
                  retry_count         |-> 0,
                  hitl                |-> "none",
                  hitl_correction     |-> FALSE,
                  proposal            |-> FALSE,
                  error               |-> FALSE]

\* The value an invocation was resumed with; consumed by its first step only.
Resume == [given : BOOLEAN, approved : BOOLEAN, corrections : Extracted]
NoResume == [given |-> FALSE, approved |-> FALSE, corrections |-> NoFields]

\* Where a thread is: before the phase stamp of a node, in the node, or in
\* write_output after Phase A (B), after the object (C), after the query for an
\* embedding (it inserts or updates), after the embedding (D), in its exception
\* handler, or returned from it.
Positions == {"stamp", "run", "object", "embed", "insert", "update", "finish",
              "handler", "saved"}

Busy == [doc : Docs, at : Positions, node : Nodes, chan : Channels, resume : Resume]

Idle == [doc |-> NoDoc, at |-> "idle", node |-> "master",
         chan |-> EmptyChannels, resume |-> NoResume]

Invocation == Busy \cup {Idle}

\* The PersistenceAuditLog row of one Phase A, and the TruthAuditLog row it writes
\* beside it when there is a report.
AuditRow == [status   : TerminalStatuses,
             strategy : Strategies \cup {"none"},
             learned  : BOOLEAN,
             proposed : BOOLEAN,
             report   : Report \cup {NoReport}]

NoObject == [written |-> FALSE, universal |-> NoFields]

\* type is not a column: it keeps what the fields were evaluated as.
Embedding == [source : {"document", "hitl_correction"},
              type   : Types,
              fields : Extracted]

Row == [status : Statuses, phase : Phases, doc_type : Types,
        fields : Extracted, universal : Extracted]

Spent == [crashes : Nat, faults : Nat, decisions : [Docs -> Nat]]

TypeOK ==
    /\ row \in [Docs -> Row]
    /\ ckpt \in [Docs -> [next : Nodes \cup {"none", "end"}, chan : Channels]]
    /\ inv \in [Threads -> Invocation]
    /\ tasks \in SUBSET Docs
    /\ blank \in SUBSET Docs
    /\ listed \in SUBSET Docs
    /\ audit \in [Docs -> Seq(AuditRow)]
    /\ output \in [Docs -> [written : BOOLEAN, universal : Extracted]]
    /\ embedding \in [Docs -> SUBSET Embedding]
    /\ spent \in Spent

\* IngestionOrchestrator has committed the row and scheduled the pipeline.
Init ==
    /\ row = [d \in Docs |-> [status |-> "queued", phase |-> "ingested",
                              doc_type |-> NoType, fields |-> NoFields,
                              universal |-> NoFields]]
    /\ ckpt = [d \in Docs |-> [next |-> "none", chan |-> EmptyChannels]]
    /\ inv = [t \in Threads |-> Idle]
    /\ tasks = Docs
    /\ blank \in SUBSET Docs
    /\ listed = {}
    /\ audit = [d \in Docs |-> <<>>]
    /\ output = [d \in Docs |-> NoObject]
    /\ embedding = [d \in Docs |-> {}]
    /\ spent = [crashes |-> 0, faults |-> 0, decisions |-> [d \in Docs |-> 0]]

-----------------------------------------------------------------------------
(* Helpers *)

In(t, node) == inv[t].at = "run" /\ inv[t].node = node
Doc(t) == inv[t].doc
Chan(t) == inv[t].chan
Free(t) == inv[t].at = "idle"

Fault == /\ spent.faults < MaxFaults
         /\ spent' = [spent EXCEPT !.faults = @ + 1]

Start(t, d, node, chan, resume) ==
    inv' = [inv EXCEPT ![t] = [doc |-> d, at |-> "stamp", node |-> node,
                               chan |-> chan, resume |-> resume]]

Stop(t) == inv' = [inv EXCEPT ![t] = Idle]

\* LangGraph commits a node's update and goes on to the next one.
Advance(t, chan, next) ==
    /\ ckpt' = [ckpt EXCEPT ![Doc(t)] = [next |-> next, chan |-> chan]]
    /\ Start(t, Doc(t), next, chan, NoResume)

\* A node that touches nothing but its channels.
Pure(t, chan, next) ==
    /\ Advance(t, chan, next)
    /\ UNCHANGED <<row, tasks, blank, listed, stores, spent>>

-----------------------------------------------------------------------------
(* Invocations *)

\* _run_pipeline, _folder_dispatch or _rerun: invoke(initial_state).  On a thread
\* that has a checkpoint only the inputs are reset, all other channels are kept.
Restarted(chan) == [chan EXCEPT !.retry_count = 0, !.fields = NoFields]

Dispatch(t, d) ==
    /\ Free(t)
    /\ d \in tasks
    /\ tasks' = tasks \ {d}
    /\ ckpt' = [ckpt EXCEPT ![d] = [next |-> "master", chan |-> Restarted(@.chan)]]
    /\ Start(t, d, "master", Restarted(ckpt[d].chan), NoResume)
    /\ UNCHANGED <<row, blank, listed, stores, spent>>

\* GET /review/pending.
ListPending ==
    /\ listed' = {d \in Docs : row[d].phase = "awaiting_review"}
    /\ listed' # listed
    /\ UNCHANGED <<row, ckpt, inv, tasks, blank, stores, spent>>

\* Corrections are refused (422) when they name a field the schema lacks.
Correctable(d, corrections) ==
    LET dt == ckpt[d].chan.doc_type
    IN  dt \in DocTypes => DOMAIN corrections \subseteq Known(dt)

\* POST /review/{id}/decision, sent from the page last loaded: whatever the document
\* is doing now, the graph is resumed from its checkpoint.  A finished thread has no
\* next node to resume.
SubmitDecision(t, d, approved, corrections) ==
    /\ Free(t)
    /\ d \in listed
    /\ spent.decisions[d] < MaxDecisions
    /\ ckpt[d].next \in Nodes
    /\ Correctable(d, corrections)
    /\ Start(t, d, ckpt[d].next, ckpt[d].chan,
             [given |-> TRUE, approved |-> approved, corrections |-> corrections])
    /\ spent' = [spent EXCEPT !.decisions[d] = @ + 1]
    /\ UNCHANGED <<row, ckpt, tasks, blank, listed, stores>>

\* _stamp_phase: a commit of its own before the node; a failure is swallowed.
StampPhase(t) ==
    /\ inv[t].at = "stamp"
    /\ inv' = [inv EXCEPT ![t].at = "run"]
    /\ \/ /\ row' = [row EXCEPT ![Doc(t)].phase = PhaseOf[inv[t].node]]
          /\ UNCHANGED spent
       \/ Fault /\ UNCHANGED row
    /\ UNCHANGED <<ckpt, tasks, blank, listed, stores>>

-----------------------------------------------------------------------------
(* Nodes *)

Master(t) ==
    LET d == Doc(t)
        dt == IF FileType[d] # NoType THEN FileType[d] ELSE Chan(t).doc_type
    IN  /\ In(t, "master")
        /\ Pure(t, [Chan(t) EXCEPT !.doc_type = dt],
                IF d \in blank THEN "op_b_hitl" ELSE "classify")

Classify(t) ==
    /\ In(t, "classify")
    /\ \E result \in ClassifierResults :
         LET plan == Route(result)
         IN  Pure(t, [Chan(t) EXCEPT !.doc_type = plan.doc_type,
                                     !.classify_confidence = plan.confidence],
                  IF plan.action = "proceed" THEN "extract" ELSE "unknown_handler")

UnknownHandler(t) ==
    /\ In(t, "unknown_handler")
    /\ Pure(t, [Chan(t) EXCEPT !.error = TRUE], "persist")

Extract(t) ==
    /\ In(t, "extract")
    /\ \E x \in Extractions :
         Pure(t, [Chan(t) EXCEPT !.fields = x.fields,
                                 !.extract_confidence = x.confidence,
                                 !.error = ~x.success],
              "truth_engine")

Evaluate(chan) ==
    BuildReport(chan.doc_type, chan.classify_confidence, chan.extract_confidence,
                chan.fields)

TruthEngineNode(t) ==
    /\ In(t, "truth_engine")
    /\ Pure(t, [Chan(t) EXCEPT !.report = Evaluate(Chan(t))], "resolution_planner")

PlanFor(chan) == Plan(chan.report, chan.history, MaxRetries - chan.retry_count)

ResolutionPlanner(t) ==
    /\ In(t, "resolution_planner")
    /\ Pure(t, [Chan(t) EXCEPT !.decision = PlanFor(Chan(t))], "strategy_executor")

\* Mutant: what an earlier pass staged stays staged.
ExecutedKeeping(chan) ==
    IF chan.decision = NoDecision
    THEN chan
    ELSE [chan EXCEPT !.history = @ \cup {chan.decision},
                      !.staged = @ \cup ({chan.decision.strategy} \cap Autonomous)]

\* Records the decision and prepares the inputs of the strategy it selects; the
\* state fields of the other strategies are set to None.
Executed(chan) ==
    IF chan.decision = NoDecision
    THEN chan
    ELSE [chan EXCEPT !.history = @ \cup {chan.decision},
                      !.staged = {chan.decision.strategy} \cap Autonomous]

StrategyExecutor(t) ==
    /\ In(t, "strategy_executor")
    /\ Pure(t, Executed(Chan(t)), RouteAfterExecutor(Chan(t).decision.strategy))

\* Mutant: the retry is not counted.
RetriedUncounted(chan, x, discovered) ==
    [chan EXCEPT !.fields = x.fields, !.extract_confidence = x.confidence,
                 !.proposal = discovered, !.staged = {}]

\* Consumes the staged inputs.  A failed extraction yields {} and 0.0.
Retried(chan, x, discovered) ==
    [chan EXCEPT !.fields = x.fields,
                 !.extract_confidence = x.confidence,
                 !.retry_count = @ + 1,
                 !.proposal = discovered,
                 !.staged = {}]

OpARetry(t) ==
    /\ In(t, "op_a_retry")
    /\ \E x \in Extractions, discovered \in Discoveries :
         Pure(t, Retried(Chan(t), x, discovered), "truth_engine")

\* Without a resume value interrupt() ends the invocation; next stays op_b_hitl.
Interrupt(t) ==
    /\ In(t, "op_b_hitl")
    /\ ~inv[t].resume.given
    /\ Stop(t)
    /\ UNCHANGED <<row, ckpt, tasks, blank, listed, stores, spent>>

\* With one, corrections are merged, re-evaluated and re-planned.
Corrected(chan, resume) == [chan EXCEPT !.fields = Merge(resume.corrections, @)]
\* Mutant: corrections are persisted on the report they were made for.
RevalidatedNever(chan) == chan

Revalidated(chan) == [chan EXCEPT !.report = Evaluate(chan)]

Reviewed(chan, resume) ==
    LET fresh == Revalidated(Corrected(chan, resume))
    IN  [fresh EXCEPT !.decision = PlanFor(fresh),
                      !.hitl = IF resume.approved THEN "approved" ELSE "rejected",
                      !.hitl_correction = DOMAIN resume.corrections # {}]

OpBHitl(t) ==
    /\ In(t, "op_b_hitl")
    /\ inv[t].resume.given
    /\ Pure(t, Reviewed(Chan(t), inv[t].resume), "normalize")

Universal(dt, fields) ==
    [f \in IF dt \in DocTypes THEN MappedOf[dt] ELSE {} |->
        IF f \in DOMAIN fields THEN fields[f] ELSE "null"]

Normalize(t) ==
    /\ In(t, "normalize")
    /\ Pure(t, [Chan(t) EXCEPT !.universal = Universal(Chan(t).doc_type, Chan(t).fields)],
            "persist")

-----------------------------------------------------------------------------
(* write_output *)

TerminalStatus(chan) ==
    CASE chan.hitl = "rejected" -> "rejected"
      [] chan.hitl = "approved" -> "completed"
      [] chan.hitl = "none" ->
            IF chan.report # NoReport /\ Allows(chan.report)
            THEN DocumentStatus(chan.report)
            ELSE IF chan.error \/ chan.report = NoReport
            THEN "failed"
            ELSE DocumentStatus(chan.report)

HasEvidence(chan) == chan.report # NoReport /\ chan.decision # NoDecision
Learns(chan) == HasEvidence(chan) /\ AllowLearning(chan.decision.strategy, chan.report)
Proposes(chan) ==
    HasEvidence(chan) /\ chan.proposal /\ SchemaCandidate(chan.decision.strategy, chan.report)

AuditOf(chan) == [status   |-> TerminalStatus(chan),
                  strategy |-> chan.decision.strategy,
                  learned  |-> Learns(chan),
                  proposed |-> Proposes(chan),
                  report   |-> chan.report]

\* Mutant: a rejected document needs no audit.
LoggedUnlessRejected(trail, chan) ==
    IF TerminalStatus(chan) = "rejected" THEN trail ELSE Append(trail, AuditOf(chan))

Logged(trail, chan) == Append(trail, AuditOf(chan))

\* Phase A: document columns, audit rows and the schema proposal, one commit.
PersistAudit(t) ==
    LET d == Doc(t)  chan == Chan(t)
    IN  /\ In(t, "persist")
        /\ row' = [row EXCEPT
                     ![d].doc_type = IF chan.doc_type # NoType THEN chan.doc_type ELSE @,
                     ![d].fields = chan.fields,
                     ![d].universal = chan.universal]
        /\ audit' = [audit EXCEPT ![d] = Logged(@, chan)]
        /\ inv' = [inv EXCEPT ![t].at = "object"]
        /\ UNCHANGED <<ckpt, tasks, blank, listed, output, embedding, spent>>

\* Mutant: a reviewer's correction is recorded as learned, not embedded.
PersistObjectUncorrected(t) ==
    /\ inv[t].at = "object"
    /\ output' = [output EXCEPT ![Doc(t)] = [written   |-> TRUE,
                                             universal |-> Chan(t).universal]]
    /\ inv' = [inv EXCEPT ![t].at = IF Learns(Chan(t)) /\ ~Chan(t).hitl_correction
                                    THEN "embed" ELSE "finish"]
    /\ UNCHANGED <<row, ckpt, tasks, blank, listed, audit, embedding, spent>>

\* Phase B: output/<id>.json.
PersistObject(t) ==
    /\ inv[t].at = "object"
    /\ output' = [output EXCEPT ![Doc(t)] = [written   |-> TRUE,
                                             universal |-> Chan(t).universal]]
    /\ inv' = [inv EXCEPT ![t].at = IF Learns(Chan(t)) THEN "embed" ELSE "finish"]
    /\ UNCHANGED <<row, ckpt, tasks, blank, listed, audit, embedding, spent>>

\* Phase C, upsert_embedding: the query for a row of the document, then its
\* insertion or update, committed by itself.  No key makes the row unique: a
\* thread that queries while another inserts, inserts a second row.  Equal rows
\* are one element of the set.
QueryEmbedding(t) ==
    /\ inv[t].at = "embed"
    /\ inv' = [inv EXCEPT ![t].at = IF embedding[Doc(t)] = {} THEN "insert" ELSE "update"]
    /\ UNCHANGED <<row, ckpt, tasks, blank, listed, stores, spent>>

\* Mutant: what is embedded is read back from the checkpoint.
EmbeddedFromCheckpoint(t) ==
    [source |-> "document", type |-> Chan(t).doc_type, fields |-> ckpt[Doc(t)].chan.fields]

Embedded(t) ==
    [source |-> IF Chan(t).hitl_correction THEN "hitl_correction" ELSE "document",
     type   |-> Chan(t).doc_type,
     fields |-> Chan(t).fields]

InsertEmbedding(t) ==
    /\ inv[t].at = "insert"
    /\ embedding' = [embedding EXCEPT ![Doc(t)] = @ \cup {Embedded(t)}]
    /\ inv' = [inv EXCEPT ![t].at = "finish"]
    /\ UNCHANGED <<row, ckpt, tasks, blank, listed, audit, output, spent>>

\* Mutant: an upsert that only ever inserts.
UpdateInserts(t) ==
    /\ inv[t].at = "update"
    /\ embedding' = [embedding EXCEPT ![Doc(t)] = @ \cup {Embedded(t)}]
    /\ inv' = [inv EXCEPT ![t].at = "finish"]
    /\ UNCHANGED <<row, ckpt, tasks, blank, listed, audit, output, spent>>

\* Any row of the document: the query has no order.
UpdateEmbedding(t) ==
    /\ inv[t].at = "update"
    /\ \E old \in embedding[Doc(t)] :
          embedding' = [embedding EXCEPT ![Doc(t)] = (@ \ {old}) \cup {Embedded(t)}]
    /\ inv' = [inv EXCEPT ![t].at = "finish"]
    /\ UNCHANGED <<row, ckpt, tasks, blank, listed, audit, output, spent>>

\* Mutant: the status is computed from the checkpoint.
PersistStatusFromCheckpoint(t) ==
    LET status == TerminalStatus(ckpt[Doc(t)].chan)
    IN  /\ inv[t].at = "finish"
        /\ row' = [row EXCEPT ![Doc(t)].status = status, ![Doc(t)].phase = status]
        /\ inv' = [inv EXCEPT ![t].at = "saved"]
        /\ UNCHANGED <<ckpt, tasks, blank, listed, stores, spent>>

\* Phase D: the terminal status, also the last phase.
PersistStatus(t) ==
    /\ inv[t].at = "finish"
    /\ row' = [row EXCEPT ![Doc(t)].status = TerminalStatus(Chan(t)),
                          ![Doc(t)].phase = TerminalStatus(Chan(t))]
    /\ inv' = [inv EXCEPT ![t].at = "saved"]
    /\ UNCHANGED <<ckpt, tasks, blank, listed, stores, spent>>

\* write_output returned: LangGraph checkpoints the end of the graph.
PersistReturn(t) ==
    /\ inv[t].at = "saved"
    /\ ckpt' = [ckpt EXCEPT ![Doc(t)] = [next |-> "end", chan |-> Chan(t)]]
    /\ Stop(t)
    /\ UNCHANGED <<row, tasks, blank, listed, stores, spent>>

\* A call of phases A to D raises: what is not committed is rolled back.
PersistRaises(t) ==
    /\ \/ In(t, "persist")
       \/ inv[t].at \in {"object", "embed", "insert", "update", "finish"}
    /\ Fault
    /\ inv' = [inv EXCEPT ![t].at = "handler"]
    /\ UNCHANGED <<row, ckpt, tasks, blank, listed, stores>>

\* Mutant: the handler calls a failed write a failed document.
PersistMarkedFailed(t) ==
    /\ inv[t].at = "handler"
    /\ row' = [row EXCEPT ![Doc(t)].status = "failed", ![Doc(t)].phase = "failed"]
    /\ Stop(t)
    /\ UNCHANGED <<ckpt, tasks, blank, listed, stores, spent>>

\* The handler marks the row, unless that fails too, and re-raises.
PersistFailed(t) ==
    /\ inv[t].at = "handler"
    /\ \/ /\ row' = [row EXCEPT ![Doc(t)].status = "persist_failed",
                                ![Doc(t)].phase = "persist_failed"]
          /\ UNCHANGED spent
       \/ Fault /\ UNCHANGED row
    /\ Stop(t)
    /\ UNCHANGED <<ckpt, tasks, blank, listed, stores>>

-----------------------------------------------------------------------------
(* Failures *)

\* A node, or saving its checkpoint, raises: the invocation ends, the exception is
\* logged (background, recovery) or answered as an error (review).
InvocationRaises(t) ==
    /\ inv[t].at = "saved" \/ (inv[t].at = "run" /\ inv[t].node # "persist")
    /\ Fault
    /\ Stop(t)
    /\ UNCHANGED <<row, ckpt, tasks, blank, listed, stores>>

\* Mutant: every queued document is run again.
StrandedQueued == {d \in Docs : row[d].status = "queued"}

\* _recover_stranded_documents.
Stranded == {d \in Docs : row[d].status = "queued" /\ row[d].phase \in InProgressPhases}

\* The process dies and comes back: threads and scheduled tasks are gone, what
\* recovery finds stranded is scheduled again, unless its query fails.
CrashAndRecover ==
    /\ spent.crashes < MaxCrashes
    /\ inv' = [t \in Threads |-> Idle]
    /\ \/ /\ tasks' = Stranded
          /\ spent' = [spent EXCEPT !.crashes = @ + 1]
       \/ /\ spent.faults < MaxFaults
          /\ tasks' = {}
          /\ spent' = [spent EXCEPT !.crashes = @ + 1, !.faults = @ + 1]
    /\ UNCHANGED <<row, ckpt, blank, listed, stores>>

-----------------------------------------------------------------------------
Persist(t) == \/ PersistAudit(t) \/ PersistObject(t)
              \/ QueryEmbedding(t) \/ InsertEmbedding(t) \/ UpdateEmbedding(t)
              \/ PersistStatus(t) \/ PersistReturn(t) \/ PersistFailed(t)

Node(t) == \/ Master(t) \/ Classify(t) \/ UnknownHandler(t) \/ Extract(t)
           \/ TruthEngineNode(t) \/ ResolutionPlanner(t) \/ StrategyExecutor(t)
           \/ OpARetry(t) \/ Interrupt(t) \/ OpBHitl(t) \/ Normalize(t)

Work(t) == StampPhase(t) \/ Node(t) \/ Persist(t)

Review == \/ ListPending
          \/ \E t \in Threads, d \in Docs, approved \in BOOLEAN, c \in Corrections :
               SubmitDecision(t, d, approved, c)

Failure == \/ CrashAndRecover
           \/ \E t \in Threads : PersistRaises(t) \/ InvocationRaises(t)

Next == \/ \E t \in Threads, d \in Docs : Dispatch(t, d)
        \/ \E t \in Threads : Work(t)
        \/ Review
        \/ Failure

Spec == Init /\ [][Next]_vars

\* Threads keep running what they were given and an idle thread takes a scheduled
\* task; nothing obliges a reviewer to answer, a call to fail or a process to die.
Fairness == /\ \A t \in Threads : WF_vars(Work(t))
            /\ \A d \in Docs : WF_vars(\E t \in Threads : Dispatch(t, d))

FairSpec == Spec /\ Fairness

-----------------------------------------------------------------------------
(* Properties of the channels *)

\* Where a run of the graph may be: what a thread holds, what a checkpoint holds.
Held == {[node |-> inv[t].node, chan |-> inv[t].chan] :
            t \in {u \in Threads : inv[u].at \in {"stamp", "run"}}}
Saved == {[node |-> ckpt[d].next, chan |-> ckpt[d].chan] : d \in Docs}
Views == Held \cup Saved

(***************************************************************************)
(* A retry uses the inputs of the strategy just decided and of no other:   *)
(* nothing staged by an earlier pass leaks into it, not even when a crash  *)
(* came between staging and consuming (strategy_executor.py:52-53).        *)
(***************************************************************************)
NoStrategyLeak ==
    \A v \in Views : v.node = "op_a_retry" =>
        v.chan.staged = {v.chan.decision.strategy} \cap Autonomous

(***************************************************************************)
(* The retry node is entered only with budget left, so a run re-extracts   *)
(* at most MAX_RETRIES times (planner.py, rule 3 before rules 4 and 5).    *)
(***************************************************************************)
RetryBudget ==
    \A v \in Views :
        /\ v.chan.retry_count <= MaxRetries
        /\ v.node = "op_a_retry" => v.chan.retry_count < MaxRetries

(***************************************************************************)
(* What the planner, the executor, normalization and, of a type other than *)
(* UNKNOWN, write_output read as evidence is the evaluation of the fields  *)
(* in the same channels: retries and human corrections are always          *)
(* evaluated again (op_b_hitl.py: "No correction may bypass evidence       *)
(* evaluation").  A document of type UNKNOWN is persisted unevaluated, in  *)
(* a rerun with the report of an earlier run: PipelineClaims!UnknownFails. *)
(***************************************************************************)
EvidenceIsCurrent ==
    \A v \in Views :
        \/ v.node \in {"resolution_planner", "strategy_executor", "op_a_retry", "normalize"}
        \/ v.node = "persist" /\ v.chan.doc_type # "UNKNOWN"
        => v.chan.report = Evaluate(v.chan)

(***************************************************************************)
(* Without a reviewer's answer in the channels, the fields that are        *)
(* normalized fail none of the verifiers that could read them and reach    *)
(* the coverage threshold, and their confidence reaches its own, whatever  *)
(* retries, crashes and reruns the channels went through (planner.py,      *)
(* rule 2).                                                                *)
(***************************************************************************)
AcceptedOrReviewed ==
    \A v \in Views : v.node = "normalize" /\ v.chan.hitl = "none" =>
        /\ Failed(v.chan.doc_type, v.chan.fields) = {}
        /\ Coverage(v.chan.doc_type, v.chan.fields) >= CoverageThreshold
        /\ v.chan.report.confidence >= ConfidenceThreshold

\* Only evidence that is accepted carries the decision to accept it.
AcceptsIfSaid(chan) == chan.decision.strategy = "accept" => Accepts(chan.report)

\* The four above follow from this inductive invariant: it also says where the
\* executed decision comes from and what write_output is given, and it holds in
\* every position of a run.
GoodView(node, chan) ==
    /\ chan.retry_count <= MaxRetries
    /\ node = "strategy_executor" => chan.decision = PlanFor(chan)
    /\ node \in {"resolution_planner", "strategy_executor", "op_a_retry", "normalize"} =>
          chan.report = Evaluate(chan)
    /\ node = "op_a_retry" =>
          /\ chan.retry_count < MaxRetries
          /\ chan.staged = {chan.decision.strategy} \cap Autonomous
    /\ node = "normalize" => /\ chan.hitl # "none" \/ Accepts(chan.report)
                             /\ AcceptsIfSaid(chan)
    /\ node = "unknown_handler" => chan.doc_type = "UNKNOWN"
    /\ node = "persist" => \/ chan.doc_type = "UNKNOWN"
                           \/ chan.report = Evaluate(chan) /\ AcceptsIfSaid(chan)

GoodViews == /\ \A t \in Threads : GoodView(inv[t].node, inv[t].chan)
             /\ \A d \in Docs : GoodView(ckpt[d].next, ckpt[d].chan)

-----------------------------------------------------------------------------
(* Invocations of one document *)

\* At work: not idle, and not merely about to end at interrupt().
Active(t) == ~Free(t) /\ ~(In(t, "op_b_hitl") /\ ~inv[t].resume.given)

(***************************************************************************)
(* Invocations of a document do not meet: while one is at work no other is *)
(* and none is scheduled.  No lock in the code says so.  It holds while no *)
(* document is decided twice: recovery never schedules a document that is  *)
(* offered for review (main.py:62-72, without awaiting_review), and a      *)
(* reviewer decides only what the page of pending documents lists.  The    *)
(* repository's review page does so; the route (review.py:102-127) takes   *)
(* a decision on any document.                                             *)
(***************************************************************************)
Serialized ==
    \A t \in Threads : Active(t) =>
        /\ Doc(t) \notin tasks
        /\ \A u \in Threads : Active(u) /\ Doc(u) = Doc(t) => u = t

-----------------------------------------------------------------------------
(* Properties of what is stored *)

(***************************************************************************)
(* A document with a terminal status has its result where a reader looks:  *)
(* the object store holds the universal schema of the row, and when the    *)
(* last audit row says the document was learned from, its embedding holds  *)
(* the extracted fields of the row and nothing older is left.  Crashes     *)
(* between the commits of write_output and repeated calls of it included.  *)
(***************************************************************************)
DurableResult ==
    \A d \in Docs : row[d].status \in TerminalStatuses =>
        /\ output[d].universal = row[d].universal
        /\ audit[d][Len(audit[d])].learned =>
              /\ embedding[d] # {}
              /\ \A e \in embedding[d] : e.fields = row[d].fields

(***************************************************************************)
(* Few-shot examples are evaluated: whatever was embedded as a document of *)
(* a type with a schema has fields that no verifier of the type fails on   *)
(* and that cover at least the threshold of its required ones, which is    *)
(* 0.80 (output_writer.py:233, "LearningPolicy is sole authority").  A     *)
(* verifier that is skipped for want of a value does not fail.             *)
(***************************************************************************)
EmbeddingVerified ==
    \A d \in Docs : \A e \in embedding[d] :
        e.type \in DocTypes => /\ Failed(e.type, e.fields) = {}
                               /\ Coverage(e.type, e.fields) >= CoverageThreshold

(***************************************************************************)
(* However the invocations of one document overlap, its published status   *)
(* is one that the audit trail records and its result object exists.       *)
(***************************************************************************)
PublishedWasRecorded ==
    \A d \in Docs : row[d].status \in TerminalStatuses =>
        /\ \E i \in 1..Len(audit[d]) : audit[d][i].status = row[d].status
        /\ output[d].written

(***************************************************************************)
(* write_output implements the abstract life of a document.                *)
(***************************************************************************)
Lifecycle == INSTANCE DocumentLifecycle WITH
    status   <- [d \in Docs |-> row[d].status],
    recorded <- [d \in Docs |-> [i \in 1..Len(audit[d]) |-> audit[d][i].status]],
    stored   <- [d \in Docs |-> output[d].written]

ImplementsLifecycle == Lifecycle!Spec

(***************************************************************************)
(* Every queued document is eventually decided or offered to a reviewer.   *)
(***************************************************************************)
Settled(d) == row[d].status # "queued" \/ row[d].phase = "awaiting_review"

EventuallySettled == \A d \in Docs : []<>Settled(d)

(***************************************************************************)
(* Every invocation ends: a background run, and the request that carries a *)
(* review decision, which runs the graph before it is answered.  The retry *)
(* budget bounds the loop; LangGraph's own recursion limit, not modelled,  *)
(* would end a run that is too long with an error.                         *)
(***************************************************************************)
InvocationsEnd == \A t \in Threads : []<>Free(t)
=============================================================================
