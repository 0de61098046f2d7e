------------------------------- MODULE Ingestion -------------------------------
(***************************************************************************)
(* How a file becomes a document: IngestionOrchestrator.ingest called by   *)
(* the upload route and by the folder watcher's threads (io_pipeline/      *)
(* orchestrator.py, api/routes/ingest.py, api/main.py), the object it      *)
(* stores, the documents row it commits under the unique index on hash,    *)
(* the compensating delete, the dispatch, and what a restart recovers.     *)
(*                                                                         *)
(* A document is named by the upload that minted its uuid.  The pipeline   *)
(* is external here: it is started, stamps its phases, and ends with its   *)
(* document settled (decided, or waiting for a reviewer) or, when it       *)
(* raises, not.  Of a run   *)
(* only the phases are kept that the recovery tells apart.  In its turn    *)
(* this module justifies the Init of module Pipeline.                      *)
(***************************************************************************)
EXTENDS Integers, FiniteSets

CONSTANTS
    Uploads,         \* calls of ingest, one per request or watched file
    Contents,        \* file contents, which their hash stands for
    ContentOf,       \* [Uploads -> Contents]
    SourceOf,        \* [Uploads -> {"http", "folder_watch"}]
    NoDoc,           \* no document id returned
    MaxFaults,       \* bound: calls that raise without effect
    MaxLostAnswers,  \* bound: calls that raise although they took effect
    MaxCrashes       \* bound: crashes of the process

ASSUME IngestionAssumption ==
    /\ IsFiniteSet(Uploads)
    /\ ContentOf \in [Uploads -> Contents]
    /\ SourceOf \in [Uploads -> {"http", "folder_watch"}]
    /\ NoDoc \notin Uploads
    /\ MaxLostAnswers \in Nat

VARIABLES
    step,     \* where each call of ingest is
    answer,   \* the document id each call returned or will return
    objects,  \* documents whose raw object is in the store
    rows,     \* documents with a committed row
    tasks,    \* documents whose pipeline run is scheduled
    running,  \* documents whose pipeline runs
    phase,    \* current_phase of each row
    spent     \* how much of each bound is used

vars == <<step, answer, objects, rows, tasks, running, phase, spent>>

\* "duplicate" and "failed" are on their way to _safe_delete; "returned" and
\* "raised" are over, "lost" ended with the process.
Steps == {"new", "checked", "stored", "duplicate", "failed", "registered",
          "returned", "raised", "lost"}
Over == {"returned", "raised", "lost"}

\* "ingested" stands for every phase before the one that write_output follows,
\* but routing_failed; "settled" for awaiting_review and for the phases written
\* with a status other than queued.
Phases == {"ingested", "routing_failed", "finalizing", "settled"}

\* _IN_PROGRESS_PHASES
InProgressPhases == {"ingested", "finalizing"}

TypeOK ==
    /\ step \in [Uploads -> Steps]
    /\ answer \in [Uploads -> Uploads \cup {NoDoc}]
    /\ objects \in SUBSET Uploads
    /\ rows \in SUBSET Uploads
    /\ tasks \in SUBSET Uploads
    /\ running \in SUBSET Uploads
    /\ phase \in [Uploads -> Phases]
    /\ spent \in [faults : Nat, answers : Nat, crashes : Nat]

Init ==
    /\ step = [u \in Uploads |-> "new"]
    /\ answer = [u \in Uploads |-> NoDoc]
    /\ objects = {}
    /\ rows = {}
    /\ tasks = {}
    /\ running = {}
    /\ phase = [d \in Uploads |-> "ingested"]
    /\ spent = [faults |-> 0, answers |-> 0, crashes |-> 0]

-----------------------------------------------------------------------------
Spend(bound, limit) ==
    /\ spent[bound] < limit
    /\ spent' = [spent EXCEPT ![bound] = @ + 1]

Fault == Spend("faults", MaxFaults)
LostAnswer == Spend("answers", MaxLostAnswers)

Goto(u, next) == step' = [step EXCEPT ![u] = next]

\* Mutant: the hash is returned instead of the document id.
ReplyHash(u, d) == answer' = [answer EXCEPT ![u] = ContentOf[d]]

Reply(u, d) == answer' = [answer EXCEPT ![u] = d]

SameContent(u) == {d \in rows : ContentOf[d] = ContentOf[u]}

\* The route is a coroutine that calls ingest without awaiting: the event loop
\* runs one upload at a time.  Each watched file has a thread of its own.
EventLoopFree(u) ==
    SourceOf[u] = "http" =>
        \A v \in Uploads : SourceOf[v] = "http" => step[v] \in Over \cup {"new"}

\* validate and _find_by_hash: the file is refused, or the lookup raises, or the
\* content is known, or the upload goes on.
FindByHash(u) ==
    /\ step[u] = "new"
    /\ EventLoopFree(u)
    /\ \/ Goto(u, "raised") /\ UNCHANGED answer
       \/ \E d \in SameContent(u) : Goto(u, "returned") /\ Reply(u, d)
       \/ SameContent(u) = {} /\ Goto(u, "checked") /\ UNCHANGED answer
    /\ UNCHANGED <<objects, rows, tasks, running, phase, spent>>

\* ObjectStore.put is outside the try: when it raises nothing is deleted.
Put(u) ==
    /\ step[u] = "checked"
    /\ \/ Goto(u, "stored") /\ objects' = objects \cup {u} /\ UNCHANGED spent
       \/ Goto(u, "raised") /\ Fault /\ UNCHANGED objects
       \/ Goto(u, "raised") /\ LostAnswer /\ objects' = objects \cup {u}
    /\ UNCHANGED <<answer, rows, tasks, running, phase>>

\* Mutant: the row is inserted without the unique index on hash.
BootstrapUnchecked(u) ==
    /\ step[u] = "stored"
    /\ rows' = rows \cup {u}
    /\ Goto(u, "registered")
    /\ UNCHANGED <<answer, objects, tasks, running, phase, spent>>

\* Mutant: the loser of a race is an error like any other.
BootstrapRaises(u) ==
    /\ step[u] = "stored"
    /\ \/ SameContent(u) = {} /\ rows' = rows \cup {u} /\ Goto(u, "registered")
       \/ SameContent(u) # {} /\ UNCHANGED rows /\ Goto(u, "failed")
    /\ UNCHANGED <<answer, objects, tasks, running, phase, spent>>

\* _bootstrap: the insert commits; or the unique index refuses it and the winner
\* is read; or it raises, with the insert rolled back or committed.
Bootstrap(u) ==
    /\ step[u] = "stored"
    /\ \/ /\ SameContent(u) = {}
          /\ rows' = rows \cup {u}
          /\ \/ Goto(u, "registered") /\ UNCHANGED spent
             \/ Goto(u, "failed") /\ LostAnswer
          /\ UNCHANGED answer
       \/ /\ \E d \in SameContent(u) : Reply(u, d)
          /\ Goto(u, "duplicate")
          /\ UNCHANGED <<rows, spent>>
       \/ /\ Goto(u, "failed")
          /\ Fault
          /\ UNCHANGED <<rows, answer>>
    /\ UNCHANGED <<objects, tasks, running, phase>>

\* Mutant: the compensating delete takes the object of the id that is returned.
SafeDeleteAnswered(u) ==
    /\ step[u] \in {"duplicate", "failed"}
    /\ Goto(u, IF step[u] = "duplicate" THEN "returned" ELSE "raised")
    /\ objects' = objects \ {IF step[u] = "duplicate" THEN answer[u] ELSE u}
    /\ UNCHANGED <<answer, rows, tasks, running, phase, spent>>

\* Mutant: the object of a duplicate is kept.
SafeDeleteFailedOnly(u) ==
    /\ step[u] \in {"duplicate", "failed"}
    /\ Goto(u, IF step[u] = "duplicate" THEN "returned" ELSE "raised")
    /\ objects' = IF step[u] = "failed" THEN objects \ {u} ELSE objects
    /\ UNCHANGED <<answer, rows, tasks, running, phase, spent>>

\* _safe_delete swallows its own failure; then ingest returns the winner's id or
\* re-raises.
SafeDelete(u) ==
    /\ step[u] \in {"duplicate", "failed"}
    /\ Goto(u, IF step[u] = "duplicate" THEN "returned" ELSE "raised")
    /\ \/ objects' = objects \ {u} /\ UNCHANGED spent
       \/ Fault /\ UNCHANGED objects
    /\ UNCHANGED <<answer, rows, tasks, running, phase>>

\* The route adds a background task and answers; the watcher's thread runs the
\* pipeline itself before ingest returns to it.
Dispatch(u) ==
    /\ step[u] = "registered"
    /\ Goto(u, "returned")
    /\ Reply(u, u)
    /\ IF SourceOf[u] = "http"
       THEN tasks' = tasks \cup {u} /\ UNCHANGED running
       ELSE running' = running \cup {u} /\ UNCHANGED tasks
    /\ UNCHANGED <<objects, rows, phase, spent>>

-----------------------------------------------------------------------------
\* A run or a rerun begins at master, which stamps "ingested".
Start(d) ==
    /\ d \in tasks
    /\ tasks' = tasks \ {d}
    /\ running' = running \cup {d}
    /\ phase' = [phase EXCEPT ![d] = "ingested"]
    /\ UNCHANGED <<step, answer, objects, rows, spent>>

\* The stamps before unknown_handler and before persist.  Past master the object
\* has been read.
Stamp(d) ==
    /\ d \in running \cap objects
    /\ \/ phase[d] = "ingested" /\ phase' = [phase EXCEPT ![d] = "routing_failed"]
       \/ /\ phase[d] \in {"ingested", "routing_failed"}
          /\ phase' = [phase EXCEPT ![d] = "finalizing"]
    /\ UNCHANGED <<step, answer, objects, rows, tasks, running, spent>>

\* A run whose object is gone raises in master.  Another ends offered for review or
\* decided, but not before the stamp that follows routing_failed; or something in
\* it raises: it ends there, or write_output's handler settles the document, or it
\* was a stamp, whose failure is swallowed.
Finish(d) ==
    /\ d \in running
    /\ running' = running \ {d}
    /\ \/ d \notin objects /\ UNCHANGED <<phase, spent>>
       \/ /\ d \in objects /\ phase[d] # "routing_failed"
          /\ phase' = [phase EXCEPT ![d] = "settled"]
          /\ UNCHANGED spent
       \/ /\ d \in objects /\ Fault
          /\ phase' \in {phase, [phase EXCEPT ![d] = "settled"]}
    /\ UNCHANGED <<step, answer, objects, rows, tasks>>

\* Mutant: only runs that had been started are looked for.
StrandedRunning == running

\* _recover_stranded_documents finds the rows in a phase it lists; in these phases
\* the status is still queued.
Stranded == {d \in rows : phase[d] \in InProgressPhases}

\* The process dies and comes back; recovery schedules what it finds, unless its
\* own query fails, which is logged.
CrashAndRecover ==
    /\ spent.crashes < MaxCrashes
    /\ step' = [u \in Uploads |-> IF step[u] \in Over \cup {"new"}
                                  THEN step[u] ELSE "lost"]
    /\ running' = {}
    /\ \/ /\ tasks' = Stranded
          /\ spent' = [spent EXCEPT !.crashes = @ + 1]
       \/ /\ spent.faults < MaxFaults
          /\ tasks' = {}
          /\ spent' = [spent EXCEPT !.crashes = @ + 1, !.faults = @ + 1]
    /\ UNCHANGED <<answer, objects, rows, phase>>

-----------------------------------------------------------------------------
Ingest(u) == FindByHash(u) \/ Put(u) \/ Bootstrap(u) \/ SafeDelete(u) \/ Dispatch(u)

Next == \/ \E u \in Uploads : Ingest(u)
        \/ \E d \in Uploads : Start(d) \/ Stamp(d) \/ Finish(d)
        \/ CrashAndRecover

Spec == Init /\ [][Next]_vars

\* A call of ingest that was begun goes on, as do scheduled and running pipelines.
Fairness == /\ \A u \in Uploads : WF_vars(step[u] # "new" /\ Ingest(u))
            /\ \A d \in Uploads : /\ WF_vars(Start(d)) /\ WF_vars(Stamp(d))
                                 /\ WF_vars(Finish(d))

FairSpec == Spec /\ Fairness

-----------------------------------------------------------------------------
(***************************************************************************)
(* Whatever uploads of one content race, fail, or are repeated, every      *)
(* caller that is answered is given the same document, and it has a row    *)
(* ("Concurrent idempotency", progress/p1/summary.md).                     *)
(***************************************************************************)
AnswersAgree ==
    \A u, v \in Uploads :
        (step[u] = "returned" /\ step[v] = "returned" /\ ContentOf[u] = ContentOf[v])
            => answer[u] = answer[v] /\ answer[u] \in rows

(***************************************************************************)
(* While every call that took effect is also answered, a document's raw    *)
(* object exists as long as its row: the compensating delete of one upload *)
(* never takes the object of another.                                      *)
(***************************************************************************)
RowHasObject == spent.answers = 0 => rows \subseteq objects

(***************************************************************************)
(* An object without a row belongs to an upload in progress or lost in a   *)
(* crash, or a call of its upload failed, one failure for each: nothing    *)
(* else leaks.                                                             *)
(***************************************************************************)
Leaked == {u \in objects \ rows : step[u] \in {"returned", "raised"}}

OrphansAreAccountedFor == Cardinality(Leaked) <= spent.faults + spent.answers

(***************************************************************************)
(* A race is never an error: a call that raises after its object was       *)
(* stored did so because a call of it failed ("one wins, one returns       *)
(* duplicate=true cleanly").                                               *)
(***************************************************************************)
Failing == {u \in Uploads : step[u] = "failed"}

LosersAreAnswered == Cardinality(Failing) <= spent.faults + spent.answers

(***************************************************************************)
(* A registered document does not stay unprocessed: while no call fails it *)
(* is settled in the end, whoever races with it, even when the process     *)
(* died between its commit and its dispatch, or in its run.  Except when   *)
(* it died while the document was in routing_failed, the phase recovery    *)
(* does not list (main.py:62-72): such a document is never looked at again.*)
(***************************************************************************)
Forgotten(d) == phase[d] = "routing_failed" /\ d \notin running

NothingFailed == spent.faults = 0 /\ spent.answers = 0

EventuallySettled ==
    \A d \in Uploads : d \in rows ~>
        (NothingFailed => phase[d] = "settled" \/ Forgotten(d))
=============================================================================
