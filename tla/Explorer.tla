-------------------------------- MODULE Explorer --------------------------------
(***************************************************************************)
(* The document explorer (api/routes/documents.py): a reader opens the     *)
(* page of a document while the pipeline works on it.  get_document and    *)
(* explain_document read the row of the document, then its latest truth    *)
(* audit, then its latest persistence audit, each with a query of its own  *)
(* under READ COMMITTED: commits of write_output fall in between.          *)
(***************************************************************************)
EXTENDS Pipeline

CONSTANT NoAudit    \* the document has no persistence audit row

ASSUME ExplorerAssumption == NoAudit \notin AuditRow

VARIABLE page       \* what the reader has read so far

allVars == <<vars, page>>

Blank == [doc |-> NoDoc, at |-> "closed", status |-> "queued", type |-> NoType,
          report |-> NoReport, audit |-> NoAudit]

Page == [doc    : Docs \cup {NoDoc},
         at     : {"closed", "truth", "persistence", "shown"},
         status : Statuses,
         type   : Types,
         report : Report \cup {NoReport},
         audit  : AuditRow \cup {NoAudit}]

ExplorerType == page \in Page

ExplorerInit == Init /\ page = Blank

-----------------------------------------------------------------------------
\* The latest truth audit: not every Phase A writes one.
Evaluated(d) == {i \in 1..Len(audit[d]) : audit[d][i].report # NoReport}

LatestReport(d) ==
    IF Evaluated(d) = {}
    THEN {NoReport}
    ELSE {audit[d][i].report : i \in {j \in Evaluated(d) : \A k \in Evaluated(d) : k <= j}}

\* Mutant: ordered by created_at without desc().
OldestAudit(d) == IF audit[d] = <<>> THEN NoAudit ELSE audit[d][1]

LatestAudit(d) == IF audit[d] = <<>> THEN NoAudit ELSE audit[d][Len(audit[d])]

\* Mutant: the page shows the phase for the status.
OpenPageByPhase(d) ==
    /\ page.at \in {"closed", "shown"}
    /\ page' = [Blank EXCEPT !.doc = d, !.at = "truth", !.status = row[d].phase,
                              !.type = row[d].doc_type]

\* _doc_or_404: one query, whose row gives the status and the type that are shown.
OpenPage(d) ==
    /\ page.at \in {"closed", "shown"}
    /\ page' = [Blank EXCEPT !.doc = d, !.at = "truth", !.status = row[d].status,
                              !.type = row[d].doc_type]

\* _truth_audit.
ReadTruth(d) ==
    /\ page.at = "truth"
    /\ page.doc = d
    /\ \E report \in LatestReport(d) :
          page' = [page EXCEPT !.at = "persistence", !.report = report]

\* _persistence_audit; the response is complete.
ReadPersistence(d) ==
    /\ page.at = "persistence"
    /\ page.doc = d
    /\ page' = [page EXCEPT !.at = "shown", !.audit = LatestAudit(d)]

Read == \E d \in Docs : OpenPage(d) \/ ReadTruth(d) \/ ReadPersistence(d)

ExplorerNext == \/ Next /\ UNCHANGED page
                \/ Read /\ UNCHANGED vars

ExplorerSpec == ExplorerInit /\ [][ExplorerNext]_allVars

\* The pipeline keeps running while pages are read; nobody has to read one.
FairExplorerSpec == ExplorerSpec /\ Fairness

-----------------------------------------------------------------------------
Shows(status) == page.at = "shown" /\ page.status = status

(***************************************************************************)
(* The page never contradicts itself: beside a verdict it shows the        *)
(* persistence audit of that verdict, although the three are read while    *)
(* runs of the document go on, and a document completed because the        *)
(* planner accepted it is shown with a report without failed verifiers     *)
(* (explain_document, "Aggregates existing artifacts only").  A document   *)
(* routed as UNKNOWN is persisted with the report of an earlier run.       *)
(***************************************************************************)
VerdictIsExplained ==
    \A status \in TerminalStatuses : Shows(status) =>
        /\ page.audit # NoAudit
        /\ page.audit.status = status
        /\ status = "completed" /\ page.audit.strategy = "accept" /\ page.type # "UNKNOWN" =>
              page.report # NoReport /\ page.report.failed = {}

(***************************************************************************)
(* When the page of a decided document says that it was learned from, its  *)
(* similar documents can be found from then on: get_similar_documents      *)
(* starts from its embedding.                                              *)
(***************************************************************************)
LearnedIsSearchable ==
    \A status \in TerminalStatuses :
        Shows(status) /\ page.audit # NoAudit /\ page.audit.learned => embedding[page.doc] # {}

(***************************************************************************)
(* Whatever runs at the same time, also two decisions on one document: a   *)
(* verdict that is shown is in the audit trail of the document, and the    *)
(* page shows some audit row beside it.                                    *)
(***************************************************************************)
ShownWasRecorded ==
    \A status \in TerminalStatuses : Shows(status) =>
        /\ \E i \in 1..Len(audit[page.doc]) : audit[page.doc][i].status = status
        /\ page.audit # NoAudit
=============================================================================
