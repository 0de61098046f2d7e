---------------------------- MODULE Explorer_proofs ----------------------------
(***************************************************************************)
(* What a reader of a document's page may rely on, for any documents and   *)
(* any invocations, decisions, crashes and failures between its queries.   *)
(***************************************************************************)
EXTENDS Explorer, Serial_proofs, SequenceTheorems

USE DEF StoredAt, WritingAt

\* What is read first stays recorded while the rest is read.
PageInv ==
    /\ page.at # "closed" =>
          /\ page.doc \in Docs
          /\ page.status \in TerminalStatuses => Records(audit[page.doc], page.status)
    /\ page.at = "shown" /\ page.status \in TerminalStatuses => page.audit # NoAudit

-----------------------------------------------------------------------------
(* No step of the pipeline takes an audit row back *)

LEMMA AppendKeeps ==
    ASSUME TypeOK, NEW t \in Threads, PersistAudit(t)
    PROVE  KeepsRecords
<1> DEFINE d == Doc(t)
<1>1. d \in Docs /\ audit[d] \in Seq(AuditRow)
  BY BusyDoc DEF PersistAudit, In, TypeOK
<1>2. PICK r : audit' = [audit EXCEPT ![d] = Append(audit[d], r)]
  BY DEF PersistAudit, Logged
<1>3. output' = output
  BY DEF PersistAudit
<1>4. /\ audit'[d] = Append(audit[d], r)
      /\ \A e \in Docs : e # d => audit'[e] = audit[e]
  BY <1>1, <1>2 DEF TypeOK
<1>5. ASSUME NEW s, Records(audit[d], s) PROVE Records(audit'[d], s)
  <2>1. PICK i \in 1..Len(audit[d]) : audit[d][i].status = s
    BY <1>5 DEF Records
  <2>2. i \in 1..Len(audit'[d]) /\ audit'[d][i] = audit[d][i]
    BY <1>1, <1>4
  <2>3. QED
    BY <2>1, <2>2 DEF Records
<1>6. QED
  BY <1>3, <1>4, <1>5 DEF KeepsRecords

LEMMA ObjectKeeps ==
    ASSUME TypeOK, NEW t \in Threads, PersistObject(t)
    PROVE  KeepsRecords
<1>1. Doc(t) \in Docs
  BY BusyDoc DEF PersistObject
<1>2. PICK u : output' = [output EXCEPT ![Doc(t)] = [written |-> TRUE, universal |-> u]]
  BY DEF PersistObject
<1>3. \A d \in Docs : output[d].written => output'[d].written
  BY <1>1, <1>2 DEF TypeOK
<1>4. audit' = audit
  BY DEF PersistObject
<1>5. QED
  BY <1>3, <1>4 DEF KeepsRecords

LEMMA NextKeeps == TypeOK /\ [Next]_vars => KeepsRecords
<1> SUFFICES ASSUME TypeOK, [Next]_vars PROVE KeepsRecords
  OBVIOUS
<1>1. ASSUME NEW t \in Threads, Work(t) PROVE KeepsRecords
  <2>1. CASE StampPhase(t)
    BY <2>1, StoresKept DEF StampPhase, stores
  <2>2. CASE Node(t)
    BY <2>2, NodeCalm, StoresKept
  <2>3. CASE PersistAudit(t)
    BY <2>3, AppendKeeps
  <2>4. CASE PersistObject(t)
    BY <2>4, ObjectKeeps
  <2>5. CASE \/ QueryEmbedding(t) \/ InsertEmbedding(t) \/ UpdateEmbedding(t)
             \/ PersistStatus(t) \/ PersistReturn(t) \/ PersistFailed(t)
    BY <2>5, StoresKept DEF QueryEmbedding, InsertEmbedding, UpdateEmbedding,
                            PersistStatus, PersistReturn, PersistFailed, stores
  <2>6. QED
    BY <1>1, <2>1, <2>2, <2>3, <2>4, <2>5 DEF Work, Persist
<1>2. CASE (\E t \in Threads, d \in Docs : Dispatch(t, d)) \/ Review \/ Failure
  <2>1. UNCHANGED <<audit, output>>
    BY <1>2 DEF Dispatch, Review, ListPending, SubmitDecision, Failure, CrashAndRecover,
                PersistRaises, InvocationRaises, stores
  <2>2. QED
    BY <2>1, StoresKept
<1>3. CASE UNCHANGED vars
  BY <1>3, StoresKept DEF vars
<1>4. QED
  BY <1>1, <1>2, <1>3 DEF Next

-----------------------------------------------------------------------------
(* The page *)

LEMMA RecordsNonEmpty ==
    ASSUME NEW d \in Docs, TypeOK, NEW s, Records(audit[d], s)
    PROVE  LatestAudit(d) \in AuditRow
<1>1. audit[d] \in Seq(AuditRow)
  BY DEF TypeOK
<1>2. Len(audit[d]) \in Nat /\ Len(audit[d]) >= 1
  BY <1>1 DEF Records
<1>3. audit[d] # <<>> /\ Len(audit[d]) \in 1..Len(audit[d])
  BY <1>1, <1>2
<1>4. audit[d][Len(audit[d])] \in AuditRow
  BY <1>1, <1>3, ElementOfSeq
<1>5. QED
  BY <1>3, <1>4 DEF LatestAudit

LEMMA Opened ==
    ASSUME NEW d, OpenPage(d)
    PROVE  page' = [doc |-> d, at |-> "truth", status |-> row[d].status,
                    type |-> row[d].doc_type, report |-> NoReport, audit |-> NoAudit]
<1>1. page' = [[[[Blank EXCEPT !.doc = d] EXCEPT !.at = "truth"]
                  EXCEPT !.status = row[d].status] EXCEPT !.type = row[d].doc_type]
  BY DEF OpenPage
<1>2. QED
  BY <1>1 DEF Blank

LEMMA ReadPreserves ==
    ASSUME TypeOK, OutputInv, ExplorerType, PageInv, Read, UNCHANGED vars
    PROVE  PageInv'
<1>0. audit' = audit
  BY DEF vars
<1>1. PICK d \in Docs : OpenPage(d) \/ ReadTruth(d) \/ ReadPersistence(d)
  BY DEF Read
<1>2. CASE OpenPage(d)
  <2>1. /\ page'.doc = d /\ page'.at = "truth" /\ page'.status = row[d].status
    BY <1>2, Opened
  <2>2. row[d].status \in TerminalStatuses => Records(audit[d], row[d].status)
    BY DEF OutputInv, PublishedWasRecorded, Records
  <2>3. QED
    BY <1>0, <2>1, <2>2 DEF PageInv
<1>3. CASE ReadTruth(d)
  <2>1. PICK report : page' = [[page EXCEPT !.at = "persistence"] EXCEPT !.report = report]
    BY <1>3 DEF ReadTruth
  <2>2. /\ page.at = "truth" /\ page'.at = "persistence"
        /\ page'.doc = page.doc /\ page'.status = page.status
    BY <1>3, <2>1 DEF ReadTruth, ExplorerType, Page
  <2>3. QED
    BY <1>0, <2>2 DEF PageInv
<1>4. CASE ReadPersistence(d)
  <2>1. page' = [[page EXCEPT !.at = "shown"] EXCEPT !.audit = LatestAudit(d)]
    BY <1>4 DEF ReadPersistence
  <2>2. /\ page.at = "persistence" /\ page.doc = d /\ page'.at = "shown"
        /\ page'.doc = page.doc /\ page'.status = page.status
        /\ page'.audit = LatestAudit(d)
    BY <1>4, <2>1 DEF ReadPersistence, ExplorerType, Page
  <2>3. page.status \in TerminalStatuses => LatestAudit(d) # NoAudit
    BY <2>2, RecordsNonEmpty, ExplorerAssumption DEF PageInv
  <2>4. QED
    BY <1>0, <2>2, <2>3 DEF PageInv
<1>5. QED
  BY <1>1, <1>2, <1>3, <1>4

LEMMA ReadTyped ==
    ASSUME TypeOK, ExplorerType, Read
    PROVE  ExplorerType'
<1>1. PICK d \in Docs : OpenPage(d) \/ ReadTruth(d) \/ ReadPersistence(d)
  BY DEF Read
<1>2. audit[d] \in Seq(AuditRow) /\ row[d].status \in Statuses /\ row[d].doc_type \in Types
  BY DEF TypeOK, Row
<1>3. CASE OpenPage(d)
  BY <1>2, <1>3, Opened DEF ExplorerType, Page
<1>4. CASE ReadTruth(d)
  <2>1. PICK report \in LatestReport(d) :
            page' = [page EXCEPT !.at = "persistence", !.report = report]
    BY <1>4 DEF ReadTruth
  <2>2. \A i \in Evaluated(d) : audit[d][i] \in AuditRow
    BY <1>2, ElementOfSeq DEF Evaluated
  <2>3. report \in Report \cup {NoReport}
    BY <2>1, <2>2 DEF LatestReport, AuditRow
  <2>4. QED
    BY <2>1, <2>3 DEF ExplorerType, Page
<1>5. CASE ReadPersistence(d)
  <2>1. LatestAudit(d) \in AuditRow \cup {NoAudit}
    <3>1. CASE audit[d] = <<>>
      BY <3>1 DEF LatestAudit
    <3>2. CASE audit[d] # <<>>
      <4>1. Len(audit[d]) \in 1..Len(audit[d])
        BY <1>2, <3>2
      <4>2. QED
        BY <1>2, <3>2, <4>1, ElementOfSeq DEF LatestAudit
    <3>3. QED
      BY <3>1, <3>2
  <2>2. QED
    BY <1>5, <2>1 DEF ReadPersistence, ExplorerType, Page
<1>6. QED
  BY <1>1, <1>3, <1>4, <1>5

ReaderInv == TypeOK /\ OutputInv /\ ExplorerType /\ PageInv

LEMMA InitReader == ExplorerInit => ReaderInv
<1> SUFFICES ASSUME ExplorerInit PROVE ReaderInv
  OBVIOUS
<1>1. TypeOK /\ OutputInv
  BY InitType, InitOutput DEF ExplorerInit
<1>2. page = Blank /\ "queued" \in Statuses /\ NoType \in Types
  BY DEF ExplorerInit, Statuses, Types
<1>3. QED
  BY <1>1, <1>2 DEF ReaderInv, ExplorerType, Page, PageInv, Blank

LEMMA NextReader == ReaderInv /\ [ExplorerNext]_allVars => ReaderInv'
<1> SUFFICES ASSUME ReaderInv, [ExplorerNext]_allVars PROVE ReaderInv'
  OBVIOUS
<1>1. TypeOK /\ OutputInv /\ ExplorerType /\ PageInv
  BY DEF ReaderInv
<1>2. [Next]_vars
  BY DEF ExplorerNext, allVars
<1>3. TypeOK' /\ OutputInv'
  BY <1>1, <1>2, NextType, NextOutput
<1>4. CASE UNCHANGED page
  <2>1. KeepsRecords
    BY <1>1, <1>2, NextKeeps
  <2>2. PageInv'
    BY <1>1, <1>4, <2>1 DEF PageInv, KeepsRecords
  <2>3. QED
    BY <1>1, <1>3, <1>4, <2>2 DEF ReaderInv, ExplorerType
<1>5. CASE Read /\ UNCHANGED vars
  BY <1>1, <1>3, <1>5, ReadPreserves, ReadTyped DEF ReaderInv
<1>6. QED
  BY <1>4, <1>5 DEF ExplorerNext, allVars

(***************************************************************************)
(* A verdict on a page is in the audit trail of its document, and an audit *)
(* row is shown beside it, however many invocations and decisions of the   *)
(* document overlap with the three queries.                                *)
(***************************************************************************)
THEOREM ShownIsRecorded == ExplorerSpec => []ShownWasRecorded
<1>1. ReaderInv => ShownWasRecorded
  BY DEF ReaderInv, PageInv, ShownWasRecorded, Shows, Records
<1>2. QED
  BY <1>1, InitReader, NextReader, PTL DEF ExplorerSpec

(***************************************************************************)
(* What a page holds is well typed.                                        *)
(***************************************************************************)
THEOREM PageTyped == ExplorerSpec => []ExplorerType
<1>1. ReaderInv => ExplorerType
  BY DEF ReaderInv
<1>2. QED
  BY <1>1, InitReader, NextReader, PTL DEF ExplorerSpec

-----------------------------------------------------------------------------
(* What a reader finds while the invocations of a document do not meet *)

\* The result of a decided document is what channels c hold, and stays so.
Rests(d, c) == ckpt[d].chan = c /\ row[d].status # "queued" /\ Holds(d, c)

LEMMA SameRests ==
    ASSUME NEW d \in Docs, NEW c, Same(d), Rests(d, c)
    PROVE  Rests(d, c)'
BY DEF Same, Rests, Holds, Filed, Kept, Learned

LEMMA PersistRests ==
    ASSUME TypeOK, SerialInv, NEW t \in Threads, Persist(t),
           NEW d \in Docs, NEW c, Rests(d, c)
    PROVE  Rests(d, c)'
<1>1. Active(t)
  BY DEF Persist, PersistAudit, PersistObject, QueryEmbedding, InsertEmbedding,
         UpdateEmbedding, PersistStatus, PersistReturn, PersistFailed, Active, Free, In
<1>2. PICK e \in Docs, chan \in Channels : /\ e = Doc(t) /\ chan = Chan(t)
                                          /\ ckpt[e].chan = chan
  BY <1>1, AtWork
<1>3. e = d => chan = c
  BY <1>2 DEF Rests
<1>4. CASE PersistAudit(t)
  <2>1. UNCHANGED <<ckpt, tasks, output, embedding>>
    BY <1>4 DEF PersistAudit
  <2>2. CASE e = d
    <3>1. Filed(e, chan)' /\ row'[e].status = row[e].status
      BY <1>2, <1>4, AuditFiles
    <3>2. Filed(d, c)'
      BY <1>3, <2>2, <3>1
    <3>3. QED
      BY <2>1, <2>2, <3>1, <3>2 DEF Rests, Holds, Kept, Learned
  <2>3. CASE e # d
    <3>1. audit'[d] = audit[d] /\ row'[d] = row[d]
      BY <1>2, <1>4, <2>3 DEF PersistAudit, TypeOK
    <3>2. QED
      BY <2>1, <3>1, SameRests DEF Same
  <2>4. QED
    BY <2>2, <2>3
<1>5. CASE PersistObject(t)
  <2>1. UNCHANGED <<row, ckpt, tasks, audit, embedding>>
    BY <1>5 DEF PersistObject
  <2>2. output'[d] = IF e = d THEN [written |-> TRUE, universal |-> c.universal] ELSE output[d]
    BY <1>2, <1>3, <1>5 DEF PersistObject, TypeOK
  <2>3. QED
    BY <2>1, <2>2 DEF Rests, Holds, Kept, Filed, Learned
<1>6. CASE InsertEmbedding(t) \/ UpdateEmbedding(t)
  <2>1. UNCHANGED <<row, ckpt, tasks, audit, output>>
    BY <1>6 DEF InsertEmbedding, UpdateEmbedding
  <2>2. Embedded(t).fields = chan.fields
    BY <1>2 DEF Embedded
  <2>3. PICK new, old : /\ new.fields = chan.fields
                        /\ \/ embedding' = [embedding EXCEPT ![e] = embedding[e] \cup {new}]
                           \/ embedding' = [embedding EXCEPT ![e] =
                                              (embedding[e] \ {old}) \cup {new}]
    BY <1>2, <1>6, <2>2 DEF InsertEmbedding, UpdateEmbedding
  <2>4. e # d => embedding'[d] = embedding[d]
    BY <2>3 DEF TypeOK
  <2>5. ASSUME e = d
        PROVE  /\ embedding'[d] # {}
               /\ \A x \in embedding'[d] : x \in embedding[d] \/ x.fields = c.fields
    <3>1. \/ embedding'[d] = embedding[d] \cup {new}
          \/ embedding'[d] = (embedding[d] \ {old}) \cup {new}
      BY <2>3, <2>5 DEF TypeOK
    <3>2. new.fields = c.fields
      BY <1>3, <2>3, <2>5
    <3>3. QED
      BY <3>1, <3>2
  <2>6. Learned(d, c)'
    BY <2>4, <2>5 DEF Rests, Holds, Learned
  <2>7. QED
    BY <2>1, <2>6 DEF Rests, Holds, Filed, Kept
<1>7. CASE PersistStatus(t) \/ PersistFailed(t)
  <2>1. UNCHANGED <<ckpt, tasks, audit, output, embedding>>
    BY <1>7 DEF PersistStatus, PersistFailed, stores
  <2>2. TerminalStatus(chan) # "queued"
    BY TerminalStatusType DEF TerminalStatuses
  <2>3. PICK s \in {TerminalStatus(chan), "persist_failed"} :
            row' = row \/ row' = [row EXCEPT ![e].status = s, ![e].phase = s]
    BY <1>2, <1>7 DEF PersistStatus, PersistFailed
  <2>4. /\ row'[d].doc_type = row[d].doc_type
        /\ row'[d].fields = row[d].fields /\ row'[d].universal = row[d].universal
        /\ row'[d].status = row[d].status \/ row'[d].status = s
    <3>1. row[d] \in Row
      BY DEF TypeOK
    <3>2. row'[d] = row[d] \/ row'[d] = [[row[d] EXCEPT !.status = s] EXCEPT !.phase = s]
      BY <2>3 DEF TypeOK
    <3>3. row'[d].doc_type = row[d].doc_type /\ row'[d].fields = row[d].fields
      BY <3>1, <3>2 DEF Row
    <3>4. row'[d].universal = row[d].universal
      BY <3>1, <3>2 DEF Row
    <3>5. row'[d].status = row[d].status \/ row'[d].status = s
      BY <3>1, <3>2 DEF Row
    <3>6. QED
      BY <3>3, <3>4, <3>5
  <2>5. QED
    BY <2>1, <2>2, <2>3, <2>4 DEF Rests, Holds, Filed, Kept, Learned
<1>8. CASE QueryEmbedding(t) \/ PersistReturn(t)
  <2>1. UNCHANGED <<row, tasks, audit, output, embedding>>
    BY <1>8 DEF QueryEmbedding, PersistReturn, stores
  <2>2. ckpt'[d].chan = ckpt[d].chan
    BY <1>2, <1>8 DEF QueryEmbedding, PersistReturn, TypeOK
  <2>3. QED
    BY <2>1, <2>2 DEF Rests, Holds, Filed, Kept, Learned
<1>9. QED
  BY <1>4, <1>5, <1>6, <1>7, <1>8 DEF Persist

LEMMA NodeRests ==
    ASSUME TypeOK, SerialInv, NEW t \in Threads, Node(t),
           NEW d \in Docs, NEW c, Rests(d, c)
    PROVE  Rests(d, c)'
<1>1. UNCHANGED <<row, audit, output, embedding>>
  BY NodeCalm, NodeQuiet
<1>2. tasks' = tasks
  BY DEF Node, Master, Classify, UnknownHandler, Extract, TruthEngineNode, ResolutionPlanner,
         StrategyExecutor, OpARetry, Interrupt, OpBHitl, Normalize, Pure
<1>3. CASE ckpt'[d] = ckpt[d]
  BY <1>1, <1>2, <1>3, SameRests DEF Same
<1>4. CASE ckpt'[d] # ckpt[d]
  <2>1. Active(t) /\ inv[t].node \in Nodes \ {"persist"}
    BY <1>4 DEF Node, Master, Classify, UnknownHandler, Extract, TruthEngineNode,
                ResolutionPlanner, StrategyExecutor, OpARetry, Interrupt, OpBHitl, Normalize,
                Active, Free, In, Nodes
  <2>2. PICK chan, next : ckpt' = [ckpt EXCEPT ![Doc(t)] = [next |-> next, chan |-> chan]]
    <3>1. CASE Classify(t) \/ Extract(t) \/ OpARetry(t)
      BY <3>1 DEF Classify, Extract, OpARetry, Pure, Advance
    <3>2. CASE Master(t) \/ UnknownHandler(t) \/ TruthEngineNode(t) \/ ResolutionPlanner(t)
               \/ StrategyExecutor(t) \/ OpBHitl(t) \/ Normalize(t)
      BY <3>2 DEF Master, UnknownHandler, TruthEngineNode, ResolutionPlanner,
                  StrategyExecutor, OpBHitl, Normalize, Pure, Advance
    <3>3. QED
      BY <1>4, <3>1, <3>2 DEF Node, Interrupt
  <2>3. Doc(t) = d
    BY <1>4, <2>2 DEF TypeOK
  <2>4. ckpt[d].next = inv[t].node
    BY <2>1, <2>3, AtWork
  <2>5. QED
    BY <2>1, <2>4 DEF SerialInv, DecidedInv, Rests, Nodes
<1>5. QED
  BY <1>3, <1>4

LEMMA NextRests ==
    ASSUME TypeOK, SerialInv, [Next]_vars, NEW d \in Docs, NEW c, Rests(d, c)
    PROVE  Rests(d, c)'
<1>1. ASSUME NEW t \in Threads, NEW e \in Docs, Dispatch(t, e) PROVE Rests(d, c)'
  <2>1. e # d
    BY <1>1 DEF Dispatch, SerialInv, DecidedInv, Rests
  <2>2. /\ UNCHANGED <<row, audit, output, embedding>> /\ tasks' \subseteq tasks
        /\ ckpt'[d] = ckpt[d]
    BY <1>1, <2>1 DEF Dispatch, TypeOK, stores
  <2>3. QED
    BY <2>2, SameRests DEF Same
<1>2. CASE Review \/ Failure \/ UNCHANGED vars
  <2>1. UNCHANGED <<row, ckpt, audit, output, embedding>>
    BY <1>2 DEF Review, ListPending, SubmitDecision, Failure, CrashAndRecover, PersistRaises,
                InvocationRaises, vars, stores
  <2>2. QED
    BY <2>1 DEF Rests, Holds, Filed, Kept, Learned
<1>3. ASSUME NEW t \in Threads, StampPhase(t) PROVE Rests(d, c)'
  <2>1. Same(d)
    BY <1>3, StampKeepsRow DEF StampPhase, Same, stores
  <2>2. QED
    BY <2>1, SameRests
<1>4. QED
  BY <1>1, <1>2, <1>3, NodeRests, PersistRests DEF Next, Work

\* What a page of a decided document shows is what channels write_output may be given
\* left of it.
Shown(c) ==
    /\ page.status = TerminalStatus(c)
    /\ c.doc_type # NoType => page.type = c.doc_type
    /\ page.at \in {"persistence", "shown"} /\ c.report # NoReport => page.report = c.report
    /\ page.at = "shown" => page.audit = AuditOf(c)

RestInv ==
    page.at # "closed" /\ page.status \in TerminalStatuses =>
        \E c \in Sound : Rests(page.doc, c) /\ Shown(c)

\* The latest truth audit is that of the last row, when it has one.
LEMMA LastReport ==
    ASSUME TypeOK, NEW d \in Docs, NEW c \in Channels, Filed(d, c), c.report # NoReport
    PROVE  LatestReport(d) = {c.report}
<1> DEFINE n == Len(audit[d])
<1>1. audit[d] \in Seq(AuditRow) /\ audit[d] # <<>> /\ audit[d][n] = AuditOf(c)
  BY DEF TypeOK, Filed
<1>2. n \in Nat /\ n \in 1..n
  BY <1>1
<1>3. audit[d][n].report = c.report
  BY <1>1 DEF AuditOf
<1>4. n \in Evaluated(d) /\ Evaluated(d) \subseteq 1..n
  BY <1>2, <1>3 DEF Evaluated
<1>5. {j \in Evaluated(d) : \A k \in Evaluated(d) : k <= j} = {n}
  BY <1>2, <1>4
<1>6. LatestReport(d) =
        {audit[d][i].report : i \in {j \in Evaluated(d) : \A k \in Evaluated(d) : k <= j}}
  BY <1>4 DEF LatestReport
<1> HIDE DEF n
<1>7. LatestReport(d) = {audit[d][i].report : i \in {n}}
  BY <1>5, <1>6
<1>8. QED
  BY <1>3, <1>7

LEMMA ReadRests ==
    ASSUME TypeOK, SerialInv, ExplorerType, PageInv, RestInv, Read, UNCHANGED vars
    PROVE  RestInv'
<1>0. UNCHANGED <<row, ckpt, audit, output, embedding>>
  BY DEF vars
<1>1. PICK d \in Docs : OpenPage(d) \/ ReadTruth(d) \/ ReadPersistence(d)
  BY DEF Read
<1>2. ASSUME NEW c \in Sound, Rests(d, c) PROVE Rests(d, c)' /\ c \in Channels /\ Filed(d, c)
  BY <1>0, <1>2 DEF Rests, Holds, Filed, Kept, Learned, Sound
<1>3. CASE OpenPage(d)
  <2>1. /\ page'.doc = d /\ page'.at = "truth" /\ page'.status = row[d].status
        /\ page'.type = row[d].doc_type
    BY <1>3, Opened
  <2>2. ASSUME row[d].status \in TerminalStatuses
        PROVE  \E c \in Sound : Rests(d, c)' /\ Shown(c)'
    <3>1. PICK c \in Sound : c = ckpt[d].chan /\ Holds(d, c) /\ row[d].status = TerminalStatus(c)
      BY <2>2 DEF SerialInv, DecidedInv
    <3>2. Rests(d, c)
      BY <2>2, <3>1 DEF Rests, TerminalStatuses
    <3>3. Shown(c)'
      BY <2>1, <3>1 DEF Shown, Holds, Filed
    <3>4. QED
      BY <1>2, <3>2, <3>3
  <2>3. QED
    BY <2>1, <2>2 DEF RestInv
<1>4. CASE ReadTruth(d)
  <2>1. PICK report \in LatestReport(d) :
            page' = [[page EXCEPT !.at = "persistence"] EXCEPT !.report = report]
    BY <1>4 DEF ReadTruth
  <2>2. /\ page.at = "truth" /\ page.doc = d /\ page'.at = "persistence"
        /\ page'.doc = d /\ page'.status = page.status
        /\ page'.type = page.type /\ page'.report = report
    BY <1>4, <2>1 DEF ReadTruth, ExplorerType, Page
  <2>3. ASSUME page.status \in TerminalStatuses
        PROVE  \E c \in Sound : Rests(d, c)' /\ Shown(c)'
    <3>1. PICK c \in Sound : Rests(d, c) /\ Shown(c)
      BY <2>2, <2>3 DEF RestInv
    <3>2. c.report # NoReport => report = c.report
      BY <1>2, <2>1, <3>1, LastReport
    <3>3. Shown(c)'
      BY <2>2, <3>1, <3>2 DEF Shown
    <3>4. QED
      BY <1>2, <3>1, <3>3
  <2>4. QED
    BY <2>2, <2>3 DEF RestInv
<1>5. CASE ReadPersistence(d)
  <2>1. page' = [[page EXCEPT !.at = "shown"] EXCEPT !.audit = LatestAudit(d)]
    BY <1>5 DEF ReadPersistence
  <2>2. /\ page.at = "persistence" /\ page.doc = d /\ page'.at = "shown"
        /\ page'.doc = d /\ page'.status = page.status
        /\ page'.type = page.type /\ page'.report = page.report
        /\ page'.audit = LatestAudit(d)
    BY <1>5, <2>1 DEF ReadPersistence, ExplorerType, Page
  <2>3. ASSUME page.status \in TerminalStatuses
        PROVE  \E c \in Sound : Rests(d, c)' /\ Shown(c)'
    <3>1. PICK c \in Sound : Rests(d, c) /\ Shown(c)
      BY <2>2, <2>3 DEF RestInv
    <3>2. LatestAudit(d) = AuditOf(c)
      BY <1>2, <3>1 DEF LatestAudit, Filed
    <3>3. Shown(c)'
      BY <2>2, <3>1, <3>2 DEF Shown
    <3>4. QED
      BY <1>2, <3>1, <3>3
  <2>4. QED
    BY <2>2, <2>3 DEF RestInv
<1>6. QED
  BY <1>1, <1>3, <1>4, <1>5

RestedInv == ReaderInv /\ GoodViews /\ SerialInv /\ RestInv

LEMMA InitRested == ExplorerInit => RestedInv
<1> SUFFICES ASSUME ExplorerInit PROVE RestedInv
  OBVIOUS
<1>1. ReaderInv
  BY InitReader
<1>2. GoodViews /\ SerialInv
  BY InitViews, InitSerial DEF ExplorerInit
<1>3. RestInv
  BY DEF ExplorerInit, RestInv, Blank
<1>4. QED
  BY <1>1, <1>2, <1>3 DEF RestedInv

LEMMA NextRested ==
    RestedInv /\ Serialized /\ Serialized' /\ [ExplorerNext]_allVars => RestedInv'
<1> SUFFICES ASSUME RestedInv, Serialized, Serialized', [ExplorerNext]_allVars
             PROVE  RestedInv'
  OBVIOUS
<1>1. /\ ReaderInv /\ TypeOK /\ ExplorerType /\ PageInv
      /\ GoodViews /\ SerialInv /\ RestInv
  BY DEF RestedInv, ReaderInv
<1>2. [Next]_vars
  BY DEF ExplorerNext, allVars
<1>3. ReaderInv' /\ GoodViews' /\ SerialInv'
  BY <1>1, <1>2, NextReader, NextViews, NextSerial
<1>4. CASE UNCHANGED page
  <2>1. ASSUME page.at # "closed", page.status \in TerminalStatuses
        PROVE  \E c \in Sound : Rests(page.doc, c)' /\ Shown(c)'
    <3>1. PICK d \in Docs : d = page.doc
      BY <1>1, <2>1 DEF PageInv
    <3>2. PICK c \in Sound : Rests(d, c) /\ Shown(c)
      BY <1>1, <2>1, <3>1 DEF RestInv
    <3>3. Rests(d, c)'
      BY <1>1, <1>2, <3>2, NextRests
    <3>4. Shown(c)'
      BY <1>4, <3>2 DEF Shown
    <3>5. QED
      BY <1>4, <3>1, <3>3, <3>4
  <2>2. RestInv'
    BY <1>4, <2>1 DEF RestInv
  <2>3. QED
    BY <1>3, <2>2 DEF RestedInv
<1>5. CASE Read /\ UNCHANGED vars
  BY <1>1, <1>3, <1>5, ReadRests DEF RestedInv
<1>6. QED
  BY <1>4, <1>5 DEF ExplorerNext, allVars

(***************************************************************************)
(* While the invocations of a document do not meet, its page never         *)
(* contradicts itself, although the three queries fall between the commits *)
(* of write_output and between crashes, recoveries and decisions.          *)
(***************************************************************************)
THEOREM SerializedIsExplained == ExplorerSpec /\ []Serialized => []VerdictIsExplained
<1>1. RestedInv => VerdictIsExplained
  <2> SUFFICES ASSUME RestedInv, page.at = "shown", page.status \in TerminalStatuses
               PROVE  /\ page.audit # NoAudit
                      /\ page.audit.status = page.status
                      /\ page.audit.strategy = "accept" /\ page.type # "UNKNOWN" =>
                            page.report # NoReport /\ page.report.failed = {}
    BY DEF VerdictIsExplained, Shows
  <2>1. PICK c \in Sound : Shown(c)
    BY DEF RestedInv, RestInv
  <2>2. c \in Channels /\ GoodView("persist", c)
    BY DEF Sound
  <2>3. page.audit = AuditOf(c) /\ page.status = TerminalStatus(c)
    BY <2>1 DEF Shown
  <2>4. page.audit # NoAudit /\ page.audit.status = page.status
    <3>1. AuditOf(c).status = TerminalStatus(c)
      BY DEF AuditOf
    <3>2. QED
      BY <2>2, <2>3, <3>1, AuditOfType, ExplorerAssumption
  <2>5. ASSUME page.audit.strategy = "accept", page.type # "UNKNOWN"
        PROVE  page.report # NoReport /\ page.report.failed = {}
    <3>1. c.doc_type # "UNKNOWN"
      BY <2>1, <2>5, PipelineAssumption, RegistryAssumption DEF Shown
    <3>2. c.report = Evaluate(c) /\ AcceptsIfSaid(c)
      BY <2>2, <3>1 DEF GoodView
    <3>3. c.report # NoReport
      BY <2>2, <3>2, EvaluateType, ReportAssumption
    <3>4. c.decision.strategy = "accept"
      BY <2>3, <2>5 DEF AuditOf
    <3>5. c.report.failed = {}
      BY <3>2, <3>4 DEF AcceptsIfSaid, Accepts
    <3>6. page.report = c.report
      BY <2>1, <3>3 DEF Shown
    <3>7. QED
      BY <3>3, <3>5, <3>6
  <2>6. QED
    BY <2>4, <2>5
<1>2. QED
  BY <1>1, InitRested, NextRested, PTL DEF ExplorerSpec

(***************************************************************************)
(* What a page says was learned can be found: the embedding that similar   *)
(* documents are looked up from exists when the page is shown and stays.   *)
(***************************************************************************)
THEOREM SerializedIsSearchable == ExplorerSpec /\ []Serialized => []LearnedIsSearchable
<1>1. RestedInv => LearnedIsSearchable
  <2> SUFFICES ASSUME RestedInv, page.at = "shown", page.status \in TerminalStatuses,
                      page.audit.learned
               PROVE  embedding[page.doc] # {}
    BY DEF LearnedIsSearchable, Shows
  <2>1. PICK c \in Sound : Rests(page.doc, c) /\ Shown(c)
    BY DEF RestedInv, RestInv
  <2>2. page.audit = AuditOf(c) /\ Learned(page.doc, c)
    BY <2>1 DEF Shown, Rests, Holds
  <2>3. QED
    BY <2>2 DEF Learned
<1>2. QED
  BY <1>1, InitRested, NextRested, PTL DEF ExplorerSpec

(***************************************************************************)
(* Without a second decision on a document, both hold of every page.       *)
(***************************************************************************)
THEOREM OneDecisionIsExplained ==
    ASSUME MaxDecisions \in {0, 1}
    PROVE  ExplorerSpec => [](VerdictIsExplained /\ LearnedIsSearchable)
<1>1. ExplorerSpec => Spec
  <2>1. ExplorerInit => Init
    BY DEF ExplorerInit
  <2>2. [ExplorerNext]_allVars => [Next]_vars
    BY DEF ExplorerNext, allVars
  <2>3. QED
    BY <2>1, <2>2, PTL DEF ExplorerSpec, Spec
<1>2. QED
  BY <1>1, OneDecisionSerializes, SerializedIsExplained, SerializedIsSearchable, PTL
=============================================================================
