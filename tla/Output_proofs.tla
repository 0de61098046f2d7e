---------------------------- MODULE Output_proofs ----------------------------
(***************************************************************************)
(* What write_output publishes, however its calls for one document overlap *)
(* and wherever the process dies: for any documents, threads, crashes,     *)
(* failures and decisions.                                                 *)
(***************************************************************************)
EXTENDS Pipeline_proofs

Records(trail, status) == \E i \in 1..Len(trail) : trail[i].status = status

\* Between Phase A and the status; and past Phase B.
StoredAt == {"embed", "insert", "update", "finish"}
WritingAt == {"object"} \cup StoredAt
USE DEF StoredAt, WritingAt

\* A thread between Phase A and the status has recorded the status it will publish;
\* past Phase B its document has a result object.
Backed(t) ==
    /\ inv[t].at \in WritingAt =>
          Records(audit[Doc(t)], TerminalStatus(Chan(t)))
    /\ inv[t].at \in StoredAt => output[Doc(t)].written

OutputInv == (\A t \in Threads : Backed(t)) /\ PublishedWasRecorded

\* A step that loses no audit row and no object.
KeepsRecords ==
    /\ \A d \in Docs : \A s : Records(audit[d], s) => Records(audit'[d], s)
    /\ \A d \in Docs : output[d].written => output'[d].written

\* A step after which thread t is not further in write_output than it was.
Calm(t) ==
    inv'[t].at \in WritingAt =>
        /\ Doc(t)' = Doc(t) /\ Chan(t)' = Chan(t)
        /\ inv[t].at \in WritingAt
        /\ inv'[t].at # "object" => inv[t].at # "object"

\* A step that publishes nothing.
Silent == \A d \in Docs : row'[d].status \in TerminalStatuses => row'[d].status = row[d].status

-----------------------------------------------------------------------------
LEMMA StoresKept ==
    ASSUME UNCHANGED <<audit, output>>
    PROVE  KeepsRecords
BY DEF KeepsRecords

LEMMA BusyDoc ==
    ASSUME TypeOK, NEW t \in Threads, inv[t].at # "idle"
    PROVE  Doc(t) \in Docs /\ Chan(t) \in Channels /\ inv[t] \in Busy
BY DEF TypeOK, Invocation, Busy, Idle, Doc, Chan

LEMMA CalmBacked ==
    ASSUME TypeOK, OutputInv, KeepsRecords, NEW t \in Threads, Calm(t)
    PROVE  Backed(t)'
<1>1. CASE inv'[t].at \in WritingAt
  <2>1. /\ Doc(t)' = Doc(t) /\ Chan(t)' = Chan(t)
        /\ inv[t].at \in WritingAt
        /\ inv'[t].at # "object" => inv[t].at # "object"
    BY <1>1 DEF Calm
  <2>2. Doc(t) \in Docs
    BY <2>1, BusyDoc
  <2>3. TerminalStatus(Chan(t))' = TerminalStatus(Chan(t))
    BY <2>1 DEF TerminalStatus
  <2>4. Records(audit'[Doc(t)], TerminalStatus(Chan(t)))
    BY <2>1, <2>2 DEF OutputInv, Backed, KeepsRecords
  <2>5. inv'[t].at # "object" => output'[Doc(t)].written
    BY <2>1, <2>2 DEF OutputInv, Backed, KeepsRecords
  <2>6. QED
    BY <2>1, <2>3, <2>4, <2>5 DEF Backed
<1>2. CASE inv'[t].at \notin WritingAt
  BY <1>2 DEF Backed
<1>3. QED
  BY <1>1, <1>2

LEMMA SilentPublished ==
    ASSUME OutputInv, KeepsRecords, Silent
    PROVE  PublishedWasRecorded'
<1> SUFFICES ASSUME NEW d \in Docs, row'[d].status \in TerminalStatuses
             PROVE  Records(audit'[d], row'[d].status) /\ output'[d].written
  BY DEF PublishedWasRecorded, Records
<1>1. row'[d].status = row[d].status
  BY DEF Silent
<1>2. Records(audit[d], row[d].status) /\ output[d].written
  BY <1>1 DEF OutputInv, PublishedWasRecorded, Records
<1>3. QED
  BY <1>1, <1>2 DEF KeepsRecords

LEMMA CalmStep ==
    ASSUME TypeOK, OutputInv, KeepsRecords, Silent, \A t \in Threads : Calm(t)
    PROVE  OutputInv'
BY CalmBacked, SilentPublished DEF OutputInv

\* The ways in which steps change what a thread is at.
LEMMA EntersCalmly ==
    ASSUME TypeOK, NEW t \in Threads, NEW r,
           inv' = [inv EXCEPT ![t] = r], r.at \in {"idle", "stamp"}
    PROVE  \A u \in Threads : Calm(u)
<1> TAKE u \in Threads
<1>1. inv'[u] = IF u = t THEN r ELSE inv[u]
  BY DEF TypeOK
<1>2. QED
  BY <1>1 DEF Calm, Doc, Chan

LEMMA StopsCalmly ==
    ASSUME TypeOK, NEW t \in Threads, Stop(t)
    PROVE  \A u \in Threads : Calm(u)
<1>1. Idle.at = "idle"
  BY DEF Idle
<1>2. QED
  BY <1>1, EntersCalmly DEF Stop

LEMMA MoveParts ==
    ASSUME TypeOK, NEW t \in Threads, NEW p, inv' = [inv EXCEPT ![t].at = p]
    PROVE  \A u \in Threads : /\ Doc(u)' = Doc(u) /\ Chan(u)' = Chan(u)
                              /\ inv'[u].at = IF u = t THEN p ELSE inv[u].at
<1> TAKE u \in Threads
<1>1. inv[u] \in Busy \/ inv[u] = Idle
  BY DEF TypeOK, Invocation
<1>2. inv'[u] = IF u = t THEN [inv[u] EXCEPT !.at = p] ELSE inv[u]
  BY DEF TypeOK
<1>3. QED
  BY <1>1, <1>2 DEF Busy, Idle, Doc, Chan

LEMMA MovesCalmly ==
    ASSUME TypeOK, NEW t \in Threads, NEW p, inv' = [inv EXCEPT ![t].at = p],
           \/ p \in {"run", "saved", "handler"}
           \/ /\ p \in {"insert", "update", "finish"}
              /\ inv[t].at \in {"embed", "insert", "update"}
    PROVE  \A u \in Threads : Calm(u)
<1> TAKE u \in Threads
<1>1. /\ Doc(u)' = Doc(u) /\ Chan(u)' = Chan(u)
      /\ inv'[u].at = IF u = t THEN p ELSE inv[u].at
  BY MoveParts
<1>2. CASE u = t
  BY <1>1, <1>2 DEF Calm
<1>3. CASE u # t
  BY <1>1, <1>3 DEF Calm
<1>4. QED
  BY <1>2, <1>3

LEMMA HandlerSilent ==
    ASSUME TypeOK, NEW d, NEW s, NEW p, s \notin TerminalStatuses,
           row' = [row EXCEPT ![d].status = s, ![d].phase = p]
    PROVE  Silent
<1> SUFFICES ASSUME NEW e \in Docs PROVE row'[e].status \in {row[e].status, s}
  BY DEF Silent
<1>1. row[e] \in Row
  BY DEF TypeOK
<1>2. row'[e] = IF e = d THEN [[row[e] EXCEPT !.status = s] EXCEPT !.phase = p] ELSE row[e]
  BY DEF TypeOK
<1>3. [[row[e] EXCEPT !.status = s] EXCEPT !.phase = p].status = s
  BY <1>1 DEF Row
<1>4. QED
  BY <1>2, <1>3

LEMMA PhaseSilent ==
    ASSUME TypeOK, NEW d, NEW p, row' = [row EXCEPT ![d].phase = p]
    PROVE  Silent
<1> SUFFICES ASSUME NEW e \in Docs PROVE row'[e].status = row[e].status
  BY DEF Silent
<1>1. row[e] \in Row
  BY DEF TypeOK
<1>2. row'[e] = IF e = d THEN [row[e] EXCEPT !.phase = p] ELSE row[e]
  BY DEF TypeOK
<1>3. QED
  BY <1>1, <1>2 DEF Row

-----------------------------------------------------------------------------
(* The four steps of write_output that record, store, or publish *)

LEMMA AuditRecords ==
    ASSUME TypeOK, OutputInv, NEW t \in Threads, PersistAudit(t)
    PROVE  OutputInv'
<1> DEFINE d == Doc(t)
           status == TerminalStatus(Chan(t))
           r == AuditOf(Chan(t))
<1>1. d \in Docs
  BY BusyDoc DEF PersistAudit, In
<1>2. audit' = [audit EXCEPT ![d] = Append(audit[d], r)] /\ output' = output
  BY DEF PersistAudit, Logged
<1>3. r.status = status
  BY DEF AuditOf
<1>4. audit[d] \in Seq(AuditRow)
  BY <1>1 DEF TypeOK
<1> HIDE DEF r
<1>5. /\ audit'[d] = Append(audit[d], r)
      /\ \A e \in Docs : e # d => audit'[e] = audit[e]
  BY <1>1, <1>2 DEF TypeOK
<1>6. /\ Len(audit'[d]) = Len(audit[d]) + 1 /\ Len(audit[d]) \in Nat
      /\ audit'[d][Len(audit[d]) + 1] = r
      /\ \A i \in 1..Len(audit[d]) : audit'[d][i] = audit[d][i]
  BY <1>4, <1>5
<1>7. Records(audit'[d], status)
  <2>1. Len(audit[d]) + 1 \in 1..Len(audit'[d])
    BY <1>6
  <2>2. QED
    BY <1>3, <1>6, <2>1 DEF Records
<1>8. KeepsRecords
  <2>1. ASSUME NEW s, Records(audit[d], s) PROVE Records(audit'[d], s)
    <3>1. PICK i \in 1..Len(audit[d]) : audit[d][i].status = s
      BY <2>1 DEF Records
    <3>2. i \in 1..Len(audit'[d]) /\ audit'[d][i] = audit[d][i]
      BY <1>6
    <3>3. QED
      BY <3>1, <3>2 DEF Records
  <2>2. QED
    BY <1>2, <1>5, <2>1 DEF KeepsRecords
<1>9. Silent
  <2> SUFFICES ASSUME NEW e \in Docs PROVE row'[e].status = row[e].status
    BY DEF Silent
  <2>1. row[e] \in Row
    BY DEF TypeOK
  <2>2. PICK dt, f, u : row' = [row EXCEPT ![d].doc_type = dt, ![d].fields = f,
                                           ![d].universal = u]
    BY DEF PersistAudit
  <2>3. row'[e] = IF e = d
                  THEN [[[row[e] EXCEPT !.doc_type = dt] EXCEPT !.fields = f]
                          EXCEPT !.universal = u]
                  ELSE row[e]
    BY <1>1, <2>2 DEF TypeOK
  <2>4. QED
    BY <2>1, <2>3 DEF Row
<1>10. \A u \in Threads : Backed(u)'
  <2> TAKE u \in Threads
  <2>1. /\ Doc(u)' = Doc(u) /\ Chan(u)' = Chan(u)
        /\ inv'[u].at = IF u = t THEN "object" ELSE inv[u].at
    <3>1. inv' = [inv EXCEPT ![t].at = "object"]
      BY DEF PersistAudit
    <3>2. \A v \in Threads : /\ Doc(v)' = Doc(v) /\ Chan(v)' = Chan(v)
                             /\ inv'[v].at = IF v = t THEN "object" ELSE inv[v].at
      BY <3>1, MoveParts
    <3>3. QED
      BY <3>2
  <2>2. CASE u = t
    <3>1. Doc(u)' = d /\ Chan(u)' = Chan(t) /\ inv'[u].at = "object"
      BY <2>1, <2>2
    <3>2. TerminalStatus(Chan(u))' = status
      BY <3>1 DEF TerminalStatus
    <3>3. QED
      BY <1>7, <3>1, <3>2 DEF Backed
  <2>3. CASE u # t
    <3>0. Doc(u)' = Doc(u) /\ Chan(u)' = Chan(u) /\ inv'[u].at = inv[u].at
      BY <2>1, <2>3
    <3>1. Calm(u)
      BY <3>0 DEF Calm
    <3>2. QED
      BY <1>8, <3>1, CalmBacked
  <2>4. QED
    BY <2>2, <2>3
<1>11. QED
  BY <1>8, <1>9, <1>10, SilentPublished DEF OutputInv

LEMMA ObjectBacks ==
    ASSUME TypeOK, OutputInv, NEW t \in Threads, PersistObject(t)
    PROVE  OutputInv'
<1> DEFINE d == Doc(t)
<1>1. d \in Docs
  BY BusyDoc DEF PersistObject
<1>2. output' = [output EXCEPT ![d] = [written |-> TRUE, universal |-> Chan(t).universal]]
  BY DEF PersistObject
<1>3. output'[d].written /\ \A e \in Docs : e # d => output'[e] = output[e]
  BY <1>1, <1>2 DEF TypeOK
<1>4. audit' = audit /\ row' = row
  BY DEF PersistObject
<1>5. KeepsRecords /\ Silent
  BY <1>3, <1>4 DEF KeepsRecords, Silent
<1>6. \A u \in Threads : Backed(u)'
  <2> TAKE u \in Threads
  <2>0. inv[t].at = "object"
    BY DEF PersistObject
  <2>1. PICK p \in StoredAt :
          /\ Doc(u)' = Doc(u) /\ Chan(u)' = Chan(u)
          /\ inv'[u].at = IF u = t THEN p ELSE inv[u].at
    <3>1. PICK p \in StoredAt : inv' = [inv EXCEPT ![t].at = p]
      BY DEF PersistObject
    <3>2. \A v \in Threads : /\ Doc(v)' = Doc(v) /\ Chan(v)' = Chan(v)
                             /\ inv'[v].at = IF v = t THEN p ELSE inv[v].at
      BY <3>1, MoveParts
    <3>3. QED
      BY <3>2
  <2>2. CASE u = t
    <3>1. Doc(u)' = d /\ Chan(u)' = Chan(t)
      BY <2>1, <2>2
    <3>2. TerminalStatus(Chan(u))' = TerminalStatus(Chan(t))
      BY <3>1 DEF TerminalStatus
    <3>3. Records(audit[d], TerminalStatus(Chan(t)))
      BY <2>0 DEF OutputInv, Backed
    <3>4. QED
      BY <1>3, <1>4, <3>1, <3>2, <3>3 DEF Backed
  <2>3. CASE u # t
    <3>0. Doc(u)' = Doc(u) /\ Chan(u)' = Chan(u) /\ inv'[u].at = inv[u].at
      BY <2>1, <2>3
    <3>1. Calm(u)
      BY <3>0 DEF Calm
    <3>2. QED
      BY <1>5, <3>1, CalmBacked
  <2>4. QED
    BY <2>2, <2>3
<1>7. QED
  BY <1>5, <1>6, SilentPublished DEF OutputInv

LEMMA StatusPublishes ==
    ASSUME TypeOK, OutputInv, NEW t \in Threads, PersistStatus(t)
    PROVE  OutputInv'
<1> DEFINE d == Doc(t)
           s == TerminalStatus(Chan(t))
<1>1. d \in Docs /\ Records(audit[d], s) /\ output[d].written
  BY BusyDoc DEF PersistStatus, OutputInv, Backed
<1>2. UNCHANGED <<audit, output>>
  BY DEF PersistStatus, stores
<1>3. KeepsRecords
  BY <1>2, StoresKept
<1>4. inv' = [inv EXCEPT ![t].at = "saved"]
  BY DEF PersistStatus
<1>5. \A u \in Threads : Backed(u)'
  BY <1>3, <1>4, MovesCalmly, CalmBacked
<1>6. row' = [row EXCEPT ![d].status = s, ![d].phase = s]
  BY DEF PersistStatus
<1> HIDE DEF s
<1>7. ASSUME NEW e \in Docs, row'[e].status \in TerminalStatuses
      PROVE  Records(audit'[e], row'[e].status) /\ output'[e].written
  <2>1. row[e] \in Row
    BY DEF TypeOK
  <2>2. row'[e] = IF e = d THEN [[row[e] EXCEPT !.status = s] EXCEPT !.phase = s]
                           ELSE row[e]
    BY <1>6 DEF TypeOK
  <2>3. row'[e].status = IF e = d THEN s ELSE row[e].status
    BY <2>1, <2>2 DEF Row
  <2>4. CASE e = d
    BY <1>1, <1>2, <2>3, <2>4
  <2>5. CASE e # d
    BY <1>2, <1>7, <2>3, <2>5 DEF OutputInv, PublishedWasRecorded, Records
  <2>6. QED
    BY <2>4, <2>5
<1>8. PublishedWasRecorded'
  BY <1>7 DEF PublishedWasRecorded, Records
<1>9. QED
  BY <1>5, <1>8 DEF OutputInv

-----------------------------------------------------------------------------
LEMMA NodeCalm ==
    ASSUME TypeOK, NEW t \in Threads, Node(t)
    PROVE  UNCHANGED <<row, audit, output>> /\ \A u \in Threads : Calm(u)
<1>1. ASSUME NEW chan, NEW next, Pure(t, chan, next)
      PROVE  UNCHANGED <<row, audit, output>> /\ \A u \in Threads : Calm(u)
  <2> DEFINE r == [doc |-> Doc(t), at |-> "stamp", node |-> next, chan |-> chan,
                   resume |-> NoResume]
  <2>1. inv' = [inv EXCEPT ![t] = r]
    BY <1>1 DEF Pure, Advance, Start
  <2>2. r.at = "stamp"
    OBVIOUS
  <2> HIDE DEF r
  <2>3. QED
    BY <1>1, <2>1, <2>2, EntersCalmly DEF Pure, stores
<1>2. CASE Interrupt(t)
  BY <1>2, StopsCalmly DEF Interrupt, stores
<1>3. CASE Classify(t) \/ Extract(t) \/ OpARetry(t)
  BY <1>1, <1>3 DEF Classify, Extract, OpARetry
<1>4. CASE Master(t) \/ UnknownHandler(t) \/ TruthEngineNode(t) \/ ResolutionPlanner(t)
             \/ StrategyExecutor(t) \/ OpBHitl(t) \/ Normalize(t)
  BY <1>1, <1>4 DEF Master, UnknownHandler, TruthEngineNode, ResolutionPlanner,
                    StrategyExecutor, OpBHitl, Normalize
<1>5. QED
  BY <1>2, <1>3, <1>4 DEF Node

LEMMA InitOutput == Init => OutputInv
<1> SUFFICES ASSUME Init PROVE OutputInv
  OBVIOUS
<1>1. \A t \in Threads : Backed(t)
  BY DEF Init, Idle, Backed
<1>2. \A d \in Docs : row[d].status = "queued"
  BY DEF Init
<1>3. QED
  BY <1>1, <1>2 DEF OutputInv, PublishedWasRecorded, TerminalStatuses

LEMMA NextOutput == TypeOK /\ OutputInv /\ [Next]_vars => OutputInv'
<1> SUFFICES ASSUME TypeOK, OutputInv, [Next]_vars PROVE OutputInv'
  OBVIOUS
<1>1. ASSUME UNCHANGED <<audit, output>>, Silent, \A u \in Threads : Calm(u)
      PROVE  OutputInv'
  BY <1>1, StoresKept, CalmStep
<1>2. row' = row => Silent
  BY DEF Silent
<1>3. ASSUME NEW t \in Threads, NEW d \in Docs, NEW node, NEW chan, NEW resume,
             Start(t, d, node, chan, resume), UNCHANGED <<row, audit, output>>
      PROVE  OutputInv'
  <2> DEFINE r == [doc |-> d, at |-> "stamp", node |-> node, chan |-> chan,
                   resume |-> resume]
  <2>1. inv' = [inv EXCEPT ![t] = r] /\ r.at = "stamp"
    BY <1>3 DEF Start
  <2> HIDE DEF r
  <2>2. QED
    BY <1>1, <1>2, <1>3, <2>1, EntersCalmly
<1>4. ASSUME NEW t \in Threads, NEW d \in Docs, Dispatch(t, d) PROVE OutputInv'
  BY <1>3, <1>4 DEF Dispatch, stores
<1>5. CASE Review
  <2>1. CASE ListPending
    <3>1. \A u \in Threads : Calm(u)
      BY <2>1 DEF ListPending, Calm, Doc, Chan
    <3>2. QED
      BY <1>1, <1>2, <2>1, <3>1 DEF ListPending, stores
  <2>2. ASSUME NEW t \in Threads, NEW d \in Docs, NEW approved \in BOOLEAN,
               NEW c \in Corrections, SubmitDecision(t, d, approved, c)
        PROVE  OutputInv'
    BY <1>3, <2>2 DEF SubmitDecision, stores
  <2>3. QED
    BY <1>5, <2>1, <2>2 DEF Review
<1>6. ASSUME NEW t \in Threads, Work(t) PROVE OutputInv'
  <2>1. CASE StampPhase(t)
    <3>1. Silent
      BY <1>2, <2>1, PhaseSilent DEF StampPhase
    <3>2. inv' = [inv EXCEPT ![t].at = "run"] /\ UNCHANGED <<audit, output>>
      BY <2>1 DEF StampPhase, stores
    <3>3. QED
      BY <1>1, <3>1, <3>2, MovesCalmly
  <2>2. CASE Node(t)
    BY <1>1, <1>2, <2>2, NodeCalm
  <2>3. CASE PersistAudit(t)
    BY <2>3, AuditRecords
  <2>4. CASE PersistObject(t)
    BY <2>4, ObjectBacks
  <2>5. CASE QueryEmbedding(t) \/ InsertEmbedding(t) \/ UpdateEmbedding(t)
    <3>1. UNCHANGED <<row, audit, output>>
      BY <2>5 DEF QueryEmbedding, InsertEmbedding, UpdateEmbedding, stores
    <3>2. inv[t].at \in {"embed", "insert", "update"}
      BY <2>5 DEF QueryEmbedding, InsertEmbedding, UpdateEmbedding
    <3>3. PICK p \in {"insert", "update", "finish"} : inv' = [inv EXCEPT ![t].at = p]
      BY <2>5 DEF QueryEmbedding, InsertEmbedding, UpdateEmbedding
    <3>4. \A u \in Threads : Calm(u)
      BY <3>2, <3>3, MovesCalmly
    <3>5. QED
      BY <1>1, <1>2, <3>1, <3>4
  <2>6. CASE PersistStatus(t)
    BY <2>6, StatusPublishes
  <2>7. CASE PersistReturn(t)
    BY <1>1, <1>2, <2>7, StopsCalmly DEF PersistReturn, stores
  <2>8. CASE PersistFailed(t)
    <3>1. "persist_failed" \notin TerminalStatuses
      BY DEF TerminalStatuses
    <3>2. Silent
      BY <1>2, <2>8, <3>1, HandlerSilent DEF PersistFailed
    <3>3. QED
      BY <1>1, <2>8, <3>2, StopsCalmly DEF PersistFailed, stores
  <2>9. QED
    BY <1>6, <2>1, <2>2, <2>3, <2>4, <2>5, <2>6, <2>7, <2>8 DEF Work, Persist
<1>7. CASE Failure
  <2>1. CASE CrashAndRecover
    <3>1. \A u \in Threads : inv'[u].at = "idle"
      BY <2>1 DEF CrashAndRecover, Idle
    <3>2. \A u \in Threads : Calm(u)
      BY <3>1 DEF Calm
    <3>3. QED
      BY <1>1, <1>2, <2>1, <3>2 DEF CrashAndRecover, stores
  <2>2. ASSUME NEW t \in Threads, PersistRaises(t) PROVE OutputInv'
    BY <1>1, <1>2, <2>2, MovesCalmly DEF PersistRaises, stores
  <2>3. ASSUME NEW t \in Threads, InvocationRaises(t) PROVE OutputInv'
    BY <1>1, <1>2, <2>3, StopsCalmly DEF InvocationRaises, stores
  <2>4. QED
    BY <1>7, <2>1, <2>2, <2>3 DEF Failure
<1>8. CASE UNCHANGED vars
  <2>1. \A u \in Threads : Calm(u)
    BY <1>8 DEF vars, Calm, Doc, Chan
  <2>2. QED
    BY <1>1, <1>2, <1>8, <2>1 DEF vars, stores
<1>9. QED
  BY <1>4, <1>5, <1>6, <1>7, <1>8 DEF Next

(***************************************************************************)
(* However the invocations of one document overlap, fail and are repeated, *)
(* a published status is one the audit trail records, and there is a       *)
(* result object to read.                                                  *)
(***************************************************************************)
THEOREM PublishedIsRecorded == Spec => []PublishedWasRecorded
<1>1. OutputInv => PublishedWasRecorded
  BY DEF OutputInv
<1>2. QED
  BY <1>1, InitType, NextType, InitOutput, NextOutput, PTL DEF Spec

-----------------------------------------------------------------------------
(* What is embedded *)

EmbeddingAt == {"embed", "insert", "update"}
USE DEF EmbeddingAt

Place(t) == inv[t].node

Verified(e) ==
    e.type \in DocTypes => /\ Failed(e.type, e.fields) = {}
                           /\ Coverage(e.type, e.fields) >= CoverageThreshold

\* A thread inside write_output holds what normalization gave it, and embeds only
\* what the learning policy allowed.
Prepared(t) ==
    /\ inv[t].at \in WritingAt => Place(t) = "persist"
    /\ inv[t].at \in EmbeddingAt => Learns(Chan(t))

EmbedInv == (\A t \in Threads : Prepared(t)) /\ EmbeddingVerified

\* A step after which thread t is not further in write_output than it was.
Quiet(t) ==
    inv'[t].at \in WritingAt =>
        /\ Place(t)' = Place(t) /\ Chan(t)' = Chan(t)
        /\ inv[t].at \in WritingAt
        /\ inv'[t].at \in EmbeddingAt => inv[t].at \in EmbeddingAt

LEMMA QuietPrepared ==
    ASSUME NEW t \in Threads, Prepared(t), Quiet(t)
    PROVE  Prepared(t)'
<1>1. CASE inv'[t].at \in WritingAt
  BY <1>1 DEF Prepared, Quiet, Chan, Learns, HasEvidence
<1>2. CASE inv'[t].at \notin WritingAt
  BY <1>2 DEF Prepared
<1>3. QED
  BY <1>1, <1>2

LEMMA QuietStep ==
    ASSUME EmbedInv, embedding' = embedding, \A t \in Threads : Quiet(t)
    PROVE  EmbedInv'
<1>1. \A t \in Threads : Prepared(t)'
  BY QuietPrepared DEF EmbedInv
<1>2. EmbeddingVerified'
  BY DEF EmbedInv, EmbeddingVerified
<1>3. QED
  BY <1>1, <1>2 DEF EmbedInv

LEMMA EntersQuietly ==
    ASSUME TypeOK, NEW t \in Threads, NEW r,
           inv' = [inv EXCEPT ![t] = r], r.at \in {"idle", "stamp"}
    PROVE  \A u \in Threads : Quiet(u)
<1> TAKE u \in Threads
<1>1. inv'[u] = IF u = t THEN r ELSE inv[u]
  BY DEF TypeOK
<1>2. QED
  BY <1>1 DEF Quiet, Place, Chan

LEMMA StopsQuietly ==
    ASSUME TypeOK, NEW t \in Threads, Stop(t)
    PROVE  \A u \in Threads : Quiet(u)
<1>1. Idle.at = "idle"
  BY DEF Idle
<1>2. QED
  BY <1>1, EntersQuietly DEF Stop

LEMMA WholeMove ==
    ASSUME TypeOK, NEW t \in Threads, NEW p, inv' = [inv EXCEPT ![t].at = p]
    PROVE  \A u \in Threads : /\ Place(u)' = Place(u) /\ Chan(u)' = Chan(u)
                              /\ inv'[u].at = IF u = t THEN p ELSE inv[u].at
<1> TAKE u \in Threads
<1>1. inv[u] \in Busy \/ inv[u] = Idle
  BY DEF TypeOK, Invocation
<1>2. inv'[u] = IF u = t THEN [inv[u] EXCEPT !.at = p] ELSE inv[u]
  BY DEF TypeOK
<1>3. QED
  BY <1>1, <1>2 DEF Busy, Idle, Place, Chan

LEMMA MovesQuietly ==
    ASSUME TypeOK, NEW t \in Threads, NEW p, inv' = [inv EXCEPT ![t].at = p],
           \/ p \in {"run", "saved", "handler"}
           \/ /\ p \in {"insert", "update", "finish"}
              /\ inv[t].at \in EmbeddingAt
    PROVE  \A u \in Threads : Quiet(u)
<1> TAKE u \in Threads
<1>1. /\ Place(u)' = Place(u) /\ Chan(u)' = Chan(u)
      /\ inv'[u].at = IF u = t THEN p ELSE inv[u].at
  BY WholeMove
<1>2. CASE u = t
  BY <1>1, <1>2 DEF Quiet
<1>3. CASE u # t
  BY <1>1, <1>3 DEF Quiet
<1>4. QED
  BY <1>2, <1>3

\* What the learning policy allows was accepted, hence verified and covered.
LEMMA EmbeddedVerified ==
    ASSUME TypeOK, GoodViews, EmbedInv, NEW t \in Threads, inv[t].at \in EmbeddingAt
    PROVE  Verified(Embedded(t))
<1> DEFINE c == Chan(t)
<1> SUFFICES ASSUME c.doc_type \in DocTypes
             PROVE  /\ Failed(c.doc_type, c.fields) = {}
                    /\ Coverage(c.doc_type, c.fields) >= CoverageThreshold
  BY DEF Verified, Embedded
<1>1. Place(t) = "persist" /\ Learns(c)
  BY DEF EmbedInv, Prepared
<1>2. GoodView("persist", c)
  BY <1>1 DEF GoodViews, Chan, Place
<1>3. c.report = Evaluate(c) /\ AcceptsIfSaid(c)
  BY <1>2, PipelineAssumption DEF GoodView
<1>4. Accepts(c.report)
  BY <1>1, <1>3 DEF Learns, AllowLearning, AcceptsIfSaid
<1>5. /\ c.report.failed = Failed(c.doc_type, c.fields)
      /\ c.report.coverage = Coverage(c.doc_type, c.fields)
  BY <1>3 DEF Evaluate, BuildReport
<1>6. QED
  BY <1>4, <1>5 DEF Accepts

LEMMA AuditPrepares ==
    ASSUME TypeOK, EmbedInv, NEW t \in Threads, PersistAudit(t)
    PROVE  EmbedInv'
<1>1. inv' = [inv EXCEPT ![t].at = "object"] /\ embedding' = embedding
  BY DEF PersistAudit
<1>2. Place(t) = "persist"
  BY DEF PersistAudit, In, Place
<1>3. \A u \in Threads : Prepared(u)'
  <2> TAKE u \in Threads
  <2>1. /\ Place(u)' = Place(u) /\ Chan(u)' = Chan(u)
        /\ inv'[u].at = IF u = t THEN "object" ELSE inv[u].at
    <3>1. \A v \in Threads : /\ Place(v)' = Place(v) /\ Chan(v)' = Chan(v)
                             /\ inv'[v].at = IF v = t THEN "object" ELSE inv[v].at
      BY <1>1, WholeMove
    <3>2. QED
      BY <3>1
  <2>2. CASE u = t
    BY <1>2, <2>1, <2>2 DEF Prepared
  <2>3. CASE u # t
    <3>1. Quiet(u)
      BY <2>1, <2>3 DEF Quiet
    <3>2. QED
      BY <3>1, QuietPrepared DEF EmbedInv
  <2>4. QED
    BY <2>2, <2>3
<1>4. QED
  BY <1>1, <1>3 DEF EmbedInv, EmbeddingVerified

LEMMA ObjectPrepares ==
    ASSUME TypeOK, EmbedInv, NEW t \in Threads, PersistObject(t)
    PROVE  EmbedInv'
<1>1. PICK p \in {"embed", "finish"} :
          inv' = [inv EXCEPT ![t].at = p] /\ (p = "embed" => Learns(Chan(t)))
  BY DEF PersistObject
<1>2. embedding' = embedding /\ inv[t].at = "object"
  BY DEF PersistObject
<1>3. \A u \in Threads : Prepared(u)'
  <2> TAKE u \in Threads
  <2>1. /\ Place(u)' = Place(u) /\ Chan(u)' = Chan(u)
        /\ inv'[u].at = IF u = t THEN p ELSE inv[u].at
    <3>1. inv' = [inv EXCEPT ![t].at = p]
      BY <1>1, Zenon
    <3>2. \A v \in Threads : /\ Place(v)' = Place(v) /\ Chan(v)' = Chan(v)
                             /\ inv'[v].at = IF v = t THEN p ELSE inv[v].at
      BY <3>1, WholeMove
    <3>3. QED
      BY <3>2
  <2>2. CASE u = t
    <3>1. Place(t) = "persist"
      BY <1>2 DEF EmbedInv, Prepared
    <3>6. Place(u)' = "persist"
      BY <2>1, <2>2, <3>1
    <3>2. inv'[u].at \in EmbeddingAt => Learns(Chan(t))
      BY <1>1, <2>1, <2>2 DEF EmbeddingAt
    <3>3. Chan(u)' = Chan(t)
      BY <2>1, <2>2 DEF Chan
    <3>4. Learns(Chan(u))' = Learns(Chan(t))
      BY <3>3 DEF Learns, HasEvidence
    <3>5. QED
      BY <3>2, <3>4, <3>6 DEF Prepared
  <2>3. CASE u # t
    <3>1. Quiet(u)
      BY <2>1, <2>3 DEF Quiet
    <3>2. QED
      BY <3>1, QuietPrepared DEF EmbedInv
  <2>4. QED
    BY <2>2, <2>3
<1>4. QED
  BY <1>2, <1>3 DEF EmbedInv, EmbeddingVerified

LEMMA UpsertKeepsVerified ==
    ASSUME TypeOK, GoodViews, EmbedInv, NEW t \in Threads,
           QueryEmbedding(t) \/ InsertEmbedding(t) \/ UpdateEmbedding(t)
    PROVE  EmbedInv'
<1>1. inv[t].at \in EmbeddingAt
  BY DEF QueryEmbedding, InsertEmbedding, UpdateEmbedding
<1>2. PICK p \in {"insert", "update", "finish"} : inv' = [inv EXCEPT ![t].at = p]
  BY DEF QueryEmbedding, InsertEmbedding, UpdateEmbedding
<1>3. \A u \in Threads : Prepared(u)'
  BY <1>1, <1>2, MovesQuietly, QuietPrepared DEF EmbedInv
<1>4. ASSUME NEW d \in Docs, NEW e \in embedding'[d] PROVE Verified(e)
  <2>1. e \in embedding[d] \/ e = Embedded(t)
    <3>1. CASE UNCHANGED embedding
      BY <1>4, <3>1
    <3>2. CASE embedding' = [embedding EXCEPT ![Doc(t)] = @ \cup {Embedded(t)}]
      BY <1>4, <3>2 DEF TypeOK
    <3>3. ASSUME NEW old,
                 embedding' = [embedding EXCEPT ![Doc(t)] = (@ \ {old}) \cup {Embedded(t)}]
          PROVE  e \in embedding[d] \/ e = Embedded(t)
      BY <1>4, <3>3 DEF TypeOK
    <3>4. QED
      BY <3>1, <3>2, <3>3 DEF QueryEmbedding, InsertEmbedding, UpdateEmbedding, stores
  <2>2. CASE e \in embedding[d]
    BY <2>2 DEF EmbedInv, EmbeddingVerified, Verified
  <2>3. CASE e = Embedded(t)
    BY <1>1, <2>3, EmbeddedVerified
  <2>4. QED
    BY <2>1, <2>2, <2>3
<1>5. EmbeddingVerified'
  BY <1>4 DEF EmbeddingVerified, Verified
<1>6. QED
  BY <1>3, <1>5 DEF EmbedInv

LEMMA NodeQuiet ==
    ASSUME TypeOK, NEW t \in Threads, Node(t)
    PROVE  embedding' = embedding /\ \A u \in Threads : Quiet(u)
<1>1. ASSUME NEW chan, NEW next, Pure(t, chan, next)
      PROVE  embedding' = embedding /\ \A u \in Threads : Quiet(u)
  <2> DEFINE r == [doc |-> Doc(t), at |-> "stamp", node |-> next, chan |-> chan,
                   resume |-> NoResume]
  <2>1. inv' = [inv EXCEPT ![t] = r]
    BY <1>1 DEF Pure, Advance, Start
  <2>2. r.at = "stamp"
    OBVIOUS
  <2> HIDE DEF r
  <2>3. QED
    BY <1>1, <2>1, <2>2, EntersQuietly DEF Pure, stores
<1>2. CASE Interrupt(t)
  BY <1>2, StopsQuietly DEF Interrupt, stores
<1>3. CASE Classify(t) \/ Extract(t) \/ OpARetry(t)
  BY <1>1, <1>3 DEF Classify, Extract, OpARetry
<1>4. CASE Master(t) \/ UnknownHandler(t) \/ TruthEngineNode(t) \/ ResolutionPlanner(t)
             \/ StrategyExecutor(t) \/ OpBHitl(t) \/ Normalize(t)
  BY <1>1, <1>4 DEF Master, UnknownHandler, TruthEngineNode, ResolutionPlanner,
                    StrategyExecutor, OpBHitl, Normalize
<1>5. QED
  BY <1>2, <1>3, <1>4 DEF Node

LEMMA InitEmbed == Init => EmbedInv
BY DEF Init, Idle, EmbedInv, Prepared, EmbeddingVerified

LEMMA NextEmbed == TypeOK /\ GoodViews /\ EmbedInv /\ [Next]_vars => EmbedInv'
<1> SUFFICES ASSUME TypeOK, GoodViews, EmbedInv, [Next]_vars PROVE EmbedInv'
  OBVIOUS
<1>1. ASSUME NEW t \in Threads, NEW d \in Docs, NEW node, NEW chan, NEW resume,
             Start(t, d, node, chan, resume), embedding' = embedding
      PROVE  EmbedInv'
  <2> DEFINE r == [doc |-> d, at |-> "stamp", node |-> node, chan |-> chan,
                   resume |-> resume]
  <2>1. inv' = [inv EXCEPT ![t] = r] /\ r.at = "stamp"
    BY <1>1 DEF Start
  <2> HIDE DEF r
  <2>2. QED
    BY <1>1, <2>1, EntersQuietly, QuietStep
<1>2. ASSUME NEW t \in Threads, NEW d \in Docs, Dispatch(t, d) PROVE EmbedInv'
  BY <1>1, <1>2 DEF Dispatch, stores
<1>3. CASE Review
  <2>1. CASE ListPending
    <3>1. \A u \in Threads : Quiet(u)
      BY <2>1 DEF ListPending, Quiet, Place, Chan
    <3>2. QED
      BY <2>1, <3>1, QuietStep DEF ListPending, stores
  <2>2. ASSUME NEW t \in Threads, NEW d \in Docs, NEW approved \in BOOLEAN,
               NEW c \in Corrections, SubmitDecision(t, d, approved, c)
        PROVE  EmbedInv'
    BY <1>1, <2>2 DEF SubmitDecision, stores
  <2>3. QED
    BY <1>3, <2>1, <2>2 DEF Review
<1>4. ASSUME NEW t \in Threads, Work(t) PROVE EmbedInv'
  <2>1. CASE StampPhase(t)
    BY <2>1, MovesQuietly, QuietStep DEF StampPhase, stores
  <2>2. CASE Node(t)
    BY <2>2, NodeQuiet, QuietStep
  <2>3. CASE PersistAudit(t)
    BY <2>3, AuditPrepares
  <2>4. CASE PersistObject(t)
    BY <2>4, ObjectPrepares
  <2>5. CASE QueryEmbedding(t) \/ InsertEmbedding(t) \/ UpdateEmbedding(t)
    BY <2>5, UpsertKeepsVerified
  <2>6. CASE PersistStatus(t)
    BY <2>6, MovesQuietly, QuietStep DEF PersistStatus, stores
  <2>7. CASE PersistReturn(t) \/ PersistFailed(t)
    BY <2>7, StopsQuietly, QuietStep DEF PersistReturn, PersistFailed, stores
  <2>8. QED
    BY <1>4, <2>1, <2>2, <2>3, <2>4, <2>5, <2>6, <2>7 DEF Work, Persist
<1>5. CASE Failure
  <2>1. CASE CrashAndRecover
    <3>1. \A u \in Threads : inv'[u].at = "idle"
      BY <2>1 DEF CrashAndRecover, Idle
    <3>2. \A u \in Threads : Quiet(u)
      BY <3>1 DEF Quiet
    <3>3. QED
      BY <2>1, <3>2, QuietStep DEF CrashAndRecover, stores
  <2>2. ASSUME NEW t \in Threads, PersistRaises(t) PROVE EmbedInv'
    BY <2>2, MovesQuietly, QuietStep DEF PersistRaises, stores
  <2>3. ASSUME NEW t \in Threads, InvocationRaises(t) PROVE EmbedInv'
    BY <2>3, StopsQuietly, QuietStep DEF InvocationRaises, stores
  <2>4. QED
    BY <1>5, <2>1, <2>2, <2>3 DEF Failure
<1>6. CASE UNCHANGED vars
  <2>1. \A u \in Threads : Quiet(u)
    BY <1>6 DEF vars, Quiet, Place, Chan
  <2>2. QED
    BY <1>6, <2>1, QuietStep DEF vars
<1>7. QED
  BY <1>2, <1>3, <1>4, <1>5, <1>6 DEF Next

(***************************************************************************)
(* Whatever was embedded as a document of a type with a schema fails none  *)
(* of its verifiers and covers its required fields up to the threshold,    *)
(* for any number of threads, decisions, corrections, crashes and failures.*)
(***************************************************************************)
THEOREM EmbeddedIsVerified == Spec => []EmbeddingVerified
<1>1. EmbedInv => EmbeddingVerified
  BY DEF EmbedInv
<1>2. QED
  BY <1>1, InitType, NextType, ViewsAreGood, InitEmbed, NextEmbed, PTL DEF Spec
=============================================================================
