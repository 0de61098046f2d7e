----------------------------- MODULE Serial_proofs -----------------------------
(***************************************************************************)
(* What is true of a document while its invocations do not meet: its       *)
(* result is durable, write_output implements the abstract life of a       *)
(* document, a rejection is final; and one decision per document is enough *)
(* for them not to meet.  For any documents, threads, crashes and failures.*)
(***************************************************************************)
EXTENDS PipelineClaims, Output_proofs

USE DEF StoredAt, WritingAt

\* What Phases A, B and C leave of channels c, in the row and the audit trail, in
\* the object store, and in the embeddings.
Filed(d, c) ==
    /\ row[d].fields = c.fields /\ row[d].universal = c.universal
    /\ c.doc_type # NoType => row[d].doc_type = c.doc_type
    /\ audit[d] # <<>> /\ audit[d][Len(audit[d])] = AuditOf(c)

Kept(d, c) == output[d] = [written |-> TRUE, universal |-> c.universal]

Learned(d, c) ==
    AuditOf(c).learned => /\ embedding[d] # {}
                          /\ \A e \in embedding[d] : e.fields = c.fields

Holds(d, c) == Filed(d, c) /\ Kept(d, c) /\ Learned(d, c)

\* A thread at work holds what its document's checkpoint holds; inside write_output
\* each phase it has passed is still true.
InStep(t) ==
    /\ ckpt[Doc(t)] = [next |-> inv[t].node, chan |-> inv[t].chan]
    /\ inv[t].at \notin {"stamp", "run"} => inv[t].node = "persist"
    /\ inv[t].at \in WritingAt => Filed(Doc(t), Chan(t))
    /\ inv[t].at \in StoredAt => Kept(Doc(t), Chan(t))
    /\ inv[t].at = "insert" => embedding[Doc(t)] = {}
    /\ inv[t].at = "finish" => Learned(Doc(t), Chan(t))

\* Channels that write_output may be given.
Sound == {c \in Channels : GoodView("persist", c)}

\* A document that was decided is only ever persisted again, from the channels its
\* result was made of.
DecidedInv(d) ==
    /\ row[d].status # "queued" => d \notin tasks /\ ckpt[d].next \in {"persist", "end"}
    /\ row[d].status \in TerminalStatuses =>
          /\ Holds(d, ckpt[d].chan)
          /\ row[d].status = TerminalStatus(ckpt[d].chan)
          /\ ckpt[d].chan \in Sound
    /\ \A e1, e2 \in embedding[d] : e1 = e2

SerialInv == /\ \A t \in Threads : Active(t) => InStep(t)
             /\ \A d \in Docs : DecidedInv(d)

-----------------------------------------------------------------------------
\* A step that leaves document d what it was, but for its phase.
Same(d) ==
    /\ row'[d].status = row[d].status /\ row'[d].doc_type = row[d].doc_type
    /\ row'[d].fields = row[d].fields /\ row'[d].universal = row[d].universal
    /\ ckpt'[d] = ckpt[d]
    /\ audit'[d] = audit[d] /\ output'[d] = output[d] /\ embedding'[d] = embedding[d]
    /\ d \in tasks' => d \in tasks \/ row[d].status = "queued"

LEMMA SameDecided ==
    ASSUME NEW d \in Docs, Same(d), DecidedInv(d)
    PROVE  DecidedInv(d)'
BY DEF Same, DecidedInv, Holds, Filed, Kept, Learned

LEMMA SameInStep ==
    ASSUME NEW t \in Threads, Same(Doc(t)), InStep(t), inv'[t] = inv[t]
    PROVE  InStep(t)'
BY DEF Same, InStep, Filed, Kept, Learned, Doc, Chan

LEMMA StillActive ==
    ASSUME NEW t \in Threads, inv'[t] = inv[t]
    PROVE  Active(t)' <=> Active(t)
BY DEF Active, Free, In

LEMMA SerialStep ==
    ASSUME SerialInv,
           \A d \in Docs : Same(d) \/ DecidedInv(d)',
           \A t \in Threads : Active(t)' =>
               InStep(t)' \/ (inv'[t] = inv[t] /\ Same(Doc(t)))
    PROVE  SerialInv'
<1>1. \A d \in Docs : DecidedInv(d)'
  BY SameDecided DEF SerialInv
<1>2. \A t \in Threads : Active(t)' => InStep(t)'
  BY SameInStep, StillActive DEF SerialInv
<1>3. QED
  BY <1>1, <1>2 DEF SerialInv

\* A step that only moves threads or stops them.
LEMMA AllSame ==
    ASSUME TypeOK, SerialInv, \A d \in Docs : Same(d),
           \A t \in Threads : Active(t)' => inv'[t] = inv[t] \/ InStep(t)'
    PROVE  SerialInv'
<1>1. \A t \in Threads : Active(t)' => InStep(t)' \/ (inv'[t] = inv[t] /\ Same(Doc(t)))
  <2> SUFFICES ASSUME NEW t \in Threads, Active(t)', inv'[t] = inv[t]
               PROVE  Same(Doc(t))
    OBVIOUS
  <2>1. inv[t].at # "idle"
    BY StillActive DEF Active, Free
  <2>2. QED
    BY <2>1, BusyDoc
<1>2. QED
  BY <1>1, SerialStep

\* A step of one thread at work on document d, which no other is working on.
LEMMA OneThread ==
    ASSUME TypeOK, SerialInv, NEW t \in Threads, NEW d \in Docs,
           \A u \in Threads : u # t => inv'[u] = inv[u],
           \A u \in Threads : u # t /\ Active(u) => Doc(u) # d,
           \A e \in Docs : e # d => Same(e),
           DecidedInv(d)', Active(t)' => InStep(t)'
    PROVE  SerialInv'
<1>1. ASSUME NEW u \in Threads, Active(u)', u # t
      PROVE  inv'[u] = inv[u] /\ Same(Doc(u))
  <2>1. inv'[u] = inv[u] /\ Active(u)
    BY <1>1, StillActive
  <2>2. inv[u].at # "idle" /\ Doc(u) # d
    BY <1>1, <2>1 DEF Active, Free
  <2>3. QED
    BY <2>1, <2>2, BusyDoc
<1>2. QED
  BY <1>1, SerialStep

-----------------------------------------------------------------------------
(* The steps before write_output *)

LEMMA OthersKept ==
    ASSUME TypeOK, NEW t \in Threads, NEW r, inv' = [inv EXCEPT ![t] = r]
    PROVE  inv'[t] = r /\ \A u \in Threads : u # t => inv'[u] = inv[u]
BY DEF TypeOK

LEMMA StartParts ==
    ASSUME TypeOK, NEW t \in Threads, NEW d, NEW node, NEW chan, NEW resume,
           Start(t, d, node, chan, resume)
    PROVE  /\ inv'[t].doc = d /\ inv'[t].at = "stamp" /\ inv'[t].node = node
           /\ inv'[t].chan = chan /\ inv'[t].resume = resume
           /\ \A u \in Threads : u # t => inv'[u] = inv[u]
BY DEF Start, TypeOK

\* A thread that begins, or goes on to, another node.
LEMMA EntersInStep ==
    ASSUME TypeOK, SerialInv, NEW t \in Threads, NEW d \in Docs, NEW node, NEW chan,
           NEW resume, Start(t, d, node, chan, resume),
           ckpt' = [ckpt EXCEPT ![d] = [next |-> node, chan |-> chan]],
           UNCHANGED <<row, audit, output, embedding>>,
           tasks' \subseteq tasks, row[d].status = "queued",
           \A u \in Threads : u # t /\ Active(u) => Doc(u) # d
    PROVE  SerialInv'
<1>1. /\ inv'[t].doc = d /\ inv'[t].at = "stamp" /\ inv'[t].node = node
      /\ inv'[t].chan = chan
      /\ \A u \in Threads : u # t => inv'[u] = inv[u]
  BY StartParts
<1>2. ckpt'[d] = [next |-> node, chan |-> chan] /\ \A e \in Docs : e # d => ckpt'[e] = ckpt[e]
  BY DEF TypeOK
<1>3. InStep(t)'
  BY <1>1, <1>2 DEF InStep, Doc, Chan
<1>4. DecidedInv(d)'
  BY <1>2 DEF DecidedInv, SerialInv, TerminalStatuses
<1>5. \A e \in Docs : e # d => Same(e)
  BY <1>2 DEF Same
<1>6. QED
  BY <1>1, <1>3, <1>4, <1>5, OneThread

LEMMA ActiveAlone ==
    ASSUME Serialized, NEW t \in Threads, Active(t)
    PROVE  Doc(t) \notin tasks /\ \A u \in Threads : u # t /\ Active(u) => Doc(u) # Doc(t)
BY DEF Serialized

LEMMA DispatchInStep ==
    ASSUME TypeOK, Serialized', SerialInv, NEW t \in Threads, NEW d \in Docs, Dispatch(t, d)
    PROVE  SerialInv'
<1> DEFINE chan == Restarted(ckpt[d].chan)
<1>1. Start(t, d, "master", chan, NoResume)
  BY DEF Dispatch
<1>2. ckpt' = [ckpt EXCEPT ![d] = [next |-> "master", chan |-> chan]]
  BY DEF Dispatch, TypeOK
<1>3. row[d].status = "queued"
  BY DEF Dispatch, SerialInv, DecidedInv
<1>4. UNCHANGED <<row, audit, output, embedding>> /\ tasks' \subseteq tasks
  BY DEF Dispatch, stores
<1> HIDE DEF chan
<1>5. \A u \in Threads : u # t /\ Active(u) => Doc(u) # d
  <2>1. inv'[t].at = "stamp" /\ inv'[t].doc = d /\ \A u \in Threads : u # t => inv'[u] = inv[u]
    BY <1>1, StartParts
  <2>2. Active(t)' /\ Doc(t)' = d
    BY <2>1 DEF Active, Free, In, Doc
  <2>3. ASSUME NEW u \in Threads, u # t, Active(u) PROVE Active(u)' /\ Doc(u)' = Doc(u)
    BY <2>1, <2>3, StillActive DEF Doc
  <2>4. QED
    BY <2>2, <2>3 DEF Serialized
<1>6. QED
  BY <1>1, <1>2, <1>3, <1>4, <1>5, EntersInStep

LEMMA SubmitInStep ==
    ASSUME TypeOK, SerialInv, NEW t \in Threads, NEW d \in Docs, NEW approved, NEW c,
           SubmitDecision(t, d, approved, c)
    PROVE  SerialInv'
<1>1. \A e \in Docs : Same(e)
  BY DEF SubmitDecision, Same, stores
<1>2. /\ inv'[t].at = "stamp" /\ inv'[t].doc = d
      /\ inv'[t].node = ckpt[d].next /\ inv'[t].chan = ckpt[d].chan
      /\ \A u \in Threads : u # t => inv'[u] = inv[u]
  <2>1. PICK node, chan, resume :
            /\ Start(t, d, node, chan, resume)
            /\ node = ckpt[d].next /\ chan = ckpt[d].chan
    BY DEF SubmitDecision
  <2>2. QED
    BY <2>1, StartParts
<1>3. ckpt'[d] = [next |-> ckpt[d].next, chan |-> ckpt[d].chan]
  BY DEF SubmitDecision, TypeOK
<1>4. InStep(t)'
  BY <1>2, <1>3 DEF InStep, Doc, Chan
<1>5. QED
  BY <1>1, <1>2, <1>4, AllSame

LEMMA StampKeepsRow ==
    ASSUME TypeOK, NEW t \in Threads, StampPhase(t), NEW d \in Docs
    PROVE  /\ row'[d].status = row[d].status /\ row'[d].doc_type = row[d].doc_type
           /\ row'[d].fields = row[d].fields /\ row'[d].universal = row[d].universal
<1>1. row[d] \in Row
  BY DEF TypeOK
<1>2. PICK p : row' = row \/ row' = [row EXCEPT ![Doc(t)].phase = p]
  BY DEF StampPhase
<1>3. row'[d] = row[d] \/ row'[d] = [row[d] EXCEPT !.phase = p]
  BY <1>2 DEF TypeOK
<1>4. QED
  BY <1>1, <1>3 DEF Row

LEMMA StampInStep ==
    ASSUME TypeOK, Serialized, SerialInv, NEW t \in Threads, StampPhase(t)
    PROVE  SerialInv'
<1>0. inv[t].at = "stamp"
  BY DEF StampPhase
<1>1. inv' = [inv EXCEPT ![t].at = "run"]
  BY DEF StampPhase
<1>2. \A u \in Threads : /\ Doc(u)' = Doc(u) /\ Chan(u)' = Chan(u)
                         /\ inv'[u].at = IF u = t THEN "run" ELSE inv[u].at
  BY <1>1, MoveParts
<1>3. inv'[t].node = inv[t].node
  BY <1>1, WholeMove DEF Place
<1>4. \A d \in Docs : Same(d)
  BY StampKeepsRow DEF StampPhase, Same, stores
<1>5. Active(t) /\ InStep(t)
  BY <1>0 DEF Active, Free, In, SerialInv
<1>6. InStep(t)'
  <2>1. ckpt' = ckpt
    BY DEF StampPhase
  <2>2. inv'[t].doc = inv[t].doc /\ inv'[t].chan = inv[t].chan /\ inv'[t].at = "run"
    BY <1>2 DEF Doc, Chan
  <2>3. QED
    BY <1>3, <1>5, <2>1, <2>2 DEF InStep, Doc, Chan
<1>7. \A u \in Threads : u # t => inv'[u] = inv[u]
  BY <1>1 DEF TypeOK
<1>8. QED
  BY <1>4, <1>6, <1>7, AllSame

LEMMA PureInStep ==
    ASSUME TypeOK, Serialized, SerialInv, NEW t \in Threads, NEW chan, NEW next,
           Active(t), inv[t].node # "persist", inv[t].node \in Nodes, Pure(t, chan, next)
    PROVE  SerialInv'
<1>1. Doc(t) \in Docs
  BY BusyDoc DEF Active, Free
<1>2. ckpt[Doc(t)].next = inv[t].node
  <2>1. InStep(t)
    BY DEF SerialInv
  <2>2. QED
    BY <2>1 DEF InStep
<1>3. row[Doc(t)].status = "queued"
  BY <1>1, <1>2 DEF SerialInv, DecidedInv, Nodes
<1>4. Start(t, Doc(t), next, chan, NoResume)
  BY DEF Pure, Advance
<1>5. ckpt' = [ckpt EXCEPT ![Doc(t)] = [next |-> next, chan |-> chan]]
  BY DEF Pure, Advance
<1>6. UNCHANGED <<row, audit, output, embedding>> /\ tasks' \subseteq tasks
  BY DEF Pure, stores
<1>7. \A u \in Threads : u # t /\ Active(u) => Doc(u) # Doc(t)
  BY ActiveAlone
<1>8. QED
  BY <1>1, <1>3, <1>4, <1>5, <1>6, <1>7, EntersInStep

LEMMA StopSame ==
    ASSUME TypeOK, SerialInv, NEW t \in Threads, Stop(t), \A d \in Docs : Same(d)
    PROVE  SerialInv'
<1>1. inv'[t] = Idle /\ \A u \in Threads : u # t => inv'[u] = inv[u]
  BY OthersKept DEF Stop
<1>2. ~Active(t)'
  BY <1>1 DEF Active, Free, Idle
<1>3. QED
  BY <1>1, <1>2, AllSame

LEMMA NodeInStep ==
    ASSUME TypeOK, Serialized, SerialInv, NEW t \in Threads, Node(t)
    PROVE  SerialInv'
<1>0. inv[t].node \in Nodes
  BY IdleParts DEF TypeOK, Invocation, Busy
<1>1. CASE Interrupt(t)
  BY <1>1, StopSame DEF Interrupt, Same, stores
<1>2. ASSUME NEW node \in Nodes \ {"persist", "op_b_hitl"}, In(t, node)
      PROVE  Active(t) /\ inv[t].node # "persist"
  BY <1>2 DEF In, Active, Free
<1>3. CASE Classify(t) \/ Extract(t) \/ OpARetry(t)
  <2>1. Active(t) /\ inv[t].node # "persist"
    BY <1>2, <1>3 DEF Classify, Extract, OpARetry, Nodes
  <2>2. PICK chan, next : Pure(t, chan, next)
    BY <1>3 DEF Classify, Extract, OpARetry
  <2>3. QED
    BY <1>0, <2>1, <2>2, PureInStep
<1>4. CASE Master(t) \/ UnknownHandler(t) \/ TruthEngineNode(t) \/ ResolutionPlanner(t)
             \/ StrategyExecutor(t) \/ Normalize(t)
  <2>1. Active(t) /\ inv[t].node # "persist"
    BY <1>2, <1>4 DEF Master, UnknownHandler, TruthEngineNode, ResolutionPlanner,
                      StrategyExecutor, Normalize, Nodes
  <2>2. PICK chan, next : Pure(t, chan, next)
    BY <1>4 DEF Master, UnknownHandler, TruthEngineNode, ResolutionPlanner,
                StrategyExecutor, Normalize
  <2>3. QED
    BY <1>0, <2>1, <2>2, PureInStep
<1>5. CASE OpBHitl(t)
  <2>1. Active(t) /\ inv[t].node # "persist"
    BY <1>5 DEF OpBHitl, In, Active, Free
  <2>2. Pure(t, Reviewed(Chan(t), inv[t].resume), "normalize")
    BY <1>5 DEF OpBHitl
  <2>3. PICK chan, next : Pure(t, chan, next)
    BY <2>2
  <2>4. QED
    BY <1>0, <2>1, <2>3, PureInStep
<1>6. QED
  BY <1>1, <1>3, <1>4, <1>5 DEF Node

-----------------------------------------------------------------------------
(* write_output *)

\* A thread inside write_output, and how its step frames the rest.
LEMMA AtWork ==
    ASSUME TypeOK, SerialInv, NEW t \in Threads, Active(t)
    PROVE  /\ Doc(t) \in Docs /\ Chan(t) \in Channels
           /\ InStep(t) /\ DecidedInv(Doc(t))
           /\ ckpt[Doc(t)].next = inv[t].node /\ ckpt[Doc(t)].chan = Chan(t)
<1>1. Doc(t) \in Docs /\ Chan(t) \in Channels
  BY BusyDoc DEF Active, Free
<1>2. InStep(t) /\ DecidedInv(Doc(t))
  BY <1>1 DEF SerialInv
<1>3. QED
  BY <1>1, <1>2 DEF InStep, Chan

LEMMA WriteStep ==
    ASSUME TypeOK, Serialized, SerialInv, NEW t \in Threads, NEW d \in Docs,
           Active(t), Doc(t) = d, \A u \in Threads : u # t => inv'[u] = inv[u],
           \A e \in Docs : e # d => Same(e),
           DecidedInv(d)', Active(t)' => InStep(t)'
    PROVE  SerialInv'
<1>1. \A u \in Threads : u # t /\ Active(u) => Doc(u) # d
  BY ActiveAlone
<1>2. QED
  BY <1>1, OneThread

LEMMA MovedParts ==
    ASSUME TypeOK, NEW t \in Threads, NEW p, inv[t].at # "idle",
           inv' = [inv EXCEPT ![t].at = p]
    PROVE  /\ inv'[t].doc = Doc(t) /\ inv'[t].chan = Chan(t)
           /\ inv'[t].node = inv[t].node /\ inv'[t].at = p
           /\ \A u \in Threads : u # t => inv'[u] = inv[u]
<1>1. inv[t] \in Busy
  BY BusyDoc
<1>2. inv'[t] = [inv[t] EXCEPT !.at = p] /\ \A u \in Threads : u # t => inv'[u] = inv[u]
  BY DEF TypeOK
<1>3. QED
  BY <1>1, <1>2 DEF Busy, Doc, Chan

LEMMA AuditFiles ==
    ASSUME TypeOK, NEW t \in Threads, NEW d \in Docs, NEW c \in Channels,
           d = Doc(t), c = Chan(t), PersistAudit(t)
    PROVE  Filed(d, c)' /\ row'[d].status = row[d].status
<1>1. /\ row'[d].status = row[d].status
      /\ row'[d].fields = c.fields /\ row'[d].universal = c.universal
      /\ c.doc_type # NoType => row'[d].doc_type = c.doc_type
  <2>1. row[d] \in Row
    BY DEF TypeOK
  <2>2. PICK dt : /\ row' = [row EXCEPT ![d].doc_type = dt, ![d].fields = c.fields,
                                        ![d].universal = c.universal]
                  /\ c.doc_type # NoType => dt = c.doc_type
    BY DEF PersistAudit
  <2>3. row'[d] = [[[row[d] EXCEPT !.doc_type = dt] EXCEPT !.fields = c.fields]
                     EXCEPT !.universal = c.universal]
    BY <2>2 DEF TypeOK
  <2>4. /\ row'[d].status = row[d].status /\ row'[d].doc_type = dt
        /\ row'[d].fields = c.fields
    BY <2>1, <2>3 DEF Row
  <2>5. row'[d].universal = c.universal
    BY <2>1, <2>3 DEF Row
  <2>6. QED
    BY <2>2, <2>4, <2>5
<1>2. audit'[d] # <<>> /\ audit'[d][Len(audit'[d])] = AuditOf(c)
  <2> DEFINE r == AuditOf(c)
  <2>1. audit[d] \in Seq(AuditRow)
    BY DEF TypeOK
  <2>2. audit'[d] = Append(audit[d], r)
    BY DEF PersistAudit, Logged, TypeOK
  <2> HIDE DEF r
  <2>3. audit'[d] # <<>> /\ audit'[d][Len(audit'[d])] = r
    BY <2>1, <2>2
  <2>4. QED
    BY <2>3 DEF r
<1>3. Filed(d, c)'
  BY <1>1, <1>2 DEF Filed
<1>4. QED
  BY <1>1, <1>3

LEMMA AuditInStep ==
    ASSUME TypeOK, Serialized, SerialInv, NEW t \in Threads, PersistAudit(t)
    PROVE  SerialInv'
<1>1. inv[t].at = "run" /\ inv[t].node = "persist" /\ Active(t)
  BY DEF PersistAudit, In, Active, Free
<1>2. PICK d \in Docs, c \in Channels : d = Doc(t) /\ c = Chan(t)
  BY <1>1, AtWork
<1>3. InStep(t) /\ DecidedInv(d) /\ ckpt[d].next = "persist" /\ ckpt[d].chan = c
  BY <1>1, <1>2, AtWork
<1>4. /\ inv'[t].doc = d /\ inv'[t].chan = c /\ inv'[t].node = "persist"
      /\ inv'[t].at = "object" /\ \A u \in Threads : u # t => inv'[u] = inv[u]
  <2>1. inv' = [inv EXCEPT ![t].at = "object"]
    BY DEF PersistAudit
  <2>2. QED
    BY <1>1, <1>2, <2>1, MovedParts
<1>5. UNCHANGED <<ckpt, tasks, output, embedding>>
  BY DEF PersistAudit
<1>6. \A e \in Docs : e # d => audit'[e] = audit[e] /\ row'[e] = row[e]
  BY <1>2 DEF PersistAudit, TypeOK
<1>7. Filed(d, c)' /\ row'[d].status = row[d].status
  BY <1>2, AuditFiles
<1>8. InStep(t)'
  <2>1. ckpt[d] = [next |-> "persist", chan |-> c]
    BY <1>1, <1>2, <1>3 DEF InStep, Chan
  <2>2. QED
    BY <1>4, <1>5, <1>7, <2>1 DEF InStep, Doc, Chan
<1>9. DecidedInv(d)'
  BY <1>3, <1>5, <1>7 DEF DecidedInv, Holds, Kept, Learned
<1>10. \A e \in Docs : e # d => Same(e)
  BY <1>5, <1>6 DEF Same
<1>11. QED
  BY <1>1, <1>2, <1>4, <1>8, <1>9, <1>10, WriteStep

LEMMA ObjectInStep ==
    ASSUME TypeOK, Serialized, SerialInv, NEW t \in Threads, PersistObject(t)
    PROVE  SerialInv'
<1>1. inv[t].at = "object" /\ Active(t)
  BY DEF PersistObject, In, Active, Free
<1>2. PICK d \in Docs, c \in Channels : d = Doc(t) /\ c = Chan(t)
  BY <1>1, AtWork
<1>3. InStep(t) /\ DecidedInv(d) /\ ckpt[d].chan = c
  BY <1>1, <1>2, AtWork
<1>4. PICK p \in {"embed", "finish"} :
          /\ inv' = [inv EXCEPT ![t].at = p]
          /\ p = "finish" => ~Learns(c)
  BY <1>2 DEF PersistObject
<1>5. /\ inv'[t].doc = d /\ inv'[t].chan = c /\ inv'[t].node = inv[t].node
      /\ inv'[t].at = p /\ \A u \in Threads : u # t => inv'[u] = inv[u]
  <2>1. inv' = [inv EXCEPT ![t].at = p]
    BY <1>4
  <2>2. QED
    BY <1>1, <1>2, <2>1, MovedParts
<1>6. UNCHANGED <<row, ckpt, tasks, audit, embedding>>
  BY DEF PersistObject
<1>7. /\ output'[d] = [written |-> TRUE, universal |-> c.universal]
      /\ \A e \in Docs : e # d => output'[e] = output[e]
  BY <1>2 DEF PersistObject, TypeOK
<1>8. Kept(d, c)'
  BY <1>7 DEF Kept
<1>9. Filed(d, c)'
  BY <1>1, <1>2, <1>3, <1>6 DEF InStep, Filed
<1>10. p = "finish" => Learned(d, c)'
  BY <1>4 DEF Learned, AuditOf
<1>11. InStep(t)'
  <2>1. ckpt[d] = [next |-> inv[t].node, chan |-> c] /\ inv[t].node = "persist"
    BY <1>1, <1>2, <1>3 DEF InStep, Chan
  <2>2. QED
    BY <1>4, <1>5, <1>6, <1>8, <1>9, <1>10, <2>1 DEF InStep, Doc, Chan
<1>12. DecidedInv(d)'
  BY <1>3, <1>6, <1>8 DEF DecidedInv, Holds, Filed, Learned
<1>13. \A e \in Docs : e # d => Same(e)
  BY <1>6, <1>7 DEF Same
<1>14. QED
  BY <1>1, <1>2, <1>5, <1>11, <1>12, <1>13, WriteStep

\* A step of write_output that changes nothing but where its thread is.
LEMMA MoveInStep ==
    ASSUME TypeOK, SerialInv, NEW t \in Threads, NEW p, Active(t),
           inv' = [inv EXCEPT ![t].at = p], UNCHANGED <<row, ckpt, tasks, stores>>,
           inv[t].node = "persist",
           p \in {"insert", "update"} => inv[t].at = "embed",
           p = "insert" => embedding[Doc(t)] = {},
           p \in {"insert", "update", "handler"}
    PROVE  SerialInv'
<1>1. InStep(t) /\ inv[t].at # "idle"
  BY DEF SerialInv, Active, Free
<1>2. /\ inv'[t].doc = Doc(t) /\ inv'[t].chan = Chan(t)
      /\ inv'[t].node = inv[t].node /\ inv'[t].at = p
      /\ \A u \in Threads : u # t => inv'[u] = inv[u]
  BY <1>1, MovedParts
<1>3. \A e \in Docs : Same(e)
  BY DEF Same, stores
<1>4. InStep(t)'
  <2>1. ckpt[Doc(t)] = [next |-> inv[t].node, chan |-> Chan(t)]
    BY <1>1 DEF InStep, Chan
  <2>2. inv[t].at = "embed" => Filed(Doc(t), Chan(t)) /\ Kept(Doc(t), Chan(t))
    BY <1>1 DEF InStep
  <2>3. PICK d, c : d = Doc(t) /\ c = Chan(t)
    OBVIOUS
  <2>4. inv[t].at = "embed" => Filed(d, c)' /\ Kept(d, c)'
    BY <2>2, <2>3 DEF Filed, Kept, stores
  <2>5. QED
    BY <1>2, <2>1, <2>3, <2>4 DEF InStep, Doc, Chan, stores
<1>5. QED
  BY <1>2, <1>3, <1>4, AllSame

\* The rows of the document are replaced by what is embedded now.
LEMMA UpsertInStep ==
    ASSUME TypeOK, Serialized, SerialInv, NEW t \in Threads,
           InsertEmbedding(t) \/ UpdateEmbedding(t)
    PROVE  SerialInv'
<1>1. inv[t].at \in {"insert", "update"} /\ Active(t)
  BY DEF InsertEmbedding, UpdateEmbedding, In, Active, Free
<1>2. PICK d \in Docs, c \in Channels : d = Doc(t) /\ c = Chan(t)
  BY <1>1, AtWork
<1>3. InStep(t) /\ DecidedInv(d) /\ ckpt[d].chan = c
  BY <1>1, <1>2, AtWork
<1>4. /\ inv'[t].doc = d /\ inv'[t].chan = c /\ inv'[t].node = inv[t].node
      /\ inv'[t].at = "finish" /\ \A u \in Threads : u # t => inv'[u] = inv[u]
  <2>1. inv' = [inv EXCEPT ![t].at = "finish"]
    BY DEF InsertEmbedding, UpdateEmbedding
  <2>2. QED
    BY <1>1, <1>2, <2>1, MovedParts
<1>5. UNCHANGED <<row, ckpt, tasks, audit, output>>
  BY DEF InsertEmbedding, UpdateEmbedding
<1>6. PICK row0 : row0 = Embedded(t) /\ row0.fields = c.fields
  <2>1. Embedded(t).fields = c.fields
    BY <1>2 DEF Embedded
  <2>2. QED
    BY <2>1
<1>7. \A e \in Docs : e # d => embedding'[e] = embedding[e]
  BY <1>2 DEF InsertEmbedding, UpdateEmbedding, TypeOK
<1>8. embedding'[d] = {row0}
  <2>1. CASE InsertEmbedding(t)
    <3>1. embedding[d] = {}
      BY <1>2, <1>3, <2>1 DEF InStep, InsertEmbedding
    <3>2. embedding' = [embedding EXCEPT ![d] = embedding[d] \cup {row0}]
      BY <1>2, <1>6, <2>1 DEF InsertEmbedding
    <3>3. QED
      BY <3>1, <3>2 DEF TypeOK
  <2>2. CASE UpdateEmbedding(t)
    <3>1. PICK old \in embedding[d] :
              embedding' = [embedding EXCEPT ![d] = (embedding[d] \ {old}) \cup {row0}]
      BY <1>2, <1>6, <2>2 DEF UpdateEmbedding
    <3>2. embedding[d] \ {old} = {}
      BY <1>3 DEF DecidedInv
    <3>3. QED
      BY <3>1, <3>2 DEF TypeOK
  <2>3. QED
    BY <2>1, <2>2
<1>9. Learned(d, c)'
  BY <1>6, <1>8 DEF Learned
<1>10. Filed(d, c)' /\ Kept(d, c)'
  BY <1>1, <1>2, <1>3, <1>5 DEF InStep, Filed, Kept
<1>11. InStep(t)'
  <2>1. ckpt[d] = [next |-> inv[t].node, chan |-> c] /\ inv[t].node = "persist"
    BY <1>1, <1>2, <1>3 DEF InStep, Chan
  <2>2. QED
    BY <1>4, <1>5, <1>9, <1>10, <2>1 DEF InStep, Doc, Chan
<1>12. DecidedInv(d)'
  BY <1>3, <1>5, <1>8, <1>9, <1>10 DEF DecidedInv, Holds
<1>13. \A e \in Docs : e # d => Same(e)
  BY <1>5, <1>7 DEF Same
<1>14. QED
  BY <1>1, <1>2, <1>4, <1>11, <1>12, <1>13, WriteStep

\* What a change of status leaves alone.
LEMMA StatusParts ==
    ASSUME TypeOK, NEW d \in Docs, NEW s, NEW p,
           row' = [row EXCEPT ![d].status = s, ![d].phase = p]
    PROVE  /\ row'[d].status = s /\ row'[d].phase = p /\ row'[d].doc_type = row[d].doc_type
           /\ row'[d].fields = row[d].fields /\ row'[d].universal = row[d].universal
           /\ \A e \in Docs : e # d => row'[e] = row[e]
<1>1. row[d] \in Row
  BY DEF TypeOK
<1>2. /\ row'[d] = [[row[d] EXCEPT !.status = s] EXCEPT !.phase = p]
      /\ \A e \in Docs : e # d => row'[e] = row[e]
  BY DEF TypeOK
<1>3. row'[d].status = s /\ row'[d].phase = p
  BY <1>1, <1>2 DEF Row
<1>4. row'[d].doc_type = row[d].doc_type /\ row'[d].fields = row[d].fields
  BY <1>1, <1>2 DEF Row
<1>5. row'[d].universal = row[d].universal
  BY <1>1, <1>2 DEF Row
<1>6. QED
  BY <1>2, <1>3, <1>4, <1>5

LEMMA StatusInStep ==
    ASSUME TypeOK, GoodViews, Serialized, SerialInv, NEW t \in Threads, PersistStatus(t)
    PROVE  SerialInv'
<1>1. inv[t].at = "finish" /\ Active(t)
  BY DEF PersistStatus, In, Active, Free
<1>2. PICK d \in Docs, c \in Channels : d = Doc(t) /\ c = Chan(t)
  BY <1>1, AtWork
<1>3. /\ InStep(t) /\ DecidedInv(d) /\ ckpt[d].chan = c /\ ckpt[d].next = inv[t].node
      /\ d \notin tasks
  BY <1>1, <1>2, AtWork, ActiveAlone
<1>4. inv[t].node = "persist" /\ Filed(d, c) /\ Kept(d, c) /\ Learned(d, c)
  BY <1>1, <1>2, <1>3 DEF InStep
<1>5. /\ inv'[t].doc = d /\ inv'[t].chan = c /\ inv'[t].node = "persist"
      /\ inv'[t].at = "saved" /\ \A u \in Threads : u # t => inv'[u] = inv[u]
  <2>1. inv' = [inv EXCEPT ![t].at = "saved"]
    BY DEF PersistStatus
  <2>2. QED
    BY <1>1, <1>2, <1>4, <2>1, MovedParts
<1>6. UNCHANGED <<ckpt, tasks, audit, output, embedding>>
  BY DEF PersistStatus, stores
<1>7. /\ row'[d].status = TerminalStatus(c) /\ row'[d].doc_type = row[d].doc_type
      /\ row'[d].fields = row[d].fields /\ row'[d].universal = row[d].universal
      /\ \A e \in Docs : e # d => row'[e] = row[e]
  <2>1. PICK s : /\ row' = [row EXCEPT ![d].status = s, ![d].phase = s]
                 /\ s = TerminalStatus(c)
    BY <1>2 DEF PersistStatus
  <2>2. row' = [row EXCEPT ![d].status = s, ![d].phase = s]
    BY <2>1
  <2>3. row'[d].status = s
    BY <2>2, StatusParts
  <2>4. /\ row'[d].doc_type = row[d].doc_type
        /\ row'[d].fields = row[d].fields /\ row'[d].universal = row[d].universal
        /\ \A e \in Docs : e # d => row'[e] = row[e]
    BY <2>2, StatusParts
  <2>5. QED
    BY <2>1, <2>3, <2>4
<1>8. Holds(d, c)'
  BY <1>4, <1>6, <1>7 DEF Holds, Filed, Kept, Learned
<1>9. c \in Sound
  BY <1>2, <1>4 DEF Sound, GoodViews, Chan
<1>10. DecidedInv(d)'
  <2>1. \A e1, e2 \in embedding'[d] : e1 = e2
    BY <1>3, <1>6 DEF DecidedInv
  <2>2. ckpt'[d].chan = c /\ ckpt'[d].next = "persist" /\ d \notin tasks'
    BY <1>3, <1>4, <1>6
  <2>3. QED
    BY <1>7, <1>8, <1>9, <2>1, <2>2 DEF DecidedInv
<1>11. InStep(t)'
  <2>1. ckpt[d] = [next |-> inv[t].node, chan |-> c]
    BY <1>1, <1>2, <1>3 DEF InStep, Chan
  <2>2. QED
    BY <1>4, <1>5, <1>6, <2>1 DEF InStep, Doc, Chan
<1>12. \A e \in Docs : e # d => Same(e)
  BY <1>6, <1>7 DEF Same
<1>13. QED
  BY <1>1, <1>2, <1>5, <1>10, <1>11, <1>12, WriteStep

LEMMA ReturnInStep ==
    ASSUME TypeOK, Serialized, SerialInv, NEW t \in Threads, PersistReturn(t)
    PROVE  SerialInv'
<1>1. inv[t].at = "saved" /\ Active(t)
  BY DEF PersistReturn, In, Active, Free
<1>2. PICK d \in Docs, c \in Channels : d = Doc(t) /\ c = Chan(t)
  BY <1>1, AtWork
<1>3. /\ InStep(t) /\ DecidedInv(d) /\ ckpt[d].chan = c /\ ckpt[d].next = inv[t].node
      /\ inv[t].node = "persist"
  <2>1. InStep(t) /\ DecidedInv(d) /\ ckpt[d].chan = c /\ ckpt[d].next = inv[t].node
    BY <1>1, <1>2, AtWork
  <2>2. QED
    BY <1>1, <2>1 DEF InStep
<1>4. inv'[t] = Idle /\ \A u \in Threads : u # t => inv'[u] = inv[u]
  BY OthersKept DEF PersistReturn, Stop
<1>5. UNCHANGED <<row, tasks, audit, output, embedding>>
  BY DEF PersistReturn, stores
<1>6. /\ ckpt'[d].next = "end" /\ ckpt'[d].chan = c
      /\ \A e \in Docs : e # d => ckpt'[e] = ckpt[e]
  BY <1>2 DEF PersistReturn, TypeOK
<1>7. ~Active(t)'
  BY <1>4 DEF Active, Free, Idle
<1>8. DecidedInv(d)'
  BY <1>3, <1>5, <1>6 DEF DecidedInv, Holds, Filed, Kept, Learned
<1>9. \A e \in Docs : e # d => Same(e)
  BY <1>5, <1>6 DEF Same
<1>10. QED
  BY <1>1, <1>2, <1>4, <1>7, <1>8, <1>9, WriteStep

LEMMA FailedInStep ==
    ASSUME TypeOK, Serialized, SerialInv, NEW t \in Threads, PersistFailed(t)
    PROVE  SerialInv'
<1>1. inv[t].at = "handler" /\ Active(t)
  BY DEF PersistFailed, In, Active, Free
<1>2. PICK d \in Docs, c \in Channels : d = Doc(t) /\ c = Chan(t)
  BY <1>1, AtWork
<1>3. /\ DecidedInv(d) /\ ckpt[d].next = "persist" /\ d \notin tasks
  <2>1. InStep(t) /\ DecidedInv(d) /\ ckpt[d].next = inv[t].node /\ d \notin tasks
    BY <1>1, <1>2, AtWork, ActiveAlone
  <2>2. QED
    BY <1>1, <2>1 DEF InStep
<1>4. inv'[t] = Idle /\ \A u \in Threads : u # t => inv'[u] = inv[u]
  BY OthersKept DEF PersistFailed, Stop
<1>5. UNCHANGED <<ckpt, tasks, audit, output, embedding>>
  BY DEF PersistFailed, stores
<1>6. ~Active(t)'
  BY <1>4 DEF Active, Free, Idle
<1>7. CASE row' = row
  <2>1. \A e \in Docs : Same(e)
    BY <1>5, <1>7 DEF Same
  <2>2. QED
    BY <1>4, <1>6, <2>1, AllSame
<1>8. CASE row' = [row EXCEPT ![d].status = "persist_failed", ![d].phase = "persist_failed"]
  <2>1. row'[d].status = "persist_failed" /\ \A e \in Docs : e # d => row'[e] = row[e]
    BY <1>8, StatusParts
  <2>2. DecidedInv(d)'
    BY <1>3, <1>5, <2>1 DEF DecidedInv, TerminalStatuses
  <2>3. \A e \in Docs : e # d => Same(e)
    BY <1>5, <2>1 DEF Same
  <2>4. QED
    BY <1>1, <1>2, <1>4, <1>6, <2>2, <2>3, WriteStep
<1>9. QED
  BY <1>2, <1>7, <1>8 DEF PersistFailed

-----------------------------------------------------------------------------
LEMMA CrashInStep ==
    ASSUME SerialInv, CrashAndRecover
    PROVE  SerialInv'
<1>1. \A t \in Threads : ~Active(t)'
  BY DEF CrashAndRecover, Active, Free, Idle
<1>2. \A d \in Docs : Same(d)
  BY DEF CrashAndRecover, Stranded, Same, stores
<1>3. QED
  BY <1>1, <1>2, SerialStep

LEMMA InitSerial == Init => SerialInv
<1> SUFFICES ASSUME Init PROVE SerialInv
  OBVIOUS
<1>1. \A t \in Threads : ~Active(t)
  BY DEF Init, Active, Free, Idle
<1>2. \A d \in Docs : row[d].status = "queued" /\ embedding[d] = {}
  BY DEF Init
<1>3. QED
  BY <1>1, <1>2 DEF SerialInv, DecidedInv, TerminalStatuses

LEMMA PersistInStep ==
    ASSUME TypeOK, GoodViews, Serialized, SerialInv, NEW t \in Threads, Persist(t)
    PROVE  SerialInv'
<1>1. CASE QueryEmbedding(t)
  <2>1. PICK p \in {"insert", "update"} :
            inv' = [inv EXCEPT ![t].at = p] /\ (p = "insert" => embedding[Doc(t)] = {})
    BY <1>1 DEF QueryEmbedding
  <2>2. inv[t].at = "embed" /\ Active(t) /\ UNCHANGED <<row, ckpt, tasks, stores>>
    BY <1>1 DEF QueryEmbedding, Active, Free, In
  <2>3. inv[t].node = "persist"
    BY <2>2, AtWork DEF InStep
  <2>4. inv' = [inv EXCEPT ![t].at = p]
    BY <2>1
  <2>5. QED
    BY <2>1, <2>2, <2>3, <2>4, MoveInStep
<1>2. QED
  BY <1>1, AuditInStep, ObjectInStep, UpsertInStep, StatusInStep, ReturnInStep,
     FailedInStep DEF Persist

LEMMA FailureInStep ==
    ASSUME TypeOK, SerialInv, Failure
    PROVE  SerialInv'
<1>1. ASSUME NEW t \in Threads, PersistRaises(t) PROVE SerialInv'
  <2>1. inv' = [inv EXCEPT ![t].at = "handler"] /\ UNCHANGED <<row, ckpt, tasks, stores>>
    BY <1>1 DEF PersistRaises
  <2>2. Active(t)
    BY <1>1 DEF PersistRaises, Active, Free, In
  <2>3. inv[t].node = "persist"
    BY <1>1, <2>2, AtWork DEF PersistRaises, In, InStep
  <2>4. inv' = [inv EXCEPT ![t].at = "handler"]
    BY <2>1
  <2>5. QED
    BY <2>1, <2>2, <2>3, <2>4, MoveInStep
<1>2. ASSUME NEW t \in Threads, InvocationRaises(t) PROVE SerialInv'
  BY <1>2, StopSame DEF InvocationRaises, Same, stores
<1>3. QED
  BY <1>1, <1>2, CrashInStep DEF Failure

LEMMA NextSerial ==
    TypeOK /\ GoodViews /\ Serialized /\ Serialized' /\ SerialInv /\ [Next]_vars => SerialInv'
<1> SUFFICES ASSUME TypeOK, GoodViews, Serialized, Serialized', SerialInv, [Next]_vars
             PROVE  SerialInv'
  OBVIOUS
<1>1. CASE Review
  <2>1. CASE ListPending
    <3>1. \A d \in Docs : Same(d)
      BY <2>1 DEF ListPending, Same, stores
    <3>2. \A t \in Threads : inv'[t] = inv[t]
      BY <2>1 DEF ListPending
    <3>3. QED
      BY <3>1, <3>2, AllSame
  <2>2. QED
    BY <1>1, <2>1, SubmitInStep DEF Review
<1>2. ASSUME NEW t \in Threads, Work(t) PROVE SerialInv'
  BY <1>2, StampInStep, NodeInStep, PersistInStep DEF Work
<1>3. CASE UNCHANGED vars
  <2>1. \A d \in Docs : Same(d)
    BY <1>3 DEF vars, Same
  <2>2. \A t \in Threads : inv'[t] = inv[t]
    BY <1>3 DEF vars
  <2>3. QED
    BY <2>1, <2>2, AllSame
<1>4. QED
  BY <1>1, <1>2, <1>3, DispatchInStep, FailureInStep DEF Next

(***************************************************************************)
(* The result of a document whose invocations do not meet is durable: the  *)
(* row, the object and the embedding agree, wherever the process dies and  *)
(* whichever phases of write_output are repeated.                          *)
(***************************************************************************)
THEOREM SerializedIsDurable == Spec /\ []Serialized => []DurableResult
<1>1. SerialInv => DurableResult
  <2> SUFFICES ASSUME SerialInv, NEW d \in Docs, row[d].status \in TerminalStatuses
               PROVE  /\ output[d].universal = row[d].universal
                      /\ audit[d][Len(audit[d])].learned =>
                            /\ embedding[d] # {}
                            /\ \A e \in embedding[d] : e.fields = row[d].fields
    BY DEF DurableResult
  <2>1. Holds(d, ckpt[d].chan)
    BY DEF SerialInv, DecidedInv
  <2>2. QED
    BY <2>1 DEF Holds, Filed, Kept, Learned
<1>2. QED
  BY <1>1, InitSerial, NextSerial, InitType, NextType, ViewsAreGood, PTL DEF Spec

-----------------------------------------------------------------------------
(* A decided document keeps its outcome *)

LEMMA AuditKeepsStatus ==
    ASSUME TypeOK, NEW t \in Threads, PersistAudit(t), NEW d \in Docs
    PROVE  row'[d].status = row[d].status /\ row'[d].phase = row[d].phase
<1>1. row[d] \in Row
  BY DEF TypeOK
<1>2. PICK dt, f, u : row' = [row EXCEPT ![Doc(t)].doc_type = dt, ![Doc(t)].fields = f,
                                         ![Doc(t)].universal = u]
  BY DEF PersistAudit
<1>3. \/ row'[d] = row[d]
      \/ row'[d] = [[[row[d] EXCEPT !.doc_type = dt] EXCEPT !.fields = f] EXCEPT !.universal = u]
  BY <1>2 DEF TypeOK
<1>4. QED
  BY <1>1, <1>3 DEF Row

LEMMA StepKeepsOutcome ==
    ASSUME TypeOK, Serialized, SerialInv, [Next]_vars, NEW d \in Docs,
           row[d].status \in TerminalStatuses
    PROVE  row'[d].status \in {row[d].status, "persist_failed"}
<1>1. row[d].status = TerminalStatus(ckpt[d].chan)
  BY DEF SerialInv, DecidedInv
<1>2. ASSUME NEW t \in Threads, PersistStatus(t)
      PROVE  row'[d].status = row[d].status
  <2>1. inv[t].at = "finish" /\ Active(t)
    BY <1>2 DEF PersistStatus, In, Active, Free
  <2>2. PICK e \in Docs : e = Doc(t)
    BY <2>1, AtWork
  <2>3. PICK s : s = TerminalStatus(Chan(t)) /\ row' = [row EXCEPT ![e].status = s, ![e].phase = s]
    BY <1>2, <2>2 DEF PersistStatus
  <2>4. row' = [row EXCEPT ![e].status = s, ![e].phase = s]
    BY <2>3
  <2>5. CASE e = d
    <3>1. row'[e].status = s
      BY <2>4, StatusParts
    <3>2. ckpt[d].chan = Chan(t)
      BY <2>1, <2>2, <2>5, AtWork
    <3>3. QED
      BY <1>1, <2>3, <2>5, <3>1, <3>2
  <2>6. CASE e # d
    BY <2>4, <2>6, StatusParts
  <2>7. QED
    BY <2>5, <2>6
<1>3. ASSUME NEW t \in Threads, PersistFailed(t)
      PROVE  row'[d].status \in {row[d].status, "persist_failed"}
  <2>1. CASE row' = row
    BY <2>1
  <2>2. CASE row' = [row EXCEPT ![Doc(t)].status = "persist_failed",
                                ![Doc(t)].phase = "persist_failed"]
    <3>1. row[d] \in Row
      BY DEF TypeOK
    <3>2. \/ row'[d] = row[d]
          \/ row'[d] = [[row[d] EXCEPT !.status = "persist_failed"]
                                EXCEPT !.phase = "persist_failed"]
      BY <2>2 DEF TypeOK
    <3>3. QED
      BY <3>1, <3>2 DEF Row
  <2>3. QED
    BY <1>3, <2>1, <2>2 DEF PersistFailed
<1>4. ASSUME NEW t \in Threads, PersistAudit(t)
      PROVE  row'[d].status = row[d].status
  BY <1>4, AuditKeepsStatus
<1>5. ASSUME NEW t \in Threads, StampPhase(t)
      PROVE  row'[d].status = row[d].status
  BY <1>5, StampKeepsRow
<1>6. ASSUME NEW t \in Threads, Node(t) PROVE row' = row
  BY <1>6, NodeCalm
<1>7. ASSUME NEW t \in Threads,
             \/ PersistObject(t) \/ QueryEmbedding(t) \/ InsertEmbedding(t)
             \/ UpdateEmbedding(t) \/ PersistReturn(t)
      PROVE  row' = row
  BY <1>7 DEF PersistObject, QueryEmbedding, InsertEmbedding, UpdateEmbedding, PersistReturn
<1>8. CASE Review \/ Failure \/ (\E t \in Threads, e \in Docs : Dispatch(t, e))
           \/ UNCHANGED vars
  BY <1>8 DEF Review, ListPending, SubmitDecision, Failure, CrashAndRecover, PersistRaises,
              InvocationRaises, Dispatch, vars
<1>9. QED
  BY <1>2, <1>3, <1>4, <1>5, <1>6, <1>7, <1>8 DEF Next, Work, Persist

(***************************************************************************)
(* A rejected document becomes completed only by invocations that meet: as *)
(* long as they do not, a rejection is final.                              *)
(***************************************************************************)
THEOREM SerializedRejectionIsFinal == Spec /\ []Serialized => RejectionIsFinal
<1>1. ASSUME TypeOK, Serialized, SerialInv, [Next]_vars
      PROVE  [\A d \in Docs : row[d].status = "rejected" => row'[d].status # "completed"]_vars
  BY <1>1, StepKeepsOutcome DEF TerminalStatuses
<1>2. QED
  BY <1>1, InitSerial, NextSerial, InitType, NextType, ViewsAreGood, PTL
  DEF Spec, RejectionIsFinal

-----------------------------------------------------------------------------
(* The abstract life of a document *)

LEMMA TrailAppend ==
    ASSUME NEW trail \in Seq(AuditRow), NEW r \in AuditRow
    PROVE  [i \in 1..Len(Append(trail, r)) |-> Append(trail, r)[i].status]
             = Append([i \in 1..Len(trail) |-> trail[i].status], r.status)
<1> DEFINE old == [i \in 1..Len(trail) |-> trail[i].status]
           new == [i \in 1..Len(Append(trail, r)) |-> Append(trail, r)[i].status]
<1>1. /\ Len(trail) \in Nat /\ Len(Append(trail, r)) = Len(trail) + 1
      /\ Append(trail, r)[Len(trail) + 1] = r
      /\ \A i \in 1..Len(trail) : Append(trail, r)[i] = trail[i]
  OBVIOUS
<1>2. \A i \in 1..Len(trail) : trail[i].status \in TerminalStatuses
  <2>1. \A i \in 1..Len(trail) : trail[i] \in AuditRow
    OBVIOUS
  <2>2. QED
    BY <2>1 DEF AuditRow
<1>3. old \in Seq(TerminalStatuses) /\ Len(old) = Len(trail)
  BY <1>1, <1>2
<1>4. r.status \in TerminalStatuses
  BY DEF AuditRow
<1>5. /\ Append(old, r.status) \in Seq(TerminalStatuses)
      /\ Len(Append(old, r.status)) = Len(trail) + 1
      /\ Append(old, r.status)[Len(trail) + 1] = r.status
      /\ \A i \in 1..Len(trail) : Append(old, r.status)[i] = trail[i].status
  BY <1>1, <1>3, <1>4
<1>6. /\ new \in Seq(TerminalStatuses) /\ Len(new) = Len(trail) + 1
      /\ \A i \in 1..Len(trail) + 1 : new[i] = Append(old, r.status)[i]
  BY <1>1, <1>2, <1>4, <1>5
<1>7. QED
  BY <1>5, <1>6

LEMMA AuditOfType ==
    ASSUME NEW chan \in Channels
    PROVE  AuditOf(chan) \in AuditRow
<1>1. TerminalStatus(chan) \in TerminalStatuses
  BY TerminalStatusType
<1>2. chan.report \in Report \cup {NoReport}
  BY DEF Channels
<1>3. chan.decision.strategy \in Strategies \cup {"none"}
  BY DEF Channels, Decision, Record, NoDecision
<1>4. Learns(chan) \in BOOLEAN /\ Proposes(chan) \in BOOLEAN
  BY DEF Learns, Proposes, AllowLearning, SchemaCandidate, HasEvidence, Channels
<1>5. QED
  BY <1>1, <1>2, <1>3, <1>4 DEF AuditOf, AuditRow

\* What the abstract life sees of the stores.
Published == [d \in Docs |-> row[d].status]
Trails == [d \in Docs |-> [i \in 1..Len(audit[d]) |-> audit[d][i].status]]
Objects == [d \in Docs |-> output[d].written]

LEMMA AuditRecordsOutcome ==
    ASSUME TypeOK, SerialInv, NEW t \in Threads, PersistAudit(t)
    PROVE  Lifecycle!Next
<1>1. inv[t].at = "run" /\ Active(t)
  BY DEF PersistAudit, In, Active, Free
<1>2. PICK d \in Docs, c \in Channels : d = Doc(t) /\ c = Chan(t)
  BY <1>1, AtWork
<1>3. PICK r \in AuditRow : r = AuditOf(c)
  BY AuditOfType
<1>4. r.status = TerminalStatus(c) /\ r.status \in TerminalStatuses
  <2>1. AuditOf(c).status = TerminalStatus(c)
    BY DEF AuditOf
  <2>2. QED
    BY <1>3, <2>1, TerminalStatusType
<1>5. row[d].status \in TerminalStatuses => r.status = row[d].status
  <2>1. DecidedInv(d) /\ ckpt[d].chan = c
    BY <1>1, <1>2, AtWork
  <2>2. QED
    BY <1>4, <2>1 DEF DecidedInv
<1>6. \A e \in Docs : row'[e].status = row[e].status
  BY AuditKeepsStatus
<1>7. Trails' = [Trails EXCEPT ![d] = Append(Trails[d], r.status)]
  <2>1. audit[d] \in Seq(AuditRow)
    BY DEF TypeOK
  <2>2. audit' = [audit EXCEPT ![d] = Append(audit[d], r)]
    BY <1>2, <1>3 DEF PersistAudit, Logged
  <2>3. audit'[d] = Append(audit[d], r) /\ \A e \in Docs : e # d => audit'[e] = audit[e]
    BY <2>2 DEF TypeOK
  <2>4. Trails'[d] = Append(Trails[d], r.status)
    BY <2>1, <2>3, TrailAppend DEF Trails
  <2>5. \A e \in Docs : e # d => Trails'[e] = Trails[e]
    BY <2>3 DEF Trails
  <2>6. Trails' = [e \in Docs |-> IF e = d THEN Append(Trails[d], r.status) ELSE Trails[e]]
    BY <2>4, <2>5 DEF Trails
  <2>7. QED
    BY <2>6 DEF Trails
<1>8. output' = output
  BY DEF PersistAudit
<1>9. Lifecycle!Record(d, r.status)
  <2>1. Published' = Published /\ Objects' = Objects
    BY <1>6, <1>8 DEF Published, Objects
  <2>2. Published[d] \in TerminalStatuses => r.status = Published[d]
    BY <1>5 DEF Published
  <2>3. QED
    BY <1>7, <2>1, <2>2
    DEF Lifecycle!Record, Lifecycle!Outcomes, Published, Trails, Objects, TerminalStatuses
<1>10. QED
  BY <1>4, <1>9 DEF Lifecycle!Next, Lifecycle!Outcomes, TerminalStatuses

LEMMA ObjectIsStored ==
    ASSUME TypeOK, SerialInv, NEW t \in Threads, PersistObject(t)
    PROVE  Lifecycle!Next
<1>1. inv[t].at = "object" /\ Active(t)
  BY DEF PersistObject, In, Active, Free
<1>2. PICK d \in Docs, c \in Channels : d = Doc(t) /\ c = Chan(t)
  BY <1>1, AtWork
<1>3. Trails[d] # <<>>
  <2>1. audit[d] # <<>> /\ audit[d] \in Seq(AuditRow)
    BY <1>1, <1>2, AtWork DEF InStep, Filed, TypeOK
  <2>2. Len(audit[d]) \in Nat /\ Len(audit[d]) # 0
    BY <2>1
  <2>3. Trails[d] = [i \in 1..Len(audit[d]) |-> audit[d][i].status]
    BY DEF Trails
  <2>4. DOMAIN Trails[d] = 1..Len(audit[d])
    BY <2>3
  <2>5. DOMAIN <<>> = 1..0
    OBVIOUS
  <2>6. 1 \in DOMAIN Trails[d]
    BY <2>2, <2>4
  <2>7. QED
    BY <2>5, <2>6
<1>4. UNCHANGED <<row, audit>>
  BY DEF PersistObject
<1>5. Objects' = [Objects EXCEPT ![d] = TRUE]
  <2>1. output'[d].written /\ \A e \in Docs : e # d => output'[e] = output[e]
    BY <1>2 DEF PersistObject, TypeOK
  <2>2. output'[d].written = TRUE
    BY <1>2 DEF PersistObject, TypeOK
  <2>3. QED
    BY <2>1, <2>2 DEF Objects
<1>6. Published' = Published /\ Trails' = Trails
  BY <1>4 DEF Published, Trails
<1>7. Lifecycle!Store(d)
  BY <1>3, <1>5, <1>6 DEF Lifecycle!Store, Published, Trails, Objects
<1>8. QED
  BY <1>7 DEF Lifecycle!Next

LEMMA StatusIsPublished ==
    ASSUME TypeOK, SerialInv, NEW t \in Threads, PersistStatus(t)
    PROVE  Lifecycle!Next
<1>1. inv[t].at = "finish" /\ Active(t)
  BY DEF PersistStatus, In, Active, Free
<1>2. PICK d \in Docs, c \in Channels : d = Doc(t) /\ c = Chan(t)
  BY <1>1, AtWork
<1>3. Filed(d, c) /\ Kept(d, c)
  BY <1>1, <1>2, AtWork DEF InStep
<1>4. Objects[d]
  BY <1>3 DEF Kept, Objects
<1>5. PICK s : s = TerminalStatus(c) /\ row' = [row EXCEPT ![d].status = s, ![d].phase = s]
  BY <1>2 DEF PersistStatus
<1>6. Trails[d][Len(Trails[d])] = s
  <2>1. audit[d] # <<>> /\ audit[d] \in Seq(AuditRow)
    BY <1>3 DEF Filed, TypeOK
  <2>2. Len(audit[d]) \in Nat /\ Len(audit[d]) # 0
    BY <2>1
  <2>3. Trails[d] = [i \in 1..Len(audit[d]) |-> audit[d][i].status]
    BY DEF Trails
  <2>4. Len(Trails[d]) = Len(audit[d]) /\ Len(audit[d]) \in 1..Len(audit[d])
    BY <2>2, <2>3
  <2>5. audit[d][Len(audit[d])].status = s
    BY <1>3, <1>5 DEF Filed, AuditOf
  <2>6. QED
    BY <2>3, <2>4, <2>5
<1>7. Published' = [Published EXCEPT ![d] = s]
  <2>1. row' = [row EXCEPT ![d].status = s, ![d].phase = s]
    BY <1>5
  <2>2. row'[d].status = s
    BY <2>1, StatusParts
  <2>3. \A e \in Docs : e # d => row'[e] = row[e]
    BY <2>1, StatusParts
  <2>4. QED
    BY <2>2, <2>3 DEF Published
<1>8. Trails' = Trails /\ Objects' = Objects
  BY DEF PersistStatus, stores, Trails, Objects
<1>9. Lifecycle!Publish(d)
  BY <1>4, <1>6, <1>7, <1>8
  DEF Lifecycle!Publish, Lifecycle!Last, Published, Trails, Objects
<1>10. QED
  BY <1>9 DEF Lifecycle!Next

LEMMA FailureBreaks ==
    ASSUME TypeOK, NEW t \in Threads, PersistFailed(t)
    PROVE  [Lifecycle!Next]_Lifecycle!lifecycle
<1>1. Trails' = Trails /\ Objects' = Objects
  BY DEF PersistFailed, stores, Trails, Objects
<1>2. PICK d \in Docs : d = Doc(t)
  BY BusyDoc DEF PersistFailed
<1>3. CASE row' = row
  <2>1. Published' = Published
    BY <1>3 DEF Published
  <2>2. QED
    BY <1>1, <2>1 DEF Lifecycle!lifecycle, Published, Trails, Objects
<1>4. CASE row' = [row EXCEPT ![d].status = "persist_failed", ![d].phase = "persist_failed"]
  <2>1. row'[d].status = "persist_failed"
    BY <1>4, StatusParts
  <2>2. \A e \in Docs : e # d => row'[e] = row[e]
    BY <1>4, StatusParts
  <2>3. Published' = [Published EXCEPT ![d] = "persist_failed"]
    BY <2>1, <2>2 DEF Published
  <2>4. Lifecycle!Break(d)
    BY <1>1, <2>3 DEF Lifecycle!Break, Published, Trails, Objects
  <2>5. QED
    BY <2>4 DEF Lifecycle!Next
<1>5. QED
  BY <1>2, <1>3, <1>4 DEF PersistFailed

\* Every other step is invisible.
LEMMA Invisible ==
    ASSUME TypeOK, \A d \in Docs : row'[d].status = row[d].status,
           UNCHANGED <<audit, output>>
    PROVE  UNCHANGED Lifecycle!lifecycle
<1>1. Published' = Published /\ Trails' = Trails /\ Objects' = Objects
  BY DEF Published, Trails, Objects
<1>2. QED
  BY <1>1 DEF Lifecycle!lifecycle, Published, Trails, Objects

LEMMA NextImplements ==
    ASSUME TypeOK, SerialInv, [Next]_vars
    PROVE  [Lifecycle!Next]_Lifecycle!lifecycle
<1>1. CASE row' = row /\ UNCHANGED <<audit, output>>
  BY <1>1, Invisible
<1>2. ASSUME NEW t \in Threads, StampPhase(t)
      PROVE  UNCHANGED Lifecycle!lifecycle
  <2>1. \A d \in Docs : row'[d].status = row[d].status
    BY <1>2, StampKeepsRow
  <2>2. UNCHANGED <<audit, output>>
    BY <1>2 DEF StampPhase, stores
  <2>3. QED
    BY <2>1, <2>2, Invisible
<1>3. ASSUME NEW t \in Threads, Node(t) PROVE row' = row /\ UNCHANGED <<audit, output>>
  BY <1>3, NodeCalm
<1>4. ASSUME NEW t \in Threads,
             \/ QueryEmbedding(t) \/ InsertEmbedding(t)
             \/ UpdateEmbedding(t) \/ PersistReturn(t)
      PROVE  row' = row /\ UNCHANGED <<audit, output>>
  BY <1>4 DEF QueryEmbedding, InsertEmbedding, UpdateEmbedding, PersistReturn, stores
<1>5. ASSUME Review \/ Failure \/ (\E t \in Threads, e \in Docs : Dispatch(t, e))
             \/ UNCHANGED vars
      PROVE  row' = row /\ UNCHANGED <<audit, output>>
  BY <1>5 DEF Review, ListPending, SubmitDecision, Failure, CrashAndRecover, PersistRaises,
              InvocationRaises, Dispatch, vars, stores
<1>6. QED
  BY <1>1, <1>2, <1>3, <1>4, <1>5, AuditRecordsOutcome, ObjectIsStored, StatusIsPublished,
     FailureBreaks DEF Next, Work, Persist

LEMMA InitImplements == Init => Lifecycle!Init
<1> SUFFICES ASSUME Init PROVE Lifecycle!Init
  OBVIOUS
<1>1. \A d \in Docs : /\ row[d].status = "queued" /\ audit[d] = <<>>
                      /\ output[d].written = FALSE
  BY DEF Init, NoObject
<1>2. Published = [d \in Docs |-> "queued"] /\ Objects = [d \in Docs |-> FALSE]
  BY <1>1 DEF Published, Objects
<1>3. Trails = [d \in Docs |-> <<>>]
  <2>1. \A d \in Docs : [i \in 1..Len(audit[d]) |-> audit[d][i].status] = <<>>
    BY <1>1
  <2>2. QED
    BY <2>1 DEF Trails
<1>4. QED
  BY <1>2, <1>3 DEF Lifecycle!Init, Published, Trails, Objects

(***************************************************************************)
(* While the invocations of a document do not meet, the pipeline with its  *)
(* graph, retries, reviews, crashes and failures implements the abstract   *)
(* life of a document.                                                     *)
(***************************************************************************)
THEOREM SerializedImplements == Spec /\ []Serialized => ImplementsLifecycle
<1>1. TypeOK /\ SerialInv /\ [Next]_vars => [Lifecycle!Next]_Lifecycle!lifecycle
  BY NextImplements
<1>2. QED
  BY <1>1, InitImplements, InitSerial, NextSerial, InitType, NextType, ViewsAreGood, PTL
  DEF Spec, ImplementsLifecycle, Lifecycle!Spec

-----------------------------------------------------------------------------
(* One decision per document *)

\* While no decision was submitted on a document, it is offered for review only
\* when it waits for one, and then nothing works on it nor will.
Waiting(d) ==
    /\ d \in listed => row[d].phase = "awaiting_review"
    /\ row[d].phase = "awaiting_review" =>
          d \notin tasks /\ \A t \in Threads : Active(t) => Doc(t) # d

OneInv ==
    /\ Serialized
    /\ \A t \in Threads : ~Free(t) /\ inv[t].resume.given => spent.decisions[Doc(t)] # 0
    /\ \A d \in Docs : spent.decisions[d] = 0 => Waiting(d)

\* A thread that a step leaves at the same document, or takes from it.
Stays(t) ==
    /\ Active(t)' => Active(t) /\ Doc(t)' = Doc(t)
    /\ ~Free(t)' /\ inv'[t].resume.given =>
          ~Free(t) /\ inv[t].resume.given /\ Doc(t)' = Doc(t)

\* How the phase of a document may change: by a thread at work on it, which is the
\* last one when it leaves it awaiting review before any decision.
PhaseMoves(d) ==
    \/ row'[d].phase = row[d].phase
    \/ /\ \E t \in Threads : Active(t) /\ Doc(t) = d
       /\ row'[d].phase = "awaiting_review" /\ spent.decisions[d] = 0 =>
             \A t \in Threads : Active(t)' => Doc(t)' # d

LEMMA StayStep ==
    ASSUME TypeOK, OneInv, \A t \in Threads : Stays(t), \A d \in Docs : PhaseMoves(d),
           tasks' = tasks, listed' = listed, spent'.decisions = spent.decisions
    PROVE  OneInv'
<1>1. Serialized'
  BY DEF OneInv, Serialized, Stays
<1>2. \A t \in Threads : ~Free(t)' /\ inv'[t].resume.given => spent'.decisions[Doc(t)'] # 0
  BY DEF OneInv, Stays
<1>3. ASSUME NEW d \in Docs, spent.decisions[d] = 0 PROVE Waiting(d)'
  <2>1. Waiting(d)
    BY <1>3 DEF OneInv
  <2>2. CASE row'[d].phase = row[d].phase
    BY <2>1, <2>2 DEF Waiting, Stays
  <2>3. CASE row'[d].phase # row[d].phase
    <3>1. PICK t \in Threads : Active(t) /\ Doc(t) = d
      BY <2>3 DEF PhaseMoves
    <3>2. row[d].phase # "awaiting_review" /\ d \notin listed /\ d \notin tasks
      BY <2>1, <3>1 DEF Waiting, OneInv, Serialized
    <3>3. row'[d].phase = "awaiting_review" => \A u \in Threads : Active(u)' => Doc(u)' # d
      BY <1>3, <2>3 DEF PhaseMoves
    <3>4. QED
      BY <3>2, <3>3 DEF Waiting
  <2>4. QED
    BY <2>2, <2>3
<1>4. QED
  BY <1>1, <1>2, <1>3 DEF OneInv

\* A free thread is given a document that nothing works on.
LEMMA EntersAlone ==
    ASSUME TypeOK, OneInv, NEW t \in Threads, NEW d \in Docs, NEW node, NEW chan,
           NEW resume, Start(t, d, node, chan, resume),
           \A u \in Threads : Active(u) => Doc(u) # d,
           row' = row, listed' = listed, d \notin tasks', tasks' \subseteq tasks,
           resume.given => spent'.decisions[d] # 0,
           spent'.decisions[d] = 0 => row[d].phase # "awaiting_review",
           \A e \in Docs : spent'.decisions[e] = 0 => spent.decisions[e] = 0
    PROVE  OneInv'
<1>1. /\ inv'[t].doc = d /\ inv'[t].at = "stamp" /\ inv'[t].node = node
      /\ inv'[t].chan = chan /\ inv'[t].resume = resume
      /\ \A u \in Threads : u # t => inv'[u] = inv[u]
  BY StartParts
<1>2. ASSUME NEW u \in Threads, u # t
      PROVE  /\ Active(u)' <=> Active(u)
             /\ Free(u)' <=> Free(u)
             /\ Doc(u)' = Doc(u) /\ inv'[u] = inv[u]
  BY <1>1, <1>2, StillActive DEF Free, Doc
<1>3. Doc(t)' = d /\ inv'[t].resume = resume
  BY <1>1 DEF Doc
<1>4. Serialized'
  BY <1>2, <1>3 DEF OneInv, Serialized
<1>5. ASSUME NEW u \in Threads, ~Free(u)', inv'[u].resume.given
      PROVE  spent'.decisions[Doc(u)'] # 0
  <2>1. CASE u = t
    BY <1>3, <1>5, <2>1
  <2>2. CASE u # t
    <3>1. ~Free(u) /\ inv[u].resume.given /\ Doc(u)' = Doc(u)
      BY <1>2, <1>5, <2>2
    <3>2. Doc(u) \in Docs
      BY <3>1, BusyDoc DEF Free
    <3>3. QED
      BY <3>1, <3>2 DEF OneInv
  <2>3. QED
    BY <2>1, <2>2
<1>6. ASSUME NEW e \in Docs, spent'.decisions[e] = 0 PROVE Waiting(e)'
  <2>1. Waiting(e)
    BY <1>6 DEF OneInv
  <2>2. row[e].phase = "awaiting_review" => e # d
    BY <1>6
  <2>3. QED
    BY <1>2, <1>3, <2>1, <2>2 DEF Waiting
<1>7. QED
  BY <1>4, <1>5, <1>6 DEF OneInv

LEMMA StoppedStays ==
    ASSUME TypeOK, NEW t \in Threads, Stop(t)
    PROVE  \A u \in Threads : Stays(u)
<1>1. inv'[t] = Idle /\ \A u \in Threads : u # t => inv'[u] = inv[u]
  BY OthersKept DEF Stop
<1>2. QED
  BY <1>1, StillActive DEF Stays, Active, Free, Doc, Idle

LEMMA MovedStays ==
    ASSUME TypeOK, NEW t \in Threads, NEW p, Active(t), inv' = [inv EXCEPT ![t].at = p]
    PROVE  \A u \in Threads : Stays(u)
<1>1. inv[t] \in Busy /\ inv[t].at # "idle"
  BY BusyDoc DEF Active, Free
<1>2. inv'[t] = [inv[t] EXCEPT !.at = p] /\ \A u \in Threads : u # t => inv'[u] = inv[u]
  BY DEF TypeOK
<1>3. inv'[t].doc = inv[t].doc /\ inv'[t].resume = inv[t].resume
  BY <1>1, <1>2 DEF Busy
<1>4. Stays(t)
  BY <1>1, <1>3 DEF Stays, Doc, Free
<1>5. \A u \in Threads : u # t => Stays(u)
  BY <1>2, StillActive DEF Stays, Free, Doc
<1>6. QED
  BY <1>4, <1>5

LEMMA PureStays ==
    ASSUME TypeOK, NEW t \in Threads, NEW chan, NEW next, Active(t), Pure(t, chan, next)
    PROVE  \A u \in Threads : Stays(u)
<1>1. Start(t, Doc(t), next, chan, NoResume)
  BY DEF Pure, Advance
<1>2. PICK d : d = Doc(t)
  OBVIOUS
<1>3. Start(t, d, next, chan, NoResume)
  BY <1>1, <1>2
<1>4. /\ inv'[t].doc = d /\ ~inv'[t].resume.given
      /\ \A u \in Threads : u # t => inv'[u] = inv[u]
  BY <1>3, StartParts DEF NoResume
<1>5. QED
  BY <1>2, <1>4, StillActive DEF Stays, Free, Doc

LEMMA PhaseCases ==
    /\ \A node \in Nodes : PhaseOf[node] = "awaiting_review" => node = "op_b_hitl"
    /\ \A status \in TerminalStatuses \cup {"persist_failed"} : status # "awaiting_review"
    /\ "awaiting_review" \notin InProgressPhases
BY DEF PhaseOf, Nodes, TerminalStatuses, InProgressPhases

LEMMA StampAlone ==
    ASSUME TypeOK, OneInv, NEW t \in Threads, StampPhase(t)
    PROVE  OneInv'
<1>0. inv[t].at = "stamp" /\ Active(t)
  BY DEF StampPhase, Active, Free, In
<1>1. inv' = [inv EXCEPT ![t].at = "run"]
  BY DEF StampPhase
<1>2. \A u \in Threads : Stays(u)
  BY <1>0, <1>1, MovedStays
<1>3. /\ inv'[t].at = "run" /\ inv'[t].node = inv[t].node /\ inv'[t].doc = inv[t].doc
      /\ inv'[t].resume = inv[t].resume
  <2>1. inv[t] \in Busy
    BY <1>0, BusyDoc
  <2>2. inv'[t] = [inv[t] EXCEPT !.at = "run"]
    BY <1>1 DEF TypeOK
  <2>3. QED
    BY <2>1, <2>2 DEF Busy
<1>4. inv[t].node \in Nodes
  BY IdleParts DEF TypeOK, Invocation, Busy
<1>5. tasks' = tasks /\ listed' = listed /\ spent'.decisions = spent.decisions
  BY DEF StampPhase, Fault, TypeOK, Spent
<1>6. ASSUME NEW d \in Docs PROVE PhaseMoves(d)
  <2>1. CASE row'[d].phase = row[d].phase
    BY <2>1 DEF PhaseMoves
  <2>2. CASE row'[d].phase # row[d].phase
    <3>1. row[d] \in Row
      BY DEF TypeOK
    <3>2. row' = [row EXCEPT ![Doc(t)].phase = PhaseOf[inv[t].node]]
      BY <2>2 DEF StampPhase
    <3>3. row'[d] = IF d = Doc(t) THEN [row[d] EXCEPT !.phase = PhaseOf[inv[t].node]] ELSE row[d]
      BY <3>2 DEF TypeOK
    <3>4. d = Doc(t) /\ row'[d].phase = PhaseOf[inv[t].node]
      BY <2>2, <3>1, <3>3 DEF Row
    <3>5. ASSUME row'[d].phase = "awaiting_review", spent.decisions[d] = 0
          PROVE  \A u \in Threads : Active(u)' => Doc(u)' # d
      <4>1. inv[t].node = "op_b_hitl"
        BY <1>4, <3>4, <3>5, PhaseCases
      <4>2. ~inv[t].resume.given
        BY <1>0, <3>4, <3>5 DEF OneInv, Active
      <4>3. ~Active(t)'
        BY <1>3, <4>1, <4>2 DEF Active, In
      <4>4. \A u \in Threads : u # t /\ Active(u) => Doc(u) # d
        BY <1>0, <3>4, ActiveAlone DEF OneInv
      <4>5. QED
        BY <1>2, <4>3, <4>4 DEF Stays
    <3>6. QED
      BY <1>0, <3>4, <3>5 DEF PhaseMoves
  <2>3. QED
    BY <2>1, <2>2
<1>7. QED
  BY <1>2, <1>5, <1>6, StayStep

\* Persisting a status: the phase it sets is never that of a review.
LEMMA StatusAlone ==
    ASSUME TypeOK, OneInv, NEW t \in Threads, Active(t), \A u \in Threads : Stays(u),
           NEW s \in TerminalStatuses \cup {"persist_failed"},
           row' = row \/ row' = [row EXCEPT ![Doc(t)].status = s, ![Doc(t)].phase = s],
           tasks' = tasks, listed' = listed, spent'.decisions = spent.decisions
    PROVE  OneInv'
<1>1. ASSUME NEW d \in Docs PROVE PhaseMoves(d)
  <2>1. CASE row'[d].phase = row[d].phase
    BY <2>1 DEF PhaseMoves
  <2>2. CASE row'[d].phase # row[d].phase
    <3>1. row[d] \in Row
      BY DEF TypeOK
    <3>2. row'[d] = IF d = Doc(t) THEN [[row[d] EXCEPT !.status = s] EXCEPT !.phase = s]
                                  ELSE row[d]
      BY <2>2 DEF TypeOK
    <3>3. d = Doc(t) /\ row'[d].phase = s
      BY <2>2, <3>1, <3>2 DEF Row
    <3>4. s # "awaiting_review"
      BY PhaseCases
    <3>5. QED
      BY <3>3, <3>4 DEF PhaseMoves
  <2>3. QED
    BY <2>1, <2>2
<1>2. QED
  BY <1>1, StayStep

LEMMA UnphasedAlone ==
    ASSUME TypeOK, OneInv, \A u \in Threads : Stays(u),
           \A d \in Docs : row'[d].phase = row[d].phase,
           tasks' = tasks, listed' = listed, spent'.decisions = spent.decisions
    PROVE  OneInv'
BY StayStep DEF PhaseMoves

LEMMA NodeAlone ==
    ASSUME TypeOK, OneInv, NEW t \in Threads, Node(t)
    PROVE  OneInv'
<1>1. UNCHANGED <<row, tasks, listed, spent>>
  BY DEF Node, Master, Classify, UnknownHandler, Extract, TruthEngineNode, ResolutionPlanner,
         StrategyExecutor, OpARetry, Interrupt, OpBHitl, Normalize, Pure
<1>2. CASE Interrupt(t)
  BY <1>1, <1>2, StoppedStays, UnphasedAlone DEF Interrupt
<1>3. CASE ~Interrupt(t)
  <2>1. Active(t)
    BY <1>3 DEF Node, Master, Classify, UnknownHandler, Extract, TruthEngineNode,
                ResolutionPlanner, StrategyExecutor, OpARetry, OpBHitl, Normalize,
                Active, Free, In
  <2>2. PICK chan, next : Pure(t, chan, next)
    <3>1. CASE Classify(t) \/ Extract(t) \/ OpARetry(t)
      BY <3>1 DEF Classify, Extract, OpARetry
    <3>2. CASE Master(t) \/ UnknownHandler(t) \/ TruthEngineNode(t) \/ ResolutionPlanner(t)
               \/ StrategyExecutor(t) \/ Normalize(t)
      BY <3>2 DEF Master, UnknownHandler, TruthEngineNode, ResolutionPlanner,
                  StrategyExecutor, Normalize
    <3>3. CASE OpBHitl(t)
      <4>1. Pure(t, Reviewed(Chan(t), inv[t].resume), "normalize")
        BY <3>3 DEF OpBHitl
      <4>2. QED
        BY <4>1
    <3>4. QED
      BY <1>3, <3>1, <3>2, <3>3 DEF Node
  <2>3. \A u \in Threads : Stays(u)
    BY <2>1, <2>2, PureStays
  <2>4. QED
    BY <1>1, <2>3, UnphasedAlone
<1>4. QED
  BY <1>2, <1>3

LEMMA PersistAlone ==
    ASSUME TypeOK, OneInv, NEW t \in Threads, Persist(t)
    PROVE  OneInv'
<1>1. Active(t)
  BY DEF Persist, PersistAudit, PersistObject, QueryEmbedding, InsertEmbedding,
         UpdateEmbedding, PersistStatus, PersistReturn, PersistFailed, Active, Free, In
<1>2. Chan(t) \in Channels
  BY <1>1, BusyDoc DEF Active, Free
<1>3. tasks' = tasks /\ listed' = listed /\ spent'.decisions = spent.decisions
  BY DEF Persist, PersistAudit, PersistObject, QueryEmbedding, InsertEmbedding,
         UpdateEmbedding, PersistStatus, PersistReturn, PersistFailed, Fault, TypeOK, Spent
<1>4. CASE PersistStatus(t)
  <2>1. TerminalStatus(Chan(t)) \in TerminalStatuses
    BY <1>2, TerminalStatusType
  <2>2. PICK s \in TerminalStatuses :
            row' = [row EXCEPT ![Doc(t)].status = s, ![Doc(t)].phase = s]
    BY <1>4, <2>1 DEF PersistStatus
  <2>3. \A u \in Threads : Stays(u)
    BY <1>1, <1>4, MovedStays DEF PersistStatus
  <2>4. QED
    BY <1>1, <1>3, <2>2, <2>3, StatusAlone
<1>5. CASE PersistFailed(t)
  <2>1. \A u \in Threads : Stays(u)
    BY <1>5, StoppedStays DEF PersistFailed
  <2>2. \/ row' = row
        \/ row' = [row EXCEPT ![Doc(t)].status = "persist_failed",
                              ![Doc(t)].phase = "persist_failed"]
    BY <1>5 DEF PersistFailed
  <2>3. QED
    BY <1>1, <1>3, <2>1, <2>2, StatusAlone
<1>6. CASE PersistReturn(t)
  <2>1. \A u \in Threads : Stays(u)
    BY <1>6, StoppedStays DEF PersistReturn
  <2>2. row' = row
    BY <1>6 DEF PersistReturn
  <2>3. QED
    BY <1>3, <2>1, <2>2, UnphasedAlone
<1>7. CASE PersistAudit(t)
  <2>1. inv' = [inv EXCEPT ![t].at = "object"]
    BY <1>7 DEF PersistAudit
  <2>2. \A u \in Threads : Stays(u)
    BY <1>1, <2>1, MovedStays
  <2>3. \A d \in Docs : row'[d].phase = row[d].phase
    BY <1>7, AuditKeepsStatus
  <2>4. QED
    BY <1>3, <2>2, <2>3, UnphasedAlone
<1>8. CASE PersistObject(t) \/ QueryEmbedding(t) \/ InsertEmbedding(t) \/ UpdateEmbedding(t)
  <2>1. PICK p : inv' = [inv EXCEPT ![t].at = p]
    BY <1>8 DEF PersistObject, QueryEmbedding, InsertEmbedding, UpdateEmbedding
  <2>2. \A u \in Threads : Stays(u)
    BY <1>1, <2>1, MovedStays
  <2>3. row' = row
    BY <1>8 DEF PersistObject, QueryEmbedding, InsertEmbedding, UpdateEmbedding
  <2>4. QED
    BY <1>3, <2>2, <2>3, UnphasedAlone
<1>9. QED
  BY <1>4, <1>5, <1>6, <1>7, <1>8 DEF Persist

LEMMA FailureAlone ==
    ASSUME TypeOK, OneInv, Failure
    PROVE  OneInv'
<1>1. ASSUME NEW t \in Threads, PersistRaises(t) PROVE OneInv'
  <2>1. inv' = [inv EXCEPT ![t].at = "handler"]
    BY <1>1 DEF PersistRaises
  <2>2. Active(t)
    BY <1>1 DEF PersistRaises, Active, Free, In
  <2>3. \A u \in Threads : Stays(u)
    BY <2>1, <2>2, MovedStays
  <2>4. UNCHANGED <<row, tasks, listed>> /\ spent'.decisions = spent.decisions
    BY <1>1 DEF PersistRaises, Fault, TypeOK, Spent
  <2>5. QED
    BY <2>3, <2>4, UnphasedAlone
<1>2. ASSUME NEW t \in Threads, InvocationRaises(t) PROVE OneInv'
  <2>1. UNCHANGED <<row, tasks, listed>> /\ spent'.decisions = spent.decisions
    BY <1>2 DEF InvocationRaises, Fault, TypeOK, Spent
  <2>2. QED
    BY <1>2, <2>1, StoppedStays, UnphasedAlone DEF InvocationRaises
<1>3. CASE CrashAndRecover
  <2>1. \A t \in Threads : Free(t)'
    BY <1>3 DEF CrashAndRecover, Free, Idle
  <2>2. \A d \in tasks' : row[d].phase # "awaiting_review"
    BY <1>3, PhaseCases DEF CrashAndRecover, Stranded
  <2>3. row' = row /\ listed' = listed /\ spent'.decisions = spent.decisions
    BY <1>3 DEF CrashAndRecover, TypeOK, Spent
  <2>4. QED
    BY <2>1, <2>2, <2>3 DEF OneInv, Serialized, Waiting, Active
<1>4. QED
  BY <1>1, <1>2, <1>3 DEF Failure

LEMMA InitAlone == Init => OneInv
<1> SUFFICES ASSUME Init PROVE OneInv
  OBVIOUS
<1>1. \A t \in Threads : Free(t)
  BY DEF Init, Free, Idle
<1>2. \A d \in Docs : d \notin listed /\ row[d].phase = "ingested"
  BY DEF Init
<1>3. QED
  BY <1>1, <1>2 DEF OneInv, Serialized, Waiting, Active

LEMMA NextAlone ==
    ASSUME MaxDecisions \in {0, 1}, TypeOK, OneInv, [Next]_vars
    PROVE  OneInv'
<1>1. ASSUME NEW t \in Threads, NEW d \in Docs, Dispatch(t, d) PROVE OneInv'
  <2>1. PICK chan : Start(t, d, "master", chan, NoResume)
    BY <1>1 DEF Dispatch
  <2>2. \A u \in Threads : Active(u) => Doc(u) # d
    BY <1>1 DEF Dispatch, OneInv, Serialized
  <2>3. spent.decisions[d] = 0 => row[d].phase # "awaiting_review"
    BY <1>1 DEF Dispatch, OneInv, Waiting
  <2>4. /\ row' = row /\ listed' = listed /\ spent' = spent
        /\ d \notin tasks' /\ tasks' \subseteq tasks
    BY <1>1 DEF Dispatch
  <2>5. ~NoResume.given
    BY DEF NoResume
  <2>6. QED
    BY <2>1, <2>2, <2>3, <2>4, <2>5, EntersAlone
<1>2. ASSUME NEW t \in Threads, NEW d \in Docs, NEW approved, NEW c,
             SubmitDecision(t, d, approved, c)
      PROVE  OneInv'
  <2>1. PICK node, chan, resume : Start(t, d, node, chan, resume)
    BY <1>2 DEF SubmitDecision
  <2>2. spent.decisions[d] = 0
    BY <1>2 DEF SubmitDecision, TypeOK, Spent
  <2>3. d \notin tasks /\ \A u \in Threads : Active(u) => Doc(u) # d
    BY <1>2, <2>2 DEF SubmitDecision, OneInv, Waiting
  <2>4. row' = row /\ listed' = listed /\ tasks' = tasks
    BY <1>2 DEF SubmitDecision
  <2>5. spent'.decisions[d] = 1 /\ \A e \in Docs : e # d => spent'.decisions[e] = spent.decisions[e]
    BY <1>2, <2>2 DEF SubmitDecision, TypeOK, Spent
  <2>6. QED
    BY <2>1, <2>2, <2>3, <2>4, <2>5, EntersAlone
<1>3. CASE ListPending
  <2>1. /\ UNCHANGED <<row, inv, tasks, spent>>
        /\ \A d \in listed' : row[d].phase = "awaiting_review"
    BY <1>3 DEF ListPending
  <2>2. QED
    BY <2>1 DEF OneInv, Serialized, Waiting, Active, Free, In, Doc
<1>4. CASE UNCHANGED vars
  BY <1>4 DEF vars, OneInv, Serialized, Waiting, Active, Free, In, Doc
<1>5. QED
  BY <1>1, <1>2, <1>3, <1>4, StampAlone, NodeAlone, PersistAlone, FailureAlone
  DEF Next, Work, Review

(***************************************************************************)
(* As long as no document is decided twice, the invocations of a document  *)
(* never meet: neither the first run, nor a recovery after a crash, nor    *)
(* the decision finds another one at work.                                 *)
(***************************************************************************)
THEOREM OneDecisionSerializes ==
    ASSUME MaxDecisions \in {0, 1}
    PROVE  Spec => []Serialized
<1>1. TypeOK /\ OneInv /\ [Next]_vars => OneInv'
  BY NextAlone
<1>2. OneInv => Serialized
  BY DEF OneInv
<1>3. QED
  BY <1>1, <1>2, InitAlone, InitType, NextType, PTL DEF Spec

(***************************************************************************)
(* Without a second decision on a document, what it stores is durable, and *)
(* write_output implements the abstract life of a document.                *)
(***************************************************************************)
THEOREM OneDecisionIsEnough ==
    ASSUME MaxDecisions \in {0, 1}
    PROVE  Spec => []DurableResult /\ ImplementsLifecycle /\ RejectionIsFinal
BY OneDecisionSerializes, SerializedIsDurable, SerializedImplements,
   SerializedRejectionIsFinal, PTL
=============================================================================
