---------------------------- MODULE ExtractionAgent ----------------------------
(***************************************************************************)
(* One extraction after another by the extraction agent                    *)
(* (agents/extract_agent.py) over the model client (agents/llm_client.py): *)
(* each sample is one generate() call, which repeats a remote call that    *)
(* fails transiently; a confidence in the band asks for two more samples   *)
(* and a vote.  The model behind the call is external: at any attempt it   *)
(* may answer anything, nothing, or fail.  The back-off sleeps are left    *)
(* out.                                                                    *)
(***************************************************************************)
EXTENDS SelfConsistency

CONSTANTS
    DocTypes,     \* document types the pipeline extracts
    RepliesOf,    \* [DocTypes -> replies the model may give on such a document]
    NoConfidence, \* the reply names no confidence
    LLMRetries    \* _MAX_RETRIES

\* An envelope {fields, overall_confidence}, or a flat dict of fields.
IsReply(r) == /\ r.form \in {"envelope", "flat"}
              /\ DOMAIN r.fields \subseteq STRING
              /\ r.confidence \in Int \cup {NoConfidence}

ASSUME AgentAssumption ==
    /\ LLMRetries \in Nat
    /\ NoConfidence \notin Int
    /\ \A dt \in DocTypes : \A r \in RepliesOf[dt] : IsReply(r)

VARIABLES
    doc_type,   \* of the document being extracted
    samples,    \* results of _extract_once so far
    attempt,    \* attempt of the remote call in progress, from 0
    calls,      \* remote calls made for this document
    result      \* what extract() returned

agentVars == <<doc_type, samples, attempt, calls, result>>

NoData == [f \in {} |-> Null]
NoResult == [done |-> FALSE, success |-> FALSE, confidence |-> 0, fields |-> NoData]

\* Mutant: the default confidence is given to a failure too.
FailedSampleRated == [success |-> FALSE, confidence |-> 90, data |-> NoData]

\* What _extract_once returns for any exception.
FailedSample == [success |-> FALSE, confidence |-> 0, data |-> NoData]

Init ==
    /\ doc_type \in DocTypes
    /\ samples = <<>>
    /\ attempt = 0
    /\ calls = 0
    /\ result = NoResult

\* An absent confidence is 0.9; in a flat reply `or` also replaces 0.
Confidence(r) ==
    IF r.confidence = NoConfidence \/ (r.form = "flat" /\ r.confidence = 0)
    THEN 90 ELSE r.confidence

Parsed(r) == [success |-> TRUE, confidence |-> Confidence(r), data |-> r.fields]

Answer(sample) ==
    [done |-> TRUE, success |-> sample.success,
     confidence |-> sample.confidence, fields |-> sample.data]

\* Mutant: three samples besides the first.
WantedOneMore(taken) ==
    IF taken[1].success /\ ShouldVote(taken[1].confidence) THEN 4 ELSE 1

\* How many samples extract() takes, given the first.
Wanted(taken) ==
    IF taken[1].success /\ ShouldVote(taken[1].confidence) THEN 3 ELSE 1

\* A sample is complete: take the next one, or return.
Take(sample) ==
    LET taken == Append(samples, sample)
    IN  /\ samples' = taken
        /\ attempt' = 0
        /\ calls' = calls + 1
        /\ result' = IF Len(taken) < Wanted(taken) THEN result
                     ELSE Answer(IF Len(taken) = 1 THEN sample ELSE Vote(taken))
        /\ UNCHANGED doc_type

Extracting == ~result.done

ModelReplies ==
    /\ Extracting
    /\ \E r \in RepliesOf[doc_type] : Take(Parsed(r))

\* The reply is no JSON object or its confidence no number; or it has no text, which
\* generate() raises outside the retry loop; or the call raised an error that is not
\* retried, or a transient one at the last attempt.
CallRaises ==
    /\ Extracting
    /\ Take(FailedSample)

\* Mutant: the attempt after the last is made too.
RetryOnceMore ==
    /\ Extracting
    /\ attempt <= LLMRetries
    /\ attempt' = attempt + 1
    /\ calls' = calls + 1
    /\ UNCHANGED <<doc_type, samples, result>>

\* A network error or a message that names a server error: back off, call again.
Retry ==
    /\ Extracting
    /\ attempt < LLMRetries
    /\ attempt' = attempt + 1
    /\ calls' = calls + 1
    /\ UNCHANGED <<doc_type, samples, result>>

\* The agent is called for another document.
NextDocument ==
    /\ ~Extracting
    /\ doc_type' \in DocTypes
    /\ samples' = <<>>
    /\ attempt' = 0
    /\ calls' = 0
    /\ result' = NoResult

Next == ModelReplies \/ CallRaises \/ Retry \/ NextDocument

Spec == Init /\ [][Next]_agentVars
=============================================================================
