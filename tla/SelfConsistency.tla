---------------------------- MODULE SelfConsistency ----------------------------
(***************************************************************************)
(* The vote over several extractions of one document                       *)
(* (agents/self_consistency.py).  A sample is what one pass returned: its  *)
(* data is a partial function from field names to JSON values.             *)
(***************************************************************************)
EXTENDS Integers, FiniteSets, Sequences

CONSTANTS
    Null,       \* JSON null, and what dict.get answers for an absent key
    ListFields  \* fields whose values are JSON arrays: Python cannot hash them

\* The band of confidences, in percent, that triggers the vote.
SCLow == 60
SCHigh == 85

ShouldVote(confidence) == SCLow <= confidence /\ confidence < SCHigh

Get(data, f) == IF f \in DOMAIN data THEN data[f] ELSE Null

\* The values of field f in the order of the samples; a sample without the
\* field, a failed one among them, votes for Null.
Ballot(samples, f) == [i \in DOMAIN samples |-> Get(samples[i].data, f)]

\* Mutant: one vote is enough.
AnyVote(samples, f, v) == \E i \in DOMAIN samples : Ballot(samples, f)[i] = v

Majority(samples, f, v) ==
    2 * Cardinality({i \in DOMAIN samples : Ballot(samples, f)[i] = v}) > Len(samples)

Unhashable(samples, f) ==
    f \in ListFields /\ \E i \in DOMAIN samples : Ballot(samples, f)[i] # Null

\* Mutant: ties go to the last sample.
LastSample(samples) == samples[Len(samples)]

\* max(results, key=confidence): the first sample of the highest confidence.
BestSample(samples) ==
    samples[CHOOSE i \in DOMAIN samples :
                \A j \in DOMAIN samples :
                    \/ samples[j].confidence < samples[i].confidence
                    \/ samples[j].confidence = samples[i].confidence /\ i <= j]

Voted(samples, f) ==
    IF ~Unhashable(samples, f)
         /\ \E i \in DOMAIN samples : Majority(samples, f, Ballot(samples, f)[i])
    THEN CHOOSE v \in {Ballot(samples, f)[i] : i \in DOMAIN samples} :
            Majority(samples, f, v)
    ELSE Get(BestSample(samples).data, f)

Vote(samples) ==
    [success    |-> TRUE,
     confidence |-> BestSample(samples).confidence,
     data       |-> [f \in UNION {DOMAIN samples[i].data : i \in DOMAIN samples} |->
                        Voted(samples, f)]]
=============================================================================
