-------------------------- MODULE DocumentLifecycle --------------------------
(***************************************************************************)
(* What the pipeline promises about one stored document, whatever the      *)
(* graph does to get there: an outcome is recorded in the audit trail,     *)
(* then the result object is stored, then that outcome, the last recorded, *)
(* is published as the document's status.  A published outcome is only     *)
(* replaced by "persist_failed".                                           *)
(***************************************************************************)
EXTENDS Integers, Sequences

CONSTANT Docs   \* documents

VARIABLES
    status,     \* what readers see of the document
    recorded,   \* the outcomes of the audit trail, oldest first
    stored      \* whether the result object exists

lifecycle == <<status, recorded, stored>>

\* What a run of the pipeline can end with.
Outcomes == {"completed", "failed", "verification_failed", "rejected"}

Last(d) == recorded[d][Len(recorded[d])]

Init ==
    /\ status = [d \in Docs |-> "queued"]
    /\ recorded = [d \in Docs |-> <<>>]
    /\ stored = [d \in Docs |-> FALSE]

\* While an outcome is published only the same outcome can be recorded again.
Record(d, outcome) ==
    /\ status[d] \in Outcomes => outcome = status[d]
    /\ recorded' = [recorded EXCEPT ![d] = Append(@, outcome)]
    /\ UNCHANGED <<status, stored>>

Store(d) ==
    /\ recorded[d] # <<>>
    /\ stored' = [stored EXCEPT ![d] = TRUE]
    /\ UNCHANGED <<status, recorded>>

Publish(d) ==
    /\ stored[d]
    /\ status' = [status EXCEPT ![d] = Last(d)]
    /\ UNCHANGED <<recorded, stored>>

Break(d) ==
    /\ status' = [status EXCEPT ![d] = "persist_failed"]
    /\ UNCHANGED <<recorded, stored>>

Next == \E d \in Docs : \/ \E outcome \in Outcomes : Record(d, outcome)
                        \/ Store(d) \/ Publish(d) \/ Break(d)

Spec == Init /\ [][Next]_lifecycle

-----------------------------------------------------------------------------
LifecycleType ==
    /\ status \in [Docs -> {"queued", "persist_failed"} \cup Outcomes]
    /\ recorded \in [Docs -> Seq(Outcomes)]
    /\ stored \in [Docs -> BOOLEAN]

(***************************************************************************)
(* A published outcome is the last one of the audit trail, and its result  *)
(* can be fetched.                                                         *)
(***************************************************************************)
Consistent ==
    \A d \in Docs :
        /\ stored[d] => recorded[d] # <<>>
        /\ status[d] \in Outcomes => stored[d] /\ Last(d) = status[d]

(***************************************************************************)
(* A document never goes from one outcome to another, nor back to queued.  *)
(***************************************************************************)
OutcomeIsFinal ==
    [][\A d \in Docs : status[d] \in Outcomes =>
            status'[d] \in {status[d], "persist_failed"}]_lifecycle
=============================================================================
