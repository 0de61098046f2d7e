---------------------------- MODULE PipelineClaims ----------------------------
(***************************************************************************)
(* What comments and documents of the repository say of the pipeline and   *)
(* its code does not do; each has a run whose trace shows how.             *)
(***************************************************************************)
EXTENDS Pipeline

(***************************************************************************)
(* unknown_handler.py:11-13, "Sets error so write_output computes          *)
(* status='failed'": a document routed as UNKNOWN ends as failed.          *)
(***************************************************************************)
UnknownFails ==
    \A d \in Docs : (row[d].doc_type = "UNKNOWN" /\ row[d].status \in TerminalStatuses)
                        => row[d].status = "failed"

(***************************************************************************)
(* api/main.py:51, "Re-run pipeline for documents killed mid-flight by a   *)
(* container restart": whatever a restart interrupts is eventually decided *)
(* or offered to a reviewer.                                               *)
(***************************************************************************)
KilledIsRerun == \A d \in Docs : []<>Settled(d)

(***************************************************************************)
(* output_writer.py:26, "Human rejection is final."                        *)
(***************************************************************************)
RejectionIsFinal ==
    [][\A d \in Docs : row[d].status = "rejected" => row'[d].status # "completed"]_vars

(***************************************************************************)
(* pipelines/state.py, hitl_correction, "Set to True by op_b_hitl_node     *)
(* when human corrections were applied": what is embedded as a correction  *)
(* contains one a reviewer may have made.                                  *)
(***************************************************************************)
CorrectionIsEmbedded ==
    \A d \in Docs : \A e \in embedding[d] : e.source = "hitl_correction" =>
        \E c \in Corrections \ {NoFields} :
            \A f \in DOMAIN c : f \in DOMAIN e.fields /\ e.fields[f] = c[f]
=============================================================================
