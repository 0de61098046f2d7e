------------------------------ MODULE MCPipeline ------------------------------
(***************************************************************************)
(* A passport pipeline for TLC: two required fields, one optional, one     *)
(* verifier, and the extractions that reach each outcome of the planner.   *)
(***************************************************************************)
EXTENDS PipelineClaims

TLC == INSTANCE TLC

CONSTANTS d1, t1, t2

\* No definition tells the threads apart.
ThreadSymmetry == TLC!Permutations({t1, t2})

MCRequired == [dt \in {"passport"} |-> {"id", "name"}]
MCOptional == [dt \in {"passport"} |-> {"note"}]
MCVerifiers == [dt \in {"passport"} |-> {"checksum"}]
MCReads == [v \in {"checksum"} |-> {"id"}]
MCMapped == [dt \in {"passport"} |-> {"id", "name"}]
MCProceed == [dt \in {"passport", "UNKNOWN"} |-> 70]

Named == [d \in Docs |-> "passport"]
Unnamed == [d \in Docs |-> NoType]

Answer(success, dt, confidence) ==
    [success |-> success, doc_type |-> dt, confidence |-> confidence]

Certain == {Answer(TRUE, "passport", 100)}
Uncertain == {Answer(TRUE, "passport", 100), Answer(TRUE, "passport", 40)}
AnyAnswer == Uncertain \cup {Answer(FALSE, "passport", 0), Answer(TRUE, "visa", 90)}

Extraction(success, fields, confidence) ==
    [success |-> success, fields |-> fields, confidence |-> confidence]

Id(v) == [f \in {"id"} |-> v]
Full(v) == [f \in {"id", "name"} |-> IF f = "id" THEN v ELSE "good"]
Extra(v) == [f \in {"id", "name", "memo"} |-> IF f = "id" THEN v ELSE "good"]

\* Accepted; a failing verifier; a missing field at a confidence that allows
\* completion; a low confidence; an unknown field besides; a call that failed.
Accepted == Extraction(TRUE, Full("good"), 95)
Refused == Extraction(TRUE, Full("bad"), 95)
Partial == Extraction(TRUE, Id("good"), 95)
Unsure == Extraction(TRUE, Full("null"), 60)
Surplus == Extraction(TRUE, Extra("good"), 95)
Nothing == Extraction(FALSE, NoFields, 0)

Two == {Accepted, Refused}
Three == {Accepted, Refused, Partial}
All == {Accepted, Refused, Partial, Unsure, Surplus, Nothing}

Corrects == {NoFields, Id("good"), Id("bad")}
Notes == {NoFields, [f \in {"note"} |-> "good"]}
===============================================================================
