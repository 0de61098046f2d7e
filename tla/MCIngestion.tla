------------------------------ MODULE MCIngestion ------------------------------
(***************************************************************************)
(* Two requests and two watched files: three calls race for one content,   *)
(* the fourth brings another.                                              *)
(***************************************************************************)
EXTENDS Ingestion

CONSTANTS u1, u2, u3, u4, c1, c2

MCContentOf == [u \in Uploads |-> IF u = u4 THEN c2 ELSE c1]
MCSourceOf == [u \in Uploads |-> IF u \in {u1, u4} THEN "http" ELSE "folder_watch"]
===============================================================================
