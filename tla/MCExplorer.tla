------------------------------ MODULE MCExplorer ------------------------------
(***************************************************************************)
(* A reader of the page of the document that MCPipeline describes.         *)
(***************************************************************************)
EXTENDS MCPipeline, Explorer
===============================================================================
