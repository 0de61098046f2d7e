-------------------------------- MODULE MCSchema --------------------------------
(***************************************************************************)
(* A schema with a required scalar and a required array field, and one     *)
(* label that may be discovered besides.                                   *)
(***************************************************************************)
EXTENDS SchemaGovernance

CONSTANTS p1, p2, p3, r1, r2

MCReference == {[name |-> "holder", kind |-> "scalar", required |-> TRUE],
                [name |-> "lines", kind |-> "array", required |-> TRUE]}
===============================================================================
