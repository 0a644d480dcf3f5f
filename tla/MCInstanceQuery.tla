--------------------------- MODULE MCInstanceQuery ---------------------------
(***************************************************************************)
(* The graphs of MCEngine, with one request and one query at a time.       *)
(***************************************************************************)
EXTENDS InstanceQuery, MCEngine
=============================================================================
