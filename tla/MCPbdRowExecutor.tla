-------------------------- MODULE MCPbdRowExecutor --------------------------
(* Small instances of PbdRowExecutor. *)
EXTENDS PbdRowExecutor
==============================================================================
