--------------------------- MODULE MCFramePipeline ---------------------------
(* Small instances of FramePipeline; the .cfg files give the bounds. *)
EXTENDS FramePipeline
==============================================================================
