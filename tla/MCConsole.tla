------------------------------ MODULE MCConsole ------------------------------
(* Small instances of Console: every medium has the same stem, so that all     *)
(* requests share one output directory.                                        *)
EXTENDS Console

MCStem == [m \in Images \union Videos |-> "media"]
==============================================================================
