----------------------------- MODULE MCHbmSession -----------------------------
(* Small instances of HbmSession; graphs and device buffers are alike. *)
EXTENDS HbmSession, TLC

Symmetry == Permutations(Graphs) \union Permutations(Resident)
===============================================================================
