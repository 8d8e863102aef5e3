----------------------------- MODULE MCGraphInputs -----------------------------
(* Small instances of the ring and the graphs on it: rows are interchangeable. *)
EXTENDS GraphInputs, TLC

Symmetry == Permutations(Row)
==============================================================================
