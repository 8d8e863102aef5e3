------------------------------- MODULE KvCache -------------------------------
(***************************************************************************)
(* What the decode loop relies on: the KV cache is a sequence of committed *)
(* rows.  A prefill seeds it, accepted tokens extend it, and it is given   *)
(* up when the run ends or a write fails, until the next seeding.          *)
(***************************************************************************)
EXTENDS Naturals, Sequences

CONSTANTS
  Row,        \* the keys and values one token leaves in one layer
  CacheLen    \* layout.cache_len: rows the cache can hold

VARIABLES
  usable,     \* a graph may be launched on the cache
  rows        \* the committed rows, oldest first

vars == <<usable, rows>>

Init == usable = FALSE /\ rows = <<>>

Seed ==
  /\ ~usable /\ usable'
  /\ rows' \in Seq(Row)
  /\ Len(rows') \in 1 .. CacheLen

Extend ==
  /\ usable /\ usable'
  /\ rows' \in Seq(Row)
  /\ Len(rows') \in Len(rows) + 1 .. CacheLen
  /\ SubSeq(rows', 1, Len(rows)) = rows

Discard == usable' = FALSE /\ rows' = <<>>

Next == Seed \/ Extend \/ Discard

Spec == Init /\ [][Next]_vars
==============================================================================
