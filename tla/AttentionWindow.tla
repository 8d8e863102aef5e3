--------------------------- MODULE AttentionWindow ---------------------------
(***************************************************************************)
(* Attention masks and position ids of the language graphs.  A graph has   *)
(* CacheLen key columns; the last q of them are its own query rows, the    *)
(* columns before are cache rows.  A mask row is modelled by the set of    *)
(* columns it allows, all counted from 0 as in the code.                   *)
(***************************************************************************)
EXTENDS Naturals

CONSTANTS
  CacheLen,   \* cache_len: columns of a mask
  Block       \* block_size: rows of a PBD window, 6 in every graph

\* The first column of the query's own rows.
CurrentStart(q) == CacheLen - q

\* Columns from one bound up to, and without, the other.
Columns(from, to) == {j \in 0 .. CacheLen - 1 : from <= j /\ j < to}

------------------------------------------------------------------------------
(* Decode graphs: BuildAttentionMaskData, BuildPositions *)

\* Faulty variant: the history begins at the first column.
HistoryLeftAligned(q, past) == Columns(0, past)

History(q, past) == Columns(CurrentStart(q) - past, CurrentStart(q))
Causal(q, i) == Columns(CurrentStart(q), CurrentStart(q) + i + 1)

\* Faulty variant: the hidden column is counted from the query's first column.
BlockMaskByQuery(q, past, i) ==
  (History(q, past) \union Causal(q, i) \union Columns(CacheLen - Block, CacheLen))
    \ Columns(CurrentStart(q) - 1, CurrentStart(q))

\* A row of the PBD window sees the window in both directions and everything
\* before it but the token right before, which its first row stands for.
BlockMask(q, past, i) ==
  (History(q, past) \union Causal(q, i) \union Columns(CacheLen - Block, CacheLen))
    \ Columns(CacheLen - Block - 1, CacheLen - Block)

\* Columns that row i of a decode graph with q rows may look at.
DecodeMask(q, past, pbd, i) ==
  IF pbd /\ q >= Block /\ i >= q - Block THEN BlockMask(q, past, i)
  ELSE History(q, past) \union Causal(q, i)

\* The position of row i; `prefix` accepted tokens go before a PBD window.
DecodePosition(past, prefix, pbd, i) ==
  IF pbd /\ i >= prefix THEN past + i - 1 ELSE past + i

------------------------------------------------------------------------------
(* The prefill graph: q rows, the prompt right-aligned, and with a fused     *)
(* first window Block leading rows for it: BuildMask, BuildPositions.        *)

RowOffset(q, active) == q - active

\* Faulty variant: the window also sees the prompt's last token.
FusedMaskWithLast(q, active) ==
  Columns(CurrentStart(q), CurrentStart(q) + Block)
    \union Columns(CurrentStart(q) + RowOffset(q, active), CacheLen)

FusedMask(q, active) ==
  Columns(CurrentStart(q), CurrentStart(q) + Block)
    \union Columns(CurrentStart(q) + RowOffset(q, active), CacheLen - 1)

PrefillMask(q, active, fused, i) ==
  IF fused /\ i < Block THEN FusedMask(q, active)
  ELSE IF i < RowOffset(q, active)
       THEN Columns(CurrentStart(q) + i, CurrentStart(q) + i + 1)
       ELSE Columns(CurrentStart(q) + RowOffset(q, active), CurrentStart(q) + i + 1)

PrefillPosition(q, active, fused, i) ==
  IF fused /\ i < Block THEN active - 1 + i
  ELSE IF i < RowOffset(q, active) THEN 0
       ELSE i - RowOffset(q, active)
==============================================================================
