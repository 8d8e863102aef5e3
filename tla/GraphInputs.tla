----------------------------- MODULE GraphInputs -----------------------------
(***************************************************************************)
(* What a language graph sees: the rows of the ring its inputs are bound   *)
(* to, the tokens it is given, and the mask and positions that select and  *)
(* place them, put together.  No variable of its own: the properties speak *)
(* about every graph that could be launched in a state of the ring.        *)
(***************************************************************************)
EXTENDS KvRing

CONSTANTS
  Block,        \* rows of a PBD window
  MaskToken,    \* kTextMaskToken
  PrefillLen    \* rows of the prefill graph

ASSUME GraphAssumption ==
  /\ Block \in Nat \ {0} /\ PrefillLen \in 1 .. CacheLen
  /\ MaskToken \notin Row

INSTANCE AttentionWindow

Last(s) == s[Len(s)]
Masks(n) == [k \in 1 .. n |-> MaskToken]

\* The tokens of a PBD window: the text's last token again, then masks.
WindowInput(text) == <<Last(text)>> \o Masks(Block - 1)

------------------------------------------------------------------------------
(* A decode graph on the tokens `query`, of which the first `prefix` are     *)
(* accepted tokens without rows; the window of a PBD graph follows them.     *)

\* What key column j holds: the graph drops the first rows of the cache window
\* it is bound to and appends its own (attention_mask.cpp:98).
DecodeKey(t, query, j) ==
  IF j < CurrentStart(Len(query)) THEN storage[t][start[t] + j + Len(query)]
  ELSE query[j - CurrentStart(Len(query)) + 1]

\* The position that key was given when its row was computed: a committed row
\* is at its place in the text.
DecodeKeyPosition(query, prefix, pbd, j) ==
  IF j < CurrentStart(Len(query))
  THEN j + Len(query) - (CacheLen - Len(committed))
  ELSE DecodePosition(Len(committed), prefix, pbd, j - CurrentStart(Len(query)))

\* Through the mask one sees the whole text and nothing else: every key lies at
\* its token's position, no position is without a key and none has two.
SeesText(mask, key(_), position(_), text) ==
  /\ \A j \in mask : position(j) + 1 \in 1 .. Len(text) /\ key(j) = text[position(j) + 1]
  /\ \A p \in 1 .. Len(text) : \E j \in mask : position(j) + 1 = p
  /\ \A j, k \in mask : position(j) = position(k) => j = k

\* Row i of a decode graph sees the text.
DecodeRowSees(t, query, prefix, pbd, i, text) ==
  LET Key(j) == DecodeKey(t, query, j)
      Position(j) == DecodeKeyPosition(query, prefix, pbd, j)
  IN SeesText(DecodeMask(Len(query), Len(committed), pbd, i), Key, Position, text)

\* Every accepted token sees the text up to itself.
CausalRowsSeeText(t, query, prefix, pbd, rows) ==
  \A i \in 0 .. rows - 1 :
    DecodeRowSees(t, query, prefix, pbd, i, committed \o SubSeq(query, 1, i + 1))

\* Every row of the window sees the whole text and the window behind it.
WindowRowsSeeText(t, query, prefix) ==
  \A i \in prefix .. Len(query) - 1 :
    DecodeRowSees(t, query, prefix, TRUE, i,
                  committed \o SubSeq(query, 1, prefix) \o Masks(Block - 1))

Launchable(n) == Len(committed) + n <= CacheLen

------------------------------------------------------------------------------
(* Properties *)

\* An autoregressive graph: row i sees the committed text and the query up to
\* itself, whatever the ring went through - nothing stale, nothing twice.
ArGraphSeesText ==
  phase = "ready" =>
    \A t \in Tensors, query \in Updates(MaxQuery) :
      Launchable(Len(query)) => CausalRowsSeeText(t, query, 0, FALSE, Len(query))

\* A PBD graph: the prefix rows are causal, so they can be committed; the rows
\* of the window see the text, its last token only through the window's first
\* row, at that token's position (attention_mask.cpp:133, language.cpp:1165).
PbdGraphSeesText ==
  phase = "ready" =>
    \A t \in Tensors, accepted \in Updates(MaxQuery) \union {<<>>} :
      LET query == accepted \o WindowInput(committed \o accepted) IN
      Launchable(Len(query)) =>
        /\ CausalRowsSeeText(t, query, Len(accepted), TRUE, Len(accepted))
        /\ WindowRowsSeeText(t, query, Len(accepted))

\* The prefill graph on the prompt whose rows are being seeded: prompt row i
\* sees the prompt up to itself and a fused window sees it as a PBD graph would.
PrefillSeesPrompt ==
  phase = "seed" /\ Len(update) <= PrefillLen =>
    LET n == Len(update)
        fused == n + Block <= PrefillLen
        offset == RowOffset(PrefillLen, n)
        Token(r) == IF fused /\ r < Block THEN WindowInput(update)[r + 1]
                    ELSE IF r < offset THEN NoRow ELSE update[r - offset + 1]
        Key(j) == Token(j - CurrentStart(PrefillLen))
        Position(j) == PrefillPosition(PrefillLen, n, fused, j - CurrentStart(PrefillLen))
        Sees(i, text) == SeesText(PrefillMask(PrefillLen, n, fused, i), Key, Position, text)
    IN /\ \A i \in offset .. PrefillLen - 1 : Sees(i, SubSeq(update, 1, i - offset + 1))
       /\ fused => \A i \in 0 .. Block - 1 : Sees(i, update \o Masks(Block - 1))
==============================================================================
