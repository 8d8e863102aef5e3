------------------------- MODULE MCHybridGeneration -------------------------
(* Small instances of HybridGeneration: windows that reach every branch of *)
(* HandlePattern, a prompt with and one without room for a fused window.   *)
EXTENDS HybridGeneration

CONSTANTS c1, c2, Word

MCCoordinates == {c1, c2}
MCOthers == {Word}

MCWindows ==
  { <<Null, Null, Null, Null, Null, Null>>,                   \* end of text
    <<BoxStart, NoneToken, BoxEnd, Null, Null, Null>>,        \* empty box
    <<BoxStart, c1, c2, c1, c2, BoxEnd>>,                     \* rectangle
    <<BoxStart, c1, c2, BoxEnd, Null, Null>>,                 \* point
    <<BoxStart, c1, Word, BoxEnd, Null, Null>>,               \* starts a box
    <<BoxStart, c1, c2, c1, c2, Null>>,                       \* not closed
    <<Word, RefEnd, RefEnd, Null, Null, Null>>,               \* doubled end
    <<Word, BoxStart, c1, c2, BoxEnd, ImEnd>>,                \* point in a name
    <<Word, BoxStart, NoneToken, BoxEnd, Null, Null>> }       \* empty box in a name

MCArTokens == {c1, c2, NoneToken, BoxEnd, ImEnd}

MCSlowTokens == {Word, ImEnd}

\* The short prompt leaves room for the fused window; the long one fills the
\* prefill graph and nearly the cache.
MCPrompts == {[i \in 1 .. n |-> Word] : n \in {2, PrefillLen}}
==============================================================================
