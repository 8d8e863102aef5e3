----------------------------- MODULE PbdPattern -----------------------------
(***************************************************************************)
(* The token patterns of the hybrid decoder: what a window of six decoded  *)
(* tokens means (accept, continue autoregressively, or end) and what       *)
(* counts as a complete or a repeated detection box.                       *)
(***************************************************************************)
EXTENDS Naturals, Sequences, FiniteSets

CONSTANTS
  BoxStart, BoxEnd, RefEnd, NoneToken, Null, ImEnd,
  Coordinates,   \* the coordinate tokens
  Others         \* every other token: reference start, words

Token == {BoxStart, BoxEnd, RefEnd, NoneToken, Null, ImEnd} \union Coordinates \union Others

\* The token ids differ and the coordinates are a range of their own
\* (decoder.cpp:23).
ASSUME TokenAssumption ==
  /\ BoxStart \notin Coordinates \union {BoxEnd, NoneToken}
  /\ BoxEnd \notin Coordinates \union {NoneToken, ImEnd}

\* A window is what the six rows decode to.
WindowSize == 6
Window == {w \in Seq(Token) : Len(w) = WindowSize}

\* The length of the longest prefix of s whose elements are all in S.
RunLength(s, S) == Cardinality({n \in 1 .. Len(s) : \A i \in 1 .. n : s[i] \in S})

Accept(t) == [tokens |-> t, ar |-> FALSE, terminal |-> FALSE]
Continue(t) == [tokens |-> t, ar |-> TRUE, terminal |-> FALSE]
Terminal == [tokens |-> <<ImEnd>>, ar |-> FALSE, terminal |-> TRUE]

\* Faulty variant: an incomplete box keeps all six tokens of the window.
BoxDecisionUncut(w) ==
  LET coordinates == RunLength(SubSeq(w, 2, 5), Coordinates) IN
  IF w[2] = NoneToken THEN Accept(<<BoxStart, NoneToken, BoxEnd>>)
  ELSE IF coordinates = 4 /\ w[6] = BoxEnd THEN Accept(w)
  ELSE IF coordinates = 2 /\ w[4] = BoxEnd THEN Accept(SubSeq(w, 1, 4))
  ELSE Continue(w)

\* A window that opens a box: an empty box, a rectangle, a point, or the
\* well-formed beginning of a box that is left to the autoregressive decoder.
BoxDecision(w) ==
  LET coordinates == RunLength(SubSeq(w, 2, 5), Coordinates) IN
  IF w[2] = NoneToken THEN Accept(<<BoxStart, NoneToken, BoxEnd>>)
  ELSE IF coordinates = 4 /\ w[6] = BoxEnd THEN Accept(w)
  ELSE IF coordinates = 2 /\ w[4] = BoxEnd THEN Accept(SubSeq(w, 1, 4))
  ELSE Continue(SubSeq(w, 1, coordinates + 1))

\* Any other window counts up to its first null; a doubled reference end at
\* the cut is reduced to one.
RefDecision(w) ==
  LET n == RunLength(w, Token \ {Null}) IN
  IF n >= 2 /\ w[n] = RefEnd /\ w[n - 1] = RefEnd
  THEN Accept(SubSeq(w, 1, n - 1))
  ELSE Accept(SubSeq(w, 1, n))

HandlePattern(w) ==
  IF w[1] \in {Null, ImEnd} THEN Terminal
  ELSE IF w[1] = BoxStart THEN BoxDecision(w)
  ELSE RefDecision(w)

------------------------------------------------------------------------------
(* The box guards of the generation loop. *)

\* An empty, a point or a rectangle box.
IsCompleteDetectionBox(t) ==
  \/ t = <<BoxStart, NoneToken, BoxEnd>>
  \/ /\ Len(t) \in {4, 6}
     /\ t[1] = BoxStart
     /\ \A i \in 2 .. Len(t) - 1 : t[i] \in Coordinates
     /\ t[Len(t)] = BoxEnd

\* s contains t as a contiguous run.
Occurs(t, s) == \E i \in 0 .. Len(s) : i + Len(t) <= Len(s) /\ SubSeq(s, i + 1, i + Len(t)) = t

HasRepeatedDetectionBox(response, candidate) ==
  IsCompleteDetectionBox(candidate) /\ Occurs(candidate, response)

\* The response ends with a complete box it already contained before.
HasRepeatedTrailingDetectionBox(response) ==
  \E n \in {3, 4, 6} :
    LET before == Len(response) - n
        box == SubSeq(response, before + 1, Len(response))
    IN /\ n <= Len(response)
       /\ HasRepeatedDetectionBox(SubSeq(response, 1, before), box)
==============================================================================
