----------------------------- MODULE MCPostprocess -----------------------------
(* Small instances of Postprocess. Responses are made of what HandlePattern     *)
(* accepts, and of boxes the autoregressive decoder closes or breaks.           *)
EXTENDS Postprocess, SequencesExt

CONSTANTS NoneToken, Null, ImEnd, Cat, CatCapital, Dog

MCWords == {NoneToken, Null, ImEnd, Cat, CatCapital, Dog}

MCValue == [c \in 0 .. CoordinateEnd |-> c]

Pattern == INSTANCE PbdPattern
  WITH Coordinates <- DOMAIN Value, Others <- {RefStart, Cat, CatCapital, Dog}

MCCanonicalLabel(text) == [i \in DOMAIN text |-> IF text[i] = CatCapital THEN Cat ELSE text[i]]

Box(x1, y1, x2, y2) == <<BoxStart, x1, y1, x2, y2, BoxEnd>>
Named(word) == <<RefStart, word, RefEnd, Null, Null, Null>>

Windows ==
  { Box(0, 0, 3, 4), Box(1, 0, 4, 4), Box(2, 1, 4, 4),  \* a chain of overlaps
    Box(0, 0, 4, 1),                                    \* in the padding of a wide image
    Box(2, 2, 2, 3),                                    \* no width
    <<BoxStart, 1, 2, BoxEnd, Null, Null>>,             \* a point
    Named(Cat), Named(CatCapital),
    <<RefStart, Dog, Dog, Dog, Dog, Dog>>,              \* the reference goes on
    <<Dog, RefEnd, RefEnd, Null, Null, Null>>,          \* and ends
    <<Dog, BoxStart, 1, 2, NoneToken, Null>> }          \* a box begun in a name

Broken == {<<BoxStart, 1, NoneToken, BoxEnd>>}

Runs == {Pattern!HandlePattern(w).tokens : w \in Windows} \union Broken

\* One accepted run after the other.
MCResponses == {FlattenSeq(parts) : parts \in UNION {[1 .. n -> Runs] : n \in 0 .. 3}}
MCSizes == {<<3, 3>>, <<8, 4>>, <<1, 9>>}
===============================================================================
