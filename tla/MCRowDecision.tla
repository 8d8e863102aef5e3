---------------------------- MODULE MCRowDecision ----------------------------
(* Small instances of RowDecision: four tokens, of which two are ranked. *)
EXTENDS RowDecision

MCLogits == [Tokens -> {NaN, -1, 2, 4}]

\* Nothing; a repetition; two tokens; an identifier outside the vocabulary.
MCTexts == {<<>>, <<1, 1>>, <<0, 2>>, <<3, -1, 1>>}

\* Halved with the distance.
MCWeights == <<8, 4, 2, 1>>
==============================================================================
