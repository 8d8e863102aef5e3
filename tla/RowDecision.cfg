\* Rows of four scores, with and without NaN, in call after call of one thread.
CONSTANTS
  VocabSize = 4
  NaN = NaN
  Logits <- MCLogits
  Texts <- MCTexts
  Penalty = 2
  Weights <- MCWeights
  TopPs = {50, 90, 100}
  TopCount = 2
  InitialWidth = 1
  MaximumWidth = 2
SPECIFICATION RowSpec
INVARIANTS
  PenaltyOnce
  NucleusExact
  LikeliestChosen
