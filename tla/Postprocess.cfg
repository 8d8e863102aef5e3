\* Responses of up to three runs on a square, a wide and a tall image; five
\* coordinate values; thresholds that suppress everything, half overlaps, or
\* only equal boxes. A parsed response stops.
CONSTANTS
  BoxStart = BoxStart
  BoxEnd = BoxEnd
  RefStart = RefStart
  RefEnd = RefEnd
  NoneToken = NoneToken
  Null = Null
  ImEnd = ImEnd
  Cat = Cat
  CatCapital = CatCapital
  Dog = Dog
  Words <- MCWords
  Value <- MCValue
  CoordinateEnd = 4
  CanonicalLabel <- MCCanonicalLabel
  Responses <- MCResponses
  Sizes <- MCSizes
  Canvas = 4
  Thresholds = {0, 50, 100}
SPECIFICATION Spec
INVARIANTS
  ParseFaithful
  SuppressionExact
CHECK_DEADLOCK FALSE
