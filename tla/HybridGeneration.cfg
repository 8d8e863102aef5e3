\* One Generate after another: two budgets, one prompt that leaves
\* room for the fused window in the prefill and one that does not.
CONSTANTS
  BoxStart = BoxStart
  BoxEnd = BoxEnd
  RefEnd = RefEnd
  NoneToken = NoneToken
  Null = Null
  ImEnd = ImEnd
  Word = Word
  c1 = c1
  c2 = c2
  Unreadable = Unreadable
  Coordinates <- MCCoordinates
  Others <- MCOthers
  Windows <- MCWindows
  ArTokens <- MCArTokens
  SlowTokens <- MCSlowTokens
  Prompts <- MCPrompts
  Budgets = {3, 9}
  PrefillLen = 8
  CacheLen = 16
  FusedPrefill = TRUE
SPECIFICATION FairSpec
INVARIANTS
  LogitsMatchText
  KvCoherent
  GraphsInContract
  NoOpenedBoxRepeats
  ResultHonest
  MetricsAccount
PROPERTIES
  UsesKvCache
  GenerateReturns
