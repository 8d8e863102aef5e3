\* Two callers share a cache of two entries and one session that may be
\* initialised twice.
CONSTANTS
  a = a
  b = b
  Blank = Blank
  Dot = Dot
  Invalid = Invalid
  Nothing = Nothing
  Callers = {c1, c2}
  QueryTasks <- MCQueryTasks
  CategoryTasks <- MCCategoryTasks
  Commands <- MCCommands
  Lists <- MCLists
  Reasons = {"eos", "length"}
  CacheSize = 2
  MaxAttempts = 2
SPECIFICATION FairSpec
INVARIANTS
  UsesLoadedParts
  CacheSound
PROPERTIES
  ImplementsRequest
  RequestReturns
