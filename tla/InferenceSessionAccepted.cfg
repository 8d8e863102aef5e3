\* prompt.cpp:148 against inference.cpp:57: one caller, every command of at most
\* two items.
CONSTANTS
  a = a
  b = b
  Blank = Blank
  Dot = Dot
  Invalid = Invalid
  Nothing = Nothing
  Callers = {c1}
  QueryTasks <- MCQueryTasks
  CategoryTasks <- MCCategoryTasks
  Commands <- AllCommands
  Lists = {}
  Reasons = {"eos"}
  CacheSize = 2
  MaxAttempts = 1
SPECIFICATION Spec
INVARIANT AcceptedCanBePrepared
