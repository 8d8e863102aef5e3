\* README.md:567 against the code: how many results use the previous prompt?
CONSTANTS
  Prompts = {p1, p2}
  NoPrompt = NoPrompt
  None = None
  MaxFrames = 4
  MaxPrompts = 2
SPECIFICATION Spec
INVARIANT OneStaleResult
CHECK_DEADLOCK FALSE
