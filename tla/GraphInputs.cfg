\* Two tensors, every start of the window, wraps, refusals and failures; behind
\* one row a window with a prefix fills the ring exactly, behind two rows one
\* without, and prompts fill the prefill graph or leave room for a window.
CONSTANTS
  Row = {a, b}
  NoRow = NoRow
  MaskToken = MaskToken
  CacheLen = 4
  PrefillLen = 4
  Layers = 2
  Block = 2
  MaxQuery = 2
SPECIFICATION Spec
SYMMETRY Symmetry
INVARIANTS
  WindowShowsCommitted
  ArGraphSeesText
  PbdGraphSeesText
  PrefillSeesPrompt
PROPERTY ImplementsKvCache
