\* Safety, refinement and liveness of the frame pipeline: four frames fill every
\* stage while one more is replaced; two updates separate three prompt epochs; a
\* terminated node stops.
CONSTANTS
  Prompts = {p1, p2}
  NoPrompt = NoPrompt
  None = None
  MaxFrames = 4
  MaxPrompts = 2
SPECIFICATION FairSpec
INVARIANTS
  FramesAccounted
  ResultsFaithful
  NoLostWakeup
  StaleBound
PROPERTIES
  ImplementsFrameStream
  EveryFrameLeaves
  Terminates
CHECK_DEADLOCK FALSE
