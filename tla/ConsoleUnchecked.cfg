\* One request at a time is enough: an image, or a video of one frame. A console
\* that has closed or failed stops.
CONSTANTS
  Images = {i1}
  Videos = {v1}
  Stem <- MCStem
  Nothing = Nothing
  MaxRequests = 2
  MaxFrames = 1
SPECIFICATION Spec
INVARIANT PersistenceChecked
CHECK_DEADLOCK FALSE
