\* Three requests on two images and a video of at most two frames, all of one
\* stem. A console that has closed or failed stops.
CONSTANTS
  Images = {i1, i2}
  Videos = {v1}
  Stem <- MCStem
  Nothing = Nothing
  MaxRequests = 3
  MaxFrames = 2
SPECIFICATION FairSpec
INVARIANTS
  StopBound
  RequestHasMedia
  ReportHolds
PROPERTY InitializationEnds
CHECK_DEADLOCK FALSE
