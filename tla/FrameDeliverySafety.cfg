CONSTANTS
  c1 = c1
  p1 = p1
  Client = {c1}
  Poller = {p1}
  MaxFrames = 3
  MaxTime = 3
  MaxUpdates = 1
SPECIFICATION FairSpec
CHECK_DEADLOCK FALSE
INVARIANTS
  NoLostWakeup
  NeverBackdated
  OnlyTwinsAreHidden
PROPERTIES
  FramesGoForward
  CallsEnd
