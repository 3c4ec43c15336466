SPECIFICATION Spec
CONSTANTS
  RtspUrl = {}
  HikUrl = {h}
  NoAddress = NoAddress
  Saved = {"cpu"}
  SharedMem = {TRUE}
  KeepOnFailure = {FALSE}
  MaxBurst = 1
  MaxCache = 1
  GraceRetry = 1
  BaseDelay = 1
  MaxDelay = 1
  Grace = 1
  OfflineLimit = 2
  MaxFailures = 1
  h = h
PROPERTIES
  PictureIsLatest
CHECK_DEADLOCK FALSE
