SPECIFICATION Spec
CONSTANTS
  RtspUrl = {r}
  HikUrl = {h, k}
  NoAddress = NoAddress
  Saved = {"cpu", "cuda"}
  SharedMem = {FALSE, TRUE}
  KeepOnFailure = {FALSE, TRUE}
  MaxBurst = 3
  MaxCache = 2
  GraceRetry = 1
  BaseDelay = 1
  MaxDelay = 2
  Grace = 2
  OfflineLimit = 3
  MaxFailures = 2
  r = r
  h = h
  k = k
INVARIANTS
  TypeOK
PROPERTIES
  PictureOfAddress
  NothingOnlyIfOvertaken
  PaddedOnlyAfterFailure
  GivesUpOnlyWhenOffline
  DeadCameraGivenUp
CHECK_DEADLOCK FALSE
