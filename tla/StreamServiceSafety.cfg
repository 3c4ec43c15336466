\* Two handlers race on two addresses; one update.
CONSTANTS
  Url = {u1, u2}
  HikUrl = {u2}
  Id = {i1, i2}
  Kept = {i1}
  NoId = noid
  Handler = {h1, h2}
  MaxUpdates = 1
SPECIFICATION FairSpec
\* The server stops after a signal.
CHECK_DEADLOCK FALSE
INVARIANTS
  OneRemover
  IndexExact
  QuietWhenDown
PROPERTIES
  GivenUpRemoved
  ShutdownEnds
