\* Two updates in a row, the first one not applied yet.
CONSTANTS
  Url = {u1, u2, u3}
  HikUrl = {u2}
  Id = {i1}
  Kept = {}
  NoId = noid
  Handler = {h1}
  MaxUpdates = 2
SPECIFICATION Spec
\* The server stops after a signal.
CHECK_DEADLOCK FALSE
INVARIANT DecoderFitsUrl
