\* Two threads read; the server forgets its streams twice.
CONSTANTS
  Thread = {t1, t2}
  Id = {i1, i2, i3, i4, i5, i6, i7, i8, i9, i10, i11}
  Original = i1
  NoId = none
  MaxLosses = 2
  MaxTimeouts = 1
  MaxOthers = 1
SPECIFICATION Spec
\* The application stops the stream.
CHECK_DEADLOCK FALSE
INVARIANTS
  NoStrayStream
PROPERTIES
  StraysAreFound
  RecoversFromFirstLoss
