\* One thread reads; the server forgets its streams twice.
CONSTANTS
  Thread = {t1}
  Id = {i1, i2, i3, i4, i5, i6, i7, i8, i9, i10, i11}
  Original = i1
  NoId = none
  MaxLosses = 2
  MaxTimeouts = 0
  MaxOthers = 0
SPECIFICATION Spec
PROPERTIES
  Recovers
