\* Two workers, two stoppers beside the IO thread, two addresses.
CONSTANTS
  Url = {u1, u2}
  Worker = {w1, w2}
  Stopper = {s1, s2}
  IO = io
  NoThread = nothread
  NoFrame = noframe
SPECIFICATION Spec
SYMMETRY Symmetry
\* A destroyed stream does nothing more.
CHECK_DEADLOCK FALSE
INVARIANTS
  OneComputeJob
  NoTeardownUnderCompute
  StopLeavesNothing
  StopReleasesDecoder
