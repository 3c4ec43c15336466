\* One worker and one stopper beside the IO thread: the shortest hand-shakes
\* that can hang.
CONSTANTS
  Url = {u1}
  Worker = {w1}
  Stopper = {s1}
  IO = io
  NoThread = nothread
  NoFrame = noframe
SPECIFICATION FairSpec
\* A destroyed stream does nothing more.
CHECK_DEADLOCK FALSE
PROPERTIES
  StopReturns
