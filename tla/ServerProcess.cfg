\* Two streams and two workers, all of the CPU's pool.
CONSTANTS
  GpuCount = 0
  Worker = {w1, w2}
  PoolOfWorker <- AllOnCpu
  NoWorker = none
  NoTask = nothing
  Stream = {s1, s2}
  Asked <- NoSuchGpu
  MaxEventful = 1
  NoThread = nobody
SPECIFICATION Spec
\* main() returns.
CHECK_DEADLOCK FALSE
SYMMETRY Symmetry
INVARIANTS
  PoolOutlivesStreams
  FlagStandsForOneJob
  NothingOutlivesMain
  ShutdownNeverStuck
  GoesOnIfItCan
  NoTaskSleptOver
PROPERTIES
  StreamsLive
