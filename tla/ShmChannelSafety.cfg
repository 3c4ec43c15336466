\* Two rounds of the ring and two rebuilds.
CONSTANTS
  SlotCount = 3
  MaxFrames = 6
  MaxObjects = 3
SPECIFICATION FairSpec
\* A stopped stream writes nothing more.
CHECK_DEADLOCK FALSE
INVARIANTS
  MetaNotTorn
  HeadSlotReady
PROPERTIES
  BackByAtMostOne
  LastFrameSeen
