\* The process really ends (Exit): no step follows.
SPECIFICATION FairSpec
CONSTANTS
  Batch = 2
  MaxQueue = 3
  MaxEntries = 6
INVARIANTS TypeOK Accounted InOrder DropsOldest ConfirmedOnce ShutdownFlushes
PROPERTIES Settled ShutdownEnds
CHECK_DEADLOCK FALSE
