CONSTANT MaxTimers = 4
SPECIFICATION FairSpec
INVARIANTS TypeOK NoLostWake
PROPERTIES KeepsPolling
