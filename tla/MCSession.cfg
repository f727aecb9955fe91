\* Two invocations, every kind of command line and every fault.
SPECIFICATION FairSpec
CONSTANTS
  p1 = p1
  p2 = p2
  Procs <- TwoProcs
  CommandLines <- Pairs
  Faults <- AllFaults
INVARIANTS ReadyMeansLocked NoProtocolError StatusTruthful
PROPERTIES NobodyWaits
CHECK_DEADLOCK FALSE
