SPECIFICATION Spec
CONSTANTS
  User = {"input_idle", "clear_password"}
  None = none
  Delays = {1, 2}
  MsPerSec = 2
  NsPerMs = 2
  Addresses = {1, 2, 3}
  MaxTime = 6
INVARIANTS PointersLive TraversalSafe ExpiryExact SleepsNoLonger
PROPERTIES KeepsPromise
