\* Characters at the limits of their size in a short buffer.
SPECIFICATION Spec
CONSTANTS
  BufferLen = 9
  Codepoints <- Limits
  Retries = 2
  Junk = Junk
INVARIANTS HoldsTyped NeverPagedOut
CHECK_DEADLOCK FALSE
