\* Short reads and writes, frames larger than the pipe, crashes inside frames.
SPECIFICATION FairSpec
CONSTANTS
  Base = 2
  LenBytes = 2
  MaxPayload = 2
  PipeSize = 4
  Frames <- SomeFrames
  MaxFrames = 2
  MainUnread = 1
  Faults = {"crash", "malloc"}
PROPERTIES KeepsFrames Delivered
CHECK_DEADLOCK FALSE
