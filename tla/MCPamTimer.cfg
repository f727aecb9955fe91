SPECIFICATION Spec
CONSTANTS
  b1 = b1
  b2 = b2
  PipeCap = 2
  SigpipeIgnored = FALSE
  Id <- TwoIds
  NoId = none
  MaxItems = 2
  BufferLen = 4
  IgnoreEmpty = FALSE
  KeySyms = {"Return", "BackSpace", "Letter"}
  KeyRepeat = FALSE
  AllocOutcomes = {TRUE}
  Outside = {}
  MaxSubmits = 2
  Prompts = TRUE
  Events = {}
  Offers = {}
  MaxPending = 2
  PamErrors = {"AUTH_ERR", "OTHER"}
  Crashes = FALSE
  MaxDenials = 2
  MaxEvents = 0
PROPERTIES AuthTimerEndsWrong
CHECK_DEADLOCK FALSE
