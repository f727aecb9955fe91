\* authd asks for a password, offers a button, retries and reports.
SPECIFICATION Spec
CONSTANTS
  b1 = b1
  b2 = b2
  PipeCap = 2
  SigpipeIgnored = FALSE
  Id <- TwoIds
  NoId = none
  MaxItems = 2
  BufferLen = 3
  IgnoreEmpty = FALSE
  KeySyms = {"Return", "Tab"}
  KeyRepeat = FALSE
  AllocOutcomes = {TRUE}
  Outside = {"lock finished"}
  MaxSubmits = 2
  Prompts = FALSE
  Events = {"brokersReceived", "uiLayoutReceived", "startAuthentication", "authEvent"}
  Offers <- OneOffer
  MaxPending = 2
  PamErrors = {"AUTH_ERR"}
  Crashes = FALSE
  MaxDenials = 1
  MaxEvents = 3
INVARIANTS UnlockJustified DisplayCurrent NoStuckVerifying
CHECK_DEADLOCK FALSE
