\* A stack that prompts, with crashes, failing allocations and SIGUSR1.
SPECIFICATION FairSpec
CONSTANTS
  b1 = b1
  b2 = b2
  PipeCap = 1
  SigpipeIgnored = FALSE
  Id <- TwoIds
  NoId = none
  MaxItems = 2
  BufferLen = 3
  IgnoreEmpty = TRUE
  KeySyms = {"Return", "Letter"}
  KeyRepeat = FALSE
  AllocOutcomes = {TRUE, FALSE}
  Outside = {"SIGUSR1"}
  MaxSubmits = 2
  Prompts = TRUE
  Events = {}
  Offers = {}
  MaxPending = 2
  PamErrors = {"AUTH_ERR", "OTHER"}
  Crashes = TRUE
  MaxDenials = 1
  MaxEvents = 0
INVARIANTS TypeOK PollStaysTrue
PROPERTIES Implements ImplementsFair GrantUnlocks VerifyingEnds PasswordForgotten NoOrphan
CHECK_DEADLOCK FALSE
