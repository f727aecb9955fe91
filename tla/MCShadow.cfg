\* The shadow backend: editing keys, key repeat, EPIPE, loss of the display.
SPECIFICATION FairSpec
CONSTANTS
  PipeCap = 2
  SigpipeIgnored = TRUE
  Id = {}
  NoId = none
  MaxItems = 0
  BufferLen = 3
  IgnoreEmpty = FALSE
  KeySyms = {"SubmitLetter", "BackSpace", "ClearLetter"}
  KeyRepeat = TRUE
  AllocOutcomes = {TRUE}
  Outside = {"SIGUSR1", "display lost"}
  MaxSubmits = 3
  MaxDenials = 2
INVARIANTS TimersMatch PasswordClears IndicatorTimed CountExact OneAnswerEach
PROPERTIES ImplementsFair VerifyingEnds NoOrphan
CHECK_DEADLOCK FALSE
