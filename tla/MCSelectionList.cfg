\* Lists longer than the screen, replaced while the user moves about in them,
\* confirms, cancels and presses modifiers.
SPECIFICATION Spec
CONSTANTS
  b1 = b1
  b2 = b2
  max_vis = 3
  PipeCap = 1
  SigpipeIgnored = TRUE
  Id <- TwoIds
  NoId = none
  MaxItems = 5
  BufferLen = 2
  IgnoreEmpty = TRUE
  KeySyms = {"Return", "Escape", "Up", "Down", "Modifier"}
  KeyRepeat = FALSE
  AllocOutcomes = {TRUE, FALSE}
  Outside = {}
  MaxSubmits = 0
  Prompts = FALSE
  Events = {"brokersReceived", "authModesReceived", "stageChanged"}
  Offers <- AnyOffer
  MaxPending = 2
  PamErrors = {"OTHER"}
  Crashes = FALSE
  MaxDenials = 1
  MaxEvents = 3
INVARIANTS SelectionInRange SelectionVisible
CHECK_DEADLOCK FALSE
