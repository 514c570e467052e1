SPECIFICATION Spec
CONSTANTS
  NUM_CHUNKS = 2
  Data <- ZeroOrOther
  ALLOWED_PINS <- TwoPins
  TypedPins <- GoodAndBadPin
  MAX_FREQ = 2
  Clocks <- TooFast
  Faults <- AllFaults
CHECK_DEADLOCK FALSE
INVARIANTS RunsWholePrograms RunningIsAnnounced AnsweredIsDurable PinsAccounted
PROPERTIES ImplementsAssembler
