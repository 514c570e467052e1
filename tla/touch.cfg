SPECIFICATION FairSpec
CONSTANTS
  DEPTH = 2
  DEBOUNCE_COUNT = 3
  TOUCH_MARGIN = 2
  MAX_CLOCK = 31
  WRAP_GAP = 5
  FIFO_DEPTH = 2
  Lowest = 2
  Highest = 3
  Pressed <- MCPressed
INVARIANTS ReportsAreFresh
PROPERTIES NoFalseTouch TouchIsSeen ReleaseIsSeen
