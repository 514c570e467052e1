SPECIFICATION RenderSpec
CONSTANTS
  Fields <- EdgeValues
  Rendered <- MCRendered
  GeneComes <- StartOrLate
  Bands <- MCBands
  Waves <- MCWaves
  MaxLoops = 530
CHECK_DEADLOCK FALSE
INVARIANTS PatternRenders ColoursAreTrue
PROPERTIES FramesFollow
