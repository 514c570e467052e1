SPECIFICATION FairSpec
CONSTANTS
  STEPS <- MCSteps
  INC <- MCInc
INVARIANTS DimmedIsRemembered
PROPERTIES FullBrightnessComesBack DarkensInSteps
