SPECIFICATION FairSpec
CONSTANTS
  Lines <- MCLines
  MaxCodes = 3
  QUEUE = 1
  Faults <- AllFaults
INVARIANT LogLevelsAgree
PROPERTIES NumbersStayTrue LinesAreAnswered
