SPECIFICATION FairSpec
CONSTANTS
  CODONS = 9
  DEPTH = 8
  GATE = 3
  Phenotypes <- OnePhenotype
  Ops <- ExpressAndPause
  Prompt = TRUE
  MaxOps = 2
CHECK_DEADLOCK FALSE
PROPERTIES OperationsReturn
