SPECIFICATION RingFairSpec
CONSTANTS
  Genes <- MCGenes
  PATTERN_COUNT = 1
  CODONS = 5
  DEPTH = 4
  GATE = 3
  Phenotypes <- MCPhenotypes
  Ops <- AllOps
  Prompt = TRUE
  MaxOps = 4
CHECK_DEADLOCK FALSE
INVARIANTS AcksAreAwaited RingRendersGene OwnGenePutBack SettingsArrive AckMeansDark
PROPERTIES OperationsReturnInTime
