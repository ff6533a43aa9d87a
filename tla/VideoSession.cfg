SPECIFICATION SessionSpec
CONSTANTS
  MaxQueries = 3
  MaxOutputs = 1
INVARIANTS AbortsInterrupted
CHECK_DEADLOCK FALSE
