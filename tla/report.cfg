CONSTANTS
  MaxStart = 4
  MaxLines = 4
  Lines <- MCLines
  Filters <- MCFilters
SPECIFICATION Spec
INVARIANTS TypeOK WindowsAreRuns FinalOutcomes
CHECK_DEADLOCK FALSE
