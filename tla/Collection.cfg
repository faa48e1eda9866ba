SPECIFICATION Spec

CONSTANTS
  Files = {1, 2, 3}
  MaxSize = 2
  MaxOutputBytes = 3

INVARIANTS
  WithinBudget
  NoneLeftOutThatFits
  OverrunIsOneFile
  MetricsAreTheRuns
