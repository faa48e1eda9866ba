SPECIFICATION FairSpec

CONSTANTS
  Requests = {r1, r2}
  MaxConcurrency = 1
  Faults = {"disconnect", "crash"}
  Rootless = TRUE
  Hiding = {r1}
  Piping = {r1}

PROPERTIES
  EveryRunReturns
  AnsweredRunsAreCleaned
