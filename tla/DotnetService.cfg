SPECIFICATION FairSpec

CONSTANTS
  Requests = {r1, r2}
  MaxConcurrency = 1
  Faults = {"cliDies", "crash"}
  Rootless = TRUE
  Hiding = {r1}
  Piping = {r1}

INVARIANTS
  SlotsMatchServing
  WatchedCap
  MountsInPlace
  SuccessIsComplete
  AnsweredRunsAreCleaned

PROPERTIES
  CollectedWhenStopped
  ImplementsService
  EveryRunReturns
