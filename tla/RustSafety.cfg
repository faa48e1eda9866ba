SPECIFICATION Spec

CONSTANTS
  Requests = {r1, r2}
  MaxConcurrency = 1
  Faults = {"cliDies", "disconnect", "crash"}
  Rootless = TRUE
  Hiding = {r1}
  Piping = {r1}

INVARIANTS
  SlotsMatchServing
  WatchedCap
  MountsInPlace
  SuccessIsComplete
  CleanersFinish

PROPERTIES
  CollectedWhenStopped
  ImplementsService
