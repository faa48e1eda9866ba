SPECIFICATION FairSpec

CONSTANTS
  Requests = {r1, r2}
  MaxConcurrency = 1
  Faults = {"cliDies", "crash"}
  Rootless = TRUE
  Hiding = {r1}
  Piping = {r1}

INVARIANTS
  TypeOK
  SlotsMatchServing
  ContainerCap
  MountsInPlace
  NothingLeftBehind
  SuccessIsComplete

PROPERTIES
  ImplementsService
  EveryRunReturns
