SPECIFICATION Spec

CONSTANTS
  Requests = {r1}
  MaxConcurrency = 1
  Faults = {}
  Rootless = TRUE
  Hiding = {}
  Piping = {}

INVARIANTS
  TimeoutReported
