SPECIFICATION Spec

CONSTANTS
  Requests = {r1, r2}
  MaxConcurrency = 1
  Faults = {"disconnect"}
  Rootless = TRUE
  Hiding = {}
  Piping = {}

INVARIANTS
  ContainerCap
