SPECIFICATION Spec

CONSTANTS
  Unset = Unset
  IntMax = 5000
  LongMB = 6000
  MaxFiles = 2
  Situations <- AllSituations

INVARIANTS
  InputsPlaced
  ServersAgree
  LimitsEnforced
