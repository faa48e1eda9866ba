SPECIFICATION Spec

CONSTANTS
  Limit = 2
  PipeCap = 1
  MaxOutput = 4

INVARIANTS
  CapturedUpToTheCap
  FittingScriptsGoOn

PROPERTIES
  ScriptFinishes
  HandlerFinishes
