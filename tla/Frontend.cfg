SPECIFICATION Spec

CONSTANTS
  Servers = {go, rust, dotnet}
  MaxAsked = 3
  MaxRuns = 2

INVARIANTS
  PanesOfOneRun
  LibsFollowTarget

PROPERTY RunButtonReturns
