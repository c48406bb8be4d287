\* An output directory two levels deep, a run of the router and one of the simulator.
SPECIFICATION Spec
CONSTANTS
  Dirs = {top, d1, d2, d3, d4, d5}
  Top = top
  NoDir = NoDir
  Thing = Thing
  Names = {"a", "out", "w", "run"}
  OutputPath <- Output
  WorkNames = {"w"}
  RunnerName = "run"
  ScopeNames <- Scopes
  Runs <- RouteThenSimulate
  MaxTries = 1
  MaxFaults = 2
  MaxTrouble = 2
SYMMETRY Symmetry
CHECK_DEADLOCK FALSE
INVARIANTS WorkRootIsApart CleanupIsExact
