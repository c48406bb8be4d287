\* Two runs that make the same three directories; too few descriptors, just enough, and plenty.
SPECIFICATION Spec
CONSTANTS
  base = base  d1 = d1  d2 = d2  d3 = d3  d4 = d4
  p1 = p1  p2 = p2
  Dirs = {base, d1, d2, d3, d4}
  Base = base
  NoDir = NoDir
  Somebody = Somebody
  Processes = {p1, p2}
  RootLevel = 2
  Depth = 3
  Capacities = {3, 9, 12}
  MaxFaults = 1
  MaxEdits = 1
  MayCrash = {p1, p2}
CHECK_DEADLOCK FALSE
SYMMETRY Symmetry
INVARIANTS FailureIsUndone PublishedIsFound
PROPERTIES RemovesOnlyMade
