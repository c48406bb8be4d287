\* Two runs at once on the same targets.
SPECIFICATION Spec
CONSTANTS
  N = 2
  p1 = p1  p2 = p2  k1 = k1  k2 = k2
  Processes = {p1, p2}
  Pids = {k1, k2}
  Pid <- TwoPids
  Inodes = {i1, i2, i3, i4, i5}
  NoInode = NoInode
  Nobody = Nobody
  Capacities = {14}
  MaxFaults = 1
  MaxEdits = 0
  MayCrash = {}
SYMMETRY Symmetry
CHECK_DEADLOCK FALSE
INVARIANTS BundlesDoNotMix
PROPERTY RemovesOnlyItsOwn
