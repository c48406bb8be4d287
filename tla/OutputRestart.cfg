\* A run is killed and the next one is given its process identifier.
SPECIFICATION FairSpec
CONSTANTS
  N = 2
  p1 = p1  p2 = p2  k1 = k1  k2 = k2
  Processes = {p1, p2}
  Pids = {k1}
  Pid <- SamePid
  Inodes = {i1, i2, i3, i4}
  NoInode = NoInode
  Nobody = Nobody
  Capacities = {14}
  MaxFaults = 0
  MaxEdits = 0
  MayCrash = {p1}
CHECK_DEADLOCK FALSE
INVARIANT OriginalsSurvive
PROPERTY Terminates
