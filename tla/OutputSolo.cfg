\* One run, every amount of descriptors, two failing calls, killed at any point; or
\* another actor edits the targets. Inode numbers are recycled.
SPECIFICATION Spec
CONSTANTS
  N = 2
  p1 = p1  p2 = p2  k1 = k1  k2 = k2
  Processes = {p1}
  Pids = {k1}
  Pid <- OnePid
  Inodes = {i1, i2, i3, i4, i5}
  NoInode = NoInode
  Nobody = Nobody
  Capacities = {2, 3, 6, 7, 8, 9, 10, 11, 12, 13, 14}
  MaxFaults = 2
  MaxEdits = 2
  MayCrash = {p1}
CONSTRAINT FewTroubles
SYMMETRY Symmetry
CHECK_DEADLOCK FALSE
INVARIANTS OriginalsRecoverable ExhaustionIsClean CleanLeavesNoResidue
PROPERTY KeepsPromise
