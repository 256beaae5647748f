CONSTANTS
  Threads = {t1, t2}
  Drives = {d1, d2}
  None = None
  MaxMoved = 2
SYMMETRY Symmetry
SPECIFICATION Spec
INVARIANTS TypeOK NothingTwice DumpsFollowDrive
