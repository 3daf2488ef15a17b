SPECIFICATION Spec
CONSTANTS
  b1 = b1
  s1 = s1
  h1 = h1
  Signals = {b1, s1, h1}
  NoSignal = NoSignal
  ActionOf <- MCActionOf
  MaxDay = 1
  MaxTime = 3
  MaxKeys = 3
  Snapshots <- MCSnapshots
INVARIANTS
  FileAlwaysLoads
  CandidateRemembered
PROPERTIES
  SavedStopHolds
  LatchEndsByResume
CHECK_DEADLOCK TRUE
