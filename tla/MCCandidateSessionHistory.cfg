SPECIFICATION Spec
CONSTANTS
  b1 = b1
  s1 = s1
  h1 = h1
  Signals = {b1, s1, h1}
  NoSignal = NoSignal
  ActionOf <- MCActionOf
  MaxDay = 1
  MaxTime = 2
  MaxKeys = 2
  Snapshots <- MCSnapshots
INVARIANTS
  FileAlwaysLoads
CHECK_DEADLOCK FALSE
