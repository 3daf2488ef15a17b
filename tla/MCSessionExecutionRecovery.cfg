SPECIFICATION Spec
CONSTANTS
  b1 = b1
  s1 = s1
  Signals = {b1, s1}
  NoSignal = NoSignal
  ActionOf <- MCActionOf
  MaxDay = 1
  MaxTime = 1
  ClockSettles = TRUE
  MaxKeys = 2
  Snapshots <- MCSnapshots
PROPERTY
  RecoveryIsHeld
