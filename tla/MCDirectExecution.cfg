SPECIFICATION Spec
CONSTANTS
  b1 = b1
  s1 = s1
  Signals = {b1, s1}
  NoSignal = NoSignal
  ActionOf <- MCActionOf
  MaxDay = 2
  Snapshots <- MCSnapshots
INVARIANTS
  SubmittedOnceAfterSaving
  TerminalIsTrue
  IInv
PROPERTY
  ImplementsOneShot
CHECK_DEADLOCK TRUE
