SPECIFICATION Spec
CONSTANTS
  Signals = {p1, p2}
  NoSignal = NoSignal
  ActionOf <- MCActionOf
  MaxDay = 2
  Windows = {w1, w2}
  Nobody = Nobody
  MaxOrders = 2
SYMMETRY Interchangeable
PROPERTY
  UnresolvedBlocksPreparation
CHECK_DEADLOCK TRUE
