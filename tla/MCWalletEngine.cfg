SPECIFICATION Spec
CONSTANTS
  MaxBar = 4
INVARIANTS
  OneSwapPerBar
  FillCountedOnce
  SavedOrderIsAccounted
  PositionIsBalance
  IInv
