SPECIFICATION Spec
CONSTANTS
  MaxFills = 2
  StartQuote = 3
  Fills <- MCFills
  MaxTime = 1
  MaxRequests = 2
  TicksPerDay = 1
  CycleAge = 0
  RiskAge = 1
  Bids = {1}
  Amounts <- MCAmounts
  Flows = {0, 1}
INVARIANTS
  IInv
  TransfersAreCaught
  NeverLockedOut
  DecisionIsOnFile
CHECK_DEADLOCK FALSE
