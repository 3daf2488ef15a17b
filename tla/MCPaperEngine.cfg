SPECIFICATION Spec
CONSTANTS
  MaxBar = 6
  BarsPerDay = 3
  Prices = {1, 2}
  StartCash = 4
  OrderSize = 4
  FeeDivisor = 4
  Scale = 2
  LossLimit = 3
  MaxEntries = 1
  MaxStreak = 2
  Cooldown = 2
INVARIANTS
  IInv
  FileAlwaysLoads
  OneFillPerBar
  EntriesOfADay
PROPERTIES
  BuysWithinLimits
  BaselineOfADay
