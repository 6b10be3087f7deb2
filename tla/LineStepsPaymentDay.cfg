SPECIFICATION Spec
CONSTANTS
  Null = Null
  MicroThreshold = 5
  Today = 20
  LastDay = 21
  Dates = {}
  Sums = {3}
  Terms = {0, 13}
  LowestRate = 57
  MaxTyped = 3
  MaxSaves = 2
CHECK_DEADLOCK FALSE
INVARIANTS
  PaymentDayStored
