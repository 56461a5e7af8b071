SPECIFICATION Spec
CONSTANTS
  Order = {o1, o2, o3}
  Price = {1, 2, 3}
  Tolerance = 1
  NoAsk = 4
  MaxAcks = 4
INVARIANTS TypeOK BestIsTop
PROPERTY FlagsExact
