SPECIFICATION FairSpec
CONSTANTS
  Session = {1, 2}
  Value = {1, 2}
  Viewer = {v1}
  Top = 2
  MaxClock = 3
  MaxFaults = 1
  NoBoard = NoBoard
INVARIANTS TypeOK MarkedIsScored
PROPERTIES SecondsScored BoardSettles
CHECK_DEADLOCK FALSE
