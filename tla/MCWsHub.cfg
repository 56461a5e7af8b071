SPECIFICATION FairSpec
CONSTANTS
  Client = {c1, c2}
  SendCap = 1
  MaxFrames = 2
INVARIANTS TypeOK NoSendOnClosed FramesComplete
PROPERTY DeadClientsLeave
CHECK_DEADLOCK FALSE
