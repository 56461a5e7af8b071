SPECIFICATION FairSpec
CONSTANTS
  Worker = {w1}
  Session = {s1}
  Run = {n1, n2}
  ChanCap = 1
  BotCounts = {1}
  OrderTotals = {0}
  MaxCredit = 0
  Measured = {s1}
  Lossy = {w1}
  MaxRestarts = 1
  NoSession = NoSession
  NoRun = NoRun
  NoCmd = NoCmd
INVARIANTS TypeOK RunningHasTimer RunningIsRecorded MapAgrees
PROPERTIES LeaseSafety RunSettles RunningEnds
VIEW LifecycleView
