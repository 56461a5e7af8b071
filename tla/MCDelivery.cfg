SPECIFICATION FleetSpec
CONSTANTS
  Worker = {w1, w2}
  Session = {s1}
  Run = {n1}
  ChanCap = 1
  BotCounts = {1, 3}
  OrderTotals = {}
  MaxCredit = 0
  Measured = {}
  Lossy = {w1, w2}
  MaxRestarts = 0
  DefaultBots = 8
  MaxSent = 0
  Reporting = {}
  Stalling = {}
  NoSession = NoSession
  NoRun = NoRun
  NoCmd = NoCmd
INVARIANTS StartsAreAssigned PollIsRegistered StartAtMostOnce SharesExact BotsBelongToDispatch
SYMMETRY WorkerSymmetry
VIEW DeliveryView
