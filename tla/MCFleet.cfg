SPECIFICATION FleetSpec
CONSTANTS
  Worker = {w1}
  Session = {s1}
  Run = {n1, n2}
  ChanCap = 1
  BotCounts = {1}
  OrderTotals = {}
  MaxCredit = 0
  Measured = {}
  Lossy = {w1}
  MaxRestarts = 0
  DefaultBots = 8
  MaxSent = 1
  Reporting = {w1}
  Stalling = {}
  NoSession = NoSession
  NoRun = NoRun
  NoCmd = NoCmd
INVARIANT CreditBounded
SYMMETRY RunSymmetry
VIEW FleetView
