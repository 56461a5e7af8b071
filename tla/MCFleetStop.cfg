SPECIFICATION FleetFairSpec
CONSTANTS
  Worker = {w1}
  Session = {s1}
  Run = {n1}
  ChanCap = 2
  BotCounts = {1}
  OrderTotals = {}
  MaxCredit = 0
  Measured = {}
  Lossy = {}
  MaxRestarts = 0
  DefaultBots = 8
  MaxSent = 0
  Reporting = {w1}
  Stalling = {}
  NoSession = NoSession
  NoRun = NoRun
  NoCmd = NoCmd
PROPERTY StopReachesBots
