SPECIFICATION WorkerFairSpec
CONSTANTS
  Session = {s1, s2}
  Worker = {w1}
  Run = {n1, n2}
  BotCounts = {0, 1}
  DefaultBots = 8
  MaxSent = 1
  Reporting = {w1}
  Stalling = {n2}
  NoSession = NoSession
  NoRun = NoRun
INVARIANT OneSessionAtATime
PROPERTY StopQuiets
CHECK_DEADLOCK FALSE
