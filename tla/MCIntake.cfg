SPECIFICATION FairSpec
CONSTANTS
  Name = {a}
  Reg = {r1, r2}
  Sub = {s1, s2}
  MaxFailures = 1
  Hanging = {s2}
  NoReg = NoReg
  NoName = NoName
INVARIANTS TeamsCanSubmit RunningIsDeployed
PROPERTY JobsSettle
CHECK_DEADLOCK FALSE
VIEW IntakeView
