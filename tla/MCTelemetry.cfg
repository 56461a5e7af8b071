SPECIFICATION FairSpec
CONSTANTS
  Session = {s1}
  BatchCap = 2
  MaxLog = 2
  MaxFailures = 1
INVARIANTS TypeOK CommittedIsCounted RowsExact
PROPERTIES TotalsGrow EventsCounted CountsPublished
CHECK_DEADLOCK FALSE
