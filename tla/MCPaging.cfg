SPECIFICATION FairSpec
CONSTANTS
  Ids = {1, 2, 3}
  Limits <- LimitsTried
  MaxPageSize = 2
  DefaultSize = 2
  StuckOn = {2}
  MaxFaults = 1
  MaxChanges = 2
  None = None
  Blank = Blank
CHECK_DEADLOCK FALSE
INVARIANT TypeOK
INVARIANT ExactScan
PROPERTY IterationEnds
