SPECIFICATION FairSpec
CONSTANTS
  c1 = c1
  c2 = c2
  k1 = k1
  Calls = {c1, c2}
  ChosenKeys = {k1}
  None = None
  MaxRetries = 1
CHECK_DEADLOCK FALSE
INVARIANT TypeOK
INVARIANT PostOnce
INVARIANT PatchOnce
PROPERTY CallsEnd
PROPERTY Promised
