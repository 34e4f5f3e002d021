SPECIFICATION Spec
CONSTANTS
  t1 = t1
  t2 = t2
  Threads = {t1, t2}
  NoRequest = NoRequest
  Requests <- MCRequests
  Keys <- MCKeys
  Grants <- MCGrants
  Ttls = {0, 1, 3}
  MaxSize = 2
  MaxClock = 3
  MaxRequests = 3
CHECK_DEADLOCK FALSE
INVARIANT TypeOK
INVARIANT CacheBounded
PROPERTY ServedWithinTtl
INVARIANT GrantIsForThisRequest
PROPERTY ExpiredGoFirst
