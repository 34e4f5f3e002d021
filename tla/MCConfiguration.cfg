SPECIFICATION Spec
CONSTANTS
  main = main
  worker = worker
  Threads = {main, worker}
  Main = main
  ConfiguredFirst = TRUE
  None = None
  Empty = Empty
  Bad = Bad
  Segments <- Parts
  DerivedHost <- Hosts
  DefaultUrl <- InUrl
  DefaultLogUrl <- LogUrl
  Arguments <- Given
  Attributes <- Assigned
  Environments <- Envs
  MaxChanges = 3
  MaxCalls = 2
CHECK_DEADLOCK FALSE
INVARIANT TypeOK
INVARIANT QuietCallIsWhole
 
