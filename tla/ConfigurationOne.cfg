SPECIFICATION Spec
CONSTANTS
  main = main
  worker = worker
  Threads = {main, worker}
  Main = main
  ConfiguredFirst = FALSE
  None = None
  Empty = Empty
  Bad = Bad
  Segments <- Parts
  DerivedHost <- Hosts
  DefaultUrl <- InUrl
  DefaultLogUrl <- LogUrl
  Arguments <- Given
  Attributes <- Assigned
  Environments <- Envs
  MaxChanges = 1
  MaxCalls = 1
CHECK_DEADLOCK FALSE
INVARIANT OneConfiguration
