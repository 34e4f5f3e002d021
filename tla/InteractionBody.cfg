SPECIFICATION Spec
CONSTANTS
  t1 = t1
  t2 = t2
  e1 = e1
  e2 = e2
  alice = alice
  a1 = a1
  a2 = a2
  Threads = {t1, t2}
  Environs = {e1, e2}
  Traced = {e2}
  Chunked = {e1}
  Kinds = {"wsgi", "flask"}
  Callers = {alice}
  Statuses = {200}
  Refusals = {403}
  Addresses = {a1, a2}
  None = None
  MaxDepth = 2
  MaxRequests = 1
  MaxRaises = 2
SYMMETRY Symmetry
CHECK_DEADLOCK FALSE
INVARIANT AppSeesBody
