CONSTANTS
  None = None
  a1 = a1
  c1 = c1
  l1 = l1
  l2 = l2
  Conns = {c1}
  Apps = {a1}
  Loops = {l1, l2}
  Connectors = {a1}
  Senders = {}
  Closers = {}
  Askers = {}
  Fds = {1}
  MaxHandle = 1
  FdReuse = FALSE
SPECIFICATION Spec
INVARIANTS
  BatchAlive
