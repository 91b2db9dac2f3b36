CONSTANTS
  None = None
  a1 = a1
  a2 = a2
  c1 = c1
  c2 = c2
  l1 = l1
  Conns = {c1, c2}
  Apps = {a1, a2}
  Loops = {l1}
  Connectors = {a1, a2}
  Senders = {}
  Closers = {a1}
  Askers = {}
  Fds = {1, 2}
  MaxHandle = 2
  FdReuse = FALSE
SPECIFICATION Spec
PROPERTIES
  HandleUsedOnce
