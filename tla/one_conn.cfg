CONSTANTS
  None = None
  a1 = a1
  a2 = a2
  c1 = c1
  l1 = l1
  Conns = {c1}
  Apps = {a1, a2}
  Loops = {l1}
  Connectors = {a1}
  Senders = {a2}
  Closers = {a1, a2, l1}
  Askers = {a1}
  Fds = {1}
  MaxHandle = 1
  FdReuse = FALSE
SPECIFICATION Spec
INVARIANTS
  TypeOK
  CloseOnce
  OutputArmed
  RefInv
  ServiceInv

  
