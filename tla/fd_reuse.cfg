CONSTANTS
  None = None
  a1 = a1
  c1 = c1
  c2 = c2
  l1 = l1
  Conns = {c1, c2}
  Apps = {a1}
  Loops = {l1}
  Connectors = {a1}
  Senders = {a1}
  Closers = {a1}
  Askers = {}
  Fds = {1}
  MaxHandle = 2
  FdReuse = TRUE
SPECIFICATION Spec
SYMMETRY ConnSymmetry
INVARIANTS
  RegistrationMatches
