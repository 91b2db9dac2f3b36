\* The application makes no more calls, or the NetWork is gone.
CHECK_DEADLOCK FALSE
CONSTANTS
  Threads = {t1, t2}
  App = App
  MaxFails = 1
  Handles = {h1, h2}
  None = None
  MaxCalls = 2
  MaxDrops = 1
SPECIFICATION Spec
INVARIANTS
  WrappersTypeOK
  ThreadAlive
  LoopGone
  Reachable
  LostOnlyInConnect
  CloseHeard
PROPERTIES
  DestroyEnds
