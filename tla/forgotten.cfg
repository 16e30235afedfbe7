SPECIFICATION Spec
CONSTANTS
  r1 = r1
  r2 = r2
  s1 = s1
  s2 = s2
  Server = {s1}
  Run = {r1}
  Slot = {k1, k2}
  Worker = {}
  User = User
  NoRun = NoRun
  NoSlot = NoSlot
  Nobody = Nobody
  MaxRetries = 1
  Requests = {"queue", "turn"}
  Faults = {}
INVARIANT QueuedTurnsAreStarted
CHECK_DEADLOCK FALSE
