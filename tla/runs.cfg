SPECIFICATION Spec
CONSTANTS
  r1 = r1
  r2 = r2
  s1 = s1
  s2 = s2
  Server = {s1, s2}
  Run = {r1, r2}
  Slot = {k1, k2}
  Worker = {w1}
  User = User
  NoRun = NoRun
  NoSlot = NoSlot
  Nobody = Nobody
  MaxRetries = 1
  Requests = {"turn", "queue", "steer", "turn/interrupt", "run/interrupt"}
  Faults = {"crash", "admission", "attach", "response", "settle", "drain"}
INVARIANTS
  ActiveRunIsHeld
  LeaseIsOwned
  TimeoutIsReported
PROPERTIES
  QueueStaysAwake
SYMMETRY Slots
CONSTRAINT Bounded
CHECK_DEADLOCK FALSE
