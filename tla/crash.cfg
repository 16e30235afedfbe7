SPECIFICATION Spec
CONSTANTS
  r1 = r1
  r2 = r2
  w1 = w1
  w2 = w2
  o1 = o1
  o2 = o2
  NoParent = NoParent
  Runtime = {r1, r2}
  Workflow = {w1}
  Operation = {o1}
  WorkflowOf <- OneWorkflow
  Parent <- NoParents
  BestEffort = {}
  AttemptLimit = 2
  Limit <- OneReplay
  MaxUnknown <- Unlimited
  MaxUsage <- Unlimited
  MaxOutput = 0
  Reported = {}
  Plan <- Replay
  Seeds = {0}
  Updater = {"client"}
INVARIANTS
  WriteAhead
  RescheduleSafeNeverSent
  CountersMatchRows
  JournalInvariant
PROPERTIES
  KeepsRecoveryContract
  LiveOwnerSettlesItself
CHECK_DEADLOCK FALSE
CONSTRAINT WorkerAndRecoverer
