SPECIFICATION Spec
CONSTANTS
  r1 = r1
  r2 = r2
  w1 = w1
  w2 = w2
  o1 = o1
  o2 = o2
  NoParent = NoParent
  Runtime = {r1, r2}
  Workflow = {w1}
  Operation = {o1, o2}
  WorkflowOf <- OneWorkflow
  Parent <- SecondIsChild
  BestEffort = {o2}
  AttemptLimit = 1
  Limit <- NoLimit
  MaxUnknown <- Unlimited
  MaxUsage <- OneToken
  MaxOutput = 1
  Reported = {1, 2}
  Plan <- Replay
  Seeds = {1}
  Updater = {"client"}
INVARIANTS
  LedgerMatchesRows
  ActiveOperationHasActiveWorkflow
PROPERTIES
  OutcomesAreFinal
  HardLimitNeverBlind
CHECK_DEADLOCK FALSE
CONSTRAINT LateOrSecond
