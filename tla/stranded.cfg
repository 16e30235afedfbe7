SPECIFICATION FairSpec
CONSTANTS
  r1 = r1
  r2 = r2
  w1 = w1
  w2 = w2
  o1 = o1
  o2 = o2
  NoParent = NoParent
  Runtime = {r1, r2}
  Workflow = {w1, w2}
  Operation = {o1, o2}
  WorkflowOf <- OneEach
  Parent <- NoParents
  BestEffort = {}
  AttemptLimit = 1
  Limit <- OneReplay
  MaxUnknown <- Unlimited
  MaxUsage <- Unlimited
  MaxOutput = 0
  Reported = {}
  Plan <- NoPlan
  Seeds = {0}
  Updater = {}
PROPERTIES
  EveryOrphanSettles
CHECK_DEADLOCK FALSE
CONSTRAINT CrashedWorker
