SPECIFICATION FairSpec
CONSTANTS
  r1 = r1
  r2 = r2
  w1 = w1
  w2 = w2
  o1 = o1
  o2 = o2
  NoParent = NoParent
  Runtime = {r1, r2}
  Workflow = {w1}
  Operation = {o1}
  WorkflowOf <- OneWorkflow
  Parent <- NoParents
  BestEffort = {o1}
  AttemptLimit = 1
  Limit <- OneReplay
  MaxUnknown <- Unlimited
  MaxUsage <- Unlimited
  MaxOutput = 0
  Reported = {}
  Plan <- NoPlan
  Seeds = {0}
  Updater = {}
PROPERTIES
  OrphansSettle
CHECK_DEADLOCK FALSE
