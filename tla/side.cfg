SPECIFICATION FairSpec
CONSTANTS
  Server = {s1, s2}
  Turn = {t1, t2}
  NoTurn = NoTurn
INVARIANTS
  DeletionStopsWork
PROPERTIES
  RepliesAreFinal
  HistoryIsKept
  RecoverySparesTheLiving
  InterruptReachesOwner
