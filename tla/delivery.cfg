SPECIFICATION Spec
CONSTANTS
  s1 = s1
  s2 = s2
  r1 = r1
  r2 = r2
  Server = {s1, s2}
  Result = {r1, r2}
  Nobody = Nobody
INVARIANTS
  RemovedIsRecorded
  ClaimMeansAnswered
  TurnOwnsItsResult
  AnsweredTwiceIsExcused
  AnnouncedIsCarried
PROPERTIES
  ClaimsAreFinal
SYMMETRY Symmetric
CONSTRAINT Scenarios
CHECK_DEADLOCK FALSE
