SPECIFICATION Spec
CONSTANTS
  MaxConns = 2
  MaxDials = 3
  SpoolLimit = 1
  MaxSessions = 2
  MaxLines = 2
  MaxHandshakes = 2
  MaxAsks = 1
  MaxRestarts = 1
INVARIANTS
  QuietLinkIsDelivered
  SpoolKeepsUnreceived
  ReplayIsComplete
  FirstHandshakeAttaches
PROPERTIES
  FramesReachTheirSession
  DeliverySpec
CONSTRAINT Scenarios
CHECK_DEADLOCK FALSE
