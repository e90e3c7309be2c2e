SPECIFICATION FairSpec
CONSTANTS
  s1 = s1
  s2 = s2
  Stoppers <- MCStoppers
  EarlyFinish = FALSE
INVARIANTS
  HandlesPublished
  OnlyGameMainMoved
  StopWaitsForLooper
  OnlyKnownFaults
PROPERTIES
  NeverRestarted
  WindowDelivered
  FinishExits
