CONSTANTS
  Goroutine = {g1, g2}
  None = None
  MaxPods = 2
  MaxTouches = 1
  MaxFailures = 1
  MaxEvents = 2
  MaxIndex = 2
SPECIFICATION FairSpec
CHECK_DEADLOCK FALSE
INVARIANTS
  IInv
  OneWatch
  CancelledWithItsPod
  NoRecordLost
PROPERTIES
  EveryPodWatched
  PodsGo
