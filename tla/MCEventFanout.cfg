CONSTANTS
  Group = {g1}
  Watcher = {w1, w2}
  Capacity = 1
  MaxLeaderEvents = 2
  Nobody = Nobody
SPECIFICATION FairSpec
CHECK_DEADLOCK FALSE
INVARIANTS
  IInv
  NoSendOnClosed
  WatcherCurrent
  LostOnlyByClash
PROPERTIES
  InOrder
  PublishEnds
  LeaderDelivered
