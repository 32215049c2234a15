CONSTANTS
  MCKeys = {a, b}
  MCTimes = {1, 2, NoTime}
  MCTwice = {a}
  MaxTime = 2
  NoTime = NoTime
  Items <- MCItems
  KeyGetter <- MCKeyGetter
  TimeGetter <- MCTimeGetter
SPECIFICATION FairSpec
INVARIANTS
  QueueInv
PROPERTIES
  DueItemsLeave
  ImplementsPendingSet
CHECK_DEADLOCK FALSE
