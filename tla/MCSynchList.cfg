SPECIFICATION MCSpec
CONSTANTS
  p1 = p1
  c1 = c1
  c2 = c2
  c3 = c3
  o1 = o1
  Thread = {p1, c1, c2, c3, o1}
  Producer = {p1}
  Consumer = {c1, c2, c3}
  Observer = {o1}
  Item = {x, y}
  NoItem = NoItem
  NoThread = NoThread
  NoCondition = NoCondition
  Condition = {listEmpty, other}
  listEmpty = listEmpty
INVARIANTS
  MutualExclusion
  HolderIsInside
  WaiterOnQueueIsAlive
  WaitingIsReachable
  NoItemStranded
PROPERTIES
  ListIsFifo
CHECK_DEADLOCK FALSE
