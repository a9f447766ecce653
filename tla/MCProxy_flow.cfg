SPECIFICATION FairSpec
CONSTANTS
  r1 = r1
  r2 = r2
  d1 = d1
  d2 = d2
  m1 = m1
  m2 = m2
  m3 = m3
  Mutations = {m1, m2, m3}
  Readers = {r1, r2}
  Dispatchers = {d1, d2}
  MaxQueued = 1
  BatchSize = 2
  WorkSize = 1
  OutboxSize = 1
INVARIANTS
  TypeOK
  EachItemInOnePlace
  BlocksInKernelOrder
PROPERTY
  QueuedItemsArrive
CHECK_DEADLOCK FALSE
