SPECIFICATION Spec
CONSTANTS
  p1 = p1
  p2 = p2
  t1 = t1
  t2 = t2
  t3 = t3
  b1 = b1
  b2 = b2
  b3 = b3
  n1 = n1
  n2 = n2
  NoName = NoName
  NoBlock = NoBlock
  NoPublisher = NoPublisher
  Publishers = {p1, p2}
  Parsers = {t1, t2, t3}
  Blocks = {b1, b2, b3}
  Names = {n1, n2}
  REPLICATION_FACTOR = 2
  ItemsOf <- MCItemsOf
  KeyPoint <- MCKeyPoint
  Content <- MCContent
  InboxSize = 1
  QuietStart = FALSE
SYMMETRY Threads
INVARIANTS
  TablesConsistent
  InOrderAtMostOnce
CHECK_DEADLOCK FALSE
