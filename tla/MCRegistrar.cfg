SPECIFICATION FairSpec
CONSTANTS
  p1 = p1
  p2 = p2
  p3 = p3
  c1 = c1
  c2 = c2
  f1 = f1
  f2 = f2
  NoPublisher = NoPublisher
  NoPath = NoPath
  Publishers = {p1, p2, p3}
  Clients = {c1, c2}
  Names = {f1, f2}
  Missing = {f2}
  REPLICATION_FACTOR = 2
  ItemsOf <- MCItemsOf
  KeyPoint <- MCKeyPoint
  Wanted <- MCWanted
  PublishersFirst = FALSE
INVARIANTS
  RegistrarNeverCrashes
  IdsNamePaths
  OnlyJoinersUnheard
PROPERTY
  EveryCallCompletes
CHECK_DEADLOCK FALSE
