SPECIFICATION FairSpec
CONSTANTS
  w1 = w1
  w2 = w2
  c1 = c1
  Workers = {w1, w2}
  Clients = {c1}
  Calls <- MCCalls
  Retries = 2
  MaxSessions = 2
  MaxFaults = 1
INVARIANTS
  ListsConsistent
PROPERTIES
  ImplementsRequestReply
  Healing
CHECK_DEADLOCK FALSE
