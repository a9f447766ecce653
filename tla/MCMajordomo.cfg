SPECIFICATION FairMajordomoSpec
CONSTANTS
  w1 = w1
  w2 = w2
  c1 = c1
  echo = echo
  mmi = mmi
  Workers = {w1, w2}
  Services = {echo}
  MMI = mmi
  Clients = {c1}
  ServiceOf <- MCServiceOf
  Calls <- MCCalls
  Retries = 2
  MaxSessions = 2
  MaxFaults = 1
INVARIANTS
  ListsConsistent
  EachAttemptInOnePlace
CHECK_DEADLOCK FALSE
PROPERTIES
  Healing
  ImplementsRequestReply
