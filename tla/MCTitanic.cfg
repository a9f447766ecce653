SPECIFICATION FairSpec
CONSTANTS
  c1 = c1
  Clients = {c1}
  Retries = 2
  MaxUuids = 2
  MaxFaults = 2
INVARIANTS
  DiskConsistent
  RunAgainByFault
PROPERTIES
  ClosedStaysClosed
  Completes
CHECK_DEADLOCK FALSE
