SPECIFICATION FairSpec
CONSTANTS
  c1 = c1
  p1 = p1
  p2 = p2
  d1 = d1
  e1 = e1
  e2 = e2
  e3 = e3
  e4 = e4
  Publishers = {p1, p2}
  Dispatchers = {d1}
  Wds = {2, 25, 256}
  Events = {e1, e2, e3, e4}
  Clients = {c1}
  Granted <- MCGranted
  Route <- MCRoute
  Hwm = 2
INVARIANTS
  TypeOK
  HandledOnceInOrder
  NoSilentLoss
PROPERTY
  DueAreDealtWith
CHECK_DEADLOCK FALSE
