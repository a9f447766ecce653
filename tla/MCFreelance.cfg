SPECIFICATION Spec
CONSTANTS
  s1 = s1
  s2 = s2
  Order <- MCOrder
  MaxCalls = 3
  Room = 1
INVARIANTS
  AnswersConsistent
PROPERTIES
  NoCallHangs
  ImplementsRequestReply
CHECK_DEADLOCK FALSE
