SPECIFICATION Spec
CONSTANTS
  MaxRestarts = 1
  MaxLate = 1
  MaxUpdates = 2
  MaxMoves = 1
  Ephemeral <- MCEphemeral
INVARIANTS
  StoresConsistent
  NoSplitBrain
  PassiveFollows
  AgentFollows
PROPERTIES
  Settles
CHECK_DEADLOCK FALSE
