SPECIFICATION Spec
CONSTANTS
  Conversation <- MCConversation
  ClassOf <- MCClassOf
  MaxTail = 24
  MaxRead = 30
  Budget = 2
  MaxStops = 3
  MaxFaults = 1
INVARIANTS
  RejectionsAreDeclines
  SubmittedAsWritten
PROPERTIES
  DeclinesReported
  TurnsSubmitted
CHECK_DEADLOCK FALSE
