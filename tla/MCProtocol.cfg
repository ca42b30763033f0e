CONSTANTS
  Codes <- MCCodes
  Chars <- MCChars
  NameLens <- MCNameLens
  PortNums <- MCPortNums
  PortCounts <- MCPortCounts
  Clients <- MCClients
SPECIFICATION Spec
INVARIANTS
  TypeOK
  LaunchesWhatWasAsked
  WellFormedAccepted
  TooManyPortsRejected
CHECK_DEADLOCK FALSE
