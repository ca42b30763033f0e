CONSTANTS
  g1 = g1
  g2 = g2
  Codes <- MCCodes
  MaxIssued = 2
SPECIFICATION CodeSpec
INVARIANTS
  CodeTypeOK
  ExpiryScheduled
  SingleUse
PROPERTY
  CodesExpire
