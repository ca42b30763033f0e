CONSTANTS
  g1 = g1
  n1 = n1
  i1 = i1
  i2 = i2
  Codes <- MCCodes
  Names <- MCNames
  Images <- MCImages
  PortCounts <- MCPortCounts
  DbPortLimit = 10
  MaxIssued = 1
  CategoryInputs <- MCCategoryInputs
  DateInputs <- MCDateInputs
  MaxRows = 1
  MaxLaunches = 1
SPECIFICATION Spec
INVARIANTS
  ArchiveTypeOK
  DemoLaunchAuthorized
  GuestLaunchRedeemed
PROPERTIES
  AdminWritesAuthorized
