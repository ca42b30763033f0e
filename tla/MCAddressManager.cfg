\* The fetch_or scan stays within the flag array.
CONSTANTS
  p1 = p1
  p2 = p2
  p3 = p3
  Procs <- MCProcs
  N = 2

SPECIFICATION Spec

INVARIANT TypeOK
