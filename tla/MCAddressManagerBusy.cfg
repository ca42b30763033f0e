\* take_next_addr may answer None while a slot is free at every instant.
CONSTANTS
  p1 = p1
  p2 = p2
  p3 = p3
  Procs <- MCProcs
  N = 2

SPECIFICATION Spec

PROPERTY BusyOnlyWhenFull
