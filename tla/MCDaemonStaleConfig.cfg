\* The untracked response writer runs after the supervisor has begun the
\* teardown it was spawned alongside.
CONSTANTS
  c1 = c1
  c2 = c2
  c3 = c3
  Conns <- MCConns
  N = 2
  Faults <- MCNoFaults

SPECIFICATION Spec
SYMMETRY MCSymmetry

INVARIANT ResponseBeforeTeardown

CHECK_DEADLOCK FALSE
