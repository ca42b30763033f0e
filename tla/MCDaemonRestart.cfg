\* A launch dispatched after tracker.wait() returned outlives the drain;
\* its DNAT rule catches the next tenant of its slot after a restart.
CONSTANTS
  c1 = c1
  c2 = c2
  c3 = c3
  Conns <- MCConns
  N = 2
  Faults <- MCNoFaults

SPECIFICATION RestartSpec
SYMMETRY MCSymmetry

INVARIANT TenantIsolated

CHECK_DEADLOCK FALSE
