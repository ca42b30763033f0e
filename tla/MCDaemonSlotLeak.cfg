\* A launch whose docker create fails never gives its slot back.
CONSTANTS
  c1 = c1
  c2 = c2
  c3 = c3
  Conns <- MCConns
  N = 2
  Faults <- MCCreateFails

SPECIFICATION Spec
SYMMETRY MCSymmetry

INVARIANT SlotOwnership

CHECK_DEADLOCK FALSE
