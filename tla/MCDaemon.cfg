\* Safety of the session lifecycle under every environment failure the
\* code meets: docker create failing, early workload exit, stop failing,
\* and wg42 refusing a peer change.
CONSTANTS
  c1 = c1
  c2 = c2
  c3 = c3
  Conns <- MCConns
  N = 2
  Faults <- MCAllFaults

SPECIFICATION Spec
SYMMETRY MCSymmetry

INVARIANT TypeOK
INVARIANT KernelStateOwned
INVARIANT SlotAccounted
INVARIANT KernelCommandsSucceed

\* The only terminal state is the one after main() has returned.
CHECK_DEADLOCK FALSE
