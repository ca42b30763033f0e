\* Liveness of sessions and of the shutdown drain under the runtime's
\* scheduling fairness.
CONSTANTS
  c1 = c1
  c2 = c2
  c3 = c3
  Conns <- MCConns2
  N = 1
  Faults <- MCLaunchFaults

SPECIFICATION FairSpec

PROPERTY SessionsEnd
PROPERTY ShutdownCompletes
PROPERTY ContainersStopped
PROPERTY RequestsAnswered

\* The only terminal state is the one after main() has returned.
CHECK_DEADLOCK FALSE
