\* A stop_container error other than 404 leaves the container running for
\* good while the session is counted as ended and its slot is reused.
CONSTANTS
  c1 = c1
  c2 = c2
  c3 = c3
  Conns <- MCConns
  N = 2
  Faults <- MCStopFails

SPECIFICATION FairSpec

PROPERTY ContainersStopped

\* The only terminal state is the one after main() has returned.
CHECK_DEADLOCK FALSE
