------------------------------ MODULE MCDaemon ------------------------------
(* Model-checking instance of Daemon: three connections competing for two  *)
(* slots, so that RESULT_BUSY, slot reuse by a later tenant, and a launch  *)
(* racing the shutdown all occur.                                          *)
EXTENDS Daemon, TLC

CONSTANTS c1, c2, c3

MCConns == {c1, c2, c3}

\* Two connections and one slot still reach RESULT_BUSY, reuse of the slot
\* by a later tenant and a launch racing the shutdown, and keep the
\* liveness runs within reach.
MCConns2 == {c1, c2}

MCNoFaults == {}

MCAllFaults == FaultKinds

MCCreateFails == {"createFails"}

MCStopFails == {"stopFails"}

\* The failures after which every session still ends: the launch task
\* panics before the supervisor exists.
MCLaunchFaults == {"createFails", "earlyExit"}

\* Connections are interchangeable: nothing in the daemon orders them.
MCSymmetry == Permutations(MCConns)

=============================================================================
