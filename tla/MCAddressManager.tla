-------------------------- MODULE MCAddressManager --------------------------
(* Three concurrent callers of take_next_addr / relinquish_addr on two     *)
(* slots: enough for a scan to be overtaken by a relinquish behind it.     *)
EXTENDS AddressManager, TLC

CONSTANTS p1, p2, p3

MCProcs == {p1, p2, p3}

MCSymmetry == Permutations(MCProcs)

=============================================================================
