---------------------------- MODULE MCGuestCodes ----------------------------
EXTENDS GuestCodes, TLC

CONSTANTS g1, g2

MCCodes == {g1, g2}

MCSymmetry == Permutations(MCCodes)
=============================================================================
