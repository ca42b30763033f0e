----------------------------- MODULE MCProtocol -----------------------------
EXTENDS Protocol

\* 0x01020304: every byte of the guest code differs.
MCCodes == {0, 16909060}

\* "a" and "é" (C3 A9), the one- and two-byte forms of UTF-8.
MCChars == {<<97>>, <<195, 169>>}

\* Empty, one character, and the 63 characters varchar(63) allows.
MCNameLens == {0, 1, 63}

\* 443 = BB 01: its two bytes differ, so byte order shows.
MCPortNums == {443}

\* No ports, one, the most the protocol accepts, and one more.
MCPortCounts == {0, 1, 9, 10}

MCClients == {"archive", "truncated", "corrupt"}
=============================================================================
