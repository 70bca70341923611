-------------------------------- MODULE Octets --------------------------------
(***************************************************************************)
(* The exclusive or of two octets, as the checksums of the terminal use    *)
(* it: bit by bit, without carry.                                          *)
(***************************************************************************)
EXTENDS Naturals

XorByte(a, b) == LET bit(w) == ((a \div w + b \div w) % 2) * w
                 IN bit(1) + bit(2) + bit(4) + bit(8) + bit(16) + bit(32) + bit(64) + bit(128)
===============================================================================
