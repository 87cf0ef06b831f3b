----------------------------- MODULE MCNumbers ------------------------------
(* Numbers for TLC: words of 8 bits, so that small Nats end at 127, small     *)
(* Ints at -8 and 7, and machine integers at -128 and 127.  The operands and  *)
(* the numbers that are computed with further lie at and around those borders *)
(* and that of the unsigned word, 256.                                        *)
EXTENDS Numbers

BorderOperands == {-129, -128, -9, -8, -7, -3, -2, -1, 0, 1, 2, 3, 5, 7, 8, 9, 127, 128, 255, 256}
BorderResults == BorderOperands \cup -10..10 \cup {-127, -16, -15, 14, 15, 16, 17, 126, 129, 254, 257}
=============================================================================
