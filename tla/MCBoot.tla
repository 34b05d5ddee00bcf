------------------------------- MODULE MCBoot -------------------------------
(***************************************************************************)
(* An instance of Boot for TLC: words of one byte, and sizes in units of   *)
(* 2^3.  Decimal numbers below 100 fit, 232 and more are never printed.    *)
(***************************************************************************)
EXTENDS Boot

=============================================================================
