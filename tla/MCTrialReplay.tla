--------------------------- MODULE MCTrialReplay ---------------------------
(* A window of two days with two past days at first, later three.          *)
EXTENDS TrialReplay, TLC
=============================================================================
