----------------------------- MODULE MCEvoRelay -----------------------------
(***************************************************************************)
(* Instances of EvoRelay for TLC.                                          *)
(***************************************************************************)
EXTENDS EvoRelay

CONSTANTS s1, s2, known, stranger

=============================================================================
