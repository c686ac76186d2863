---------------------------- MODULE MCOccupancy -----------------------------
(***************************************************************************)
(* Instances of Occupancy for TLC.                                         *)
(***************************************************************************)
EXTENDS Occupancy, TLC

CONSTANTS u1, u2

MCUsers == {u1, u2}
MCSymmetry == Permutations(MCUsers)

=============================================================================
