-------------------------- MODULE MCStateDriverUi ---------------------------
(***************************************************************************)
(* An instance of StateDriverUi with topics, one of which has a comma in   *)
(* its name.                                                               *)
(***************************************************************************)
EXTENDS StateDriverUi

=============================================================================
