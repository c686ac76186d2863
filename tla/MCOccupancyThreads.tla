------------------------- MODULE MCOccupancyThreads -------------------------
(***************************************************************************)
(* Instances of OccupancyThreads for TLC.                                  *)
(***************************************************************************)
EXTENDS OccupancyThreads

CONSTANTS u1, u2, relay1, relay2, polling

MCUsers == {u1, u2}

=============================================================================
