---------------------------- MODULE MCEvoPolling ----------------------------
(***************************************************************************)
(* Instances of EvoPolling for TLC.                                        *)
(***************************************************************************)
EXTENDS EvoPolling

CONSTANTS r1, r2

MCReaders == {r1, r2}

=============================================================================
