----------------------------- MODULE MCUpstream -----------------------------
(***************************************************************************)
(* Instances of Upstream for TLC.                                          *)
(***************************************************************************)
EXTENDS Upstream, TLC

CONSTANTS e1, e2, e3, t1, t2

\* Two small events that fill the table together, and one that alone is larger
\* than the limit: a submit can drop nothing, one other event, all the others,
\* or itself.
MCEvents == {e1, e2, e3}
MCSize == (e1 :> 1) @@ (e2 :> 1) @@ (e3 :> 3)

\* Two small events only.
MCTwoEvents == {e1, e2}
MCSizeOne == [e \in MCTwoEvents |-> 1]

=============================================================================
