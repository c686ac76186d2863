--------------------------- MODULE StoreAndForward ---------------------------
(***************************************************************************)
(* What the store-and-forward output of the Seiden Bridge promises to the  *)
(* rest of the program, without its table, its worker or its clock.        *)
(*                                                                         *)
(* An event handed over is accepted once.  While it is pending it can be   *)
(* delivered to the upstream server, any number of times; it stops being   *)
(* pending when a delivery has been confirmed, or when the retention or    *)
(* the size limit gives it up, which is recorded.  Nothing else ends a     *)
(* pending event, and nothing that was not accepted is ever delivered.     *)
(***************************************************************************)

CONSTANT Events   \* identities (event_id) of the events the program creates

VARIABLES
  pending,        \* accepted, neither confirmed nor given up
  delivered,      \* reached the upstream server at least once
  givenUp         \* dropped by the retention or by the size limit

vars == <<pending, delivered, givenUp>>

Known == pending \cup delivered \cup givenUp

TypeOK ==
  /\ pending \subseteq Events
  /\ delivered \subseteq Events
  /\ givenUp \subseteq Events

Init ==
  /\ pending = {}
  /\ delivered = {}
  /\ givenUp = {}

\* A new event is taken in; the same transaction may give up any of the
\* events that are pending by then, the new one included.
Accept(e, drop) ==
  /\ e \notin Known
  /\ drop \subseteq pending \cup {e}
  /\ pending' = (pending \cup {e}) \ drop
  /\ givenUp' = givenUp \cup drop
  /\ UNCHANGED delivered

\* The server receives an event.  It may have been given up meanwhile (a
\* request in flight is not recalled) and may be a repetition.
Deliver(e) ==
  /\ e \in Known
  /\ delivered' = delivered \cup {e}
  /\ UNCHANGED <<pending, givenUp>>

\* A delivered event is forgotten.
Confirm(e) ==
  /\ e \in pending \cap delivered
  /\ pending' = pending \ {e}
  /\ UNCHANGED <<delivered, givenUp>>

Next ==
  \/ \E e \in Events : \E drop \in SUBSET (pending \cup {e}) : Accept(e, drop)
  \/ \E e \in Events : Deliver(e) \/ Confirm(e)

Spec == Init /\ [][Next]_vars

\* Liveness: an accepted event reaches the server or is given up; it does not
\* stay pending for ever (the retry loop of upstream.py:168-172).
Settled(e) == (e \in pending) ~> (e \in delivered \cup givenUp)

=============================================================================
