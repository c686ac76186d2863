--------------------------- MODULE HaStateDriver ---------------------------
(***************************************************************************)
(* The Home Assistant State Driver (ha_state_driver.py): one thread        *)
(* subscribes to the states of the configured entities over a WebSocket,   *)
(* announces their transitions, and connects again when the connection     *)
(* ends.                                                                   *)
(*                                                                         *)
(* Home Assistant stands for Core and the proxy of the Supervisor.  Its    *)
(* triggers are numbered; an entity has the same state before and after a  *)
(* change of its attributes.  An entity that does not exist is in a state  *)
(* of IgnoreStates: a trigger without from_state or to_state is ignored    *)
(* like one whose state is (lines 84-97).                                  *)
(***************************************************************************)
EXTENDS Naturals, Sequences, SequencesExt, FiniteSets

CONSTANTS
  Entities,         \* entity_set
  States,           \* states an entity can be in
  IgnoreStates,     \* ignore_states
  MaxRetry,         \* largest wait between two attempts (60)
  MaxTriggers       \* bound: triggers of the entities

\* What the constants must be.
HaAssumption ==
  /\ IsFiniteSet(Entities)
  /\ States # {}
  /\ MaxRetry \in Nat \ {0}
  /\ MaxTriggers \in Nat

VARIABLES
  core,          \* Home Assistant runs
  actual,        \* state of each entity
  made,          \* triggers so far
  link,          \* the WebSocket is open
  wire,          \* messages of the subscription not yet read
  phase,         \* where the driver thread is
  retry,         \* its back-off
  wait,          \* what is left of time.sleep(retry)
  owed,          \* transitions to announce, since the subscription (history)
  last           \* number of the last transition handed to emit (history)

ha == <<core, actual, made>>
history == <<owed, last>>
vars == <<ha, link, wire, phase, retry, wait, history>>

Triggers == [n : 1..MaxTriggers, entity : Entities, old : States, new : States]

TypeOK ==
  /\ core \in BOOLEAN
  /\ actual \in [Entities -> States]
  /\ made \in 0..MaxTriggers
  /\ link \in BOOLEAN
  /\ wire \in Seq(Triggers)
  /\ phase \in {"down", "connect", "auth", "subscribe", "listen", "sleep"}
  /\ retry \in 1..MaxRetry
  /\ wait \in 0..MaxRetry
  /\ owed \subseteq 1..made
  /\ last \in 0..made

Least(a, b) == IF a =< b THEN a ELSE b

Subscribed == link /\ phase = "listen"

\* What _process_trigger_message lets through.
Announceable(t) == t.old # t.new /\ {t.old, t.new} \cap IgnoreStates = {}

(***************************************************************************)
(* Home Assistant                                                          *)
(***************************************************************************)

\* An entity changes its state, or an attribute.
Trigger(e, new) ==
  LET t == [n |-> made + 1, entity |-> e, old |-> actual[e], new |-> new] IN
  /\ core /\ made < MaxTriggers
  /\ made' = t.n
  /\ actual' = [actual EXCEPT ![e] = new]
  /\ wire' = IF Subscribed THEN Append(wire, t) ELSE wire
  /\ owed' = IF Subscribed /\ Announceable(t) THEN owed \cup {t.n} ELSE owed
  /\ UNCHANGED <<core, link, phase, retry, wait, last>>

\* The connection ends; what has arrived may still be read.
Closed ==
  /\ link' = FALSE
  /\ wire' \in {wire, <<>>}
  /\ owed' = {}

CoreStops ==
  /\ core
  /\ core' = FALSE
  /\ Closed
  /\ UNCHANGED <<actual, made, phase, retry, wait, last>>

CoreStarts ==
  /\ ~core
  /\ core' = TRUE
  /\ UNCHANGED <<actual, made, link, wire, phase, retry, wait, history>>

(***************************************************************************)
(* _run_forever                                                            *)
(***************************************************************************)

\* connect, and auth_required is received.
Connect ==
  /\ phase = "connect" /\ core
  /\ link' = TRUE
  /\ phase' = "auth"
  /\ UNCHANGED <<ha, wire, retry, wait, history>>

\* auth_ok
Authenticate ==
  /\ phase = "auth" /\ link
  /\ phase' = "subscribe"
  /\ UNCHANGED <<ha, link, wire, retry, wait, history>>

\* subscribe_trigger has succeeded.
Subscribe ==
  /\ phase = "subscribe" /\ link
  /\ phase' = "listen"
  /\ retry' = 1
  /\ UNCHANGED <<ha, link, wire, wait, history>>

\* Authentication or subscription is refused, or something else is answered:
\* RuntimeError, and `with` closes the connection.
Refused ==
  /\ phase \in {"auth", "subscribe"} /\ link
  /\ Closed
  /\ phase' = "sleep" /\ wait' = retry
  /\ UNCHANGED <<ha, retry, last>>

\* (mutant of Read: the newest message only)
ReadNewest ==
  /\ phase = "listen" /\ wire # <<>>
  /\ wire' = <<>>
  /\ IF Announceable(Last(wire))
     THEN last' = Last(wire).n /\ owed' = owed \ {last'}
     ELSE UNCHANGED history
  /\ UNCHANGED <<ha, link, phase, retry, wait>>

\* (mutant of Read: a message is left in the buffer until another one comes)
ReadKeeps ==
  /\ phase = "listen" /\ wire # <<>>
  /\ wire' \in {wire, Tail(wire)}
  /\ IF Announceable(Head(wire))
     THEN last' = Head(wire).n /\ owed' = owed \ {last'}
     ELSE UNCHANGED history
  /\ UNCHANGED <<ha, link, phase, retry, wait>>

\* The next message; emit is fire_event_names.
Read ==
  /\ phase = "listen" /\ wire # <<>>
  /\ wire' = Tail(wire)
  /\ IF Announceable(Head(wire))
     THEN last' = Head(wire).n /\ owed' = owed \ {last'}
     ELSE UNCHANGED history
  /\ UNCHANGED <<ha, link, phase, retry, wait>>

\* (mutant of Interrupted: the exception ends the thread)
InterruptedForGood ==
  /\ \/ phase = "connect" /\ ~core
     \/ phase \in {"auth", "subscribe", "listen"} /\ ~link
  /\ wire = <<>>
  /\ phase' = "dead" /\ wait' = retry
  /\ UNCHANGED <<ha, link, wire, retry, history>>

\* No connection, or it has ended and the messages are read: an exception, or
\* the end of the iteration.
Interrupted ==
  /\ \/ phase = "connect" /\ ~core
     \/ phase \in {"auth", "subscribe", "listen"} /\ ~link
  /\ wire = <<>>
  /\ phase' = "sleep" /\ wait' = retry
  /\ UNCHANGED <<ha, link, wire, retry, history>>

\* The sleep is over.
Wake ==
  /\ phase = "sleep" /\ wait = 0
  /\ phase' = "connect"
  /\ retry' = Least(2 * retry, MaxRetry)
  /\ UNCHANGED <<ha, link, wire, wait, history>>

Tick ==
  /\ wait > 0
  /\ wait' = wait - 1
  /\ UNCHANGED <<ha, link, wire, phase, retry, history>>

(***************************************************************************)
(* Process                                                                 *)
(***************************************************************************)
Crash ==
  /\ phase # "down"
  /\ phase' = "down"
  /\ link' = FALSE
  /\ wire' = <<>>
  /\ owed' = {}
  /\ wait' = 0
  /\ UNCHANGED <<ha, retry, last>>

Start ==
  /\ phase = "down"
  /\ phase' = "connect"
  /\ retry' = 1
  /\ UNCHANGED <<ha, link, wire, wait, history>>

Init ==
  /\ core \in BOOLEAN
  /\ actual \in [Entities -> States]
  /\ made = 0
  /\ link = FALSE
  /\ wire = <<>>
  /\ phase = "down"
  /\ retry = 1
  /\ wait = 0
  /\ owed = {}
  /\ last = 0

ThreadNext ==
  \/ Connect \/ Authenticate \/ Subscribe
  \/ Read
  \/ Interrupted \/ Refused
  \/ Wake

Next ==
  \/ \E e \in Entities, new \in States : Trigger(e, new)
  \/ CoreStops \/ CoreStarts
  \/ ThreadNext
  \/ Tick
  \/ Crash \/ Start

Spec == Init /\ [][Next]_vars

\* The thread runs, time passes, and Home Assistant accepts a handshake it is
\* offered again and again.
Fairness ==
  /\ WF_vars(ThreadNext)
  /\ WF_vars(Tick)
  /\ SF_vars(Authenticate)
  /\ SF_vars(Subscribe)

FairSpec == Spec /\ Fairness

(***************************************************************************)
(* Properties                                                              *)
(***************************************************************************)

\* Transitions are announced in the order they were made, none twice, across
\* lost connections and restarts (lines 150-155).
InOrder ==
  /\ \A i \in 1..Len(wire) : wire[i].n > last
  /\ \A i, j \in 1..Len(wire) : i < j => wire[i].n < wire[j].n

\* While the subscription lasts, no transition between states that count is
\* lost, however slowly the outputs take them (lines 71-107).
NothingMissed ==
  Subscribed => \A n \in owed : \E i \in 1..Len(wire) : wire[i].n = n

\* If Home Assistant stays up the driver ends up subscribed for good, after any
\* number of failures and refusals (lines 110-166).
ListensAgain ==
  <>[](core /\ phase # "down") => <>[]Subscribed

\* The transitions are told as they were made: both of these.
TransitionsTold == InOrder /\ NothingMissed

\* A transition that is owed is on its way, and nothing else has its number;
\* outside of a subscription nothing is owed, and nothing can be read before
\* the driver listens.
OwedOnTheWay ==
  \A n \in owed : \E i \in 1..Len(wire) : wire[i].n = n /\ Announceable(wire[i])

\* The inductive invariant behind the properties above.
HaInv ==
  /\ TypeOK
  /\ InOrder
  /\ \A i \in 1..Len(wire) : wire[i].n =< made
  /\ OwedOnTheWay
  /\ owed # {} => Subscribed
  /\ wire # <<>> => phase = "listen"
  /\ phase \in {"down", "connect", "sleep"} => ~link

=============================================================================
