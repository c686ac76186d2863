-------------------------- MODULE MqttStateDriver --------------------------
(***************************************************************************)
(* The MQTT connector (connectors/mqtt.py) and the MQTT State Driver       *)
(* (app.py, handle_mqtt_event): one connection and one topic of its        *)
(* state_driver_topics.  The network thread of the client takes the        *)
(* messages one by one, compares the tracked fields with a cache, and      *)
(* announces what has changed; meanwhile it takes nothing else.            *)
(*                                                                         *)
(* Connections have ids of their own: only then is an entry of the cache   *)
(* the business of one thread.                                             *)
(***************************************************************************)
EXTENDS Naturals, Sequences, SequencesExt, Functions

CONSTANTS
  Fields,            \* fields of the payload that the driver tracks
  Values,            \* what they can be
  MaxPublications    \* bound: publications of the device

\* What the constants must be.
MqttAssumption ==
  /\ Values # {}
  /\ MaxPublications \in Nat

VARIABLES
  config,       \* retain of the device, clean_session, publish_raw
  published,    \* payloads of the device, in order
  retained,     \* publication the broker keeps, 0 if none
  outbox,       \* publications not acknowledged, of a session the broker keeps
  wire,         \* publications on their way to the Bridge
  link,         \* connected and subscribed
  phase,        \* where the network thread is
  cache,        \* the entry of mqtt_state_cache, empty if there is none
  todo,         \* transitions still to announce
  since,        \* publication each cached value is of (history)
  baseline,     \* what each field was first known to be (history)
  told          \* the last value of a field announced to the outputs, of those
                \* announced since the start (history)

broker == <<published, retained, outbox>>
memory == <<cache, since, baseline, told>>
vars == <<config, broker, wire, link, phase, todo, memory>>

Publications == 1..MaxPublications
Payloads == UNION {[S -> Values] : S \in SUBSET Fields}
Transitions == [field : Fields, old : Values, new : Values,
                from : Publications, by : Publications]
NoEntry == [f \in {} |-> 0]

TypeOK ==
  /\ config \in [retain : BOOLEAN, clean : BOOLEAN, raw : BOOLEAN]
  /\ published \in Seq(Payloads) /\ Len(published) =< MaxPublications
  /\ retained \in 0..Len(published)
  /\ outbox \in Seq(1..Len(published))
  /\ wire \in Seq(1..Len(published))
  /\ link \in BOOLEAN
  /\ phase \in {"down", "idle", "fire", "raw"}
  /\ cache \in Payloads
  /\ todo \subseteq Transitions
  /\ since \in [DOMAIN cache -> Publications]
  /\ baseline \in [DOMAIN cache -> Values]
  /\ DOMAIN told \subseteq DOMAIN cache /\ told \in [DOMAIN told -> Values]

(***************************************************************************)
(* Device, broker and network                                              *)
(***************************************************************************)

\* The device publishes: all its fields, some, or none of those tracked.
Publish(payload) ==
  LET n == Len(published) + 1 IN
  /\ n =< MaxPublications
  /\ published' = Append(published, payload)
  /\ retained' = IF config.retain THEN n ELSE retained
  /\ wire' = IF link THEN Append(wire, n) ELSE wire
  /\ outbox' = IF config.clean THEN outbox ELSE Append(outbox, n)
  /\ UNCHANGED <<config, link, phase, todo, memory>>

\* The broker learns that the first message has been received.
Acknowledge ==
  /\ link /\ outbox # <<>>
  /\ Head(outbox) \notin ToSet(wire)
  /\ outbox' = Tail(outbox)
  /\ UNCHANGED <<config, published, retained, wire, link, phase, todo, memory>>

\* What is on the way is lost, and so are acknowledgements.
Disconnect ==
  /\ link
  /\ link' = FALSE
  /\ wire' = <<>>
  /\ UNCHANGED <<config, broker, phase, todo, memory>>

(***************************************************************************)
(* MqttConnector                                                           *)
(***************************************************************************)

\* (mutant of Connect: the subscription is not made again)
ConnectSilently ==
  /\ phase = "idle" /\ ~link
  /\ link' = TRUE
  /\ wire' = outbox
  /\ UNCHANGED <<config, broker, phase, todo, memory>>

\* The client connects and on_connect subscribes: the broker sends what it has
\* kept for the session, and then, for the subscription, what it retains.
Connect ==
  /\ phase = "idle" /\ ~link
  /\ link' = TRUE
  /\ wire' = outbox \o (IF retained = 0 THEN <<>> ELSE <<retained>>)
  /\ UNCHANGED <<config, broker, phase, todo, memory>>

(***************************************************************************)
(* handle_mqtt_event                                                       *)
(***************************************************************************)
\* What publication n changes (_state_driver_extract, transitions).  A field
\* that was not known before is baseline: nothing of it is announced.
Changes(n) ==
  {[field |-> f, old |-> cache[f], new |-> published[n][f], from |-> since[f], by |-> n] :
     f \in {g \in DOMAIN published[n] \cap DOMAIN cache : cache[g] # published[n][g]}}

\* dict(previous).update(current)
Updated(old, new) ==
  [f \in DOMAIN old \cup DOMAIN new |-> IF f \in DOMAIN new THEN new[f] ELSE old[f]]

\* Where the thread goes when the transitions T are left: a payload the driver
\* has handled is passed on as it is only if publish_raw says so.
After(T, handled) ==
  IF T # {} THEN "fire" ELSE IF config.raw \/ ~handled THEN "raw" ELSE "idle"

\* (mutant of Take: the entry is replaced, not merged)
TakeReplaces(n) ==
  /\ cache' = published[n]
  /\ since' = [f \in DOMAIN published[n] |-> n]
  /\ baseline' = Updated(published[n], baseline)
  /\ todo' = Changes(n)
  /\ phase' = After(Changes(n), DOMAIN published[n] # {})

\* (mutant of Take: a payload with a new field is baseline for all its fields)
TakeRebaselines(n) ==
  LET T == IF DOMAIN published[n] \subseteq DOMAIN cache THEN Changes(n) ELSE {} IN
  /\ cache' = Updated(cache, published[n])
  /\ since' = Updated(since, [f \in DOMAIN published[n] |-> n])
  /\ baseline' = Updated(published[n], baseline)
  /\ todo' = T
  /\ phase' = After(T, DOMAIN published[n] # {})

\* The comparison and the update of the entry, under mqtt_state_lock.
Take(n) ==
  /\ cache' = Updated(cache, published[n])
  /\ since' = Updated(since, [f \in DOMAIN published[n] |-> n])
  /\ baseline' = Updated(published[n], baseline)
  /\ todo' = Changes(n)
  /\ phase' = After(Changes(n), DOMAIN published[n] # {})

\* (mutant of Receive: messages are handed to a pool)
ReceiveAny ==
  /\ phase = "idle"
  /\ \E i \in 1..Len(wire) : wire' = RemoveAt(wire, i) /\ Take(wire[i])
  /\ UNCHANGED <<config, broker, link, told>>

\* on_message
Receive ==
  /\ phase = "idle" /\ wire # <<>>
  /\ wire' = Tail(wire)
  /\ Take(Head(wire))
  /\ UNCHANGED <<config, broker, link, told>>

\* fire_event_names for a transition; the order is that of the payload.
Fire(t) ==
  /\ phase = "fire" /\ t \in todo
  /\ todo' = todo \ {t}
  /\ told' = Updated(told, [f \in {t.field} |-> t.new])
  /\ phase' = After(todo \ {t}, TRUE)
  /\ UNCHANGED <<config, broker, wire, link, cache, since, baseline>>

\* fire_event_names for the payload itself.
FireRaw ==
  /\ phase = "raw"
  /\ phase' = "idle"
  /\ UNCHANGED <<config, broker, wire, link, todo, memory>>

(***************************************************************************)
(* Process                                                                 *)
(***************************************************************************)
Crash ==
  /\ phase # "down"
  /\ phase' = "down"
  /\ link' = FALSE
  /\ wire' = <<>>
  /\ todo' = {}
  /\ cache' = NoEntry /\ since' = NoEntry /\ baseline' = NoEntry /\ told' = NoEntry
  /\ UNCHANGED <<config, broker>>

Start ==
  /\ phase = "down"
  /\ phase' = "idle"
  /\ UNCHANGED <<config, broker, wire, link, todo, memory>>

Init ==
  /\ config \in [retain : BOOLEAN, clean : BOOLEAN, raw : BOOLEAN]
  /\ published = <<>>
  /\ retained = 0
  /\ outbox = <<>>
  /\ wire = <<>>
  /\ link = FALSE
  /\ phase = "down"
  /\ cache = NoEntry
  /\ todo = {}
  /\ since = NoEntry
  /\ baseline = NoEntry
  /\ told = NoEntry

ThreadNext ==
  \/ Receive
  \/ \E t \in todo : Fire(t)
  \/ FireRaw

Next ==
  \/ \E payload \in Payloads : Publish(payload)
  \/ Acknowledge
  \/ Connect \/ Disconnect
  \/ ThreadNext
  \/ Crash \/ Start

Spec == Init /\ [][Next]_vars

\* The network thread runs, its requests having a timeout.
Fairness == WF_vars(ThreadNext)

FairSpec == Spec /\ Fairness

(***************************************************************************)
(* Properties                                                              *)
(***************************************************************************)

\* Where the announcements of a field have led: to the last of them, or, if it
\* has none since the start, to the baseline it silently began with.
Reached(f) == IF f \in DOMAIN told THEN told[f] ELSE baseline[f]

\* The transitions announced for a field form a chain, from its baseline to the
\* cached value: each begins where the one before ended, whatever fields the
\* payloads carry and whenever the connection was lost (app.py, lines 2567-2608).
Chained ==
  /\ \A t \in todo : t.old = Reached(t.field) /\ t.new = cache[t.field] /\ t.old # t.new
  /\ \A f \in DOMAIN cache :
       Reached(f) = cache[f] \/ \E t \in todo : t.field = f

\* A transition never leads back to an older publication ("somente quando
\* ocorre uma mudança real", README.md:118), unless the broker sends again
\* what a persistent session has not acknowledged.
NoStaleNews ==
  config.clean => \A t \in todo : t.from < t.by

\* After any losses of the connection and of the process, and if the connection
\* lasts, the announcements lead to the state the device retains (on_connect
\* subscribes each time, mqtt.py:82-90): the outputs were told it by the last
\* announcement since the start, or nothing was announced since the start and
\* it is the baseline.  A baseline is silent, so that the outputs need not have
\* heard of what changed while the process was down (README.md:107-110, 120).
CatchesUp ==
  <>[](link /\ config.retain) =>
    <>[](retained # 0 =>
           \A f \in DOMAIN published[retained] :
             f \in DOMAIN cache /\ Reached(f) = published[retained][f])

\* What is announced of a topic happened: both of these.
StatesTold == Chained /\ NoStaleNews

\* The thread announces while something is left to announce, at most one
\* transition of a field.
OnePerField ==
  /\ phase = "fire" <=> todo # {}
  /\ \A t \in todo : t.field \in DOMAIN cache
  /\ \A t, u \in todo : t.field = u.field => t = u

\* A cached value is that of the publication it is from.
Remembered ==
  \A f \in DOMAIN cache :
    /\ since[f] =< Len(published)
    /\ f \in DOMAIN published[since[f]]
    /\ cache[f] = published[since[f]][f]

\* Only the last publication is retained, if any, and nothing is on its way without a
\* connection.
Delivery ==
  /\ retained # 0 => config.retain /\ retained = Len(published)
  /\ ~link => wire = <<>>

\* In a clean session publications arrive in their order, and no cached value
\* is newer than what arrives.
NothingOlder ==
  config.clean =>
    /\ outbox = <<>>
    /\ \A i, j \in 1..Len(wire) : i < j => wire[i] < wire[j]
    /\ \A i \in 1..Len(wire), f \in DOMAIN cache : since[f] =< wire[i]

\* The inductive invariant behind the properties above.
MqttInv ==
  /\ TypeOK
  /\ Chained
  /\ NoStaleNews
  /\ OnePerField
  /\ Remembered
  /\ Delivery
  /\ NothingOlder

=============================================================================
