------------------------------- MODULE Fanout -------------------------------
(***************************************************************************)
(* fire_event_names (app.py, lines 915-949), which every source calls from *)
(* its own thread: an event is posted to the bus of Home Assistant, if the *)
(* local output is on, and then submitted to the store-and-forward output, *)
(* if there is one.  What becomes of it there is the abstract              *)
(* specification StoreAndForward, which Upstream implements.               *)
(***************************************************************************)
CONSTANTS
  Events,          \* events the sources create
  NoEvent,         \* "no event": the source is not in a call
  Sources          \* threads that call fire_event_names

FanoutAssumption == NoEvent \notin Events

VARIABLES
  outputs,         \* LOCAL_OUTPUT_ENABLED and client.enabled; fixed
  running,         \* the process runs
  worker,          \* the thread of the store-and-forward output is alive
  nature,          \* what kind of event was created, "none" before
  stage,           \* what the call of a source does next
  held,            \* payload of that call
  heard,           \* events published on the bus of Home Assistant
  excused,         \* events that may miss the queue (history)
  pending, delivered, givenUp   \* the store-and-forward output

Cloud == INSTANCE StoreAndForward

vars == <<outputs, running, worker, nature, stage, held, heard, excused,
          pending, delivered, givenUp>>
store == <<pending, delivered, givenUp>>

(***************************************************************************)
(* An event is "canonical" (built by events.py with an event_id), "nan" (a *)
(* canonical one around an MQTT payload with NaN, which requests refuses   *)
(* to send: InvalidJSONError) or "status" (an availability payload, built  *)
(* on the spot without an event_id).                                       *)
(***************************************************************************)
Constructed == {"canonical", "nan"}
Improvised == {"status"}
Natures == Constructed \cup Improvised
Made == {e \in Events : nature[e] # "none"}
Identified == {e \in Made : nature[e] \in Constructed}

TypeOK ==
  /\ outputs \in [local : BOOLEAN, cloud : BOOLEAN]
  /\ running \in BOOLEAN /\ worker \in BOOLEAN
  /\ nature \in [Events -> Natures \cup {"none"}]
  /\ stage \in [Sources -> {"idle", "local", "cloud"}]
  /\ held \in [Sources -> Events \cup {NoEvent}]
  /\ heard \subseteq Made
  /\ excused \subseteq Made
  /\ Cloud!TypeOK

\* An output is enabled, since an edge with neither has nothing to do.
Init ==
  /\ outputs \in [local : BOOLEAN, cloud : BOOLEAN]
  /\ outputs.local \/ outputs.cloud
  /\ running = TRUE /\ worker = outputs.cloud
  /\ nature = [e \in Events |-> "none"]
  /\ stage = [s \in Sources |-> "idle"]
  /\ held = [s \in Sources |-> NoEvent]
  /\ heard = {} /\ excused = {}
  /\ Cloud!Init

\* A source creates an event (uuid4: a new one) and calls fire_event_names.
Create(s, e, n) ==
  /\ running /\ stage[s] = "idle"
  /\ e \notin Made
  /\ nature' = [nature EXCEPT ![e] = n]
  /\ held' = [held EXCEPT ![s] = e]
  /\ stage' = [stage EXCEPT ![s] = "local"]
  /\ UNCHANGED <<outputs, running, worker, heard, excused, store>>

\* (mutant of PostLocal: a failed post ends the call)
PostLocalOrRaise(s) ==
  /\ stage[s] = "local"
  /\ \/ /\ outputs.local /\ nature[held[s]] # "nan"
        /\ heard' = heard \cup {held[s]}
        /\ stage' = [stage EXCEPT ![s] = "cloud"]
        /\ UNCHANGED held
     \/ /\ heard' = heard
        /\ stage' = [stage EXCEPT ![s] = IF outputs.local THEN "idle" ELSE "cloud"]
        /\ held' = [held EXCEPT ![s] = IF outputs.local THEN NoEvent ELSE @]
  /\ UNCHANGED <<outputs, running, worker, nature, excused, store>>

\* The post to the bus.  It can fail, or succeed and be taken for a failure:
\* either way the call goes on to the other output.
PostLocal(s) ==
  /\ stage[s] = "local"
  /\ \/ heard' = heard
     \/ /\ outputs.local /\ nature[held[s]] # "nan"
        /\ heard' = heard \cup {held[s]}
  /\ stage' = [stage EXCEPT ![s] = "cloud"]
  /\ UNCHANGED <<outputs, running, worker, nature, held, excused, store>>

\* The end of the call.
Return(s) ==
  /\ stage' = [stage EXCEPT ![s] = "idle"]
  /\ held' = [held EXCEPT ![s] = NoEvent]

\* client.submit commits; the limits of the queue may drop any pending events.
Submit(s) ==
  /\ stage[s] = "cloud"
  /\ outputs.cloud /\ nature[held[s]] \in Constructed
  /\ \E drop \in SUBSET (pending \cup {held[s]}) : Cloud!Accept(held[s], drop)
  /\ Return(s)
  /\ UNCHANGED <<outputs, running, worker, nature, heard, excused>>

\* submit raises (SQLite, a lone surrogate in the payload), which is caught.
SubmitRaises(s) ==
  /\ stage[s] = "cloud"
  /\ outputs.cloud /\ nature[held[s]] \in Constructed
  /\ excused' = excused \cup {held[s]}
  /\ Return(s)
  /\ UNCHANGED <<outputs, running, worker, nature, heard, store>>

\* (mutant of SkipCloud: sent or client.submit(payload), which does not submit
\* what Home Assistant took)
SkipCloudWhenHeard(s) ==
  /\ stage[s] = "cloud"
  /\ ~outputs.cloud \/ nature[held[s]] \in Improvised \/ held[s] \in heard
  /\ Return(s)
  /\ UNCHANGED <<outputs, running, worker, nature, heard, excused, store>>

\* No client, or submit refuses a payload without event_id.
SkipCloud(s) ==
  /\ stage[s] = "cloud"
  /\ ~outputs.cloud \/ nature[held[s]] \in Improvised
  /\ Return(s)
  /\ UNCHANGED <<outputs, running, worker, nature, heard, excused, store>>

\* The process ends: the calls under way are lost, the queue stays.
Stop ==
  /\ running
  /\ running' = FALSE /\ worker' = FALSE
  /\ excused' = excused \cup ({held[s] : s \in Sources} \ {NoEvent})
  /\ stage' = [s \in Sources |-> "idle"]
  /\ held' = [s \in Sources |-> NoEvent]
  /\ UNCHANGED <<outputs, nature, heard, store>>

Restart ==
  /\ ~running
  /\ running' = TRUE /\ worker' = outputs.cloud
  /\ UNCHANGED <<outputs, nature, stage, held, heard, excused, store>>

\* An exception that _worker does not catch ends it (upstream.py, lines 165-172);
\* the process goes on, and nothing starts another worker.
WorkerDies ==
  /\ worker
  /\ worker' = FALSE
  /\ UNCHANGED <<outputs, running, nature, stage, held, heard, excused, store>>

\* The worker of Upstream, as far as StoreAndForward shows it.
Forward(e) ==
  /\ running /\ worker
  /\ Cloud!Deliver(e) \/ Cloud!Confirm(e)
  /\ UNCHANGED <<outputs, running, worker, nature, stage, held, heard, excused>>

Call(s) == PostLocal(s) \/ Submit(s) \/ SubmitRaises(s) \/ SkipCloud(s)

Next ==
  \/ \E s \in Sources, e \in Events, n \in Natures : Create(s, e, n)
  \/ \E s \in Sources : Call(s)
  \/ Stop \/ Restart
  \/ WorkerDies
  \/ \E e \in Events : Forward(e)

\* The threads run (the local post and the database have timeouts), and the
\* worker, as long as it is alive, delivers what is pending, which
\* EventuallySettled of Upstream shows on the same condition.
Fairness ==
  /\ WF_vars(\E s \in Sources : Call(s))
  /\ WF_vars(\E e \in pending : Forward(e))

Spec == Init /\ [][Next]_vars /\ Fairness

(***************************************************************************)
(* Properties                                                              *)
(***************************************************************************)

\* README.md:9, "operacao hibrida, com evento local e copia confiavel para
\* cloud": every event with an event_id is in the queue, or was, whatever
\* became of the local post, unless the process ended inside the call or
\* submit raised.
ReliableCopy ==
  outputs.cloud =>
    \A e \in Identified :
      e \in Cloud!Known \cup excused \/ \E s \in Sources : held[s] = e

\* Such an event reaches the server or is given up by the limits of the queue,
\* if from some point on the process stays up with its worker alive: the process
\* alone is not enough (WorkerDies).
ReachesCloud ==
  <>[](running /\ worker) =>
    <>[](\A e \in Identified \ excused : e \in delivered \cup givenUp)

\* A source has an event in hand, one that was made, as long as its call lasts.
InHand ==
  \A s \in Sources :
    IF stage[s] = "idle" THEN held[s] = NoEvent ELSE held[s] \in Made

\* The inductive invariant behind ReliableCopy.
FanoutInv == TypeOK /\ InHand /\ ReliableCopy

=============================================================================
