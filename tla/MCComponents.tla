---------------------------- MODULE MCComponents ----------------------------
(***************************************************************************)
(* Instances of the parts of the bridge that share neither state nor       *)
(* threads: the sources MqttStateDriver, HaStateDriver and Telemetry, the  *)
(* outputs (Fanout), the configurator (StateDriverUi), the picture on the  *)
(* dashboard (LastPhoto) and the start (Configuration).  As they share     *)
(* nothing, their product shows no more than each alone: the one `studied` *)
(* moves, the others stay in one initial state, where no action is enabled *)
(* that a fairness condition speaks of.                                    *)
(***************************************************************************)
EXTENDS Naturals, Sequences

CONSTANTS
  Fields, Values, MaxPublications,
  Entities, States, IgnoreStates, MaxRetry, MaxTriggers,
  Systems, Bare,
  Events, NoEvent, Sources,
  Tabs, Conns, NoConn, MaxEdits,
  Photos, Copies, MaxFiles

VARIABLES
  studied,
  \* MqttStateDriver
  config, published, retained, outbox, wire, link, phase, cache, todo, since, baseline, told,
  \* HaStateDriver
  core, actual, made, socket, triggers, listener, retry, wait, owed, last,
  \* Telemetry
  kind, reachable, inventory, broken, poller, ask, found, assets, was, announced,
  \* Fanout
  outputs, running, worker, nature, stage, held, heard, excused, pending, delivered, givenUp,
  \* StateDriverUi
  options, file, tab, due,
  \* LastPhoto
  newest, files, latest, source, stored, step, mine, shown, spoiled,
  \* Configuration
  given, turn, connections, relays, started

(***************************************************************************)
(* The options the process may be started with: two connections, readers   *)
(* in the formats of earlier versions, MQTT connections with sources, or   *)
(* two relays.                                                             *)
(***************************************************************************)
UpTo(n, S) == UNION {[1..k -> S] : k \in 0..n}

Connections ==
  {[name |-> n, connector |-> "evo", enabled |-> e, password |-> "p",
    endpoint |-> [host |-> h], context |-> [direction |-> d]] :
     n \in {"Lab", "lab", "Hall"}, h \in {"h1", "h2"}, e \in BOOLEAN, d \in {"in"}}
  \cup {[name |-> "Rack", connector |-> c, enabled |-> e, password |-> "p",
         username |-> "u", poll_interval |-> k, endpoint |-> [host |-> "h1"],
         context |-> [direction |-> "none"]] :
          c \in {"redfish", "linux"}, e \in BOOLEAN, k \in {4, 10}}
  \cup {[name |-> "Gate", connector |-> "hikvision", enabled |-> e, password |-> "p",
         endpoint |-> [host |-> "h1"], context |-> [direction |-> d]] :
          e \in BOOLEAN, d \in {"out", "none"}}

Listed ==
  {[name |-> n, ip |-> h, enabled |-> e, password |-> "p"] :
     n \in {"Lab", "lab", "Hall"}, h \in {"h1", "h2"}, e \in BOOLEAN}

Brokers ==
  {[id |-> i, name |-> "Lab", host |-> "h1", topics |-> t, enabled |-> e] :
     i \in {"b1", "b2"}, t \in {{}, {"t1"}}, e \in BOOLEAN}

EnvironmentSources ==
  {[id |-> i, connection_id |-> "b1", topic |-> t] : i \in {"s1", "s2"}, t \in {"t1", "t2"}}
  \cup {[id |-> "s1", connection_id |-> "b2", topic |-> "t2", enabled |-> e, fields |-> f] :
          e \in BOOLEAN, f \in {{}, {"humidity_pct"}}}

EvoRelays ==
  {[host |-> "h3", listen_port |-> p, enabled |-> e,
    devices |-> [k \in DOMAIN d |-> [serial |-> d[k], enabled |-> u]]] :
     p \in {1, 2}, e \in BOOLEAN, u \in BOOLEAN,
     d \in {<<>>, <<"x">>, <<"y">>, <<"x", "y">>, <<"x", "x">>}}

Configs ==
  {[connections |-> s] : s \in UpTo(2, Connections)}
  \cup {[entry_readers |-> s, exit_readers |-> t] : s, t \in UpTo(1, Listed)}
  \cup {[readers |-> s, poll_interval |-> k] : s \in UpTo(2, Listed), k \in {0, 2, 61}}
  \cup {[mqtt_connections |-> s, environment_sources |-> t] :
          s \in UpTo(2, Brokers), t \in UpTo(2, EnvironmentSources)}
  \cup {[evo_relay_connections |-> s] : s \in UpTo(2, EvoRelays)}

Names == {"Lab", "lab", "Hall", "Rack", "Gate"}
LowerOf == [n \in Names |-> IF n = "Lab" THEN "lab" ELSE n]

Mqtt == INSTANCE MqttStateDriver
Ha == INSTANCE HaStateDriver
  WITH link <- socket, wire <- triggers, phase <- listener
Server == INSTANCE Telemetry
  WITH phase <- poller, told <- announced
Outputs == INSTANCE Fanout
Ui == INSTANCE StateDriverUi
  WITH Topics <- {}, Composed <- {}
Photo == INSTANCE LastPhoto
Config == INSTANCE Configuration
  WITH Slug <- LowerOf, Lower <- LowerOf, phase <- turn

ASSUME ComponentsAssumption ==
  /\ Mqtt!MqttAssumption /\ Ha!HaAssumption /\ Server!TelemetryAssumption
  /\ Outputs!FanoutAssumption /\ Ui!UiAssumption /\ Photo!PhotoAssumption
  /\ Config!ConfigurationAssumption

mqtt == <<config, published, retained, outbox, wire, link, phase, cache, todo, since, baseline,
          told>>
ha == <<core, actual, made, socket, triggers, listener, retry, wait, owed, last>>
server == <<kind, reachable, inventory, broken, poller, ask, found, assets, was, announced>>
fanout == <<outputs, running, worker, nature, stage, held, heard, excused, pending, delivered,
            givenUp>>
ui == <<options, file, tab, due>>
photo == <<newest, files, latest, source, stored, step, mine, shown, spoiled>>
configuration == <<given, turn, connections, relays, started>>
vars == <<studied, mqtt, ha, server, fanout, ui, photo, configuration>>

\* A component that is not studied has one initial state.  Raw MQTT payloads
\* are combined with retained messages and a clean session only: a bound, as
\* the question whether they are published does not depend on either.
Init ==
  /\ studied \in {"mqtt", "ha", "telemetry", "fanout", "ui", "photo", "configuration"}
  /\ Mqtt!Init
  /\ studied # "mqtt" => config = [retain |-> TRUE, clean |-> TRUE, raw |-> FALSE]
  /\ config.raw => config.retain /\ config.clean
  /\ Ha!Init
  /\ studied # "ha" => core /\ actual = [e \in Entities |-> CHOOSE s \in States : TRUE]
  /\ Server!Init
  /\ studied # "telemetry" => kind = "redfish" /\ inventory = {}
  /\ Outputs!Init
  /\ studied # "fanout" => outputs.local /\ ~outputs.cloud
  /\ Ui!Init
  /\ studied # "ui" => options.ents = {} /\ options.conn = CHOOSE c \in Conns : TRUE
  /\ Photo!Init
  /\ IF studied = "configuration" THEN TRUE ELSE given = [connections |-> <<>>]
  /\ Config!Init

Next ==
  \/ studied = "mqtt" /\ Mqtt!Next
     /\ UNCHANGED <<studied, ha, server, fanout, ui, photo, configuration>>
  \/ studied = "ha" /\ Ha!Next
     /\ UNCHANGED <<studied, mqtt, server, fanout, ui, photo, configuration>>
  \/ studied = "telemetry" /\ Server!Next
     /\ UNCHANGED <<studied, mqtt, ha, fanout, ui, photo, configuration>>
  \/ studied = "fanout" /\ Outputs!Next
     /\ UNCHANGED <<studied, mqtt, ha, server, ui, photo, configuration>>
  \/ studied = "ui" /\ Ui!Next
     /\ UNCHANGED <<studied, mqtt, ha, server, fanout, photo, configuration>>
  \/ studied = "photo" /\ Photo!Next
     /\ UNCHANGED <<studied, mqtt, ha, server, fanout, ui, configuration>>
  \/ studied = "configuration" /\ Config!Next
     /\ UNCHANGED <<studied, mqtt, ha, server, fanout, ui, photo>>

FairSpec ==
  /\ Init /\ [][Next]_vars
  /\ Mqtt!Fairness /\ Ha!Fairness /\ Server!Fairness
  /\ Outputs!Fairness /\ Photo!Fairness

\* The variables of all components have the types their modules state.
TypeOK ==
  /\ Mqtt!TypeOK /\ Ha!TypeOK /\ Server!TypeOK /\ Outputs!TypeOK
  /\ Ui!TypeOK /\ Photo!TypeOK /\ Config!TypeOK

\* The transitions of a field of an MQTT topic form a chain, and none leads back
\* to an older publication in a clean session (app.py, lines 2567-2608).
StatesTold == Mqtt!StatesTold

\* Transitions of Home Assistant are announced in their order, none twice, and
\* none is lost while the subscription lasts (ha_state_driver.py, lines 71-155).
TransitionsTold == Ha!TransitionsTold

\* online and offline of a server alternate while the process runs, none of them
\* announced twice in a row (app.py, lines 2231-2277).
StatusKept == Server!StatusKept

\* Every source is right again in the end: what is announced of an MQTT device,
\* with the silent baseline, leads to the state it retains; the driver of Home
\* Assistant is subscribed; a server that answers is online and read without the
\* Systems that are gone, and one that does not answer is offline.
SourcesRecover ==
  Mqtt!CatchesUp /\ Ha!ListensAgain /\ Server!Recovers /\ Server!OfflineTold

\* Every event with an id is in the queue or was, whatever becomes of the local
\* post, unless the process ended in the call or submit raised (app.py, lines
\* 915-949).
ReliableCopy == Outputs!ReliableCopy

\* Such an event reaches the server, or the limits of the queue give it up, if
\* from some point on the process and its worker stay alive.
ReachesCloud == Outputs!ReachesCloud

\* A form is applied to the connections it was made from, and brings back nothing
\* older than the options of the process, unless that process could not read them
\* (state_driver_ui.py, lines 537-650).
OptionsSafe == Ui!OptionsSafe

\* Only entities that were unchecked are removed from the selection.
OnlyUncheckedRemoved == Ui!OnlyUncheckedRemoved

\* The picture posted with the last event is the photo of that event, if it has
\* one and no write was interrupted between the two markers, and the one kept for
\* later was not removed (app.py, lines 1095-1103, 1173-1214).
PictureSound == Photo!PictureSound

\* The photo of the last event is shown in the end.
EventuallyShown == Photo!EventuallyShown

\* Sources of measurements are subscribed to, what is enabled is served or the
\* start refused (but a connection to a broker with nothing to subscribe to is
\* left aside), and what is disabled refuses nothing (app.py, lines 434-636).
AllServed == Config!AllServed

=============================================================================
