--------------------------- MODULE Configuration ---------------------------
(***************************************************************************)
(* From the options of the add-on to the threads that run (app.py, main    *)
(* and what it calls before the first thread of a source): connections,    *)
(* the reader lists of earlier versions, MQTT connections with the topics  *)
(* of environment sources, EVO Relays, and what is refused.                *)
(*                                                                         *)
(* The options are records; what is missing in one is a field it does not  *)
(* have.  They have the types the schema of the add-on gives them, which   *)
(* the Supervisor (external) enforces.  Topics and measurements are sets,  *)
(* as their order does not count.  A list that the code builds is a        *)
(* function from the places its members come from, <<1, i>> in the first   *)
(* list that is joined and <<2, i>> in the second: what counts of it is    *)
(* which members it has, and which of them are not the same one.           *)
(***************************************************************************)
EXTENDS Naturals, Sequences, Functions

CONSTANTS
  Configs,         \* the options the process may be started with
  Slug, Lower      \* slugify_entity and lower(), of each name

VARIABLES
  given,           \* options of this start
  phase,           \* what main does next
  connections,     \* all_connections: enabled and disabled
  relays,          \* the enabled EVO Relays
  started          \* connections that have a thread

vars == <<given, phase, connections, relays, started>>

Get(d, k, default) == IF k \in DOMAIN d THEN d[k] ELSE default
Each(s, Op(_)) == [i \in DOMAIN s |-> Op(s[i])]
Only(s, Keep(_)) == Restrict(s, {i \in DOMAIN s : Keep(s[i])})
Joined(s, t) ==
  [p \in ({1} \X DOMAIN s) \cup ({2} \X DOMAIN t) |-> IF p[1] = 1 THEN s[p[2]] ELSE t[p[2]]]
Enabled(d) == Get(d, "enabled", TRUE)

\* The directions the schema offers (config.yaml, line 97); readers of earlier
\* versions were given one of them, or left it out.
Directions == {"in", "out", "none"}

ConfigurationAssumption ==
  \A c \in Configs :
    /\ \A k \in Range(Get(c, "connections", <<>>)) :
         Get(Get(k, "context", <<>>), "direction", Get(k, "direction", "none")) \in Directions
    /\ \A r \in Range(Get(c, "readers", <<>>)) : Get(r, "direction", "in") \in Directions

KnownDrivers == {"evo", "mqtt", "redfish", "linux", "control_id", "hikvision", "intelbras"}

\* (mutant of SupportedDrivers: all known)
AllDrivers == KnownDrivers
SupportedDrivers == {"evo", "mqtt", "redfish", "linux"}

(***************************************************************************)
(* Connections                                                             *)
(***************************************************************************)

Usual(connector) == CASE connector = "mqtt" -> "message"
                      [] connector \in {"redfish", "linux"} -> "telemetry"
                      [] OTHER -> "passage"

\* normalize_connection: aliases of earlier versions are understood.
Normal(c) ==
  LET endpoint == Get(c, "endpoint", <<>>)
      context == Get(c, "context", <<>>)
      connector == Get(c, "connector", Get(c, "driver", "evo"))
      host == Get(endpoint, "host", Get(c, "ip", ""))
      direction == Get(context, "direction", Get(c, "direction", "none"))
      id == Get(c, "id", "")
  IN [id |-> IF id = "" THEN Slug[c.name] ELSE id,
      name |-> c.name, enabled |-> Enabled(c), connector |-> connector, host |-> host,
      interaction |-> Get(context, "interaction_type",
                          Get(c, "interaction_type", Usual(connector))),
      direction |-> IF direction = "" THEN "none" ELSE direction,
      interval |-> Get(c, "poll_interval", 60),
      user |-> Get(c, "username", ""), key |-> Get(c, "key_path", ""),
      password |-> Get(c, "password", ""),
      topics |-> Get(c, "subscriptions", {})]

\* _legacy_reader_to_connection
FromReader(r, direction) ==
  Normal([name |-> r.name, id |-> Get(r, "id", ""), enabled |-> Enabled(r),
          password |-> Get(r, "password", ""), connector |-> Get(r, "driver", "evo"),
          endpoint |-> [host |-> Get(r, "ip", "")],
          context |-> [interaction_type |-> "passage", direction |-> direction]])

\* The newest of the three formats that is there counts, and only that.
Readers(c) ==
  IF "connections" \in DOMAIN c THEN Each(c.connections, Normal)
  ELSE IF {"entry_readers", "exit_readers"} \cap DOMAIN c # {}
  THEN Joined(Each(Get(c, "entry_readers", <<>>), LAMBDA r : FromReader(r, "in")),
              Each(Get(c, "exit_readers", <<>>), LAMBDA r : FromReader(r, "out")))
  ELSE Each(Get(c, "readers", <<>>), LAMBDA r : FromReader(r, Get(r, "direction", "in")))

(***************************************************************************)
(* MQTT connections and environment sources                                *)
(***************************************************************************)

Usable(s) ==
  /\ Enabled(s)
  /\ s.id # "" /\ s.connection_id # "" /\ s.topic # ""
  /\ Get(s, "fields", {"temperature_c"}) # {}

\* _normalize_environment_sources: the first usable source of each id.
Registered(c) ==
  LET all == Get(c, "environment_sources", <<>>)
  IN {all[i] : i \in {i \in 1..Len(all) :
        Usable(all[i]) /\ \A j \in 1..(i - 1) : Usable(all[j]) => all[j].id # all[i].id}}

\* (mutant of Subscriptions: a connection needs a topic of its own)
OwnTopicsFirst(c, m) ==
  IF Get(m, "topics", {}) = {} THEN {} ELSE m.topics \cup {s.topic : s \in
    {s \in Registered(c) : s.connection_id = m.id}}

\* merged_topics
Subscriptions(c, m) ==
  Get(m, "topics", {}) \cup {s.topic : s \in {s \in Registered(c) : s.connection_id = m.id}}

\* A connection that would subscribe to nothing is left out.
Brokers(c) ==
  LET Normalized(m) ==
        Normal([id |-> m.id, name |-> m.name, connector |-> "mqtt", enabled |-> Enabled(m),
                endpoint |-> [host |-> Get(m, "host", "")],
                subscriptions |-> Subscriptions(c, m)])
  IN Each(Only(Get(c, "mqtt_connections", <<>>), LAMBDA m : Subscriptions(c, m) # {}),
          Normalized)

(***************************************************************************)
(* EVO Relays                                                              *)
(***************************************************************************)

EnabledOf(s) == Only(s, Enabled)

RelaysGiven(c) == EnabledOf(Get(c, "evo_relay_connections", <<>>))

\* Ports, and serial numbers over all relays, are not given twice.
Distinct(rs) ==
  /\ \A i, j \in DOMAIN rs : rs[i].listen_port = rs[j].listen_port => i = j
  /\ \A i, j \in DOMAIN rs :
       LET ds == EnabledOf(rs[i].devices)
           es == EnabledOf(rs[j].devices)
       IN \A k \in DOMAIN ds, l \in DOMAIN es :
            ds[k].serial = es[l].serial => i = j /\ k = l

RelaysOk(rs) ==
  /\ Distinct(rs)
  /\ \A i \in DOMAIN rs :
       /\ rs[i].host # "" /\ Get(rs[i], "scheme", "ws") \in {"ws", "wss"}
       /\ rs[i].devices # <<>>
       /\ \A d \in Range(EnabledOf(rs[i].devices)) :
            d.serial # "" /\ Get(d, "direction", "none") \in {"in", "out", "none"}

\* build_evo_relay_connections
Relay(r) ==
  [port |-> r.listen_port,
   devices |-> Each(EnabledOf(r.devices), LAMBDA d :
     [serial |-> d.serial, direction |-> Get(d, "direction", "none"),
      interaction |-> IF Get(d, "direction", "none") = "none" THEN "authentication"
                      ELSE "passage"])]

(***************************************************************************)
(* Validation                                                              *)
(***************************************************************************)

\* validate_global_config
GlobalsOk(c) ==
  /\ Get(c, "poll_interval", 2) >= 1 /\ Get(c, "request_timeout", 5) >= 1
  /\ Get(c, "max_retry_interval", 60) >= Get(c, "poll_interval", 2)

Interactions == {"passage", "authorization", "authentication", "attendance",
                 "presence", "unlock", "message", "telemetry"}

\* validate_reader_structure, of one connection.
WellFormed(k) ==
  /\ k.name # "" /\ k.host # ""
  /\ k.connector \in KnownDrivers
  /\ k.enabled => k.connector \in SupportedDrivers
  /\ CASE k.connector = "mqtt" -> k.topics # {}
       [] k.connector = "redfish" -> k.interval >= 5
       [] k.connector = "linux" -> k.interval >= 10 /\ k.user # "" /\ (k.key # "" \/ k.password # "")
       [] OTHER -> /\ k.password # ""
                   /\ k.interaction \in Interactions
                   /\ k.direction \in {"in", "out"}
                        \cup IF k.interaction = "passage" THEN {} ELSE {"none"}

Active(ks) == Only(ks, LAMBDA k : k.enabled)
Of(ks, connector) == Only(ks, LAMBDA k : k.connector = connector)

\* validate_active_reader_duplicates
NoDuplicates(ks) ==
  \A i, j \in DOMAIN ks :
    (ks[i].host = ks[j].host \/ Lower[ks[i].name] = Lower[ks[j].name]) => i = j

\* (mutant of Acceptable: duplicates are looked for among all readers)
AcceptableAll(c, ks) ==
  GlobalsOk(c) /\ (\A k \in Range(ks) : WellFormed(k)) /\ NoDuplicates(Of(ks, "evo"))

\* The validations of main, on the connections that were built.
Acceptable(c, ks) ==
  GlobalsOk(c) /\ (\A k \in Range(ks) : WellFormed(k)) /\ NoDuplicates(Of(Active(ks), "evo"))

(***************************************************************************)
(* main                                                                    *)
(***************************************************************************)

TypeOK ==
  /\ given \in Configs
  /\ phase \in {"down", "build", "relays", "validate", "start", "running", "failed"}
  /\ Range(started) \subseteq Range(connections)

Init ==
  /\ given \in Configs
  /\ phase = "down"
  /\ connections = <<>> /\ relays = <<>> /\ started = <<>>

\* The Supervisor starts the add-on.  Nothing here is kept from start to start,
\* so that the options stay as they are.
Load ==
  /\ phase \in {"down", "failed"}
  /\ phase' = "build" /\ connections' = <<>> /\ relays' = <<>>
  /\ UNCHANGED <<given, started>>

\* build_connections_from_config
Build ==
  /\ phase = "build"
  /\ connections' = Joined(Readers(given), Brokers(given))
  /\ phase' = "relays"
  /\ UNCHANGED <<given, relays, started>>

\* (mutant of BuildRelays: relays that cannot be served are left aside)
BuildRelaysOrNone ==
  /\ phase = "relays"
  /\ relays' = IF RelaysOk(RelaysGiven(given)) THEN Each(RelaysGiven(given), Relay) ELSE <<>>
  /\ phase' = "validate"
  /\ UNCHANGED <<given, connections, started>>

\* build_evo_relay_connections raises, or main goes on.
BuildRelays ==
  /\ phase = "relays"
  /\ IF RelaysOk(RelaysGiven(given))
     THEN relays' = Each(RelaysGiven(given), Relay) /\ phase' = "validate"
     ELSE phase' = "failed" /\ UNCHANGED relays
  /\ UNCHANGED <<given, connections, started>>

Validate ==
  /\ phase = "validate"
  /\ phase' = IF Acceptable(given, connections) THEN "start" ELSE "failed"
  /\ UNCHANGED <<given, connections, relays, started>>

Served(ks) ==
  Only(Active(ks), LAMBDA k : k.connector \in {"evo", "mqtt", "redfish", "linux"})

\* The threads of telemetry, MQTT and the relays, then the polling of readers.
StartThreads ==
  /\ phase = "start"
  /\ started' = Served(connections)
  /\ phase' = "running"
  /\ UNCHANGED <<given, connections, relays>>

\* The process ends, by itself (there may be no SUPERVISOR_TOKEN) or not.
Stop ==
  /\ phase \notin {"down", "failed"}
  /\ phase' = "down" /\ started' = <<>> /\ connections' = <<>> /\ relays' = <<>>
  /\ UNCHANGED given

Next ==
  Load \/ Build \/ BuildRelays \/ Validate \/ StartThreads \/ Stop

Spec == Init /\ [][Next]_vars

(***************************************************************************)
(* Properties                                                              *)
(***************************************************************************)

\* A source of measurements that is registered with an MQTT connection the
\* bridge runs is subscribed to, also if the connection has no topic of its own
\* (lines 495-502, 547-550).
SourcesSubscribed ==
  phase = "running" =>
    \A s \in Registered(given), m \in Range(Get(given, "mqtt_connections", <<>>)) :
      s.connection_id = m.id /\ Enabled(m) =>
        \E k \in Range(started) : k.connector = "mqtt" /\ k.id = m.id /\ s.topic \in k.topics

\* Every connection that is enabled is served once the bridge runs: those of the
\* earlier formats with the direction of their list, those to brokers with the
\* topics of their sources among their own, and the relays with every enabled
\* terminal.  What no thread serves is refused, with one exception: an enabled
\* connection to a broker that has neither topics nor sources is left aside
\* (lines 445-545, 560-636, 1657-1661; the exception in lines 500-502).
EnabledServed ==
  phase = "running" =>
    LET Serves(r, directions) ==
          \E k \in Range(started) : k.name = r.name /\ k.direction \in directions
        Raw(format) == {r \in Range(Get(given, format, <<>>)) : Enabled(r)}
    IN /\ IF "connections" \in DOMAIN given
          THEN \A r \in Raw("connections") : Serves(r, {"in", "out", "none"})
          ELSE /\ \A r \in Raw("entry_readers") : Serves(r, {"in"})
               /\ \A r \in Raw("exit_readers") : Serves(r, {"out"})
               /\ {"entry_readers", "exit_readers"} \cap DOMAIN given = {} =>
                    \A r \in Raw("readers") : Serves(r, {Get(r, "direction", "in")})
       /\ \A m \in Raw("mqtt_connections") :
            \/ Get(m, "topics", {}) = {} /\ ~\E s \in Registered(given) : s.connection_id = m.id
            \/ \E k \in Range(started) :
                 /\ k.connector = "mqtt" /\ k.name = m.name
                 /\ Get(m, "topics", {}) \subseteq k.topics
       /\ \A r \in Raw("evo_relay_connections") :
            \E q \in Range(relays) :
              /\ q.port = r.listen_port
              /\ \A d \in Range(r.devices) :
                   Enabled(d) => \E e \in Range(q.devices) : e.serial = d.serial

\* CHANGELOG.md:371-376: what is refused is refused for what is enabled, or for
\* a connection that is not well-formed, never for a disabled one that repeats
\* the address or the name of another.
DisabledHarmless ==
  phase = "failed" /\ RelaysOk(RelaysGiven(given)) =>
    ~Acceptable(given, Only(connections, LAMBDA k : k.enabled \/ ~WellFormed(k)))

\* A configuration is served, but for what EnabledServed excepts, or refused for a
\* reason: these three.
AllServed == SourcesSubscribed /\ EnabledServed /\ DisabledHarmless

(***************************************************************************)
(* The invariant behind these properties                                   *)
(***************************************************************************)

\* What main holds is what it has built from the options of this start: the
\* phases leave nothing of an earlier one behind.
Built ==
  /\ phase \in {"relays", "validate", "start", "running", "failed"} =>
       connections = Joined(Readers(given), Brokers(given))
  /\ phase \in {"validate", "start", "running"} => relays = Each(RelaysGiven(given), Relay)
  /\ started = IF phase = "running" THEN Served(connections) ELSE <<>>

\* It goes on with what was accepted, and only what was not makes it fail.
Judged ==
  /\ phase \in {"start", "running"} => Acceptable(given, connections)
  /\ phase = "failed" => \/ ~RelaysOk(RelaysGiven(given))
                         \/ ~Acceptable(given, connections)

ConfigInv == TypeOK /\ Built /\ Judged

=============================================================================
