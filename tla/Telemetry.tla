----------------------------- MODULE Telemetry -----------------------------
(***************************************************************************)
(* Telemetry of servers (app.py, start_redfish_polling and                 *)
(* start_linux_polling, with connectors/redfish.py and linux.py): one      *)
(* connection, polled by a thread of its own.                              *)
(*                                                                         *)
(* A Redfish endpoint has Systems that come and go; the connector asks for *)
(* them once and keeps what it found, until one of them is not there any   *)
(* more.  A Linux machine is read in one session.                          *)
(***************************************************************************)
EXTENDS FiniteSets

CONSTANTS
  Systems,       \* Systems of the endpoint, over time
  Bare           \* those without a selected sensor

\* What the constants must be.
TelemetryAssumption == IsFiniteSet(Systems) /\ Bare \subseteq Systems

VARIABLES
  kind,          \* connector of the connection
  reachable,     \* the server answers
  inventory,     \* its Systems
  broken,        \* those that answer with an error other than 404
  phase,         \* where the thread is
  ask,           \* Systems still to ask for, or to publish
  found,         \* Systems of the discovery in progress
  assets,        \* _assets[connection_id], empty if there is none
  was,           \* was_online
  told           \* the last two availability events of this process, the later
                 \* one second, "none" where there is none (history)

server == <<reachable, inventory, broken>>
vars == <<kind, server, phase, ask, found, assets, was, told>>

Statuses == {"none", "online", "offline"}

TypeOK ==
  /\ kind \in {"redfish", "linux"}
  /\ reachable \in BOOLEAN
  /\ inventory \subseteq Systems
  /\ broken \subseteq Systems
  /\ phase \in {"down", "asleep", "list", "discover", "read", "publish", "online"}
  /\ ask \subseteq Systems
  /\ found \subseteq Systems
  /\ assets \subseteq Systems
  /\ was \in Statuses
  /\ told \in Statuses \X Statuses
  /\ kind = "linux" => assets \cup found \cup ask = {}

\* A request for a System succeeds.
Answers(s) == reachable /\ s \in inventory \ broken

(***************************************************************************)
(* The server                                                              *)
(***************************************************************************)
Toggle ==
  /\ reachable' = ~reachable
  /\ UNCHANGED <<kind, inventory, broken, phase, ask, found, assets, was, told>>

Change(s) ==
  /\ kind = "redfish"
  /\ \/ /\ inventory' = IF s \in inventory THEN inventory \ {s} ELSE inventory \cup {s}
        /\ UNCHANGED broken
     \/ /\ broken' = IF s \in broken THEN broken \ {s} ELSE broken \cup {s}
        /\ UNCHANGED inventory
  /\ UNCHANGED <<kind, reachable, phase, ask, found, assets, was, told>>

(***************************************************************************)
(* One poll                                                                *)
(***************************************************************************)

\* fire_event_names with an availability event.
Announce(status) == told' = <<told[2], status>>

\* (mutant of News: the event is published whatever was announced before)
EveryTime(status) == Announce(status)

\* The status is announced if it is not the one that was_online stands for.
News(status) == IF was = status THEN told' = told ELSE Announce(status)

\* (mutant of Fail: was_online is set by the first failure only)
FailForgetfully ==
  /\ phase' = "asleep"
  /\ News("offline")
  /\ was' = IF was = "none" THEN "offline" ELSE was
  /\ ask' = {} /\ found' = {}

\* (mutant of Fail: offline is told only of a server that was online)
FailOnlyAfterOnline ==
  /\ phase' = "asleep"
  /\ IF was = "online" THEN Announce("offline") ELSE told' = told
  /\ was' = "offline"
  /\ ask' = {} /\ found' = {}

\* The exception is caught: offline is announced, if it is news.
Fail ==
  /\ phase' = "asleep"
  /\ News("offline")
  /\ was' = "offline"
  /\ ask' = {} /\ found' = {}

\* execute
Begin ==
  /\ phase = "asleep"
  /\ phase' = IF kind = "redfish" /\ assets = {} THEN "list" ELSE "read"
  /\ ask' = assets
  /\ UNCHANGED <<kind, server, found, assets, was, told>>

\* _discover: the collections
List ==
  /\ phase = "list"
  /\ reachable /\ inventory # {}
  /\ phase' = "discover"
  /\ ask' = inventory
  /\ UNCHANGED <<kind, server, found, assets, was, told>>

ListFails ==
  /\ phase = "list"
  /\ ~reachable \/ inventory = {}
  /\ Fail
  /\ UNCHANGED <<kind, server, assets>>

\* each System with its chassis and their sensors
Discover(s) ==
  /\ phase = "discover" /\ s \in ask
  /\ Answers(s)
  /\ ask' = ask \ {s}
  /\ found' = IF s \in Bare THEN found ELSE found \cup {s}
  /\ UNCHANGED <<kind, server, phase, assets, was, told>>

DiscoverFails(s) ==
  /\ phase = "discover" /\ s \in ask
  /\ ~Answers(s)
  /\ Fail
  /\ UNCHANGED <<kind, server, assets>>

\* what is kept, if anything was found
Keep ==
  /\ phase = "discover" /\ ask = {} /\ found # {}
  /\ assets' = found
  /\ ask' = found /\ found' = {}
  /\ phase' = "read"
  /\ UNCHANGED <<kind, server, was, told>>

NothingFound ==
  /\ phase = "discover" /\ ask = {} /\ found = {}
  /\ Fail
  /\ UNCHANGED <<kind, server, assets>>

\* The sensors of a System.
Read(s) ==
  /\ phase = "read" /\ s \in ask
  /\ Answers(s)
  /\ ask' = ask \ {s}
  /\ UNCHANGED <<kind, server, phase, found, assets, was, told>>

\* (mutant of NotFound: what was found is kept)
NotFoundKept(s) ==
  /\ phase = "read" /\ s \in ask
  /\ reachable /\ s \notin inventory
  /\ Fail
  /\ UNCHANGED <<kind, server, assets>>

\* 404: it will be discovered again.
NotFound(s) ==
  /\ phase = "read" /\ s \in ask
  /\ reachable /\ s \notin inventory
  /\ assets' = {}
  /\ Fail
  /\ UNCHANGED <<kind, server>>

\* Any other failure of one request ends the poll of all Systems.
ReadFails(s) ==
  /\ phase = "read" /\ s \in ask
  /\ ~reachable \/ s \in inventory \cap broken
  /\ Fail
  /\ UNCHANGED <<kind, server, assets>>

\* A Linux machine: connect, script and output.
ReadLinux ==
  /\ phase = "read" /\ kind = "linux"
  /\ IF reachable
     THEN phase' = "publish" /\ UNCHANGED <<ask, found, was, told>>
     ELSE Fail
  /\ UNCHANGED <<kind, server, assets>>

\* Every System has been read: their snapshots will be published.
ReadAll ==
  /\ phase = "read" /\ kind = "redfish" /\ ask = {}
  /\ phase' = "publish"
  /\ ask' = assets
  /\ UNCHANGED <<kind, server, found, assets, was, told>>

\* fire_event_names for one snapshot.
Publish(s) ==
  /\ phase = "publish" /\ s \in ask
  /\ ask' = ask \ {s}
  /\ UNCHANGED <<kind, server, phase, found, assets, was, told>>

PublishedAll ==
  /\ phase = "publish" /\ ask = {}
  /\ phase' = "online"
  /\ UNCHANGED <<kind, server, ask, found, assets, was, told>>

\* online is announced, if it is news.
Online ==
  /\ phase = "online"
  /\ News("online")
  /\ was' = "online"
  /\ phase' = "asleep"
  /\ UNCHANGED <<kind, server, ask, found, assets>>

(***************************************************************************)
(* Process                                                                 *)
(***************************************************************************)
Crash ==
  /\ phase # "down"
  /\ phase' = "down"
  /\ ask' = {} /\ found' = {}
  /\ assets' = {}
  /\ was' = "none" /\ told' = <<"none", "none">>
  /\ UNCHANGED <<kind, server>>

Start ==
  /\ phase = "down"
  /\ phase' = "asleep"
  /\ UNCHANGED <<kind, server, ask, found, assets, was, told>>

Init ==
  /\ kind \in {"redfish", "linux"}
  /\ reachable = TRUE
  /\ inventory \in IF kind = "linux" THEN {{}} ELSE SUBSET Systems
  /\ broken = {}
  /\ phase = "down"
  /\ ask = {}
  /\ found = {}
  /\ assets = {}
  /\ was = "none"
  /\ told = <<"none", "none">>

ThreadNext ==
  \/ Begin
  \/ List \/ ListFails
  \/ Keep \/ NothingFound
  \/ \E s \in Systems :
       \/ Discover(s) \/ DiscoverFails(s)
       \/ Read(s) \/ NotFound(s) \/ ReadFails(s)
       \/ Publish(s)
  \/ ReadLinux \/ ReadAll
  \/ PublishedAll
  \/ Online

Next ==
  \/ Toggle
  \/ \E s \in Systems : Change(s)
  \/ ThreadNext
  \/ Crash \/ Start

Spec == Init /\ [][Next]_vars

\* The thread runs: each request has a timeout, and so has the sleep.
Fairness == WF_vars(ThreadNext)

FairSpec == Spec /\ Fairness

(***************************************************************************)
(* Properties                                                              *)
(***************************************************************************)

\* online and offline of a server alternate while the process runs, and the last
\* one is what the thread remembers: no event is announced twice in a row
\* (app.py, lines 2231-2277).
StatusKept ==
  /\ told[2] = was
  /\ told[2] # "none" => told[1] # told[2]

\* If from some point on the server answers and its Systems change no more, the
\* connection is announced online for good, and every System it reads is there:
\* what is gone is found out by its 404 ("redescoberto automaticamente após
\* respostas 404", CHANGELOG.md:31).  What was added is not asked of it.
Recovers ==
  /\ <>[](/\ phase # "down" /\ reachable /\ broken = {}
          /\ kind = "linux" \/ inventory \ Bare # {})
  /\ <>[][FALSE]_inventory
  => <>[](told[2] = "online" /\ assets \subseteq inventory)

\* A server that answers no more is announced offline for good (app.py,
\* lines 2259-2277).
OfflineTold ==
  <>[](phase # "down" /\ ~reachable) => <>[](told[2] = "offline")

\* The inductive invariant behind StatusKept and the types: a Linux machine has
\* no Systems.
TelemetryInv ==
  /\ TypeOK
  /\ kind = "linux" => inventory = {}
  /\ StatusKept

=============================================================================
