# Seiden Bridge: specifications, model checking and proofs

TLA+ modules for the Seiden Bridge, the Home Assistant add-on under
`src/seiden_bridge/`, with the TLC configurations that check them on small
instances and TLAPS proofs of every safety property these check. Line numbers refer to
`app.py` unless another file is named.

## 1. The system

One Python process. `main` (2384-2770) reads the options, loads the occupancy state and
starts one thread, or one event loop in a thread, per source; the main thread ends up
in the EVO polling loop or in an idle loop. Every source builds *canonical events* and
hands them to `fire_event_names` (915-949), which posts them to the Home Assistant bus
and/or submits them to the store-and-forward queue.

| component | state it keeps | operations |
|---|---|---|
| Upstream store-and-forward (`upstream.py`) | SQLite table `queue`, flag `_wake`, worker thread | `submit` (any thread), `_prune`, `_next`, `_deliver`, `_worker`, `start` |
| Event fan-out (859-949) | `LOCAL_OUTPUT_ENABLED`, `UPSTREAM_CLIENT` | `fire_event_names`, `safe_fire_ha_event` |
| Occupancy Engine (742-856, 1268-1400) | dict `state`, file `STATE_PATH` | `handle_authorized_record`, `reset_daily_state_if_needed`, `save_state`, `load_state` |
| EVO Direct polling (1402-1620, 1976-2184) | per reader: `last_seen`, `failures`, `next_check`, `offline` | `run_polling_loop`, `mark_reader_online`, `mark_reader_offline` |
| EVO Relay (`connectors/evo_relay.py`, 560-738, 2676-2720) | per session: `serial`, two tasks | `handler`, `on_registration`, `on_record`, `on_status` |
| MQTT connector and State Driver (`connectors/mqtt.py`, 311-431, 2535-2641) | cache of `state_*` fields per topic | `on_connect`, `on_message`, `handle_mqtt_event` |
| HA State Driver (`ha_state_driver.py`) | WebSocket session, back-off | `_run_forever`, `_process_trigger_message` |
| Redfish and Linux telemetry (2188-2382, `connectors/redfish.py`, `connectors/linux.py`) | `was_online`, discovered assets | polling threads, `execute`, `_discover` |
| State Driver UI (`state_driver_ui.py`) | the add-on options, through the Supervisor | `do_GET`, `do_POST`, `_persist_options`, `_restart_later` |
| Configuration (103-262, 434-636, 1623-1771, 2384-2541) | none after start | `build_connections_from_config`, `build_evo_relay_connections`, the validations, the threads `main` starts |
| Dashboard and last photo (957-1265, 1947-1973) | entities in Home Assistant, photo files | `publish_operational_entities`, `publish_reader_entity`, `update_last_photo_file` |

How they interact: the sources call `fire_event_names` from their own threads; EVO
Direct (main thread, no lock) and EVO Relay (thread pool, `STATE_LOCK`) share the dict
`state` and the file; every source shares the upstream queue; the UI changes the
options and restarts the process.

What is hard here: threads that share a dict and a temporary file with only one of
them locking; a table trimmed by one thread while another posts from it; at-least-once
delivery across crashes and lost answers; a retry loop that must never stop; sessions
that overlap when a device reconnects; state that is remembered before the work it
stands for is done. `PROJECT.json` lists each hazard at its line, with the properties
that would catch it.

For each component, what makes it correct:

| component | correct means |
|---|---|
| Upstream | no accepted event vanishes unrecorded; one is sent twice only when the Bridge could not know; no wake-up is lost; the table stays within its limit; every event is delivered or given up |
| Occupancy Engine | counters, marks of the day and people inside tell one story in memory and in the file; what was announced survives a restart, until a start cannot read the file or clears it; threads do not disturb each other; the file is always whole |
| EVO Direct | a record is handled at most once and skipped only for a reason; offline and online events alternate; a reader in back-off is asked again and starves nobody |
| EVO Relay | records are handled in order, and only those passed on to the original server; these are all handled, unless the session is cut short; the announced status is right in the end |
| Event fan-out | an event with an `event_id` reaches the reliable output whatever becomes of the local post, if neither the process nor the worker ends |
| MQTT and HA State Drivers | a transition is reported once, never for a retained or repeated value, with the state before it (MQTT: the first known value is silent); a lost connection is taken up again |
| Telemetry | online and offline alternate per connection while the process runs; a System that is gone is found out |
| State Driver UI | a form is applied to the connections it was made from; only what was unchecked is removed; nothing older than the options of this start comes back, unless they could not be read |
| Configuration | what is enabled is served or refused, whatever the format, but for brokers with nothing to subscribe to; what is disabled does no harm |
| Dashboard and photo | the photo posted with an event that has one is its own, unless a marker was lost; a photo that could not be fetched is fetched later; the stored picture exists |

## 2. Modules

Each model keeps the control of the code: one action per step another thread, the
network or the end of the process can come between. Data is reduced to what the
properties tell apart. Time is relative everywhere: a variable holds what is left until
a deadline, or an age, and saturates where the code no longer tells the difference, so
that no clock needs a bound. Clocks are assumed not to step: a step of the wall clock, in which
`upstream.py:142` keeps its times, would delay retries or expire the queue at the next submit.

### `StoreAndForward`, `Upstream`, `UpstreamProofs`

`StoreAndForward` is the promise: an accepted event is pending until a delivery is
confirmed or a limit gives it up, which is recorded. `Upstream` is the client:

* `queue` is the table; `phase`, `item`, `tries` are the worker's program counter and
  locals; `wake` is the `threading.Event`; `waking` are the threads between the commit of
  `submit` and `_wake.set()`. `accepted`, `dropped`, `received` and `uncertain` are
  history or the server's side.
* `Submit` is one SQLite transaction (insert, retention, size limit); `SubmitWakes`
  is the flag set after it. Each step of `_worker` that another thread can come between is an
  action. `PostConfirmed`, `PostUncertain` and `PostFails` are what can become of a
  request. `WorkerDies` is an SQLite error in the worker; `Crash` and `Start` end and
  start the process, which keeps the table only.
* `_client.stop()` is called by nothing in the program and is left out.

### `Occupancy`, `OccupancyProofs`

The engine as functions on a state (`Reset`, `Applied`), the state in memory and the
saved one, and every way a save can fail: in `handle_authorized_record` (memory is
ahead of the file) or in the daily reset (the record is not handled). A start reads the file
(`Load`), clears it (`LoadAndClear`), or fails to read it and begins with nobody inside while the
file stays for the next save to overwrite (`LoadUnreadable`, 766-777). `forgotten` marks how far the
last two take back what was announced. Records are numbered; a number stands for the name and time the code stores. Here records are
handled one after the other, as they are under `STATE_LOCK`.

### `OccupancyThreads`, `OccupancyThreadsProofs`

The same engine with one step per access to what threads share: the dict, the file
behind the name `.tmp`, the file behind `STATE_PATH`. Relay threads (`Threads \
Unlocked`) take `STATE_LOCK` (700); the polling thread (`Unlocked`) does not (2088).
A counter is read in one step and written in another; `json.dump` writes one part per
person and checks the size of the dict; the temporary file is an inode that two threads
may have open at once; `rename` takes the name away from both. The exceptions this
produces (`KeyError` of a person already removed, `RuntimeError` of a dict that changed
size, `FileNotFoundError` of a file already renamed, `OSError` of the disk) are actions.
With every thread locked the module refines `Occupancy` on one day
(`ImplementsOccupancy`): a record takes effect in the abstract engine when its thread
leaves the lock. The daily reset is in `Occupancy` only.

### `EvoPolling`, `EvoPollingProofs`

`run_polling_loop` with `mark_reader_online`, `mark_reader_offline` and
`calculate_backoff`. `phase`, `turn`, `reader`, `answer` say where the round is;
`lastSeen` and `runtime` are the code's two dictionaries. A poll that answers, the
examination of the newest record (nothing new, baseline, other event code, taken), its
handling with the three ways it can end, and the publication are actions, because people
use the readers, the log is cleared and the process ends between them. A record is its number
in the log of its reader. `handled`, `balance` (offline events minus online ones) and
`excused` (records with a reason not to be handled) are history.
The Occupancy Engine behind `Handle` is `Occupancy`; here it returns, or raises
what the loop takes for a failure of the reader, or raises anything else.

### `EvoRelay`, `EvoRelayProofs`

`EvoRelayServer.handler` per connection, with the callbacks `relay_status` and
`relay_record` of `main`. `session` holds the state of each coroutine pair: the serial
learnt, what is left of the frame in hand, the callback submitted to the executor,
whether a thread runs it, a callback that outlived its cancelled coroutine (`orphan`), and
whether the terminal has hung up (`hung`). A terminal hangs up at any moment; what it sent is
still processed, and `FramesEnd` is the end of `device_to_server` after it. A server that closes, or
that has something to send to a terminal that has hung up (`ServerSpeaks`, lines 92-98), ends the
session wherever it is (`Cut`), and what is left of the frame is lost. Sessions of one terminal may overlap. Frames
other than `reg` and `sendlog` change nothing and are left out.

### `MqttStateDriver`, `MqttStateDriverProofs`, `HaStateDriver`, `HaStateDriverProofs`, `Telemetry`

Three sources with a thread of their own per connection, each modelled with the device or server
it listens to:

* `MqttStateDriver` is one connection and one topic. `cache` is the entry of `mqtt_state_cache`;
  `Take` compares and merges under `mqtt_state_lock`, `Fire` and `FireRaw` hand events to the
  outputs after it. The device publishes any part of the fields; the broker keeps the last
  publication if the device retains, and what is not acknowledged if the session is kept. A publication is its
  number, so that `since` can tell which one a cached value is of. A first known value is `baseline` and
  announced to nobody (2569-2578); `told` is the last value `Fire` announced, and `Reached` the one or the other. Connections have
  ids of their own, which nothing in the code enforces.
* `HaStateDriver` has an action per step of the handshake, the message loop and
  the back-off. `owed` are the transitions made during the subscription and not yet announced.
* `Telemetry` is a Redfish or a Linux connection: discovery, cached assets, reading System by System,
  snapshots, `was_online`. A System with an error other than 404 is `broken`; one that is gone answers 404; a
  `Bare` one has no selected sensor.

`told` means handed to `fire_event_names`. In `Telemetry` it is the pair of the last two availability events of
this process: `StatusKept` asks that they differ and that the second is what `was_online` stands for.

### `Fanout`

`fire_event_names` called by several threads. `stage` and `held` are the program counter and
payload of the call each `Sources` is in; the local post and the submission are two actions,
as the process can end between them. An event is `canonical`, `nan` (requests refuses to send
it, SQLite takes it) or `status`: the payloads `mark_reader_offline` and `relay_status` improvise have
no `event_id`, and `submit` refuses them. The output to the cloud is `StoreAndForward`, which
`Upstream` implements: the composition relies on that theorem instead of on the table. `worker` is the thread of
that client, which may end while the process goes on (`WorkerDies`, finding 1); only a live one delivers (`Forward`).

### `StateDriverUi`

`options` are what the Supervisor keeps, `file` what it wrote when the process was started, and `tab`
what each browser tab shows or waits for. `Get`, `Post` and the five ways a POST is answered (`Expired`
403, `Unlisted` 503, `SaveFails` 500, `Save` and then `Answer`) are actions; a waiting tab carries the
dictionary its thread has read and will write. `RestartLater` is the timer, `Start` any start of the process,
`Edit` a change made in Home Assistant. The list of connections is one model value, because the
form names them by index; `rest` is a version number for all options the page does not show.

### `LastPhoto`

`publish_operational_entities` as far as the photo goes, one action per file it reads or writes,
while other threads replace the last event. `mine` are its local variables, `files` the
copies in `/config/www`, `source` and `stored` the two marker files, `shown` the entity. `Publish(trouble)`
has the failures of disk, terminal and API among its outcomes if `trouble` is true;
`Publish(FALSE)` in a property says that from some point on nothing fails. `spoiled` is history: the process
ended, or a write failed, between the two markers.

### `Configuration`

The phases of `main` from the options to the threads, on top of operators for
`normalize_connection`, the three formats of readers, environment sources, MQTT connections, relays and
each validation. Options are records in which a field may be missing; `Slug` and `Lower` are functions on the
names of the instance. A list the code builds is a function from places: a filter (`Only`) restricts it and a
concatenation (`Joined`) pairs each place with the list it comes from, since only the order of the entries is used and never
their index. `ConfigurationAssumption` is what the schema of the add-on (`config.yaml`) lets through as a direction.

### `MCComponents`, `ComponentsProofs`, `MCStateDriverUi`

`MCComponents` holds one instance of each of the last seven modules. As far as they are modelled they share
neither state nor threads, so it lets one of them, `studied`, start and move, and the others stay where they
begin: a sum in place of a product. There no action is enabled that a fairness condition speaks of (the process is down, or
no call and no event is under way), so that the fairness of all asks nothing of those that stay. Its properties gather those of the modules that belong together: `StatesTold` is
`Chained` and `NoStaleNews`; `TransitionsTold` is `InOrder` and `NothingMissed`; `SourcesRecover` the liveness of the three
sources (`CatchesUp`, `ListensAgain`, `Recovers`, `OfflineTold`); `OptionsSafe` is `FormFits` and `NothingWiped`;
`PictureSound` is `PictureOfEvent` and `StoredPictureExists`;
`AllServed` is `SourcesSubscribed`, `EnabledServed` and `DisabledHarmless`. `MCStateDriverUi` is `StateDriverUi` with topics.

## 3. Runs

| run | instance | what it asks |
|---|---|---|
| `upstream` | three events (two that fill the table, one larger than it), two threads, all faults | the seven properties of `Upstream`, and that it implements `StoreAndForward` |
| `upstream_worker_death` | two events, one thread | finding: an SQLite error ends the worker for good |
| `occupancy` | two people, five records, three days | the sequential engine, memory and file |
| `occupancy_first_entry` | the same on one day | finding: "first entry" is replaced |
| `threads_locked` | two locked threads, three records, two ends of the process | refinement of `Occupancy`, whole file, lock released |
| `threads_polling` | a locked thread and the polling thread, one person, three records | no exception they cause each other keeps a record or the lock |
| `threads_torn_file` | the same, two people, two ends of the process | finding: two saves share `.tmp` |
| `polling` | two readers, one in use with two records | the six properties of `EvoPolling` |
| `relay` | two sessions, a configured terminal and a stranger, two pool threads, two frames of up to two records | order, completeness, status |
| `relay_status` | the same with one terminal | finding: the status may stay wrong |
| `components` | seven instances, one at a time (below) | what the three drivers announce is real, ordered and complete, and they recover; the cloud gets its copy; the configurator removes only what was unchecked; the right photo is shown; what is configured is served or refused |
| `ui_topics` | one tab, two topics, one with a comma | finding: a selected topic comes back as two |

Why the bounds are enough to see the interesting cases:

* `Upstream`: with sizes 1, 1 and 3 and a limit of 2, a submit drops nothing, one other
  event, all others, or itself. Retention 1 lets a row expire while it is being posted.
  `RetryInterval = 2`, `MaxRetry = 3` give a first wait, a doubled one and the limit, which
  is where `AttemptCap` stops counting (the assumption `AttemptCapAssumption` says that this
  loses nothing).
* `Occupancy`: five records let the building open, empty and open again with somebody else
  inside, and two midnights carry a person over one day and past the next.
* `OccupancyThreads`: two threads suffice for each pairwise race; three records make one
  thread come again while the other is in the middle; two ends of the process give a crash in
  the middle of a save followed by another. `CHECK_DEADLOCK FALSE` because records and
  crashes run out; the code then waits for the next record.
* `EvoPolling`: two records allow a baseline and a new record, or one that hides the other.
  The second reader shows that failures of one do not hold up the other, and the reverse.
  The back-off reaches its limit at the second failure.
* `EvoRelay`: two frames are two logs, two registrations or one of each, of one session or of two; a log of two
  records can be cut short between them. With two sessions and two threads callbacks overlap, and a
  session of the stranger, with a callback nobody waits for, can keep the executor full. `relay_status` has three frames.
* `MCComponents`:
  * MQTT: two fields of two values, all settings; three publications are a baseline, a change and one that arrives
    again later; two fields let a payload leave one out or bring a new one. Raw payloads are combined with a
    retaining device and a clean session only (`Init`), since whether they are published depends on neither.
  * Home Assistant: one entity, three states; four triggers go to an ignored state and back; the back-off 1, 2, 4 reaches
    its limit.
  * telemetry: three Systems, one of them bare. One can be replaced by another, come back and break while the other stays.
  * fan-out: two events of two sources, so that one is delivered or dropped by the limits while the other is in its call.
  * configurator: two tabs, two lists of connections, one entity and one edit: a page made before a restart or an
    edit meets the options after it, and two forms applied to one file undo each other.
  * photo: two photos; one copy stays (five in the code) and two fit on the disk, so that one more is enough for a
    copy to be removed, to be cut short, or to stay because the removal failed.
  * configuration: every list of up to two connections, readers, brokers, sources or relays over names that differ,
    differ in case or are equal, two addresses, enabled or not. Duplicates and "the first of each id" are about pairs.

Symmetry is used in `occupancy` only, where the properties are safety properties.

### Fairness

* `Upstream`: the worker thread is scheduled and its calls return (requests have a
  timeout), time passes, and a server offered the same event again and again takes it at
  last (strong fairness, since other events come between). Nothing is assumed of
  submits, crashes, restarts or SQLite errors. `EventuallySettled` is therefore
  about runs in which the process and the worker stay up.
* `OccupancyThreads`: each thread is scheduled. Weak fairness suffices for the
  lock only because records are bounded and the lock becomes free for good; Python's lock
  promises no more.
* `EvoPolling`: the polling thread runs and time passes. Nothing is assumed of
  readers, of Home Assistant or of the process.
* `EvoRelay`: the event loop runs and callbacks return. `RunJob` is strongly fair, since the
  queue of the executor is served in order while its threads are taken by one
  session or another. Nothing is assumed of terminals and servers: a terminal need not hang up, and
  `PassedOnIsHandled` needs none that stays.
* `Fanout`: some call that can go on does, and the worker, while it is alive, delivers what is pending, which
  `EventuallySettled` of `Upstream` shows. `ReachesCloud` is about runs in which process and worker stay alive from
  some point on; finding 1 is that nothing makes the worker do so. `LastPhoto`: the thread publishes again and again, from the polling loop
  or the idle loop (1963). `StateDriverUi` and `Configuration` claim no liveness.
* `MqttStateDriver`, `HaStateDriver`, `Telemetry`: the thread runs, its requests having timeouts, and a
  sleep ends. Home Assistant accepts a handshake offered again and again (strong fairness of
  `Authenticate` and `Subscribe`). The properties are about runs in which the connection or the server
  stays up from some point on; that it does is not assumed.

### Findings

1. **The upstream worker can die** (`upstream.py:165-172`, `SettledWhileRunning`). No exception
   is handled in `_worker`; after one SQLite error events are accepted and not sent until
   the add-on is started again.
2. **The first entry of the day is replaced** (1348-1352, `FirstEntryStays`) each time the building
   opens again.
3. **The state file can be torn** (2088, `AtomicSave`). The polling thread saves
   without `STATE_LOCK` and shares `.tmp` with the relay threads.
4. **A terminal can stay announced wrongly** (`evo_relay.py:97-104`, `StatusTruthful`). Callbacks of
   sessions that overlap, or of a cancelled coroutine, are not ordered, and nothing
   publishes the status again. `StatusTruthfulUnlessRaced` and `OfflineAnnounced` say what
   holds without these two causes.
5. **A topic with a comma is not saved as it was selected** (`state_driver_ui.py:559`,
   `SubsetOfSubscription`). The selection is checked against the subscription, joined with `", "`, and split again
   at every comma and semicolon: what comes back is not part of the subscription, which README.md:293-294
   of the repository says it always is.

Limits of the code that the properties except, and what they therefore do not promise:

* `AnnouncedIsSaved` excepts what was announced before a start that cannot read the file: memory begins
  empty, and the next save overwrites the file (766-777).
* `PassedOnIsHandled` excepts a session that is cut short: the server hangs up or speaks to a terminal that has
  hung up, or a callback raises; the rest of the frame is lost although the server has it.
* With a polled reader and a relay, the polling thread counts outside of the lock and counts are lost
  (1372); `ImplementsOccupancy` is about threads that take the lock.
* `CatchesUp` counts a baseline as known, although the outputs are told nothing of it, as README.md:107-110
  of the repository says. After a restart everything is baseline again.
* `Recovers` asks that a System that is gone is found out. One that is added beside others that answer is not
  discovered before one of these is gone or the add-on is started again (`redfish.py:288-292`).
* `EnabledServed` excepts an enabled connection to a broker with neither topics nor sources, which is ignored (500-502).
  Names of readers that differ in a blank or a dash are accepted and share an entity (951-954, 996).
* `ReliableCopy` is about events with an `event_id`, and excepts the call the process ends in or whose `submit`
  raises: availability events reach the bus only.
* `NothingWiped`, `FormFits` and `OnlyUncheckedRemoved` except a file that cannot be read, which `_load_options`
  takes for an empty configuration.
* `PictureOfEvent` excepts a marker lost to a crash or the disk between two writes, and events without a photo, which
  are shown with the one before. `EventuallyShown` of `LastPhoto` excepts a `latest.jpg` that was never written, whose
  existence decides whether anything is shown.

## 4. Proofs

TLAPS proves every invariant and every action property that a passing run checks, and both refinements, for every value
of the constants that the named assumptions allow: finite sets, limits that are natural numbers, an
interval not above its maximum (which `validate_global_config` refuses), directions of the schema.

| theorem | states |
|---|---|
| `UpstreamProofs!UpstreamInvariant`, `TypeCorrect` | `UpstreamInv`, `TypeOK` |
| `UpstreamProofs!NothingLost` | `NoSilentLoss` |
| `UpstreamProofs!RepeatsJustified` | `RepeatOnlyIfUncertain` |
| `UpstreamProofs!WakeupKept` | `NoLostWakeup` |
| `UpstreamProofs!TableWithinLimit` | `SizeLimit` |
| `UpstreamProofs!Refinement` | `Upstream` implements `StoreAndForward` |
| `OccupancyProofs!OccupancyInvariant`, `TypeCorrect` | `OccupancyInv`, `TypeOK` |
| `OccupancyProofs!FiguresSound` | `StateSound` |
| `OccupancyProofs!AnnouncedSurvives` | `AnnouncedIsSaved` |
| `OccupancyProofs!EntryTimes` | `EntryTimeKept`, an action property |
| `OccupancyThreadsProofs!ThreadsInvariant`, `ThreadsTypeCorrect` | `ThreadsInv`, `TypeOK`, for any threads in and out of the lock |
| `OccupancyThreadsProofs!LockedInvariant` | `LockedInv`, with every thread under the lock, as the three below |
| `OccupancyThreadsProofs!SavesAreWhole` | `AtomicSave` |
| `OccupancyThreadsProofs!NoErrorOfOneAnother` | no thread makes another one fail, an action property |
| `OccupancyThreadsProofs!EngineIsSequential` | `ImplementsOccupancy` |
| `OccupancyThreadsProofs!LockedEngineSound` | `StateSound` and `AnnouncedIsSaved` of the threads |
| `EvoPollingProofs!PollingInvariant`, `TypeCorrect` | `PollingInv`, `TypeOK` |
| `EvoPollingProofs!NoRecordTwice` | `HandledOnce` |
| `EvoPollingProofs!NoRecordSkipped` | `NothingSkipped` |
| `EvoPollingProofs!AvailabilityAnnounced` | `AvailabilitySound` |
| `EvoRelayProofs!RelayInvariant`, `RelayTypeCorrect` | `RelayInv`, `TypeOK` |
| `EvoRelayProofs!RecordsInOrder` | `InOrder` |
| `EvoRelayProofs!StatusTruthfulOfOneSession` | `StatusTruthfulUnlessRaced` |
| `HaStateDriverProofs!HaInvariant`, `TransitionsToldAsMade` | `HaInv`, `TransitionsTold` of the driver alone |
| `MqttStateDriverProofs!MqttInvariant`, `StatesToldAsPublished` | `MqttInv`, `StatesTold` of the driver alone |
| `ComponentsProofs!PartsInvariant`, `PartsTypeCorrect` | the invariants of five parts; `TypeOK` of all seven |
| `ComponentsProofs!HaTransitionsTold`, `MqttStatesTold` | `TransitionsTold`, `StatesTold` |
| `ComponentsProofs!ServerStatusKept` | `StatusKept` |
| `ComponentsProofs!EventsCopied` | `ReliableCopy` |
| `ComponentsProofs!FormsSafe`, `SelectionKept` | `OptionsSafe`; `OnlyUncheckedRemoved`, an action property |
| `ComponentsProofs!PicturesRight` | `PictureSound`, an action property |
| `ComponentsProofs!ConfiguredIsServed` | `AllServed` |

The inductive invariants stand in the modules they are about:

* `UpstreamInv` adds `HeldItem` (the worker holds an event exactly while it posts or settles it),
  `DeliveredRows` (a row whose event the server has is about to be deleted or its outcome was lost)
  and `FreshIsDue`. The second is what makes a repetition impossible without a lost answer; the
  third connects the flag to the table.
* `TableInv` adds to `UpstreamInv` that the table is finite; `SizeLimit` is then inductive. What it takes
  is arithmetic of `Bytes`, a fold over a set: `BytesStep` unfolds it by one element, `BytesNat`,
  `BytesLess` and `BytesWithout` follow. The fold is a recursive function, and induction with a
  parameter is out of reach, so these lemmas take a minimal counterexample instead (`SmallestSet`:
  the strict subsets of a finite set are well-founded), and so does the existence of that function
  (`AddsExists`).
* `OccupancyInv` adds `Marked`: every mark and every entry is of a record already handled. Only then
  is the next record later than all of them, which `Chronology` needs. `Chronology` and
  `Conservation` are proved of `Reset` and `Applied` as lemmas on one state, and hold of memory and
  file because every step assigns one of these results or a copy. What was announced is in memory as well, as far as it is not
  `forgotten`; else the next save would take it out of the file.
* `ThreadsInv` is the type of the jobs, the numbering of records and which threads hold a file. It
  needs no lock.
* `LockedInv` adds that one thread is at work at a time, with the next record (`OneAtATime`), that
  the dict holds what the sequential engine would make of this record as far as the thread has come
  and what the thread has read is still true (`InStage`, against `Target`), and that the temporary
  file holds the parts of its dump and no others (`SaveInHand`). These theorems assume `Unlocked =
  {}`; without it `AtomicSave` is false, as finding 3 shows. The refinement `EngineIsSequential` maps the
  end of the critical section to the step of `Occupancy`, so `LockedEngineSound` is an instance of
  the theorems of `OccupancyProofs` and repeats none of their argument.
* `PollingInv` adds where the loop is (`InLoop`), what the logs show (`LogSound`), which records
  cannot have been handled (`Unhandled`), and `Accounted`, which strengthens `NothingSkipped`: a
  record in the phase `examine` counts as in hand only if it is new. Without that, `NothingNew`
  could drop it.
* `RelayInv` says what each session can be busy with (`WellFormed`), that the records passed on and
  not handled are those with the callback and behind it, in this order (`RecordsInLine`; a session that
  came to its own end has none left), that a
  device whose sessions have not met has one at most (`OneSession`), and that what was published
  last of it follows this session (`StatusFollows`). The first two are about a session by itself and
  give the order whatever other sessions do; the last two are needed for the status
  only.
* `HaInv` adds `OwedOnTheWay`: what is owed is on the wire with its number, and is announceable, so
  that `Read`, which discards what is not, cannot drop it; and that nothing is owed or on the wire
  outside of a subscription.
* `MqttInv` adds that a cached value is that of the publication it is from (`Remembered`), what can
  be retained and on the wire (`Delivery`), that nothing on the wire is older than what is cached in
  a clean session (`NothingOlder`), and that one transition of a field is left to announce at most
  (`OnePerField`). A first, weaker form of `Delivery` held in the run and was not inductive.
* `TelemetryInv` is the types and `StatusKept`. `FanoutInv` adds `InHand` (a call under way holds an
  event that was made). `UiInv` adds `PagesFit`: the form in the hands of a thread is applied to the
  file of this process or to nothing, and its page offers all that is selected. `PhotoInv` adds
  `MarkersAgree` and `PictureInHand` (between the fetch and the markers, the copy the thread names
  is of the photo it was to fetch). `ConfigInv` says that what `main` holds is what it has built
  from the options of this start (`Built`), and that it goes on with what was accepted and fails for
  what was not (`Judged`); `AllServed` is then a fact about the functions from options to connections, shown for
  brokers, readers and relays in a lemma each.

`ComponentsProofs` proves of the product what the parts promise. A step of the product is a step of
one part and leaves the variables of the others alone (`NextParts`), so it suffices that each part
keeps its own invariant. Five parts are proved there, in a section each, about the instances
directly. The two drivers have modules of their own, whose theorems assume the named assumption on
the constants and are used through INSTANCE.

The findings are no theorems, and what they refute is not assumed anywhere.

Only model-checked: liveness (`EventuallySettled`, `EveryRecordEnds`, `EventuallyShown`,
`EventuallyRead`, `PassedOnIsHandled`, `OfflineAnnounced`, `SourcesRecover`, `ReachesCloud`), which rests on fairness and
ENABLED and is beyond the prover. In `Fanout`, that a live worker delivers what is pending is a
fairness condition where `Upstream` has it as `EventuallySettled`, and is justified by the run
alone.

## 5. What is not modelled

* HTTP, WebSocket, SQLite and the file system below what the actions say of them: a request
  answers, fails or answers and is lost; a transaction commits or raises; `rename` is
  atomic.
* Two MQTT connections with the same id, which would share cache entries; how measurements are taken from
  a payload; events of a source that a post to Home Assistant loses.
* The figures of the dashboard, which stay those of the day before after midnight until the next record; the decoding
  of a relay photo and the retention of 100 of them per terminal (`save_evo_relay_image`).
* Of the configurator: its layout, the switches, prefixes and lists of ignored states, which travel as the
  selections do, and the default of `state_driver_publish_raw`, which is false on the page and true in `app.py:360`.
* Of the configuration: ports, TLS, QoS, names of events, and types that the schema of the add-on keeps out. Connections that are
  not enabled count as the code counts them.
* The contents of payloads and events, logging and redaction. `save_state` by other callers at start-up is in
  `Occupancy` (`LoadAndClear`). `drivers/` is imported by nothing; of `events.py` only the
  presence of an `event_id` matters.

## 6. Plan

Done: every module above; proofs of every safety property and of both refinements.

To come, in this order:

1. Proofs: the shared lemmas on sequences and filters that several proof modules need, stated once; long steps of
   `OccupancyThreadsProofs` and `EvoRelayProofs` split further.
2. `OccupancyThreads` with one thread outside of the lock: which of its promises still hold (the types do, by
   `ThreadsTypeCorrect`), stated and proved, and by how much the counts of the day may fall short.
3. Models: `MqttStateDriver` with a session the broker keeps, for which `NoStaleNews` is not claimed; the
   figures of the dashboard over `Occupancy`, with the day they belong to.
