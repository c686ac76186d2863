----------------------------- MODULE EvoPolling -----------------------------
(***************************************************************************)
(* Polling of the EVO readers over HTTP (app.py, run_polling_loop): one    *)
(* thread asks the readers in turn for their log, keeps their              *)
(* availability, and hands the newest record to the Occupancy Engine.      *)
(*                                                                         *)
(* A record of a reader is known by its number.  Time is relative: `wait`  *)
(* is what is left until next_check, `stale` what has passed since the     *)
(* dashboard was published.                                                *)
(***************************************************************************)
EXTENDS Integers, FiniteSets, FiniteSetsExt

CONSTANTS
  Readers,            \* active EVO Direct connections
  NoReader,           \* no reader is being handled
  PollInterval,       \* poll_interval
  MaxRetry,           \* max_retry_interval
  DashboardInterval,  \* DASHBOARD_PUBLISH_INTERVAL
  Used,               \* bound: readers that people use
  MaxLog,             \* bound: records of each
  FailureCap          \* bound: failures counted, where the back-off is at its limit

ASSUME PollingAssumption ==
  /\ IsFiniteSet(Readers)
  /\ NoReader \notin Readers
  /\ PollInterval \in Nat \ {0}
  /\ MaxRetry \in Nat /\ PollInterval =< MaxRetry      \* validate_global_config
  /\ DashboardInterval \in Nat
  /\ Used \subseteq Readers
  /\ MaxLog \in Nat
  /\ FailureCap \in 1..9

VARIABLES
  reachable,     \* readers that answer
  written,       \* number of the newest record of each reader
  listed,        \* number of the record at the head of its log, 0 if it is empty
  core,          \* Home Assistant takes what is posted to it
  entity,        \* binary_sensor.seiden_reader_* in Home Assistant
  phase,         \* where the polling thread is
  turn,          \* readers still to visit in this round
  reader,        \* the one being handled
  answer,        \* head of the log it answered, 0 if none
  lastSeen,      \* last_seen, 0 if the reader has no entry
  runtime,       \* reader_runtime
  stale,         \* age of the last dashboard publication
  handled,       \* times each record was given to the engine (history)
  balance,       \* offline events minus online events since the start (history)
  excused        \* records that may be skipped (history)

devices == <<reachable, written, listed>>
home == <<core, entity>>
loop == <<phase, turn, reader, answer>>
history == <<handled, balance, excused>>
vars == <<devices, home, loop, lastSeen, runtime, stale, history>>

Numbers == 1..MaxLog
Statuses == {"unknown", "online", "offline"}

PowerOfTwo == <<1, 2, 4, 8, 16, 32, 64, 128, 256>>
Least(a, b) == IF a =< b THEN a ELSE b

\* (mutant of Backoff: the exponent is the number of failures, without limit)
UnlimitedBackoff(failures) == 2 * PollInterval * PowerOfTwo[failures]

\* calculate_backoff
Backoff(failures) == Least(MaxRetry, PollInterval * PowerOfTwo[failures])

\* Counting no further loses nothing.
ASSUME FailureCapAssumption ==
  FailureCap = 9 \/ PollInterval * PowerOfTwo[FailureCap] >= MaxRetry

\* create_reader_runtime_state
Fresh == [failures |-> 0, wait |-> 0, offline |-> FALSE, status |-> "unknown"]

TypeOK ==
  /\ reachable \subseteq Readers
  /\ written \in [Readers -> 0..MaxLog]
  /\ listed \in [Readers -> 0..MaxLog]
  /\ core \in BOOLEAN
  /\ entity \in [Readers -> {"absent", "on", "off"}]
  /\ phase \in {"down", "poll", "examine", "handle", "publish"}
  /\ turn \subseteq Readers
  /\ reader \in Readers \cup {NoReader}
  /\ answer \in 0..MaxLog
  /\ lastSeen \in [Readers -> 0..MaxLog]
  /\ runtime \in [Readers -> [failures : 0..FailureCap, wait : 0..MaxRetry,
                              offline : BOOLEAN, status : Statuses]]
  /\ stale \in 0..DashboardInterval
  /\ handled \in [Readers -> [Numbers -> Nat]]
  /\ balance \in [Readers -> Int]
  /\ excused \in [Readers -> SUBSET Numbers]

(***************************************************************************)
(* Home Assistant                                                          *)
(***************************************************************************)
Shown(status) == IF status = "online" THEN "on" ELSE "off"

\* set_ha_state for the readers in S: it takes all of them, or some, or none.
Publish(S, rt) ==
  \E P \in (IF core THEN {S} ELSE SUBSET S) :
    entity' = [r \in Readers |-> IF r \in P THEN Shown(rt[r].status) ELSE entity[r]]

(***************************************************************************)
(* Availability                                                            *)
(***************************************************************************)

\* (mutant of MarkOffline: every failure is announced)
MarkOfflineLoudly(r) ==
  LET n == Least(FailureCap, runtime[r].failures + 1)
      rt == [runtime EXCEPT ![r] = [failures |-> n, wait |-> Backoff(n),
                                    offline |-> TRUE, status |-> "offline"]]
  IN /\ runtime' = rt
     /\ balance' = [balance EXCEPT ![r] = @ + 1]
     /\ Publish({r}, rt)

\* mark_reader_offline: the event goes out with the first failure only.
MarkOffline(r) ==
  LET n == Least(FailureCap, runtime[r].failures + 1)
      rt == [runtime EXCEPT ![r] = [failures |-> n, wait |-> Backoff(n),
                                    offline |-> TRUE, status |-> "offline"]]
  IN /\ runtime' = rt
     /\ balance' = [balance EXCEPT ![r] = IF runtime[r].offline THEN @ ELSE @ + 1]
     /\ Publish({r}, rt)

\* mark_reader_online: the entity is published when the status changes.
MarkOnline(r) ==
  LET rt == [runtime EXCEPT ![r] = [failures |-> 0, wait |-> 0,
                                    offline |-> FALSE, status |-> "online"]]
  IN /\ runtime' = rt
     /\ balance' = [balance EXCEPT ![r] = IF runtime[r].offline THEN @ - 1 ELSE @]
     /\ IF runtime[r].status = "online" THEN UNCHANGED entity ELSE Publish({r}, rt)

(***************************************************************************)
(* The loop                                                                *)
(***************************************************************************)

\* `continue`, or the end of the body for this reader.
Leave(r) ==
  /\ phase' = "poll"
  /\ turn' = turn \ {r}
  /\ reader' = NoReader
  /\ answer' = 0

\* next_check lies ahead.
Skip(r) ==
  /\ phase = "poll" /\ r \in turn
  /\ runtime[r].wait > 0
  /\ Leave(r)
  /\ UNCHANGED <<devices, home, lastSeen, runtime, stale, history>>

\* getlog fails, or its answer has no result.
PollFails(r) ==
  /\ phase = "poll" /\ r \in turn
  /\ runtime[r].wait = 0
  /\ r \notin reachable
  /\ MarkOffline(r)
  /\ Leave(r)
  /\ UNCHANGED <<devices, core, lastSeen, stale, handled, excused>>

\* getlog answers: the reader is online, whatever becomes of the record.
PollAnswers(r) ==
  /\ phase = "poll" /\ r \in turn
  /\ runtime[r].wait = 0
  /\ r \in reachable
  /\ MarkOnline(r)
  /\ phase' = "examine"
  /\ reader' = r
  /\ answer' = listed[r]
  /\ UNCHANGED <<devices, core, turn, lastSeen, stale, handled, excused>>

\* No records, or the one seen before.
NothingNew ==
  /\ phase = "examine"
  /\ answer \in {0, lastSeen[reader]}
  /\ Leave(reader)
  /\ UNCHANGED <<devices, home, lastSeen, runtime, stale, history>>

\* (mutant of Baseline: nothing is remembered)
BaselineForgotten ==
  /\ phase = "examine"
  /\ answer # 0 /\ lastSeen[reader] = 0
  /\ Leave(reader)
  /\ UNCHANGED <<devices, home, lastSeen, runtime, stale, history>>

\* (mutant of Baseline: the first record is handled)
BaselineTaken ==
  /\ phase = "examine"
  /\ answer # 0 /\ lastSeen[reader] = 0
  /\ lastSeen' = [lastSeen EXCEPT ![reader] = answer]
  /\ phase' = "handle"
  /\ UNCHANGED <<devices, home, turn, reader, answer, runtime, stale, history>>

\* (mutant of Baseline: the log is asked once more)
BaselineAfterSecondLook ==
  /\ phase = "examine"
  /\ answer # 0 /\ lastSeen[reader] = 0
  /\ lastSeen' = [lastSeen EXCEPT ![reader] = written[reader]]
  /\ excused' = [excused EXCEPT ![reader] = @ \cup 1..answer]
  /\ Leave(reader)
  /\ UNCHANGED <<devices, home, runtime, stale, handled, balance>>

\* The first record since the start is where the Bridge begins.
Baseline ==
  /\ phase = "examine"
  /\ answer # 0 /\ lastSeen[reader] = 0
  /\ lastSeen' = [lastSeen EXCEPT ![reader] = answer]
  /\ excused' = [excused EXCEPT ![reader] = @ \cup 1..answer]
  /\ Leave(reader)
  /\ UNCHANGED <<devices, home, runtime, stale, handled, balance>>

\* The answer begins with a record not seen before.
New == phase = "examine" /\ answer \notin {0, lastSeen[reader]} /\ lastSeen[reader] # 0

\* A new record whose event code is not 0.
Ignored ==
  /\ New
  /\ lastSeen' = [lastSeen EXCEPT ![reader] = answer]
  /\ excused' = [excused EXCEPT ![reader] = @ \cup {answer}]
  /\ Leave(reader)
  /\ UNCHANGED <<devices, home, runtime, stale, handled, balance>>

\* A new record to handle: its key is kept first.
Taken ==
  /\ New
  /\ lastSeen' = [lastSeen EXCEPT ![reader] = answer]
  /\ phase' = "handle"
  /\ UNCHANGED <<devices, home, turn, reader, answer, runtime, stale, history>>

\* The record in hand reaches the engine.
Counted == [handled EXCEPT ![reader][answer] = @ + 1]

\* handle_authorized_record returns its payload.
Handle ==
  /\ phase = "handle"
  /\ handled' = Counted
  /\ phase' = "publish"
  /\ UNCHANGED <<devices, home, turn, reader, answer, lastSeen, runtime, stale,
                 balance, excused>>

\* It raises what the loop takes for a failure of the reader: a ValueError of
\* the record, a RuntimeError.
HandleBlamesReader ==
  /\ phase = "handle"
  /\ handled' = Counted
  /\ MarkOffline(reader)
  /\ Leave(reader)
  /\ UNCHANGED <<devices, core, lastSeen, stale, excused>>

\* It raises anything else, as an OSError of save_state: no event.
HandleFails ==
  /\ phase = "handle"
  /\ handled' = Counted
  /\ Leave(reader)
  /\ UNCHANGED <<devices, home, lastSeen, runtime, stale, balance, excused>>

\* The event goes to the outputs, then the dashboard with every reader.
PublishRecord ==
  /\ phase = "publish"
  /\ Publish(Readers, runtime)
  /\ stale' = 0
  /\ Leave(reader)
  /\ UNCHANGED <<devices, core, lastSeen, runtime, history>>

\* (mutant of EndRound: the dashboard follows the records only)
EndRoundSilently ==
  /\ phase = "poll" /\ turn = {}
  /\ turn' = Readers
  /\ UNCHANGED <<devices, home, phase, reader, answer, lastSeen, runtime, stale, history>>

\* The dashboard when it is due, and the sleep before the next round.
EndRound ==
  /\ phase = "poll" /\ turn = {}
  /\ turn' = Readers
  /\ IF stale >= DashboardInterval
     THEN Publish(Readers, runtime) /\ stale' = 0
     ELSE UNCHANGED <<entity, stale>>
  /\ UNCHANGED <<devices, core, phase, reader, answer, lastSeen, runtime, history>>

(***************************************************************************)
(* Process and environment                                                 *)
(***************************************************************************)
Crash ==
  /\ phase # "down"
  /\ phase' = "down"
  /\ turn' = {}
  /\ reader' = NoReader
  /\ answer' = 0
  /\ UNCHANGED <<devices, home, lastSeen, runtime, stale, history>>

\* run_polling_loop up to the loop: what happened while the process was down
\* is not caught up.
Start ==
  /\ phase = "down"
  /\ phase' = "poll"
  /\ turn' = Readers
  /\ lastSeen' = [r \in Readers |-> 0]
  /\ runtime' = [r \in Readers |-> Fresh]
  /\ balance' = [r \in Readers |-> 0]
  /\ excused' = [r \in Readers |-> excused[r] \cup 1..written[r]]
  /\ stale' = DashboardInterval          \* last_dashboard_publish = 0.0
  /\ Publish(Readers, runtime')
  /\ UNCHANGED <<devices, core, reader, answer, handled>>

\* Records the loop has not got hold of yet.
Ahead(r) == ((lastSeen[r] + 1)..written[r]) \ (IF reader = r THEN {answer} ELSE {})

\* Somebody uses a reader: the record takes the head of the log, and those that
\* nobody has read yet are hidden by it (only records[0] is read).
Use(r) ==
  /\ r \in Used /\ written[r] < MaxLog
  /\ written' = [written EXCEPT ![r] = @ + 1]
  /\ listed' = [listed EXCEPT ![r] = written[r] + 1]
  /\ excused' = [excused EXCEPT ![r] = @ \cup Ahead(r)]
  /\ UNCHANGED <<reachable, home, loop, lastSeen, runtime, stale, handled, balance>>

\* The log of a reader is cleared at the terminal.
ClearLog(r) ==
  /\ listed[r] # 0
  /\ listed' = [listed EXCEPT ![r] = 0]
  /\ excused' = [excused EXCEPT ![r] = @ \cup Ahead(r)]
  /\ UNCHANGED <<reachable, written, home, loop, lastSeen, runtime, stale, handled, balance>>

Toggle(r) ==
  /\ reachable' = IF r \in reachable THEN reachable \ {r} ELSE reachable \cup {r}
  /\ UNCHANGED <<written, listed, home, loop, lastSeen, runtime, stale, history>>

ToggleCore ==
  /\ core' = ~core
  /\ UNCHANGED <<devices, entity, loop, lastSeen, runtime, stale, history>>

Tick ==
  /\ \/ stale < DashboardInterval
     \/ \E r \in Readers : runtime[r].wait > 0
  /\ stale' = Least(DashboardInterval, stale + 1)
  /\ runtime' = [r \in Readers |->
                   [runtime[r] EXCEPT !.wait = IF @ > 0 THEN @ - 1 ELSE 0]]
  /\ UNCHANGED <<devices, home, loop, lastSeen, history>>

Init ==
  /\ reachable = Readers
  /\ written = [r \in Readers |-> 0]
  /\ listed = written
  /\ core = TRUE
  /\ entity = [r \in Readers |-> "absent"]
  /\ phase = "down"
  /\ turn = {}
  /\ reader = NoReader
  /\ answer = 0
  /\ lastSeen = [r \in Readers |-> 0]
  /\ runtime = [r \in Readers |-> Fresh]
  /\ stale = 0
  /\ handled = [r \in Readers |-> [n \in Numbers |-> 0]]
  /\ balance = [r \in Readers |-> 0]
  /\ excused = [r \in Readers |-> {}]

LoopNext ==
  \/ \E r \in Readers : Skip(r) \/ PollFails(r) \/ PollAnswers(r)
  \/ NothingNew \/ Baseline \/ Ignored \/ Taken
  \/ Handle \/ HandleBlamesReader \/ HandleFails
  \/ PublishRecord
  \/ EndRound

DeviceNext == \E r \in Readers : Use(r) \/ ClearLog(r) \/ Toggle(r)

Next ==
  \/ LoopNext
  \/ DeviceNext
  \/ ToggleCore
  \/ Tick
  \/ Crash
  \/ Start

Spec == Init /\ [][Next]_vars

\* The thread runs, each request having a timeout, and time passes.
FairSpec == Spec /\ WF_vars(LoopNext) /\ WF_vars(Tick)

(***************************************************************************)
(* Properties                                                              *)
(***************************************************************************)

\* No record reaches the Occupancy Engine twice, whatever it raised the first
\* time, across restarts and cleared logs (lines 2043-2071).
HandledOnce == \A r \in Readers, n \in Numbers : handled[r][n] =< 1

\* A record that reached the engine in no way was there when the Bridge
\* started, was hidden by a newer one or cleared before it was read, was the
\* first of its log, or had another event code; any other is at the head of
\* the log or in hand (lines 2043-2088).
NothingSkipped ==
  phase # "down" =>
    \A r \in Readers : \A n \in 1..written[r] :
      \/ handled[r][n] > 0
      \/ n \in excused[r]
      \/ n = listed[r] /\ n > lastSeen[r]
      \/ reader = r /\ n = answer /\ phase \in {"examine", "handle"}

\* The events announced, the flags kept and the back-off agree: an offline
\* event without its online event exactly while the reader counts failures,
\* and a reader that is retried later than at once is offline (lines
\* 1469-1620).
Availability(r) ==
  LET rt == runtime[r] IN
  /\ rt.offline <=> rt.status = "offline"
  /\ rt.offline <=> rt.failures > 0
  /\ balance[r] = IF rt.offline THEN 1 ELSE 0
  /\ rt.wait =< IF rt.failures = 0 THEN 0 ELSE Backoff(rt.failures)

AvailabilitySound == \A r \in Readers : Availability(r)

\* The inductive invariant behind the three properties above.  It adds where
\* the loop is,
InLoop ==
  /\ phase \in {"down", "poll"} => reader = NoReader /\ answer = 0
  /\ phase \in {"examine", "handle", "publish"} => reader \in Readers
  /\ phase \in {"handle", "publish"} => answer \in Numbers /\ answer = lastSeen[reader]
  /\ reader \in Readers =>
       /\ answer =< written[reader]
       /\ answer # 0 => answer >= lastSeen[reader]

\* what the logs show,
LogSound ==
  \A r \in Readers : lastSeen[r] =< written[r] /\ listed[r] \in {0, written[r]}

\* which records cannot have been handled,
Unhandled ==
  /\ \A r \in Readers, n \in Numbers :
       n > written[r] \/ (lastSeen[r] # 0 /\ n > lastSeen[r]) => handled[r][n] = 0
  /\ phase = "examine" /\ answer # 0 =>
       \A n \in Numbers : n > answer => handled[reader][n] = 0
  /\ phase = "handle" => handled[reader][answer] = 0

\* and that the record in hand is a new one.
Accounted ==
  phase # "down" =>
    \A r \in Readers : \A n \in 1..written[r] :
      \/ handled[r][n] > 0
      \/ n \in excused[r]
      \/ n = listed[r] /\ n > lastSeen[r]
      \/ /\ reader = r /\ n = answer
         /\ phase = "handle" \/ (phase = "examine" /\ n > lastSeen[r])

PollingInv ==
  /\ TypeOK
  /\ AvailabilitySound
  /\ InLoop /\ LogSound
  /\ HandledOnce /\ Unhandled
  /\ Accounted

\* A reader that answers is shown as connected, also if Home Assistant was down
\* when the reader came back: the dashboard repeats it (lines 2161-2176).
EventuallyShown ==
  \A r \in Readers :
    <>[](phase # "down" /\ r \in reachable /\ core) => <>[](entity[r] = "on")

\* A record at the head of a log is read, unless it leaves the head, the reader
\* stops answering or the process ends: readers that do not answer hold up
\* nobody for ever.
EventuallyRead ==
  \A r \in Readers, n \in Numbers :
    listed[r] = n /\ phase # "down" ~>
      lastSeen[r] >= n \/ listed[r] # n \/ r \notin reachable \/ phase = "down"

=============================================================================
