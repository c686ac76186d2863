------------------------------ MODULE EvoRelay ------------------------------
(***************************************************************************)
(* The EVO relay (connectors/evo_relay.py and the callbacks of main): a    *)
(* terminal connects to the Bridge, the Bridge connects to the original    *)
(* server and passes every frame on, and what it reads on the way, `reg`   *)
(* and `sendlog`, becomes events.                                          *)
(*                                                                         *)
(* One session per connection.  Its coroutines run in one event loop and   *)
(* hand each callback to a thread (asyncio.to_thread) they wait for.  A    *)
(* cancelled coroutine stops waiting; the thread goes on.                  *)
(***************************************************************************)
EXTENDS Naturals, Sequences, FiniteSets, SequencesExt

CONSTANTS
  Sessions,      \* connections; a name is used again when nothing is left of it
  Devices,       \* serial numbers
  Known,         \* those of the configuration
  NoDevice,
  PoolSize,      \* threads of the default executor
  MaxFrames,     \* bound: frames of the terminals
  FrameLog       \* bound: records in a sendlog

ASSUME RelayAssumption ==
  /\ IsFiniteSet(Sessions)
  /\ Known \subseteq Devices
  /\ NoDevice \notin Devices
  /\ PoolSize \in Nat \ {0}
  /\ MaxFrames \in Nat
  /\ FrameLog \in Nat

VARIABLES
  session,       \* the state of each connection
  last,          \* last availability event published for each device
  frames,        \* frames sent so far
  raced          \* devices whose sessions have overtaken each other (history)

vars == <<session, last, frames, raced>>

(***************************************************************************)
(* A session: `serial` is learnt from the frames; `todo` is what is left   *)
(* of the frame being processed; `job` is in the hands of the executor,    *)
(* `thread` says whether a thread runs it; `orphan` is a running job whose *)
(* coroutine was cancelled; `hung` says that the terminal has hung up.     *)
(* `got` and `done` are the records passed on to the server and those      *)
(* handled; `clean` says that device_to_server came to its own end         *)
(* (history).                                                              *)
(***************************************************************************)
Job == [kind : {"none", "reg", "online", "record", "offline"}, n : 0..(MaxFrames * FrameLog)]
Do(kind) == [kind |-> kind, n |-> 0]
Handle(n) == [kind |-> "record", n |-> n]
NoJob == Do("none")

Unused == [at |-> "free", device |-> NoDevice, serial |-> FALSE, registered |-> FALSE,
           todo |-> <<>>, job |-> NoJob, thread |-> FALSE, orphan |-> NoJob,
           hung |-> FALSE, clean |-> FALSE, got |-> <<>>, done |-> <<>>]

Numbers == 1..(MaxFrames * FrameLog)

TypeOK ==
  /\ \A s \in Sessions :
       /\ session[s].at \in {"free", "open", "closing"}
       /\ session[s].device \in Devices \cup {NoDevice}
       /\ session[s].at # "free" => session[s].device \in Devices
       /\ session[s].registered => session[s].serial
       /\ session[s].hung \in BOOLEAN
       /\ session[s].todo \in Seq(Job)
       /\ session[s].job \in Job
       /\ session[s].thread => session[s].job # NoJob
       /\ session[s].orphan \in Job
       /\ session[s].got \in Seq(Numbers)
       /\ session[s].done \in Seq(Numbers)
  /\ last \in [Devices -> {"none", "online", "offline"}]
  /\ frames \in 0..MaxFrames
  /\ raced \subseteq Devices

Of(d) == {s \in Sessions : session[s].device = d}
Running == Cardinality({s \in Sessions : session[s].thread})
             + Cardinality({s \in Sessions : session[s].orphan # NoJob})
Idle(s) == session[s].at = "open" /\ session[s].job = NoJob /\ session[s].todo = <<>>

(***************************************************************************)
(* Connections                                                             *)
(***************************************************************************)

\* A terminal connects and the server accepts.  An earlier session of the same
\* terminal may still be there: no pings are sent, so that a lost connection
\* goes unnoticed.
Connect(s, d) ==
  /\ session[s] = Unused
  /\ session' = [session EXCEPT ![s] = [Unused EXCEPT !.at = "open", !.device = d]]
  /\ raced' = IF Of(d) # {} THEN raced \cup {d} ELSE raced
  /\ UNCHANGED <<last, frames>>

\* What follows the end of a session: the offline callback, if a serial was
\* learnt (`finally`).
Closed(x, clean) ==
  [x EXCEPT !.at     = "closing",
            !.clean  = clean,
            !.todo   = <<>>,
            !.thread = FALSE,
            !.job    = IF x.serial THEN Do("offline") ELSE NoJob]

\* The terminal hangs up, at any moment.  The frames it sent before are still
\* read and processed.
DeviceCloses(s) ==
  /\ session[s].at = "open" /\ ~session[s].hung
  /\ session' = [session EXCEPT ![s].hung = TRUE]
  /\ UNCHANGED <<last, frames, raced>>

\* (mutant of FramesEnd: the session ends with the connection)
FramesEndAtOnce(s) ==
  /\ session[s].at = "open" /\ session[s].hung /\ ~session[s].thread
  /\ session' = [session EXCEPT ![s] = Closed(@, TRUE)]
  /\ UNCHANGED <<last, frames, raced>>

\* (mutant of FramesEnd: no callback in `finally`)
FramesEndSilently(s) ==
  /\ Idle(s) /\ session[s].hung
  /\ session' = [session EXCEPT ![s] = [Closed(@, TRUE) EXCEPT !.job = NoJob]]
  /\ UNCHANGED <<last, frames, raced>>

\* device_to_server finds no further frame of a terminal that has hung up, and
\* comes to its end.
FramesEnd(s) ==
  /\ Idle(s) /\ session[s].hung
  /\ session' = [session EXCEPT ![s] = Closed(@, TRUE)]
  /\ UNCHANGED <<last, frames, raced>>

\* server_to_device is the first to end: device_to_server is cancelled wherever
\* it is.  A callback in the queue of the executor is dropped, a running one
\* goes on.
Cut(s) ==
  LET x == session[s] IN
  /\ session' = [session EXCEPT ![s] =
                   [Closed(x, FALSE) EXCEPT !.orphan = IF x.thread THEN x.job ELSE NoJob]]
  /\ raced' = IF x.thread /\ x.job.kind = "online" THEN raced \cup {x.device} ELSE raced
  /\ UNCHANGED <<last, frames>>

\* The server closes.
ServerCloses(s) == session[s].at = "open" /\ Cut(s)

\* The server has something to say to a terminal that has hung up: send raises,
\* also while the records of a frame are still being handled.
ServerSpeaks(s) == session[s].at = "open" /\ session[s].hung /\ Cut(s)

\* The session is over.
Forget(s) ==
  /\ session[s].at = "closing"
  /\ session[s].job = NoJob
  /\ session[s].orphan = NoJob
  /\ session' = [session EXCEPT ![s] = Unused]
  /\ UNCHANGED <<last, frames, raced>>

(***************************************************************************)
(* Frames of the terminal: passed on first, processed then                 *)
(***************************************************************************)

\* (mutant of Register: the serial is not kept)
RegisterForgetsSerial(s) ==
  /\ Idle(s) /\ frames < MaxFrames
  /\ frames' = frames + 1
  /\ session' = [session EXCEPT ![s].todo = <<Do("reg"), Do("online")>>]
  /\ UNCHANGED <<last, raced>>

\* reg
Register(s) ==
  /\ Idle(s) /\ frames < MaxFrames
  /\ frames' = frames + 1
  /\ session' = [session EXCEPT ![s].serial = TRUE,
                                ![s].todo = <<Do("reg"), Do("online")>>]
  /\ UNCHANGED <<last, raced>>

\* The records of the next sendlog.
NextLog(k) == [i \in 1..k |-> frames * FrameLog + i]

\* (mutant of SendLog: the records are processed whether or not the frame is
\* passed on)
SendLogUnsent(s, k) ==
  /\ Idle(s) /\ frames < MaxFrames
  /\ frames' = frames + 1
  /\ \E sent \in {<<>>, NextLog(k)} :
       session' = [session EXCEPT ![s].serial = TRUE,
                                  ![s].got = @ \o sent,
                                  ![s].todo = [i \in 1..k |-> Handle(NextLog(k)[i])]]
  /\ UNCHANGED <<last, raced>>

\* sendlog with k records
SendLog(s, k) ==
  /\ Idle(s) /\ frames < MaxFrames
  /\ frames' = frames + 1
  /\ session' = [session EXCEPT ![s].serial = TRUE,
                                ![s].got = @ \o NextLog(k),
                                ![s].todo = [i \in 1..k |-> Handle(NextLog(k)[i])]]
  /\ UNCHANGED <<last, raced>>

\* send to the server raises: the frame is not processed, the session ends.
ForwardFails(s) ==
  /\ Idle(s)
  /\ session' = [session EXCEPT ![s] = Closed(@, FALSE)]
  /\ UNCHANGED <<last, frames, raced>>

(***************************************************************************)
(* Callbacks                                                               *)
(***************************************************************************)

\* asyncio.to_thread, and the coroutine waits.
Submit(s) ==
  LET x == session[s] IN
  /\ x.at = "open" /\ x.job = NoJob /\ x.todo # <<>>
  /\ session' = [session EXCEPT ![s].job = Head(x.todo), ![s].todo = Tail(x.todo)]
  /\ UNCHANGED <<last, frames, raced>>

\* (mutant of RunJob: callbacks run for open sessions only)
RunJobWhileOpen(s) ==
  /\ session[s].job # NoJob /\ ~session[s].thread
  /\ Running < PoolSize
  /\ session[s].at = "open"
  /\ session' = [session EXCEPT ![s].thread = TRUE]
  /\ UNCHANGED <<last, frames, raced>>

\* A thread of the executor takes the callback.
RunJob(s) ==
  /\ session[s].job # NoJob /\ ~session[s].thread
  /\ Running < PoolSize
  /\ session' = [session EXCEPT ![s].thread = TRUE]
  /\ UNCHANGED <<last, frames, raced>>

\* What a callback leaves behind when it returns: relay_status publishes for
\* the devices of the configuration only, relay_record handles one record.
Published(d, job) ==
  IF d \in Known /\ job.kind \in {"online", "offline"}
  THEN [last EXCEPT ![d] = job.kind] ELSE last
Recorded(done, job) == IF job.kind = "record" THEN Append(done, job.n) ELSE done

\* A callback returns.  A device is in order again when it comes online with
\* nothing of an earlier session left.
JobReturns(s) ==
  LET x == session[s] IN
  /\ x.thread
  /\ session' = [session EXCEPT ![s] =
                   [x EXCEPT !.job = NoJob, !.thread = FALSE,
                             !.registered = @ \/ x.job.kind = "online",
                             !.done = Recorded(@, x.job)]]
  /\ last' = Published(x.device, x.job)
  /\ raced' = IF x.job.kind = "online" /\ Of(x.device) = {s} THEN raced \ {x.device} ELSE raced
  /\ UNCHANGED frames

\* relay_record raises, after the record has changed the state in memory:
\* device_to_server ends, and the session with it.
RecordRaises(s) ==
  LET x == session[s] IN
  /\ x.at = "open" /\ x.thread /\ x.job.kind = "record"
  /\ session' = [session EXCEPT ![s] =
                   Closed([x EXCEPT !.done = Append(@, x.job.n)], FALSE)]
  /\ UNCHANGED <<last, frames, raced>>

\* A callback nobody waits for returns.
OrphanReturns(s) ==
  LET x == session[s] IN
  /\ x.orphan # NoJob
  /\ session' = [session EXCEPT ![s].orphan = NoJob, ![s].done = Recorded(@, x.orphan)]
  /\ last' = Published(x.device, x.orphan)
  /\ UNCHANGED <<frames, raced>>

Init ==
  /\ session = [s \in Sessions |-> Unused]
  /\ last = [d \in Devices |-> "none"]
  /\ frames = 0
  /\ raced = {}

BridgeNext(s) ==
  \/ Submit(s) \/ RunJob(s)
  \/ JobReturns(s) \/ OrphanReturns(s)
  \/ FramesEnd(s) \/ Forget(s)

Next ==
  \E s \in Sessions :
    \/ \E d \in Devices : Connect(s, d)
    \/ \E k \in 1..FrameLog : SendLog(s, k)
    \/ Register(s) \/ ForwardFails(s)
    \/ DeviceCloses(s) \/ ServerCloses(s) \/ ServerSpeaks(s)
    \/ RecordRaises(s)
    \/ BridgeNext(s)

Spec == Init /\ [][Next]_vars

\* The event loop and the threads run; requests have a timeout, so callbacks
\* return.  Nothing is assumed of terminals and servers.  Threads are taken by
\* one session or another, hence strong fairness for RunJob.
FairSpec ==
  /\ Spec
  /\ \A s \in Sessions : WF_vars(BridgeNext(s)) /\ SF_vars(RunJob(s))

(***************************************************************************)
(* Properties                                                              *)
(***************************************************************************)

\* A session handles the records of its terminal once per delivery, in their
\* order, and none that was not passed on to the original server before
\* ("Transparency first", evo_relay.py:65), also when its coroutine is
\* cancelled in the middle of a sendlog.
InOrder == \A s \in Sessions : IsPrefix(session[s].done, session[s].got)

\* A session that did not live to the end of its frames: the server hung up or
\* spoke to a terminal that had hung up, or a callback raised.
CutShort(x) == x.at = "closing" /\ ~x.clean

\* A record that was passed on is handled in the end, however busy the executor
\* is and even if its terminal has hung up behind it, unless its session is cut
\* short (lines 83-99).
PassedOn(s, n) == n \in ToSet(session[s].got)
Settled(s, n) == n \in ToSet(session[s].done) \/ CutShort(session[s])

PassedOnIsHandled ==
  \A n \in Numbers :
    (\E s \in Sessions : PassedOn(s, n))
      ~> (\E s \in Sessions : PassedOn(s, n) /\ Settled(s, n))

Live(d) == \E s \in Of(d) : session[s].at = "open" /\ session[s].registered

\* Nothing about d is under way.
Quiet(d) ==
  \A s \in Of(d) :
    /\ session[s].at = "open"
    /\ session[s].job.kind # "online"
    /\ Do("online") \notin ToSet(session[s].todo)

\* The last event published for a device of the configuration says whether it
\* is registered, whenever nothing is under way.
Truthful(d) == Quiet(d) => (last[d] = "online" <=> Live(d))

StatusTruthful == \A d \in Known : Truthful(d)

\* It says so at least for devices whose sessions have not met and whose online
\* callback was not overtaken by the end of its session.
StatusTruthfulUnlessRaced == \A d \in Known \ raced : Truthful(d)

\* A terminal that has hung up for good is not left announced online (same
\* exceptions), however busy the executor is.
Gone(d) == \A s \in Of(d) : session[s].hung \/ session[s].at # "open"

OfflineAnnounced ==
  \A d \in Known :
    <>[](d \notin raced /\ Gone(d)) => <>[](last[d] # "online")

(***************************************************************************)
(* The inductive invariant                                                 *)
(***************************************************************************)
SessionStates ==
  [at : {"free", "open", "closing"}, device : Devices \cup {NoDevice}, serial : BOOLEAN,
   registered : BOOLEAN, todo : Seq(Job), job : Job, thread : BOOLEAN, orphan : Job,
   hung : BOOLEAN, clean : BOOLEAN, got : Seq(Numbers), done : Seq(Numbers)]

\* What a session can be busy with: only `finally` announces offline, and only
\* a session that has ended leaves a callback alone.
WellFormed(x) ==
  /\ x.at = "free" => x = Unused
  /\ x.at = "open" =>
       /\ x.device \in Devices /\ x.orphan = NoJob /\ ~x.clean
       /\ (x.job = NoJob /\ x.todo = <<>>) \/ x.serial
       /\ x.job.kind # "offline"
       /\ \A i \in 1..Len(x.todo) : x.todo[i].kind # "offline"
  /\ x.at = "closing" =>
       /\ x.device \in Devices /\ x.todo = <<>>
       /\ x.job \in {NoJob, Do("offline")}
       /\ x.clean => x.orphan = NoJob
  /\ x.registered => x.serial
  /\ x.thread => x.job # NoJob

\* Records passed on and handled, or in the hands of the callback that runs.
Taken(x) == Len(x.done) + IF x.job.kind = "record" THEN 1 ELSE 0

\* The records that were passed on and not handled yet are with the callback
\* and, behind it, in `todo`; or there are none, and `todo` has other things.
RecordsInLine(x) ==
  /\ IsPrefix(x.done, x.got)
  /\ x.at = "open" =>
       /\ x.job.kind = "record" => x.job.n = x.got[Taken(x)]
       /\ \/ /\ Len(x.got) = Taken(x) + Len(x.todo)
             /\ \A i \in 1..Len(x.todo) : x.todo[i] = Handle(x.got[Taken(x) + i])
          \/ /\ Len(x.got) = Taken(x)
             /\ \A i \in 1..Len(x.todo) : x.todo[i].kind # "record"
  /\ x.orphan.kind = "record" =>
       Len(x.done) < Len(x.got) /\ x.orphan.n = x.got[Len(x.done) + 1]
  /\ x.clean => x.done = x.got

\* A device whose sessions have not met has one at most.
OneSession == \A d \in Devices \ raced : \A s, t \in Of(d) : s = t

\* What was published last of such a device follows its session.
StatusFollows ==
  \A d \in Known \ raced :
    /\ Of(d) = {} => last[d] # "online"
    /\ \A s \in Of(d) :
         /\ session[s].at = "open" => (last[d] = "online" <=> session[s].registered)
         /\ session[s].at = "closing" =>
              /\ session[s].orphan.kind # "online"
              /\ last[d] = "online" => session[s].job.kind = "offline"

\* The inductive invariant behind the properties above.
RelayInv ==
  /\ session \in [Sessions -> SessionStates]
  /\ last \in [Devices -> {"none", "online", "offline"}]
  /\ frames \in 0..MaxFrames
  /\ raced \subseteq Devices
  /\ \A s \in Sessions : WellFormed(session[s]) /\ RecordsInLine(session[s])
  /\ OneSession
  /\ StatusFollows

=============================================================================
