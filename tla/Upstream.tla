------------------------------ MODULE Upstream ------------------------------
(***************************************************************************)
(* The HTTPS output of the Seiden Bridge (upstream.py, UpstreamClient):    *)
(* connector threads submit events into an SQLite table, one worker thread *)
(* posts them to the server, oldest first, and deletes a row once the      *)
(* server answered 2xx.                                                    *)
(*                                                                         *)
(* Time.  The code stores absolute times and only ever compares them with  *)
(* time.time(); the model stores how far they are from the present:        *)
(*     created_at   = now - age        next_attempt <= now  iff  wait = 0  *)
(* so that the clock needs no bound.  Ages saturate at AgeCap, past which  *)
(* no comparison of the code can change, and attempts at AttemptCap, past  *)
(* which the delay no longer grows (lines 158-159).                        *)
(***************************************************************************)
EXTENDS Naturals, Functions

CONSTANTS
  Events,          \* event identities; every event gets a fresh uuid4
  NoEvent,         \* "no event": the worker holds none
  Threads,         \* threads that publish events (fire_event_names)
  Size,            \* size_bytes of each event
  MaxBytes,        \* queue_max_mb, in the unit of Size
  Retention,       \* retention_days, in ticks
  RetryInterval,   \* retry_interval, in ticks
  MaxRetry,        \* max_retry_interval, in ticks
  LockTimeout,     \* ticks a submit may wait for the database (timeout=10)
  AttemptCap       \* attempts are counted up to here

\* from_config clamps each setting with max(1, ...); a payload is never empty.
ASSUME UpstreamAssumption ==
  /\ NoEvent \notin Events
  /\ Size \in [Events -> Nat \ {0}]
  /\ MaxBytes \in Nat \ {0}
  /\ Retention \in Nat \ {0}
  /\ RetryInterval \in Nat \ {0}
  /\ MaxRetry \in Nat \ {0}
  /\ LockTimeout \in Nat
  /\ AttemptCap \in 1..9

\* The delay after the n-th failed attempt (line 159).
PowerOfTwo == <<1, 2, 4, 8, 16, 32, 64, 128, 256>>
Least(a, b) == IF a < b THEN a ELSE b
UncappedDelay(n) == RetryInterval * PowerOfTwo[n]      \* (mutant of Delay)
Delay(n) == Least(MaxRetry, RetryInterval * PowerOfTwo[n])

\* Counting further than AttemptCap would not change the delay.
ASSUME AttemptCapAssumption ==
  AttemptCap = 9 \/ RetryInterval * PowerOfTwo[AttemptCap] >= MaxRetry

VARIABLES
  queue,           \* the table: event -> [age, wait, attempts]; persistent
  phase,           \* where the worker thread is; "down": no process runs
  item,            \* event the worker read in _next and is posting
  tries,           \* attempts read with it
  wake,            \* the threading.Event _wake
  waking,          \* threads that committed an event and have not set wake
  accepted,        \* events whose submit committed (history)
  received,        \* events that reached the server at least once
  dropped,         \* events removed by _prune (history)
  uncertain        \* posted events whose outcome the Bridge lost (history)

vars == <<queue, phase, item, tries, wake, waking,
          accepted, received, dropped, uncertain>>
worker == <<phase, item, tries>>
history == <<accepted, dropped, uncertain>>

AgeCap == Retention + LockTimeout + 1

Row == [age : 0..AgeCap, wait : 0..MaxRetry, attempts : 0..AttemptCap]
Phases == {"down", "next", "waiting", "clearing",
           "posting", "confirmed", "failed", "dead"}

TypeOK ==
  /\ DOMAIN queue \subseteq Events
  /\ \A e \in DOMAIN queue : queue[e] \in Row
  /\ phase \in Phases
  /\ item \in Events \cup {NoEvent}
  /\ tries \in 0..AttemptCap
  /\ wake \in BOOLEAN
  /\ waking \subseteq Threads
  /\ accepted \subseteq Events
  /\ received \subseteq Events
  /\ dropped \subseteq Events
  /\ uncertain \subseteq Events

(***************************************************************************)
(* The table                                                               *)
(***************************************************************************)
Bytes(S) == SumFunctionOnSet(Size, S)

\* INSERT OR IGNORE, with a created_at read lag ticks before the commit.
Inserted(q, e, lag) ==
  [x \in DOMAIN q \cup {e} |->
     IF x \in DOMAIN q THEN q[x] ELSE [age |-> lag, wait |-> 0, attempts |-> 0]]

\* DELETE ... WHERE created_at < now - retention, for the same stale now.
Expired(q, lag) == {e \in DOMAIN q : q[e].age > Retention + lag}

\* D is what the loop of _prune deletes: the oldest rows, one at a time, for
\* as long as the total exceeds the limit (rows of equal age in any order).
Overflows(q, D) ==
  LET kept == DOMAIN q \ D IN
    /\ \A d \in D, k \in kept : q[d].age >= q[k].age
    /\ Bytes(kept) =< MaxBytes
    /\ D # {} => \E last \in D : /\ \A d \in D : q[d].age >= q[last].age
                                 /\ Bytes(kept \cup {last}) > MaxBytes

Due == {e \in DOMAIN queue : queue[e].wait = 0}
Oldest(S) == {e \in S : \A f \in S : queue[e].age >= queue[f].age}

(***************************************************************************)
(* submit: called by any connector thread while the process is up          *)
(***************************************************************************)

\* (mutant of Submit: the limits are applied before the insertion)
SubmitPrunesFirst(t, e, lag) ==
  LET q1 == Restrict(queue, DOMAIN queue \ Expired(queue, lag))
  IN /\ phase # "down"
     /\ t \notin waking
     /\ e \notin accepted
     /\ accepted' = accepted \cup {e}
     /\ \E D \in SUBSET DOMAIN q1 :
          /\ Overflows(q1, D)
          /\ queue' = Inserted(Restrict(q1, DOMAIN q1 \ D), e, lag)
          /\ dropped' = dropped \cup Expired(queue, lag) \cup D
     /\ waking' = waking \cup {t}
     /\ UNCHANGED <<worker, wake, received, uncertain>>

\* One transaction: insert, drop what expired, drop what overflows.
Submit(t, e, lag) ==
  LET q1 == Inserted(queue, e, lag)
      q2 == Restrict(q1, DOMAIN q1 \ Expired(q1, lag))
  IN /\ phase # "down"
     /\ t \notin waking
     /\ e \notin accepted
     /\ accepted' = accepted \cup {e}
     /\ \E D \in SUBSET DOMAIN q2 :
          /\ Overflows(q2, D)
          /\ queue' = Restrict(q2, DOMAIN q2 \ D)
          /\ dropped' = dropped \cup Expired(q1, lag) \cup D
     /\ waking' = waking \cup {t}
     /\ UNCHANGED <<worker, wake, received, uncertain>>

\* (mutant of SubmitWakes: the worker is not woken)
SubmitForgetsWake(t) ==
  /\ t \in waking
  /\ waking' = waking \ {t}
  /\ UNCHANGED <<queue, worker, wake, history, received>>

\* self._wake.set(), after the commit.
SubmitWakes(t) ==
  /\ t \in waking
  /\ waking' = waking \ {t}
  /\ wake' = TRUE
  /\ UNCHANGED <<queue, worker, history, received>>

(***************************************************************************)
(* The worker thread                                                       *)
(***************************************************************************)

\* _next finds a row that is due: the oldest one.
WorkerPicks ==
  /\ phase = "next"
  /\ \E e \in Oldest(Due) :
       /\ item' = e
       /\ tries' = queue[e].attempts
  /\ phase' = "posting"
  /\ UNCHANGED <<queue, wake, waking, history, received>>

\* _next finds none: wait(1.0).
WorkerWaits ==
  /\ phase = "next"
  /\ Due = {}
  /\ phase' = "waiting"
  /\ UNCHANGED <<queue, item, tries, wake, waking, history, received>>

\* (mutant of WorkerResumes: wait() without its timeout)
WorkerResumesWhenWoken ==
  /\ phase = "waiting"
  /\ wake
  /\ phase' = "clearing"
  /\ UNCHANGED <<queue, item, tries, wake, waking, history, received>>

\* wait(1.0) returns, because wake is set or because the second has passed.
WorkerResumes ==
  /\ phase = "waiting"
  /\ phase' = "clearing"
  /\ UNCHANGED <<queue, item, tries, wake, waking, history, received>>

\* self._wake.clear(); continue
WorkerClears ==
  /\ phase = "clearing"
  /\ wake' = FALSE
  /\ phase' = "next"
  /\ UNCHANGED <<queue, item, tries, waking, history, received>>

\* (mutant of PostConfirmed: only one of the 2xx codes counts as success)
PostConfirmedTakenForFailure ==
  /\ phase = "posting"
  /\ received' = received \cup {item}
  /\ phase' = "failed"
  /\ UNCHANGED <<queue, item, tries, wake, waking, history>>

\* The server takes the event and the 2xx arrives.
PostConfirmed ==
  /\ phase = "posting"
  /\ received' = received \cup {item}
  /\ phase' = "confirmed"
  /\ UNCHANGED <<queue, item, tries, wake, waking, history>>

\* The server takes the event and the answer is lost or late, or is not 2xx.
PostUncertain ==
  /\ phase = "posting"
  /\ received' = received \cup {item}
  /\ uncertain' = uncertain \cup {item}
  /\ phase' = "failed"
  /\ UNCHANGED <<queue, item, tries, wake, waking, accepted, dropped>>

\* (mutant of PostFails: an answer that is not 2xx ends the event)
PostFailsAndForgets ==
  /\ phase = "posting"
  /\ phase' = "confirmed"
  /\ UNCHANGED <<queue, item, tries, wake, waking, history, received>>

\* The request does not reach the server, or the server refuses the event.
PostFails ==
  /\ phase = "posting"
  /\ phase' = "failed"
  /\ UNCHANGED <<queue, item, tries, wake, waking, history, received>>

\* (mutant of WorkerDeletes: the row that is oldest by then is deleted)
WorkerDeletesOldest ==
  /\ phase = "confirmed"
  /\ queue' = Restrict(queue, DOMAIN queue \ Oldest(DOMAIN queue))
  /\ phase' = "next"
  /\ item' = NoEvent
  /\ tries' = 0
  /\ UNCHANGED <<wake, waking, history, received>>

\* DELETE of the confirmed row; a row already pruned is no error.
WorkerDeletes ==
  /\ phase = "confirmed"
  /\ queue' = Restrict(queue, DOMAIN queue \ {item})
  /\ phase' = "next"
  /\ item' = NoEvent
  /\ tries' = 0
  /\ UNCHANGED <<wake, waking, history, received>>

\* UPDATE of attempts and next_attempt; it touches no row if it was pruned.
WorkerPostpones ==
  /\ phase = "failed"
  /\ LET n == Least(tries + 1, AttemptCap) IN
       queue' = [e \in DOMAIN queue |->
                   IF e = item
                     THEN [age |-> queue[e].age, wait |-> Delay(n), attempts |-> n]
                     ELSE queue[e]]
  /\ phase' = "next"
  /\ item' = NoEvent
  /\ tries' = 0
  /\ UNCHANGED <<wake, waking, history, received>>

\* An SQLite error in _next, in the DELETE or in the UPDATE leaves _worker,
\* which has no handler: the thread ends and nothing starts another one.
WorkerDies ==
  /\ phase \in {"next", "confirmed", "failed"}
  /\ phase' = "dead"
  /\ item' = NoEvent
  /\ tries' = 0
  /\ uncertain' = IF phase = "confirmed" THEN uncertain \cup {item} ELSE uncertain
  /\ UNCHANGED <<queue, wake, waking, accepted, dropped, received>>

(***************************************************************************)
(* Time, crash and start                                                   *)
(***************************************************************************)
Tick ==
  /\ queue' = [e \in DOMAIN queue |->
                 [age |-> Least(queue[e].age + 1, AgeCap),
                  wait |-> IF queue[e].wait = 0 THEN 0 ELSE queue[e].wait - 1,
                  attempts |-> queue[e].attempts]]
  /\ UNCHANGED <<worker, wake, waking, history, received>>

\* The process ends at any point; only the table survives.  A request under
\* way may or may not have been taken: PostUncertain before the crash.
Crash ==
  /\ phase # "down"
  /\ phase' = "down"
  /\ item' = NoEvent
  /\ tries' = 0
  /\ wake' = FALSE
  /\ waking' = {}
  /\ uncertain' = IF phase = "confirmed" THEN uncertain \cup {item} ELSE uncertain
  /\ UNCHANGED <<queue, accepted, dropped, received>>

\* main creates the client and starts the worker on the table it finds.
Start ==
  /\ phase = "down"
  /\ phase' = "next"
  /\ UNCHANGED <<queue, item, tries, wake, waking, history, received>>

-----------------------------------------------------------------------------
Init ==
  /\ queue = [e \in {} |-> [age |-> 0, wait |-> 0, attempts |-> 0]]
  /\ phase = "down"
  /\ item = NoEvent
  /\ tries = 0
  /\ wake = FALSE
  /\ waking = {}
  /\ accepted = {}
  /\ received = {}
  /\ dropped = {}
  /\ uncertain = {}

SubmitNext ==
  \/ \E t \in Threads, e \in Events, lag \in 0..LockTimeout : Submit(t, e, lag)
  \/ \E t \in Threads : SubmitWakes(t)

WorkerNext ==
  \/ WorkerPicks \/ WorkerWaits \/ WorkerResumes \/ WorkerClears
  \/ PostConfirmed \/ PostUncertain \/ PostFails
  \/ WorkerDeletes \/ WorkerPostpones

Next ==
  \/ SubmitNext
  \/ WorkerNext
  \/ WorkerDies
  \/ Tick
  \/ Crash
  \/ Start

Spec == Init /\ [][Next]_vars

\* The worker thread is scheduled and each of its calls returns (requests has
\* a timeout), time passes, and a server that is offered an event again and
\* again takes it at last.  Nothing is assumed of Submit, of crashes, of Start
\* (boot: auto restarts the add-on with the host, not after a crash) or of
\* WorkerDies.
Fairness ==
  /\ WF_vars(WorkerNext)
  /\ WF_vars(Tick)
  /\ \A e \in Events : SF_vars(PostConfirmed /\ item = e)

FairSpec == Spec /\ Fairness

(***************************************************************************)
(* Properties                                                              *)
(***************************************************************************)

\* Whatever threads, crashes and prunes do between two steps of the worker, an
\* event whose submit committed is in the table, has reached the server or was
\* dropped by a limit: a row is deleted by the worker only after a 2xx
\* (lines 151-152), even if the row it posted was pruned meanwhile.
NoSilentLoss ==
  accepted = DOMAIN queue \cup dropped \cup received

\* The server is offered an event it already has only if the Bridge could not
\* know: the answer was lost, or the process or the worker ended between the
\* 2xx and the DELETE (lines 150-152).
RepeatOnlyIfUncertain ==
  phase = "posting" /\ item \in received => item \in uncertain

\* The worker never sits in wait with its flag down on an event that was never
\* tried, unless the thread that committed it is about to set the flag: clear
\* comes before the next look at the table (lines 116-122 and 168-170).
NoLostWakeup ==
  phase = "waiting" /\ ~wake /\ waking = {} =>
    \A e \in DOMAIN queue : queue[e].attempts > 0

\* The table never exceeds queue_max_mb between two transactions, although it
\* is only trimmed by submit and survives restarts (lines 125-135).
SizeLimit == Bytes(DOMAIN queue) =< MaxBytes

\* The worker holds an event exactly while it is posting it or settling the
\* outcome, only one that was accepted, and settles as delivered only one that
\* the server has (lines 145-161).
HeldItem ==
  /\ (item # NoEvent) <=> (phase \in {"posting", "confirmed", "failed"})
  /\ item # NoEvent => item \in accepted
  /\ phase = "confirmed" => item \in received

\* A row whose event the server already has is about to be deleted, or is one
\* whose outcome the Bridge lost.
DeliveredRows ==
  \A e \in DOMAIN queue :
    e \in received => e \in uncertain \/ (phase = "confirmed" /\ item = e)

\* An event that was never tried is due at once (line 119: next_attempt = now).
FreshIsDue == \A e \in DOMAIN queue : queue[e].attempts = 0 => queue[e].wait = 0

\* The inductive invariant behind the four properties above.
UpstreamInv ==
  /\ TypeOK
  /\ HeldItem
  /\ NoSilentLoss
  /\ DeliveredRows
  /\ RepeatOnlyIfUncertain
  /\ FreshIsDue
  /\ NoLostWakeup

\* The abstract promise, step by step.
SAF == INSTANCE StoreAndForward WITH
         pending <- DOMAIN queue, delivered <- received, givenUp <- dropped

\* Every step of the client is a step of StoreAndForward or leaves it alone.
ImplementsStoreAndForward == SAF!Spec

\* If from some point on the process runs and its worker thread is alive, every
\* event of the table reaches the server or is given up: retries never cease
\* (lines 158-172).
EventuallySettled ==
  <>[](phase \notin {"down", "dead"}) => \A e \in Events : SAF!Settled(e)

\* The same with the process alone required to run, as README.md:12 and :29
\* put it; WorkerDies refutes it.
SettledWhileRunning ==
  <>[](phase # "down") => \A e \in Events : SAF!Settled(e)

=============================================================================
