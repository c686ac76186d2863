-------------------------- MODULE OccupancyThreads --------------------------
(***************************************************************************)
(* The Occupancy Engine under threads (app.py): handle_authorized_record   *)
(* and save_state, one step per access to what threads share, which is the *)
(* dict `state`, the file beside it and the temporary file.                *)
(*                                                                         *)
(* The relay threads call the engine under STATE_LOCK; the polling thread  *)
(* calls it without (line 2088).  Unlocked is the set of the latter.  The  *)
(* records all fall on one day: the daily reset is in Occupancy.           *)
(***************************************************************************)
EXTENDS Naturals, Sequences, FiniteSets, Functions

CONSTANTS
  Threads,       \* threads that handle records
  Unlocked,      \* those that do not take STATE_LOCK
  Users,         \* enrollid values
  NoThread,      \* nobody holds the lock
  MaxRecords,    \* bound: records taken up
  MaxCrashes     \* bound: ends of the process

ASSUME ThreadsAssumption ==
  /\ IsFiniteSet(Threads)
  /\ Unlocked \subseteq Threads
  /\ IsFiniteSet(Users)
  /\ NoThread \notin Threads
  /\ MaxRecords \in Nat
  /\ MaxCrashes \in Nat

VARIABLES
  up,            \* the process runs
  state,         \* the dict shared by the threads
  lock,          \* holder of STATE_LOCK
  pc,            \* where each thread is in handle_authorized_record
  job,           \* its record and its local variables
  tmpFile,       \* the file the name .tmp refers to, 0 if none
  stateFile,     \* the file the name STATE_PATH refers to, 0 if none
  content,       \* what is in each file
  crashes,       \* times the process has ended
  begun,         \* number of the last record taken up
  finished,      \* highest number of a record a thread is done with (history)
  announced,     \* highest number whose payload was returned (history)
  forgotten,     \* records no longer promised: up to this number (history)
  settled        \* state when a record was last finished (history)

files == <<tmpFile, stateFile, content>>
history == <<finished, announced, forgotten, settled>>
vars == <<up, crashes, state, lock, pc, job, files, begun, history>>

Kinds == {"in", "out", "none"}
Records == 1..MaxRecords
Inodes == 1..(Cardinality(Threads) + 2)

\* default_state
Default ==
  [inside |-> [u \in {} |-> 0], first |-> 0, last |-> 0,
   entries |-> 0, exits |-> 0, events |-> 0, lastEvent |-> 0]

NoJob == [user |-> CHOOSE u \in Users : TRUE, kind |-> "none", n |-> 0,
          was |-> FALSE, empty |-> FALSE, seen |-> 0, parts |-> 0, pos |-> 0, file |-> 0]

\* A file is a sequence of parts: one per person, one for the rest.  A part
\* names the dump that wrote it and the number of parts of that dump; the last
\* one stands for what a reader gets.
Part(n, k, s) == [dump |-> n, parts |-> k, of |-> s]
Hole == Part(0, 0, Default)

\* What json.load accepts: one dump, from its first part to its last.
Whole(c) ==
  /\ c # <<>>
  /\ \A i \in 1..Len(c) : c[i].dump = c[1].dump /\ c[i].parts = Len(c)

\* The result of writing a part at an offset, in a file others write to.
WriteAt(c, i, part) ==
  [j \in 1..(IF i > Len(c) THEN i ELSE Len(c)) |->
     IF j = i THEN part ELSE IF j =< Len(c) THEN c[j] ELSE Hole]

\* load_state: a file that is no JSON gives a new state.
Loaded == IF stateFile # 0 /\ Whole(content[stateFile])
          THEN content[stateFile][Len(content[stateFile])].of ELSE Default

Inside == DOMAIN state.inside

TypeOK ==
  /\ up \in BOOLEAN
  /\ crashes \in 0..MaxCrashes
  /\ Inside \subseteq Users
  /\ lock \in Threads \cup {NoThread}
  /\ pc \in [Threads -> {"idle", "waiting", "look", "move", "count", "counted",
                         "number", "numbered", "open", "write"}]
  /\ \A t \in Threads : job[t].n \in 0..MaxRecords
  /\ tmpFile \in 0..Cardinality(Inodes)
  /\ stateFile \in 0..Cardinality(Inodes)
  /\ stateFile = tmpFile => stateFile = 0
  /\ DOMAIN content = Inodes
  /\ finished =< begun
  /\ announced =< finished
  /\ forgotten =< finished

(***************************************************************************)
(* handle_authorized_record                                                *)
(***************************************************************************)

Waiting == {t \in Threads : pc[t] = "waiting"}

\* A record reaches thread t.
Begin(t, u, kind) ==
  /\ up /\ pc[t] = "idle"
  /\ begun + Cardinality(Waiting) < MaxRecords
  /\ job' = [job EXCEPT ![t].user = u, ![t].kind = kind]
  /\ pc' = [pc EXCEPT ![t] = "waiting"]
  /\ UNCHANGED <<up, crashes, state, lock, files, begun, history>>

\* (mutant of Enter: the relay threads do not take the lock either)
EnterUnlocked(t) ==
  /\ pc[t] = "waiting"
  /\ begun' = begun + 1
  /\ job' = [job EXCEPT ![t].n = begun + 1]
  /\ pc' = [pc EXCEPT ![t] = "look"]
  /\ UNCHANGED <<up, crashes, state, lock, files, history>>

\* with STATE_LOCK, in a thread that takes it.
Enter(t) ==
  /\ pc[t] = "waiting"
  /\ t \in Unlocked \/ lock = NoThread
  /\ lock' = IF t \in Unlocked THEN lock ELSE t
  /\ begun' = begun + 1
  /\ job' = [job EXCEPT ![t].n = begun + 1]
  /\ pc' = [pc EXCEPT ![t] = "look"]
  /\ UNCHANGED <<up, crashes, state, files, history>>

\* people_before, was_already_inside
Look(t) ==
  /\ pc[t] = "look"
  /\ job' = [job EXCEPT ![t].was = job[t].user \in Inside,
                        ![t].empty = Inside = {}]
  /\ pc' = [pc EXCEPT ![t] = "move"]
  /\ UNCHANGED <<up, crashes, state, lock, files, begun, history>>

\* The movement, decided by what Look saw (which is not read again).
Moved(s, j) ==
  LET left == Restrict(s.inside, DOMAIN s.inside \ {j.user}) IN
  CASE j.kind = "in" /\ ~j.was ->
         [s EXCEPT !.inside = [u \in DOMAIN @ \cup {j.user} |->
                                 IF u = j.user THEN j.n ELSE @[u]],
                   !.first  = IF j.empty THEN j.n ELSE @]
    [] j.kind = "out" /\ j.was ->
         [s EXCEPT !.inside = left,
                   !.last   = IF DOMAIN left = {} THEN j.n ELSE @]
    [] OTHER -> s

Move(t) ==
  /\ pc[t] = "move"
  /\ job[t].kind = "out" /\ job[t].was => job[t].user \in Inside
  /\ state' = Moved(state, job[t])
  /\ job' = [job EXCEPT ![t].was = FALSE, ![t].empty = FALSE]
  /\ pc' = [pc EXCEPT ![t] = IF job[t].kind = "none" THEN "number" ELSE "count"]
  /\ UNCHANGED <<up, crashes, lock, files, begun, history>>

\* The counter of the movement.
Counter(t) == IF job[t].kind = "in" THEN state.entries ELSE state.exits

\* state[...] = int(state.get(...)) + 1, first for the movement, then for the
\* event: the counter is read in one step and written in another.
ReadCount(t) ==
  /\ pc[t] \in {"count", "number"}
  /\ job' = [job EXCEPT ![t].seen = IF pc[t] = "number" THEN state.events ELSE Counter(t)]
  /\ pc' = [pc EXCEPT ![t] = IF @ = "number" THEN "numbered" ELSE "counted"]
  /\ UNCHANGED <<up, crashes, state, lock, files, begun, history>>

WriteCount(t) ==
  /\ pc[t] = "counted"
  /\ state' = IF job[t].kind = "in"
              THEN [state EXCEPT !.entries = job[t].seen + 1]
              ELSE [state EXCEPT !.exits = job[t].seen + 1]
  /\ job' = [job EXCEPT ![t].seen = 0]
  /\ pc' = [pc EXCEPT ![t] = "number"]
  /\ UNCHANGED <<up, crashes, lock, files, begun, history>>

\* events_today and, after the payload is built, last_event.
WriteNumber(t) ==
  /\ pc[t] = "numbered"
  /\ state' = [state EXCEPT !.events = job[t].seen + 1, !.lastEvent = job[t].n]
  /\ job' = [job EXCEPT ![t].seen = 0]
  /\ pc' = [pc EXCEPT ![t] = "open"]
  /\ UNCHANGED <<up, crashes, lock, files, begun, history>>

(***************************************************************************)
(* save_state                                                              *)
(***************************************************************************)
Busy == {t \in Threads : pc[t] # "idle"}
Free == Inodes \ ({tmpFile, stateFile} \cup {job[t].file : t \in Busy})

\* (mutant of Open: the state is written in place)
OpenInPlace(t) ==
  LET f == IF stateFile # 0 THEN stateFile ELSE CHOOSE i \in Free : \A j \in Free : i =< j IN
  /\ pc[t] = "open"
  /\ stateFile' = f
  /\ content' = [content EXCEPT ![f] = <<>>]
  /\ job' = [job EXCEPT ![t].file = f]
  /\ pc' = [pc EXCEPT ![t] = "write"]
  /\ UNCHANGED <<up, crashes, state, lock, tmpFile, begun, history>>

\* open("w"): the temporary file is created or, if it is there, emptied.
Open(t) ==
  LET f == IF tmpFile # 0 THEN tmpFile ELSE CHOOSE i \in Free : \A j \in Free : i =< j IN
  /\ pc[t] = "open"
  /\ tmpFile' = f
  /\ content' = [content EXCEPT ![f] = <<>>]
  /\ job' = [job EXCEPT ![t].file = f]
  /\ pc' = [pc EXCEPT ![t] = "write"]
  /\ UNCHANGED <<up, crashes, state, lock, stateFile, begun, history>>

\* json.dump iterates people_inside: its size may not change on the way.
SizeKept(t) == job[t].pos > 0 => Cardinality(Inside) + 1 = job[t].parts
Written(t) == job[t].pos > 0 /\ job[t].pos = job[t].parts

\* json.dump writes the next part.
Write(t) ==
  LET j == job[t]
      k == IF j.pos = 0 THEN Cardinality(Inside) + 1 ELSE j.parts IN
  /\ pc[t] = "write" /\ ~Written(t) /\ SizeKept(t)
  /\ content' = [content EXCEPT ![j.file] = WriteAt(@, j.pos + 1,
                           Part(j.n, k, IF j.pos + 1 = k THEN state ELSE Default))]
  /\ job' = [job EXCEPT ![t].pos = j.pos + 1, ![t].parts = k]
  /\ UNCHANGED <<up, crashes, state, lock, pc, tmpFile, stateFile, begun, history>>

\* (mutant of Leave: acquire and release instead of `with`)
LeaveWithLock(t) ==
  /\ pc' = [pc EXCEPT ![t] = "idle"]
  /\ lock' = IF lock = t /\ Written(t) THEN NoThread ELSE lock
  /\ job' = [job EXCEPT ![t] = NoJob]
  /\ finished' = IF job[t].n > finished THEN job[t].n ELSE finished
  /\ settled' = state

\* The thread leaves the engine, by return or by an exception: `with` releases
\* the lock.
Leave(t) ==
  /\ pc' = [pc EXCEPT ![t] = "idle"]
  /\ lock' = IF lock = t THEN NoThread ELSE lock
  /\ job' = [job EXCEPT ![t] = NoJob]
  /\ finished' = IF job[t].n > finished THEN job[t].n ELSE finished
  /\ settled' = state

\* (mutant of Replace: the temporary file is linked, not renamed)
ReplaceByLink(t) ==
  /\ pc[t] = "write" /\ Written(t)
  /\ tmpFile # 0
  /\ stateFile' = tmpFile
  /\ announced' = IF job[t].n > announced THEN job[t].n ELSE announced
  /\ Leave(t)
  /\ UNCHANGED <<up, crashes, state, tmpFile, content, begun, forgotten>>

\* replace(STATE_PATH), whatever .tmp refers to now, and the payload is
\* returned.
Replace(t) ==
  /\ pc[t] = "write" /\ Written(t)
  /\ tmpFile # 0
  /\ stateFile' = tmpFile
  /\ tmpFile' = 0
  /\ content' = [f \in Inodes |-> IF f = stateFile THEN <<>> ELSE content[f]]
  /\ announced' = IF job[t].n > announced THEN job[t].n ELSE announced
  /\ Leave(t)
  /\ UNCHANGED <<up, crashes, state, begun, forgotten>>

\* (mutant of ReplaceFails: wait for the file instead of raising)
ReplaceWaits(t) ==
  /\ pc[t] = "write" /\ Written(t)
  /\ tmpFile = 0
  /\ UNCHANGED vars

\* The file .tmp has been renamed by another thread: FileNotFoundError.
ReplaceFails(t) ==
  /\ pc[t] = "write" /\ Written(t)
  /\ tmpFile = 0
  /\ Leave(t)
  /\ UNCHANGED <<up, crashes, state, files, begun, announced, forgotten>>

\* open, write or replace raises OSError, as a full disk makes them.
SaveFails(t) ==
  /\ pc[t] \in {"open", "write"}
  /\ Leave(t)
  /\ UNCHANGED <<up, crashes, state, files, begun, announced, forgotten>>

\* The person has been removed since Look: KeyError.
MoveFails(t) ==
  /\ pc[t] = "move"
  /\ job[t].kind = "out" /\ job[t].was /\ job[t].user \notin Inside
  /\ Leave(t)
  /\ UNCHANGED <<up, crashes, state, files, begun, announced, forgotten>>

\* "dictionary changed size during iteration": RuntimeError, which the polling
\* thread takes for a failure of the reader (line 2138).
DumpFails(t) ==
  /\ pc[t] = "write" /\ ~Written(t) /\ ~SizeKept(t)
  /\ Leave(t)
  /\ UNCHANGED <<up, crashes, state, files, begun, announced, forgotten>>

(***************************************************************************)
(* Process                                                                 *)
(***************************************************************************)

\* Memory is lost; the numbers of records in progress are used again.
Crash ==
  /\ up
  /\ crashes < MaxCrashes
  /\ crashes' = crashes + 1
  /\ up' = FALSE
  /\ pc' = [t \in Threads |-> "idle"]
  /\ job' = [t \in Threads |-> NoJob]
  /\ lock' = NoThread
  /\ begun' = finished
  /\ state' = Default
  /\ UNCHANGED <<files, history>>

Load ==
  /\ ~up
  /\ up' = TRUE
  /\ state' = Loaded
  /\ settled' = Loaded
  /\ UNCHANGED <<crashes, lock, pc, job, files, begun, finished, announced, forgotten>>

\* The file is there but cannot be read: a new state, and the file is left for
\* the next save to write over.
LoadUnreadable ==
  /\ ~up /\ stateFile # 0
  /\ up' = TRUE
  /\ state' = Default
  /\ settled' = Default
  /\ forgotten' = finished
  /\ UNCHANGED <<crashes, lock, pc, job, files, begun, finished, announced>>

Init ==
  /\ up = FALSE
  /\ crashes = 0
  /\ state = Default
  /\ lock = NoThread
  /\ pc = [t \in Threads |-> "idle"]
  /\ job = [t \in Threads |-> NoJob]
  /\ tmpFile = 0
  /\ stateFile = 0
  /\ content = [f \in Inodes |-> <<>>]
  /\ begun = 0
  /\ finished = 0
  /\ announced = 0
  /\ forgotten = 0
  /\ settled = Default

Step(t) ==
  \/ Enter(t) \/ Look(t) \/ Move(t) \/ MoveFails(t)
  \/ ReadCount(t) \/ WriteCount(t) \/ WriteNumber(t)
  \/ Open(t) \/ Write(t) \/ DumpFails(t)
  \/ Replace(t) \/ ReplaceFails(t)

Next ==
  \/ \E t \in Threads, u \in Users, kind \in Kinds : Begin(t, u, kind)
  \/ \E t \in Threads : Step(t) \/ SaveFails(t)
  \/ Crash
  \/ Load
  \/ LoadUnreadable

Spec == Init /\ [][Next]_vars

\* The operating system runs every thread.
FairSpec == Spec /\ \A t \in Threads : WF_vars(Step(t))

(***************************************************************************)
(* Properties                                                              *)
(***************************************************************************)

\* The file a restart reads is absent or one complete dump, wherever threads
\* and the end of the process interrupt each other (save_state, app.py:807:
\* "usando escrita atômica").
AtomicSave == stateFile # 0 => Whole(content[stateFile])

\* With every thread under the lock, the interleaved engine, with its partly
\* written files, is the sequential one of Occupancy on a single day: no count
\* is lost, nobody is both first, and no exception but those of the disk.
AsState(s) ==
  [date |-> 0, inside |-> s.inside, first |-> s.first, last |-> s.last,
   entries |-> s.entries, exits |-> s.exits, events |-> s.events,
   lastEvent |-> s.lastEvent, carried |-> 0]

Sequential ==
  INSTANCE Occupancy WITH
    MaxDay <- 0, today <- 0,
    mem <- AsState(settled),
    stored <- stateFile # 0,
    disk <- AsState(Loaded),
    handled <- finished

ImplementsOccupancy == Sequential!Spec

\* A record that was taken up is finished, by a payload, an exception or the
\* end of the process, also when threads without the lock are among them: no
\* exception leaves STATE_LOCK held (line 700).
EveryRecordEnds == \A t \in Threads : pc[t] # "idle" ~> pc[t] = "idle"

(***************************************************************************)
(* The invariants behind these properties                                  *)
(***************************************************************************)
Figures ==
  [inside : UNION {[D -> 0..MaxRecords] : D \in SUBSET Users}, first : Nat, last : Nat,
   entries : Nat, exits : Nat, events : Nat, lastEvent : Nat]

Jobs ==
  [user : Users \cup {NoJob.user}, kind : Kinds, n : Nat, was : BOOLEAN,
   empty : BOOLEAN, seen : Nat, parts : Nat, pos : Nat, file : {0} \cup Inodes]

Typed ==
  /\ state \in Figures /\ settled \in Figures
  /\ job \in [Threads -> Jobs]
  /\ tmpFile \in {0} \cup Inodes /\ stateFile \in {0} \cup Inodes
  /\ content \in [Inodes -> Seq([dump : Nat, parts : Nat, of : Figures])]
  /\ begun \in Nat /\ finished \in Nat /\ announced \in Nat /\ forgotten \in Nat

AtWork(t) == pc[t] \notin {"idle", "waiting"}

\* Records are numbered as they are taken up, the ones that wait get a number
\* within the bound, and a thread has a file only while it writes.
Numbered ==
  /\ begun + Cardinality(Waiting) =< MaxRecords
  /\ \A t \in Threads :
       /\ job[t].n =< begun
       /\ pc[t] # "idle" => job[t].user \in Users
       /\ pc[t] = "write" <=> job[t].file # 0
       /\ pc[t] # "write" => job[t].pos = 0

\* Whatever threads are without the lock.
ThreadsInv == TypeOK /\ Typed /\ Numbered

\* The lock is held by the one thread at work, whose record is the next one.
OneAtATime ==
  /\ \A t \in Threads : AtWork(t) <=> lock = t
  /\ lock = NoThread => begun = finished
  /\ lock # NoThread => begun = finished + 1 /\ job[lock].n = begun
  /\ ~up => \A t \in Threads : pc[t] = "idle"
  /\ up /\ lock = NoThread => state = settled

\* The dict holds what the sequential engine would make of the record at work,
\* as far as the thread has come: first who is inside and the marks of the day,
\* then the passages, then the events.  What it has read is still true.
Target(t) ==
  Sequential!Applied(AsState(settled), job[t].user, job[t].kind, job[t].n)

Movement(s) == <<s.inside, s.first, s.last>>
Passages(s) == <<s.entries, s.exits>>
Events(s) == <<s.events, s.lastEvent>>

InStage(t) ==
  AtWork(t) =>
    /\ Movement(state) = IF pc[t] \in {"look", "move"}
                         THEN Movement(settled) ELSE Movement(Target(t))
    /\ Passages(state) = IF pc[t] \in {"look", "move", "count", "counted"}
                         THEN Passages(settled) ELSE Passages(Target(t))
    /\ Events(state) = IF pc[t] \in {"open", "write"}
                       THEN Events(Target(t)) ELSE Events(settled)
    /\ pc[t] = "move" => /\ job[t].was <=> job[t].user \in Inside
                         /\ job[t].empty <=> Inside = {}
    /\ pc[t] \in {"count", "counted"} => job[t].kind # "none"
    /\ pc[t] = "counted" => job[t].seen = Counter(t)
    /\ pc[t] = "numbered" => job[t].seen = state.events

\* The thread that writes does so to the temporary file, which holds the parts
\* of its dump and nothing else.
SaveInHand(t) ==
  LET j == job[t]
      c == content[tmpFile] IN
  pc[t] = "write" =>
    /\ j.file = tmpFile
    /\ Len(c) = j.pos
    /\ j.pos > 0 => j.parts = Cardinality(Inside) + 1 /\ j.pos =< j.parts
    /\ \A i \in 1..j.pos : c[i].dump = j.n /\ c[i].parts = j.parts
    /\ j.pos > 0 /\ j.pos = j.parts => c[j.pos].of = state

\* With every thread under the lock.
LockedInv ==
  /\ ThreadsInv
  /\ OneAtATime
  /\ \A t \in Threads : InStage(t) /\ SaveInHand(t)
  /\ AtomicSave

=============================================================================
