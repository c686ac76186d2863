----------------------------- MODULE Occupancy ------------------------------
(***************************************************************************)
(* The Occupancy Engine (app.py): who is inside the building, the daily    *)
(* figures, and the file they are saved to.  Records are handled one after *)
(* the other here; OccupancyThreads takes handle_authorized_record apart.  *)
(*                                                                         *)
(* A record is known by its number: the engine keeps the number where the  *)
(* code keeps the person's name and the time of the record, and 0 stands   *)
(* for None.                                                               *)
(***************************************************************************)
EXTENDS Naturals, FiniteSets, Functions

CONSTANTS
  Users,         \* enrollid values
  MaxDay,        \* bound: days that pass
  MaxRecords     \* bound: records handled

ASSUME OccupancyAssumption ==
  /\ IsFiniteSet(Users)
  /\ MaxDay \in Nat
  /\ MaxRecords \in Nat

VARIABLES
  today,         \* today_str()
  up,            \* the process runs
  mem,           \* the dict `state` of main
  stored,        \* STATE_PATH exists
  disk,          \* its contents
  handled,       \* records handled so far: number of the last one (history)
  announced,     \* last record whose event was handed to the outputs (history)
  forgotten      \* records no longer promised: up to this number (history)

history == <<handled, announced, forgotten>>
vars == <<today, up, mem, stored, disk, history>>

Kinds == {"in", "out", "none"}      \* passage in, passage out, anything else
Records == 1..MaxRecords
NobodyInside == [u \in {} |-> 0]

\* `carried` is the number of people inside when the day of the state began: it
\* is not in the code, and only the properties read it.
IsState(s) ==
  /\ s = [date |-> s.date, inside |-> s.inside, first |-> s.first, last |-> s.last,
          entries |-> s.entries, exits |-> s.exits, events |-> s.events,
          lastEvent |-> s.lastEvent, carried |-> s.carried]
  /\ s.date \in 0..MaxDay
  /\ DOMAIN s.inside \subseteq Users
  /\ \A u \in DOMAIN s.inside : s.inside[u] \in Records
  /\ s.first \in 0..MaxRecords
  /\ s.last \in 0..MaxRecords
  /\ s.entries \in Nat
  /\ s.exits \in Nat
  /\ s.events \in Nat
  /\ s.lastEvent \in 0..MaxRecords
  /\ s.carried \in Nat

TypeOK ==
  /\ today \in 0..MaxDay
  /\ up \in BOOLEAN
  /\ IsState(mem)
  /\ stored \in BOOLEAN
  /\ IsState(disk)
  /\ handled \in 0..MaxRecords
  /\ announced \in 0..MaxRecords
  /\ forgotten \in 0..MaxRecords

(***************************************************************************)
(* The engine as functions on a state                                      *)
(***************************************************************************)

\* default_state
Default ==
  [date |-> today, inside |-> NobodyInside, first |-> 0, last |-> 0,
   entries |-> 0, exits |-> 0, events |-> 0, lastEvent |-> 0, carried |-> 0]

\* (mutant of Reset: the first entry of the day before is kept)
ResetKeepsMarks(s) ==
  IF s.date = today THEN s
  ELSE [date |-> today, inside |-> s.inside, first |-> s.first, last |-> 0,
        entries |-> 0, exits |-> 0, events |-> 0, lastEvent |-> s.lastEvent,
        carried |-> Cardinality(DOMAIN s.inside)]

\* reset_daily_state_if_needed, without its save: people stay inside.
Reset(s) ==
  IF s.date = today THEN s
  ELSE [date |-> today, inside |-> s.inside, first |-> 0, last |-> 0,
        entries |-> 0, exits |-> 0, events |-> 0, lastEvent |-> s.lastEvent,
        carried |-> Cardinality(DOMAIN s.inside)]

Inside(s) == DOMAIN s.inside
Opens(s, u, kind) == kind = "in" /\ u \notin Inside(s) /\ Inside(s) = {}
Closes(s, u, kind) == kind = "out" /\ Inside(s) = {u}

\* (mutant of InsideAfter: the time of the previous event is stored)
InsideAfterStale(s, u, kind, n) ==
  CASE kind = "in" /\ u \notin Inside(s) ->
         [v \in Inside(s) \cup {u} |-> IF v = u THEN s.lastEvent ELSE s.inside[v]]
    [] kind = "out" -> Restrict(s.inside, Inside(s) \ {u})
    [] OTHER -> s.inside

\* (mutant of InsideAfter: a repeated entry is stored again)
InsideAfterOverwritten(s, u, kind, n) ==
  CASE kind = "in"  -> [v \in Inside(s) \cup {u} |-> IF v = u THEN n ELSE s.inside[v]]
    [] kind = "out" -> Restrict(s.inside, Inside(s) \ {u})
    [] OTHER        -> s.inside

\* A repeated entry keeps the entry it has; an exit without entry removes
\* nobody; a mere authorization moves nobody.
InsideAfter(s, u, kind, n) ==
  CASE kind = "in" /\ u \notin Inside(s) ->
         [v \in Inside(s) \cup {u} |-> IF v = u THEN n ELSE s.inside[v]]
    [] kind = "out" -> Restrict(s.inside, Inside(s) \ {u})
    [] OTHER -> s.inside

\* handle_authorized_record on the state, after the daily reset: record n of
\* user u at a reader of the given kind.
Applied(s, u, kind, n) ==
  [date      |-> s.date,
   inside    |-> InsideAfter(s, u, kind, n),
   first     |-> IF Opens(s, u, kind) THEN n ELSE s.first,
   last      |-> IF Closes(s, u, kind) THEN n ELSE s.last,
   entries   |-> IF kind = "in" THEN s.entries + 1 ELSE s.entries,
   exits     |-> IF kind = "out" THEN s.exits + 1 ELSE s.exits,
   events    |-> s.events + 1,
   lastEvent |-> n,
   carried   |-> s.carried]

(***************************************************************************)
(* Actions                                                                 *)
(***************************************************************************)
NextDay ==
  /\ today < MaxDay
  /\ today' = today + 1
  /\ UNCHANGED <<up, mem, stored, disk, history>>

\* A record is handled and saved; its event goes to the outputs.
HandleSaved(u, kind) ==
  LET n == handled + 1 IN
  /\ up /\ n \in Records
  /\ mem' = Applied(Reset(mem), u, kind, n)
  /\ disk' = mem'
  /\ stored' = TRUE
  /\ handled' = n
  /\ announced' = n
  /\ UNCHANGED <<today, up, forgotten>>

\* (mutant of HandleNotSaved: the OSError of save_state is not raised again)
HandleNotSavedAnnounced(u, kind) ==
  LET n == handled + 1 IN
  /\ up /\ n \in Records
  /\ mem' = Applied(Reset(mem), u, kind, n)
  /\ IF mem.date = today THEN UNCHANGED <<disk, stored>>
                         ELSE disk' = Reset(mem) /\ stored' = TRUE
  /\ handled' = n
  /\ announced' = n
  /\ UNCHANGED <<today, up, forgotten>>

\* The final save_state raises: the change stays in memory, the caller gets no
\* payload and publishes nothing.  The save of the daily reset, if there was
\* one, has succeeded before.
HandleNotSaved(u, kind) ==
  LET n == handled + 1 IN
  /\ up /\ n \in Records
  /\ mem' = Applied(Reset(mem), u, kind, n)
  /\ IF mem.date = today THEN UNCHANGED <<disk, stored>>
                         ELSE disk' = Reset(mem) /\ stored' = TRUE
  /\ handled' = n
  /\ UNCHANGED <<today, up, announced, forgotten>>

\* The save_state of the daily reset raises: the record is not handled at all,
\* the reset stays in memory.
ResetNotSaved ==
  LET n == handled + 1 IN
  /\ up /\ n \in Records
  /\ mem.date # today
  /\ mem' = Reset(mem)
  /\ handled' = n
  /\ UNCHANGED <<today, up, stored, disk, announced, forgotten>>

Crash ==
  /\ up
  /\ up' = FALSE
  /\ UNCHANGED <<today, mem, stored, disk, history>>

\* load_state: a new state if there is no file, the saved one otherwise, reset
\* and saved again if the day has changed.  If that save raises, main ends.
Load ==
  /\ ~up
  /\ up' = TRUE
  /\ mem' = IF stored THEN Reset(disk) ELSE Default
  /\ disk' = IF stored THEN Reset(disk) ELSE disk
  /\ UNCHANGED <<today, stored, history>>

\* load_state when the file cannot be read or holds no JSON object: a new state
\* in memory.  The file stays as it is until the next save writes over it.
LoadUnreadable ==
  /\ ~up /\ stored
  /\ up' = TRUE
  /\ mem' = Default
  /\ forgotten' = handled
  /\ UNCHANGED <<today, stored, disk, handled, announced>>

\* main with reset_occupancy_state_on_start: the operator asks to forget.
LoadAndClear ==
  /\ ~up
  /\ up' = TRUE
  /\ mem' = Default
  /\ disk' = Default
  /\ stored' = TRUE
  /\ forgotten' = handled
  /\ UNCHANGED <<today, handled, announced>>

Init ==
  /\ today = 0
  /\ up = FALSE
  /\ mem = Default
  /\ stored = FALSE
  /\ disk = Default
  /\ handled = 0
  /\ announced = 0
  /\ forgotten = 0

Next ==
  \/ \E u \in Users, kind \in Kinds : HandleSaved(u, kind) \/ HandleNotSaved(u, kind)
  \/ ResetNotSaved
  \/ NextDay
  \/ Crash
  \/ Load
  \/ LoadUnreadable
  \/ LoadAndClear

Spec == Init /\ [][Next]_vars

(***************************************************************************)
(* Properties                                                              *)
(***************************************************************************)

\* The marks of the day and the people inside tell one story, across daily
\* resets, repeated entries, exits without entry and restarts: with a first
\* entry and nobody inside there is a later last exit; whoever is inside came
\* in no earlier than the first entry and after the last exit; and if the day
\* began with an empty building, anybody inside implies a first entry
\* (lines 1346-1368 and 828-847).
Chronology(s) ==
  /\ s.first # 0 /\ Inside(s) = {} => s.last > s.first
  /\ \A u \in Inside(s) : s.inside[u] >= s.first /\ s.inside[u] > s.last
  /\ s.carried = 0 /\ Inside(s) # {} => s.first # 0

\* People do not appear or vanish without being counted: repeated entries and
\* exits without entry may count more, never less, than the people who moved
\* since the day began (lines 1346-1371).
Conservation(s) ==
  /\ Cardinality(Inside(s)) =< s.carried + s.entries
  /\ s.carried =< Cardinality(Inside(s)) + s.exits
  /\ s.entries + s.exits =< s.events

\* Both hold of the state in memory and of the one a restart would load, also
\* when the two differ because a save failed.
StateSound ==
  /\ Chronology(mem) /\ Chronology(disk)
  /\ Conservation(mem) /\ Conservation(disk)

\* What was announced outside is in the file (handle returns its payload only
\* after save_state, lines 1391-1400) and restarts keep it there, whatever they
\* and failed saves do in between; but a start that could not read the file, or
\* was asked to clear it, gives up what was announced before (lines 766-777,
\* 2417-2419).
AnnouncedIsSaved ==
  announced > forgotten => stored /\ disk.lastEvent >= announced

\* Every mark and every entry of a state is of a record it has handled.
Marked(s) ==
  /\ s.first =< s.lastEvent
  /\ s.last =< s.lastEvent
  /\ \A u \in Inside(s) : s.inside[u] =< s.lastEvent

Sound(s) == IsState(s) /\ Marked(s) /\ Chronology(s) /\ Conservation(s)

\* The inductive invariant behind the properties above.
OccupancyInv ==
  /\ TypeOK
  /\ Sound(mem) /\ mem.lastEvent =< handled
  /\ Sound(disk) /\ disk.lastEvent =< handled
  /\ AnnouncedIsSaved
  /\ announced =< handled /\ forgotten =< handled
  /\ up /\ announced > forgotten => announced =< mem.lastEvent

\* While the process runs, a person inside keeps the time of the entry, however
\* often the card is read again (CHANGELOG.md:488; lines 1347-1357).
EntryTimeKept ==
  [][up /\ up' =>
       \A u \in Inside(mem) \cap Inside(mem') : mem'.inside[u] = mem.inside[u]]_vars

\* The first entry of a day is not replaced later that day.
FirstEntryStays ==
  [][up /\ up' /\ mem'.date = mem.date /\ mem.first # 0 => mem'.first = mem.first]_vars

=============================================================================
