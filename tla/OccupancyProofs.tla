-------------------------- MODULE OccupancyProofs ---------------------------
(***************************************************************************)
(* Proofs about Occupancy: the daily reset and the handling of a record    *)
(* keep a sound state sound, hence so do all the steps of the engine, for  *)
(* any set of people, any number of days and any number of records.        *)
(***************************************************************************)
EXTENDS Occupancy, FiniteSetTheorems, TLAPS

\* The people inside can be counted.
LEMMA InsideFinite ==
  ASSUME NEW s, IsState(s)
  PROVE  /\ IsFiniteSet(Inside(s))
         /\ Cardinality(Inside(s)) \in Nat
BY OccupancyAssumption, FS_Subset, FS_CardinalityType DEF IsState, Inside

\* A new state is sound.
LEMMA DefaultSound ==
  ASSUME TypeOK
  PROVE  Sound(Default) /\ Default.lastEvent = 0
<1>1. Inside(Default) = {}
  BY DEF Default, Inside, NobodyInside
<1>2. Cardinality(Inside(Default)) = 0
  BY <1>1, FS_EmptySet
<1>3. IsState(Default)
  BY <1>1, OccupancyAssumption DEF Default, IsState, TypeOK, Inside
<1>4. Marked(Default) /\ Chronology(Default)
  BY <1>1 DEF Marked, Chronology, Default
<1>5. Conservation(Default)
  BY <1>2 DEF Conservation, Default
<1> QED
  BY <1>3, <1>4, <1>5 DEF Sound, Default

\* The daily reset keeps a state sound: the people inside become the people
\* carried over, and the marks of the day before are gone.
LEMMA ResetSound ==
  ASSUME TypeOK, NEW s, Sound(s)
  PROVE  Sound(Reset(s)) /\ Reset(s).lastEvent = s.lastEvent
<1>1. CASE s.date = today
  BY <1>1 DEF Reset
<1>2. CASE s.date # today
  <2> DEFINE r == Reset(s)
  <2>1. /\ r = [date |-> today, inside |-> s.inside, first |-> 0, last |-> 0,
                entries |-> 0, exits |-> 0, events |-> 0,
                lastEvent |-> s.lastEvent, carried |-> Cardinality(DOMAIN s.inside)]
        /\ Inside(r) = Inside(s)
    BY <1>2 DEF Reset, Inside
  <2>2. Cardinality(Inside(s)) \in Nat /\ IsState(s)
    BY InsideFinite DEF Sound
  <2>3. IsState(r)
    BY <2>1, <2>2, OccupancyAssumption DEF IsState, TypeOK, Inside
  <2>4. Marked(r)
    BY <2>1, <2>2, OccupancyAssumption DEF IsState, Marked, Sound
  <2>5. Chronology(r)
    <3>1. \A u \in Inside(r) : r.inside[u] >= r.first /\ r.inside[u] > r.last
      BY <2>1, <2>2, OccupancyAssumption DEF IsState, Inside, Records
    <3>2. r.carried = 0 => Inside(r) = {}
      BY <2>1, InsideFinite, FS_EmptySet DEF Sound, Inside
    <3> QED
      BY <2>1, <3>1, <3>2 DEF Chronology
  <2>6. Conservation(r)
    BY <2>1, <2>2 DEF Conservation, Inside
  <2> QED
    BY <2>1, <2>3, <2>4, <2>5, <2>6 DEF Sound
<1> QED
  BY <1>1, <1>2

\* What a record does to the set of people inside.
LEMMA InsideMoves ==
  ASSUME NEW s, IsState(s), NEW u \in Users, NEW kind \in Kinds, NEW n \in Records
  PROVE  /\ kind = "in" => DOMAIN InsideAfter(s, u, kind, n) = Inside(s) \cup {u}
         /\ kind = "out" => DOMAIN InsideAfter(s, u, kind, n) = Inside(s) \ {u}
         /\ kind = "none" => DOMAIN InsideAfter(s, u, kind, n) = Inside(s)
         /\ u \in DOMAIN InsideAfter(s, u, kind, n) \ Inside(s) =>
              InsideAfter(s, u, kind, n)[u] = n
<1>1. CASE kind = "in" /\ u \notin Inside(s)
  BY <1>1 DEF InsideAfter
<1>2. CASE kind = "in" /\ u \in Inside(s)
  BY <1>2 DEF InsideAfter, Inside
<1>3. CASE kind = "out"
  BY <1>3 DEF InsideAfter, Restrict
<1>4. CASE kind = "none"
  BY <1>4 DEF InsideAfter, Inside
<1> QED
  BY <1>1, <1>2, <1>3, <1>4 DEF Kinds

\* It changes no entry that stays.
LEMMA InsideKept ==
  ASSUME NEW s, IsState(s), NEW u \in Users, NEW kind \in Kinds, NEW n \in Records
  PROVE  \A v \in DOMAIN InsideAfter(s, u, kind, n) \cap Inside(s) :
           InsideAfter(s, u, kind, n)[v] = s.inside[v]
<1>1. CASE kind = "in" /\ u \notin Inside(s)
  BY <1>1 DEF InsideAfter
<1>2. CASE kind = "out"
  BY <1>2 DEF InsideAfter, Restrict
<1>3. CASE kind = "none" \/ (kind = "in" /\ u \in Inside(s))
  BY <1>3 DEF InsideAfter
<1> QED
  BY <1>1, <1>2, <1>3 DEF Kinds

\* Whoever is inside before and after a record keeps the entry.
LEMMA EntryKept ==
  ASSUME NEW s, IsState(s), NEW u \in Users, NEW kind \in Kinds, NEW n \in Records,
         NEW t, t = Applied(s, u, kind, n)
  PROVE  \A v \in Inside(s) \cap Inside(t) : t.inside[v] = s.inside[v]
<1>1. t.inside = InsideAfter(s, u, kind, n)
  BY DEF Applied
<1>2. \A v \in DOMAIN InsideAfter(s, u, kind, n) \cap Inside(s) :
        InsideAfter(s, u, kind, n)[v] = s.inside[v]
  BY InsideKept
<1>3. Inside(t) = DOMAIN t.inside
  BY DEF Inside
<1> QED
  BY <1>1, <1>2, <1>3

\* Handling a record that is newer than everything in a sound state keeps it
\* sound.
LEMMA AppliedSound ==
  ASSUME NEW s, Sound(s), NEW u \in Users, NEW kind \in Kinds,
         NEW n \in Records, s.lastEvent < n
  PROVE  Sound(Applied(s, u, kind, n)) /\ Applied(s, u, kind, n).lastEvent = n
<1> DEFINE t == Applied(s, u, kind, n)
<1>1. /\ IsState(s)
      /\ Marked(s) /\ Chronology(s) /\ Conservation(s)
  BY DEF Sound
<1>2. /\ t.date = s.date /\ t.carried = s.carried
      /\ t.first = IF Opens(s, u, kind) THEN n ELSE s.first
      /\ t.last = IF Closes(s, u, kind) THEN n ELSE s.last
      /\ t.entries = IF kind = "in" THEN s.entries + 1 ELSE s.entries
      /\ t.exits = IF kind = "out" THEN s.exits + 1 ELSE s.exits
      /\ t.events = s.events + 1
      /\ t.lastEvent = n
      /\ t.inside = InsideAfter(s, u, kind, n)
      /\ Inside(t) = DOMAIN t.inside
  BY DEF Applied, Inside
<1>3. /\ kind = "in" => Inside(t) = Inside(s) \cup {u}
      /\ kind = "out" => Inside(t) = Inside(s) \ {u}
      /\ kind = "none" => Inside(t) = Inside(s)
      /\ \A v \in Inside(t) \cap Inside(s) : t.inside[v] = s.inside[v]
      /\ u \in Inside(t) \ Inside(s) => t.inside[u] = n
  <2> DEFINE a == InsideAfter(s, u, kind, n)
  <2>1. /\ kind = "in" => DOMAIN a = Inside(s) \cup {u}
        /\ kind = "out" => DOMAIN a = Inside(s) \ {u}
        /\ kind = "none" => DOMAIN a = Inside(s)
        /\ u \in DOMAIN a \ Inside(s) => a[u] = n
    BY <1>1, InsideMoves
  <2>2. \A v \in DOMAIN a \cap Inside(s) : a[v] = s.inside[v]
    BY <1>1, InsideKept
  <2>3. t.inside = a /\ Inside(t) = DOMAIN a
    BY <1>2
  <2> HIDE DEF a, t
  <2> QED
    BY <2>1, <2>2, <2>3
<1>4. /\ n \in Nat /\ s.first \in Nat /\ s.last \in Nat /\ s.lastEvent \in Nat
      /\ \A v \in Inside(s) : s.inside[v] \in Nat
      /\ s.entries \in Nat /\ s.exits \in Nat /\ s.events \in Nat /\ s.carried \in Nat
  BY <1>1, OccupancyAssumption DEF IsState, Inside, Records
<1>5. IsState(t)
  <2>1. t = [date |-> t.date, inside |-> t.inside, first |-> t.first, last |-> t.last,
             entries |-> t.entries, exits |-> t.exits, events |-> t.events,
             lastEvent |-> t.lastEvent, carried |-> t.carried]
    BY DEF Applied
  <2>2. /\ DOMAIN t.inside \subseteq Users
        /\ \A v \in DOMAIN t.inside : t.inside[v] \in Records
    BY <1>1, <1>2, <1>3 DEF IsState, Kinds, Inside
  <2>3. /\ t.first \in 0..MaxRecords /\ t.last \in 0..MaxRecords
        /\ t.lastEvent \in 0..MaxRecords /\ t.date \in 0..MaxDay
    BY <1>1, <1>2, OccupancyAssumption DEF IsState, Records
  <2>4. /\ t.entries \in Nat /\ t.exits \in Nat /\ t.events \in Nat /\ t.carried \in Nat
    BY <1>2, <1>4
  <2> HIDE DEF t
  <2> QED
    BY <2>1, <2>2, <2>3, <2>4 DEF IsState
<1> HIDE DEF t
<1>6. \A v \in Inside(t) : \/ v \in Inside(s) /\ t.inside[v] = s.inside[v]
                           \/ v = u /\ v \notin Inside(s) /\ t.inside[v] = n
  <2>1. Inside(t) \subseteq Inside(s) \cup {u}
    BY <1>3 DEF Kinds
  <2> QED
    BY <1>3, <2>1
<1>7. Marked(t)
  BY <1>1, <1>2, <1>4, <1>6 DEF Marked
<1>8. Chronology(t)
  <2>1. t.first # 0 /\ Inside(t) = {} => t.last > t.first
    <3> SUFFICES ASSUME t.first # 0, Inside(t) = {}
                 PROVE  t.last > t.first
      OBVIOUS
    <3>1. ~Opens(s, u, kind) /\ t.first = s.first
      BY <1>2, <1>3 DEF Opens
    <3>2. CASE Inside(s) = {}
      BY <1>1, <1>2, <3>1, <3>2 DEF Chronology, Closes
    <3>3. CASE Inside(s) # {}
      <4>1. Closes(s, u, kind)
        BY <1>3, <3>3 DEF Closes, Kinds
      <4> QED
        BY <1>1, <1>2, <1>4, <3>1, <4>1 DEF Marked
    <3> QED
      BY <3>2, <3>3
  <2>2. ASSUME NEW v \in Inside(t)
        PROVE  t.inside[v] >= t.first /\ t.inside[v] > t.last
    <3>1. CASE v \in Inside(s) /\ t.inside[v] = s.inside[v]
      <4>1. ~Opens(s, u, kind) /\ ~Closes(s, u, kind)
        BY <1>3, <3>1 DEF Opens, Closes
      <4> QED
        BY <1>1, <1>2, <3>1, <4>1 DEF Chronology
    <3>2. CASE v = u /\ v \notin Inside(s) /\ t.inside[v] = n
      <4>1. ~Closes(s, u, kind)
        BY <3>2 DEF Closes
      <4> QED
        BY <1>1, <1>2, <1>4, <3>2, <4>1 DEF Marked
    <3> QED
      BY <1>6, <3>1, <3>2
  <2>3. t.carried = 0 /\ Inside(t) # {} => t.first # 0
    <3> SUFFICES ASSUME t.carried = 0, Inside(t) # {}
                 PROVE  t.first # 0
      OBVIOUS
    <3>1. CASE Inside(s) # {}
      BY <1>1, <1>2, <1>4, <3>1 DEF Chronology, Opens
    <3>2. CASE Inside(s) = {}
      <4>1. Opens(s, u, kind)
        BY <1>3, <3>2 DEF Opens, Kinds
      <4> QED
        BY <1>2, <1>4, <4>1 DEF Records
    <3> QED
      BY <3>1, <3>2
  <2> QED
    BY <2>1, <2>2, <2>3 DEF Chronology
<1>9. Conservation(t)
  <2>1. IsFiniteSet(Inside(s)) /\ Cardinality(Inside(s)) \in Nat
    BY <1>1, InsideFinite
  <2>2. CASE kind = "in"
    <3>1. Cardinality(Inside(t)) \in {Cardinality(Inside(s)), Cardinality(Inside(s)) + 1}
      BY <1>3, <2>1, <2>2, FS_AddElement
    <3> QED
      BY <1>1, <1>2, <1>4, <2>1, <2>2, <3>1 DEF Conservation
  <2>3. CASE kind = "out"
    <3>1. Cardinality(Inside(t)) \in {Cardinality(Inside(s)), Cardinality(Inside(s)) - 1}
      BY <1>3, <2>1, <2>3, FS_RemoveElement
    <3> QED
      BY <1>1, <1>2, <1>4, <2>1, <2>3, <3>1 DEF Conservation
  <2>4. CASE kind = "none"
    BY <1>1, <1>2, <1>3, <1>4, <2>1, <2>4 DEF Conservation
  <2> QED
    BY <2>2, <2>3, <2>4 DEF Kinds
<1> QED
  BY <1>2, <1>5, <1>7, <1>8, <1>9 DEF Sound, t

\* Nothing stored, nobody inside: the invariant holds at the start.
LEMMA InitInv == Init => OccupancyInv
<1> SUFFICES ASSUME Init PROVE OccupancyInv
  OBVIOUS
<1>1. today \in 0..MaxDay
  BY OccupancyAssumption DEF Init
<1>2. DOMAIN NobodyInside = {}
  BY DEF NobodyInside
<1>3. IsState(Default)
  BY <1>1, <1>2, OccupancyAssumption DEF Default, IsState
<1>4. TypeOK
  <2>1. IsState(mem) /\ IsState(disk)
    BY <1>3 DEF Init
  <2>2. /\ handled \in 0..MaxRecords /\ announced \in 0..MaxRecords
        /\ forgotten \in 0..MaxRecords
    BY OccupancyAssumption DEF Init
  <2>3. up \in BOOLEAN /\ stored \in BOOLEAN
    BY DEF Init
  <2> QED
    BY <1>1, <2>1, <2>2, <2>3 DEF TypeOK
<1>5. Sound(Default) /\ Default.lastEvent = 0
  BY <1>4, DefaultSound
<1> QED
  BY <1>4, <1>5 DEF Init, OccupancyInv, AnnouncedIsSaved

\* What a handled record makes of the state in memory, whether it can be saved
\* or not: a sound state whose last event is that record.
LEMMA HandledSound ==
  ASSUME OccupancyInv, NEW u \in Users, NEW kind \in Kinds, handled + 1 \in Records
  PROVE  LET s == Applied(Reset(mem), u, kind, handled + 1) IN
           Sound(s) /\ s.lastEvent = handled + 1
<1>1. Sound(Reset(mem)) /\ Reset(mem).lastEvent = mem.lastEvent
  BY ResetSound DEF OccupancyInv
<1>2. mem.lastEvent \in Nat /\ mem.lastEvent =< handled /\ handled \in Nat
  BY OccupancyAssumption DEF OccupancyInv, TypeOK, IsState
<1>3. Reset(mem).lastEvent < handled + 1
  BY <1>1, <1>2
<1> QED
  BY <1>1, <1>3, AppliedSound

\* Every step keeps the invariant.
LEMMA NextInv == OccupancyInv /\ [Next]_vars => OccupancyInv'
<1> SUFFICES ASSUME OccupancyInv, [Next]_vars
             PROVE  OccupancyInv'
  OBVIOUS
<1> USE DEF OccupancyInv
<1>0. /\ handled \in 0..MaxRecords /\ announced \in 0..MaxRecords
      /\ forgotten \in 0..MaxRecords
      /\ announced =< handled /\ forgotten =< handled
      /\ disk.lastEvent \in Nat /\ mem.lastEvent \in Nat
      /\ Sound(Reset(mem)) /\ Reset(mem).lastEvent = mem.lastEvent
      /\ Sound(Reset(disk)) /\ Reset(disk).lastEvent = disk.lastEvent
      /\ Sound(Default) /\ Default.lastEvent = 0
  BY ResetSound, DefaultSound, OccupancyAssumption DEF TypeOK, IsState
<1>1. ASSUME NEW u \in Users, NEW kind \in Kinds, HandleSaved(u, kind)
      PROVE  OccupancyInv'
  <2>1. /\ handled + 1 \in Records
        /\ mem' = Applied(Reset(mem), u, kind, handled + 1)
        /\ disk' = mem' /\ stored' = TRUE
        /\ handled' = handled + 1 /\ announced' = handled + 1
        /\ UNCHANGED <<today, up, forgotten>>
    BY <1>1 DEF HandleSaved
  <2>2. Sound(mem') /\ mem'.lastEvent = handled + 1
    BY <2>1, HandledSound
  <2>3. TypeOK'
    BY <2>1, <2>2, OccupancyAssumption DEF TypeOK, Records, Sound
  <2> QED
    BY <1>0, <2>1, <2>2, <2>3 DEF AnnouncedIsSaved
<1>2. ASSUME NEW u \in Users, NEW kind \in Kinds, HandleNotSaved(u, kind)
      PROVE  OccupancyInv'
  <2>1. /\ handled + 1 \in Records
        /\ mem' = Applied(Reset(mem), u, kind, handled + 1)
        /\ \/ UNCHANGED <<disk, stored>>
           \/ disk' = Reset(mem) /\ stored' = TRUE
        /\ handled' = handled + 1
        /\ UNCHANGED <<today, up, announced, forgotten>>
    BY <1>2 DEF HandleNotSaved
  <2>2. Sound(mem') /\ mem'.lastEvent = handled + 1
    BY <2>1, HandledSound
  <2>3. /\ Sound(disk') /\ disk'.lastEvent \in {disk.lastEvent, mem.lastEvent}
        /\ stored' \in BOOLEAN
    BY <1>0, <2>1 DEF TypeOK
  <2>4. TypeOK'
    BY <2>1, <2>2, <2>3, OccupancyAssumption DEF TypeOK, Records, Sound
  <2>5. AnnouncedIsSaved'
    <3>1. up
      BY <1>2 DEF HandleNotSaved
    <3>2. CASE UNCHANGED <<disk, stored>>
      BY <2>1, <3>2 DEF AnnouncedIsSaved
    <3>3. CASE disk' = Reset(mem) /\ stored' = TRUE
      <4>1. /\ disk'.lastEvent = mem.lastEvent
            /\ announced > forgotten => announced =< mem.lastEvent
        BY <1>0, <3>1, <3>3
      <4> QED
        BY <1>0, <2>1, <3>3, <4>1 DEF AnnouncedIsSaved
    <3> QED
      BY <2>1, <3>2, <3>3
  <2> QED
    BY <1>0, <2>1, <2>2, <2>3, <2>4, <2>5
<1>3. CASE ResetNotSaved
  <2>1. /\ handled + 1 \in Records
        /\ mem' = Reset(mem)
        /\ handled' = handled + 1
        /\ UNCHANGED <<today, up, stored, disk, announced, forgotten>>
    BY <1>3 DEF ResetNotSaved
  <2>2. TypeOK'
    BY <1>0, <2>1, OccupancyAssumption DEF TypeOK, Records, Sound
  <2> QED
    BY <1>0, <2>1, <2>2 DEF AnnouncedIsSaved
<1>4. CASE NextDay
  <2>1. TypeOK'
    BY <1>4, OccupancyAssumption DEF NextDay, history, TypeOK
  <2> QED
    BY <1>4, <2>1 DEF NextDay, history, AnnouncedIsSaved
<1>5. CASE Crash
  BY <1>5 DEF Crash, history, TypeOK, AnnouncedIsSaved
<1>6. CASE Load
  <2>1. /\ mem' \in {Reset(disk), Default}
        /\ disk' \in {Reset(disk), disk}
        /\ up' = TRUE
        /\ UNCHANGED <<today, stored, handled, announced, forgotten>>
    BY <1>6 DEF Load, history
  <2>2. TypeOK'
    BY <1>0, <2>1 DEF TypeOK, Sound
  <2>3. Sound(mem') /\ Sound(disk') /\ disk'.lastEvent = disk.lastEvent
    BY <1>0, <2>1
  <2>4. /\ mem'.lastEvent =< handled
        /\ announced > forgotten => announced =< mem'.lastEvent
    BY <1>0, <1>6 DEF Load, AnnouncedIsSaved
  <2>5. AnnouncedIsSaved'
    BY <2>1, <2>3 DEF AnnouncedIsSaved
  <2> QED
    BY <2>1, <2>2, <2>3, <2>4, <2>5
<1>7. CASE LoadAndClear
  <2>1. /\ mem' = Default /\ disk' = Default /\ stored' = TRUE
        /\ up' = TRUE /\ forgotten' = handled
        /\ UNCHANGED <<today, handled, announced>>
    BY <1>7 DEF LoadAndClear
  <2>2. TypeOK'
    BY <1>0, <2>1, OccupancyAssumption DEF TypeOK, Sound
  <2> QED
    BY <1>0, <2>1, <2>2 DEF AnnouncedIsSaved
<1>8. CASE LoadUnreadable
  <2>1. /\ mem' = Default /\ up' = TRUE /\ forgotten' = handled
        /\ UNCHANGED <<today, stored, disk, handled, announced>>
    BY <1>8 DEF LoadUnreadable
  <2>2. TypeOK'
    BY <1>0, <2>1 DEF TypeOK, Sound
  <2> QED
    BY <1>0, <2>1, <2>2 DEF AnnouncedIsSaved
<1>9. CASE UNCHANGED vars
  BY <1>9 DEF vars, history, TypeOK, AnnouncedIsSaved
<1> QED
  BY <1>1, <1>2, <1>3, <1>4, <1>5, <1>6, <1>7, <1>8, <1>9 DEF Next

\* Every reachable state satisfies the invariant of the engine.
THEOREM OccupancyInvariant == Spec => []OccupancyInv
<1> QED
  BY InitInv, NextInv, PTL DEF Spec

\* The variables keep their types.
THEOREM TypeCorrect == Spec => []TypeOK
<1>1. OccupancyInv => TypeOK
  BY DEF OccupancyInv
<1> QED
  BY <1>1, OccupancyInvariant, PTL

\* The daily figures tell one story with the people inside, in memory and in
\* the file, for any number of people, days, records, failed saves and restarts.
THEOREM FiguresSound == Spec => []StateSound
<1>1. OccupancyInv => StateSound
  BY DEF OccupancyInv, Sound, StateSound
<1> QED
  BY <1>1, OccupancyInvariant, PTL

\* An event that was announced is in the file and stays there, across restarts
\* and failed saves, until a start cannot read the file or is asked to clear it
\* (lines 766-777, 2417-2419).
THEOREM AnnouncedSurvives == Spec => []AnnouncedIsSaved
<1>1. OccupancyInv => AnnouncedIsSaved
  BY DEF OccupancyInv
<1> QED
  BY <1>1, OccupancyInvariant, PTL

\* A person inside keeps the time of the entry while the process runs.
THEOREM EntryTimes == Spec => EntryTimeKept
<1> DEFINE Kept == up /\ up' =>
                     \A u \in Inside(mem) \cap Inside(mem') : mem'.inside[u] = mem.inside[u]
<1>1. OccupancyInv /\ [Next]_vars => [Kept]_vars
  <2> SUFFICES ASSUME OccupancyInv, Next, up, up'
               PROVE  \A u \in Inside(mem) \cap Inside(mem') : mem'.inside[u] = mem.inside[u]
    OBVIOUS
  <2>1. Inside(Reset(mem)) = Inside(mem) /\ Reset(mem).inside = mem.inside
    BY DEF Reset, Inside
  <2>2. ASSUME NEW u \in Users, NEW kind \in Kinds,
               handled + 1 \in Records, mem' = Applied(Reset(mem), u, kind, handled + 1)
        PROVE  \A v \in Inside(mem) \cap Inside(mem') : mem'.inside[v] = mem.inside[v]
    <3>1. IsState(Reset(mem))
      BY ResetSound DEF OccupancyInv, Sound
    <3>2. \A v \in Inside(Reset(mem)) \cap Inside(mem') : mem'.inside[v] = Reset(mem).inside[v]
      BY <2>2, <3>1, EntryKept
    <3> QED
      BY <2>1, <3>2
  <2>3. ASSUME NEW u \in Users, NEW kind \in Kinds,
               HandleSaved(u, kind) \/ HandleNotSaved(u, kind)
        PROVE  \A v \in Inside(mem) \cap Inside(mem') : mem'.inside[v] = mem.inside[v]
    BY <2>2, <2>3 DEF HandleSaved, HandleNotSaved
  <2>4. CASE ResetNotSaved
    BY <2>1, <2>4 DEF ResetNotSaved
  <2>5. CASE NextDay \/ Crash
    BY <2>5 DEF NextDay, Crash
  <2>6. CASE Load \/ LoadUnreadable \/ LoadAndClear
    BY <2>6 DEF Load, LoadUnreadable, LoadAndClear
  <2> QED
    BY <2>3, <2>4, <2>5, <2>6 DEF Next
<1> QED
  BY <1>1, OccupancyInvariant, PTL DEF Spec, EntryTimeKept

=============================================================================
