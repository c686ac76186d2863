----------------------- MODULE OccupancyThreadsProofs ------------------------
(***************************************************************************)
(* Proofs about OccupancyThreads: its type invariant for any set of        *)
(* threads with and without STATE_LOCK; and, when every thread takes the   *)
(* lock, that one works at a time, that the saved file is always whole,    *)
(* and that the engine is the sequential one of Occupancy.                 *)
(***************************************************************************)
EXTENDS OccupancyThreads, FiniteSetTheorems, TLAPS

\* The theorems of the sequential engine, of the instance it is here.
SequentialTheorems ==
  INSTANCE OccupancyProofs WITH
    MaxDay <- 0, today <- 0,
    mem <- AsState(settled),
    stored <- stateFile # 0,
    disk <- AsState(Loaded),
    handled <- finished

FileParts == [dump : Nat, parts : Nat, of : Figures]

(***************************************************************************)
(* What the model is built from                                            *)
(***************************************************************************)

\* There are two files more than threads (Inodes).
LEMMA InodesFacts ==
  /\ Cardinality(Threads) \in Nat
  /\ IsFiniteSet(Inodes)
  /\ Cardinality(Inodes) = Cardinality(Threads) + 2
  /\ Inodes = 1..Cardinality(Inodes)
  /\ 0 \notin Inodes
<1>1. Cardinality(Threads) \in Nat
  BY FS_CardinalityType, ThreadsAssumption
<1>2. /\ IsFiniteSet(Inodes)
      /\ Cardinality(Inodes) = Cardinality(Threads) + 2
  BY <1>1, FS_Interval DEF Inodes
<1> QED
  BY <1>1, <1>2 DEF Inodes

\* Of any numbers there is a smallest one.
LEMMA SmallestNumber ==
  ASSUME NEW S \in SUBSET Nat, S # {}
  PROVE  \E i \in S : \A j \in S : i =< j
<1> DEFINE R == OpToRel(<, Nat)
<1>1. IsWellFoundedOn(R, Nat)
  BY NatLessThanWellFounded
<1>2. PICK i \in S : \A j \in S : ~(<<j, i>> \in R)
  BY <1>1, WFMin
<1>3. ASSUME NEW j \in S, j < i PROVE FALSE
  <2>1. <<j, i>> \in Nat \X Nat /\ <<j, i>>[1] < <<j, i>>[2]
    BY <1>3
  <2>2. <<j, i>> \in R
    BY <2>1 DEF OpToRel
  <2> QED
    BY <1>2, <2>2
<1>4. ASSUME NEW j \in S PROVE i =< j
  BY <1>3, i \in Nat, j \in Nat
<1> QED
  BY <1>4

\* One element more.
LEMMA OneMore ==
  ASSUME NEW S, NEW x, IsFiniteSet(S)
  PROVE  /\ IsFiniteSet(S \cup {x})
         /\ Cardinality(S \cup {x}) =< Cardinality(S) + 1
         /\ Cardinality(S) \in Nat /\ Cardinality(S \cup {x}) \in Nat
<1>1. IsFiniteSet(S \cup {x})
      /\ Cardinality(S \cup {x}) = IF x \in S THEN Cardinality(S) ELSE Cardinality(S) + 1
  BY FS_AddElement
<1>2. Cardinality(S) \in Nat /\ Cardinality(S \cup {x}) \in Nat
  BY <1>1, FS_CardinalityType
<1> QED
  BY <1>1, <1>2

\* What default_state returns has the type of the dict (line 742).
LEMMA DefaultFigures == Default \in Figures
<1>1. [u \in {} |-> 0] \in [{} -> 0..MaxRecords]
  OBVIOUS
<1>2. [u \in {} |-> 0] \in UNION {[D -> 0..MaxRecords] : D \in SUBSET Users}
  BY <1>1
<1> QED
  BY <1>2 DEF Default, Figures

\* The fields of the dict (line 742).
LEMMA FiguresFacts ==
  ASSUME NEW s \in Figures
  PROVE  /\ s.inside \in [DOMAIN s.inside -> 0..MaxRecords]
         /\ DOMAIN s.inside \subseteq Users
         /\ IsFiniteSet(DOMAIN s.inside)
         /\ Cardinality(DOMAIN s.inside) \in Nat
         /\ s.first \in Nat /\ s.last \in Nat /\ s.entries \in Nat
         /\ s.exits \in Nat /\ s.events \in Nat /\ s.lastEvent \in Nat
<1>1. PICK D \in SUBSET Users : s.inside \in [D -> 0..MaxRecords]
  BY DEF Figures
<1>2. DOMAIN s.inside = D
  BY <1>1
<1>3. IsFiniteSet(D) /\ Cardinality(D) \in Nat
  BY FS_Subset, FS_CardinalityType, ThreadsAssumption
<1> QED
  BY <1>1, <1>2, <1>3 DEF Figures

\* A movement keeps the type of the dict (lines 1348-1366).
LEMMA MovedFigures ==
  ASSUME NEW s \in Figures, NEW j \in Jobs,
         j.n \in 0..MaxRecords, j.user \in Users
  PROVE  Moved(s, j) \in Figures
<1> DEFINE D == DOMAIN s.inside
           E == UNION {[X -> 0..MaxRecords] : X \in SUBSET Users}
<1>1. s.inside \in [D -> 0..MaxRecords] /\ D \subseteq Users
  BY FiguresFacts
<1>2. j.n \in Nat
  BY DEF Jobs
<1>3. CASE j.kind = "in" /\ ~j.was
  <2> DEFINE f == [u \in D \cup {j.user} |-> IF u = j.user THEN j.n ELSE s.inside[u]]
  <2>1. f \in [D \cup {j.user} -> 0..MaxRecords]
    BY <1>1
  <2>2. D \cup {j.user} \in SUBSET Users
    BY <1>1
  <2>3. f \in E
    BY <2>1, <2>2
  <2>4. Moved(s, j) = [s EXCEPT !.inside = f, !.first = IF j.empty THEN j.n ELSE s.first]
    BY <1>3 DEF Moved
  <2>5. (IF j.empty THEN j.n ELSE s.first) \in Nat
    BY <1>2, FiguresFacts DEF Jobs
  <2> HIDE DEF f
  <2> QED
    BY <2>3, <2>4, <2>5 DEF Figures
<1>4. CASE j.kind = "out" /\ j.was
  <2> DEFINE f == Restrict(s.inside, D \ {j.user})
  <2>1. f \in [D \ {j.user} -> 0..MaxRecords]
    BY <1>1 DEF Restrict
  <2>2. D \ {j.user} \in SUBSET Users
    BY <1>1
  <2>3. f \in E
    BY <2>1, <2>2
  <2>4. Moved(s, j) = [s EXCEPT !.inside = f, !.last = IF DOMAIN f = {} THEN j.n ELSE s.last]
    BY <1>4 DEF Moved
  <2>5. (IF DOMAIN f = {} THEN j.n ELSE s.last) \in Nat
    BY <1>2, FiguresFacts
  <2> HIDE DEF f
  <2> QED
    BY <2>3, <2>4, <2>5 DEF Figures
<1>5. CASE ~(j.kind = "in" /\ ~j.was) /\ ~(j.kind = "out" /\ j.was)
  BY <1>5 DEF Moved
<1> QED
  BY <1>3, <1>4, <1>5

\* A write at an offset leaves a sequence of parts (lines 811-817).
LEMMA WriteAtParts ==
  ASSUME NEW c \in Seq(FileParts), NEW i \in Nat \ {0}, NEW part \in FileParts
  PROVE  /\ WriteAt(c, i, part) \in Seq(FileParts)
         /\ Len(WriteAt(c, i, part)) = IF i > Len(c) THEN i ELSE Len(c)
         /\ \A k \in 1..Len(WriteAt(c, i, part)) :
              WriteAt(c, i, part)[k] = IF k = i THEN part ELSE IF k =< Len(c) THEN c[k] ELSE Hole
<1> DEFINE n == IF i > Len(c) THEN i ELSE Len(c)
           w == [k \in 1..n |-> IF k = i THEN part ELSE IF k =< Len(c) THEN c[k] ELSE Hole]
<1>1. WriteAt(c, i, part) = w
  BY DEF WriteAt
<1>2. Hole \in FileParts
  BY DefaultFigures DEF Hole, Part, FileParts
<1>3. n \in Nat
  OBVIOUS
<1>4. \A k \in 1..n : w[k] \in FileParts
  <2> SUFFICES ASSUME NEW k \in 1..n PROVE w[k] \in FileParts
    OBVIOUS
  <2>1. k =< Len(c) => c[k] \in FileParts
    BY <1>3
  <2> QED
    BY <1>2, <2>1
<1>5. w \in [1..n -> FileParts]
  BY <1>4
<1>6. w \in Seq(FileParts) /\ Len(w) = n
  <2> HIDE DEF n, w
  <2> QED
    BY <1>3, <1>5
<1> QED
  BY <1>1, <1>6

\* A file a reader accepts holds figures, and so does what load_state returns
\* (lines 758-778).
LEMMA LoadedFigures ==
  ASSUME Typed
  PROVE  Loaded \in Figures
<1>1. CASE stateFile # 0 /\ Whole(content[stateFile])
  <2>1. stateFile \in Inodes /\ content[stateFile] \in Seq(FileParts)
    BY <1>1 DEF Typed, FileParts
  <2>2. content[stateFile] # <<>>
    BY <1>1 DEF Whole
  <2>3. content[stateFile][Len(content[stateFile])] \in FileParts
    BY <2>1, <2>2
  <2> QED
    BY <1>1, <2>3 DEF Loaded, FileParts
<1>2. CASE ~(stateFile # 0 /\ Whole(content[stateFile]))
  BY <1>2, DefaultFigures DEF Loaded
<1> QED
  BY <1>1, <1>2

(***************************************************************************)
(* The type invariant, with and without the lock                           *)
(***************************************************************************)
Stages == {"idle", "waiting", "look", "move", "count", "counted",
           "number", "numbered", "open", "write"}

\* The empty start: no file, no thread at work.
LEMMA InitThreads == Init => ThreadsInv
<1> SUFFICES ASSUME Init PROVE ThreadsInv
  OBVIOUS
<1>1. NoJob \in Jobs
  BY InodesFacts DEF NoJob, Jobs, Kinds
<1>2. Typed
  <2>1. [f \in Inodes |-> <<>>] \in [Inodes -> Seq(FileParts)]
    OBVIOUS
  <2> QED
    BY <1>1, <2>1, DefaultFigures DEF Init, Typed, FileParts
<1>3. TypeOK
  <2>1. Inside = {}
    BY DEF Init, Inside, Default
  <2>2. 0 \in 0..Cardinality(Inodes) /\ 0 \in 0..MaxRecords /\ 0 \in 0..MaxCrashes
    BY ThreadsAssumption, InodesFacts
  <2>3. \A t \in Threads : job[t].n = 0
    BY DEF Init, NoJob
  <2>4. pc \in [Threads -> Stages] /\ DOMAIN content = Inodes
    BY DEF Init, Stages
  <2>5. up \in BOOLEAN /\ lock \in Threads \cup {NoThread}
    BY DEF Init
  <2>6. /\ crashes = 0 /\ tmpFile = 0 /\ stateFile = 0
        /\ begun = 0 /\ finished = 0 /\ announced = 0 /\ forgotten = 0
    BY DEF Init
  <2> QED
    BY <2>1, <2>2, <2>3, <2>4, <2>5, <2>6 DEF TypeOK, Stages
<1>4. Numbered
  <2>1. Waiting = {}
    BY DEF Init, Waiting
  <2>2. Cardinality(Waiting) = 0
    BY <2>1, FS_EmptySet
  <2> QED
    BY <2>2, ThreadsAssumption DEF Init, Numbered, NoJob
<1> QED
  BY <1>2, <1>3, <1>4 DEF ThreadsInv

\* What the job and the stage of one thread may become without disturbing the
\* numbering, as long as it does not begin or stop waiting for the lock.
LEMMA OneThreadMoves ==
  ASSUME ThreadsInv, NEW t \in Threads, NEW j \in Jobs, NEW p \in Stages,
         job' = [job EXCEPT ![t] = j], pc' = [pc EXCEPT ![t] = p],
         pc[t] # "waiting", p # "waiting", begun' = begun,
         j.n = job[t].n \/ j.n = 0,
         p # "idle" => j.user \in Users,
         p = "write" <=> j.file # 0,
         p # "write" => j.pos = 0
  PROVE  /\ Numbered'
         /\ job' \in [Threads -> Jobs]
         /\ pc' \in [Threads -> Stages]
         /\ \A s \in Threads : job'[s].n \in 0..MaxRecords
<1> USE DEF ThreadsInv
<1>1. job \in [Threads -> Jobs] /\ pc \in [Threads -> Stages] /\ begun \in Nat
  BY DEF Typed, TypeOK, Stages
<1>2. Waiting' = Waiting
  BY <1>1 DEF Waiting
<1>3. j.n \in 0..MaxRecords /\ j.n =< begun
  BY <1>1, ThreadsAssumption DEF TypeOK, Numbered
<1>4. ASSUME NEW s \in Threads
      PROVE  /\ job'[s].n =< begun'
             /\ pc'[s] # "idle" => job'[s].user \in Users
             /\ pc'[s] = "write" <=> job'[s].file # 0
             /\ pc'[s] # "write" => job'[s].pos = 0
             /\ job'[s].n \in 0..MaxRecords
  <2>1. CASE s = t
    BY <1>1, <1>3, <2>1
  <2>2. CASE s # t
    <3>1. job'[s] = job[s] /\ pc'[s] = pc[s]
      BY <1>1, <2>2
    <3> QED
      BY <3>1 DEF Numbered, TypeOK
  <2> QED
    BY <2>1, <2>2
<1>5. Numbered'
  BY <1>2, <1>4 DEF Numbered
<1> QED
  BY <1>1, <1>4, <1>5

\* A record that arrives waits for its turn.
LEMMA BeginThreads ==
  ASSUME ThreadsInv, NEW t \in Threads, NEW u \in Users, NEW kind \in Kinds, Begin(t, u, kind)
  PROVE  ThreadsInv'
<1> USE DEF ThreadsInv
<1>1. job \in [Threads -> Jobs] /\ pc \in [Threads -> Stages] /\ begun \in Nat
  BY DEF Typed, TypeOK, Stages
<1>2. /\ job' = [job EXCEPT ![t] = [job[t] EXCEPT !.user = u, !.kind = kind]]
      /\ pc' = [pc EXCEPT ![t] = "waiting"]
      /\ pc[t] = "idle"
      /\ UNCHANGED <<up, crashes, state, lock, tmpFile, stateFile, content, begun,
                     finished, announced, forgotten, settled>>
  BY <1>1 DEF Begin, files, history
<1>3. [job[t] EXCEPT !.user = u, !.kind = kind] \in Jobs
  BY <1>1 DEF Jobs
<1>4. job' \in [Threads -> Jobs]
  BY <1>1, <1>2, <1>3
<1>5. Typed'
  BY <1>2, <1>4 DEF Typed
<1>6. ASSUME NEW s \in Threads
      PROVE  /\ job'[s].n = job[s].n /\ job'[s].pos = job[s].pos /\ job'[s].file = job[s].file
             /\ s # t => job'[s] = job[s] /\ pc'[s] = pc[s]
             /\ s = t => job'[s].user \in Users /\ pc'[s] = "waiting"
  <2>1. CASE s = t
    BY <1>1, <1>2, <2>1 DEF Jobs
  <2>2. CASE s # t
    BY <1>1, <1>2, <2>2
  <2> QED
    BY <2>1, <2>2
<1>7. TypeOK'
  BY <1>1, <1>2, <1>6 DEF TypeOK, Inside, Stages
<1>8. Numbered'
  <2>1. Waiting' = Waiting \cup {t} /\ t \notin Waiting
    BY <1>1, <1>2 DEF Waiting
  <2>2. IsFiniteSet(Waiting)
    BY FS_Subset, ThreadsAssumption DEF Waiting
  <2>3. Cardinality(Waiting') = Cardinality(Waiting) + 1 /\ Cardinality(Waiting) \in Nat
    BY <2>1, <2>2, FS_AddElement, FS_CardinalityType
  <2>4. begun + Cardinality(Waiting) < MaxRecords
    BY DEF Begin
  <2>5. begun' + Cardinality(Waiting') =< MaxRecords
    BY <1>1, <1>2, <2>3, <2>4, ThreadsAssumption
  <2> QED
    BY <1>2, <1>6, <2>5 DEF Numbered
<1> QED
  BY <1>5, <1>7, <1>8

\* A record is taken up and gets the next number.
LEMMA EnterThreads ==
  ASSUME ThreadsInv, NEW t \in Threads, Enter(t)
  PROVE  ThreadsInv'
<1> USE DEF ThreadsInv
<1>1. job \in [Threads -> Jobs] /\ pc \in [Threads -> Stages] /\ begun \in Nat
  BY DEF Typed, TypeOK, Stages
<1>2. /\ job' = [job EXCEPT ![t] = [job[t] EXCEPT !.n = begun + 1]]
      /\ pc' = [pc EXCEPT ![t] = "look"]
      /\ pc[t] = "waiting"
      /\ begun' = begun + 1
      /\ UNCHANGED <<up, crashes, state, tmpFile, stateFile, content,
                     finished, announced, forgotten, settled>>
  BY <1>1 DEF Enter, files, history
<1>3. [job[t] EXCEPT !.n = begun + 1] \in Jobs
  BY <1>1 DEF Jobs
<1>4. job' \in [Threads -> Jobs]
  BY <1>1, <1>2, <1>3
<1>5. Typed'
  <2>1. begun' \in Nat
    BY <1>1, <1>2
  <2> QED
    BY <1>2, <1>4, <2>1 DEF Typed
<1>6. /\ Cardinality(Waiting') + 1 = Cardinality(Waiting)
      /\ Cardinality(Waiting) \in Nat /\ Cardinality(Waiting') \in Nat
  <2>1. Waiting' = Waiting \ {t} /\ t \in Waiting
    BY <1>1, <1>2 DEF Waiting
  <2>2. IsFiniteSet(Waiting) /\ IsFiniteSet(Waiting')
    BY <2>1, FS_Subset, ThreadsAssumption DEF Waiting
  <2> QED
    BY <2>1, <2>2, FS_RemoveElement, FS_CardinalityType
<1>7. begun' + Cardinality(Waiting') =< MaxRecords
  BY <1>1, <1>2, <1>6, ThreadsAssumption DEF Numbered
<1>8. begun + 1 \in 0..MaxRecords
  BY <1>1, <1>2, <1>6, <1>7, ThreadsAssumption
<1>9. ASSUME NEW s \in Threads
      PROVE  /\ job'[s].n \in 0..MaxRecords /\ job'[s].n =< begun'
             /\ pc'[s] # "idle" => job'[s].user \in Users
             /\ pc'[s] = "write" <=> job'[s].file # 0
             /\ pc'[s] # "write" => job'[s].pos = 0
  <2>1. CASE s = t
    <3>1. /\ job'[s].n = begun + 1 /\ job'[s].user = job[s].user
          /\ job'[s].file = job[s].file /\ job'[s].pos = job[s].pos
          /\ pc'[s] = "look"
      BY <1>1, <1>2, <2>1 DEF Jobs
    <3> QED
      BY <1>1, <1>2, <1>8, <2>1, <3>1 DEF Numbered
  <2>2. CASE s # t
    <3>1. job'[s] = job[s] /\ pc'[s] = pc[s]
      BY <1>1, <1>2, <2>2
    <3>2. job[s].n =< begun /\ job[s].n \in 0..MaxRecords
      BY DEF Numbered, TypeOK
    <3>3. job'[s].n =< begun'
      BY <1>1, <1>2, <3>1, <3>2, ThreadsAssumption
    <3> QED
      BY <3>1, <3>2, <3>3 DEF Numbered
  <2> QED
    BY <2>1, <2>2
<1>10. lock' \in Threads \cup {NoThread}
  BY DEF Enter, TypeOK
<1>11. finished' =< begun'
  BY <1>1, <1>2 DEF Typed, TypeOK
<1>12. TypeOK'
  BY <1>1, <1>2, <1>9, <1>10, <1>11 DEF TypeOK, Inside, Stages
<1> QED
  BY <1>5, <1>7, <1>9, <1>12 DEF Numbered

\* A step of one thread on the dict (lines 1343-1398): the files, the lock and
\* the history stay.
LEMMA OnDictThreads ==
  ASSUME ThreadsInv, NEW t \in Threads,
         Look(t) \/ Move(t) \/ ReadCount(t) \/ WriteCount(t) \/ WriteNumber(t)
  PROVE  ThreadsInv'
<1> USE DEF ThreadsInv
<1>1. /\ job \in [Threads -> Jobs] /\ pc \in [Threads -> Stages] /\ begun \in Nat
      /\ state \in Figures /\ job[t] \in Jobs
      /\ job[t].n \in 0..MaxRecords /\ job[t].n \in Nat /\ job[t].seen \in Nat
  BY DEF Typed, TypeOK, Stages, Jobs
<1>2. /\ pc[t] # "idle" => job[t].user \in Users
      /\ pc[t] # "write" => job[t].file = 0 /\ job[t].pos = 0
  BY DEF Numbered
<1>3. UNCHANGED <<up, crashes, lock, tmpFile, stateFile, content, begun, finished,
                  announced, forgotten, settled>>
  BY DEF Look, Move, ReadCount, WriteCount, WriteNumber, files, history
<1>4. ASSUME NEW j \in Jobs, NEW p \in Stages \ {"idle", "waiting", "write"},
             j.n = job[t].n, j.user = job[t].user, j.file = 0, j.pos = 0,
             pc[t] \notin {"idle", "waiting"},
             job' = [job EXCEPT ![t] = j], pc' = [pc EXCEPT ![t] = p],
             state' \in Figures
      PROVE  ThreadsInv'
  <2>1. /\ Numbered'
        /\ job' \in [Threads -> Jobs]
        /\ pc' \in [Threads -> Stages]
        /\ \A s \in Threads : job'[s].n \in 0..MaxRecords
    BY <1>2, <1>3, <1>4, OneThreadMoves
  <2>2. Inside' \subseteq Users
    BY <1>4, FiguresFacts DEF Inside
  <2>3. Typed'
    BY <1>3, <1>4, <2>1 DEF Typed
  <2>4. TypeOK'
    BY <1>3, <2>1, <2>2 DEF TypeOK, Stages
  <2> QED
    BY <2>1, <2>3, <2>4
<1>5. CASE Look(t)
  <2> DEFINE was == job[t].user \in Inside
             empty == Inside = {}
  <2>1. was \in BOOLEAN /\ empty \in BOOLEAN
    OBVIOUS
  <2>2. /\ job' = [job EXCEPT ![t].was = was, ![t].empty = empty]
        /\ pc' = [pc EXCEPT ![t] = "move"]
    BY <1>5, Zenon DEF Look
  <2> HIDE DEF was, empty
  <2> DEFINE j == [job[t] EXCEPT !.was = was, !.empty = empty]
  <2>3. job' = [job EXCEPT ![t] = j] /\ pc' = [pc EXCEPT ![t] = "move"]
    BY <1>1, <2>2
  <2>4. /\ j \in Jobs /\ j.n = job[t].n /\ j.user = job[t].user
        /\ j.file = job[t].file /\ j.pos = job[t].pos
    BY <1>1, <2>1 DEF Jobs
  <2>5. state' = state /\ pc[t] = "look"
    BY <1>5 DEF Look
  <2> HIDE DEF j
  <2> QED
    BY <1>1, <1>2, <1>4, <2>3, <2>4, <2>5 DEF Stages
<1>6. CASE Move(t)
  <2> DEFINE j == [job[t] EXCEPT !.was = FALSE, !.empty = FALSE]
             p == IF job[t].kind = "none" THEN "number" ELSE "count"
  <2>1. job' = [job EXCEPT ![t] = j] /\ pc' = [pc EXCEPT ![t] = p]
    BY <1>1, <1>6 DEF Move
  <2>2. /\ j \in Jobs /\ j.n = job[t].n /\ j.user = job[t].user
        /\ j.file = job[t].file /\ j.pos = job[t].pos
    BY <1>1 DEF Jobs
  <2>3. state' = Moved(state, job[t]) /\ pc[t] = "move"
    BY <1>6 DEF Move
  <2>4. state' \in Figures
    BY <1>1, <1>2, <2>3, MovedFigures
  <2>5. p \in Stages \ {"idle", "waiting", "write"}
    BY DEF Stages
  <2> HIDE DEF j, p
  <2> QED
    BY <1>1, <1>2, <1>4, <2>1, <2>2, <2>3, <2>4, <2>5
<1>7. CASE ReadCount(t)
  <2> DEFINE v == IF pc[t] = "number" THEN state.events ELSE Counter(t)
             j == [job[t] EXCEPT !.seen = v]
             p == IF pc[t] = "number" THEN "numbered" ELSE "counted"
  <2>1. job' = [job EXCEPT ![t] = j] /\ pc' = [pc EXCEPT ![t] = p]
    BY <1>1, <1>7 DEF ReadCount
  <2>2. v \in Nat
    BY <1>1, FiguresFacts DEF Counter
  <2> HIDE DEF v
  <2>3. /\ j \in Jobs /\ j.n = job[t].n /\ j.user = job[t].user
        /\ j.file = job[t].file /\ j.pos = job[t].pos
    BY <1>1, <2>2 DEF Jobs
  <2>4. state' = state /\ pc[t] \in {"count", "number"}
    BY <1>7 DEF ReadCount
  <2>5. p \in Stages \ {"idle", "waiting", "write"}
    BY DEF Stages
  <2> HIDE DEF j, p
  <2> QED
    BY <1>1, <1>2, <1>4, <2>1, <2>3, <2>4, <2>5
<1>8. ASSUME WriteCount(t) \/ WriteNumber(t)
      PROVE  ThreadsInv'
  <2> DEFINE j == [job[t] EXCEPT !.seen = 0]
  <2>1. /\ job' = [job EXCEPT ![t] = j]
        /\ \/ pc[t] = "counted" /\ pc' = [pc EXCEPT ![t] = "number"]
           \/ pc[t] = "numbered" /\ pc' = [pc EXCEPT ![t] = "open"]
    BY <1>1, <1>8 DEF WriteCount, WriteNumber
  <2>2. /\ j \in Jobs /\ j.n = job[t].n /\ j.user = job[t].user
        /\ j.file = job[t].file /\ j.pos = job[t].pos
    BY <1>1 DEF Jobs
  <2>3. state' \in Figures
    <3>1. job[t].seen + 1 \in Nat
      BY <1>1
    <3>2. CASE WriteCount(t)
      BY <1>1, <3>1, <3>2 DEF WriteCount, Figures
    <3>3. CASE WriteNumber(t)
      BY <1>1, <3>1, <3>3 DEF WriteNumber, Figures
    <3> QED
      BY <1>8, <3>2, <3>3
  <2>4. "number" \in Stages \ {"idle", "waiting", "write"}
        /\ "open" \in Stages \ {"idle", "waiting", "write"}
    BY DEF Stages
  <2> HIDE DEF j
  <2> QED
    BY <1>1, <1>2, <1>4, <2>1, <2>2, <2>3, <2>4
<1> QED
  BY <1>5, <1>6, <1>7, <1>8

\* A file that no thread and no name refers to: there are more files than that.
LEMMA FreeFile ==
  ASSUME ThreadsInv, NEW t \in Threads, pc[t] = "open"
  PROVE  \E i \in Free : \A j \in Free : i =< j
<1> USE DEF ThreadsInv
<1>1. job \in [Threads -> Jobs] /\ job[t].file = 0
  BY DEF Typed, Numbered
<1> DEFINE others == Threads \ {t}
           held == {job[s].file : s \in others}
           f == [s \in others |-> job[s].file]
           taken == (held \cup {tmpFile}) \cup {stateFile}
<1>2. IsFiniteSet(others) /\ Cardinality(others) + 1 = Cardinality(Threads)
      /\ Cardinality(others) \in Nat
  <2>1. IsFiniteSet(others) /\ Cardinality(others) = Cardinality(Threads) - 1
    BY FS_RemoveElement, ThreadsAssumption
  <2>2. Cardinality(others) \in Nat
    BY <2>1, FS_CardinalityType
  <2> QED
    BY <2>1, <2>2, InodesFacts
<1>3. IsFiniteSet(held) /\ Cardinality(held) =< Cardinality(others)
  <2>1. f \in [others -> held] /\ \A x \in held : \E s \in others : f[s] = x
    OBVIOUS
  <2>2. f \in Surjection(others, held)
    BY <2>1 DEF Surjection
  <2> HIDE DEF f, held, others
  <2> QED
    BY <1>2, <2>2, FS_Surjection
<1>4. IsFiniteSet(taken) /\ Cardinality(taken) =< Cardinality(others) + 2
      /\ Cardinality(taken) \in Nat
  <2> HIDE DEF held, others
  <2>1. /\ IsFiniteSet(held \cup {tmpFile})
        /\ Cardinality(held \cup {tmpFile}) =< Cardinality(held) + 1
        /\ Cardinality(held) \in Nat /\ Cardinality(held \cup {tmpFile}) \in Nat
    BY <1>3, OneMore
  <2>2. /\ IsFiniteSet(taken)
        /\ Cardinality(taken) =< Cardinality(held \cup {tmpFile}) + 1
        /\ Cardinality(taken) \in Nat
    BY <2>1, OneMore
  <2> HIDE DEF taken
  <2> QED
    BY <1>2, <1>3, <2>1, <2>2
<1>5. \E i \in Inodes : i \notin taken
  <2> SUFFICES ASSUME Inodes \subseteq taken PROVE FALSE
    OBVIOUS
  <2>1. Cardinality(Inodes) =< Cardinality(taken)
    <3> HIDE DEF taken
    <3> QED
      BY <1>4, FS_Subset
  <2> HIDE DEF taken, others
  <2> QED
    BY <1>2, <1>4, <2>1, InodesFacts
<1>6. Free \subseteq Nat /\ Free # {}
  <2>1. PICK i \in Inodes : i \notin taken
    BY <1>5
  <2>2. i # 0
    BY InodesFacts
  <2>3. i \in Free
    BY <1>1, <2>1, <2>2 DEF Free, Busy
  <2> QED
    BY <2>3, InodesFacts DEF Free
<1> HIDE DEF taken, held, others, f
<1> QED
  BY <1>6, SmallestNumber

\* open("w") gives a file that is not the state file (line 811).
LEMMA OpenedFile ==
  ASSUME ThreadsInv, NEW t \in Threads, Open(t)
  PROVE  \E f \in Inodes :
           /\ f # stateFile
           /\ tmpFile' = f
           /\ content' = [content EXCEPT ![f] = <<>>]
           /\ job' = [job EXCEPT ![t] = [job[t] EXCEPT !.file = f]]
<1> USE DEF ThreadsInv
<1> DEFINE free == CHOOSE i \in Free : \A j \in Free : i =< j
           f == IF tmpFile # 0 THEN tmpFile ELSE free
<1>1. job \in [Threads -> Jobs]
  BY DEF Typed
<1>2. f \in Inodes /\ f # stateFile
  <2>1. CASE tmpFile # 0
    BY <2>1 DEF Typed, TypeOK
  <2>2. CASE tmpFile = 0
    <3>1. pc[t] = "open"
      BY DEF Open
    <3>2. free \in Free
      BY <3>1, FreeFile
    <3> HIDE DEF free
    <3> QED
      BY <2>2, <3>2 DEF Free
  <2> QED
    BY <2>1, <2>2
<1>3. /\ tmpFile' = f
      /\ content' = [content EXCEPT ![f] = <<>>]
      /\ job' = [job EXCEPT ![t].file = f]
  BY DEF Open
<1> HIDE DEF f
<1>4. job' = [job EXCEPT ![t] = [job[t] EXCEPT !.file = f]]
  BY <1>1, <1>3
<1> QED
  BY <1>2, <1>3, <1>4

LEMMA OpenThreads ==
  ASSUME ThreadsInv, NEW t \in Threads, Open(t)
  PROVE  ThreadsInv'
<1> USE DEF ThreadsInv
<1>1. PICK f \in Inodes :
        /\ f # stateFile
        /\ tmpFile' = f
        /\ content' = [content EXCEPT ![f] = <<>>]
        /\ job' = [job EXCEPT ![t] = [job[t] EXCEPT !.file = f]]
  BY OpenedFile
<1>2. job[t] \in Jobs
  BY DEF Typed
<1> DEFINE j == [job[t] EXCEPT !.file = f]
<1>3. /\ j \in Jobs /\ j.n = job[t].n /\ j.user = job[t].user
      /\ j.file = f /\ j.pos = job[t].pos
  BY <1>2 DEF Jobs
<1>4. /\ pc[t] = "open" /\ pc' = [pc EXCEPT ![t] = "write"]
      /\ UNCHANGED <<up, crashes, state, lock, stateFile, begun, finished, announced,
                     forgotten, settled>>
  BY DEF Open, history
<1>5. job[t].user \in Users
  BY <1>4 DEF Numbered
<1>6. job' = [job EXCEPT ![t] = j]
  BY <1>1
<1> HIDE DEF j
<1>7. f # 0 /\ f \in 0..Cardinality(Inodes)
  BY InodesFacts
<1>8. /\ Numbered'
      /\ job' \in [Threads -> Jobs]
      /\ pc' \in [Threads -> Stages]
      /\ \A s \in Threads : job'[s].n \in 0..MaxRecords
  BY <1>3, <1>4, <1>5, <1>6, <1>7, OneThreadMoves DEF Stages
<1>9. content' \in [Inodes -> Seq(FileParts)]
  <2>1. content \in [Inodes -> Seq(FileParts)]
    BY DEF Typed, FileParts
  <2>2. <<>> \in Seq(FileParts)
    OBVIOUS
  <2> QED
    BY <1>1, <2>1, <2>2
<1>10. Typed'
  BY <1>1, <1>4, <1>8, <1>9 DEF Typed, FileParts
<1>11. TypeOK'
  <2>1. DOMAIN content' = Inodes
    BY <1>9
  <2> QED
    BY <1>1, <1>4, <1>7, <1>8, <2>1 DEF TypeOK, Stages, Inside
<1> QED
  BY <1>8, <1>10, <1>11

\* json.dump writes a part at the place the thread has reached in its file.
LEMMA WrittenPart ==
  ASSUME ThreadsInv, NEW t \in Threads, Write(t)
  PROVE  \E k \in Nat, part \in FileParts :
           /\ k = IF job[t].pos = 0 THEN Cardinality(Inside) + 1 ELSE job[t].parts
           /\ part = Part(job[t].n, k, IF job[t].pos + 1 = k THEN state ELSE Default)
           /\ content' = [content EXCEPT ![job[t].file] =
                            WriteAt(content[job[t].file], job[t].pos + 1, part)]
           /\ job' = [job EXCEPT ![t] = [job[t] EXCEPT !.pos = job[t].pos + 1, !.parts = k]]
<1> USE DEF ThreadsInv
<1> DEFINE k == IF job[t].pos = 0 THEN Cardinality(Inside) + 1 ELSE job[t].parts
           of == IF job[t].pos + 1 = k THEN state ELSE Default
           part == Part(job[t].n, k, of)
<1>1. job \in [Threads -> Jobs] /\ job[t] \in Jobs /\ state \in Figures
  BY DEF Typed
<1>2. k \in Nat
  BY <1>1, FiguresFacts DEF Inside, Jobs
<1>3. of \in Figures
  BY <1>1, DefaultFigures
<1>4. /\ content' = [content EXCEPT ![job[t].file] = WriteAt(@, job[t].pos + 1, part)]
      /\ job' = [job EXCEPT ![t].pos = job[t].pos + 1, ![t].parts = k]
  BY DEF Write
<1> HIDE DEF k, of
<1>5. part \in FileParts
  BY <1>1, <1>2, <1>3 DEF Part, FileParts, Jobs
<1>6. job' = [job EXCEPT ![t] = [job[t] EXCEPT !.pos = job[t].pos + 1, !.parts = k]]
  BY <1>1, <1>4
<1>7. content' = [content EXCEPT ![job[t].file] =
                    WriteAt(content[job[t].file], job[t].pos + 1, part)]
  BY <1>4 DEF Typed
<1> QED
  BY <1>2, <1>5, <1>6, <1>7 DEF k, of

LEMMA WriteThreads ==
  ASSUME ThreadsInv, NEW t \in Threads, Write(t)
  PROVE  ThreadsInv'
<1> USE DEF ThreadsInv
<1>1. PICK k \in Nat, part \in FileParts :
        /\ content' = [content EXCEPT ![job[t].file] =
                         WriteAt(content[job[t].file], job[t].pos + 1, part)]
        /\ job' = [job EXCEPT ![t] = [job[t] EXCEPT !.pos = job[t].pos + 1, !.parts = k]]
  BY WrittenPart
<1>2. job[t] \in Jobs /\ job[t].pos + 1 \in Nat \ {0}
  BY DEF Typed, Jobs
<1> DEFINE j == [job[t] EXCEPT !.pos = job[t].pos + 1, !.parts = k]
<1>3. /\ j \in Jobs /\ j.n = job[t].n /\ j.user = job[t].user /\ j.file = job[t].file
  BY <1>2 DEF Jobs
<1>4. /\ pc[t] = "write"
      /\ UNCHANGED <<up, crashes, state, lock, pc, tmpFile, stateFile, begun, finished,
                     announced, forgotten, settled>>
  BY DEF Write, history
<1>5. job[t].user \in Users /\ job[t].file # 0
  BY <1>4 DEF Numbered
<1>6. job' = [job EXCEPT ![t] = j]
  BY <1>1
<1> HIDE DEF j
<1>7. pc \in [Threads -> Stages] /\ pc' = [pc EXCEPT ![t] = "write"]
  BY <1>4 DEF TypeOK, Stages
<1>8. /\ Numbered'
      /\ job' \in [Threads -> Jobs]
      /\ pc' \in [Threads -> Stages]
      /\ \A s \in Threads : job'[s].n \in 0..MaxRecords
  BY <1>3, <1>4, <1>5, <1>6, <1>7, OneThreadMoves DEF Stages
<1>9. content' \in [Inodes -> Seq(FileParts)]
  <2>1. job[t].file \in Inodes
    BY <1>2, <1>5 DEF Jobs
  <2>2. content[job[t].file] \in Seq(FileParts)
    BY <2>1 DEF Typed, FileParts
  <2>3. WriteAt(content[job[t].file], job[t].pos + 1, part) \in Seq(FileParts)
    BY <1>2, <2>2, WriteAtParts
  <2> QED
    BY <1>1, <2>3 DEF Typed, FileParts
<1>10. Typed'
  BY <1>4, <1>8, <1>9 DEF Typed, FileParts
<1>11. TypeOK'
  <2>1. DOMAIN content' = Inodes
    BY <1>9
  <2> QED
    BY <1>4, <1>8, <2>1 DEF TypeOK, Stages, Inside
<1> QED
  BY <1>8, <1>10, <1>11

\* A thread leaves the engine, after its save or by an exception.
LEMMA LeaveThreads ==
  ASSUME ThreadsInv, NEW t \in Threads,
         Replace(t) \/ ReplaceFails(t) \/ SaveFails(t) \/ MoveFails(t) \/ DumpFails(t)
  PROVE  ThreadsInv'
<1> USE DEF ThreadsInv
<1>1. /\ job \in [Threads -> Jobs] /\ pc \in [Threads -> Stages] /\ begun \in Nat
      /\ finished \in Nat /\ announced \in Nat /\ finished =< begun /\ announced =< finished
      /\ forgotten \in Nat /\ forgotten =< finished
      /\ job[t].n \in Nat /\ job[t].n =< begun
  BY DEF Typed, TypeOK, Stages, Numbered, Jobs
<1>2. /\ pc[t] \notin {"idle", "waiting"}
      /\ Leave(t)
      /\ UNCHANGED <<up, crashes, state, begun, forgotten>>
  BY DEF Replace, ReplaceFails, SaveFails, MoveFails, DumpFails
<1>3. /\ pc' = [pc EXCEPT ![t] = "idle"]
      /\ job' = [job EXCEPT ![t] = NoJob]
      /\ settled' = state
      /\ lock' = IF lock = t THEN NoThread ELSE lock
      /\ finished' = IF job[t].n > finished THEN job[t].n ELSE finished
  BY <1>2 DEF Leave
<1>4. NoJob \in Jobs /\ NoJob.n = 0 /\ NoJob.pos = 0 /\ NoJob.file = 0
  BY InodesFacts DEF NoJob, Jobs, Kinds
<1>5. /\ Numbered'
      /\ job' \in [Threads -> Jobs]
      /\ pc' \in [Threads -> Stages]
      /\ \A s \in Threads : job'[s].n \in 0..MaxRecords
  BY <1>2, <1>3, <1>4, OneThreadMoves DEF Stages
<1>6. \/ /\ pc[t] = "write" /\ tmpFile # 0
         /\ tmpFile' = 0 /\ stateFile' = tmpFile
         /\ content' = [f \in Inodes |-> IF f = stateFile THEN <<>> ELSE content[f]]
         /\ announced' = IF job[t].n > announced THEN job[t].n ELSE announced
      \/ UNCHANGED <<tmpFile, stateFile, content, announced>>
  BY DEF Replace, ReplaceFails, SaveFails, MoveFails, DumpFails, files
<1>7. /\ tmpFile' \in {0} \cup Inodes /\ stateFile' \in {0} \cup Inodes
      /\ tmpFile' \in 0..Cardinality(Inodes) /\ stateFile' \in 0..Cardinality(Inodes)
      /\ stateFile' = tmpFile' => stateFile' = 0
  BY <1>6, InodesFacts DEF Typed, TypeOK
<1>8. content' \in [Inodes -> Seq(FileParts)]
  <2>1. content \in [Inodes -> Seq(FileParts)]
    BY DEF Typed, FileParts
  <2>2. <<>> \in Seq(FileParts)
    OBVIOUS
  <2> QED
    BY <1>6, <2>1, <2>2
<1>9. /\ finished' \in Nat /\ announced' \in Nat /\ forgotten' \in Nat
      /\ finished' =< begun' /\ announced' =< finished' /\ forgotten' =< finished'
  BY <1>1, <1>2, <1>3, <1>6
<1>10. Typed'
  BY <1>2, <1>3, <1>5, <1>7, <1>8, <1>9 DEF Typed, FileParts
<1>11. TypeOK'
  <2>1. DOMAIN content' = Inodes
    BY <1>8
  <2>2. lock' \in Threads \cup {NoThread}
    BY <1>3 DEF TypeOK
  <2> QED
    BY <1>2, <1>5, <1>7, <1>9, <2>1, <2>2 DEF TypeOK, Stages, Inside
<1> QED
  BY <1>5, <1>10, <1>11

\* The process ends.
LEMMA CrashThreads ==
  ASSUME ThreadsInv, Crash
  PROVE  ThreadsInv'
<1> USE DEF ThreadsInv
<1>1. /\ up' = FALSE /\ crashes < MaxCrashes /\ crashes' = crashes + 1
      /\ pc' = [s \in Threads |-> "idle"] /\ job' = [s \in Threads |-> NoJob]
      /\ lock' = NoThread /\ begun' = finished /\ state' = Default
      /\ UNCHANGED <<tmpFile, stateFile, content, finished, announced, forgotten,
                     settled>>
  BY DEF Crash, files, history
<1>2. NoJob \in Jobs /\ NoJob.n = 0 /\ NoJob.pos = 0 /\ NoJob.file = 0
  BY InodesFacts DEF NoJob, Jobs, Kinds
<1>3. Typed'
  BY <1>1, <1>2, DefaultFigures DEF Typed
<1>4. TypeOK'
  <2>1. Inside' = {}
    BY <1>1 DEF Inside, Default
  <2>2. crashes' \in 0..MaxCrashes
    BY <1>1, ThreadsAssumption DEF TypeOK
  <2>3. \A s \in Threads : job'[s].n \in 0..MaxRecords
    BY <1>1, <1>2, ThreadsAssumption
  <2>4. up' \in BOOLEAN /\ lock' \in Threads \cup {NoThread} /\ pc' \in [Threads -> Stages]
    BY <1>1 DEF Stages
  <2>5. finished' =< begun' /\ announced' =< finished' /\ forgotten' =< finished'
    BY <1>1 DEF TypeOK, Typed
  <2> QED
    BY <1>1, <2>1, <2>2, <2>3, <2>4, <2>5 DEF TypeOK, Stages
<1>5. Numbered'
  <2>1. Waiting' = {}
    BY <1>1 DEF Waiting
  <2>2. Cardinality(Waiting') = 0
    BY <2>1, FS_EmptySet
  <2>3. IsFiniteSet(Waiting)
    BY FS_Subset, ThreadsAssumption DEF Waiting
  <2>4. Cardinality(Waiting) \in Nat
    BY <2>3, FS_CardinalityType
  <2>5. begun' + Cardinality(Waiting') =< MaxRecords
    BY <1>1, <2>2, <2>4, ThreadsAssumption DEF Typed, TypeOK, Numbered
  <2> QED
    BY <1>1, <1>2, <2>5 DEF Numbered, Typed
<1> QED
  BY <1>3, <1>4, <1>5

\* The process starts and reads the file.
LEMMA LoadThreads ==
  ASSUME ThreadsInv, Load
  PROVE  ThreadsInv'
<1> USE DEF ThreadsInv
<1>1. /\ up' = TRUE /\ state' = Loaded /\ settled' = Loaded
      /\ UNCHANGED <<crashes, lock, pc, job, tmpFile, stateFile, content, begun,
                     finished, announced, forgotten>>
  BY DEF Load, files
<1>2. Loaded \in Figures
  BY LoadedFigures
<1>3. Typed'
  BY <1>1, <1>2 DEF Typed
<1>4. Inside' \subseteq Users
  BY <1>1, <1>2, FiguresFacts DEF Inside
<1>5. TypeOK'
  BY <1>1, <1>4 DEF TypeOK
<1>6. Numbered'
  BY <1>1 DEF Numbered, Waiting
<1> QED
  BY <1>3, <1>5, <1>6

\* The process starts and cannot read it.
LEMMA LoadUnreadableThreads ==
  ASSUME ThreadsInv, LoadUnreadable
  PROVE  ThreadsInv'
<1> USE DEF ThreadsInv
<1>1. /\ up' = TRUE /\ state' = Default /\ settled' = Default /\ forgotten' = finished
      /\ UNCHANGED <<crashes, lock, pc, job, tmpFile, stateFile, content, begun,
                     finished, announced>>
  BY DEF LoadUnreadable, files
<1>2. Typed'
  BY <1>1, DefaultFigures DEF Typed
<1>3. Inside' = {}
  BY <1>1 DEF Inside, Default
<1>4. forgotten' =< finished'
  BY <1>1 DEF Typed
<1>5. TypeOK'
  BY <1>1, <1>3, <1>4 DEF TypeOK
<1>6. Numbered'
  BY <1>1 DEF Numbered, Waiting
<1> QED
  BY <1>2, <1>5, <1>6

LEMMA StepThreads == ThreadsInv /\ [Next]_vars => ThreadsInv'
<1> SUFFICES ASSUME ThreadsInv, [Next]_vars PROVE ThreadsInv'
  OBVIOUS
<1>1. CASE \E t \in Threads, u \in Users, kind \in Kinds : Begin(t, u, kind)
  BY <1>1, BeginThreads
<1>2. CASE \E t \in Threads : Step(t) \/ SaveFails(t)
  BY <1>2, EnterThreads, OnDictThreads, OpenThreads, WriteThreads, LeaveThreads DEF Step
<1>3. CASE Crash
  BY <1>3, CrashThreads
<1>4. CASE Load
  BY <1>4, LoadThreads
<1>5. CASE LoadUnreadable
  BY <1>5, LoadUnreadableThreads
<1>6. CASE UNCHANGED vars
  BY <1>6 DEF vars, files, history, ThreadsInv, TypeOK, Typed, Numbered, Inside, Waiting
<1> QED
  BY <1>1, <1>2, <1>3, <1>4, <1>5, <1>6 DEF Next

\* The invariant of the engine under any threads, with and without STATE_LOCK:
\* the dict, the files and the numbers of the records keep their types.
THEOREM ThreadsInvariant == Spec => []ThreadsInv
BY InitThreads, StepThreads, PTL DEF Spec

\* TypeOK of OccupancyThreads, also with the polling thread outside the lock
\* (app.py:2088): the dict stays well-formed whatever the threads do to each
\* other, and the temporary file is never the state file.
THEOREM ThreadsTypeCorrect == Spec => []TypeOK
<1>1. ThreadsInv => TypeOK
  BY DEF ThreadsInv
<1> QED
  BY <1>1, ThreadsInvariant, PTL

(***************************************************************************)
(* Every thread under the lock                                             *)
(***************************************************************************)

\* What a movement decided by a true Look makes of the dict is what the
\* sequential engine makes of it (lines 1348-1366).
LEMMA MovedAsApplied ==
  ASSUME NEW s \in Figures, NEW j \in Jobs,
         j.was <=> j.user \in DOMAIN s.inside,
         j.empty <=> DOMAIN s.inside = {}
  PROVE  LET a == Sequential!Applied(AsState(s), j.user, j.kind, j.n) IN
         /\ Movement(Moved(s, j)) = Movement(a)
         /\ Passages(Moved(s, j)) = Passages(s)
         /\ Events(Moved(s, j)) = Events(s)
<1> DEFINE D == DOMAIN s.inside
           a == Sequential!Applied(AsState(s), j.user, j.kind, j.n)
<1> SUFFICES /\ Movement(Moved(s, j)) = Movement(a)
             /\ Passages(Moved(s, j)) = Passages(s)
             /\ Events(Moved(s, j)) = Events(s)
  OBVIOUS
<1>1. s.inside = [u \in D |-> s.inside[u]]
  BY FiguresFacts
<1>2. /\ a.inside = Sequential!InsideAfter(AsState(s), j.user, j.kind, j.n)
      /\ a.first = IF Sequential!Opens(AsState(s), j.user, j.kind) THEN j.n ELSE s.first
      /\ a.last = IF Sequential!Closes(AsState(s), j.user, j.kind) THEN j.n ELSE s.last
      /\ AsState(s).inside = s.inside
  BY DEF Sequential!Applied, AsState
<1> HIDE DEF a
<1>3. CASE j.kind = "in" /\ ~j.was
  <2>1. Moved(s, j) = [s EXCEPT
          !.inside = [u \in D \cup {j.user} |-> IF u = j.user THEN j.n ELSE s.inside[u]],
          !.first = IF j.empty THEN j.n ELSE s.first]
    BY <1>3 DEF Moved
  <2>2. a.inside = [u \in D \cup {j.user} |-> IF u = j.user THEN j.n ELSE s.inside[u]]
    BY <1>2, <1>3 DEF Sequential!InsideAfter, Sequential!Inside
  <2>3. a.first = (IF j.empty THEN j.n ELSE s.first) /\ a.last = s.last
    BY <1>2, <1>3 DEF Sequential!Opens, Sequential!Closes, Sequential!Inside
  <2> QED
    BY <2>1, <2>2, <2>3 DEF Movement, Passages, Events, Figures
<1>4. CASE j.kind = "out" /\ j.was
  <2> DEFINE left == Restrict(s.inside, D \ {j.user})
  <2>1. Moved(s, j) = [s EXCEPT !.inside = left,
                                !.last = IF DOMAIN left = {} THEN j.n ELSE s.last]
    BY <1>4 DEF Moved
  <2>2. a.inside = left
    BY <1>2, <1>4 DEF Sequential!InsideAfter, Sequential!Inside, Sequential!Restrict, Restrict
  <2>3. DOMAIN left = {} <=> D = {j.user}
    BY <1>4 DEF Restrict
  <2>4. a.last = (IF DOMAIN left = {} THEN j.n ELSE s.last) /\ a.first = s.first
    BY <1>2, <1>4, <2>3 DEF Sequential!Opens, Sequential!Closes, Sequential!Inside
  <2> HIDE DEF left
  <2> QED
    BY <2>1, <2>2, <2>4 DEF Movement, Passages, Events, Figures
<1>5. CASE ~(j.kind = "in" /\ ~j.was) /\ ~(j.kind = "out" /\ j.was)
  <2>1. Moved(s, j) = s
    BY <1>5 DEF Moved
  <2>2. a.inside = s.inside
    <3>1. CASE j.kind = "out"
      <4>1. D \ {j.user} = D
        BY <1>5, <3>1
      <4> QED
        BY <1>1, <1>2, <1>5, <3>1, <4>1
        DEF Sequential!InsideAfter, Sequential!Inside, Sequential!Restrict
    <3>2. CASE j.kind # "out"
      BY <1>2, <1>5, <3>2 DEF Sequential!InsideAfter, Sequential!Inside
    <3> QED
      BY <3>1, <3>2
  <2>3. a.first = s.first /\ a.last = s.last
    BY <1>2, <1>5 DEF Sequential!Opens, Sequential!Closes, Sequential!Inside
  <2> QED
    BY <2>1, <2>2, <2>3 DEF Movement
<1> QED
  BY <1>3, <1>4, <1>5

\* The figures the sequential engine has after a record, apart from the
\* movement: one passage or none, one event (lines 1370-1398).
LEMMA TargetFigures ==
  ASSUME NEW t
  PROVE  /\ Target(t).entries = IF job[t].kind = "in" THEN settled.entries + 1
                                                      ELSE settled.entries
         /\ Target(t).exits = IF job[t].kind = "out" THEN settled.exits + 1
                                                     ELSE settled.exits
         /\ Events(Target(t)) = <<settled.events + 1, job[t].n>>
         /\ Target(t).date = 0 /\ Target(t).carried = 0
BY DEF Target, Sequential!Applied, AsState, Events

\* While a thread is at work the others are idle or wait for the lock, and
\* what is said of threads at work says nothing of them.
LEMMA OthersOut ==
  ASSUME LockedInv, NEW t \in Threads, AtWork(t), NEW s \in Threads, s # t, pc'[s] = pc[s]
  PROVE  ~AtWork(s) /\ InStage(s)' /\ SaveInHand(s)'
<1>1. ~AtWork(s)
  BY DEF LockedInv, OneAtATime
<1> QED
  BY <1>1 DEF AtWork, InStage, SaveInHand

\* No thread meets another in the engine: nobody removes the person that was
\* seen inside, changes the dict under the dump or renames the temporary file.
LEMMA NoSurprise ==
  ASSUME LockedInv, NEW t \in Threads
  PROVE  ~MoveFails(t) /\ ~DumpFails(t) /\ ~ReplaceFails(t)
<1>1. ~MoveFails(t)
  BY DEF LockedInv, InStage, AtWork, MoveFails
<1>2. ~DumpFails(t)
  BY DEF LockedInv, SaveInHand, DumpFails, SizeKept
<1>3. ~ReplaceFails(t)
  BY DEF LockedInv, ThreadsInv, Numbered, SaveInHand, ReplaceFails
<1> QED
  BY <1>1, <1>2, <1>3

LEMMA InitLocked == Init => LockedInv
<1> SUFFICES ASSUME Init PROVE LockedInv
  OBVIOUS
<1>1. ThreadsInv
  BY InitThreads
<1>2. OneAtATime
  BY ThreadsAssumption DEF Init, OneAtATime, AtWork
<1>3. \A t \in Threads : InStage(t) /\ SaveInHand(t)
  BY DEF Init, InStage, SaveInHand, AtWork
<1>4. AtomicSave
  BY DEF Init, AtomicSave
<1> QED
  BY <1>1, <1>2, <1>3, <1>4 DEF LockedInv

\* Waiting for the lock disturbs nobody.
LEMMA BeginLocked ==
  ASSUME LockedInv, NEW t \in Threads, NEW u \in Users, NEW kind \in Kinds, Begin(t, u, kind)
  PROVE  LockedInv'
<1> USE DEF LockedInv
<1>1. job \in [Threads -> Jobs] /\ pc \in [Threads -> Stages]
  BY DEF ThreadsInv, Typed, TypeOK, Stages
<1>2. /\ job' = [job EXCEPT ![t] = [job[t] EXCEPT !.user = u, !.kind = kind]]
      /\ pc' = [pc EXCEPT ![t] = "waiting"]
      /\ pc[t] = "idle" /\ up
      /\ UNCHANGED <<up, crashes, state, lock, tmpFile, stateFile, content, begun,
                     finished, announced, forgotten, settled>>
  BY <1>1 DEF Begin, files, history
<1>3. ThreadsInv'
  BY BeginThreads
<1>4. /\ pc'[t] = "waiting" /\ ~AtWork(t)
      /\ \A s \in Threads : s # t => job'[s] = job[s] /\ pc'[s] = pc[s]
  BY <1>1, <1>2 DEF AtWork
<1>5. lock # t
  BY <1>4 DEF OneAtATime
<1>6. OneAtATime'
  <2>1. \A s \in Threads : AtWork(s)' <=> lock' = s
    BY <1>2, <1>4, <1>5 DEF OneAtATime, AtWork
  <2>2. lock # NoThread => lock \in Threads /\ job'[lock] = job[lock]
    BY <1>4, <1>5 DEF ThreadsInv, TypeOK
  <2> QED
    BY <1>2, <2>1, <2>2 DEF OneAtATime
<1>7. ASSUME NEW s \in Threads PROVE InStage(s)' /\ SaveInHand(s)'
  <2>1. CASE s = t
    BY <1>4, <2>1 DEF InStage, SaveInHand, AtWork
  <2>2. CASE s # t
    <3>1. InStage(s) /\ SaveInHand(s) /\ job'[s] = job[s] /\ pc'[s] = pc[s]
      BY <1>4, <2>2
    <3> QED
      BY <1>2, <3>1 DEF InStage, SaveInHand, AtWork, Target, Counter, Inside
  <2> QED
    BY <2>1, <2>2
<1>8. AtomicSave'
  BY <1>2 DEF AtomicSave
<1> QED
  BY <1>3, <1>6, <1>7, <1>8

\* The lock is taken: nobody was at work, the dict is as the last record left it.
LEMMA EnterLocked ==
  ASSUME Unlocked = {}, LockedInv, NEW t \in Threads, Enter(t)
  PROVE  LockedInv'
<1> USE DEF LockedInv
<1>1. job \in [Threads -> Jobs] /\ pc \in [Threads -> Stages] /\ begun \in Nat
  BY DEF ThreadsInv, Typed, TypeOK, Stages
<1>2. /\ job' = [job EXCEPT ![t] = [job[t] EXCEPT !.n = begun + 1]]
      /\ pc' = [pc EXCEPT ![t] = "look"]
      /\ pc[t] = "waiting"
      /\ begun' = begun + 1
      /\ lock = NoThread /\ lock' = t
      /\ UNCHANGED <<up, crashes, state, tmpFile, stateFile, content,
                     finished, announced, forgotten, settled>>
  BY <1>1 DEF Enter, files, history
<1>3. ThreadsInv'
  BY EnterThreads
<1>4. /\ pc'[t] = "look" /\ job'[t].n = begun + 1
      /\ \A s \in Threads : s # t => pc'[s] = pc[s]
  BY <1>1, <1>2 DEF Jobs
<1>5. \A s \in Threads : ~AtWork(s)
  BY <1>2, ThreadsAssumption DEF OneAtATime
<1>6. state = settled /\ up /\ begun = finished
  BY <1>2 DEF OneAtATime, ThreadsInv, TypeOK
<1>7. OneAtATime'
  BY <1>2, <1>4, <1>5, <1>6, ThreadsAssumption DEF OneAtATime, AtWork
<1>8. ASSUME NEW s \in Threads PROVE InStage(s)' /\ SaveInHand(s)'
  <2>1. CASE s = t
    BY <1>2, <1>4, <1>6, <2>1 DEF InStage, SaveInHand, AtWork
  <2>2. CASE s # t
    BY <1>4, <1>5, <2>2 DEF InStage, SaveInHand, AtWork
  <2> QED
    BY <2>1, <2>2
<1>9. AtomicSave'
  BY <1>2 DEF AtomicSave
<1> QED
  BY <1>3, <1>7, <1>8, <1>9

\* A step of the thread at work that keeps it at work, on the same record.
LEMMA WorkGoesOn ==
  ASSUME LockedInv, NEW t \in Threads, AtWork(t), AtWork(t)',
         \A s \in Threads : s # t => pc'[s] = pc[s],
         job'[t].n = job[t].n, job'[t].user = job[t].user, job'[t].kind = job[t].kind,
         UNCHANGED <<up, lock, begun, finished, settled>>
  PROVE  /\ OneAtATime'
         /\ \A s \in Threads : s # t => InStage(s)' /\ SaveInHand(s)'
         /\ Target(t)' = Target(t)
<1> USE DEF LockedInv
<1>1. lock = t /\ lock # NoThread /\ up
  BY ThreadsAssumption DEF OneAtATime, AtWork, ThreadsInv, TypeOK
<1>2. begun = finished + 1 /\ job[t].n = begun
  BY <1>1 DEF OneAtATime
<1>3. \A s \in Threads : s # t => ~AtWork(s)
  BY <1>1 DEF OneAtATime
<1>4. OneAtATime'
  BY <1>1, <1>2, <1>3 DEF OneAtATime, AtWork
<1>5. Target(t)' = Target(t)
  BY DEF Target
<1> QED
  BY <1>4, <1>5, OthersOut

\* The steps on the dict, one after the other (lines 1343-1398).
LEMMA OnDictLocked ==
  ASSUME LockedInv, NEW t \in Threads,
         Look(t) \/ Move(t) \/ ReadCount(t) \/ WriteCount(t) \/ WriteNumber(t)
  PROVE  LockedInv'
<1> USE DEF LockedInv
<1>1. /\ job \in [Threads -> Jobs] /\ pc \in [Threads -> Stages] /\ job[t] \in Jobs
      /\ state \in Figures /\ settled \in Figures
  BY DEF ThreadsInv, Typed, TypeOK, Stages
<1>2. ThreadsInv'
  BY OnDictThreads
<1>3. /\ UNCHANGED <<up, crashes, lock, tmpFile, stateFile, content, begun, finished,
                     announced, forgotten, settled>>
      /\ AtWork(t)
  BY DEF Look, Move, ReadCount, WriteCount, WriteNumber, files, history, AtWork
<1>4. AtomicSave'
  BY <1>3 DEF AtomicSave
<1>5. ASSUME NEW j, NEW p \in Stages \ {"idle", "waiting", "write"},
             job' = [job EXCEPT ![t] = j], pc' = [pc EXCEPT ![t] = p],
             j.n = job[t].n, j.user = job[t].user, j.kind = job[t].kind,
             /\ Movement(state') = IF p \in {"look", "move"}
                                   THEN Movement(settled) ELSE Movement(Target(t))
             /\ Passages(state') = IF p \in {"look", "move", "count", "counted"}
                                   THEN Passages(settled) ELSE Passages(Target(t))
             /\ Events(state') = IF p \in {"open", "write"}
                                 THEN Events(Target(t)) ELSE Events(settled)
             /\ p = "move" => /\ j.was <=> j.user \in DOMAIN state'.inside
                              /\ j.empty <=> DOMAIN state'.inside = {}
             /\ p \in {"count", "counted"} => j.kind # "none"
             /\ p = "counted" => j.seen = IF j.kind = "in" THEN state'.entries
                                                           ELSE state'.exits
             /\ p = "numbered" => j.seen = state'.events
      PROVE  LockedInv'
  <2>1. /\ job'[t] = j /\ pc'[t] = p
        /\ \A s \in Threads : s # t => pc'[s] = pc[s]
    BY <1>1, <1>5
  <2>2. AtWork(t)'
    BY <2>1 DEF AtWork
  <2>3. /\ OneAtATime'
        /\ \A s \in Threads : s # t => InStage(s)' /\ SaveInHand(s)'
        /\ Target(t)' = Target(t)
    BY <1>3, <1>5, <2>1, <2>2, WorkGoesOn
  <2>4. InStage(t)'
    BY <1>3, <1>5, <2>1, <2>3 DEF InStage, Counter, Inside
  <2>5. SaveInHand(t)'
    BY <2>1 DEF SaveInHand
  <2> QED
    BY <1>2, <1>4, <2>3, <2>4, <2>5
<1>6. InStage(t)
  OBVIOUS
<1>7. CASE Look(t)
  <2> DEFINE was == job[t].user \in Inside
             empty == Inside = {}
             j == [job[t] EXCEPT !.was = was, !.empty = empty]
  <2>1. was \in BOOLEAN /\ empty \in BOOLEAN
    OBVIOUS
  <2>2. job' = [job EXCEPT ![t].was = was, ![t].empty = empty]
    BY <1>7, Zenon DEF Look
  <2>3. /\ pc[t] = "look" /\ pc' = [pc EXCEPT ![t] = "move"] /\ state' = state
        /\ was <=> job[t].user \in DOMAIN state'.inside
        /\ empty <=> DOMAIN state'.inside = {}
    BY <1>7 DEF Look, Inside
  <2> HIDE DEF was, empty
  <2>4. job' = [job EXCEPT ![t] = j]
    BY <1>1, <2>2
  <2>5. /\ j.n = job[t].n /\ j.user = job[t].user /\ j.kind = job[t].kind
        /\ j.was = was /\ j.empty = empty
    BY <1>1, <2>1 DEF Jobs
  <2> HIDE DEF j
  <2> QED
    BY <1>3, <1>5, <1>6, <2>1, <2>3, <2>4, <2>5 DEF InStage, Stages
<1>8. CASE Move(t)
  <2> DEFINE j == [job[t] EXCEPT !.was = FALSE, !.empty = FALSE]
             p == IF job[t].kind = "none" THEN "number" ELSE "count"
  <2>1. job' = [job EXCEPT ![t] = j] /\ pc' = [pc EXCEPT ![t] = p]
    BY <1>1, <1>8 DEF Move
  <2>2. j.n = job[t].n /\ j.user = job[t].user /\ j.kind = job[t].kind
    BY <1>1 DEF Jobs
  <2>3. state' = Moved(state, job[t]) /\ pc[t] = "move"
    BY <1>8 DEF Move
  <2>4. /\ state.inside = settled.inside /\ state.first = settled.first
        /\ state.last = settled.last
        /\ state.entries = settled.entries /\ state.exits = settled.exits
        /\ state.events = settled.events /\ state.lastEvent = settled.lastEvent
    BY <1>3, <1>6, <2>3 DEF InStage, Movement, Passages, Events
  <2>5. AsState(state) = AsState(settled)
    BY <2>4 DEF AsState
  <2>6. /\ Movement(state') = Movement(Target(t))
        /\ Passages(state') = Passages(settled)
        /\ Events(state') = Events(settled)
    <3>1. /\ job[t].was <=> job[t].user \in DOMAIN state.inside
          /\ job[t].empty <=> DOMAIN state.inside = {}
      BY <1>3, <1>6, <2>3 DEF InStage, Inside
    <3>2. Passages(state) = Passages(settled) /\ Events(state) = Events(settled)
      BY <2>4 DEF Passages, Events
    <3> QED
      BY <1>1, <2>3, <2>5, <3>1, <3>2, MovedAsApplied DEF Target
  <2>7. p = "number" => Passages(settled) = Passages(Target(t))
    BY TargetFigures DEF Passages
  <2>8. p \in Stages \ {"idle", "waiting", "write"} /\ p \in {"number", "count"}
    BY DEF Stages
  <2>9. p = "count" => job[t].kind # "none"
    OBVIOUS
  <2> HIDE DEF j, p
  <2> QED
    BY <1>5, <2>1, <2>2, <2>6, <2>7, <2>8, <2>9
<1>9. CASE ReadCount(t)
  <2> DEFINE v == IF pc[t] = "number" THEN state.events ELSE Counter(t)
             j == [job[t] EXCEPT !.seen = v]
             p == IF pc[t] = "number" THEN "numbered" ELSE "counted"
  <2>1. job' = [job EXCEPT ![t] = j] /\ pc' = [pc EXCEPT ![t] = p]
    BY <1>1, <1>9 DEF ReadCount
  <2>2. /\ j.n = job[t].n /\ j.user = job[t].user /\ j.kind = job[t].kind
        /\ j.seen = v
    BY <1>1 DEF Jobs
  <2>3. state' = state /\ pc[t] \in {"count", "number"}
    BY <1>9 DEF ReadCount
  <2>4. \/ pc[t] = "number" /\ p = "numbered" /\ v = state.events
        \/ pc[t] = "count" /\ p = "counted"
           /\ v = IF job[t].kind = "in" THEN state.entries ELSE state.exits
    BY <2>3 DEF Counter
  <2>5. p \in Stages \ {"idle", "waiting", "write"}
    BY DEF Stages
  <2> HIDE DEF j, p, v
  <2> QED
    BY <1>3, <1>5, <1>6, <2>1, <2>2, <2>3, <2>4, <2>5 DEF InStage
<1>10. CASE WriteCount(t)
  <2> DEFINE j == [job[t] EXCEPT !.seen = 0]
  <2>1. /\ job' = [job EXCEPT ![t] = j] /\ pc' = [pc EXCEPT ![t] = "number"]
        /\ pc[t] = "counted"
    BY <1>1, <1>10 DEF WriteCount
  <2>2. j.n = job[t].n /\ j.user = job[t].user /\ j.kind = job[t].kind
    BY <1>1 DEF Jobs
  <2>3. /\ job[t].kind \in {"in", "out"}
        /\ job[t].seen = IF job[t].kind = "in" THEN settled.entries ELSE settled.exits
        /\ state.entries = settled.entries /\ state.exits = settled.exits
    BY <1>1, <1>3, <1>6, <2>1 DEF InStage, Counter, Passages, Jobs, Kinds
  <2>4. /\ Movement(state') = Movement(state) /\ Events(state') = Events(state)
        /\ Passages(state') = Passages(Target(t))
    BY <1>1, <1>10, <2>3, TargetFigures DEF WriteCount, Movement, Passages, Events, Figures
  <2>5. "number" \in Stages \ {"idle", "waiting", "write"}
    BY DEF Stages
  <2> HIDE DEF j
  <2> QED
    BY <1>3, <1>5, <1>6, <2>1, <2>2, <2>4, <2>5 DEF InStage
<1>11. CASE WriteNumber(t)
  <2> DEFINE j == [job[t] EXCEPT !.seen = 0]
  <2>1. /\ job' = [job EXCEPT ![t] = j] /\ pc' = [pc EXCEPT ![t] = "open"]
        /\ pc[t] = "numbered"
    BY <1>1, <1>11 DEF WriteNumber
  <2>2. j.n = job[t].n /\ j.user = job[t].user /\ j.kind = job[t].kind
    BY <1>1 DEF Jobs
  <2>3. job[t].seen = settled.events
    BY <1>3, <1>6, <2>1 DEF InStage, Events
  <2>4. /\ Movement(state') = Movement(state) /\ Passages(state') = Passages(state)
        /\ Events(state') = Events(Target(t))
    BY <1>1, <1>11, <2>3, TargetFigures DEF WriteNumber, Movement, Passages, Events, Figures
  <2>5. "open" \in Stages \ {"idle", "waiting", "write"}
    BY DEF Stages
  <2> HIDE DEF j
  <2> QED
    BY <1>3, <1>5, <1>6, <2>1, <2>2, <2>4, <2>5 DEF InStage
<1> QED
  BY <1>7, <1>8, <1>9, <1>10, <1>11

\* The temporary file is emptied; the state file is another one.
LEMMA OpenLocked ==
  ASSUME LockedInv, NEW t \in Threads, Open(t)
  PROVE  LockedInv'
<1> USE DEF LockedInv
<1>1. PICK f \in Inodes :
        /\ f # stateFile
        /\ tmpFile' = f
        /\ content' = [content EXCEPT ![f] = <<>>]
        /\ job' = [job EXCEPT ![t] = [job[t] EXCEPT !.file = f]]
  BY OpenedFile
<1>2. /\ job \in [Threads -> Jobs] /\ pc \in [Threads -> Stages] /\ job[t] \in Jobs
      /\ content \in [Inodes -> Seq(FileParts)] /\ stateFile \in {0} \cup Inodes
  BY DEF ThreadsInv, Typed, TypeOK, Stages, FileParts
<1>3. /\ pc[t] = "open" /\ pc' = [pc EXCEPT ![t] = "write"]
      /\ UNCHANGED <<up, crashes, state, lock, stateFile, begun, finished, announced,
                     forgotten, settled>>
  BY DEF Open, history
<1>4. ThreadsInv'
  BY OpenThreads
<1>5. /\ pc'[t] = "write" /\ \A s \in Threads : s # t => pc'[s] = pc[s]
      /\ job'[t] = [job[t] EXCEPT !.file = f]
  BY <1>1, <1>2, <1>3
<1>6. /\ job'[t].n = job[t].n /\ job'[t].user = job[t].user /\ job'[t].kind = job[t].kind
      /\ job'[t].pos = job[t].pos /\ job'[t].file = f
  BY <1>2, <1>5 DEF Jobs
<1>7. AtWork(t) /\ AtWork(t)'
  BY <1>3, <1>5 DEF AtWork
<1>8. /\ OneAtATime'
      /\ \A s \in Threads : s # t => InStage(s)' /\ SaveInHand(s)'
      /\ Target(t)' = Target(t)
  BY <1>3, <1>5, <1>6, <1>7, WorkGoesOn
<1>9. InStage(t)'
  <2>1. InStage(t)
    OBVIOUS
  <2> QED
    BY <1>3, <1>5, <1>7, <1>8, <2>1 DEF InStage
<1>10. SaveInHand(t)'
  <2>1. job[t].pos = 0
    BY <1>3 DEF ThreadsInv, Numbered
  <2>2. content'[f] = <<>>
    BY <1>1, <1>2
  <2> QED
    BY <1>1, <1>6, <2>1, <2>2 DEF SaveInHand
<1>11. AtomicSave'
  BY <1>1, <1>2, <1>3 DEF AtomicSave
<1> QED
  BY <1>4, <1>8, <1>9, <1>10, <1>11

\* A part is added to the dump in the temporary file; nobody else writes there,
\* and the dict is still what the first part was written of.
LEMMA WriteLocked ==
  ASSUME LockedInv, NEW t \in Threads, Write(t)
  PROVE  LockedInv'
<1> USE DEF LockedInv
<1>1. PICK k \in Nat, part \in FileParts :
        /\ k = IF job[t].pos = 0 THEN Cardinality(Inside) + 1 ELSE job[t].parts
        /\ part = Part(job[t].n, k, IF job[t].pos + 1 = k THEN state ELSE Default)
        /\ content' = [content EXCEPT ![job[t].file] =
                         WriteAt(content[job[t].file], job[t].pos + 1, part)]
        /\ job' = [job EXCEPT ![t] = [job[t] EXCEPT !.pos = job[t].pos + 1, !.parts = k]]
  BY WrittenPart
<1>2. /\ job \in [Threads -> Jobs] /\ job[t] \in Jobs /\ state \in Figures
      /\ job[t].pos \in Nat /\ job[t].parts \in Nat
      /\ content \in [Inodes -> Seq(FileParts)] /\ stateFile \in {0} \cup Inodes
  BY DEF ThreadsInv, Typed, TypeOK, Stages, FileParts, Jobs
<1>3. /\ pc[t] = "write" /\ ~Written(t)
      /\ UNCHANGED <<up, crashes, state, lock, pc, tmpFile, stateFile, begun, finished,
                     announced, forgotten, settled>>
  BY DEF Write, history
<1>4. ThreadsInv'
  BY WriteThreads
<1>5. job'[t] = [job[t] EXCEPT !.pos = job[t].pos + 1, !.parts = k]
  BY <1>1, <1>2
<1>6. /\ job'[t].n = job[t].n /\ job'[t].user = job[t].user /\ job'[t].kind = job[t].kind
      /\ job'[t].pos = job[t].pos + 1 /\ job'[t].parts = k /\ job'[t].file = job[t].file
  BY <1>2, <1>5 DEF Jobs
<1>7. AtWork(t) /\ AtWork(t)'
  BY <1>3 DEF AtWork
<1>8. /\ OneAtATime'
      /\ \A s \in Threads : s # t => InStage(s)' /\ SaveInHand(s)'
      /\ Target(t)' = Target(t)
  BY <1>3, <1>6, <1>7, WorkGoesOn
<1>9. InStage(t)'
  <2>1. InStage(t)
    OBVIOUS
  <2> QED
    BY <1>3, <1>7, <1>8, <2>1 DEF InStage
<1>10. /\ job[t].file = tmpFile /\ tmpFile \in Inodes /\ tmpFile # stateFile
       /\ Len(content[tmpFile]) = job[t].pos
       /\ job[t].pos > 0 => job[t].parts = Cardinality(Inside) + 1 /\ job[t].pos =< job[t].parts
       /\ \A i \in 1..job[t].pos : /\ content[tmpFile][i].dump = job[t].n
                                   /\ content[tmpFile][i].parts = job[t].parts
  BY <1>3 DEF SaveInHand, ThreadsInv, Typed, TypeOK, Numbered
<1> DEFINE c == content[tmpFile]
           d == WriteAt(c, job[t].pos + 1, part)
<1>11. content'[tmpFile] = d /\ c \in Seq(FileParts)
  BY <1>1, <1>2, <1>10
<1>12. /\ Len(d) = job[t].pos + 1
       /\ \A i \in 1..(job[t].pos + 1) :
            d[i] = IF i = job[t].pos + 1 THEN part ELSE c[i]
  <2> DEFINE n == job[t].pos + 1
  <2>1. n \in Nat \ {0}
    BY <1>2
  <2> HIDE DEF c, n
  <2>2. LET w == WriteAt(c, n, part) IN
        /\ Len(w) = IF n > Len(c) THEN n ELSE Len(c)
        /\ \A i \in 1..Len(w) :
             w[i] = IF i = n THEN part ELSE IF i =< Len(c) THEN c[i] ELSE Hole
    BY <1>11, <2>1, WriteAtParts
  <2>3. Len(c) = job[t].pos
    BY <1>10 DEF c
  <2> USE DEF n
  <2> HIDE DEF d
  <2> QED
    BY <1>2, <2>2, <2>3 DEF d
<1>13. k = Cardinality(Inside) + 1 /\ job[t].pos + 1 =< k
  <2>1. Cardinality(Inside) \in Nat
    BY <1>2, FiguresFacts DEF Inside
  <2>2. job[t].pos > 0 => job[t].pos # job[t].parts
    BY <1>3 DEF Written
  <2> QED
    BY <1>1, <1>2, <1>10, <2>1, <2>2
<1>14. /\ part.dump = job[t].n /\ part.parts = k
       /\ job[t].pos + 1 = k => part.of = state
  BY <1>1 DEF Part
<1>15. ASSUME NEW i \in 1..(job[t].pos + 1)
       PROVE  d[i].dump = job[t].n /\ d[i].parts = k
  <2>1. CASE i = job[t].pos + 1
    BY <1>12, <1>14, <2>1
  <2>2. CASE i # job[t].pos + 1
    <3>1. i \in 1..job[t].pos /\ job[t].pos # 0
      BY <1>2, <2>2
    <3>2. k = job[t].parts
      BY <1>1, <3>1
    <3> QED
      BY <1>10, <1>12, <2>2, <3>1, <3>2
  <2> QED
    BY <2>1, <2>2
<1> HIDE DEF c, d
<1>16. SaveInHand(t)'
  <2>1. Inside' = Inside
    BY <1>3 DEF Inside
  <2>2. job[t].pos + 1 = k => d[job[t].pos + 1].of = state
    BY <1>2, <1>12, <1>14
  <2> QED
    BY <1>3, <1>6, <1>10, <1>11, <1>12, <1>13, <1>15, <2>1, <2>2 DEF SaveInHand
<1>17. AtomicSave'
  <2>1. stateFile # 0 => content'[stateFile] = content[stateFile]
    BY <1>1, <1>2, <1>10
  <2> QED
    BY <1>3, <2>1 DEF AtomicSave
<1> QED
  BY <1>4, <1>8, <1>9, <1>16, <1>17

\* What replace() puts in the place of the state file is a whole dump of the
\* dict, and the next start reads that.
LEMMA ReplacedFile ==
  ASSUME LockedInv, NEW t \in Threads, Replace(t)
  PROVE  /\ stateFile' # 0
         /\ Whole(content'[stateFile'])
         /\ Loaded' = state
<1> USE DEF LockedInv
<1>1. /\ pc[t] = "write" /\ Written(t) /\ tmpFile # 0
      /\ stateFile' = tmpFile
      /\ content' = [f \in Inodes |-> IF f = stateFile THEN <<>> ELSE content[f]]
  BY DEF Replace
<1>2. /\ tmpFile \in Inodes /\ tmpFile # stateFile
      /\ content[tmpFile] \in Seq(FileParts)
      /\ job[t].pos \in Nat
  BY <1>1 DEF ThreadsInv, Typed, TypeOK, FileParts, Jobs
<1> DEFINE c == content[tmpFile]
<1>3. content'[stateFile'] = c
  BY <1>1, <1>2
<1>4. /\ Len(c) = job[t].pos /\ job[t].pos > 0 /\ job[t].parts = job[t].pos
      /\ \A i \in 1..job[t].pos : c[i].dump = job[t].n /\ c[i].parts = job[t].parts
      /\ c[job[t].pos].of = state
  BY <1>1 DEF SaveInHand, Written
<1>5. Whole(c)
  <2>1. c # <<>>
    BY <1>2, <1>4
  <2>2. 1 \in 1..job[t].pos
    BY <1>2, <1>4
  <2> HIDE DEF c
  <2> QED
    BY <1>4, <2>1, <2>2 DEF Whole
<1>6. stateFile' # 0
  BY <1>1
<1> HIDE DEF c
<1>7. Loaded' = c[Len(c)].of
  BY <1>3, <1>5, <1>6 DEF Loaded
<1> QED
  BY <1>3, <1>4, <1>5, <1>6, <1>7

\* The thread leaves, its record done, saved or not.
LEMMA LeaveLocked ==
  ASSUME LockedInv, NEW t \in Threads, Replace(t) \/ SaveFails(t)
  PROVE  LockedInv'
<1> USE DEF LockedInv
<1>1. /\ job \in [Threads -> Jobs] /\ pc \in [Threads -> Stages] /\ begun \in Nat
      /\ finished \in Nat
  BY DEF ThreadsInv, Typed, TypeOK, Stages
<1>2. /\ pc[t] \in {"open", "write"}
      /\ pc' = [pc EXCEPT ![t] = "idle"]
      /\ lock' = IF lock = t THEN NoThread ELSE lock
      /\ finished' = IF job[t].n > finished THEN job[t].n ELSE finished
      /\ settled' = state
      /\ UNCHANGED <<up, crashes, state, begun>>
  BY DEF Replace, SaveFails, Leave
<1>3. ThreadsInv'
  BY LeaveThreads
<1>4. AtWork(t)
  BY <1>2 DEF AtWork
<1>5. lock = t /\ lock # NoThread /\ up
  BY <1>2, <1>4, ThreadsAssumption DEF OneAtATime, ThreadsInv, TypeOK
<1>6. begun = finished + 1 /\ job[t].n = begun
  BY <1>5 DEF OneAtATime
<1>7. lock' = NoThread /\ begun' = finished'
  BY <1>1, <1>2, <1>5, <1>6
<1>8. pc'[t] = "idle" /\ \A s \in Threads : s # t => pc'[s] = pc[s]
  BY <1>1, <1>2
<1>9. \A s \in Threads : ~AtWork(s)'
  BY <1>5, <1>8 DEF OneAtATime, AtWork
<1>10. OneAtATime'
  BY <1>2, <1>5, <1>7, <1>9, ThreadsAssumption DEF OneAtATime
<1>11. \A s \in Threads : InStage(s)' /\ SaveInHand(s)'
  BY <1>9 DEF InStage, SaveInHand, AtWork
<1>12. AtomicSave'
  <2>1. CASE Replace(t)
    BY <2>1, ReplacedFile DEF AtomicSave
  <2>2. CASE SaveFails(t)
    BY <2>2 DEF SaveFails, files, AtomicSave
  <2> QED
    BY <2>1, <2>2
<1> QED
  BY <1>3, <1>10, <1>11, <1>12

\* The process ends or starts: nobody is at work, the files are as they were.
LEMMA ProcessLocked ==
  ASSUME LockedInv, Crash \/ Load \/ LoadUnreadable
  PROVE  LockedInv'
<1> USE DEF LockedInv
<1>1. ThreadsInv'
  BY CrashThreads, LoadThreads, LoadUnreadableThreads
<1>2. UNCHANGED files
  BY DEF Crash, Load, LoadUnreadable
<1>3. \A s \in Threads : pc'[s] = "idle"
  BY DEF Crash, Load, LoadUnreadable, OneAtATime
<1>4. \A s \in Threads : InStage(s)' /\ SaveInHand(s)'
  BY <1>3 DEF InStage, SaveInHand, AtWork
<1>5. OneAtATime'
  <2>1. CASE Crash
    BY <1>3, <2>1, ThreadsAssumption DEF Crash, history, OneAtATime, AtWork
  <2>2. CASE Load \/ LoadUnreadable
    <3>1. lock = NoThread
      BY <2>2 DEF Load, LoadUnreadable, OneAtATime, AtWork, ThreadsInv, TypeOK
    <3> QED
      BY <1>3, <2>2, <3>1, ThreadsAssumption DEF Load, LoadUnreadable, OneAtATime, AtWork
  <2> QED
    BY <2>1, <2>2
<1>6. AtomicSave'
  BY <1>2 DEF files, AtomicSave
<1> QED
  BY <1>1, <1>4, <1>5, <1>6

LEMMA StepLocked ==
  ASSUME Unlocked = {}, LockedInv, [Next]_vars
  PROVE  LockedInv'
<1>1. CASE \E t \in Threads, u \in Users, kind \in Kinds : Begin(t, u, kind)
  BY <1>1, BeginLocked
<1>2. CASE \E t \in Threads : Step(t) \/ SaveFails(t)
  BY <1>2, EnterLocked, OnDictLocked, OpenLocked, WriteLocked, LeaveLocked, NoSurprise DEF Step
<1>3. CASE Crash \/ Load \/ LoadUnreadable
  BY <1>3, ProcessLocked
<1>4. CASE UNCHANGED vars
  <2>1. ThreadsInv'
    BY <1>4, StepThreads DEF LockedInv
  <2>2. OneAtATime' /\ AtomicSave'
    BY <1>4 DEF vars, files, history, LockedInv, OneAtATime, AtWork, AtomicSave
  <2>3. \A t \in Threads : InStage(t)' /\ SaveInHand(t)'
    BY <1>4 DEF vars, files, history, LockedInv, InStage, SaveInHand, AtWork, Target,
       Counter, Inside
  <2> QED
    BY <2>1, <2>2, <2>3 DEF LockedInv
<1> QED
  BY <1>1, <1>2, <1>3, <1>4 DEF Next

\* The invariant of the engine when every thread takes STATE_LOCK, as the relay
\* threads do (app.py:700): one at a time, each as far in the sequential engine
\* as in its own code, the file in its hand and no other in the making.
THEOREM LockedInvariant ==
  ASSUME Unlocked = {}
  PROVE  Spec => []LockedInv
BY InitLocked, StepLocked, PTL DEF Spec

\* AtomicSave: what a restart reads is one complete dump, however the threads,
\* failing saves and the end of the process interrupt each other
\* (save_state, app.py:805-825), if all threads take the lock.
THEOREM SavesAreWhole ==
  ASSUME Unlocked = {}
  PROVE  Spec => []AtomicSave
<1>1. LockedInv => AtomicSave
  BY DEF LockedInv
<1> QED
  BY <1>1, LockedInvariant, PTL

\* Under the lock no exception but those of the disk: no KeyError of a person
\* removed since she was seen inside (line 1361), no change of the dict under
\* json.dump (line 812), no temporary file renamed by another save (line 819).
THEOREM NoErrorOfOneAnother ==
  ASSUME Unlocked = {}
  PROVE  Spec => [][\A t \in Threads : ~MoveFails(t) /\ ~DumpFails(t) /\ ~ReplaceFails(t)]_vars
<1>1. LockedInv /\ [Next]_vars
        => [\A t \in Threads : ~MoveFails(t) /\ ~DumpFails(t) /\ ~ReplaceFails(t)]_vars
  BY NoSurprise
<1> QED
  BY <1>1, LockedInvariant, PTL DEF Spec

(***************************************************************************)
(* The interleaved engine implements the sequential one                    *)
(***************************************************************************)
LEMMA InitSequential == Init => Sequential!Init
BY DEF Init, Sequential!Init, Sequential!Default, Sequential!NobodyInside, AsState, Default,
   Loaded

\* Until a thread leaves, the sequential engine has not moved.
LEMMA StutterSequential ==
  ASSUME LockedInv, NEW t \in Threads,
         \/ \E u \in Users, kind \in Kinds : Begin(t, u, kind)
         \/ Enter(t) \/ Look(t) \/ Move(t) \/ ReadCount(t) \/ WriteCount(t)
         \/ WriteNumber(t) \/ Open(t) \/ Write(t)
  PROVE  UNCHANGED Sequential!vars
<1> USE DEF LockedInv
<1>1. UNCHANGED <<up, stateFile, finished, announced, forgotten, settled>>
  BY DEF Begin, Enter, Look, Move, ReadCount, WriteCount, WriteNumber, Open, Write,
     files, history
<1>2. stateFile # 0 => content'[stateFile] = content[stateFile]
  <2>1. CASE Open(t)
    <3>1. PICK f \in Inodes : f # stateFile /\ content' = [content EXCEPT ![f] = <<>>]
      BY <2>1, OpenedFile
    <3> QED
      BY <3>1 DEF ThreadsInv, Typed
  <2>2. CASE Write(t)
    <3>1. (job[t].file = tmpFile /\ tmpFile # stateFile) \/ stateFile = 0
      BY <2>2 DEF Write, SaveInHand, ThreadsInv, TypeOK
    <3>2. PICK x : content' = [content EXCEPT ![job[t].file] = x]
      BY <2>2, WrittenPart
    <3> QED
      BY <3>1, <3>2 DEF ThreadsInv, Typed
  <2>3. CASE ~Open(t) /\ ~Write(t)
    BY <2>3 DEF Begin, Enter, Look, Move, ReadCount, WriteCount, WriteNumber, files
  <2> QED
    BY <2>1, <2>2, <2>3
<1>3. Loaded' = Loaded
  BY <1>1, <1>2 DEF Loaded
<1> QED
  BY <1>1, <1>3 DEF Sequential!vars, Sequential!history, AsState

\* The record that is done when a thread leaves is the next of the sequential
\* engine, and the dict is what that engine makes of it.
LEMMA RecordDone ==
  ASSUME LockedInv, NEW t \in Threads, Replace(t) \/ SaveFails(t)
  PROVE  /\ up /\ up' = up /\ forgotten' = forgotten
         /\ finished + 1 \in Sequential!Records
         /\ finished' = finished + 1
         /\ job[t].n = finished + 1
         /\ job[t].user \in Users /\ job[t].kind \in Kinds
         /\ AsState(settled)' = AsState(state)
         /\ AsState(state) =
              Sequential!Applied(Sequential!Reset(AsState(settled)), job[t].user,
                                 job[t].kind, finished + 1)
<1> USE DEF LockedInv
<1>1. /\ pc[t] \in {"open", "write"} /\ settled' = state /\ state' = state
      /\ UNCHANGED <<up, begun, forgotten>>
      /\ finished' = IF job[t].n > finished THEN job[t].n ELSE finished
  BY DEF Replace, SaveFails, Leave
<1>2. /\ begun \in Nat /\ finished \in Nat /\ job[t] \in Jobs
      /\ pc \in [Threads -> Stages] /\ state \in Figures
  BY DEF ThreadsInv, Typed, TypeOK, Stages
<1>3. AtWork(t)
  BY <1>1 DEF AtWork
<1>4. lock = t /\ lock # NoThread /\ up
  BY <1>1, <1>3, ThreadsAssumption DEF OneAtATime, ThreadsInv, TypeOK
<1>5. begun = finished + 1 /\ job[t].n = begun
  BY <1>4 DEF OneAtATime
<1>6. finished' = finished + 1
  BY <1>1, <1>2, <1>5
<1>7. finished + 1 \in Sequential!Records
  <2>1. job[t].n \in 0..MaxRecords
    BY DEF ThreadsInv, TypeOK
  <2> QED
    BY <1>2, <1>5, <2>1, ThreadsAssumption DEF Sequential!Records
<1>8. job[t].user \in Users /\ job[t].kind \in Kinds
  BY <1>1, <1>2 DEF ThreadsInv, Numbered, Jobs
<1>9. AsState(state) = Target(t)
  <2>1. /\ state.inside = Target(t).inside /\ state.first = Target(t).first
        /\ state.last = Target(t).last
        /\ state.entries = Target(t).entries /\ state.exits = Target(t).exits
        /\ state.events = Target(t).events /\ state.lastEvent = Target(t).lastEvent
    <3>1. InStage(t)
      OBVIOUS
    <3> QED
      BY <1>1, <1>3, <3>1 DEF InStage, Movement, Passages, Events
  <2> QED
    BY <2>1, TargetFigures DEF AsState, Target, Sequential!Applied
<1>10. Sequential!Reset(AsState(settled)) = AsState(settled)
  BY DEF Sequential!Reset, AsState
<1> QED
  BY <1>1, <1>4, <1>5, <1>6, <1>7, <1>8, <1>9, <1>10 DEF Target

\* A thread that leaves after its save is HandleSaved, one that leaves because
\* the save failed is HandleNotSaved.
LEMMA LeaveSequential ==
  ASSUME LockedInv, NEW t \in Threads, Replace(t) \/ SaveFails(t)
  PROVE  Sequential!Next
<1> DEFINE u == job[t].user
           kind == job[t].kind
<1>1. u \in Users /\ kind \in Sequential!Kinds
  BY RecordDone DEF Kinds, Sequential!Kinds
<1>2. CASE Replace(t)
  <2>1. (stateFile # 0)' = TRUE /\ AsState(Loaded)' = AsState(state)
    BY <1>2, ReplacedFile DEF AsState
  <2>2. announced' = finished + 1
    <3>1. announced \in Nat /\ finished \in Nat /\ announced =< finished
      BY DEF LockedInv, ThreadsInv, Typed, TypeOK
    <3>2. announced' = IF job[t].n > announced THEN job[t].n ELSE announced
      BY <1>2 DEF Replace
    <3> QED
      BY <1>2, <3>1, <3>2, RecordDone
  <2>3. Sequential!HandleSaved(u, kind)
    BY <1>2, <2>1, <2>2, RecordDone DEF Sequential!HandleSaved
  <2> QED
    BY <1>1, <2>3 DEF Sequential!Next
<1>3. CASE SaveFails(t)
  <2>1. UNCHANGED <<tmpFile, stateFile, content, announced>>
    BY <1>3 DEF SaveFails, files
  <2>2. AsState(Loaded)' = AsState(Loaded)
    BY <2>1 DEF AsState, Loaded
  <2>3. AsState(settled).date = 0
    BY DEF AsState
  <2>4. Sequential!HandleNotSaved(u, kind)
    BY <1>3, <2>1, <2>2, <2>3, RecordDone DEF Sequential!HandleNotSaved
  <2> QED
    BY <1>1, <2>4 DEF Sequential!Next
<1> QED
  BY <1>2, <1>3

\* The process ends and starts in both.
LEMMA ProcessSequential ==
  ASSUME LockedInv, Crash \/ Load \/ LoadUnreadable
  PROVE  Sequential!Next
<1>1. UNCHANGED <<tmpFile, stateFile, content, finished, announced>>
  BY DEF Crash, Load, LoadUnreadable, files, history
<1>2. Loaded' = Loaded
  BY <1>1 DEF Loaded
<1>3. CASE Crash
  BY <1>1, <1>2, <1>3 DEF Crash, history, Sequential!Crash, Sequential!history,
     Sequential!Next, AsState
<1>4. CASE Load
  <2>1. AsState(settled)' = AsState(Loaded)
    BY <1>4 DEF Load, AsState
  <2>2. Sequential!Reset(AsState(Loaded)) = AsState(Loaded)
    BY DEF Sequential!Reset, AsState
  <2>3. stateFile = 0 => AsState(Loaded) = Sequential!Default
    BY DEF Loaded, AsState, Default, Sequential!Default, Sequential!NobodyInside
  <2>4. AsState(Loaded)' = AsState(Loaded)
    BY <1>2 DEF AsState
  <2>5. Sequential!Load
    BY <1>1, <1>4, <2>1, <2>2, <2>3, <2>4 DEF Load, Sequential!Load, Sequential!history
  <2> QED
    BY <2>5 DEF Sequential!Next
<1>5. CASE LoadUnreadable
  <2>1. AsState(settled)' = Sequential!Default
    BY <1>5 DEF LoadUnreadable, AsState, Default, Sequential!Default, Sequential!NobodyInside
  <2>2. AsState(Loaded)' = AsState(Loaded)
    BY <1>2 DEF AsState
  <2>3. Sequential!LoadUnreadable
    BY <1>1, <1>5, <2>1, <2>2 DEF LoadUnreadable, Sequential!LoadUnreadable
  <2> QED
    BY <2>3 DEF Sequential!Next
<1> QED
  BY <1>3, <1>4, <1>5

LEMMA NextSequential ==
  ASSUME LockedInv, [Next]_vars
  PROVE  [Sequential!Next]_(Sequential!vars)
<1>1. CASE \E t \in Threads, u \in Users, kind \in Kinds : Begin(t, u, kind)
  BY <1>1, StutterSequential
<1>2. CASE \E t \in Threads : Step(t) \/ SaveFails(t)
  BY <1>2, StutterSequential, LeaveSequential, NoSurprise DEF Step
<1>3. CASE Crash \/ Load \/ LoadUnreadable
  BY <1>3, ProcessSequential
<1>4. CASE UNCHANGED vars
  BY <1>4 DEF vars, files, history, Sequential!vars, Sequential!history, AsState, Loaded
<1> QED
  BY <1>1, <1>2, <1>3, <1>4 DEF Next

\* ImplementsOccupancy: with every thread under STATE_LOCK, for any number of
\* threads, people and records, the engine taken apart into its accesses to the
\* dict and the files is the sequential Occupancy Engine on one day, so that
\* what is proved of Occupancy holds of it.
THEOREM EngineIsSequential ==
  ASSUME Unlocked = {}
  PROVE  Spec => ImplementsOccupancy
<1>1. Spec => Sequential!Init /\ [][Sequential!Next]_(Sequential!vars)
  BY InitSequential, NextSequential, LockedInvariant, PTL DEF Spec
<1> QED
  BY <1>1 DEF ImplementsOccupancy, Sequential!Spec

\* Occupancy and the module of its proofs are one specification, instantiated
\* twice: their functions on a state,
LEMMA SameFunctions ==
  /\ \A S : Sequential!Cardinality(S) = SequentialTheorems!Cardinality(S)
  /\ \A s : Sequential!Reset(s) = SequentialTheorems!Reset(s)
  /\ \A s, u, kind, n :
       Sequential!InsideAfter(s, u, kind, n) = SequentialTheorems!InsideAfter(s, u, kind, n)
  /\ \A s, u, kind, n :
       Sequential!Applied(s, u, kind, n) = SequentialTheorems!Applied(s, u, kind, n)
  /\ Sequential!Default = SequentialTheorems!Default
<1>1. \A S : Sequential!Cardinality(S) = SequentialTheorems!Cardinality(S)
  BY DEF Sequential!Cardinality, SequentialTheorems!Cardinality
<1>2. \A s : Sequential!Reset(s) = SequentialTheorems!Reset(s)
  BY <1>1 DEF Sequential!Reset, SequentialTheorems!Reset
<1>3. \A s, u, kind, n :
        Sequential!InsideAfter(s, u, kind, n) = SequentialTheorems!InsideAfter(s, u, kind, n)
  BY DEF Sequential!InsideAfter, SequentialTheorems!InsideAfter, Sequential!Inside,
     SequentialTheorems!Inside, Sequential!Restrict, SequentialTheorems!Restrict
<1>4. \A s, u, kind, n :
        Sequential!Applied(s, u, kind, n) = SequentialTheorems!Applied(s, u, kind, n)
  BY <1>3 DEF Sequential!Applied, SequentialTheorems!Applied, Sequential!Opens,
     SequentialTheorems!Opens, Sequential!Closes, SequentialTheorems!Closes,
     Sequential!Inside, SequentialTheorems!Inside
<1>5. Sequential!Default = SequentialTheorems!Default
  BY DEF Sequential!Default, SequentialTheorems!Default, Sequential!NobodyInside,
     SequentialTheorems!NobodyInside
<1> QED
  BY <1>1, <1>2, <1>3, <1>4, <1>5

\* their initial states and steps,
LEMMA SequentialInitSame == Sequential!Init => SequentialTheorems!Init
BY SameFunctions DEF Sequential!Init, SequentialTheorems!Init

LEMMA SequentialNextSame ==
  [Sequential!Next]_(Sequential!vars) => [SequentialTheorems!Next]_(SequentialTheorems!vars)
<1> SUFFICES ASSUME [Sequential!Next]_(Sequential!vars)
             PROVE  [SequentialTheorems!Next]_(SequentialTheorems!vars)
  OBVIOUS
<1>1. /\ Sequential!Kinds = SequentialTheorems!Kinds
      /\ Sequential!Records = SequentialTheorems!Records
  BY DEF
     Sequential!Kinds, SequentialTheorems!Kinds, Sequential!Records,
     SequentialTheorems!Records
<1>2. ASSUME NEW u, NEW kind
      PROVE  /\ Sequential!HandleSaved(u, kind) => SequentialTheorems!HandleSaved(u, kind)
             /\ Sequential!HandleNotSaved(u, kind)
                  => SequentialTheorems!HandleNotSaved(u, kind)
  BY <1>1, SameFunctions DEF
     Sequential!HandleSaved, SequentialTheorems!HandleSaved, Sequential!HandleNotSaved,
     SequentialTheorems!HandleNotSaved
<1>3. Sequential!ResetNotSaved => SequentialTheorems!ResetNotSaved
  BY <1>1, SameFunctions DEF Sequential!ResetNotSaved, SequentialTheorems!ResetNotSaved
<1>4. /\ Sequential!NextDay => SequentialTheorems!NextDay
      /\ Sequential!Crash => SequentialTheorems!Crash
      /\ Sequential!Load => SequentialTheorems!Load
      /\ Sequential!LoadUnreadable => SequentialTheorems!LoadUnreadable
      /\ Sequential!LoadAndClear => SequentialTheorems!LoadAndClear
  BY SameFunctions DEF
     Sequential!NextDay, SequentialTheorems!NextDay, Sequential!Crash,
     SequentialTheorems!Crash, Sequential!Load, SequentialTheorems!Load,
     Sequential!LoadUnreadable, SequentialTheorems!LoadUnreadable,
     Sequential!LoadAndClear, SequentialTheorems!LoadAndClear, Sequential!history,
     SequentialTheorems!history
<1> QED
  BY <1>1, <1>2, <1>3, <1>4 DEF Sequential!Next, SequentialTheorems!Next,
     Sequential!vars, SequentialTheorems!vars, Sequential!history,
     SequentialTheorems!history

\* and what they promise.
LEMMA SequentialSoundSame ==
  SequentialTheorems!StateSound /\ SequentialTheorems!AnnouncedIsSaved
    => Sequential!StateSound /\ Sequential!AnnouncedIsSaved
<1>1. \A s : SequentialTheorems!Chronology(s) => Sequential!Chronology(s)
  BY DEF Sequential!Chronology, SequentialTheorems!Chronology, Sequential!Inside,
     SequentialTheorems!Inside
<1>2. \A s : SequentialTheorems!Conservation(s) => Sequential!Conservation(s)
  BY SameFunctions DEF Sequential!Conservation, SequentialTheorems!Conservation,
     Sequential!Inside, SequentialTheorems!Inside
<1> QED
  BY <1>1, <1>2 DEF Sequential!StateSound, SequentialTheorems!StateSound,
     Sequential!AnnouncedIsSaved, SequentialTheorems!AnnouncedIsSaved

\* What Occupancy promises, of the threads under the lock: the marks of the day
\* and the people inside tell one story, nobody appears or vanishes without
\* being counted, in the dict between two records and in the file; and what was
\* announced is in the file as long as the starts in between could read it
\* (lines 766-777, 1346-1400).
THEOREM LockedEngineSound ==
  ASSUME Unlocked = {}
  PROVE  Spec => [](Sequential!StateSound /\ Sequential!AnnouncedIsSaved)
<1>1. Spec => SequentialTheorems!Spec
  BY InitSequential, NextSequential, SequentialInitSame, SequentialNextSame, LockedInvariant,
     PTL DEF Spec, SequentialTheorems!Spec
<1>2. SequentialTheorems!OccupancyAssumption
  BY ThreadsAssumption
  DEF SequentialTheorems!OccupancyAssumption, SequentialTheorems!IsFiniteSet, IsFiniteSet
<1>3. SequentialTheorems!Spec => []SequentialTheorems!StateSound
  BY <1>2, SequentialTheorems!FiguresSound
<1>4. SequentialTheorems!Spec => []SequentialTheorems!AnnouncedIsSaved
  BY <1>2, SequentialTheorems!AnnouncedSurvives
<1> QED
  BY <1>1, <1>3, <1>4, SequentialSoundSame, PTL

=============================================================================
