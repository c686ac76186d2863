--------------------------- MODULE UpstreamProofs ---------------------------
(***************************************************************************)
(* Proofs about Upstream: the inductive invariant UpstreamInv, the safety  *)
(* properties it implies, and the refinement of StoreAndForward, for every *)
(* set of events and threads and every setting of the limits.              *)
(***************************************************************************)
EXTENDS Upstream, FiniteSetTheorems, TLAPS

\* The delay after a failed attempt is a number of ticks between 0 and
\* max_retry_interval (line 159).
LEMMA DelayRange ==
  ASSUME NEW n \in 1..AttemptCap
  PROVE  Delay(n) \in 1..MaxRetry
<1>1. n \in 1..9
  BY UpstreamAssumption
<1>2. PowerOfTwo[n] \in Nat \ {0}
  BY <1>1 DEF PowerOfTwo
<1>3. RetryInterval * PowerOfTwo[n] \in Nat \ {0}
  BY <1>2, UpstreamAssumption
<1> QED
  BY <1>3, UpstreamAssumption DEF Delay, Least

\* The empty table, no process: the invariant holds at the start.
LEMMA InitInv == Init => UpstreamInv
<1> SUFFICES ASSUME Init PROVE UpstreamInv
  OBVIOUS
<1>1. TypeOK
  <2>1. DOMAIN queue = {}
    BY DEF Init
  <2>2. tries \in 0..AttemptCap
    BY UpstreamAssumption DEF Init
  <2> QED
    BY <2>1, <2>2 DEF Init, TypeOK, Phases
<1>2. HeldItem /\ NoSilentLoss /\ DeliveredRows /\ RepeatOnlyIfUncertain
  BY UpstreamAssumption DEF Init, HeldItem, NoSilentLoss, DeliveredRows,
     RepeatOnlyIfUncertain
<1>3. FreshIsDue /\ NoLostWakeup
  BY DEF Init, FreshIsDue, NoLostWakeup
<1> QED
  BY <1>1, <1>2, <1>3 DEF UpstreamInv

\* A submit keeps the invariant, whatever it drops.
LEMMA SubmitInv ==
  ASSUME UpstreamInv, NEW t \in Threads, NEW e \in Events,
         NEW lag \in 0..LockTimeout, Submit(t, e, lag)
  PROVE  UpstreamInv'
<1> DEFINE q1 == Inserted(queue, e, lag)
           q2 == Restrict(q1, DOMAIN q1 \ Expired(q1, lag))
<1> USE DEF UpstreamInv
<1>1. PICK D \in SUBSET DOMAIN q2 :
        /\ queue' = Restrict(q2, DOMAIN q2 \ D)
        /\ dropped' = dropped \cup Expired(q1, lag) \cup D
  BY DEF Submit
<1>2. /\ phase # "down"
      /\ e \notin accepted
      /\ accepted' = accepted \cup {e}
      /\ waking' = waking \cup {t}
      /\ UNCHANGED <<phase, item, tries, wake, received, uncertain>>
  BY DEF Submit, worker
<1>3. /\ DOMAIN q1 = DOMAIN queue \cup {e}
      /\ \A x \in DOMAIN queue : q1[x] = queue[x]
      /\ e \notin DOMAIN queue
      /\ q1[e] = [age |-> lag, wait |-> 0, attempts |-> 0]
  BY <1>2 DEF Inserted, NoSilentLoss
<1>4. Expired(q1, lag) \subseteq DOMAIN q1
  BY DEF Expired
<1>5. /\ DOMAIN q2 = DOMAIN q1 \ Expired(q1, lag)
      /\ \A x \in DOMAIN q2 : q2[x] = q1[x]
  BY DEF Restrict
<1>6. /\ DOMAIN queue' = (DOMAIN queue \cup {e}) \ (Expired(q1, lag) \cup D)
      /\ \A x \in DOMAIN queue' : queue'[x] = q1[x]
  BY <1>1, <1>3, <1>5 DEF Restrict
<1>7. q1[e] \in Row
  BY <1>3, UpstreamAssumption DEF Row, AgeCap
<1>8. TypeOK'
  BY <1>1, <1>2, <1>3, <1>4, <1>5, <1>6, <1>7 DEF TypeOK
<1>9. HeldItem'
  BY <1>2 DEF HeldItem
<1>10. NoSilentLoss'
  BY <1>1, <1>2, <1>3, <1>4, <1>5, <1>6 DEF NoSilentLoss
<1>11. DeliveredRows'
  BY <1>2, <1>6 DEF DeliveredRows, NoSilentLoss
<1>12. RepeatOnlyIfUncertain'
  BY <1>2 DEF RepeatOnlyIfUncertain
<1>13. FreshIsDue'
  BY <1>3, <1>6 DEF FreshIsDue
<1>14. NoLostWakeup'
  BY <1>2 DEF NoLostWakeup
<1> QED
  BY <1>8, <1>9, <1>10, <1>11, <1>12, <1>13, <1>14

\* So does the flag that a submit sets after its commit.
LEMMA SubmitWakesInv ==
  ASSUME UpstreamInv, NEW t \in Threads, SubmitWakes(t)
  PROVE  UpstreamInv'
BY DEF UpstreamInv, SubmitWakes, worker, history, TypeOK, HeldItem, NoSilentLoss,
   DeliveredRows, RepeatOnlyIfUncertain, FreshIsDue, NoLostWakeup

\* The worker between two looks at the table: picking a row, waiting for one,
\* clearing the flag.
LEMMA WorkerLooksInv ==
  ASSUME UpstreamInv, WorkerPicks \/ WorkerWaits \/ WorkerResumes \/ WorkerClears
  PROVE  UpstreamInv'
<1> USE DEF UpstreamInv
<1>1. CASE WorkerPicks
  <2>1. PICK e \in DOMAIN queue : /\ item' = e
                                  /\ tries' = queue[e].attempts
    BY <1>1 DEF WorkerPicks, Oldest, Due
  <2>2. /\ phase = "next"
        /\ phase' = "posting"
        /\ UNCHANGED <<queue, wake, waking, accepted, dropped, uncertain, received>>
    BY <1>1 DEF WorkerPicks, history
  <2>3. e \in Events /\ e \in accepted /\ queue[e] \in Row
    BY DEF TypeOK, NoSilentLoss
  <2>4. TypeOK'
    BY <2>1, <2>2, <2>3 DEF TypeOK, Row, Phases
  <2>5. HeldItem' /\ NoSilentLoss' /\ DeliveredRows' /\ RepeatOnlyIfUncertain'
    BY <2>1, <2>2, <2>3, UpstreamAssumption DEF HeldItem, NoSilentLoss,
       DeliveredRows, RepeatOnlyIfUncertain
  <2>6. FreshIsDue' /\ NoLostWakeup'
    BY <2>2 DEF FreshIsDue, NoLostWakeup
  <2> QED
    BY <2>4, <2>5, <2>6
<1>2. CASE WorkerWaits
  <2>1. NoLostWakeup'
    BY <1>2 DEF WorkerWaits, Due, FreshIsDue, NoLostWakeup, TypeOK, Row
  <2> QED
    BY <1>2, <2>1 DEF WorkerWaits, history, TypeOK, Phases, HeldItem, NoSilentLoss,
       DeliveredRows, RepeatOnlyIfUncertain, FreshIsDue
<1>3. CASE WorkerResumes
  BY <1>3 DEF WorkerResumes, history, TypeOK, Phases, HeldItem, NoSilentLoss,
     DeliveredRows, RepeatOnlyIfUncertain, FreshIsDue, NoLostWakeup
<1>4. CASE WorkerClears
  BY <1>4 DEF WorkerClears, history, TypeOK, Phases, HeldItem, NoSilentLoss,
     DeliveredRows, RepeatOnlyIfUncertain, FreshIsDue, NoLostWakeup
<1> QED
  BY <1>1, <1>2, <1>3, <1>4

\* The three outcomes of a request.
LEMMA PostInv ==
  ASSUME UpstreamInv, PostConfirmed \/ PostUncertain \/ PostFails
  PROVE  UpstreamInv'
<1> USE DEF UpstreamInv
<1>1. /\ phase = "posting"
      /\ phase' \in {"confirmed", "failed"}
      /\ UNCHANGED <<queue, item, tries, wake, waking, accepted, dropped>>
      /\ item \in Events /\ item \in accepted
  BY DEF PostConfirmed, PostUncertain, PostFails, history, HeldItem, TypeOK
<1>2. /\ received' \in {received, received \cup {item}}
      /\ uncertain' \in {uncertain, uncertain \cup {item}}
      /\ received' # received => \/ phase' = "confirmed"
                                  \/ uncertain' = uncertain \cup {item}
      /\ phase' = "confirmed" => item \in received'
  BY DEF PostConfirmed, PostUncertain, PostFails, history
<1>3. TypeOK'
  BY <1>1, <1>2 DEF TypeOK, Phases
<1>4. HeldItem' /\ NoSilentLoss'
  BY <1>1, <1>2 DEF HeldItem, NoSilentLoss
<1>5. DeliveredRows'
  BY <1>1, <1>2 DEF DeliveredRows
<1>6. RepeatOnlyIfUncertain' /\ FreshIsDue' /\ NoLostWakeup'
  BY <1>1 DEF RepeatOnlyIfUncertain, FreshIsDue, NoLostWakeup
<1> QED
  BY <1>3, <1>4, <1>5, <1>6

\* The row of a confirmed event is deleted, if it is still there.
LEMMA WorkerDeletesInv ==
  ASSUME UpstreamInv, WorkerDeletes
  PROVE  UpstreamInv'
<1> USE DEF UpstreamInv
<1>1. /\ DOMAIN queue' = DOMAIN queue \ {item}
      /\ \A e \in DOMAIN queue' : queue'[e] = queue[e]
  BY DEF WorkerDeletes, Restrict
<1>2. /\ phase = "confirmed"
      /\ phase' = "next"
      /\ item' = NoEvent
      /\ tries' = 0
      /\ UNCHANGED <<wake, waking, accepted, dropped, uncertain, received>>
  BY DEF WorkerDeletes, history
<1>3. item \in received
  BY <1>2 DEF HeldItem
<1>4. TypeOK'
  BY <1>1, <1>2, UpstreamAssumption DEF TypeOK, Phases
<1>5. HeldItem' /\ NoSilentLoss'
  BY <1>1, <1>2, <1>3 DEF HeldItem, NoSilentLoss
<1>6. DeliveredRows' /\ RepeatOnlyIfUncertain'
  BY <1>1, <1>2 DEF DeliveredRows, RepeatOnlyIfUncertain
<1>7. FreshIsDue' /\ NoLostWakeup'
  BY <1>1, <1>2 DEF FreshIsDue, NoLostWakeup
<1> QED
  BY <1>4, <1>5, <1>6, <1>7

\* The row of a failed event is postponed, if it is still there.
LEMMA WorkerPostponesInv ==
  ASSUME UpstreamInv, WorkerPostpones
  PROVE  UpstreamInv'
<1> DEFINE n == Least(tries + 1, AttemptCap)
           postponed(e) == [age |-> queue[e].age, wait |-> Delay(n), attempts |-> n]
<1> USE DEF UpstreamInv
<1>1. n \in 1..AttemptCap
  BY UpstreamAssumption DEF TypeOK, Least
<1>2. Delay(n) \in 1..MaxRetry
  BY <1>1, DelayRange
<1> HIDE DEF n
<1>3. /\ queue' = [e \in DOMAIN queue |-> IF e = item THEN postponed(e) ELSE queue[e]]
      /\ phase = "failed"
      /\ phase' = "next"
      /\ item' = NoEvent
      /\ tries' = 0
      /\ UNCHANGED <<wake, waking, accepted, dropped, uncertain, received>>
  BY DEF WorkerPostpones, history, n
<1>4. ASSUME NEW e \in DOMAIN queue
      PROVE  /\ postponed(e) \in Row
             /\ postponed(e).attempts > 0
  BY <1>1, <1>2, UpstreamAssumption DEF TypeOK, Row
<1> HIDE DEF postponed
<1>5. /\ DOMAIN queue' = DOMAIN queue
      /\ \A e \in DOMAIN queue : queue'[e] \in {queue[e], postponed(e)}
  BY <1>3
<1>6. TypeOK'
  BY <1>3, <1>4, <1>5, UpstreamAssumption DEF TypeOK, Phases
<1>7. HeldItem' /\ NoSilentLoss' /\ DeliveredRows' /\ RepeatOnlyIfUncertain'
  BY <1>3, <1>5 DEF HeldItem, NoSilentLoss, DeliveredRows, RepeatOnlyIfUncertain
<1>8. FreshIsDue' /\ NoLostWakeup'
  BY <1>3, <1>4, <1>5 DEF FreshIsDue, NoLostWakeup
<1> QED
  BY <1>6, <1>7, <1>8

\* The end of the worker thread, or of the process, at any point.
LEMMA EndInv ==
  ASSUME UpstreamInv, WorkerDies \/ Crash
  PROVE  UpstreamInv'
<1> USE DEF UpstreamInv
<1>1. /\ phase' \in {"dead", "down"}
      /\ item' = NoEvent
      /\ tries' = 0
      /\ UNCHANGED <<queue, accepted, dropped, received>>
      /\ uncertain' = IF phase = "confirmed" THEN uncertain \cup {item} ELSE uncertain
      /\ wake' \in {FALSE, wake}
      /\ waking' \in {{}, waking}
  BY DEF WorkerDies, Crash
<1>2. phase = "confirmed" => item \in Events
  BY DEF TypeOK, HeldItem
<1>3. TypeOK'
  <2>1. wake' \in BOOLEAN /\ waking' \subseteq Threads /\ uncertain' \subseteq Events
    BY <1>1, <1>2 DEF TypeOK
  <2>2. 0 \in 0..AttemptCap
    BY UpstreamAssumption
  <2> QED
    BY <1>1, <2>1, <2>2 DEF TypeOK, Phases
<1>4. HeldItem' /\ NoSilentLoss' /\ DeliveredRows' /\ RepeatOnlyIfUncertain'
  BY <1>1 DEF HeldItem, NoSilentLoss, DeliveredRows, RepeatOnlyIfUncertain
<1>5. FreshIsDue' /\ NoLostWakeup'
  BY <1>1 DEF FreshIsDue, NoLostWakeup
<1> QED
  BY <1>3, <1>4, <1>5

\* Time only brings rows closer to being due and to being expired.
LEMMA TickInv ==
  ASSUME UpstreamInv, Tick
  PROVE  UpstreamInv'
<1> DEFINE later(e) == [age |-> Least(queue[e].age + 1, AgeCap),
                       wait |-> IF queue[e].wait = 0 THEN 0 ELSE queue[e].wait - 1,
                       attempts |-> queue[e].attempts]
<1> USE DEF UpstreamInv
<1>1. /\ DOMAIN queue' = DOMAIN queue
      /\ \A e \in DOMAIN queue : queue'[e] = later(e)
      /\ UNCHANGED <<phase, item, tries, wake, waking, accepted, dropped, uncertain, received>>
  BY DEF Tick, worker, history
<1>2. ASSUME NEW e \in DOMAIN queue
      PROVE  /\ later(e) \in Row
             /\ later(e).attempts = queue[e].attempts
             /\ queue[e].wait = 0 => later(e).wait = 0
  <2>1. queue[e] \in Row
    BY DEF TypeOK
  <2>2. AgeCap \in Nat /\ MaxRetry \in Nat
    BY UpstreamAssumption DEF AgeCap
  <2> QED
    BY <2>1, <2>2 DEF Row, Least
<1> HIDE DEF later
<1>3. TypeOK'
  BY <1>1, <1>2 DEF TypeOK
<1>4. HeldItem' /\ NoSilentLoss' /\ DeliveredRows' /\ RepeatOnlyIfUncertain'
  BY <1>1 DEF HeldItem, NoSilentLoss, DeliveredRows, RepeatOnlyIfUncertain
<1>5. FreshIsDue' /\ NoLostWakeup'
  BY <1>1, <1>2 DEF FreshIsDue, NoLostWakeup
<1> QED
  BY <1>3, <1>4, <1>5

\* A start finds the table as the last process left it.
LEMMA StartInv ==
  ASSUME UpstreamInv, Start
  PROVE  UpstreamInv'
BY DEF UpstreamInv, Start, history, TypeOK, Phases, HeldItem, NoSilentLoss,
   DeliveredRows, RepeatOnlyIfUncertain, FreshIsDue, NoLostWakeup

\* Every step keeps the invariant.
LEMMA NextInv == UpstreamInv /\ [Next]_vars => UpstreamInv'
<1> SUFFICES ASSUME UpstreamInv, [Next]_vars
             PROVE  UpstreamInv'
  OBVIOUS
<1>1. CASE SubmitNext
  BY <1>1, SubmitInv, SubmitWakesInv DEF SubmitNext
<1>2. CASE WorkerNext
  BY <1>2, WorkerLooksInv, PostInv, WorkerDeletesInv, WorkerPostponesInv DEF WorkerNext
<1>3. CASE WorkerDies \/ Crash
  BY <1>3, EndInv
<1>4. CASE Tick
  BY <1>4, TickInv
<1>5. CASE Start
  BY <1>5, StartInv
<1>6. CASE UNCHANGED vars
  BY <1>6 DEF vars, worker, UpstreamInv, TypeOK, HeldItem, NoSilentLoss, DeliveredRows,
     RepeatOnlyIfUncertain, FreshIsDue, NoLostWakeup
<1> QED
  BY <1>1, <1>2, <1>3, <1>4, <1>5, <1>6 DEF Next

\* Every reachable state satisfies the invariant of the client.
THEOREM UpstreamInvariant == Spec => []UpstreamInv
<1> QED
  BY InitInv, NextInv, PTL DEF Spec

\* The variables keep their types: in particular no row is ever postponed by
\* more than max_retry_interval (line 159).
THEOREM TypeCorrect == Spec => []TypeOK
<1>1. UpstreamInv => TypeOK
  BY DEF UpstreamInv
<1> QED
  BY <1>1, UpstreamInvariant, PTL

\* No accepted event is lost without a record, for any number of events and
\* threads, any limits, and crashes at any point.
THEOREM NothingLost == Spec => []NoSilentLoss
<1>1. UpstreamInv => NoSilentLoss
  BY DEF UpstreamInv
<1> QED
  BY <1>1, UpstreamInvariant, PTL

\* The server is offered an event again only after an outcome that the Bridge
\* could not know.
THEOREM RepeatsJustified == Spec => []RepeatOnlyIfUncertain
<1>1. UpstreamInv => RepeatOnlyIfUncertain
  BY DEF UpstreamInv
<1> QED
  BY <1>1, UpstreamInvariant, PTL

\* The wake-up of an event that was never tried is not lost, for any number of
\* submitting threads.
THEOREM WakeupKept == Spec => []NoLostWakeup
<1>1. UpstreamInv => NoLostWakeup
  BY DEF UpstreamInv
<1> QED
  BY <1>1, UpstreamInvariant, PTL

(***************************************************************************)
(* Refinement of StoreAndForward                                           *)
(***************************************************************************)

\* A submit is an acceptance that may give up pending events.
LEMMA SubmitAccepts ==
  ASSUME UpstreamInv, NEW t \in Threads, NEW e \in Events,
         NEW lag \in 0..LockTimeout, Submit(t, e, lag)
  PROVE  SAF!Next
<1> DEFINE q1 == Inserted(queue, e, lag)
           q2 == Restrict(q1, DOMAIN q1 \ Expired(q1, lag))
<1>1. PICK D \in SUBSET DOMAIN q2 :
        /\ queue' = Restrict(q2, DOMAIN q2 \ D)
        /\ dropped' = dropped \cup Expired(q1, lag) \cup D
  BY DEF Submit
<1> DEFINE drop == Expired(q1, lag) \cup D
<1>2. DOMAIN q1 = DOMAIN queue \cup {e}
  BY DEF Inserted
<1>3. drop \subseteq DOMAIN queue \cup {e}
  BY <1>2 DEF Expired, Restrict
<1>4. DOMAIN queue' = (DOMAIN queue \cup {e}) \ drop
  BY <1>1, <1>2 DEF Restrict
<1>5. e \notin DOMAIN queue \cup received \cup dropped
  BY DEF Submit, UpstreamInv, NoSilentLoss
<1>6. received' = received /\ dropped' = dropped \cup drop
  BY <1>1 DEF Submit
<1> HIDE DEF drop
<1>7. SAF!Accept(e, drop)
  BY <1>3, <1>4, <1>5, <1>6 DEF SAF!Accept, SAF!Known
<1> QED
  BY <1>3, <1>7 DEF SAF!Next

\* Every step of the client is a step of the abstract specification.
LEMMA StepRefines ==
  UpstreamInv /\ [Next]_vars => [SAF!Next]_(SAF!vars)
<1> SUFFICES ASSUME UpstreamInv, [Next]_vars
             PROVE  SAF!Next \/ UNCHANGED <<DOMAIN queue, received, dropped>>
  BY DEF SAF!vars
<1>1. CASE SubmitNext
  <2>1. CASE \E t \in Threads, e \in Events, lag \in 0..LockTimeout : Submit(t, e, lag)
    BY <2>1, SubmitAccepts
  <2>2. CASE \E t \in Threads : SubmitWakes(t)
    BY <2>2 DEF SubmitWakes, history
  <2> QED
    BY <1>1, <2>1, <2>2 DEF SubmitNext
<1>2. CASE PostConfirmed \/ PostUncertain
  <2>1. /\ item \in Events
        /\ item \in DOMAIN queue \cup received \cup dropped
    BY <1>2 DEF PostConfirmed, PostUncertain, UpstreamInv, HeldItem, TypeOK, NoSilentLoss
  <2>2. SAF!Deliver(item)
    BY <1>2, <2>1 DEF PostConfirmed, PostUncertain, history, SAF!Deliver, SAF!Known
  <2> QED
    BY <2>1, <2>2 DEF SAF!Next
<1>3. CASE WorkerDeletes
  <2>1. /\ item \in Events /\ item \in received
        /\ DOMAIN queue' = DOMAIN queue \ {item}
        /\ UNCHANGED <<received, dropped>>
    BY <1>3 DEF WorkerDeletes, UpstreamInv, HeldItem, TypeOK, Restrict, history
  <2>2. CASE item \in DOMAIN queue
    <3>1. SAF!Confirm(item)
      BY <2>1, <2>2 DEF SAF!Confirm
    <3> QED
      BY <2>1, <3>1 DEF SAF!Next
  <2>3. CASE item \notin DOMAIN queue
    BY <2>1, <2>3
  <2> QED
    BY <2>2, <2>3
<1>4. CASE WorkerPicks \/ WorkerWaits \/ WorkerResumes \/ WorkerClears \/ PostFails
  BY <1>4 DEF WorkerPicks, WorkerWaits, WorkerResumes, WorkerClears, PostFails, history
<1>5. CASE WorkerPostpones
  BY <1>5 DEF WorkerPostpones, history
<1>6. CASE Tick
  BY <1>6 DEF Tick, history
<1>7. CASE WorkerDies \/ Crash \/ Start
  BY <1>7 DEF WorkerDies, Crash, Start, history
<1>8. CASE UNCHANGED vars
  BY <1>8 DEF vars
<1> QED
  BY <1>1, <1>2, <1>3, <1>4, <1>5, <1>6, <1>7, <1>8 DEF Next, WorkerNext

\* The client implements the abstract store-and-forward output.
THEOREM Refinement == Spec => ImplementsStoreAndForward
<1>1. Init => SAF!Init
  BY DEF Init, SAF!Init
<1> QED
  BY <1>1, StepRefines, UpstreamInvariant, PTL DEF Spec, SAF!Spec, ImplementsStoreAndForward

(***************************************************************************)
(* The size of the table                                                   *)
(***************************************************************************)

\* A set of subsets of a finite set has a least member.  (The library's
\* induction theorems cannot be used here; its minimum theorem can.)
LEMMA SmallestSet ==
  ASSUME NEW S, IsFiniteSet(S), NEW F, F \subseteq SUBSET S, F # {}
  PROVE  \E s \in F : \A t \in F : t \subseteq s => t = s
<1> DEFINE R == StrictSubsetOrdering(S)
<1>1. IsWellFoundedOn(R, SUBSET S)
  BY FS_StrictSubsetOrderingWellFounded, FS_FiniteSubsetsOfFinite
<1>2. PICK s \in F : \A t \in F : ~(<<t, s>> \in R)
  BY <1>1, WFMin
<1>3. ASSUME NEW t \in F, t \subseteq s, t # s PROVE FALSE
  <2>1. /\ <<t, s>> \in (SUBSET S) \X (SUBSET S)
        /\ <<t, s>>[1] \subseteq <<t, s>>[2]
        /\ <<t, s>>[1] # <<t, s>>[2]
    BY <1>3
  <2>2. <<t, s>> \in R
    BY <2>1 DEF StrictSubsetOrdering
  <2> QED
    BY <1>2, <2>2
<1> QED
  BY <1>3

\* SELECT SUM(size_bytes), row by row: the recursive function that the
\* library's fold stands for, its element chosen at each step.
AnyOf(s) == CHOOSE x \in s : TRUE
Adds(g, S) ==
  g = [s \in SUBSET S |-> IF s = {} THEN 0 ELSE Size[AnyOf(s)] + g[s \ {AnyOf(s)}]]

LEMMA BytesIsSum ==
  ASSUME NEW S
  PROVE  Bytes(S) = (CHOOSE g : Adds(g, S))[S]
BY DEF Bytes, SumFunctionOnSet, FoldFunctionOnSet, MapThenFoldSet, Adds, AnyOf

LEMMA AnyOfIn ==
  ASSUME NEW s, s # {}
  PROVE  AnyOf(s) \in s
BY DEF AnyOf

\* Two such functions agree where both are defined.
LEMMA AddsAgree ==
  ASSUME NEW S, IsFiniteSet(S), NEW T, IsFiniteSet(T),
         NEW g, Adds(g, S), NEW h, Adds(h, T)
  PROVE  \A s \in SUBSET (S \cap T) : g[s] = h[s]
<1> DEFINE F == {s \in SUBSET (S \cap T) : g[s] # h[s]}
<1> SUFFICES ASSUME F # {} PROVE FALSE
  OBVIOUS
<1>1. IsFiniteSet(S \cap T)
  BY FS_Subset, S \cap T \subseteq S
<1>2. PICK s \in F : \A t \in F : t \subseteq s => t = s
  <2>1. F \subseteq SUBSET (S \cap T)
    OBVIOUS
  <2> HIDE DEF F
  <2> QED
    BY <1>1, <2>1, SmallestSet
<1>3. s \in SUBSET S /\ s \in SUBSET T /\ g[s] # h[s]
  OBVIOUS
<1>4. /\ g[s] = IF s = {} THEN 0 ELSE Size[AnyOf(s)] + g[s \ {AnyOf(s)}]
      /\ h[s] = IF s = {} THEN 0 ELSE Size[AnyOf(s)] + h[s \ {AnyOf(s)}]
  BY <1>3, Zenon DEF Adds
<1>5. s # {}
  BY <1>3, <1>4
<1> DEFINE r == s \ {AnyOf(s)}
<1>6. r \subseteq s /\ r # s
  BY <1>5, AnyOfIn
<1>7. r \in SUBSET (S \cap T) /\ g[r] = h[r]
  BY <1>2, <1>6
<1> QED
  BY <1>3, <1>4, <1>5, <1>7

\* Every finite set has one; so its sum is the size of a row and the sum of
\* the others.
LEMMA AddsExists ==
  ASSUME NEW S, IsFiniteSet(S)
  PROVE  \E g : Adds(g, S)
<1> DEFINE F == {s \in SUBSET S : ~ \E g : Adds(g, s)}
<1> SUFFICES ASSUME F # {} PROVE FALSE
  OBVIOUS
<1>1. PICK s \in F : \A t \in F : t \subseteq s => t = s
  <2>1. F \subseteq SUBSET S
    OBVIOUS
  <2> HIDE DEF F
  <2> QED
    BY <2>1, SmallestSet
<1>2. s \in SUBSET S /\ ~ \E g : Adds(g, s)
  OBVIOUS
<1>3. ASSUME NEW t \in SUBSET s, t # s
      PROVE  \E g : Adds(g, t)
  BY <1>1, <1>2, <1>3
<1>4. ASSUME NEW t \in SUBSET s, t # s
      PROVE  Adds(CHOOSE g : Adds(g, t), t) /\ IsFiniteSet(t)
  BY <1>2, <1>3, <1>4, FS_Subset
<1> DEFINE val(t) == IF t = {} THEN 0
                     ELSE Size[AnyOf(t)] + Bytes(t \ {AnyOf(t)})
           f == [t \in SUBSET s |-> val(t)]
<1>5. ASSUME NEW t \in SUBSET s, t # s
      PROVE  f[t] = Bytes(t)
  <2> DEFINE g == CHOOSE x : Adds(x, t)
             r == t \ {AnyOf(t)}
             h == CHOOSE x : Adds(x, r)
  <2>1. Adds(g, t) /\ IsFiniteSet(t) /\ Bytes(t) = g[t]
    BY <1>4, <1>5, BytesIsSum
  <2>2. g[t] = IF t = {} THEN 0 ELSE Size[AnyOf(t)] + g[r]
    <3> HIDE DEF g
    <3> QED
      BY <2>1, t \in SUBSET t, Zenon DEF Adds
  <2>3. CASE t = {}
    BY <2>1, <2>2, <2>3
  <2>4. CASE t # {}
    <3>1. r \subseteq s /\ r # s /\ r \subseteq t
      BY <1>5
    <3>2. Adds(h, r) /\ IsFiniteSet(r) /\ Bytes(r) = h[r]
      BY <1>4, <3>1, BytesIsSum
    <3> HIDE DEF g, h
    <3>3. g[r] = h[r]
      BY <2>1, <3>1, <3>2, AddsAgree
    <3> QED
      BY <2>1, <2>2, <2>4, <3>2, <3>3
  <2> QED
    BY <2>3, <2>4
<1>6. ASSUME NEW t \in SUBSET s, t # {}
      PROVE  f[t \ {AnyOf(t)}] = Bytes(t \ {AnyOf(t)})
  <2>1. t \ {AnyOf(t)} \in SUBSET s /\ t \ {AnyOf(t)} # s
    BY <1>6, AnyOfIn
  <2> HIDE DEF f
  <2> QED
    BY <1>5, <2>1
<1> DEFINE e == [t \in SUBSET s |-> IF t = {} THEN 0
                                    ELSE Size[AnyOf(t)] + f[t \ {AnyOf(t)}]]
<1>7. ASSUME NEW t \in SUBSET s
      PROVE  f[t] = e[t]
  <2>1. f[t] = val(t)
    OBVIOUS
  <2>2. e[t] = IF t = {} THEN 0 ELSE Size[AnyOf(t)] + f[t \ {AnyOf(t)}]
    <3> HIDE DEF f
    <3> QED
      OBVIOUS
  <2> HIDE DEF f, e
  <2> QED
    BY <1>6, <2>1, <2>2
<1>8. f = e
  <2>1. f = [t \in SUBSET s |-> f[t]]
    OBVIOUS
  <2>2. e = [t \in SUBSET s |-> e[t]]
    <3> HIDE DEF f
    <3> QED
      OBVIOUS
  <2> HIDE DEF f, e
  <2> QED
    BY <1>7, <2>1, <2>2, Zenon
<1>9. Adds(f, s)
  BY <1>8, Zenon DEF Adds
<1> QED
  BY <1>2, <1>9

LEMMA BytesStep ==
  ASSUME NEW S, IsFiniteSet(S)
  PROVE  Bytes(S) = IF S = {} THEN 0
                    ELSE Size[AnyOf(S)] + Bytes(S \ {AnyOf(S)})
<1> DEFINE g == CHOOSE x : Adds(x, S)
           R == S \ {AnyOf(S)}
           h == CHOOSE x : Adds(x, R)
<1>1. IsFiniteSet(R)
  BY FS_Subset, R \subseteq S
<1>2. Adds(g, S) /\ Bytes(S) = g[S]
  BY AddsExists, BytesIsSum
<1>3. Adds(h, R) /\ Bytes(R) = h[R]
  BY <1>1, AddsExists, BytesIsSum
<1> HIDE DEF g, h
<1>4. g[R] = h[R]
  BY <1>1, <1>2, <1>3, AddsAgree
<1>5. g[S] = IF S = {} THEN 0 ELSE Size[AnyOf(S)] + g[R]
  BY <1>2, S \in SUBSET S, Zenon DEF Adds
<1> QED
  BY <1>2, <1>3, <1>4, <1>5

\* The sum of sizes is a natural number ...
LEMMA BytesNat ==
  ASSUME NEW S \in SUBSET Events, IsFiniteSet(S)
  PROVE  Bytes(S) \in Nat
<1> DEFINE F == {s \in SUBSET S : Bytes(s) \notin Nat}
<1> SUFFICES ASSUME F # {} PROVE FALSE
  OBVIOUS
<1>1. PICK s \in F : \A t \in F : t \subseteq s => t = s
  <2>1. F \subseteq SUBSET S
    OBVIOUS
  <2> HIDE DEF F
  <2> QED
    BY <2>1, SmallestSet
<1>2. IsFiniteSet(s) /\ Bytes(s) \notin Nat
  BY FS_Subset
<1>3. s # {}
  <2>1. s = {} => Bytes(s) = 0
    BY <1>2, BytesStep
  <2> QED
    BY <1>2, <2>1
<1> DEFINE r == s \ {AnyOf(s)}
<1>4. AnyOf(s) \in s /\ AnyOf(s) \in Events
  BY <1>3, AnyOfIn
<1>5. r \in SUBSET S /\ Bytes(r) \in Nat
  BY <1>1, <1>4
<1>6. Bytes(s) = Size[AnyOf(s)] + Bytes(r)
  BY <1>2, <1>3, BytesStep
<1>7. Size[AnyOf(s)] \in Nat
  BY <1>4, UpstreamAssumption
<1> QED
  BY <1>2, <1>5, <1>6, <1>7

\* ... that loses the size of a row, whichever, when the row is deleted.
LEMMA BytesLess ==
  ASSUME NEW S \in SUBSET Events, IsFiniteSet(S), NEW x \in S
  PROVE  Bytes(S) = Size[x] + Bytes(S \ {x})
<1> DEFINE F == {s \in SUBSET S : \E y \in s : Bytes(s) # Size[y] + Bytes(s \ {y})}
<1> SUFFICES ASSUME F # {} PROVE FALSE
  OBVIOUS
<1>1. PICK s \in F : \A t \in F : t \subseteq s => t = s
  <2>1. F \subseteq SUBSET S
    OBVIOUS
  <2> HIDE DEF F
  <2> QED
    BY <2>1, SmallestSet
<1>2. PICK y \in s : Bytes(s) # Size[y] + Bytes(s \ {y})
  OBVIOUS
<1> DEFINE p == AnyOf(s)
           r == s \ {p}
           q == s \ {y}
           b == r \ {y}
<1>3. p \in s /\ p \in Events /\ y \in Events
  BY <1>2, AnyOfIn
<1>4. IsFiniteSet(s) /\ IsFiniteSet(r) /\ IsFiniteSet(q) /\ IsFiniteSet(b)
  BY FS_Subset, s \subseteq S, r \subseteq S, q \subseteq S, b \subseteq S
<1>5. Bytes(s) = Size[p] + Bytes(r)
  BY <1>2, <1>4, BytesStep
<1>6. p # y
  BY <1>2, <1>5
<1>7. /\ r \in SUBSET S /\ r # s /\ y \in r
      /\ q \in SUBSET S /\ q # s /\ p \in q
      /\ b = q \ {p}
  BY <1>2, <1>3, <1>6
<1> HIDE DEF p, r, q, b
<1>8. Bytes(r) = Size[y] + Bytes(b)
  BY <1>1, <1>7 DEF r, b
<1>9. Bytes(q) = Size[p] + Bytes(b)
  BY <1>1, <1>7 DEF q
<1>10. Size[p] \in Nat /\ Size[y] \in Nat /\ Bytes(b) \in Nat
  BY <1>3, <1>4, <1>7, BytesNat, UpstreamAssumption
<1>11. Bytes(s) = Size[y] + Bytes(q)
  BY <1>5, <1>8, <1>9, <1>10
<1> QED
  BY <1>2, <1>11 DEF q

LEMMA BytesWithout ==
  ASSUME NEW S \in SUBSET Events, IsFiniteSet(S), NEW x
  PROVE  Bytes(S \ {x}) =< Bytes(S)
<1>1. CASE x \in S
  <2>1. IsFiniteSet(S \ {x})
    BY FS_Subset, S \ {x} \subseteq S
  <2>2. Bytes(S \ {x}) \in Nat /\ Bytes(S) \in Nat /\ Size[x] \in Nat
    BY <1>1, <2>1, BytesNat, UpstreamAssumption
  <2>3. Bytes(S) = Size[x] + Bytes(S \ {x})
    BY <1>1, BytesLess
  <2> QED
    BY <2>2, <2>3
<1>2. CASE x \notin S
  <2>1. S \ {x} = S
    BY <1>2
  <2> QED
    BY <2>1, BytesNat
<1> QED
  BY <1>1, <1>2

\* The invariant of the table's size: the table is finite, which Events need
\* not be, and within the limit.
TableInv ==
  /\ UpstreamInv
  /\ IsFiniteSet(DOMAIN queue)
  /\ SizeLimit

LEMMA InitTable == Init => TableInv
<1> SUFFICES ASSUME Init PROVE TableInv
  OBVIOUS
<1>1. DOMAIN queue = {}
  BY DEF Init
<1>2. IsFiniteSet({})
  BY FS_EmptySet
<1>3. Bytes({}) = 0
  BY <1>2, BytesStep
<1>4. SizeLimit
  BY <1>1, <1>3, UpstreamAssumption DEF SizeLimit
<1> QED
  BY <1>1, <1>2, <1>4, InitInv DEF TableInv

\* The loop of _prune ends within the limit, whatever the new event is.
LEMMA SubmitTable ==
  ASSUME TableInv, NEW t \in Threads, NEW e \in Events,
         NEW lag \in 0..LockTimeout, Submit(t, e, lag)
  PROVE  IsFiniteSet(DOMAIN queue') /\ SizeLimit'
<1> DEFINE q1 == Inserted(queue, e, lag)
           q2 == Restrict(q1, DOMAIN q1 \ Expired(q1, lag))
<1>1. PICK D \in SUBSET DOMAIN q2 :
        /\ Overflows(q2, D)
        /\ queue' = Restrict(q2, DOMAIN q2 \ D)
  BY DEF Submit
<1>2. DOMAIN q1 = DOMAIN queue \cup {e}
  BY DEF Inserted
<1>3. DOMAIN q2 = DOMAIN q1 \ Expired(q1, lag)
  BY DEF Restrict
<1> HIDE DEF q1, q2
<1>4. DOMAIN queue' = DOMAIN q2 \ D
  BY <1>1 DEF Restrict
<1>5. IsFiniteSet(DOMAIN queue')
  <2>1. IsFiniteSet(DOMAIN queue \cup {e})
    BY FS_AddElement DEF TableInv
  <2>2. DOMAIN queue' \subseteq DOMAIN queue \cup {e}
    BY <1>2, <1>3, <1>4
  <2> QED
    BY <2>1, <2>2, FS_Subset
<1>6. Bytes(DOMAIN queue') =< MaxBytes
  BY <1>1, <1>4 DEF Overflows
<1> QED
  BY <1>5, <1>6 DEF SizeLimit

\* Every step keeps the table within the limit: it grows by a submit only.
LEMMA NextTable == TableInv /\ [Next]_vars => TableInv'
<1> SUFFICES ASSUME TableInv, [Next]_vars
             PROVE  TableInv'
  OBVIOUS
<1>1. UpstreamInv'
  BY NextInv DEF TableInv
<1>2. CASE \E t \in Threads, e \in Events, lag \in 0..LockTimeout : Submit(t, e, lag)
  BY <1>1, <1>2, SubmitTable DEF TableInv
<1>3. CASE WorkerDeletes
  <2>1. DOMAIN queue' = DOMAIN queue \ {item}
    BY <1>3 DEF WorkerDeletes, Restrict
  <2>2. DOMAIN queue \in SUBSET Events /\ IsFiniteSet(DOMAIN queue)
    BY DEF TableInv, UpstreamInv, TypeOK
  <2>3. IsFiniteSet(DOMAIN queue')
    BY <2>1, <2>2, FS_Subset
  <2>4. Bytes(DOMAIN queue') =< Bytes(DOMAIN queue)
    BY <2>1, <2>2, BytesWithout
  <2>5. Bytes(DOMAIN queue) \in Nat /\ Bytes(DOMAIN queue') \in Nat
    BY <2>1, <2>2, <2>3, BytesNat
  <2>6. Bytes(DOMAIN queue) =< MaxBytes
    BY DEF TableInv, SizeLimit
  <2>7. Bytes(DOMAIN queue') =< MaxBytes
    BY <2>4, <2>5, <2>6, UpstreamAssumption
  <2> QED
    BY <1>1, <2>3, <2>7 DEF TableInv, SizeLimit
<1>4. ASSUME DOMAIN queue' = DOMAIN queue
      PROVE  TableInv'
  BY <1>1, <1>4 DEF TableInv, SizeLimit
<1>5. CASE WorkerPostpones \/ Tick
  <2>1. DOMAIN queue' = DOMAIN queue
    BY <1>5 DEF WorkerPostpones, Tick
  <2> QED
    BY <1>4, <2>1
<1>6. CASE UNCHANGED queue
  BY <1>4, <1>6
<1>7. CASE \/ \E t \in Threads : SubmitWakes(t)
           \/ WorkerPicks \/ WorkerWaits \/ WorkerResumes \/ WorkerClears
           \/ PostConfirmed \/ PostUncertain \/ PostFails
           \/ WorkerDies \/ Crash \/ Start \/ UNCHANGED vars
  <2>1. UNCHANGED queue
    BY <1>7 DEF SubmitWakes, WorkerPicks, WorkerWaits, WorkerResumes, WorkerClears,
       PostConfirmed, PostUncertain, PostFails, WorkerDies, Crash, Start, vars
  <2> QED
    BY <1>6, <2>1
<1> QED
  BY <1>2, <1>3, <1>5, <1>7 DEF Next, SubmitNext, WorkerNext

\* The table stays within queue_max_mb: no submit leaves it above, no crash
\* and no restart brings it back above (lines 125-135).
THEOREM TableWithinLimit == Spec => []SizeLimit
<1>1. TableInv => SizeLimit
  BY DEF TableInv
<1> QED
  BY <1>1, InitTable, NextTable, PTL DEF Spec

=============================================================================
