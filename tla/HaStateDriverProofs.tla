------------------------- MODULE HaStateDriverProofs -------------------------
(***************************************************************************)
(* Proofs about HaStateDriver: the inductive invariant HaInv and what it   *)
(* implies, for any entities and states, any number of triggers and any    *)
(* limit of the back-off.                                                  *)
(***************************************************************************)
EXTENDS HaStateDriver, TLAPS

\* The bounds are numbers.
LEMMA Bounds ==
  ASSUME HaAssumption
  PROVE  MaxRetry \in Nat \ {0} /\ MaxTriggers \in Nat
BY DEF HaAssumption

\* A wire of triggers may be empty, and the number of a trigger is in bounds.
LEMMA WireOfTriggers ==
  /\ <<>> \in Seq(Triggers)
  /\ \A t \in Triggers : t.n \in 1..MaxTriggers
BY DEF Triggers

\* No connection, nothing on its way: the invariant holds at the start.
LEMMA InitInv ==
  ASSUME HaAssumption, Init
  PROVE  HaInv
<1>1. wire = <<>> /\ Len(wire) = 0 /\ wire \in Seq(Triggers) /\ owed = {}
  BY DEF Init
<1>2. TypeOK
  <2>1. 1 \in 1..MaxRetry /\ 0 \in 0..MaxRetry /\ 0 \in 0..MaxTriggers
    BY Bounds
  <2>2. made = 0 /\ last = 0 /\ owed \subseteq 1..made /\ 0 \in 0..0
    BY <1>1 DEF Init
  <2>3. core \in BOOLEAN /\ link \in BOOLEAN
    BY Zenon DEF Init
  <2> QED
    BY <1>1, <2>1, <2>2, <2>3 DEF Init, TypeOK
<1>3. InOrder /\ (\A i \in 1..Len(wire) : wire[i].n =< made) /\ OwedOnTheWay
  BY <1>1 DEF InOrder, OwedOnTheWay
<1> QED
  BY <1>1, <1>2, <1>3 DEF Init, HaInv

\* A trigger gets a number above all others; it is put on the wire if it may
\* become owed.
LEMMA TriggerInv ==
  ASSUME HaAssumption, HaInv, NEW e \in Entities, NEW new \in States, Trigger(e, new)
  PROVE  HaInv'
<1> DEFINE t == [n |-> made + 1, entity |-> e, old |-> actual[e], new |-> new]
<1> USE DEF HaInv
<1>1. /\ made < MaxTriggers
      /\ made' = made + 1
      /\ actual' = [actual EXCEPT ![e] = new]
      /\ wire' = IF Subscribed THEN Append(wire, t) ELSE wire
      /\ owed' = IF Subscribed /\ Announceable(t) THEN owed \cup {made + 1} ELSE owed
      /\ UNCHANGED <<core, link, phase, retry, wait, last>>
  BY DEF Trigger
<1>2. made \in Nat /\ MaxTriggers \in Nat /\ made + 1 \in 1..MaxTriggers
  BY <1>1 DEF TypeOK, HaAssumption
<1>3. t \in Triggers /\ t.n = made + 1
  BY <1>2 DEF TypeOK, Triggers
<1> HIDE DEF t
<1>4. /\ wire \in Seq(Triggers) /\ Len(wire) \in Nat
      /\ wire' \in Seq(Triggers)
      /\ \A i \in 1..Len(wire) : i \in 1..Len(wire') /\ wire'[i] = wire[i]
      /\ \A i \in 1..Len(wire') :
           i \in 1..Len(wire) \/ (wire'[i] = t /\ i = Len(wire) + 1)
  BY <1>1, <1>3 DEF TypeOK
<1>5. TypeOK'
  BY <1>1, <1>2, <1>4, Bounds DEF TypeOK
<1>6. /\ \A i \in 1..Len(wire) : wire[i].n \in 1..made /\ wire[i].n > last
      /\ last \in 0..made
  <2>1. \A i \in 1..Len(wire) : wire[i] \in Triggers
    BY <1>4
  <2> QED
    BY <2>1, <1>2, WireOfTriggers DEF InOrder, TypeOK
<1>7. \A i \in 1..Len(wire') :
        wire'[i].n \in 1..made' /\ wire'[i].n > last'
  BY <1>1, <1>2, <1>3, <1>4, <1>6
<1>8. \A i, j \in 1..Len(wire') : i < j => wire'[i].n < wire'[j].n
  <2> SUFFICES ASSUME NEW i \in 1..Len(wire'), NEW j \in 1..Len(wire'), i < j
               PROVE  wire'[i].n < wire'[j].n
    OBVIOUS
  <2>1. i \in 1..Len(wire)
    BY <1>4
  <2>2. CASE j \in 1..Len(wire)
    BY <1>4, <2>1, <2>2 DEF InOrder
  <2>3. CASE wire'[j] = t
    BY <1>2, <1>3, <1>4, <1>6, <2>1, <2>3
  <2> QED
    BY <1>4, <2>2, <2>3
<1>9. OwedOnTheWay'
  BY <1>1, <1>3, <1>4 DEF OwedOnTheWay
<1>10. Subscribed' = Subscribed
  BY <1>1 DEF Subscribed
<1>11. owed' # {} => Subscribed'
  BY <1>1, <1>10
<1>12. wire' # <<>> => phase' = "listen"
  BY <1>1 DEF Subscribed
<1>13. InOrder' /\ (\A i \in 1..Len(wire') : wire'[i].n =< made')
  BY <1>1, <1>2, <1>7, <1>8 DEF InOrder
<1>14. phase' \in {"down", "connect", "sleep"} => ~link'
  BY <1>1, Zenon
<1> QED
  BY <1>5, <1>9, <1>11, <1>12, <1>13, <1>14

\* The end of a connection clears what is owed and loses what has not arrived.
LEMMA ClosedInv ==
  ASSUME HaAssumption, HaInv, CoreStops \/ Refused
  PROVE  HaInv'
<1> USE DEF HaInv
<1>1. /\ link' = FALSE
      /\ owed' = {}
      /\ wire' \in {wire, <<>>}
      /\ phase' = phase \/ (phase \in {"auth", "subscribe"} /\ phase' = "sleep")
      /\ wait' \in {wait, retry}
      /\ core' \in {core, FALSE}
      /\ UNCHANGED <<actual, made, retry, last>>
  BY DEF CoreStops, Refused, Closed, ha
<1>2. TypeOK'
  <2>1. wire' \in Seq(Triggers)
    BY <1>1, WireOfTriggers DEF TypeOK
  <2>2. wait' \in 0..MaxRetry
    BY <1>1, Bounds DEF TypeOK
  <2>3. core' \in BOOLEAN
    BY <1>1, Zenon DEF TypeOK
  <2> QED
    BY <1>1, <2>1, <2>2, <2>3 DEF TypeOK
<1>3. CASE wire' = wire
  BY <1>1, <1>2, <1>3 DEF InOrder, OwedOnTheWay
<1>4. CASE wire' = <<>>
  BY <1>1, <1>2, <1>4 DEF InOrder, OwedOnTheWay
<1> QED
  BY <1>1, <1>3, <1>4

\* The message that is read is the oldest: what is left has higher numbers.
LEMMA ReadInv ==
  ASSUME HaAssumption, HaInv, Read
  PROVE  HaInv'
<1> DEFINE t == Head(wire)
<1> USE DEF HaInv
<1>1. /\ phase = "listen" /\ wire # <<>>
      /\ wire' = Tail(wire)
      /\ IF Announceable(t) THEN last' = t.n /\ owed' = owed \ {t.n}
                            ELSE last' = last /\ owed' = owed
      /\ UNCHANGED <<core, actual, made, link, phase, retry, wait>>
  BY DEF Read, ha, history
<1>2. /\ wire \in Seq(Triggers)
      /\ t = wire[1] /\ t \in Triggers
      /\ Len(wire) \in Nat /\ 1 \in 1..Len(wire)
  BY <1>1 DEF TypeOK
<1> HIDE DEF t
<1>3. /\ wire' \in Seq(Triggers)
      /\ Len(wire') = Len(wire) - 1
      /\ \A i \in 1..Len(wire') : i + 1 \in 1..Len(wire) /\ wire'[i] = wire[i + 1]
  BY <1>1, <1>2
<1>4. /\ \A i \in 1..Len(wire) : wire[i] \in Triggers /\ wire[i].n \in Nat
      /\ last \in Nat /\ made \in Nat
  <2>1. \A i \in 1..Len(wire) : wire[i] \in Triggers
    BY <1>2
  <2> QED
    BY <2>1, Bounds, WireOfTriggers DEF TypeOK
<1>5. last' \in last..made /\ owed' \subseteq owed
  BY <1>1, <1>2, <1>4 DEF InOrder
<1>6. TypeOK'
  BY <1>1, <1>3, <1>4, <1>5 DEF TypeOK
<1>7. \A i \in 1..Len(wire') : wire'[i].n > last'
  BY <1>1, <1>2, <1>3, <1>4 DEF InOrder
<1>8. \A i, j \in 1..Len(wire') : i < j => wire'[i].n < wire'[j].n
  <2> SUFFICES ASSUME NEW i \in 1..Len(wire'), NEW j \in 1..Len(wire'), i < j
               PROVE  wire'[i].n < wire'[j].n
    OBVIOUS
  <2>1. i + 1 \in 1..Len(wire) /\ j + 1 \in 1..Len(wire) /\ i + 1 < j + 1
    BY <1>2, <1>3
  <2> QED
    BY <1>3, <2>1 DEF InOrder
<1>9. \A i \in 1..Len(wire') : wire'[i].n =< made'
  BY <1>1, <1>3
<1>10. OwedOnTheWay'
  <2> SUFFICES ASSUME NEW n \in owed'
               PROVE  \E i \in 1..Len(wire') : wire'[i].n = n /\ Announceable(wire'[i])
    BY DEF OwedOnTheWay, Announceable
  <2>1. PICK i \in 1..Len(wire) : wire[i].n = n /\ Announceable(wire[i])
    BY <1>5 DEF OwedOnTheWay
  <2>2. i # 1
    BY <1>1, <1>2, <2>1
  <2>3. i - 1 \in 1..Len(wire') /\ wire'[i - 1] = wire[i]
    BY <1>2, <1>3, <2>2
  <2> QED
    BY <2>1, <2>3
<1>11. owed' # {} => Subscribed'
  BY <1>1, <1>5 DEF Subscribed
<1> QED
  BY <1>1, <1>6, <1>7, <1>8, <1>9, <1>10, <1>11 DEF InOrder

\* The other steps of the thread and of the process: the wire is as it was, or
\* empty together with what is owed.
LEMMA QuietStepInv ==
  ASSUME HaAssumption, HaInv,
         \/ CoreStarts
         \/ Connect \/ Authenticate \/ Subscribe
         \/ Interrupted \/ Wake \/ Tick
         \/ Crash \/ Start
  PROVE  HaInv'
<1> USE DEF HaInv
<1>1. /\ UNCHANGED <<actual, made, last>>
      /\ core' \in {core, TRUE}
      /\ owed' = owed \/ owed' = {}
      /\ wire' = wire \/ wire' = <<>>
  BY DEF CoreStarts, Connect, Authenticate, Subscribe, Interrupted, Wake, Tick, Crash,
     Start, ha, history
<1>2. /\ link' \in BOOLEAN
      /\ phase' \in {"down", "connect", "auth", "subscribe", "listen", "sleep"}
  BY DEF CoreStarts, Connect, Authenticate, Subscribe, Interrupted, Wake, Tick, Crash,
     Start, TypeOK
<1>3. /\ retry' \in {retry, 1, Least(2 * retry, MaxRetry)}
      /\ wait' \in {wait, retry, 0} \/ (wait > 0 /\ wait' = wait - 1)
  BY DEF CoreStarts, Connect, Authenticate, Subscribe, Interrupted, Wake, Tick, Crash,
     Start
<1>4. retry' \in 1..MaxRetry /\ wait' \in 0..MaxRetry
  BY <1>3, Bounds DEF TypeOK, Least
<1>5. wire' \in Seq(Triggers)
  BY <1>1, WireOfTriggers DEF TypeOK
<1>6. TypeOK'
  BY <1>1, <1>2, <1>4, <1>5 DEF TypeOK
<1>7. /\ owed' # {} => owed' = owed /\ wire' = wire /\ Subscribed'
      /\ wire' # <<>> => phase' = "listen"
      /\ phase' \in {"down", "connect", "sleep"} => ~link'
  BY DEF CoreStarts, Connect, Authenticate, Subscribe, Interrupted, Wake, Tick, Crash,
     Start, ha, history, Subscribed
<1>8. InOrder' /\ (\A i \in 1..Len(wire') : wire'[i].n =< made')
  BY <1>1 DEF InOrder
<1>9. OwedOnTheWay'
  BY <1>1, <1>7 DEF OwedOnTheWay
<1> QED
  BY <1>7, <1>8, <1>9, <1>6

\* Every step keeps the invariant.
LEMMA NextInv ==
  ASSUME HaAssumption, HaInv, [Next]_vars
  PROVE  HaInv'
<1>1. CASE Next
  BY <1>1, TriggerInv, ClosedInv, ReadInv, QuietStepInv DEF Next, ThreadNext
<1>2. CASE UNCHANGED vars
  BY <1>2 DEF vars, ha, history, HaInv, TypeOK, InOrder, OwedOnTheWay, Subscribed,
     Announceable
<1> QED
  BY <1>1, <1>2

\* Every reachable state satisfies the invariant of the driver.
THEOREM HaInvariant ==
  ASSUME HaAssumption
  PROVE  Spec => []HaInv
<1>1. Init => HaInv
  BY InitInv
<1>2. HaInv /\ [Next]_vars => HaInv'
  BY NextInv
<1> QED
  BY <1>1, <1>2, PTL DEF Spec

\* The variables keep their types: in particular the back-off stays between one
\* tick and its limit (line 166).
THEOREM HaTypeCorrect ==
  ASSUME HaAssumption
  PROVE  Spec => []TypeOK
<1>1. HaInv => TypeOK
  BY DEF HaInv
<1> QED
  BY <1>1, HaInvariant, PTL

\* Transitions are announced in their order, none twice, and none is lost while
\* the subscription lasts, across any losses of the connection and restarts of
\* the process (lines 71-155).
THEOREM TransitionsToldAsMade ==
  ASSUME HaAssumption
  PROVE  Spec => []TransitionsTold
<1>1. HaInv => TransitionsTold
  BY DEF HaInv, TransitionsTold, OwedOnTheWay, NothingMissed
<1> QED
  BY <1>1, HaInvariant, PTL

=============================================================================
