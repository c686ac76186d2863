-------------------------- MODULE EvoPollingProofs --------------------------
(***************************************************************************)
(* Proofs about EvoPolling: PollingInv is inductive, for any readers, any  *)
(* number of records and any intervals; hence no record is handled twice,  *)
(* none is skipped without a reason, and availability is announced as it   *)
(* is kept.                                                                *)
(***************************************************************************)
EXTENDS EvoPolling, TLAPS

\* calculate_backoff returns between 1 and max_retry_interval (lines
\* 1417-1430).
LEMMA BackoffRange ==
  ASSUME NEW n \in 1..FailureCap
  PROVE  Backoff(n) \in 1..MaxRetry
<1>1. n \in 1..9
  BY PollingAssumption
<1>2. PowerOfTwo[n] \in Nat \ {0}
  BY <1>1 DEF PowerOfTwo
<1>3. PollInterval * PowerOfTwo[n] \in Nat \ {0}
  BY <1>2, PollingAssumption
<1> QED
  BY <1>3, PollingAssumption DEF Backoff, Least

\* Posting entities changes entities, and to known values only.
LEMMA PublishType ==
  ASSUME TypeOK, NEW S \in SUBSET Readers, NEW rt, Publish(S, rt)
  PROVE  entity' \in [Readers -> {"absent", "on", "off"}]
BY DEF TypeOK, Publish, Shown

\* What the types say of the availability of one reader.
RuntimeType == [failures : 0..FailureCap, wait : 0..MaxRetry,
                offline : BOOLEAN, status : Statuses]

\* mark_reader_offline keeps flags, events and back-off in agreement.
LEMMA MarkOfflineSound ==
  ASSUME TypeOK, AvailabilitySound, NEW r \in Readers, MarkOffline(r)
  PROVE  /\ runtime' \in [Readers -> RuntimeType]
         /\ balance' \in [Readers -> Int]
         /\ entity' \in [Readers -> {"absent", "on", "off"}]
         /\ AvailabilitySound'
<1> DEFINE n == Least(FailureCap, runtime[r].failures + 1)
           new == [failures |-> n, wait |-> Backoff(n), offline |-> TRUE,
                   status |-> "offline"]
<1>1. n \in 1..FailureCap
  BY PollingAssumption DEF TypeOK, Least
<1>2. Backoff(n) \in 1..MaxRetry
  BY <1>1, BackoffRange
<1>3. new \in RuntimeType
  BY <1>1, <1>2, PollingAssumption DEF RuntimeType, Statuses
<1>4. runtime' = [runtime EXCEPT ![r] = new]
  BY DEF MarkOffline
<1>5. balance' = [balance EXCEPT ![r] = IF runtime[r].offline THEN @ ELSE @ + 1]
  BY DEF MarkOffline
<1>6. runtime' \in [Readers -> RuntimeType]
  BY <1>3, <1>4 DEF TypeOK, RuntimeType
<1>7. balance' \in [Readers -> Int]
  BY <1>5 DEF TypeOK
<1>8. entity' \in [Readers -> {"absent", "on", "off"}]
  BY PublishType DEF MarkOffline
<1>9. ASSUME NEW q \in Readers PROVE Availability(q)'
  <2>1. CASE q = r
    <3>1. runtime'[r] = new
      BY <1>4 DEF TypeOK
    <3>2. balance'[r] = 1
      BY <1>5 DEF TypeOK, AvailabilitySound, Availability
    <3> QED
      BY <1>1, <1>2, <2>1, <3>1, <3>2 DEF Availability
  <2>2. CASE q # r
    <3>1. runtime'[q] = runtime[q] /\ balance'[q] = balance[q]
      BY <1>4, <1>5, <2>2 DEF TypeOK
    <3> QED
      BY <3>1 DEF AvailabilitySound, Availability
  <2> QED
    BY <2>1, <2>2
<1> QED
  BY <1>6, <1>7, <1>8, <1>9 DEF AvailabilitySound

\* So does mark_reader_online.
LEMMA MarkOnlineSound ==
  ASSUME TypeOK, AvailabilitySound, NEW r \in Readers, MarkOnline(r)
  PROVE  /\ runtime' \in [Readers -> RuntimeType]
         /\ balance' \in [Readers -> Int]
         /\ entity' \in [Readers -> {"absent", "on", "off"}]
         /\ AvailabilitySound'
<1> DEFINE new == [failures |-> 0, wait |-> 0, offline |-> FALSE, status |-> "online"]
<1>1. new \in RuntimeType
  BY PollingAssumption DEF RuntimeType, Statuses
<1>2. runtime' = [runtime EXCEPT ![r] = new]
  BY DEF MarkOnline
<1>3. balance' = [balance EXCEPT ![r] = IF runtime[r].offline THEN @ - 1 ELSE @]
  BY DEF MarkOnline
<1>4. runtime' \in [Readers -> RuntimeType]
  BY <1>1, <1>2 DEF TypeOK, RuntimeType
<1>5. balance' \in [Readers -> Int]
  BY <1>3 DEF TypeOK
<1>6. entity' \in [Readers -> {"absent", "on", "off"}]
  <2>1. CASE runtime[r].status = "online"
    BY <2>1 DEF MarkOnline, TypeOK
  <2>2. CASE runtime[r].status # "online"
    BY <2>2, PublishType DEF MarkOnline
  <2> QED
    BY <2>1, <2>2
<1>7. ASSUME NEW q \in Readers PROVE Availability(q)'
  <2>1. CASE q = r
    <3>1. runtime'[r] = new
      BY <1>2 DEF TypeOK
    <3>2. balance'[r] = 0
      BY <1>3 DEF TypeOK, AvailabilitySound, Availability
    <3> QED
      BY <2>1, <3>1, <3>2 DEF Availability
  <2>2. CASE q # r
    <3>1. runtime'[q] = runtime[q] /\ balance'[q] = balance[q]
      BY <1>2, <1>3, <2>2 DEF TypeOK
    <3> QED
      BY <3>1 DEF AvailabilitySound, Availability
  <2> QED
    BY <2>1, <2>2
<1> QED
  BY <1>4, <1>5, <1>6, <1>7 DEF AvailabilitySound

\* Time shortens the waits and changes nothing else.
LEMMA TickSound ==
  ASSUME TypeOK, AvailabilitySound, Tick
  PROVE  /\ runtime' \in [Readers -> RuntimeType]
         /\ stale' \in 0..DashboardInterval
         /\ AvailabilitySound'
<1>1. ASSUME NEW q \in Readers
      PROVE  /\ runtime'[q] \in RuntimeType
             /\ Availability(q)'
  <2>1. /\ runtime'[q] = [failures |-> runtime[q].failures,
                          wait |-> IF runtime[q].wait > 0 THEN runtime[q].wait - 1 ELSE 0,
                          offline |-> runtime[q].offline, status |-> runtime[q].status]
        /\ balance'[q] = balance[q]
    BY DEF Tick, TypeOK, history
  <2>2. runtime[q] \in RuntimeType
    BY DEF TypeOK, RuntimeType
  <2>3. runtime'[q] \in RuntimeType
    BY <2>1, <2>2, PollingAssumption DEF RuntimeType
  <2>4. runtime[q].failures # 0 => Backoff(runtime[q].failures) \in 1..MaxRetry
    BY <2>2, BackoffRange DEF RuntimeType
  <2>5. Availability(q)'
    BY <2>1, <2>2, <2>4, PollingAssumption
       DEF Availability, AvailabilitySound, RuntimeType
  <2> QED
    BY <2>3, <2>5
<1>2. runtime' \in [Readers -> RuntimeType]
  BY <1>1 DEF Tick
<1>3. stale' \in 0..DashboardInterval
  BY PollingAssumption DEF Tick, TypeOK, Least
<1> QED
  BY <1>1, <1>2, <1>3 DEF AvailabilitySound

(***************************************************************************)
(* Types and availability                                                  *)
(***************************************************************************)
LEMMA InitInv == Init => PollingInv
<1> SUFFICES ASSUME Init PROVE PollingInv
  OBVIOUS
<1>1. TypeOK
  BY PollingAssumption DEF Init, TypeOK, Fresh, Statuses
<1>2. AvailabilitySound
  BY DEF Init, AvailabilitySound, Availability, Fresh
<1>3. InLoop /\ LogSound
  BY PollingAssumption DEF Init, InLoop, LogSound
<1>4. HandledOnce /\ Unhandled
  BY DEF Init, HandledOnce, Unhandled
<1>5. Accounted
  BY DEF Init, Accounted
<1> QED
  BY <1>1, <1>2, <1>3, <1>4, <1>5 DEF PollingInv

\* The records ahead are records.
LEMMA AheadNumbers ==
  ASSUME TypeOK, NEW r \in Readers
  PROVE  Ahead(r) \subseteq Numbers
<1>1. lastSeen[r] \in 0..MaxLog /\ written[r] \in 0..MaxLog
  BY DEF TypeOK
<1>2. ASSUME NEW n \in Ahead(r) PROVE n \in (lastSeen[r] + 1)..written[r]
  BY <1>2 DEF Ahead
<1>3. ASSUME NEW n \in (lastSeen[r] + 1)..written[r] PROVE n \in Numbers
  BY <1>1, <1>3, PollingAssumption DEF Numbers
<1> QED
  BY <1>2, <1>3

\* Every action keeps the variables in their types.
LEMMA TypeStep ==
  ASSUME PollingInv, [Next]_vars
  PROVE  TypeOK'
<1> USE PollingAssumption DEF PollingInv, TypeOK, devices, home, loop, history
<1>1. ASSUME NEW r \in Readers, Skip(r) PROVE TypeOK'
  BY <1>1 DEF Skip, Leave
<1>2. ASSUME NEW r \in Readers, PollFails(r) PROVE TypeOK'
  BY <1>2, MarkOfflineSound DEF PollFails, Leave, RuntimeType
<1>3. ASSUME NEW r \in Readers, PollAnswers(r) PROVE TypeOK'
  BY <1>3, MarkOnlineSound DEF PollAnswers, RuntimeType
<1>4. CASE NothingNew
  BY <1>4 DEF NothingNew, Leave
<1>5. CASE Baseline
  <2>1. 1..answer \subseteq Numbers
    BY DEF Numbers
  <2>2. excused' \in [Readers -> SUBSET Numbers]
    BY <1>5, <2>1 DEF Baseline
  <2> QED
    BY <1>5, <2>2 DEF Baseline, Leave
<1>6. CASE Ignored
  <2>1. {answer} \subseteq Numbers
    BY <1>6 DEF Ignored, New, Numbers
  <2>2. excused' \in [Readers -> SUBSET Numbers]
    BY <1>6, <2>1 DEF Ignored
  <2> QED
    BY <1>6, <2>2 DEF Ignored, Leave
<1>7. CASE Taken
  BY <1>7 DEF Taken
<1>8. ASSUME phase = "handle", handled' = Counted
      PROVE  handled' \in [Readers -> [Numbers -> Nat]]
  BY <1>8 DEF InLoop, Counted
<1>9. CASE Handle
  BY <1>8, <1>9 DEF Handle
<1>10. CASE HandleBlamesReader
  BY <1>8, <1>10, MarkOfflineSound DEF HandleBlamesReader, Leave, RuntimeType, InLoop
<1>11. CASE HandleFails
  BY <1>8, <1>11 DEF HandleFails, Leave
<1>12. CASE PublishRecord
  <2>1. entity' \in [Readers -> {"absent", "on", "off"}]
    BY <1>12, PublishType DEF PublishRecord
  <2> QED
    BY <1>12, <2>1 DEF PublishRecord, Leave
<1>13. CASE EndRound
  <2>1. entity' \in [Readers -> {"absent", "on", "off"}] /\ stale' \in 0..DashboardInterval
    BY <1>13, PublishType DEF EndRound
  <2> QED
    BY <1>13, <2>1 DEF EndRound
<1>14. ASSUME NEW r \in Readers PROVE Ahead(r) \subseteq Numbers
  BY AheadNumbers
<1>15. ASSUME NEW r \in Readers, Use(r) PROVE TypeOK'
  <2>1. excused' \in [Readers -> SUBSET Numbers]
    BY <1>14, <1>15 DEF Use
  <2> QED
    BY <1>15, <2>1 DEF Use
<1>16. ASSUME NEW r \in Readers, ClearLog(r) PROVE TypeOK'
  <2>1. excused' \in [Readers -> SUBSET Numbers]
    BY <1>14, <1>16 DEF ClearLog
  <2> QED
    BY <1>16, <2>1 DEF ClearLog
<1>17. ASSUME NEW r \in Readers, Toggle(r) PROVE TypeOK'
  BY <1>17 DEF Toggle
<1>18. CASE ToggleCore
  BY <1>18 DEF ToggleCore
<1>19. CASE Tick
  BY <1>19, TickSound DEF Tick, RuntimeType
<1>20. CASE Crash
  BY <1>20 DEF Crash
<1>21. CASE Start
  <2>1. entity' \in [Readers -> {"absent", "on", "off"}]
    BY <1>21, PublishType DEF Start
  <2>2. excused' \in [Readers -> SUBSET Numbers]
    BY <1>21 DEF Start, Numbers
  <2>3. runtime' \in [Readers -> RuntimeType]
    BY <1>21 DEF Start, Fresh, RuntimeType, Statuses
  <2> QED
    BY <1>21, <2>1, <2>2, <2>3 DEF Start, RuntimeType
<1>22. CASE UNCHANGED vars
  BY <1>22 DEF vars
<1> QED
  BY <1>1, <1>2, <1>3, <1>4, <1>5, <1>6, <1>7, <1>9, <1>10, <1>11, <1>12, <1>13,
     <1>15, <1>16, <1>17, <1>18, <1>19, <1>20, <1>21, <1>22
     DEF Next, LoopNext, DeviceNext

\* Only the marks, the clock and the start touch what availability is about.
LEMMA AvailabilityStep ==
  ASSUME PollingInv, [Next]_vars
  PROVE  AvailabilitySound'
<1> USE DEF PollingInv, devices, home, loop, history
<1>1. CASE UNCHANGED <<runtime, balance>>
  BY <1>1 DEF AvailabilitySound, Availability
<1>2. ASSUME NEW r \in Readers, PollFails(r) PROVE AvailabilitySound'
  BY <1>2, MarkOfflineSound DEF PollFails
<1>3. ASSUME NEW r \in Readers, PollAnswers(r) PROVE AvailabilitySound'
  BY <1>3, MarkOnlineSound DEF PollAnswers
<1>4. CASE HandleBlamesReader
  BY <1>4, MarkOfflineSound DEF HandleBlamesReader, InLoop
<1>5. CASE Tick
  BY <1>5, TickSound
<1>6. CASE Start
  BY <1>6 DEF Start, Fresh, AvailabilitySound, Availability
<1> QED
  BY <1>1, <1>2, <1>3, <1>4, <1>5, <1>6
     DEF Next, LoopNext, DeviceNext, vars, Skip, NothingNew, Baseline, Ignored, Taken,
         Handle, HandleFails, PublishRecord, EndRound, Use, ClearLog, Toggle,
         ToggleCore, Crash

(***************************************************************************)
(* The loop, the logs and the records                                      *)
(***************************************************************************)

\* What the loop holds of a log is not newer than the log.
LEMMA LoopStep ==
  ASSUME PollingInv, [Next]_vars
  PROVE  InLoop' /\ LogSound'
<1> USE PollingAssumption
    DEF PollingInv, TypeOK, InLoop, LogSound, devices, home, loop, history
<1>1. ASSUME NEW r \in Readers, Skip(r) PROVE InLoop' /\ LogSound'
  BY <1>1 DEF Skip, Leave
<1>2. ASSUME NEW r \in Readers, PollFails(r) PROVE InLoop' /\ LogSound'
  BY <1>2 DEF PollFails, Leave
<1>3. ASSUME NEW r \in Readers, PollAnswers(r) PROVE InLoop' /\ LogSound'
  BY <1>3 DEF PollAnswers
<1>4. CASE NothingNew
  BY <1>4 DEF NothingNew, Leave
<1>5. CASE Baseline
  BY <1>5 DEF Baseline, Leave
<1>6. CASE Ignored
  BY <1>6 DEF Ignored, Leave, New
<1>7. CASE Taken
  <2>1. reader \in Readers /\ answer \in Numbers /\ answer =< written[reader]
    BY <1>7 DEF Taken, New, Numbers
  <2>2. /\ lastSeen' = [lastSeen EXCEPT ![reader] = answer]
        /\ phase' = "handle" /\ reader' = reader /\ answer' = answer
        /\ written' = written /\ listed' = listed
    BY <1>7 DEF Taken
  <2>3. lastSeen'[reader] = answer
    BY <2>1, <2>2
  <2>4. InLoop'
    BY <2>1, <2>2, <2>3
  <2>5. LogSound'
    BY <2>1, <2>2
  <2> QED
    BY <2>4, <2>5
<1>8. CASE Handle
  BY <1>8 DEF Handle
<1>9. CASE HandleBlamesReader
  BY <1>9 DEF HandleBlamesReader, Leave
<1>10. CASE HandleFails
  BY <1>10 DEF HandleFails, Leave
<1>11. CASE PublishRecord
  BY <1>11 DEF PublishRecord, Leave
<1>12. CASE EndRound
  BY <1>12 DEF EndRound
<1>13. ASSUME NEW r \in Readers, Use(r) PROVE InLoop' /\ LogSound'
  BY <1>13 DEF Use
<1>14. ASSUME NEW r \in Readers, ClearLog(r) PROVE InLoop' /\ LogSound'
  BY <1>14 DEF ClearLog
<1>15. ASSUME NEW r \in Readers, Toggle(r) PROVE InLoop' /\ LogSound'
  BY <1>15 DEF Toggle
<1>16. CASE ToggleCore
  BY <1>16 DEF ToggleCore
<1>17. CASE Tick
  BY <1>17 DEF Tick
<1>18. CASE Crash
  BY <1>18 DEF Crash
<1>19. CASE Start
  BY <1>19 DEF Start
<1>20. CASE UNCHANGED vars
  BY <1>20 DEF vars
<1> QED
  BY <1>1, <1>2, <1>3, <1>4, <1>5, <1>6, <1>7, <1>8, <1>9, <1>10, <1>11,
     <1>12, <1>13, <1>14, <1>15, <1>16, <1>17, <1>18, <1>19, <1>20 DEF Next,
     LoopNext, DeviceNext

\* One more for the record in hand.
LEMMA CountedAdds ==
  ASSUME TypeOK, reader \in Readers, answer \in Numbers, handled' = Counted,
         NEW q \in Readers, NEW n \in Numbers
  PROVE  /\ handled[q][n] \in Nat
         /\ handled'[q][n] = IF q = reader /\ n = answer THEN handled[q][n] + 1
                                                         ELSE handled[q][n]
BY DEF TypeOK, Counted

\* The record in hand was unhandled, and is the last that can have been handled.
LEMMA CountedStep ==
  ASSUME PollingInv, phase = "handle", handled' = Counted,
         phase' \notin {"examine", "handle"}, UNCHANGED <<written, lastSeen>>
  PROVE  HandledOnce' /\ Unhandled'
<1>1. reader \in Readers /\ answer \in Numbers /\ answer = lastSeen[reader]
  BY DEF PollingInv, InLoop
<1>2. handled[reader][answer] = 0
  BY DEF PollingInv, Unhandled
<1>3. /\ answer \in Nat \ {0} /\ written[reader] \in Nat
      /\ answer =< written[reader]
  BY <1>1, PollingAssumption DEF PollingInv, InLoop, Numbers, TypeOK
<1>4. ASSUME NEW q \in Readers, NEW n \in Numbers
      PROVE  handled'[q][n] = IF q = reader /\ n = answer THEN 1 ELSE handled[q][n]
  BY <1>1, <1>2, CountedAdds DEF PollingInv
<1>5. HandledOnce'
  <2>1. ASSUME NEW q \in Readers, NEW n \in Numbers PROVE handled'[q][n] =< 1
    BY <1>4 DEF PollingInv, HandledOnce
  <2> QED
    BY <2>1 DEF HandledOnce
<1>6. ASSUME NEW q \in Readers, NEW n \in Numbers,
             n > written[q] \/ (lastSeen[q] # 0 /\ n > lastSeen[q])
      PROVE  handled'[q][n] = 0
  <2>1. handled[q][n] = 0
    BY <1>6 DEF PollingInv, Unhandled
  <2>2. ~(q = reader /\ n = answer)
    BY <1>1, <1>3, <1>6
  <2> QED
    BY <1>4, <2>1, <2>2
<1>7. Unhandled'
  BY <1>6 DEF Unhandled
<1> QED
  BY <1>5, <1>7

\* A new record is unhandled.
LEMMA UseStep ==
  ASSUME PollingInv, NEW r \in Readers, Use(r)
  PROVE  HandledOnce' /\ Unhandled'
<1>1. UNCHANGED <<handled, lastSeen, phase, reader, answer>>
  BY DEF Use, loop
<1>2. ASSUME NEW q \in Readers, NEW n \in Numbers,
             n > written'[q] \/ (lastSeen[q] # 0 /\ n > lastSeen[q])
      PROVE  handled[q][n] = 0
  <2>1. written'[q] \in {written[q], written[q] + 1} /\ written[q] \in Nat /\ n \in Nat
    BY PollingAssumption DEF Use, PollingInv, TypeOK, Numbers
  <2>2. n > written[q] \/ (lastSeen[q] # 0 /\ n > lastSeen[q])
    BY <1>2, <2>1
  <2> QED
    BY <2>2 DEF PollingInv, Unhandled
<1>3. HandledOnce'
  BY <1>1 DEF PollingInv, HandledOnce
<1>4. Unhandled'
  BY <1>1, <1>2 DEF PollingInv, Unhandled
<1> QED
  BY <1>3, <1>4

\* Which records cannot have been handled.
LEMMA UnhandledStep ==
  ASSUME PollingInv, [Next]_vars
  PROVE  HandledOnce' /\ Unhandled'
<1> USE PollingAssumption
    DEF PollingInv, TypeOK, InLoop, LogSound, HandledOnce, Unhandled, Numbers,
        devices, home, loop, history
<1>1. ASSUME NEW r \in Readers, Skip(r) PROVE HandledOnce' /\ Unhandled'
  BY <1>1 DEF Skip, Leave
<1>2. ASSUME NEW r \in Readers, PollFails(r) PROVE HandledOnce' /\ Unhandled'
  BY <1>2 DEF PollFails, Leave
<1>3. ASSUME NEW r \in Readers, PollAnswers(r) PROVE HandledOnce' /\ Unhandled'
  BY <1>3 DEF PollAnswers
<1>4. CASE NothingNew
  BY <1>4 DEF NothingNew, Leave
<1>5. CASE Baseline
  BY <1>5 DEF Baseline, Leave
<1>6. CASE Ignored
  BY <1>6 DEF Ignored, Leave, New
<1>7. CASE Taken
  BY <1>7 DEF Taken, New
<1>8. ASSUME phase = "handle", handled' = Counted, phase' \notin {"examine", "handle"},
             UNCHANGED <<written, lastSeen>>
      PROVE  HandledOnce' /\ Unhandled'
  BY <1>8, CountedStep
<1>9. CASE HandleBlamesReader \/ HandleFails
  BY <1>8, <1>9 DEF HandleBlamesReader, HandleFails, Leave
<1>10. CASE Handle
  BY <1>8, <1>10 DEF Handle
<1>11. CASE PublishRecord
  BY <1>11 DEF PublishRecord, Leave
<1>12. CASE EndRound
  BY <1>12 DEF EndRound
<1>13. ASSUME NEW r \in Readers, Use(r) PROVE HandledOnce' /\ Unhandled'
  BY <1>13, UseStep
<1>14. ASSUME NEW r \in Readers, ClearLog(r) PROVE HandledOnce' /\ Unhandled'
  BY <1>14 DEF ClearLog
<1>15. ASSUME NEW r \in Readers, Toggle(r) PROVE HandledOnce' /\ Unhandled'
  BY <1>15 DEF Toggle
<1>16. CASE ToggleCore
  BY <1>16 DEF ToggleCore
<1>17. CASE Tick
  BY <1>17 DEF Tick
<1>18. CASE Crash
  BY <1>18 DEF Crash
<1>19. CASE Start
  BY <1>19 DEF Start
<1>20. CASE UNCHANGED vars
  BY <1>20 DEF vars
<1> QED
  BY <1>1, <1>2, <1>3, <1>4, <1>5, <1>6, <1>7, <1>8, <1>9, <1>10, <1>11,
     <1>12, <1>13, <1>14, <1>15, <1>16, <1>17, <1>18, <1>19, <1>20 DEF Next,
     LoopNext, DeviceNext

\* No record is lost sight of: what is known of each record in turn.
Known(r, n) ==
  \/ handled[r][n] > 0
  \/ n \in excused[r]
  \/ n = listed[r] /\ n > lastSeen[r]
  \/ /\ reader = r /\ n = answer
     /\ phase = "handle" \/ (phase = "examine" /\ n > lastSeen[r])

LEMMA AccountedStep ==
  ASSUME PollingInv, [Next]_vars
  PROVE  Accounted'
<1> SUFFICES ASSUME phase' # "down", NEW q \in Readers, NEW n \in 1..(written'[q])
             PROVE  Known(q, n)'
  BY DEF Accounted, Known
<1>a. /\ n \in Nat \ {0}
      /\ written[q] \in 0..MaxLog /\ listed[q] \in {0, written[q]}
      /\ lastSeen[q] \in 0..MaxLog /\ lastSeen[q] =< written[q]
      /\ answer \in 0..MaxLog
  BY TypeStep DEF PollingInv, TypeOK, LogSound
<1>b. phase # "down" /\ n =< written[q] => Known(q, n)
  BY <1>a DEF PollingInv, Accounted, Known
<1>c. CASE UNCHANGED <<phase, reader, answer, written, listed, lastSeen, handled, excused>>
  BY <1>a, <1>b, <1>c DEF Known
<1>d. CASE phase \in {"poll", "publish"} /\ UNCHANGED <<written, listed, lastSeen, handled, excused>>
  BY <1>a, <1>b, <1>d DEF Known, PollingInv, InLoop
<1> USE DEF devices, home, loop, history
<1>1. ASSUME NEW r \in Readers, Skip(r) \/ PollFails(r) \/ PollAnswers(r)
      PROVE  Known(q, n)'
  BY <1>d, <1>1 DEF Skip, PollFails, PollAnswers
<1>2. CASE NothingNew
  <2>1. written' = written /\ phase = "examine"
    BY <1>2 DEF NothingNew
  <2>2. Known(q, n)
    BY <1>a, <1>b, <2>1
  <2>3. ~(reader = q /\ n = answer /\ n > lastSeen[q])
    BY <1>2, <1>a DEF NothingNew
  <2> QED
    BY <1>2, <2>1, <2>2, <2>3 DEF NothingNew, Known
<1>3. ASSUME phase = "examine", UNCHANGED <<written, listed, handled>>,
             reader \in Readers, answer # 0, answer =< written[reader],
             lastSeen' = [lastSeen EXCEPT ![reader] = answer]
      PROVE  \/ /\ q = reader /\ lastSeen'[q] = answer /\ listed'[q] = listed[q]
                /\ Known(q, n)
                /\ n = listed[q] => n = answer \/ n > lastSeen'[q]
             \/ q # reader /\ Known(q, n) /\ lastSeen'[q] = lastSeen[q]
  <2>1. Known(q, n)
    BY <1>a, <1>b, <1>3
  <2> QED
    BY <1>a, <1>3, <2>1 DEF PollingInv, TypeOK
<1>4. CASE Baseline
  <2>1. /\ phase = "examine" /\ reader \in Readers /\ answer =< written[reader]
        /\ answer # 0 /\ answer \in Nat
    BY <1>4, <1>a DEF Baseline, PollingInv, InLoop
  <2>2. /\ lastSeen' = [lastSeen EXCEPT ![reader] = answer]
        /\ UNCHANGED <<written, listed, handled>>
        /\ excused'[reader] = excused[reader] \cup 1..answer
        /\ \A r \in Readers \ {reader} : excused'[r] = excused[r]
    BY <1>4, <2>1 DEF Baseline, PollingInv, TypeOK
  <2>3. CASE q = reader
    <3>1. n =< answer => n \in excused'[q]
      BY <1>a, <2>1, <2>2, <2>3
    <3> QED
      BY <1>3, <1>a, <2>1, <2>2, <2>3, <3>1 DEF Known
  <2>4. CASE q # reader
    BY <1>3, <2>1, <2>2, <2>4 DEF Known
  <2> QED
    BY <2>3, <2>4
<1>5. CASE Ignored
  <2>1. /\ phase = "examine" /\ reader \in Readers /\ answer =< written[reader]
        /\ answer # 0
    BY <1>5 DEF Ignored, New, PollingInv, InLoop
  <2>2. /\ lastSeen' = [lastSeen EXCEPT ![reader] = answer]
        /\ UNCHANGED <<written, listed, handled>>
        /\ excused'[reader] = excused[reader] \cup {answer}
        /\ \A r \in Readers \ {reader} : excused'[r] = excused[r]
    BY <1>5, <2>1 DEF Ignored, PollingInv, TypeOK
  <2> QED
    BY <1>3, <2>1, <2>2 DEF Known
<1>6. CASE Taken
  <2>1. /\ phase = "examine" /\ reader \in Readers /\ answer =< written[reader]
        /\ answer # 0
    BY <1>6 DEF Taken, New, PollingInv, InLoop
  <2>2. /\ lastSeen' = [lastSeen EXCEPT ![reader] = answer]
        /\ UNCHANGED <<written, listed, handled, excused, reader, answer>>
        /\ phase' = "handle"
    BY <1>6 DEF Taken
  <2> QED
    BY <1>3, <2>1, <2>2 DEF Known
<1>7. CASE Handle \/ HandleBlamesReader \/ HandleFails
  <2>1. /\ phase = "handle" /\ handled' = Counted
        /\ UNCHANGED <<written, listed, lastSeen, excused>>
    BY <1>7 DEF Handle, HandleBlamesReader, HandleFails
  <2>2. reader \in Readers /\ answer \in Numbers
    BY <2>1 DEF PollingInv, InLoop
  <2>3. n \in Numbers
    BY <1>a, <2>1, PollingAssumption DEF Numbers
  <2>4. /\ handled[q][n] \in Nat
        /\ handled'[q][n] = IF q = reader /\ n = answer THEN handled[q][n] + 1
                                                        ELSE handled[q][n]
    BY <2>1, <2>2, <2>3, CountedAdds DEF PollingInv
  <2>5. Known(q, n)
    BY <1>a, <1>b, <2>1
  <2> QED
    BY <2>1, <2>3, <2>4, <2>5 DEF Known
<1>8. CASE PublishRecord
  BY <1>d, <1>8 DEF PublishRecord
<1>9. CASE EndRound
  BY <1>c, <1>9 DEF EndRound
<1>10. ASSUME NEW r \in Readers, excused' = [excused EXCEPT ![r] = @ \cup Ahead(r)],
              UNCHANGED <<phase, reader, answer, lastSeen, handled>>, q = r,
              phase # "down", n =< written[r]
       PROVE  Known(q, n)'
  <2>1. excused'[q] = excused[q] \cup Ahead(q)
    BY <1>10 DEF PollingInv, TypeOK
  <2>2. Known(q, n)
    BY <1>b, <1>10
  <2>3. CASE n = listed[q] /\ n > lastSeen[q]
    <3>1. n \in (lastSeen[q] + 1)..written[q]
      BY <1>a, <1>10, <2>3
    <3>2. CASE reader = q /\ n = answer
      <4>1. phase = "examine"
        BY <1>a, <1>10, <2>3, <3>2 DEF PollingInv, TypeOK, InLoop
      <4> QED
        BY <1>10, <2>3, <3>2, <4>1 DEF Known
    <3>3. CASE ~(reader = q /\ n = answer)
      <4>1. n \in Ahead(q)
        BY <3>1, <3>3 DEF Ahead
      <4> QED
        BY <2>1, <4>1 DEF Known
    <3> QED
      BY <3>2, <3>3
  <2>4. CASE ~(n = listed[q] /\ n > lastSeen[q])
    BY <1>10, <2>1, <2>2, <2>4 DEF Known
  <2> QED
    BY <2>3, <2>4
<1>11. ASSUME NEW r \in Readers, Use(r)
       PROVE  Known(q, n)'
  <2>1. CASE q # r
    <3>1. /\ written'[q] = written[q] /\ listed'[q] = listed[q] /\ excused'[q] = excused[q]
          /\ UNCHANGED <<phase, reader, answer, lastSeen, handled>>
      BY <1>11, <2>1 DEF Use, PollingInv, TypeOK
    <3>2. Known(q, n)
      BY <1>a, <1>b, <3>1
    <3> QED
      BY <3>1, <3>2 DEF Known
  <2>2. CASE q = r /\ n =< written[r]
    BY <1>10, <1>11, <2>2 DEF Use
  <2>3. CASE q = r /\ ~(n =< written[r])
    <3>1. written'[q] = written[q] + 1 /\ listed'[q] = written[q] + 1 /\ lastSeen' = lastSeen
      BY <1>11, <2>3 DEF Use, PollingInv, TypeOK
    <3>2. n = listed'[q] /\ n > lastSeen'[q]
      BY <1>a, <2>3, <3>1
    <3> QED
      BY <3>2 DEF Known
  <2> QED
    BY <2>1, <2>2, <2>3
<1>12. ASSUME NEW r \in Readers, ClearLog(r)
       PROVE  Known(q, n)'
  <2>1. /\ written' = written
        /\ UNCHANGED <<phase, reader, answer, lastSeen, handled>>
    BY <1>12 DEF ClearLog
  <2>2. CASE q # r
    <3>1. listed'[q] = listed[q] /\ excused'[q] = excused[q]
      BY <1>12, <2>2 DEF ClearLog, PollingInv, TypeOK
    <3>2. Known(q, n)
      BY <1>a, <1>b, <2>1
    <3> QED
      BY <2>1, <3>1, <3>2 DEF Known
  <2>3. CASE q = r
    <3>1. excused' = [excused EXCEPT ![r] = @ \cup Ahead(r)]
      BY <1>12 DEF ClearLog
    <3>2. phase # "down" /\ n =< written[r]
      BY <1>a, <2>1, <2>3
    <3> QED
      BY <1>10, <2>1, <2>3, <3>1, <3>2
  <2> QED
    BY <2>2, <2>3
<1>13. CASE Start
  <2>1. n \in 1..written[q] /\ excused'[q] = excused[q] \cup 1..written[q]
    BY <1>13 DEF Start
  <2> QED
    BY <2>1 DEF Known
<1>14. CASE Crash
  BY <1>14 DEF Crash
<1>15. CASE ToggleCore \/ Tick \/ UNCHANGED vars \/ \E r \in Readers : Toggle(r)
  BY <1>c, <1>15 DEF ToggleCore, Tick, vars, Toggle
<1> QED
  BY <1>1, <1>2, <1>4, <1>5, <1>6, <1>7, <1>8, <1>9, <1>11, <1>12, <1>13, <1>14, <1>15
     DEF Next, LoopNext, DeviceNext

(***************************************************************************)
(* Theorems                                                                *)
(***************************************************************************)

\* PollingInv holds in every reachable state of the polling loop, for any
\* readers, intervals and logs, with failures, cleared logs and restarts.
THEOREM PollingInvariant == Spec => []PollingInv
<1>1. Init => PollingInv
  BY InitInv
<1>2. PollingInv /\ [Next]_vars => PollingInv'
  <2> SUFFICES ASSUME PollingInv, [Next]_vars PROVE PollingInv'
    OBVIOUS
  <2>1. TypeOK' /\ AvailabilitySound'
    BY TypeStep, AvailabilityStep
  <2>2. InLoop' /\ LogSound'
    BY LoopStep
  <2>3. HandledOnce' /\ Unhandled'
    BY UnhandledStep
  <2>4. Accounted'
    BY AccountedStep
  <2> QED
    BY <2>1, <2>2, <2>3, <2>4 DEF PollingInv
<1> QED
  BY <1>1, <1>2, PTL DEF Spec

\* The variables of the loop keep their types.
THEOREM TypeCorrect == Spec => []TypeOK
<1>1. PollingInv => TypeOK
  BY DEF PollingInv
<1> QED
  BY <1>1, PollingInvariant, PTL

\* No record reaches the Occupancy Engine twice: last_seen is stored before the
\* record is handled, and after a restart the newest record is the baseline
\* (lines 2043-2071).
THEOREM NoRecordTwice == Spec => []HandledOnce
<1>1. PollingInv => HandledOnce
  BY DEF PollingInv
<1> QED
  BY <1>1, PollingInvariant, PTL

\* A record is given to the engine, or one of the named reasons excuses it, or
\* it can still be read (lines 2043-2088).
THEOREM NoRecordSkipped == Spec => []NothingSkipped
<1>1. PollingInv => NothingSkipped
  <2> SUFFICES ASSUME Accounted PROVE NothingSkipped
    BY DEF PollingInv
  <2> QED
    BY DEF Accounted, NothingSkipped
<1> QED
  BY <1>1, PollingInvariant, PTL

\* Offline and online events alternate and agree with the flags and the
\* back-off (lines 1469-1620).
THEOREM AvailabilityAnnounced == Spec => []AvailabilitySound
<1>1. PollingInv => AvailabilitySound
  BY DEF PollingInv
<1> QED
  BY <1>1, PollingInvariant, PTL
=============================================================================
