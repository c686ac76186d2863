-------------------------- MODULE ComponentsProofs --------------------------
(***************************************************************************)
(* Proofs about the parts of the bridge that share neither state nor       *)
(* threads, as MCComponents puts them together: what is published of a     *)
(* server, the outputs, the configurator, the picture on the dashboard and *)
(* the start; and, by the proofs about their modules, the drivers of MQTT  *)
(* and Home Assistant.                                                     *)
(*                                                                         *)
(* A step of the product is a step of one part, or leaves it alone, so     *)
(* that each invariant is proved of its part and holds of the product.     *)
(***************************************************************************)
EXTENDS MCComponents, TLAPS

MqttTheorems == INSTANCE MqttStateDriverProofs
HaTheorems == INSTANCE HaStateDriverProofs
  WITH link <- socket, wire <- triggers, phase <- listener

(***************************************************************************)
(* The product and its parts                                               *)
(***************************************************************************)

\* Every part starts in one of its initial states.
LEMMA InitParts ==
  Init => /\ Mqtt!Init /\ Ha!Init /\ Server!Init
          /\ Outputs!Init /\ Ui!Init /\ Photo!Init /\ Config!Init
BY DEF Init

\* A step of the product is a step of each part, or the part stands still.
LEMMA NextParts ==
  [Next]_vars =>
    /\ [Mqtt!Next]_mqtt /\ [Ha!Next]_ha /\ [Server!Next]_server
    /\ [Outputs!Next]_fanout /\ [Ui!Next]_ui /\ [Photo!Next]_photo
    /\ [Config!Next]_configuration
BY DEF Next, vars, mqtt, ha, server, fanout, ui, photo, configuration

(***************************************************************************)
(* Telemetry                                                               *)
(***************************************************************************)

LEMMA ServerInit == Server!Init => Server!TelemetryInv
BY DEF Server!Init, Server!TelemetryInv, Server!TypeOK, Server!Statuses, Server!StatusKept

\* A failed poll.
LEMMA ServerFails ==
  ASSUME Server!TelemetryInv, Server!Fail, UNCHANGED <<kind, reachable, inventory, broken>>,
         assets' \subseteq assets
  PROVE  Server!TelemetryInv'
BY DEF Server!TelemetryInv, Server!TypeOK, Server!Statuses, Server!StatusKept, Server!Fail,
       Server!News, Server!Announce

LEMMA ServerNext == Server!TelemetryInv /\ [Server!Next]_server => Server!TelemetryInv'
<1> SUFFICES ASSUME Server!TelemetryInv, [Server!Next]_server
             PROVE  Server!TelemetryInv'
  OBVIOUS
<1> USE DEF Server!TelemetryInv, Server!TypeOK, Server!Statuses, Server!StatusKept,
            Server!server
<1>1. CASE Server!Toggle
  BY <1>1 DEF Server!Toggle
<1>2. CASE \E s \in Systems : Server!Change(s)
  BY <1>2 DEF Server!Change
<1>3. CASE Server!Begin
  BY <1>3 DEF Server!Begin
<1>4. CASE Server!List
  BY <1>4 DEF Server!List
<1>5. CASE Server!ListFails
  BY <1>5, ServerFails DEF Server!ListFails
<1>6. CASE Server!Keep
  BY <1>6 DEF Server!Keep
<1>7. CASE Server!NothingFound
  BY <1>7, ServerFails DEF Server!NothingFound
<1>8. CASE \E s \in Systems : Server!Discover(s)
  BY <1>8 DEF Server!Discover
<1>9. CASE \E s \in Systems : Server!DiscoverFails(s)
  BY <1>9, ServerFails DEF Server!DiscoverFails
<1>10. CASE \E s \in Systems : Server!Read(s)
  BY <1>10 DEF Server!Read
<1>11. CASE \E s \in Systems : Server!NotFound(s)
  BY <1>11, ServerFails DEF Server!NotFound
<1>12. CASE \E s \in Systems : Server!ReadFails(s)
  BY <1>12, ServerFails DEF Server!ReadFails
<1>13. CASE \E s \in Systems : Server!Publish(s)
  BY <1>13 DEF Server!Publish
<1>14. CASE Server!ReadLinux
  BY <1>14, ServerFails DEF Server!ReadLinux
<1>15. CASE Server!ReadAll
  BY <1>15 DEF Server!ReadAll
<1>16. CASE Server!PublishedAll
  BY <1>16 DEF Server!PublishedAll
<1>17. CASE Server!Online
  BY <1>17 DEF Server!Online, Server!News, Server!Announce
<1>18. CASE Server!Crash \/ Server!Start
  BY <1>18 DEF Server!Crash, Server!Start
<1>19. CASE UNCHANGED server
  BY <1>19 DEF server
<1> QED
  BY <1>1, <1>2, <1>3, <1>4, <1>5, <1>6, <1>7, <1>8, <1>9, <1>10, <1>11, <1>12, <1>13,
     <1>14, <1>15, <1>16, <1>17, <1>18, <1>19 DEF Server!Next, Server!ThreadNext

(***************************************************************************)
(* Outputs                                                                 *)
(***************************************************************************)

LEMMA OutputsInit == Outputs!Init => Outputs!FanoutInv
BY DEF Outputs!Init, Outputs!FanoutInv, Outputs!TypeOK, Outputs!InHand, Outputs!ReliableCopy,
       Outputs!Made, Outputs!Identified, Outputs!Constructed, Outputs!Natures,
       Outputs!Improvised, Outputs!Cloud!Init, Outputs!Cloud!TypeOK

\* The call of a source s ends; its event is in the queue, or may miss it, or is
\* not one the queue takes.
LEMMA CallEnds ==
  ASSUME Outputs!FanoutInv, NEW s \in Sources, stage[s] = "cloud", Outputs!Return(s),
         outputs' = outputs, nature' = nature, running' = running, worker' = worker,
         heard' = heard,
         excused \subseteq excused', excused' \subseteq excused \cup {held[s]},
         Outputs!Cloud!Known \subseteq Outputs!Cloud!Known',
         Outputs!Cloud!TypeOK',
         \/ held[s] \in Outputs!Cloud!Known' \cup excused'
         \/ ~outputs.cloud
         \/ nature[held[s]] \in Outputs!Improvised
  PROVE  Outputs!FanoutInv'
<1> USE DEF Outputs!FanoutInv
<1>1. /\ held[s] \in Outputs!Made /\ Outputs!Made' = Outputs!Made
      /\ Outputs!Identified' = Outputs!Identified
  BY DEF Outputs!InHand, Outputs!Made, Outputs!Identified
<1>2. Outputs!TypeOK'
  BY <1>1 DEF Outputs!TypeOK, Outputs!Return
<1>3. Outputs!InHand'
  BY <1>1 DEF Outputs!InHand, Outputs!TypeOK, Outputs!Return
<1>4. Outputs!ReliableCopy'
  <2> SUFFICES ASSUME outputs.cloud, NEW e \in Outputs!Identified
               PROVE  \/ e \in Outputs!Cloud!Known' \cup excused'
                      \/ \E t \in Sources : held'[t] = e
    BY <1>1 DEF Outputs!ReliableCopy
  <2>1. CASE e = held[s]
    <3>1. nature[e] \notin Outputs!Improvised
      BY DEF Outputs!Identified, Outputs!Constructed, Outputs!Improvised
    <3> QED
      BY <2>1, <3>1
  <2>2. CASE e # held[s]
    <3>1. CASE \E t \in Sources : held[t] = e
      <4> PICK t \in Sources : held[t] = e
        BY <3>1
      <4>1. held'[t] = e
        BY <2>2 DEF Outputs!Return, Outputs!TypeOK
      <4> QED
        BY <4>1
    <3>2. CASE e \in Outputs!Cloud!Known \cup excused
      BY <3>2
    <3> QED
      BY <3>1, <3>2 DEF Outputs!ReliableCopy
  <2> QED
    BY <2>1, <2>2
<1> QED
  BY <1>2, <1>3, <1>4

LEMMA OutputsNext == Outputs!FanoutInv /\ [Outputs!Next]_fanout => Outputs!FanoutInv'
<1> SUFFICES ASSUME Outputs!FanoutInv, [Outputs!Next]_fanout
             PROVE  Outputs!FanoutInv'
  OBVIOUS
<1> USE DEF Outputs!store
<1>1. ASSUME NEW s \in Sources, NEW e \in Events, NEW n \in Outputs!Natures,
             Outputs!Create(s, e, n)
      PROVE  Outputs!FanoutInv'
  <2> USE <1>1 DEF Outputs!FanoutInv, Outputs!Create
  <2>1. /\ e \notin Outputs!Made /\ Outputs!Made' = Outputs!Made \cup {e}
        /\ Outputs!Identified' \subseteq Outputs!Identified \cup {e}
        /\ held[s] = NoEvent /\ NoEvent \notin Events /\ Outputs!Made \subseteq Events
    BY ComponentsAssumption
       DEF Outputs!Made, Outputs!Identified, Outputs!InHand, Outputs!FanoutAssumption,
           Outputs!TypeOK, Outputs!Natures, Outputs!Constructed, Outputs!Improvised
  <2>2. Outputs!TypeOK'
    BY <2>1 DEF Outputs!TypeOK, Outputs!Cloud!TypeOK
  <2>3. Outputs!InHand'
    BY <2>1 DEF Outputs!InHand, Outputs!TypeOK
  <2>4. Outputs!ReliableCopy'
    <3> SUFFICES ASSUME outputs.cloud, NEW f \in Outputs!Identified \cup {e}
                 PROVE  \/ f \in Outputs!Cloud!Known \cup excused
                        \/ \E t \in Sources : held'[t] = f
      BY <2>1 DEF Outputs!ReliableCopy, Outputs!Cloud!Known
    <3>1. CASE f = e
      BY <3>1 DEF Outputs!TypeOK
    <3>2. CASE f # e /\ \E t \in Sources : held[t] = f
      <4> PICK t \in Sources : held[t] = f
        BY <3>2
      <4>1. f \in Events
        BY <3>2 DEF Outputs!Identified, Outputs!Made
      <4>2. held'[t] = f
        BY <2>1, <4>1 DEF Outputs!TypeOK
      <4> QED
        BY <4>2
    <3>3. CASE f # e /\ f \in Outputs!Cloud!Known \cup excused
      BY <3>3
    <3> QED
      BY <3>1, <3>2, <3>3 DEF Outputs!ReliableCopy
  <2> QED
    BY <2>2, <2>3, <2>4
<1>2. ASSUME NEW s \in Sources, Outputs!PostLocal(s)
      PROVE  Outputs!FanoutInv'
  <2> USE <1>2 DEF Outputs!FanoutInv, Outputs!PostLocal
  <2>1. /\ Outputs!Made' = Outputs!Made /\ Outputs!Identified' = Outputs!Identified
        /\ held[s] \in Outputs!Made
    BY DEF Outputs!Made, Outputs!Identified, Outputs!InHand
  <2>2. Outputs!TypeOK'
    BY <2>1 DEF Outputs!TypeOK, Outputs!Cloud!TypeOK
  <2>3. Outputs!InHand'
    BY <2>1 DEF Outputs!InHand, Outputs!TypeOK
  <2>4. Outputs!ReliableCopy'
    BY <2>1 DEF Outputs!ReliableCopy, Outputs!Cloud!Known
  <2> QED
    BY <2>2, <2>3, <2>4
<1>3. ASSUME NEW s \in Sources, Outputs!Submit(s)
      PROVE  Outputs!FanoutInv'
  <2>1. held[s] \in Events
    BY <1>3 DEF Outputs!Submit, Outputs!FanoutInv, Outputs!InHand, Outputs!Made
  <2>2. /\ Outputs!Cloud!Known \cup {held[s]} \subseteq Outputs!Cloud!Known'
        /\ Outputs!Cloud!TypeOK'
    BY <1>3, <2>1 DEF Outputs!Submit, Outputs!Cloud!Accept, Outputs!Cloud!Known,
          Outputs!Cloud!TypeOK, Outputs!FanoutInv, Outputs!TypeOK
  <2> QED
    BY <1>3, <2>2, CallEnds DEF Outputs!Submit
<1>4. ASSUME NEW s \in Sources, Outputs!SubmitRaises(s)
      PROVE  Outputs!FanoutInv'
  <2>1. Outputs!Cloud!Known' = Outputs!Cloud!Known /\ Outputs!Cloud!TypeOK'
    BY <1>4 DEF Outputs!SubmitRaises, Outputs!FanoutInv, Outputs!TypeOK,
          Outputs!Cloud!TypeOK, Outputs!Cloud!Known
  <2> QED
    BY <1>4, <2>1, CallEnds DEF Outputs!SubmitRaises
<1>5. ASSUME NEW s \in Sources, Outputs!SkipCloud(s)
      PROVE  Outputs!FanoutInv'
  <2>1. Outputs!Cloud!Known' = Outputs!Cloud!Known /\ Outputs!Cloud!TypeOK'
    BY <1>5 DEF Outputs!SkipCloud, Outputs!FanoutInv, Outputs!TypeOK,
          Outputs!Cloud!TypeOK, Outputs!Cloud!Known
  <2> QED
    BY <1>5, <2>1, CallEnds DEF Outputs!SkipCloud
<1>6. CASE Outputs!Stop
  <2> USE <1>6 DEF Outputs!FanoutInv, Outputs!Stop
  <2>1. /\ Outputs!Made' = Outputs!Made /\ Outputs!Identified' = Outputs!Identified
        /\ \A s \in Sources : held[s] \in Outputs!Made \cup {NoEvent}
        /\ Outputs!Made \subseteq Events /\ NoEvent \notin Events
    BY ComponentsAssumption
       DEF Outputs!Made, Outputs!Identified, Outputs!InHand, Outputs!FanoutAssumption
  <2>2. Outputs!TypeOK'
    <3>1. excused' \subseteq Outputs!Made'
      BY <2>1 DEF Outputs!TypeOK
    <3>2. /\ stage' \in [Sources -> {"idle", "local", "cloud"}]
          /\ held' \in [Sources -> Events \cup {NoEvent}]
      OBVIOUS
    <3> QED
      BY <2>1, <3>1, <3>2 DEF Outputs!TypeOK, Outputs!Cloud!TypeOK
  <2>3. Outputs!InHand'
    BY DEF Outputs!InHand
  <2>4. Outputs!ReliableCopy'
    <3>1. /\ Outputs!Cloud!Known' = Outputs!Cloud!Known /\ outputs' = outputs
          /\ excused' = excused \cup ({held[s] : s \in Sources} \ {NoEvent})
      BY DEF Outputs!Cloud!Known
    <3>2. ASSUME NEW e \in Outputs!Identified, NEW s \in Sources, held[s] = e
          PROVE  e \in excused'
      <4>1. e # NoEvent
        BY <2>1 DEF Outputs!Identified
      <4> QED
        BY <3>1, <3>2, <4>1
    <3> QED
      BY <2>1, <3>1, <3>2 DEF Outputs!ReliableCopy
  <2> QED
    BY <2>2, <2>3, <2>4
<1>7. CASE Outputs!Restart
  BY <1>7 DEF Outputs!Restart, Outputs!FanoutInv, Outputs!TypeOK, Outputs!InHand,
        Outputs!ReliableCopy, Outputs!Made, Outputs!Identified, Outputs!Cloud!Known,
        Outputs!Cloud!TypeOK
<1>8. CASE Outputs!WorkerDies
  BY <1>8 DEF Outputs!WorkerDies, Outputs!FanoutInv, Outputs!TypeOK, Outputs!InHand,
        Outputs!ReliableCopy, Outputs!Made, Outputs!Identified, Outputs!Cloud!Known,
        Outputs!Cloud!TypeOK
<1>9. ASSUME NEW e \in Events, Outputs!Forward(e)
      PROVE  Outputs!FanoutInv'
  <2>1. /\ Outputs!Cloud!Known \subseteq Outputs!Cloud!Known' /\ Outputs!Cloud!TypeOK'
    BY <1>9 DEF Outputs!Forward, Outputs!Cloud!Deliver, Outputs!Cloud!Confirm,
          Outputs!Cloud!Known, Outputs!Cloud!TypeOK, Outputs!FanoutInv, Outputs!TypeOK
  <2> QED
    BY <1>9, <2>1 DEF Outputs!Forward, Outputs!FanoutInv, Outputs!TypeOK, Outputs!InHand,
          Outputs!ReliableCopy, Outputs!Made, Outputs!Identified
<1>10. CASE UNCHANGED fanout
  BY <1>10 DEF fanout, Outputs!FanoutInv, Outputs!TypeOK, Outputs!InHand,
        Outputs!ReliableCopy, Outputs!Made, Outputs!Identified, Outputs!Cloud!Known,
        Outputs!Cloud!TypeOK
<1> QED
  BY <1>1, <1>2, <1>3, <1>4, <1>5, <1>6, <1>7, <1>8, <1>9, <1>10
     DEF Outputs!Next, Outputs!Call

(***************************************************************************)
(* The configurator                                                        *)
(***************************************************************************)

\* What a tab shows or waits for, as PagesFit says it, of one tab and one file.
TabFits(w, f) ==
  /\ w.stage = "page" /\ w.fresh /\ w.true => w.conn = f.conn /\ f.ents \subseteq w.offered
  /\ w.stage = "loaded" => w.dict \in {f, Ui!Unread}
  /\ w.stage = "loaded" /\ w.true =>
       w.dict = f /\ w.conn = f.conn /\ f.ents \subseteq w.offered

Tabbed == {Ui!Blank} \cup Ui!Pages \cup Ui!Waiting

LEMMA UiInit == Ui!Init => Ui!UiInv
<1> SUFFICES ASSUME Ui!Init PROVE Ui!UiInv
  OBVIOUS
<1>1. Ui!TypeOK
  <2>1. /\ options \in [conn : Conns, topics : {{}}, ents : SUBSET Entities, rest : {1}]
        /\ MaxEdits \in Nat
    BY ComponentsAssumption DEF Ui!Init, Ui!UiAssumption
  <2>2. 1 \in 0..MaxEdits + 1
    BY <2>1
  <2>3. options \in Ui!Options
    BY <2>1, <2>2, Zenon DEF Ui!Options
  <2> QED
    BY <2>3 DEF Ui!Init, Ui!TypeOK
<1>2. Ui!PagesFit /\ Ui!NothingWiped
  BY DEF Ui!Init, Ui!PagesFit, Ui!NothingWiped, Ui!Blank
<1> QED
  BY <1>1, <1>2 DEF Ui!UiInv

\* Options that a file can hold, also when it cannot be read.
LEMMA ReadOptionsSound ==
  ASSUME Ui!UiInv, NEW r \in Ui!ReadOptions
  PROVE  r \in Ui!Options /\ (r.rest = 0 \/ r.rest = file.rest)
BY ComponentsAssumption DEF Ui!UiInv, Ui!TypeOK, Ui!ReadOptions, Ui!Unread, Ui!Options,
   Ui!UiAssumption

\* A page made from options shows what is in them.
LEMMA PageFits ==
  ASSUME Ui!UiInv, NEW r \in Ui!Options, NEW listed \in SUBSET Entities
  PROVE  Ui!Page(r, listed) \in Tabbed /\ TabFits(Ui!Page(r, listed), file)
<1>1. (r = file) \in BOOLEAN /\ r.conn \in Conns \cup {NoConn} /\ r.ents \in SUBSET Entities
  BY DEF Ui!Options
<1>2. Ui!Page(r, listed) \in Ui!Pages
  <2>1. CASE r = file
    BY <1>1, <2>1 DEF Ui!Page, Ui!Pages, Ui!Boxes
  <2>2. CASE r # file
    <3>1. Ui!Page(r, listed) =
            [stage |-> "page", fresh |-> TRUE, conn |-> r.conn,
             offered |-> Ui!Boxes(r, listed), true |-> FALSE]
      BY <2>2, Zenon DEF Ui!Page
    <3> QED
      BY <1>1, <3>1 DEF Ui!Pages, Ui!Boxes
  <2> QED
    BY <2>1, <2>2
<1>3. TabFits(Ui!Page(r, listed), file)
  BY DEF TabFits, Ui!Page, Ui!Boxes
<1> QED
  BY <1>2, <1>3 DEF Tabbed

\* A request changes one tab, and the options at most by a save.
LEMMA OneTab ==
  ASSUME Ui!UiInv, NEW t \in Tabs, NEW w \in Tabbed, TabFits(w, file), Ui!Show(t, w),
         file' = file, options' \in Ui!Options,
         options'.rest = 0 \/ options'.rest >= file.rest, due' \in BOOLEAN
  PROVE  Ui!UiInv'
<1>1. /\ tab' \in [Tabs -> Tabbed] /\ tab'[t] = w
      /\ \A u \in Tabs \ {t} : tab'[u] = tab[u]
  BY DEF Ui!UiInv, Ui!TypeOK, Ui!Show, Tabbed
<1>2. Ui!TypeOK'
  BY <1>1 DEF Ui!UiInv, Ui!TypeOK, Tabbed
<1>3. Ui!PagesFit'
  <2>1. \A u \in Tabs : TabFits(tab[u], file)
    BY DEF Ui!UiInv, Ui!PagesFit, TabFits, Ui!ReadOptions
  <2>2. \A u \in Tabs : TabFits(tab'[u], file)
    BY <1>1, <2>1
  <2> QED
    BY <2>2 DEF Ui!PagesFit, TabFits, Ui!ReadOptions
<1>4. Ui!NothingWiped'
  BY DEF Ui!NothingWiped
<1> QED
  BY <1>2, <1>3, <1>4 DEF Ui!UiInv

\* The form applied to what was read for it.
LEMMA AppliedIs ==
  ASSUME Ui!UiInv, NEW t \in Tabs, tab[t].stage = "loaded", NEW listed \in SUBSET Entities
  PROVE  /\ Ui!Applied(tab[t], listed) \in Ui!Options
         /\ Ui!Applied(tab[t], listed).ents = tab[t].checked \cap (listed \cup tab[t].dict.ents)
         /\ Ui!Applied(tab[t], listed).rest = 0 \/ Ui!Applied(tab[t], listed).rest >= file.rest
<1> DEFINE w == tab[t]
           new == Ui!Applied(w, listed)
<1>1. w \in Ui!Waiting /\ w # Ui!Saved
  BY DEF Ui!UiInv, Ui!TypeOK, Ui!Blank, Ui!Saved, Ui!Pages
<1>2. /\ w.dict \in Ui!Options /\ w.checked \in SUBSET Entities /\ w.chosen \in SUBSET {}
  BY <1>1 DEF Ui!Waiting
<1>3. w.dict.rest = 0 \/ w.dict.rest = file.rest
  BY ReadOptionsSound DEF Ui!UiInv, Ui!PagesFit
<1>4. Ui!FormTopics(w) \in SUBSET ({} \cup ({} \X {1, 2}))
  BY <1>2 DEF Ui!FormTopics, Ui!Parsed, Ui!Options
<1>5. Ui!FormEntities(w, listed) \in SUBSET Entities
  BY <1>2 DEF Ui!FormEntities
<1>6. /\ new \in Ui!Options /\ new.ents = Ui!FormEntities(w, listed)
      /\ new.rest = w.dict.rest
  <2> HIDE DEF w
  <2> QED
    BY <1>2, <1>4, <1>5 DEF Ui!Applied, Ui!Options
<1>7. file.rest \in Nat
  BY ComponentsAssumption DEF Ui!UiInv, Ui!TypeOK, Ui!Options, Ui!UiAssumption
<1> QED
  BY <1>3, <1>6, <1>7 DEF Ui!FormEntities

\* The process starts on the options as they are.
LEMMA UiStarts ==
  ASSUME Ui!UiInv, Ui!Start
  PROVE  Ui!UiInv'
<1>1. \A t \in Tabs :
        \/ tab'[t] = Ui!Blank
        \/ tab[t].stage = "page" /\ tab'[t] = [tab[t] EXCEPT !.fresh = FALSE]
  BY DEF Ui!Start
<1>2. \A t \in Tabs : tab[t].stage = "page" => tab[t] \in Ui!Pages
  BY DEF Ui!UiInv, Ui!TypeOK, Ui!Blank, Ui!Waiting, Ui!Saved
<1>3. \A t \in Tabs :
        \/ tab'[t] = Ui!Blank
        \/ tab'[t] \in Ui!Pages /\ tab'[t].fresh = FALSE /\ tab'[t].stage = "page"
  BY <1>1, <1>2 DEF Ui!Pages
<1>4. Ui!TypeOK'
  <2>1. tab' \in [Tabs -> {Ui!Blank} \cup Ui!Pages \cup Ui!Waiting]
    BY <1>3 DEF Ui!Start
  <2> QED
    BY <2>1 DEF Ui!Start, Ui!UiInv, Ui!TypeOK
<1>5. Ui!PagesFit'
  BY <1>3 DEF Ui!PagesFit, Ui!Blank
<1>6. Ui!NothingWiped'
  BY ComponentsAssumption
     DEF Ui!NothingWiped, Ui!Start, Ui!UiInv, Ui!TypeOK, Ui!Options, Ui!UiAssumption
<1> QED
  BY <1>4, <1>5, <1>6 DEF Ui!UiInv

LEMMA UiNext == Ui!UiInv /\ [Ui!Next]_ui => Ui!UiInv'
<1> SUFFICES ASSUME Ui!UiInv, [Ui!Next]_ui PROVE Ui!UiInv'
  OBVIOUS
<1>1. /\ options \in Ui!Options /\ file \in Ui!Options /\ due \in BOOLEAN
      /\ options.rest = 0 \/ options.rest >= file.rest
      /\ \A t \in Tabs : tab[t] \in Tabbed
  BY DEF Ui!UiInv, Ui!TypeOK, Ui!NothingWiped, Tabbed
<1>2. Ui!Blank \in Tabbed /\ TabFits(Ui!Blank, file) /\ Ui!Saved \in Tabbed /\ TabFits(Ui!Saved, file)
  BY DEF Tabbed, TabFits, Ui!Blank, Ui!Saved, Ui!Waiting
<1>3. ASSUME NEW t \in Tabs, Ui!Get(t)
      PROVE  Ui!UiInv'
  BY <1>1, <1>3, ReadOptionsSound, PageFits, OneTab DEF Ui!Get
<1>4. ASSUME NEW t \in Tabs, Ui!Post(t)
      PROVE  Ui!UiInv'
  <2> PICK dict \in Ui!ReadOptions, checked \in SUBSET tab[t].offered, chosen \in SUBSET {} :
        Ui!Show(t, [stage |-> "loaded", conn |-> tab[t].conn, offered |-> tab[t].offered,
                    checked |-> checked, chosen |-> chosen,
                    true |-> tab[t].true /\ dict = file, dict |-> dict])
    BY <1>4 DEF Ui!Post, Ui!Load
  <2> DEFINE true == tab[t].true /\ dict = file
             w == [stage |-> "loaded", conn |-> tab[t].conn, offered |-> tab[t].offered,
                   checked |-> checked, chosen |-> chosen, true |-> true, dict |-> dict]
  <2>1. tab[t] \in Ui!Pages /\ tab[t].stage = "page" /\ tab[t].fresh
    BY <1>1, <1>4 DEF Ui!Post, Tabbed, Ui!Blank, Ui!Waiting, Ui!Saved
  <2>2. dict \in Ui!Options
    BY ReadOptionsSound
  <2>3. true \in BOOLEAN /\ (true => tab[t].true /\ dict = file)
    BY <2>1 DEF Ui!Pages
  <2>4. true => tab[t].conn = file.conn /\ file.ents \subseteq tab[t].offered
    BY <2>1, <2>3 DEF Ui!UiInv, Ui!PagesFit
  <2>5. Ui!Show(t, w)
    OBVIOUS
  <2> HIDE DEF true
  <2>6. w \in Ui!Waiting
    BY <2>1, <2>2, <2>3 DEF Ui!Pages, Ui!Waiting
  <2>7. TabFits(w, file)
    BY <2>3, <2>4 DEF TabFits, Ui!ReadOptions
  <2> HIDE DEF w
  <2> QED
    BY <1>1, <1>4, <2>5, <2>6, <2>7, OneTab DEF Ui!Post, Ui!Load, Tabbed
<1>5. ASSUME NEW t \in Tabs, Ui!Expired(t)
      PROVE  Ui!UiInv'
  BY <1>1, <1>5, ReadOptionsSound, PageFits, OneTab DEF Ui!Expired
<1>6. ASSUME NEW t \in Tabs, Ui!Unlisted(t)
      PROVE  Ui!UiInv'
  <2>1. tab[t].dict \in Ui!Options
    BY <1>6, ReadOptionsSound DEF Ui!Unlisted, Ui!UiInv, Ui!PagesFit
  <2> QED
    BY <1>1, <1>6, <2>1, PageFits, OneTab DEF Ui!Unlisted
<1>7. ASSUME NEW t \in Tabs, Ui!Save(t)
      PROVE  Ui!UiInv'
  BY <1>1, <1>2, <1>7, AppliedIs, OneTab DEF Ui!Save
<1>8. ASSUME NEW t \in Tabs, Ui!SaveFails(t)
      PROVE  Ui!UiInv'
  <2> PICK listed \in SUBSET Entities :
        /\ Ui!Show(t, Ui!Page(Ui!Applied(tab[t], listed), listed))
        /\ options' \in {options, Ui!Applied(tab[t], listed)}
    BY <1>8 DEF Ui!SaveFails
  <2> DEFINE new == Ui!Applied(tab[t], listed)
  <2>1. new \in Ui!Options /\ (new.rest = 0 \/ new.rest >= file.rest)
    BY <1>8, AppliedIs DEF Ui!SaveFails
  <2>2. Ui!Show(t, Ui!Page(new, listed)) /\ options' \in {options, new}
    OBVIOUS
  <2> HIDE DEF new
  <2> QED
    BY <1>1, <1>8, <2>1, <2>2, PageFits, OneTab DEF Ui!SaveFails
<1>9. ASSUME NEW t \in Tabs, Ui!Answer(t)
      PROVE  Ui!UiInv'
  BY <1>1, <1>2, <1>9, OneTab DEF Ui!Answer
<1>10. CASE Ui!Start
  BY <1>10, UiStarts
<1>11. CASE Ui!RestartLater
  <2>1. CASE due' \in BOOLEAN /\ UNCHANGED <<options, file, tab>>
    BY <2>1 DEF Ui!UiInv, Ui!TypeOK, Ui!PagesFit, Ui!NothingWiped, Ui!ReadOptions
  <2> QED
    BY <1>10, <1>11, <2>1, UiStarts DEF Ui!RestartLater
<1>12. CASE Ui!Edit
  <2>1. /\ options' \in Ui!Options /\ options'.rest = options.rest + 1
        /\ options.rest \in Nat \ {0}
    BY <1>1, <1>12, ComponentsAssumption DEF Ui!Edit, Ui!Options, Ui!UiAssumption
  <2>2. options.rest >= file.rest /\ file.rest \in Nat
    BY <1>1, <2>1, ComponentsAssumption DEF Ui!Options, Ui!UiAssumption
  <2>3. Ui!NothingWiped'
    BY <1>12, <2>1, <2>2 DEF Ui!Edit, Ui!NothingWiped
  <2> QED
    BY <1>12, <2>1, <2>3 DEF Ui!Edit, Ui!UiInv, Ui!TypeOK, Ui!PagesFit, Ui!ReadOptions
<1>13. CASE UNCHANGED ui
  BY <1>13 DEF ui, Ui!UiInv, Ui!TypeOK, Ui!PagesFit, Ui!NothingWiped, Ui!ReadOptions
<1> QED
  BY <1>3, <1>4, <1>5, <1>6, <1>7, <1>8, <1>9, <1>10, <1>11, <1>12, <1>13 DEF Ui!Next

\* A save takes out of the selection what had a box and was unchecked.
LEMMA SaveRemovesUnchecked ==
  ASSUME Ui!UiInv, [Ui!Next]_ui, NEW t \in Tabs,
         tab[t].stage = "loaded", tab[t].true, tab'[t] = Ui!Saved
  PROVE  file.ents \ options'.ents \subseteq tab[t].offered \ tab[t].checked
<1>1. tab \in [Tabs -> Tabbed] /\ tab'[t].stage = "saved" /\ Ui!Blank.stage = "blank"
  BY DEF Ui!UiInv, Ui!TypeOK, Tabbed, Ui!Saved, Ui!Blank
<1>2. \A r, listed : Ui!Page(r, listed).stage = "page"
  BY DEF Ui!Page
<1>3. ~Ui!Start
  <2>1. Ui!Start => tab'[t] = Ui!Blank
    BY DEF Ui!Start
  <2> QED
    BY <1>1, <2>1
<1>4. \A u \in Tabs : \A w : Ui!Show(u, w) => u = t /\ w.stage = "saved"
  <2> SUFFICES ASSUME NEW u \in Tabs, NEW w, Ui!Show(u, w) PROVE u = t /\ w.stage = "saved"
    OBVIOUS
  <2>1. u = t
    BY <1>1 DEF Ui!Show
  <2> QED
    BY <1>1, <2>1 DEF Ui!Show
<1>5. ~UNCHANGED tab
  BY <1>1
<1>6. Ui!Save(t)
  <2>1. \A u \in Tabs : ~Ui!Get(u) /\ ~Ui!Expired(u) /\ ~Ui!Unlisted(u) /\ ~Ui!SaveFails(u)
    BY <1>2, <1>4 DEF Ui!Get, Ui!Expired, Ui!Unlisted, Ui!SaveFails
  <2>2. \A u \in Tabs : ~Ui!Post(u)
    BY <1>4 DEF Ui!Post, Ui!Load
  <2>3. \A u \in Tabs : ~Ui!Answer(u)
    BY <1>1, <1>4 DEF Ui!Answer
  <2>4. ~Ui!RestartLater /\ ~Ui!Edit /\ ~UNCHANGED ui
    BY <1>3, <1>5 DEF Ui!RestartLater, Ui!Edit, ui
  <2>5. \A u \in Tabs : Ui!Save(u) => u = t
    BY <1>4 DEF Ui!Save
  <2> QED
    BY <1>3, <2>1, <2>2, <2>3, <2>4, <2>5 DEF Ui!Next
<1>7. file.ents \subseteq tab[t].dict.ents /\ file.ents \subseteq tab[t].offered
  BY DEF Ui!UiInv, Ui!PagesFit
<1>8. \E listed \in SUBSET Entities :
        options'.ents = tab[t].checked \cap (listed \cup tab[t].dict.ents)
  BY <1>6, AppliedIs DEF Ui!Save
<1> QED
  BY <1>7, <1>8

(***************************************************************************)
(* The picture on the dashboard                                            *)
(***************************************************************************)

\* The local variables of the publisher, as they are at first and with a picture
\* or none.
LEMMA LocalsAre ==
  /\ Photo!Nothing \in Photo!Locals
  /\ \A m \in Photo!Locals :
       LET w == [m EXCEPT !.available = TRUE, !.picture = 1]
           n == [m EXCEPT !.available = FALSE, !.picture = 0]
       IN /\ w \in Photo!Locals /\ w.photo = m.photo /\ w.available = TRUE /\ w.picture = 1
          /\ n \in Photo!Locals /\ n.available = FALSE
<1>1. 0 \in 0..Photo!Gone /\ 1 \in 0..Photo!Gone
  BY ComponentsAssumption DEF Photo!PhotoAssumption, Photo!Gone
<1>2. 0 \in Photo!Photo0
  BY DEF Photo!Photo0
<1> QED
  BY <1>1, <1>2 DEF Photo!Nothing, Photo!Locals

LEMMA PhotoInit == Photo!Init => Photo!PhotoInv
<1> SUFFICES ASSUME Photo!Init PROVE Photo!PhotoInv
  OBVIOUS
<1>1. MaxFiles \in Nat /\ files \in Seq(Photo!Photo0) /\ Len(files) = 0
  BY ComponentsAssumption DEF Photo!Init, Photo!PhotoAssumption
<1>2. Photo!TypeOK
  <2>1. 0 \in Photo!Photo0 /\ 0 \in 0..Photo!Gone
    BY <1>1 DEF Photo!Photo0, Photo!Gone
  <2>2. shown \in [photo : Photo!Photo0, available : BOOLEAN, of : Photo!Photo0]
    BY <2>1 DEF Photo!Init
  <2>3. mine \in Photo!Locals
    BY LocalsAre DEF Photo!Init
  <2>4. latest \in {<<>>} \cup {<<p>> : p \in Photo!Photo0} /\ Len(files) =< MaxFiles
    BY <1>1 DEF Photo!Init
  <2> QED
    BY <1>1, <2>1, <2>2, <2>3, <2>4 DEF Photo!Init, Photo!TypeOK
<1>3. Photo!MarkersAgree /\ Photo!PictureInHand
  BY <1>1 DEF Photo!Init, Photo!MarkersAgree, Photo!PictureInHand
<1> QED
  BY <1>2, <1>3 DEF Photo!PhotoInv

\* The copies after one was added: the new one is the first, the others move on
\* or, beyond the limit, are removed, and the marker follows its copy.
LEMMA FileAdded ==
  ASSUME Photo!TypeOK, NEW p \in Photo!Photo0, NEW whole \in BOOLEAN, NEW prune \in BOOLEAN,
         Photo!AddFile(p, whole, prune), prune \/ Len(files) < MaxFiles
  PROVE  /\ files' \in Seq(Photo!Photo0) /\ Len(files') =< MaxFiles
         /\ 1 \in 1..Len(files') /\ files'[1] = p
         /\ stored' \in 0..Photo!Gone
         /\ ~prune => /\ stored =< Len(files) => stored' =< Len(files')
                      /\ \A q : Photo!CopyOf(stored, q) => Photo!CopyOf(stored, q)'
         /\ mine' = [mine EXCEPT !.available = whole, !.picture = IF whole THEN 1 ELSE 0]
<1> DEFINE all == <<p>> \o files
           kept == IF prune /\ 1 + Copies =< Len(all) THEN Copies ELSE Len(all)
<1>1. /\ MaxFiles \in Nat /\ Copies \in Nat \ {0} /\ Copies =< MaxFiles
      /\ files \in Seq(Photo!Photo0) /\ Len(files) \in Nat /\ Len(files) =< MaxFiles
      /\ stored \in Nat /\ stored =< MaxFiles + 1
  BY ComponentsAssumption DEF Photo!PhotoAssumption, Photo!TypeOK, Photo!Gone
<1>2. /\ all \in Seq(Photo!Photo0) /\ Len(all) = Len(files) + 1 /\ all[1] = p
      /\ \A i \in 1..Len(files) : all[i + 1] = files[i]
  BY <1>1
<1>3. kept \in Nat /\ 1 =< kept /\ kept =< Len(all) /\ kept =< MaxFiles
  <2>1. CASE prune /\ 1 + Copies =< Len(all)
    BY <1>1, <1>2, <2>1
  <2>2. CASE ~(prune /\ 1 + Copies =< Len(all))
    <3>1. Len(files) + 1 =< MaxFiles
      BY <1>1, <1>2, <2>2
    <3> QED
      BY <1>1, <1>2, <2>2, <3>1
  <2> QED
    BY <2>1, <2>2
<1>4. /\ files' = SubSeq(all, 1, kept)
      /\ stored' = IF stored = 0 THEN 0
                   ELSE IF stored + 1 \in 1..kept THEN stored + 1 ELSE Photo!Gone
      /\ mine' = [mine EXCEPT !.available = whole, !.picture = IF whole THEN 1 ELSE 0]
  <2>1. (IF prune THEN Photo!First(Len(all)) ELSE 1) = 1
    BY DEF Photo!First
  <2>2. (IF prune /\ 1 + Copies =< Len(all) THEN 1 + Copies - 1 ELSE Len(all)) = kept
    BY <1>1
  <2>3. stored + 2 - 1 = stored + 1
    BY <1>1
  <2> QED
    BY <2>1, <2>2, <2>3 DEF Photo!AddFile
<1> HIDE DEF all
<1>5. ~prune => kept = Len(all)
  OBVIOUS
<1> HIDE DEF kept
<1>6. /\ files' \in Seq(Photo!Photo0) /\ Len(files') = kept
      /\ \A i \in 1..kept : files'[i] = all[i]
  BY <1>2, <1>3, <1>4
<1>7. 1 \in 1..kept /\ files'[1] = p
  BY <1>2, <1>3, <1>6
<1>8. stored' \in 0..Photo!Gone
  BY <1>1, <1>3, <1>4 DEF Photo!Gone
<1>9. ASSUME ~prune, stored =< Len(files)
      PROVE  stored' =< Len(files')
  BY <1>1, <1>2, <1>4, <1>5, <1>6, <1>9
<1>10. ASSUME ~prune, NEW q, Photo!CopyOf(stored, q)
       PROVE  Photo!CopyOf(stored, q)'
  <2>1. stored \in 1..Len(files) /\ files[stored] = q
    BY <1>10 DEF Photo!CopyOf
  <2>2. stored' = stored + 1 /\ stored + 1 \in 1..kept
    BY <1>1, <1>2, <1>4, <1>5, <1>10, <2>1
  <2>3. files'[stored + 1] = q
    BY <1>2, <1>6, <2>1, <2>2
  <2> QED
    BY <1>6, <2>2, <2>3 DEF Photo!CopyOf
<1> QED
  BY <1>3, <1>4, <1>6, <1>7, <1>8, <1>9, <1>10

LEMMA PhotoNext == Photo!PhotoInv /\ [Photo!Next]_photo => Photo!PhotoInv'
<1> SUFFICES ASSUME Photo!PhotoInv, [Photo!Next]_photo PROVE Photo!PhotoInv'
  OBVIOUS
<1>1. /\ Photo!TypeOK /\ Photo!MarkersAgree /\ Photo!PictureInHand
      /\ Photos \subseteq Nat \ {0} /\ MaxFiles \in Nat
  BY ComponentsAssumption DEF Photo!PhotoInv, Photo!PhotoAssumption
<1>2. ASSUME NEW p \in Photo!Photo0, Photo!Identify(p)
      PROVE  Photo!PhotoInv'
  BY <1>1, <1>2 DEF Photo!Identify, Photo!disk, Photo!PhotoInv, Photo!TypeOK,
     Photo!MarkersAgree, Photo!PictureInHand, Photo!CopyOf
<1>3. CASE Photo!Begin(TRUE)
  <2> PICK readable \in BOOLEAN :
        /\ mine' = [photo |-> newest, available |-> latest # <<>>,
                    picture |-> IF readable THEN stored ELSE 0]
        /\ step' = IF newest # 0 /\ newest # (IF readable THEN source ELSE 0)
                   THEN "fetch" ELSE "post"
    BY <1>3 DEF Photo!Begin
  <2> DEFINE available == latest # <<>>
             picture == IF readable THEN stored ELSE 0
  <2>1. available \in BOOLEAN /\ picture \in 0..Photo!Gone
    BY <1>1 DEF Photo!TypeOK, Photo!Gone
  <2>2. /\ UNCHANGED <<newest, files, latest, source, stored, shown, spoiled>>
        /\ step = "begin"
    BY <1>3 DEF Photo!Begin, Photo!disk
  <2>3. mine' = [photo |-> newest, available |-> available, picture |-> picture]
    OBVIOUS
  <2> HIDE DEF available
  <2>4. mine' \in Photo!Locals /\ mine'.photo = newest /\ mine'.picture = picture
    BY <1>1, <2>1, <2>3 DEF Photo!TypeOK, Photo!Locals
  <2>5. Photo!TypeOK'
    BY <1>1, <2>2, <2>4 DEF Photo!TypeOK
  <2>6. Photo!MarkersAgree'
    BY <1>1, <2>2 DEF Photo!MarkersAgree, Photo!CopyOf
  <2>7. step' = "fetch" => mine'.photo # 0
    BY <2>4
  <2>8. ASSUME step' = "post", ~spoiled, newest # 0
        PROVE  Photo!CopyOf(picture, newest)
    <3>1. readable /\ newest = source
      BY <2>8
    <3> QED
      BY <1>1, <2>2, <2>8, <3>1 DEF Photo!MarkersAgree
  <2>9. Photo!PictureInHand'
    BY <2>2, <2>4, <2>7, <2>8 DEF Photo!PictureInHand, Photo!CopyOf
  <2> QED
    BY <2>5, <2>6, <2>9 DEF Photo!PhotoInv
<1>4. CASE Photo!Fetch(TRUE)
  <2>1. /\ step = "fetch" /\ step' = "source" /\ UNCHANGED <<newest, source, shown, spoiled>>
        /\ latest' \in {latest, <<mine.photo>>, <<0>>}
        /\ mine \in Photo!Locals /\ mine.photo \in Photo!Photo0 /\ mine.photo # 0
    BY <1>1, <1>4 DEF Photo!Fetch, Photo!TypeOK, Photo!Locals, Photo!PictureInHand
  <2>2. \E prune \in BOOLEAN : Photo!AddFile(mine.photo, TRUE, prune)
                                 /\ (prune \/ Len(files) < MaxFiles)
    BY <1>4 DEF Photo!Fetch
  <2>3. /\ files' \in Seq(Photo!Photo0) /\ Len(files') =< MaxFiles
        /\ 1 \in 1..Len(files') /\ files'[1] = mine.photo
        /\ stored' \in 0..Photo!Gone
        /\ mine' = [mine EXCEPT !.available = TRUE, !.picture = 1]
    BY <1>1, <2>1, <2>2, FileAdded
  <2>4. /\ mine' \in Photo!Locals
        /\ mine'.photo = mine.photo /\ mine'.available = TRUE /\ mine'.picture = 1
    BY <2>1, <2>3, LocalsAre
  <2>5. latest' \in {<<>>} \cup {<<p>> : p \in Photo!Photo0}
    BY <1>1, <2>1 DEF Photo!TypeOK, Photo!Photo0
  <2>6. Photo!TypeOK'
    BY <1>1, <2>1, <2>3, <2>4, <2>5 DEF Photo!TypeOK
  <2>7. Photo!MarkersAgree' /\ Photo!PictureInHand'
    BY <2>1, <2>3, <2>4 DEF Photo!MarkersAgree, Photo!PictureInHand, Photo!CopyOf
  <2> QED
    BY <2>6, <2>7 DEF Photo!PhotoInv
<1>5. CASE Photo!FetchFails(TRUE)
  <2>1. /\ step = "fetch" /\ step' = "post" /\ UNCHANGED <<newest, latest, source, shown, spoiled>>
        /\ mine \in Photo!Locals /\ mine.photo \in Photo!Photo0 /\ 0 \in Photo!Photo0
    BY <1>1, <1>5 DEF Photo!FetchFails, Photo!TypeOK, Photo!Locals, Photo!disk, Photo!Photo0
  <2>2. CASE UNCHANGED <<files, stored>> /\ mine' = [mine EXCEPT !.available = FALSE, !.picture = 0]
    <3>1. mine' \in Photo!Locals /\ mine'.available = FALSE
      BY <2>1, <2>2, LocalsAre
    <3>2. Photo!TypeOK'
      BY <1>1, <2>1, <2>2, <3>1 DEF Photo!TypeOK
    <3>3. Photo!MarkersAgree' /\ Photo!PictureInHand'
      BY <1>1, <2>1, <2>2, <3>1 DEF Photo!MarkersAgree, Photo!PictureInHand, Photo!CopyOf
    <3> QED
      BY <3>2, <3>3 DEF Photo!PhotoInv
  <2>3. CASE Photo!AddFile(0, FALSE, FALSE) /\ Len(files) < MaxFiles
    <3>1. /\ files' \in Seq(Photo!Photo0) /\ Len(files') =< MaxFiles
          /\ stored' \in 0..Photo!Gone
          /\ stored =< Len(files) => stored' =< Len(files')
          /\ \A q : Photo!CopyOf(stored, q) => Photo!CopyOf(stored, q)'
          /\ mine' = [mine EXCEPT !.available = FALSE, !.picture = 0]
      BY <1>1, <2>1, <2>3, FileAdded
    <3>2. mine' \in Photo!Locals /\ mine'.available = FALSE
      BY <2>1, <3>1, LocalsAre
    <3>3. Photo!TypeOK'
      BY <1>1, <2>1, <3>1, <3>2 DEF Photo!TypeOK
    <3>4. Photo!MarkersAgree'
      BY <1>1, <2>1, <3>1 DEF Photo!MarkersAgree, Photo!CopyOf
    <3>5. Photo!PictureInHand'
      BY <2>1, <3>2 DEF Photo!PictureInHand
    <3> QED
      BY <3>3, <3>4, <3>5 DEF Photo!PhotoInv
  <2> QED
    BY <1>5, <2>2, <2>3 DEF Photo!FetchFails, Photo!disk
<1>6. CASE Photo!WriteSource(TRUE)
  <2>1. /\ step = "source" /\ UNCHANGED <<newest, files, latest, stored, mine, shown>>
        /\ \/ source' = mine.photo /\ step' = "picture" /\ UNCHANGED spoiled
           \/ source' \in {source, 0} /\ step' = "post" /\ spoiled' = TRUE
    BY <1>6 DEF Photo!WriteSource
  <2>2. mine.photo \in Photo!Photo0 /\ 0 \in Photo!Photo0
    BY <1>1 DEF Photo!TypeOK, Photo!Locals, Photo!Photo0
  <2>3. Photo!TypeOK'
    BY <1>1, <2>1, <2>2 DEF Photo!TypeOK
  <2>4. Photo!MarkersAgree' /\ Photo!PictureInHand'
    BY <1>1, <2>1 DEF Photo!MarkersAgree, Photo!PictureInHand, Photo!CopyOf
  <2> QED
    BY <2>3, <2>4 DEF Photo!PhotoInv
<1>7. CASE Photo!WritePicture(TRUE)
  <2>1. /\ step = "picture" /\ step' = "post"
        /\ UNCHANGED <<newest, files, latest, source, mine, shown>>
        /\ \/ stored' = mine.picture /\ spoiled' = FALSE
           \/ stored' \in {stored, 0} /\ spoiled' = TRUE
    BY <1>7 DEF Photo!WritePicture
  <2>2. mine.picture \in 0..Photo!Gone /\ 0 \in 0..Photo!Gone
    BY <1>1 DEF Photo!TypeOK, Photo!Locals, Photo!Gone
  <2>3. Photo!TypeOK'
    BY <1>1, <2>1, <2>2 DEF Photo!TypeOK
  <2>4. Photo!CopyOf(mine.picture, mine.photo) /\ source = mine.photo
    BY <1>1, <2>1 DEF Photo!PictureInHand
  <2>5. Photo!MarkersAgree'
    BY <2>1, <2>4 DEF Photo!MarkersAgree, Photo!CopyOf
  <2>6. Photo!PictureInHand'
    BY <2>1, <2>4 DEF Photo!PictureInHand, Photo!CopyOf
  <2> QED
    BY <2>3, <2>5, <2>6 DEF Photo!PhotoInv
<1>8. CASE Photo!Post(TRUE)
  <2>1. /\ step = "post" /\ step' = "begin" /\ mine' = Photo!Nothing
        /\ UNCHANGED <<newest, files, latest, source, stored, spoiled>>
        /\ \/ UNCHANGED shown
           \/ shown' = [photo |-> IF mine.available THEN Photo!Seen(mine.picture) ELSE 0,
                        available |-> mine.available, of |-> mine.photo]
    BY <1>8 DEF Photo!Post, Photo!disk
  <2>2. mine' \in Photo!Locals
    BY <1>1, <2>1, LocalsAre DEF Photo!TypeOK
  <2>3. Photo!Seen(mine.picture) \in Photo!Photo0
    BY <1>1 DEF Photo!Seen, Photo!TypeOK, Photo!Photo0
  <2>4. shown' \in [photo : Photo!Photo0, available : BOOLEAN, of : Photo!Photo0]
    <3>1. CASE mine.available = TRUE
      BY <1>1, <2>1, <2>3, <3>1 DEF Photo!TypeOK, Photo!Locals
    <3>2. CASE mine.available = FALSE
      BY <1>1, <2>1, <3>2 DEF Photo!TypeOK, Photo!Locals, Photo!Photo0
    <3> QED
      BY <1>1, <3>1, <3>2 DEF Photo!TypeOK, Photo!Locals
  <2>5. Photo!TypeOK'
    BY <1>1, <2>1, <2>2, <2>4 DEF Photo!TypeOK
  <2>6. Photo!MarkersAgree' /\ Photo!PictureInHand'
    BY <1>1, <2>1 DEF Photo!MarkersAgree, Photo!PictureInHand, Photo!CopyOf
  <2> QED
    BY <2>5, <2>6 DEF Photo!PhotoInv
<1>9. CASE Photo!Start
  BY <1>1, <1>9 DEF Photo!Start, Photo!disk, Photo!PhotoInv, Photo!TypeOK,
     Photo!MarkersAgree, Photo!PictureInHand, Photo!CopyOf
<1>10. CASE Photo!Stop
  <2>1. /\ step' = "down" /\ mine' = Photo!Nothing
        /\ UNCHANGED <<newest, files, latest, source, stored, shown>>
        /\ spoiled' = (spoiled \/ step \in {"source", "picture"})
    BY <1>10 DEF Photo!Stop, Photo!disk
  <2>2. mine' \in Photo!Locals /\ spoiled' \in BOOLEAN
    BY <1>1, <2>1, LocalsAre DEF Photo!TypeOK
  <2>3. Photo!TypeOK'
    BY <1>1, <2>1, <2>2 DEF Photo!TypeOK
  <2>4. Photo!MarkersAgree' /\ Photo!PictureInHand'
    BY <1>1, <2>1 DEF Photo!MarkersAgree, Photo!PictureInHand, Photo!CopyOf
  <2> QED
    BY <2>3, <2>4 DEF Photo!PhotoInv
<1>11. CASE UNCHANGED photo
  BY <1>1, <1>11 DEF photo, Photo!PhotoInv, Photo!TypeOK,
     Photo!MarkersAgree, Photo!PictureInHand, Photo!CopyOf
<1> QED
  BY <1>2, <1>3, <1>4, <1>5, <1>6, <1>7, <1>8, <1>9, <1>10, <1>11
     DEF Photo!Next, Photo!Publish

\* What is posted with a person is the photo of that person.
LEMMA PictureStep ==
  ASSUME Photo!PhotoInv, [Photo!Next]_photo
  PROVE  Photo!PictureOfEvent
<1> SUFFICES ASSUME shown' # shown, shown'.available, shown'.of # 0, ~spoiled
             PROVE  shown'.photo = shown'.of
  BY DEF Photo!PictureOfEvent
<1>1. Photo!Post(TRUE)
  BY DEF Photo!Next, Photo!Publish, Photo!Identify, Photo!Begin, Photo!Fetch,
     Photo!FetchFails, Photo!WriteSource, Photo!WritePicture, Photo!Start, Photo!Stop, photo
<1>2. /\ step = "post"
      /\ shown' = [photo |-> IF mine.available THEN Photo!Seen(mine.picture) ELSE 0,
                   available |-> mine.available, of |-> mine.photo]
  BY <1>1 DEF Photo!Post
<1>3. mine.available /\ mine.photo # 0
  BY <1>2
<1>4. Photo!CopyOf(mine.picture, mine.photo)
  BY <1>2, <1>3 DEF Photo!PhotoInv, Photo!PictureInHand
<1>5. Photo!Seen(mine.picture) = mine.photo
  BY <1>4 DEF Photo!CopyOf, Photo!Seen
<1> QED
  BY <1>2, <1>3, <1>5

(***************************************************************************)
(* Configuration                                                           *)
(***************************************************************************)

\* What is kept of a list, and where.
LEMMA ActiveIs ==
  ASSUME NEW ks
  PROVE  \A i : /\ i \in DOMAIN Config!Active(ks) <=> i \in DOMAIN ks /\ ks[i].enabled
                /\ i \in DOMAIN Config!Active(ks) => Config!Active(ks)[i] = ks[i]
BY DEF Config!Active, Config!Only, Config!Restrict

LEMMA OfIs ==
  ASSUME NEW ks, NEW connector
  PROVE  \A i : /\ i \in DOMAIN Config!Of(ks, connector) <=>
                     i \in DOMAIN ks /\ ks[i].connector = connector
                /\ i \in DOMAIN Config!Of(ks, connector) =>
                     Config!Of(ks, connector)[i] = ks[i]
BY DEF Config!Of, Config!Only, Config!Restrict

Threaded == {"evo", "mqtt", "redfish", "linux"}

LEMMA ServedIs ==
  ASSUME NEW ks
  PROVE  \A i : /\ i \in DOMAIN Config!Served(ks) <=>
                     i \in DOMAIN ks /\ ks[i].enabled /\ ks[i].connector \in Threaded
                /\ i \in DOMAIN Config!Served(ks) => Config!Served(ks)[i] = ks[i]
<1>1. \A i : /\ i \in DOMAIN Config!Served(ks) <=>
                  i \in DOMAIN Config!Active(ks) /\ Config!Active(ks)[i].connector \in Threaded
             /\ i \in DOMAIN Config!Served(ks) => Config!Served(ks)[i] = Config!Active(ks)[i]
  BY DEF Config!Served, Config!Only, Config!Restrict, Threaded
<1> QED
  BY <1>1, ActiveIs

LEMMA JoinedIs ==
  ASSUME NEW s, NEW t
  PROVE  /\ \A i \in DOMAIN s : s[i] \in Config!Range(Config!Joined(s, t))
         /\ \A i \in DOMAIN t : t[i] \in Config!Range(Config!Joined(s, t))
<1> DEFINE j == Config!Joined(s, t)
<1>1. ASSUME NEW i \in DOMAIN s
      PROVE  <<1, i>> \in DOMAIN j /\ j[<<1, i>>] = s[i]
  BY DEF Config!Joined
<1>2. ASSUME NEW i \in DOMAIN t
      PROVE  <<2, i>> \in DOMAIN j /\ j[<<2, i>>] = t[i]
  BY DEF Config!Joined
<1> HIDE DEF j
<1>3. /\ \A i \in DOMAIN s : s[i] \in Config!Range(j)
      /\ \A i \in DOMAIN t : t[i] \in Config!Range(j)
  BY <1>1, <1>2 DEF Config!Range
<1> QED
  BY <1>3 DEF j

LEMMA ConfigInit == Config!Init => Config!ConfigInv
<1> SUFFICES ASSUME Config!Init PROVE Config!ConfigInv
  OBVIOUS
<1>1. Config!Range(started) = {}
  BY DEF Config!Init, Config!Range
<1> QED
  BY <1>1 DEF Config!Init, Config!ConfigInv, Config!TypeOK, Config!Built, Config!Judged

LEMMA ConfigNext == Config!ConfigInv /\ [Config!Next]_configuration => Config!ConfigInv'
<1> SUFFICES ASSUME Config!ConfigInv, [Config!Next]_configuration
             PROVE  Config!ConfigInv'
  OBVIOUS
<1> USE DEF Config!ConfigInv, Config!Built, Config!Judged
<1>0. /\ Config!Range(<<>>) = {}
      /\ Config!Range(Config!Served(connections)) \subseteq Config!Range(connections)
  <2>1. Config!Range(<<>>) = {}
    BY DEF Config!Range
  <2>2. Config!Range(Config!Served(connections)) \subseteq Config!Range(connections)
    BY ServedIs DEF Config!Range
  <2> QED
    BY <2>1, <2>2
<1> USE DEF Config!TypeOK
<1>1. CASE Config!Load
  BY <1>0, <1>1 DEF Config!Load
<1>2. CASE Config!Build
  BY <1>0, <1>2 DEF Config!Build
<1>3. CASE Config!BuildRelays
  BY <1>0, <1>3 DEF Config!BuildRelays
<1>4. CASE Config!Validate
  BY <1>0, <1>4 DEF Config!Validate
<1>5. CASE Config!StartThreads
  BY <1>0, <1>5 DEF Config!StartThreads
<1>6. CASE Config!Stop
  BY <1>0, <1>6 DEF Config!Stop
<1>7. CASE UNCHANGED configuration
  BY <1>7 DEF configuration
<1> QED
  BY <1>1, <1>2, <1>3, <1>4, <1>5, <1>6, <1>7 DEF Config!Next

\* A connection that was built is accepted only if it is well-formed, and has a
\* thread if it is enabled.
LEMMA BuiltServed ==
  ASSUME Config!ConfigInv, turn = "running",
         NEW k \in Config!Range(Config!Joined(Config!Readers(given), Config!Brokers(given)))
  PROVE  /\ Config!WellFormed(k)
         /\ k.enabled => k \in Config!Range(started)
<1>1. /\ k \in Config!Range(connections)
      /\ started = Config!Served(connections)
      /\ Config!Acceptable(given, connections)
  BY DEF Config!ConfigInv, Config!Built, Config!Judged
<1>2. Config!WellFormed(k)
  BY <1>1 DEF Config!Acceptable
<1>3. ASSUME k.enabled PROVE k \in Config!Range(started)
  <2>1. PICK i \in DOMAIN connections : k = connections[i]
    BY <1>1 DEF Config!Range
  <2>2. k.connector \in Threaded
    BY <1>2, <1>3 DEF Config!WellFormed, Config!SupportedDrivers, Threaded
  <2>3. i \in DOMAIN started /\ started[i] = k
    BY <1>1, <1>3, <2>1, <2>2, ServedIs
  <2> QED
    BY <2>3 DEF Config!Range
<1> QED
  BY <1>2, <1>3

\* A connection to a broker that has something to subscribe to is built with all
\* of it.
LEMMA BrokerBuilt ==
  ASSUME NEW m \in Config!Range(Config!Get(given, "mqtt_connections", <<>>)),
         Config!Subscriptions(given, m) # {}
  PROVE  \E k \in Config!Range(Config!Joined(Config!Readers(given), Config!Brokers(given))) :
           /\ k.connector = "mqtt" /\ k.name = m.name
           /\ m.id # "" => k.id = m.id
           /\ k.topics = Config!Subscriptions(given, m)
           /\ k.enabled = Config!Enabled(m)
<1> DEFINE ms == Config!Get(given, "mqtt_connections", <<>>)
           raw(n) == [id |-> n.id, name |-> n.name, connector |-> "mqtt",
                      enabled |-> Config!Enabled(n),
                      endpoint |-> [host |-> Config!Get(n, "host", "")],
                      subscriptions |-> Config!Subscriptions(given, n)]
           k == Config!Normal(raw(m))
<1>1. \E i \in DOMAIN Config!Brokers(given) : Config!Brokers(given)[i] = k
  <2>1. PICK i \in DOMAIN ms : m = ms[i]
    BY DEF Config!Range
  <2> DEFINE named == Config!Only(ms, LAMBDA n : Config!Subscriptions(given, n) # {})
  <2>2. i \in DOMAIN named /\ named[i] = m
    BY <2>1 DEF Config!Only, Config!Restrict
  <2>3. /\ DOMAIN Config!Brokers(given) = DOMAIN named
        /\ \A j \in DOMAIN named : Config!Brokers(given)[j] = Config!Normal(raw(named[j]))
    BY DEF Config!Brokers, Config!Each
  <2> HIDE DEF named, raw
  <2> QED
    BY <2>2, <2>3
<1>2. k \in Config!Range(Config!Joined(Config!Readers(given), Config!Brokers(given)))
  <2> HIDE DEF k
  <2> QED
    BY <1>1, JoinedIs
<1>3. /\ k.connector = "mqtt" /\ k.name = m.name
      /\ m.id # "" => k.id = m.id
      /\ k.topics = Config!Subscriptions(given, m)
      /\ k.enabled = Config!Enabled(m)
  BY DEF Config!Normal, Config!Get, Config!Enabled
<1> HIDE DEF k
<1> QED
  BY <1>2, <1>3

\* The connection to a broker subscribes to the topics of its sources.
LEMMA SourcesSubscribedBy == Config!ConfigInv => Config!SourcesSubscribed
<1> DEFINE ms == Config!Get(given, "mqtt_connections", <<>>)
<1> SUFFICES ASSUME Config!ConfigInv, turn = "running",
                    NEW s \in Config!Registered(given), NEW m \in Config!Range(ms),
                    s.connection_id = m.id, Config!Enabled(m)
             PROVE  \E k \in Config!Range(started) :
                      k.connector = "mqtt" /\ k.id = m.id /\ s.topic \in k.topics
  BY DEF Config!SourcesSubscribed
<1>1. s.topic \in Config!Subscriptions(given, m)
  BY DEF Config!Subscriptions
<1>2. m.id # ""
  BY DEF Config!Registered, Config!Usable
<1>3. PICK k \in Config!Range(Config!Joined(Config!Readers(given), Config!Brokers(given))) :
        /\ k.connector = "mqtt" /\ k.id = m.id
        /\ k.topics = Config!Subscriptions(given, m)
        /\ k.enabled = Config!Enabled(m)
  BY <1>1, <1>2, BrokerBuilt
<1>4. k \in Config!Range(started)
  BY <1>3, BuiltServed
<1> QED
  BY <1>1, <1>3, <1>4

\* What was refused would be refused without the disabled connections that
\* are well-formed.
LEMMA DisabledHarmlessBy == Config!ConfigInv => Config!DisabledHarmless
<1> DEFINE ks == Config!Only(connections, LAMBDA k : k.enabled \/ ~Config!WellFormed(k))
<1> SUFFICES ASSUME Config!ConfigInv, ~Config!Acceptable(given, connections),
                    Config!Acceptable(given, ks)
             PROVE  FALSE
  BY DEF Config!DisabledHarmless, Config!ConfigInv, Config!Judged
<1>1. /\ \A i \in DOMAIN connections :
           connections[i].enabled => i \in DOMAIN ks /\ ks[i] = connections[i]
      /\ \A i \in DOMAIN connections :
           ~Config!WellFormed(connections[i]) => i \in DOMAIN ks /\ ks[i] = connections[i]
  BY DEF Config!Only, Config!Restrict
<1>2. /\ Config!GlobalsOk(given)
      /\ \A k \in Config!Range(ks) : Config!WellFormed(k)
      /\ Config!NoDuplicates(Config!Of(Config!Active(ks), "evo"))
  BY DEF Config!Acceptable
<1> HIDE DEF ks
<1>3. ASSUME NEW k \in Config!Range(connections)
      PROVE  Config!WellFormed(k)
  <2>1. PICK i \in DOMAIN connections : k = connections[i]
    BY DEF Config!Range
  <2>2. ASSUME ~Config!WellFormed(k) PROVE k \in Config!Range(ks)
    <3>1. i \in DOMAIN ks /\ ks[i] = k
      BY <1>1, <2>1, <2>2, Zenon
    <3> QED
      BY <3>1 DEF Config!Range
  <2> QED
    BY <1>2, <2>2
<1> DEFINE before == Config!Of(Config!Active(connections), "evo")
           after == Config!Of(Config!Active(ks), "evo")
<1>4. ASSUME NEW i \in DOMAIN before
      PROVE  i \in DOMAIN after /\ after[i] = before[i]
  <2>1. /\ i \in DOMAIN connections /\ connections[i].enabled
        /\ connections[i].connector = "evo" /\ before[i] = connections[i]
    BY <1>4, OfIs, ActiveIs
  <2>2. i \in DOMAIN ks /\ ks[i] = connections[i]
    BY <1>1, <2>1, Zenon
  <2>3. i \in DOMAIN Config!Active(ks) /\ Config!Active(ks)[i] = ks[i]
    BY <2>1, <2>2, ActiveIs
  <2> HIDE DEF before
  <2> QED
    BY <2>1, <2>2, <2>3, OfIs
<1>5. Config!NoDuplicates(before)
  <2> HIDE DEF before, after
  <2>1. Config!NoDuplicates(after)
    BY <1>2 DEF after
  <2> QED
    BY <1>4, <2>1 DEF Config!NoDuplicates
<1> QED
  BY <1>2, <1>3, <1>5 DEF Config!Acceptable


\* What normalisation keeps of a connection.
LEMMA NormalIs ==
  ASSUME NEW c
  PROVE  /\ Config!Normal(c).name = c.name
         /\ Config!Normal(c).enabled = Config!Enabled(c)
         /\ LET d == Config!Get(Config!Get(c, "context", <<>>), "direction",
                                Config!Get(c, "direction", "none"))
            IN  Config!Normal(c).direction = IF d = "" THEN "none" ELSE d
BY DEF Config!Normal

LEMMA FromReaderIs ==
  ASSUME NEW r, NEW d \in Config!Directions
  PROVE  /\ Config!FromReader(r, d).name = r.name
         /\ Config!FromReader(r, d).enabled = Config!Enabled(r)
         /\ Config!FromReader(r, d).direction = d
<1> DEFINE x == [interaction_type |-> "passage", direction |-> d]
           c == [name |-> r.name, id |-> Config!Get(r, "id", ""),
                 enabled |-> Config!Enabled(r),
                 password |-> Config!Get(r, "password", ""),
                 connector |-> Config!Get(r, "driver", "evo"),
                 endpoint |-> [host |-> Config!Get(r, "ip", "")],
                 context |-> x]
<1>1. Config!FromReader(r, d) = Config!Normal(c)
  BY DEF Config!FromReader
<1>2. c.name = r.name /\ Config!Enabled(c) = Config!Enabled(r)
  BY DEF Config!Get, Config!Enabled
<1>3. Config!Get(c, "context", <<>>) = x /\ Config!Get(x, "direction", Config!Get(c, "direction", "none")) = d
  BY DEF Config!Get
<1> HIDE DEF c, x
<1>4. d # ""
  BY DEF Config!Directions
<1> QED
  BY <1>1, <1>2, <1>3, <1>4, NormalIs

\* A connection that is enabled, in whichever format, is built, and so has a
\* thread.
LEMMA ReadersServed ==
  ASSUME Config!ConfigInv, turn = "running"
  PROVE  LET raw(format) == Config!Get(given, format, <<>>)
             serves(r, directions) ==
               \E k \in Config!Range(started) : k.name = r.name /\ k.direction \in directions
         IN  IF "connections" \in DOMAIN given
             THEN \A r \in Config!Range(raw("connections")) :
                    Config!Enabled(r) => serves(r, {"in", "out", "none"})
             ELSE /\ \A r \in Config!Range(raw("entry_readers")) :
                       Config!Enabled(r) => serves(r, {"in"})
                  /\ \A r \in Config!Range(raw("exit_readers")) :
                       Config!Enabled(r) => serves(r, {"out"})
                  /\ {"entry_readers", "exit_readers"} \cap DOMAIN given = {} =>
                       \A r \in Config!Range(raw("readers")) :
                         Config!Enabled(r) => serves(r, {Config!Get(r, "direction", "in")})
<1> DEFINE raw(format) == Config!Get(given, format, <<>>)
           readers == Config!Readers(given)
           serves(r, directions) ==
             \E k \in Config!Range(started) : k.name = r.name /\ k.direction \in directions
<1> SUFFICES IF "connections" \in DOMAIN given
             THEN \A r \in Config!Range(raw("connections")) :
                    Config!Enabled(r) => serves(r, {"in", "out", "none"})
             ELSE /\ \A r \in Config!Range(raw("entry_readers")) :
                       Config!Enabled(r) => serves(r, {"in"})
                  /\ \A r \in Config!Range(raw("exit_readers")) :
                       Config!Enabled(r) => serves(r, {"out"})
                  /\ {"entry_readers", "exit_readers"} \cap DOMAIN given = {} =>
                       \A r \in Config!Range(raw("readers")) :
                         Config!Enabled(r) =>
                           serves(r, {Config!Get(r, "direction", "in")})
  OBVIOUS
<1>1. ASSUME NEW k, k.enabled, \E i \in DOMAIN readers : readers[i] = k
      PROVE  k \in Config!Range(started)
  <2> HIDE DEF readers
  <2>1. k \in Config!Range(Config!Joined(readers, Config!Brokers(given)))
    BY <1>1, JoinedIs
  <2> QED
    BY <1>1, <2>1, BuiltServed DEF readers
<1>2. /\ \A r \in Config!Range(raw("connections")) :
           Config!Get(Config!Get(r, "context", <<>>), "direction",
                      Config!Get(r, "direction", "none")) \in Config!Directions
      /\ \A r \in Config!Range(raw("readers")) :
           Config!Get(r, "direction", "in") \in Config!Directions
  <2>1. given \in Configs
    BY DEF Config!ConfigInv, Config!TypeOK
  <2> QED
    BY <2>1, ComponentsAssumption DEF Config!ConfigurationAssumption
<1>3. \A f : Config!Range(raw(f)) # {} => f \in DOMAIN given
  BY DEF Config!Range, Config!Get
<1>4. CASE "connections" \in DOMAIN given
  <2> SUFFICES ASSUME NEW r \in Config!Range(raw("connections")), Config!Enabled(r)
               PROVE  serves(r, {"in", "out", "none"})
    BY <1>4
  <2>1. PICK i \in DOMAIN raw("connections") : r = raw("connections")[i]
    BY DEF Config!Range
  <2>2. readers = Config!Each(raw("connections"), Config!Normal)
    BY <1>4 DEF Config!Readers, Config!Get
  <2>3. i \in DOMAIN readers /\ readers[i] = Config!Normal(r)
    BY <2>1, <2>2 DEF Config!Each
  <2>4. /\ Config!Normal(r).enabled
        /\ Config!Normal(r).name = r.name
        /\ Config!Normal(r).direction \in {"in", "out", "none"}
    BY <1>2, NormalIs DEF Config!Directions
  <2> QED
    BY <1>1, <2>3, <2>4
<1>5. CASE "connections" \notin DOMAIN given
  <2> DEFINE entry == Config!Each(raw("entry_readers"), LAMBDA r : Config!FromReader(r, "in"))
             exit == Config!Each(raw("exit_readers"), LAMBDA r : Config!FromReader(r, "out"))
  <2>1. {"entry_readers", "exit_readers"} \cap DOMAIN given # {} =>
          readers = Config!Joined(entry, exit)
    BY <1>5 DEF Config!Readers
  <2>2. ASSUME NEW r \in Config!Range(raw("entry_readers")), Config!Enabled(r)
        PROVE  serves(r, {"in"})
    <3>1. PICK i \in DOMAIN raw("entry_readers") : r = raw("entry_readers")[i]
      BY DEF Config!Range
    <3>2. i \in DOMAIN entry /\ entry[i] = Config!FromReader(r, "in")
      BY <3>1 DEF Config!Each
    <3>3. readers = Config!Joined(entry, exit)
      BY <1>3, <2>1, <2>2
    <3> HIDE DEF entry, exit, readers
    <3>4. \E j \in DOMAIN readers : readers[j] = Config!FromReader(r, "in")
      BY <3>2, <3>3, JoinedIs DEF Config!Range
    <3>5. /\ Config!FromReader(r, "in").enabled
          /\ Config!FromReader(r, "in").name = r.name
          /\ Config!FromReader(r, "in").direction = "in"
      BY <2>2, FromReaderIs DEF Config!Directions
    <3> QED
      BY <1>1, <3>4, <3>5
  <2>3. ASSUME NEW r \in Config!Range(raw("exit_readers")), Config!Enabled(r)
        PROVE  serves(r, {"out"})
    <3>1. PICK i \in DOMAIN raw("exit_readers") : r = raw("exit_readers")[i]
      BY DEF Config!Range
    <3>2. i \in DOMAIN exit /\ exit[i] = Config!FromReader(r, "out")
      BY <3>1 DEF Config!Each
    <3>3. readers = Config!Joined(entry, exit)
      BY <1>3, <2>1, <2>3
    <3> HIDE DEF entry, exit, readers
    <3>4. \E j \in DOMAIN readers : readers[j] = Config!FromReader(r, "out")
      BY <3>2, <3>3, JoinedIs DEF Config!Range
    <3>5. /\ Config!FromReader(r, "out").enabled
          /\ Config!FromReader(r, "out").name = r.name
          /\ Config!FromReader(r, "out").direction = "out"
      BY <2>3, FromReaderIs DEF Config!Directions
    <3> QED
      BY <1>1, <3>4, <3>5
  <2>4. ASSUME {"entry_readers", "exit_readers"} \cap DOMAIN given = {},
               NEW r \in Config!Range(raw("readers")), Config!Enabled(r)
        PROVE  serves(r, {Config!Get(r, "direction", "in")})
    <3> DEFINE d == Config!Get(r, "direction", "in")
    <3>1. PICK i \in DOMAIN raw("readers") : r = raw("readers")[i]
      BY DEF Config!Range
    <3>2. readers = Config!Each(raw("readers"), LAMBDA x :
                      Config!FromReader(x, Config!Get(x, "direction", "in")))
      BY <1>5, <2>4 DEF Config!Readers
    <3>3. i \in DOMAIN readers /\ readers[i] = Config!FromReader(r, d)
      BY <3>1, <3>2 DEF Config!Each
    <3>4. d \in Config!Directions
      BY <1>2
    <3> HIDE DEF d
    <3>5. /\ Config!FromReader(r, d).enabled
          /\ Config!FromReader(r, d).name = r.name
          /\ Config!FromReader(r, d).direction = d
      BY <2>4, <3>4, FromReaderIs
    <3> QED
      BY <1>1, <3>3, <3>5 DEF d
  <2> QED
    BY <1>5, <2>2, <2>3, <2>4
<1> QED
  BY <1>4, <1>5

\* So is a connection to a broker, unless it has nothing to subscribe to.
LEMMA BrokersServed ==
  ASSUME Config!ConfigInv, turn = "running",
         NEW m \in Config!Range(Config!Get(given, "mqtt_connections", <<>>)), Config!Enabled(m)
  PROVE  \/ /\ Config!Get(m, "topics", {}) = {}
            /\ ~\E s \in Config!Registered(given) : s.connection_id = m.id
         \/ \E k \in Config!Range(started) :
              /\ k.connector = "mqtt" /\ k.name = m.name
              /\ Config!Get(m, "topics", {}) \subseteq k.topics
<1>1. Config!Get(m, "topics", {}) \subseteq Config!Subscriptions(given, m)
  BY DEF Config!Subscriptions
<1>2. CASE Config!Subscriptions(given, m) = {}
  BY <1>2 DEF Config!Subscriptions
<1>3. CASE Config!Subscriptions(given, m) # {}
  <2>1. PICK k \in Config!Range(Config!Joined(Config!Readers(given), Config!Brokers(given))) :
          /\ k.connector = "mqtt" /\ k.name = m.name
          /\ k.topics = Config!Subscriptions(given, m)
          /\ k.enabled = Config!Enabled(m)
    BY <1>3, BrokerBuilt
  <2>2. k \in Config!Range(started)
    BY <2>1, BuiltServed
  <2> QED
    BY <1>1, <2>1, <2>2
<1> QED
  BY <1>2, <1>3

\* And so is a relay, with the terminals of it that are enabled.
LEMMA RelaysServed ==
  ASSUME Config!ConfigInv, turn = "running",
         NEW r \in Config!Range(Config!Get(given, "evo_relay_connections", <<>>)),
         Config!Enabled(r)
  PROVE  \E q \in Config!Range(relays) :
           /\ q.port = r.listen_port
           /\ \A d \in Config!Range(r.devices) :
                Config!Enabled(d) =>
                  \E e \in Config!Range(q.devices) : e.serial = d.serial
<1> DEFINE rs == Config!RelaysGiven(given)
           all == Config!Get(given, "evo_relay_connections", <<>>)
           q == Config!Relay(r)
           ds == Config!EnabledOf(r.devices)
<1>1. relays = Config!Each(rs, Config!Relay)
  BY DEF Config!ConfigInv, Config!Built
<1>2. PICK i \in DOMAIN all : r = all[i]
  BY DEF Config!Range
<1>3. i \in DOMAIN rs /\ rs[i] = r
  BY <1>2 DEF Config!RelaysGiven, Config!EnabledOf, Config!Only, Config!Restrict
<1>4. i \in DOMAIN relays /\ relays[i] = q
  <2> HIDE DEF rs
  <2> QED
    BY <1>1, <1>3 DEF Config!Each
<1>5. q \in Config!Range(relays)
  <2> HIDE DEF q
  <2> QED
    BY <1>4 DEF Config!Range
<1>6. /\ q.port = r.listen_port
      /\ DOMAIN q.devices = DOMAIN ds
      /\ \A n \in DOMAIN ds : q.devices[n].serial = ds[n].serial
  BY DEF Config!Relay, Config!Each
<1>7. ASSUME NEW d \in Config!Range(r.devices), Config!Enabled(d)
      PROVE  \E e \in Config!Range(q.devices) : e.serial = d.serial
  <2>1. PICK n \in DOMAIN r.devices : d = r.devices[n]
    BY DEF Config!Range
  <2>2. n \in DOMAIN ds /\ ds[n] = d
    BY <1>7, <2>1 DEF Config!EnabledOf, Config!Only, Config!Restrict
  <2> HIDE DEF q, ds
  <2>3. q.devices[n].serial = d.serial /\ n \in DOMAIN q.devices
    BY <1>6, <2>2
  <2> QED
    BY <2>3 DEF Config!Range
<1> HIDE DEF q, ds
<1> QED
  BY <1>5, <1>6, <1>7

\* What is enabled is served, with the exception EnabledServed states.
LEMMA EnabledServedBy == Config!ConfigInv => Config!EnabledServed
<1> SUFFICES ASSUME Config!ConfigInv, turn = "running"
             PROVE  Config!EnabledServed
  BY DEF Config!EnabledServed
<1> QED
  BY ReadersServed, BrokersServed, RelaysServed DEF Config!EnabledServed

(***************************************************************************)
(* The drivers of MQTT and of Home Assistant                               *)
(***************************************************************************)

\* The part of the product and the module proved about are one specification,
\* instantiated twice.
LEMMA MqttInitSame == Mqtt!Init => MqttTheorems!Init
BY DEF Mqtt!Init, MqttTheorems!Init, Mqtt!NoEntry, MqttTheorems!NoEntry

LEMMA MqttNextSame == [Mqtt!Next]_mqtt => [MqttTheorems!Next]_(MqttTheorems!vars)
BY DEF mqtt, MqttTheorems!vars, Mqtt!Publish, MqttTheorems!Publish, Mqtt!Acknowledge, MqttTheorems!Acknowledge,
   Mqtt!Connect, MqttTheorems!Connect, Mqtt!Disconnect, MqttTheorems!Disconnect,
   Mqtt!Receive, MqttTheorems!Receive, Mqtt!Fire, MqttTheorems!Fire, Mqtt!FireRaw,
   MqttTheorems!FireRaw, Mqtt!Crash, MqttTheorems!Crash, Mqtt!Start, MqttTheorems!Start,
   Mqtt!Take, MqttTheorems!Take, Mqtt!Changes, MqttTheorems!Changes, Mqtt!Updated,
   MqttTheorems!Updated, Mqtt!After, MqttTheorems!After, Mqtt!memory, MqttTheorems!memory,
   Mqtt!broker, MqttTheorems!broker, Mqtt!Payloads, MqttTheorems!Payloads, Mqtt!NoEntry,
   MqttTheorems!NoEntry, Mqtt!ToSet, MqttTheorems!ToSet, Mqtt!ThreadNext,
   MqttTheorems!ThreadNext, Mqtt!Next, MqttTheorems!Next

LEMMA MqttToldSame == MqttTheorems!StatesTold => StatesTold
BY DEF StatesTold, Mqtt!StatesTold, MqttTheorems!StatesTold, Mqtt!Chained, MqttTheorems!Chained,
   Mqtt!Reached, MqttTheorems!Reached, Mqtt!NoStaleNews, MqttTheorems!NoStaleNews

LEMMA MqttTypesSame == MqttTheorems!TypeOK => Mqtt!TypeOK
BY DEF Mqtt!TypeOK, MqttTheorems!TypeOK, Mqtt!Payloads, MqttTheorems!Payloads,
   Mqtt!Publications, MqttTheorems!Publications, Mqtt!Transitions,
   MqttTheorems!Transitions

LEMMA HaInitSame == Ha!Init => HaTheorems!Init
BY DEF Ha!Init, HaTheorems!Init

LEMMA HaNextSame == [Ha!Next]_ha => [HaTheorems!Next]_(HaTheorems!vars)
BY DEF ha, HaTheorems!vars, Ha!Trigger, HaTheorems!Trigger, Ha!CoreStops, HaTheorems!CoreStops, Ha!CoreStarts,
   HaTheorems!CoreStarts, Ha!Connect, HaTheorems!Connect, Ha!Authenticate,
   HaTheorems!Authenticate, Ha!Subscribe, HaTheorems!Subscribe, Ha!Refused,
   HaTheorems!Refused, Ha!Read, HaTheorems!Read, Ha!Interrupted, HaTheorems!Interrupted,
   Ha!Wake, HaTheorems!Wake, Ha!Tick, HaTheorems!Tick, Ha!Crash, HaTheorems!Crash,
   Ha!Start, HaTheorems!Start, Ha!Closed, HaTheorems!Closed, Ha!Subscribed,
   HaTheorems!Subscribed, Ha!Announceable, HaTheorems!Announceable, Ha!Least,
   HaTheorems!Least, Ha!ha, HaTheorems!ha, Ha!history, HaTheorems!history, Ha!ThreadNext,
   HaTheorems!ThreadNext, Ha!Next, HaTheorems!Next

LEMMA HaToldSame == HaTheorems!TransitionsTold => TransitionsTold
BY DEF TransitionsTold, Ha!TransitionsTold, HaTheorems!TransitionsTold, Ha!InOrder,
   HaTheorems!InOrder, Ha!NothingMissed, HaTheorems!NothingMissed, Ha!Subscribed,
   HaTheorems!Subscribed

LEMMA HaTypesSame == HaTheorems!TypeOK => Ha!TypeOK
BY DEF Ha!TypeOK, HaTheorems!TypeOK, Ha!Triggers, HaTheorems!Triggers

(***************************************************************************)
(* Theorems                                                                *)
(***************************************************************************)

\* The inductive invariants of the five parts proved about here, together.
PartsInv ==
  /\ Server!TelemetryInv /\ Outputs!FanoutInv /\ Ui!UiInv /\ Photo!PhotoInv
  /\ Config!ConfigInv

\* They hold of the product, each by the steps of its own part.
THEOREM PartsInvariant == FairSpec => []PartsInv
<1>1. Init => PartsInv
  BY InitParts, ServerInit, OutputsInit, UiInit, PhotoInit, ConfigInit DEF PartsInv
<1>2. PartsInv /\ [Next]_vars => PartsInv'
  BY NextParts, ServerNext, OutputsNext, UiNext, PhotoNext, ConfigNext DEF PartsInv
<1> QED
  BY <1>1, <1>2, PTL DEF FairSpec

\* online and offline of a server alternate while the process runs: the last two
\* events announced differ, and the last is what the thread remembers (app.py,
\* lines 2231-2277).
THEOREM ServerStatusKept == FairSpec => []StatusKept
<1>1. PartsInv => StatusKept
  BY DEF PartsInv, Server!TelemetryInv, StatusKept
<1> QED
  BY <1>1, PartsInvariant, PTL

\* Every event with an id is in the queue or was, whatever becomes of the local
\* post, unless the process ended inside the call or submit raised (app.py,
\* lines 915-949).
THEOREM EventsCopied == FairSpec => []ReliableCopy
<1>1. PartsInv => ReliableCopy
  BY DEF PartsInv, Outputs!FanoutInv, ReliableCopy
<1> QED
  BY <1>1, PartsInvariant, PTL

\* A form is applied to the connections it was made from, and no save brings
\* back options older than those of the process, unless the file could not be
\* read (state_driver_ui.py, lines 537-650).
THEOREM FormsSafe == FairSpec => []OptionsSafe
<1>1. PartsInv => OptionsSafe
  BY DEF PartsInv, Ui!UiInv, Ui!PagesFit, Ui!OptionsSafe, Ui!FormFits, OptionsSafe
<1> QED
  BY <1>1, PartsInvariant, PTL

\* Only entities that were unchecked are removed from the selection, whatever
\* Home Assistant lists when the page is made and when it is saved.
THEOREM SelectionKept == FairSpec => OnlyUncheckedRemoved
<1>1. PartsInv /\ [Next]_vars =>
        [\A t \in Tabs :
           tab[t].stage = "loaded" /\ tab[t].true /\ tab'[t] = Ui!Saved =>
             file.ents \ options'.ents \subseteq tab[t].offered \ tab[t].checked]_(Ui!vars)
  BY NextParts, SaveRemovesUnchecked DEF PartsInv
<1> QED
  BY <1>1, PartsInvariant, PTL DEF FairSpec, OnlyUncheckedRemoved, Ui!OnlyUncheckedRemoved

\* The picture posted with an event that has a photo is that photo, if no write
\* was interrupted between the two markers, and the copy named for later was not
\* removed (app.py, lines 1095-1103, 1173-1214).
THEOREM PicturesRight == FairSpec => PictureSound
<1>1. PartsInv /\ PartsInv' /\ [Next]_vars =>
        [Photo!PictureOfEvent /\ Photo!StoredPictureExists']_(Photo!vars)
  <2> SUFFICES ASSUME PartsInv, PartsInv', [Next]_vars
               PROVE  Photo!PictureOfEvent /\ Photo!StoredPictureExists'
    OBVIOUS
  <2>1. Photo!PictureOfEvent
    BY NextParts, PictureStep DEF PartsInv
  <2>2. Photo!StoredPictureExists'
    BY DEF PartsInv, Photo!PhotoInv, Photo!MarkersAgree, Photo!StoredPictureExists
  <2> QED
    BY <2>1, <2>2
<1> QED
  BY <1>1, PartsInvariant, PTL DEF FairSpec, PictureSound, Photo!PictureSound

\* Whatever the options and their format: registered sources are subscribed to,
\* what is enabled is served or the start is refused, but for connections to a
\* broker with nothing to subscribe to, which are left aside, and what is
\* disabled refuses nothing (app.py, lines 434-636).
THEOREM ConfiguredIsServed == FairSpec => []AllServed
<1>1. PartsInv => AllServed
  BY SourcesSubscribedBy, EnabledServedBy, DisabledHarmlessBy
     DEF PartsInv, AllServed, Config!AllServed
<1> QED
  BY <1>1, PartsInvariant, PTL

\* The product implements the specifications the two drivers are proved about.
LEMMA MqttImplemented == FairSpec => MqttTheorems!Spec
<1>1. Init => MqttTheorems!Init
  BY InitParts, MqttInitSame
<1>2. [Next]_vars => [MqttTheorems!Next]_(MqttTheorems!vars)
  BY NextParts, MqttNextSame
<1> QED
  BY <1>1, <1>2, PTL DEF FairSpec, MqttTheorems!Spec

LEMMA HaImplemented == FairSpec => HaTheorems!Spec
<1>1. Init => HaTheorems!Init
  BY InitParts, HaInitSame
<1>2. [Next]_vars => [HaTheorems!Next]_(HaTheorems!vars)
  BY NextParts, HaNextSame
<1> QED
  BY <1>1, <1>2, PTL DEF FairSpec, HaTheorems!Spec

\* The theorems of the two modules, of the instances.
LEMMA DriversProved ==
  /\ MqttTheorems!Spec => [](MqttTheorems!TypeOK /\ MqttTheorems!StatesTold)
  /\ HaTheorems!Spec => [](HaTheorems!TypeOK /\ HaTheorems!TransitionsTold)
<1>1. MqttTheorems!MqttAssumption /\ HaTheorems!HaAssumption
  BY ComponentsAssumption DEF Mqtt!MqttAssumption, MqttTheorems!MqttAssumption,
     Ha!HaAssumption, HaTheorems!HaAssumption, Ha!IsFiniteSet, HaTheorems!IsFiniteSet
<1>2. MqttTheorems!Spec => []MqttTheorems!TypeOK
  BY <1>1, MqttTheorems!MqttTypeCorrect
<1>3. MqttTheorems!Spec => []MqttTheorems!StatesTold
  BY <1>1, MqttTheorems!StatesToldAsPublished
<1>4. HaTheorems!Spec => []HaTheorems!TypeOK
  BY <1>1, HaTheorems!HaTypeCorrect
<1>5. HaTheorems!Spec => []HaTheorems!TransitionsTold
  BY <1>1, HaTheorems!TransitionsToldAsMade
<1> QED
  BY <1>2, <1>3, <1>4, <1>5, PTL

\* The transitions of a field of an MQTT topic form a chain, and none leads back
\* to an older publication in a clean session (app.py, lines 2567-2608).
THEOREM MqttStatesTold == FairSpec => []StatesTold
BY MqttImplemented, DriversProved, MqttToldSame, PTL

\* Transitions of Home Assistant are announced in their order, none twice, and
\* none is lost while the subscription lasts (ha_state_driver.py, lines 71-155).
THEOREM HaTransitionsTold == FairSpec => []TransitionsTold
BY HaImplemented, DriversProved, HaToldSame, PTL

\* The variables of all parts keep their types.
THEOREM PartsTypeCorrect == FairSpec => []TypeOK
<1>1. PartsInv /\ Mqtt!TypeOK /\ Ha!TypeOK => TypeOK
  BY DEF PartsInv, Server!TelemetryInv, Outputs!FanoutInv, Ui!UiInv, Photo!PhotoInv,
     Config!ConfigInv, TypeOK
<1>2. FairSpec => []Mqtt!TypeOK
  BY MqttImplemented, DriversProved, MqttTypesSame, PTL
<1>3. FairSpec => []Ha!TypeOK
  BY HaImplemented, DriversProved, HaTypesSame, PTL
<1> QED
  BY <1>1, <1>2, <1>3, PartsInvariant, PTL

=============================================================================
