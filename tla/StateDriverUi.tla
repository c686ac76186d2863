---------------------------- MODULE StateDriverUi ----------------------------
(***************************************************************************)
(* The configurator of the State Drivers (state_driver_ui.py): each request*)
(* has a thread of its own, reads the options of the add-on from the file  *)
(* the process was started with, lets the form change them, and hands all  *)
(* of them to the Supervisor.  The answered save restarts the add-on.      *)
(*                                                                         *)
(* External: the Supervisor keeps the options and writes the file when it  *)
(* starts the add-on; Home Assistant lists the entities it has at the      *)
(* moment, which can be any.  The options are edited outside, too.         *)
(***************************************************************************)
EXTENDS Naturals

CONSTANTS
  Tabs,            \* browser tabs, each with at most one request
  Conns, NoConn,   \* MQTT connections: the one at index 0, or none
  Topics,          \* topics listed in a connection
  Composed,        \* those with a comma or a semicolon in their name
  Entities,        \* entities of Home Assistant
  MaxEdits         \* bound on the edits outside the page

UiAssumption ==
  /\ NoConn \notin Conns
  /\ Composed \subseteq Topics
  /\ MaxEdits \in Nat

VARIABLES
  options,         \* what the Supervisor keeps
  file,            \* /data/options.json, as written last
  tab,             \* what each tab shows or waits for
  due              \* a restart is due, from one request or more

vars == <<options, file, tab, due>>

\* conn stands for the list mqtt_connections, topics for state_driver_topics
\* as it is parsed, rest for every option the page does not show: 0 if there
\* is none, 1 as they are at first, then as each edit leaves them.
Options == [conn : Conns \cup {NoConn}, topics : SUBSET (Topics \cup (Composed \X {1, 2})),
            ents : SUBSET Entities, rest : 0..MaxEdits + 1]

\* _load_options: a file that cannot be read is an empty configuration.
Unread == [conn |-> NoConn, topics |-> {}, ents |-> {}, rest |-> 0]
ReadOptions == {file, Unread}

\* Saved as "a, b" and parsed again at every comma, semicolon and line end: a
\* topic with a separator in it comes back in pieces (app.py, 332-337).
Parsed(selected) ==
  (selected \ Composed) \cup ((selected \cap Composed) \X {1, 2})

(***************************************************************************)
(* A tab is blank, shows a page, or waits for the answer to its form.  The *)
(* page is fresh while the process runs that made it, whose token it has;  *)
(* `offered` are the entities it has a box for; it is `true` if what it    *)
(* shows was in the file.  A waiting tab has its form, as long as it is    *)
(* needed, and the dictionary of its thread.                               *)
(***************************************************************************)
Blank == [stage |-> "blank"]
Saved == [stage |-> "saved"]

\* (mutant of Boxes: only entities that Home Assistant lists are shown)
BoxesOfListed(read, listed) == listed

\* Selected entities are shown even if Home Assistant does not list them.
Boxes(read, listed) == listed \cup read.ents

\* A page with a section per connection and a box per entity.
Page(read, listed) ==
  [stage |-> "page", fresh |-> TRUE, conn |-> read.conn,
   offered |-> Boxes(read, listed), true |-> read = file]

Pages == [stage : {"page"}, fresh : BOOLEAN, conn : Conns \cup {NoConn},
          offered : SUBSET Entities, true : BOOLEAN]
Waiting == [stage : {"loaded"}, conn : Conns \cup {NoConn},
            offered : SUBSET Entities, checked : SUBSET Entities,
            chosen : SUBSET Topics, true : BOOLEAN, dict : Options]
           \cup {Saved}

TypeOK ==
  /\ options \in Options /\ file \in Options
  /\ tab \in [Tabs -> {Blank} \cup Pages \cup Waiting]
  /\ due \in BOOLEAN

Init ==
  /\ options \in [conn : Conns, topics : {{}}, ents : SUBSET Entities, rest : {1}]
  /\ file = options
  /\ tab = [t \in Tabs |-> Blank]
  /\ due = FALSE

Show(t, page) == tab' = [tab EXCEPT ![t] = page]

\* do_GET.  If Home Assistant cannot be asked, no entity is listed.
Get(t) ==
  /\ tab[t].stage \in {"blank", "page"}
  /\ \E read \in ReadOptions, listed \in SUBSET Entities : Show(t, Page(read, listed))
  /\ UNCHANGED <<options, file, due>>

\* The form arrives, and _load_options reads what it is applied to.
Load(t) ==
  /\ \E dict \in ReadOptions, checked \in SUBSET tab[t].offered, chosen \in SUBSET Topics :
       Show(t, [stage |-> "loaded", conn |-> tab[t].conn, offered |-> tab[t].offered,
                checked |-> checked, chosen |-> chosen,
                true |-> tab[t].true /\ dict = file, dict |-> dict])
  /\ UNCHANGED <<options, file, due>>

\* (mutant of Post: the token outlives the process)
PostStale(t) == tab[t].stage = "page" /\ Load(t)

\* do_POST: the form comes with the token of this process.
Post(t) == tab[t].stage = "page" /\ tab[t].fresh /\ Load(t)

\* 403: the answer is a page of this process.
Expired(t) ==
  /\ tab[t].stage = "page" /\ ~tab[t].fresh
  /\ \E read \in ReadOptions, listed \in SUBSET Entities : Show(t, Page(read, listed))
  /\ UNCHANGED <<options, file, due>>

\* 503: Home Assistant cannot be asked, nothing is saved.
Unlisted(t) ==
  /\ tab[t].stage = "loaded"
  /\ Show(t, Page(tab[t].dict, {}))
  /\ UNCHANGED <<options, file, due>>

\* _apply_mqtt_form: by the index of the connection.
FormTopics(w) == IF w.dict.conn = NoConn THEN w.dict.topics ELSE Parsed(w.chosen)

\* _apply_ha_form: an entity selected before may be absent for the moment.
FormEntities(w, listed) == w.checked \cap (listed \cup w.dict.ents)

\* (mutant of Applied: the other options are those of a new installation)
AppliedToDefaults(w, listed) ==
  [conn |-> w.dict.conn, topics |-> FormTopics(w), ents |-> FormEntities(w, listed), rest |-> 1]

\* The dictionary with the form applied to it.
Applied(w, listed) ==
  [w.dict EXCEPT !.topics = FormTopics(w), !.ents = FormEntities(w, listed)]

\* Entities are listed, the form is applied, and the Supervisor takes it all.
Save(t) ==
  /\ tab[t].stage = "loaded"
  /\ \E listed \in SUBSET Entities :
       options' = Applied(tab[t], listed)
  /\ Show(t, Saved)
  /\ UNCHANGED <<file, due>>

\* 500: refused, or saved and the answer is lost.  The page shows the form.
SaveFails(t) ==
  /\ tab[t].stage = "loaded"
  /\ \E listed \in SUBSET Entities :
       LET new == Applied(tab[t], listed)
       IN /\ Show(t, Page(new, listed))
          /\ options' \in {options, new}
  /\ UNCHANGED <<file, due>>

\* The page is sent, and only then is the restart set up; if the browser is
\* gone, the exception of the write ends the thread before.  The user is told
\* of the restart and opens the page again.
Answer(t) ==
  /\ tab[t].stage = "saved"
  /\ Show(t, Blank)
  /\ due' \in {due, TRUE}
  /\ UNCHANGED <<options, file>>

\* The process is started on the options as they are: by _restart_later, by
\* hand or after a crash.  The threads end, the pages keep an old token.
Start ==
  /\ file' = options
  /\ tab' = [t \in Tabs |-> IF tab[t].stage # "page" THEN Blank
                            ELSE [tab[t] EXCEPT !.fresh = FALSE]]
  /\ due' = FALSE
  /\ UNCHANGED options

\* 1.25 s later the Supervisor is asked for the restart; a failure is logged.
RestartLater ==
  /\ due
  /\ \/ Start
     \/ due' \in BOOLEAN /\ UNCHANGED <<options, file, tab>>

\* The options are edited outside: another list of connections, other
\* entities, other values of the rest.
Edit ==
  /\ options.rest \in 1..MaxEdits
  /\ \E c \in Conns, E \in SUBSET Entities :
       options' = [conn |-> c, topics |-> {}, ents |-> E, rest |-> options.rest + 1]
  /\ UNCHANGED <<file, tab, due>>

Next ==
  \/ \E t \in Tabs : \/ Get(t) \/ Post(t) \/ Expired(t) \/ Unlisted(t)
                     \/ Save(t) \/ SaveFails(t) \/ Answer(t)
  \/ RestartLater \/ Start \/ Edit

Spec == Init /\ [][Next]_vars

(***************************************************************************)
(* Properties                                                              *)
(***************************************************************************)

\* A form is applied by index to the connections it was made from: the token
\* of the process keeps out the pages of an earlier one, whose connections may
\* have been others, unless the file could not be read (lines 537-568, 635-648).
FormFits ==
  \A t \in Tabs :
    tab[t].stage = "loaded" /\ tab[t].true => tab[t].conn = tab[t].dict.conn

\* CHANGELOG.md:70-71, selected entities stay visible and no outage wipes a
\* valid selection: a save takes out an entity of the file only if it had a box
\* that was unchecked, whatever Home Assistant listed when the page was made or
\* saved, unless the file could not be read.
OnlyUncheckedRemoved ==
  [][\A t \in Tabs :
       tab[t].stage = "loaded" /\ tab[t].true /\ tab'[t] = Saved =>
         file.ents \ options'.ents \subseteq tab[t].offered \ tab[t].checked]_vars

\* Two saves from one file undo each other, but no save brings back options
\* older than those the process was started with, except that an unreadable
\* file is taken for an empty one (lines 46-55, 98-105, 650).
NothingWiped == options.rest = 0 \/ options.rest >= file.rest

\* A form does to the options what its page showed, and no more: both of these.
OptionsSafe == FormFits /\ NothingWiped

\* README.md:293-294, CHANGELOG.md:90: what is saved is always a subset of the
\* topics the connection subscribes to.
SubsetOfSubscription == options.topics \subseteq Topics

\* A fresh page that shows what is in the file has its connection and a box for
\* each of its entities.  Whatever form is in the hands of a thread, it is
\* applied to the file of this process or to nothing.
PagesFit ==
  \A t \in Tabs :
    /\ tab[t].stage = "page" /\ tab[t].fresh /\ tab[t].true =>
         tab[t].conn = file.conn /\ file.ents \subseteq tab[t].offered
    /\ tab[t].stage = "loaded" => tab[t].dict \in ReadOptions
    /\ tab[t].stage = "loaded" /\ tab[t].true =>
         /\ tab[t].dict = file /\ tab[t].conn = file.conn
         /\ file.ents \subseteq tab[t].offered

\* The inductive invariant behind the two properties above.
UiInv == TypeOK /\ PagesFit /\ NothingWiped

=============================================================================
