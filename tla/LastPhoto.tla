----------------------------- MODULE LastPhoto -----------------------------
(***************************************************************************)
(* The picture of the last identification on the dashboard                 *)
(* (publish_operational_entities, update_last_photo_file): one thread      *)
(* publishes again and again what readers and relays, in other threads,    *)
(* leave as the last event.  A photo is fetched once: the file .source     *)
(* names the one that was fetched last, .entity_picture the copy of it in  *)
(* /config/www, where the newest Copies copies stay.                         *)
(*                                                                         *)
(* External: the terminal or disk the photo comes from, the disk the       *)
(* copies go to and the API of Home Assistant.  An action has their        *)
(* failures among its outcomes if there is `trouble`.                      *)
(***************************************************************************)
EXTENDS Naturals, Sequences

CONSTANTS
  Photos,          \* URLs of photos, positive numbers
  Copies,            \* copies that stay (5 in the code)
  MaxFiles         \* bound on the copies, those cut short included

PhotoAssumption ==
  Photos \subseteq Nat \ {0} /\ MaxFiles \in Nat /\ Copies \in 1..MaxFiles

VARIABLES
  newest,          \* photo of the last event, 0 if it has none
  files,           \* photos of the copies, newest first; 0 if cut short
  latest,          \* what latest.jpg shows: <<>> if it does not exist
  source,          \* photo named in .source, 0 if there is none
  stored,          \* copy named in .entity_picture, as an index of files
  step,            \* what the publisher does next
  mine,            \* its local variables
  shown,           \* the entity sensor.seiden_last_photo, as posted last
  spoiled          \* the markers may not belong together (history)

vars == <<newest, files, latest, source, stored, step, mine, shown, spoiled>>
disk == <<files, latest, source, stored>>

Photo0 == Photos \cup {0}
Gone == MaxFiles + 1             \* index of a copy that was removed

\* picture 0 is latest.jpg; entity_picture is empty while nothing is available.
Locals == [photo : Photo0, available : BOOLEAN, picture : 0..Gone]

TypeOK ==
  /\ newest \in Photo0
  /\ files \in Seq(Photo0) /\ Len(files) <= MaxFiles
  /\ latest \in {<<>>} \cup {<<p>> : p \in Photo0}
  /\ source \in Photo0
  /\ stored \in 0..Gone
  /\ step \in {"down", "begin", "fetch", "source", "picture", "post"}
  /\ mine \in Locals
  /\ shown \in [photo : Photo0, available : BOOLEAN, of : Photo0]
  /\ spoiled \in BOOLEAN

Nothing == [photo |-> 0, available |-> FALSE, picture |-> 0]

Init ==
  /\ newest = 0
  /\ files = <<>> /\ latest = <<>> /\ source = 0 /\ stored = 0
  /\ step = "down" /\ mine = Nothing
  /\ shown = [photo |-> 0, available |-> FALSE, of |-> 0]
  /\ spoiled = FALSE

\* A reader or a relay handles an identification, with or without a photo.
Identify(p) ==
  /\ step # "down"
  /\ newest' = p /\ p # newest
  /\ UNCHANGED <<disk, step, mine, shown, spoiled>>

\* The last event is looked at once, and the markers; an OSError while they are
\* read leaves latest.jpg for the picture and no source.
Begin(trouble) ==
  /\ step = "begin"
  /\ \E readable \in {TRUE, ~trouble} :
       LET fetched == IF readable THEN source ELSE 0
       IN /\ mine' = [photo |-> newest, available |-> latest # <<>>,
                      picture |-> IF readable THEN stored ELSE 0]
          /\ step' = IF newest # 0 /\ newest # fetched THEN "fetch" ELSE "post"
  /\ UNCHANGED <<newest, disk, shown, spoiled>>

\* (mutant of First: sorted without reverse=True)
FirstOfOldest(n) == IF n > Copies THEN n - Copies + 1 ELSE 1

\* candidates[5:] of n copies, the newest first: index of the first that stays.
First(n) == 1

\* A copy is added, whole or not, and those beyond Copies are removed or not.
AddFile(p, whole, prune) ==
  LET all == <<p>> \o files
      first == IF prune THEN First(Len(all)) ELSE 1
      last == IF prune /\ first + Copies <= Len(all) THEN first + Copies - 1 ELSE Len(all)
  IN /\ files' = SubSeq(all, first, last)
     /\ stored' = IF stored = 0 THEN 0
                  ELSE IF stored + 1 \in first..last THEN stored + 2 - first ELSE Gone
     /\ mine' = [mine EXCEPT !.available = whole,
                             !.picture = IF ~whole THEN 0
                                         ELSE IF first = 1 THEN 1 ELSE Gone]

\* The photo is copied, and, if possible, written to latest.jpg as well and old
\* copies removed.
Fetch(trouble) ==
  /\ step = "fetch"
  /\ \/ AddFile(mine.photo, TRUE, TRUE)
     \/ trouble /\ Len(files) < MaxFiles /\ AddFile(mine.photo, TRUE, FALSE)
  /\ \/ latest' = <<mine.photo>>
     \/ trouble /\ latest' \in {latest, <<0>>}
  /\ step' = "source"
  /\ UNCHANGED <<newest, source, shown, spoiled>>

\* (mutant of FetchFails: .source is written before the photo is fetched)
FetchFailsMarked(trouble) ==
  /\ step = "fetch" /\ trouble
  /\ mine' = [mine EXCEPT !.available = FALSE, !.picture = 0]
  /\ source' = mine.photo
  /\ step' = "post"
  /\ UNCHANGED <<newest, files, latest, stored, shown, spoiled>>

\* No photo, or one that is refused.  One that is copied from the disk of a
\* relay is not copied to a temporary file first, so that a part may stay.
FetchFails(trouble) ==
  /\ step = "fetch" /\ trouble
  /\ \/ /\ mine' = [mine EXCEPT !.available = FALSE, !.picture = 0]
        /\ UNCHANGED disk
     \/ /\ Len(files) < MaxFiles
        /\ AddFile(0, FALSE, FALSE)
        /\ UNCHANGED <<latest, source>>
  /\ step' = "post"
  /\ UNCHANGED <<newest, shown, spoiled>>

\* .source is written; if that fails it is as it was, or empty, and
\* .entity_picture stays.
WriteSource(trouble) ==
  /\ step = "source"
  /\ \/ source' = mine.photo /\ step' = "picture" /\ UNCHANGED spoiled
     \/ /\ trouble
        /\ source' \in {source, 0}
        /\ step' = "post" /\ spoiled' = TRUE
  /\ UNCHANGED <<newest, files, latest, stored, mine, shown>>

\* .entity_picture is written; if that fails it is as it was, or empty.
WritePicture(trouble) ==
  /\ step = "picture"
  /\ \/ stored' = mine.picture /\ spoiled' = FALSE
     \/ trouble /\ stored' \in {stored, 0} /\ spoiled' = TRUE
  /\ step' = "post"
  /\ UNCHANGED <<newest, files, latest, source, mine, shown>>

\* What a picture shows.
Seen(k) == IF k \in 1..Len(files) THEN files[k]
           ELSE IF k = 0 /\ latest # <<>> THEN latest[1] ELSE 0

\* (mutant of Post: the event is looked at again)
PostAnew(trouble) ==
  /\ step = "post"
  /\ \/ shown' = [photo |-> IF mine.available THEN Seen(mine.picture) ELSE 0,
                  available |-> mine.available, of |-> newest]
     \/ trouble /\ UNCHANGED shown
  /\ step' = "begin" /\ mine' = Nothing
  /\ UNCHANGED <<newest, disk, spoiled>>

\* publish_last_photo_entity: a post that fails is logged.
Post(trouble) ==
  /\ step = "post"
  /\ \/ shown' = [photo |-> IF mine.available THEN Seen(mine.picture) ELSE 0,
                  available |-> mine.available, of |-> mine.photo]
     \/ trouble /\ UNCHANGED shown
  /\ step' = "begin" /\ mine' = Nothing
  /\ UNCHANGED <<newest, disk, spoiled>>

\* The process ends anywhere, what is on the disk and in Home Assistant stays.
Stop ==
  /\ step # "down"
  /\ spoiled' = (spoiled \/ step \in {"source", "picture"})
  /\ step' = "down" /\ mine' = Nothing
  /\ UNCHANGED <<newest, disk, shown>>

\* The last event is in the state file.
Start ==
  /\ step = "down" /\ step' = "begin"
  /\ UNCHANGED <<newest, disk, mine, shown, spoiled>>

Publish(trouble) ==
  \/ Begin(trouble) \/ Fetch(trouble) \/ FetchFails(trouble)
  \/ WriteSource(trouble) \/ WritePicture(trouble) \/ Post(trouble)

Next == (\E p \in Photo0 : Identify(p)) \/ Publish(TRUE) \/ Start \/ Stop

\* The thread publishes after every round of polling, or every few seconds.
Fairness == WF_vars(Publish(TRUE))

Spec == Init /\ [][Next]_vars /\ Fairness

(***************************************************************************)
(* Properties                                                              *)
(***************************************************************************)

\* A person whose identification has a photo is never posted with the photo of
\* another, whatever arrives while the dashboard is published, unless a marker
\* was lost (lines 1173-1214).  One without a photo is shown with the last.
PictureOfEvent ==
  shown' # shown /\ shown'.available /\ shown'.of # 0 /\ ~spoiled =>
    shown'.photo = shown'.of

\* The copy named in .entity_picture is not one that was removed (lines
\* 1095-1103, 1203).
StoredPictureExists ==
  step \in {"source", "picture"} \/ spoiled \/ stored <= Len(files)

\* No step shows the wrong picture or loses the one kept: both of these.
PictureSound == [][PictureOfEvent /\ StoredPictureExists']_vars

\* A photo that could not be fetched is fetched later: with the last event and
\* everything else at rest, its photo is shown in the end, unless a marker was
\* lost or latest.jpg, whose existence decides (line 1174), was never written.
EventuallyShown ==
  (<>[][Publish(FALSE)]_vars /\ <>[](step # "down")) =>
    <>[](newest = 0 \/ spoiled \/ latest = <<>> \/ (shown.available /\ shown.photo = newest))

\* Picture k is the copy of photo p, and still there.
CopyOf(k, p) == k \in 1..Len(files) /\ files[k] = p

\* The markers belong together, unless they are being written or one was lost.
MarkersAgree ==
  step \in {"source", "picture"} \/ spoiled \/
    /\ stored <= Len(files)
    /\ source # 0 => CopyOf(stored, source)

\* What the publisher has in its hands is the photo it was to fetch; the copy is
\* the newest until the markers are written.
PictureInHand ==
  /\ step = "fetch" => mine.photo # 0
  /\ step \in {"source", "picture"} =>
       mine.photo # 0 /\ mine.available /\ CopyOf(mine.picture, mine.photo)
  /\ step = "picture" => source = mine.photo
  /\ step = "post" /\ ~spoiled /\ mine.available /\ mine.photo # 0 =>
       CopyOf(mine.picture, mine.photo)

\* The inductive invariant behind PictureSound.
PhotoInv == TypeOK /\ MarkersAgree /\ PictureInHand

=============================================================================
