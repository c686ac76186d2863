--------------------------- MODULE EvoRelayProofs ---------------------------
(***************************************************************************)
(* Proofs about EvoRelay: the inductive invariant RelayInv and the safety  *)
(* properties it implies, for any number of connections, devices, frames,  *)
(* records and threads of the executor.                                    *)
(*                                                                         *)
(* A step changes one session.  The lemmas on sessions say that it stays   *)
(* sound, the lemmas on status that what is published still follows it.    *)
(***************************************************************************)
EXTENDS EvoRelay, TLAPS

\* What RelayInv says of each session by itself.
Sound(x) == x \in SessionStates /\ WellFormed(x) /\ RecordsInLine(x)

(***************************************************************************)
(* Numbers, callbacks and prefixes                                         *)
(***************************************************************************)

\* The bounds are numbers, and so is their product.
LEMMA Bounds ==
  /\ MaxFrames \in Nat /\ FrameLog \in Nat
  /\ MaxFrames * FrameLog \in Nat
BY RelayAssumption

\* The records of a sendlog have numbers within the bounds.
LEMMA LogNumbers ==
  ASSUME NEW f \in 0..MaxFrames, f < MaxFrames, NEW k \in 1..FrameLog, NEW i \in 1..k
  PROVE  f * FrameLog + i \in Numbers
<1>1. MaxFrames \in Nat /\ FrameLog \in Nat /\ f \in Nat /\ f + 1 =< MaxFrames
  BY RelayAssumption
<1>2. (f + 1) * FrameLog =< MaxFrames * FrameLog
  BY <1>1
<1>3. (f + 1) * FrameLog = f * FrameLog + FrameLog
  BY <1>1
<1>4. f * FrameLog \in Nat /\ MaxFrames * FrameLog \in Nat
  BY <1>1
<1> QED
  BY <1>1, <1>2, <1>3, <1>4 DEF Numbers

\* Callbacks are what they are made of.
LEMMA Jobs ==
  /\ NoJob \in Job /\ NoJob.kind = "none"
  /\ \A kind \in {"none", "reg", "online", "record", "offline"} :
       Do(kind) \in Job /\ Do(kind).kind = kind
  /\ \A n \in Numbers : Handle(n) \in Job /\ Handle(n).kind = "record" /\ Handle(n).n = n
BY Bounds DEF Job, Do, Handle, NoJob, Numbers

\* A line of a numbers and, behind it, b more; the first of these joins the line.
LEMMA LineMoves ==
  ASSUME NEW a \in Nat, NEW b \in Nat \ {0}
  PROVE  a + 1 \in 1..(a + b) /\ a + b = (a + 1) + (b - 1)
OBVIOUS

\* One sequence is a prefix of another if it agrees with it as far as it goes.
LEMMA PrefixIs ==
  ASSUME NEW S, NEW p \in Seq(S), NEW q \in Seq(S)
  PROVE  IsPrefix(p, q) <=> Len(p) =< Len(q) /\ \A i \in 1..Len(p) : p[i] = q[i]
<1>1. Len(p) \in Nat /\ Len(q) \in Nat /\ DOMAIN p = 1..Len(p)
  OBVIOUS
<1>2. CASE Len(p) =< Len(q)
  <2>1. /\ Len(SubSeq(p, 1, Len(p))) = Len(p) /\ Len(SubSeq(q, 1, Len(p))) = Len(p)
        /\ SubSeq(p, 1, Len(p)) \in Seq(S) /\ SubSeq(q, 1, Len(p)) \in Seq(S)
        /\ \A i \in 1..Len(p) : SubSeq(p, 1, Len(p))[i] = p[i] /\ SubSeq(q, 1, Len(p))[i] = q[i]
    BY <1>1, <1>2
  <2>2. SubSeq(p, 1, Len(p)) = SubSeq(q, 1, Len(p)) <=> \A i \in 1..Len(p) : p[i] = q[i]
    BY <1>1, <2>1
  <2> QED
    BY <1>2, <2>2 DEF IsPrefix
<1>3. CASE ~(Len(p) =< Len(q))
  BY <1>1, <1>3 DEF IsPrefix
<1> QED
  BY <1>2, <1>3

\* Two sequences of one length are equal if one is a prefix of the other.
LEMMA WholePrefix ==
  ASSUME NEW S, NEW p \in Seq(S), NEW q \in Seq(S), IsPrefix(p, q), Len(p) = Len(q)
  PROVE  p = q
BY PrefixIs

\* A prefix grows by the next element.
LEMMA NextOfPrefix ==
  ASSUME NEW S, NEW p \in Seq(S), NEW q \in Seq(S), IsPrefix(p, q), Len(p) < Len(q)
  PROVE  /\ Append(p, q[Len(p) + 1]) \in Seq(S)
         /\ Len(Append(p, q[Len(p) + 1])) = Len(p) + 1
         /\ IsPrefix(Append(p, q[Len(p) + 1]), q)
<1> DEFINE r == Append(p, q[Len(p) + 1])
<1>1. Len(p) \in Nat /\ Len(q) \in Nat /\ Len(p) + 1 \in 1..Len(q)
  OBVIOUS
<1>2. q[Len(p) + 1] \in S
  BY <1>1
<1>3. /\ r \in Seq(S) /\ Len(r) = Len(p) + 1
      /\ \A i \in 1..Len(r) : (i \in 1..Len(p) /\ r[i] = p[i]) \/ (i = Len(p) + 1 /\ r[i] = q[i])
  BY <1>1, <1>2
<1>4. \A i \in 1..Len(p) : p[i] = q[i]
  BY PrefixIs
<1>5. Len(r) =< Len(q) /\ \A i \in 1..Len(r) : r[i] = q[i]
  BY <1>1, <1>3, <1>4
<1> HIDE DEF r
<1>6. IsPrefix(r, q)
  BY <1>3, <1>5, PrefixIs
<1> QED
  BY <1>3, <1>6 DEF r

(***************************************************************************)
(* What each step makes of a sound session                                 *)
(***************************************************************************)

\* A name that is free, and a new session.
LEMMA UnusedSound == Sound(Unused)
<1>1. Unused \in SessionStates
  BY Jobs DEF Unused, SessionStates
<1>2. WellFormed(Unused)
  BY DEF WellFormed, Unused
<1>3. IsPrefix(<<>>, <<>>)
  BY DEF IsPrefix
<1>4. RecordsInLine(Unused)
  BY <1>3, Jobs DEF RecordsInLine, Unused
<1> QED
  BY <1>1, <1>2, <1>4 DEF Sound

LEMMA ConnectedSound ==
  ASSUME NEW d \in Devices
  PROVE  Sound([Unused EXCEPT !.at = "open", !.device = d])
<1> DEFINE y == [Unused EXCEPT !.at = "open", !.device = d]
<1>1. Unused \in SessionStates
  BY UnusedSound DEF Sound
<1>2. /\ y \in SessionStates
      /\ y.at = "open" /\ y.device = d /\ y.serial = FALSE /\ y.registered = FALSE
      /\ y.todo = <<>> /\ y.job = NoJob /\ y.thread = FALSE /\ y.orphan = NoJob
      /\ y.clean = FALSE /\ y.got = <<>> /\ y.done = <<>>
  BY <1>1 DEF SessionStates, Unused
<1> HIDE DEF y
<1>3. WellFormed(y)
  BY <1>2, Jobs DEF WellFormed
<1>4. IsPrefix(<<>>, <<>>)
  BY DEF IsPrefix
<1>5. RecordsInLine(y)
  BY <1>2, <1>4, Jobs DEF RecordsInLine, Taken
<1> QED
  BY <1>2, <1>3, <1>5 DEF Sound, y

\* The fields of a session that ends.
LEMMA ClosedIs ==
  ASSUME NEW x \in SessionStates, NEW clean \in BOOLEAN
  PROVE  /\ Closed(x, clean) \in SessionStates
         /\ Closed(x, clean).at = "closing"
         /\ Closed(x, clean).device = x.device
         /\ Closed(x, clean).serial = x.serial
         /\ Closed(x, clean).registered = x.registered
         /\ Closed(x, clean).todo = <<>>
         /\ Closed(x, clean).job = IF x.serial THEN Do("offline") ELSE NoJob
         /\ Closed(x, clean).thread = FALSE
         /\ Closed(x, clean).orphan = x.orphan
         /\ Closed(x, clean).clean = clean
         /\ Closed(x, clean).got = x.got
         /\ Closed(x, clean).done = x.done
<1> DEFINE j == IF x.serial THEN Do("offline") ELSE NoJob
<1>1. j \in Job /\ <<>> \in Seq(Job)
  BY Jobs
<1>2. Closed(x, clean) = [x EXCEPT !.at = "closing", !.clean = clean, !.todo = <<>>,
                                   !.thread = FALSE, !.job = j]
  BY DEF Closed
<1> HIDE DEF j
<1> QED
  BY <1>1, <1>2 DEF SessionStates, j

\* What was learnt of the line of records, in a session that is open.
LEMMA OpenLine ==
  ASSUME NEW x, Sound(x), x.at = "open"
  PROVE  /\ x.got \in Seq(Numbers) /\ x.done \in Seq(Numbers) /\ x.todo \in Seq(Job)
         /\ Len(x.got) \in Nat /\ Len(x.done) \in Nat /\ Len(x.todo) \in Nat
         /\ Taken(x) \in Nat /\ Len(x.done) =< Taken(x) /\ Taken(x) =< Len(x.got)
         /\ IsPrefix(x.done, x.got)
         /\ x.job.kind = "record" => Taken(x) = Len(x.done) + 1 /\ Len(x.done) < Len(x.got)
                                       /\ x.job.n = x.got[Len(x.done) + 1]
         /\ x.job.kind # "record" => Taken(x) = Len(x.done)
<1>1. /\ x.got \in Seq(Numbers) /\ x.done \in Seq(Numbers) /\ x.todo \in Seq(Job)
      /\ Len(x.got) \in Nat /\ Len(x.done) \in Nat /\ Len(x.todo) \in Nat
  BY DEF Sound, SessionStates
<1>2. /\ x.job.kind = "record" => Taken(x) = Len(x.done) + 1
      /\ x.job.kind # "record" => Taken(x) = Len(x.done)
  <2>1. CASE x.job.kind = "record"
    BY <2>1 DEF Taken
  <2>2. CASE x.job.kind # "record"
    BY <1>1, <2>2 DEF Taken
  <2> QED
    BY <2>1, <2>2
<1>3. IsPrefix(x.done, x.got) /\ Taken(x) =< Len(x.got)
  BY <1>1, <1>2 DEF Sound, RecordsInLine
<1>4. x.job.kind = "record" => x.job.n = x.got[Taken(x)]
  BY DEF Sound, RecordsInLine
<1> QED
  BY <1>1, <1>2, <1>3, <1>4

\* An idle session that ends has handled all it was sent.
LEMMA ClosedIdleSound ==
  ASSUME NEW x, Sound(x), x.at = "open", x.job = NoJob, x.todo = <<>>,
         NEW clean \in BOOLEAN
  PROVE  Sound(Closed(x, clean))
<1> DEFINE y == Closed(x, clean)
<1>1. x \in SessionStates /\ x.orphan = NoJob /\ x.device \in Devices
      /\ (x.registered => x.serial)
  BY DEF Sound, WellFormed
<1>2. x.done = x.got
  <2>1. Taken(x) = Len(x.done) /\ Len(x.got) = Taken(x)
    BY OpenLine, Jobs DEF Sound, RecordsInLine
  <2> QED
    BY <2>1, OpenLine, WholePrefix
<1>3. /\ y \in SessionStates
      /\ y.at = "closing" /\ y.device = x.device /\ y.todo = <<>>
      /\ y.job = (IF x.serial THEN Do("offline") ELSE NoJob)
      /\ y.thread = FALSE /\ y.orphan = x.orphan
      /\ y.registered = x.registered /\ y.serial = x.serial
      /\ y.got = x.got /\ y.done = x.done
  <2>1. CASE clean = TRUE
    BY <1>1, <2>1, ClosedIs
  <2>2. CASE clean = FALSE
    BY <1>1, <2>2, ClosedIs
  <2> QED
    BY <2>1, <2>2
<1> HIDE DEF y
<1>4. WellFormed(y)
  BY <1>1, <1>3 DEF WellFormed
<1>5. RecordsInLine(y)
  BY <1>1, <1>2, <1>3, OpenLine, Jobs DEF RecordsInLine
<1> QED
  BY <1>3, <1>4, <1>5 DEF Sound, y

\* A session cut off by the server leaves the running callback to itself; the
\* record it handles is the next in line.
LEMMA CutOffSound ==
  ASSUME NEW x, Sound(x), x.at = "open"
  PROVE  Sound([Closed(x, FALSE) EXCEPT !.orphan = IF x.thread THEN x.job ELSE NoJob])
<1> DEFINE c == Closed(x, FALSE)
           y == [c EXCEPT !.orphan = IF x.thread THEN x.job ELSE NoJob]
<1>1. x \in SessionStates /\ x.device \in Devices /\ x.job.kind # "offline"
      /\ (x.registered => x.serial)
  BY DEF Sound, WellFormed
<1>2. /\ c \in SessionStates
      /\ c.at = "closing" /\ c.device = x.device /\ c.todo = <<>>
      /\ c.job = (IF x.serial THEN Do("offline") ELSE NoJob)
      /\ c.thread = FALSE /\ c.clean = FALSE
      /\ c.registered = x.registered /\ c.serial = x.serial
      /\ c.got = x.got /\ c.done = x.done
  BY <1>1, ClosedIs
<1> HIDE DEF c
<1>3. (IF x.thread THEN x.job ELSE NoJob) \in Job
  BY <1>1, Jobs DEF SessionStates
<1>4. /\ y \in SessionStates
      /\ y.at = "closing" /\ y.device = x.device /\ y.todo = <<>>
      /\ y.job = (IF x.serial THEN Do("offline") ELSE NoJob)
      /\ y.thread = FALSE /\ y.clean = FALSE
      /\ y.registered = x.registered /\ y.serial = x.serial
      /\ y.got = x.got /\ y.done = x.done
      /\ y.orphan \in {x.job, NoJob}
  BY <1>2, <1>3 DEF SessionStates
<1> HIDE DEF y
<1>5. WellFormed(y)
  BY <1>1, <1>4 DEF WellFormed
<1>6. RecordsInLine(y)
  BY <1>4, OpenLine, Jobs DEF RecordsInLine
<1> QED
  BY <1>4, <1>5, <1>6 DEF Sound, y, c

\* A record whose callback raised counts as handled.
LEMMA RaisedSound ==
  ASSUME NEW x, Sound(x), x.at = "open", x.job.kind = "record"
  PROVE  Sound(Closed([x EXCEPT !.done = Append(@, x.job.n)], FALSE))
<1> DEFINE w == [x EXCEPT !.done = Append(@, x.job.n)]
           y == Closed(w, FALSE)
<1>1. x \in SessionStates /\ x.device \in Devices /\ x.orphan = NoJob
      /\ (x.registered => x.serial)
  BY DEF Sound, WellFormed
<1>2. /\ Append(x.done, x.job.n) \in Seq(Numbers)
      /\ IsPrefix(Append(x.done, x.job.n), x.got)
  BY OpenLine, NextOfPrefix
<1>3. /\ w \in SessionStates
      /\ w.device = x.device /\ w.orphan = NoJob
      /\ w.registered = x.registered /\ w.serial = x.serial
      /\ w.got = x.got /\ w.done = Append(x.done, x.job.n)
  BY <1>1, <1>2 DEF SessionStates
<1> HIDE DEF w
<1>4. /\ y \in SessionStates
      /\ y.at = "closing" /\ y.device = x.device /\ y.todo = <<>>
      /\ y.job = (IF x.serial THEN Do("offline") ELSE NoJob)
      /\ y.thread = FALSE /\ y.clean = FALSE /\ y.orphan = NoJob
      /\ y.registered = x.registered /\ y.serial = x.serial
      /\ y.got = x.got /\ y.done = Append(x.done, x.job.n)
  BY <1>3, ClosedIs
<1> HIDE DEF y
<1>5. WellFormed(y)
  BY <1>1, <1>4 DEF WellFormed
<1>6. RecordsInLine(y)
  BY <1>2, <1>4, Jobs DEF RecordsInLine
<1> QED
  BY <1>4, <1>5, <1>6 DEF Sound, y, w

\* A registration puts callbacks without records in line.
LEMMA RegisteringSound ==
  ASSUME NEW x, Sound(x), x.at = "open", x.job = NoJob, x.todo = <<>>
  PROVE  Sound([x EXCEPT !.serial = TRUE, !.todo = <<Do("reg"), Do("online")>>])
<1> DEFINE todo == <<Do("reg"), Do("online")>>
           y == [x EXCEPT !.serial = TRUE, !.todo = todo]
<1>1. x \in SessionStates /\ x.device \in Devices /\ x.orphan = NoJob /\ ~x.clean
      /\ (x.thread => x.job # NoJob)
  BY DEF Sound, WellFormed
<1>2. /\ todo \in Seq(Job) /\ Len(todo) = 2
      /\ \A i \in 1..Len(todo) : todo[i].kind \notin {"offline", "record"}
  BY Jobs
<1> HIDE DEF todo
<1>3. /\ y \in SessionStates
      /\ y.at = "open" /\ y.device = x.device /\ y.serial = TRUE
      /\ y.todo = todo /\ y.job = NoJob /\ y.thread = x.thread /\ y.orphan = NoJob
      /\ y.clean = x.clean /\ y.got = x.got /\ y.done = x.done
  BY <1>1, <1>2 DEF SessionStates
<1> HIDE DEF y
<1>4. WellFormed(y)
  BY <1>1, <1>2, <1>3, Jobs DEF WellFormed
<1>5. RecordsInLine(y)
  <2>1. Taken(x) = Len(x.done) /\ Len(x.got) = Taken(x)
    BY OpenLine, Jobs DEF Sound, RecordsInLine
  <2>2. y.job.kind # "record" /\ y.orphan.kind # "record" /\ ~y.clean
    BY <1>1, <1>3, Jobs
  <2>3. Taken(y) = Len(y.done)
    BY <1>3, <2>2, OpenLine DEF Taken
  <2>4. IsPrefix(y.done, y.got) /\ Len(y.got) = Taken(y)
    BY <1>3, <2>1, <2>3, OpenLine
  <2>5. \A i \in 1..Len(y.todo) : y.todo[i].kind # "record"
    BY <1>2, <1>3
  <2> QED
    BY <2>2, <2>4, <2>5 DEF RecordsInLine
<1> QED
  BY <1>3, <1>4, <1>5 DEF Sound, y, todo

\* A sendlog puts its records in line, behind those of earlier ones, which are
\* handled by then.
LEMMA LoggingSound ==
  ASSUME NEW x, Sound(x), x.at = "open", x.job = NoJob, x.todo = <<>>,
         NEW log \in Seq(Numbers)
  PROVE  Sound([x EXCEPT !.serial = TRUE, !.got = @ \o log,
                         !.todo = [i \in 1..Len(log) |-> Handle(log[i])]])
<1> DEFINE todo == [i \in 1..Len(log) |-> Handle(log[i])]
           got == x.got \o log
           y == [x EXCEPT !.serial = TRUE, !.got = got, !.todo = todo]
<1>1. x \in SessionStates /\ x.device \in Devices /\ x.orphan = NoJob /\ ~x.clean
      /\ (x.thread => x.job # NoJob)
  BY DEF Sound, WellFormed
<1>2. /\ todo \in Seq(Job) /\ Len(todo) = Len(log) /\ Len(log) \in Nat
      /\ \A i \in 1..Len(todo) : todo[i] = Handle(log[i]) /\ todo[i].kind = "record"
  BY Jobs
<1>3. /\ x.got \in Seq(Numbers) /\ Len(x.got) \in Nat
      /\ got \in Seq(Numbers) /\ Len(got) = Len(x.got) + Len(log)
      /\ \A i \in 1..Len(x.got) : got[i] = x.got[i]
      /\ \A i \in 1..Len(log) : got[Len(x.got) + i] = log[i]
  BY OpenLine
<1> HIDE DEF todo, got
<1>4. /\ y \in SessionStates
      /\ y.at = "open" /\ y.device = x.device /\ y.serial = TRUE
      /\ y.todo = todo /\ y.job = NoJob /\ y.thread = x.thread /\ y.orphan = NoJob
      /\ y.clean = x.clean /\ y.got = got /\ y.done = x.done
  BY <1>1, <1>2, <1>3 DEF SessionStates
<1> HIDE DEF y
<1>5. WellFormed(y)
  BY <1>1, <1>2, <1>4, Jobs DEF WellFormed
<1>6. Taken(y) = Len(x.got) /\ x.done = x.got
  <2>1. Taken(x) = Len(x.done) /\ Len(x.got) = Taken(x)
    BY OpenLine, Jobs DEF Sound, RecordsInLine
  <2>2. Taken(y) = Len(y.done)
    BY <1>4, OpenLine, Jobs DEF Taken
  <2> QED
    BY <1>4, <2>1, <2>2, OpenLine, WholePrefix
<1>7. IsPrefix(x.done, got)
  <2>1. Len(x.got) =< Len(got) /\ \A i \in 1..Len(x.got) : x.got[i] = got[i]
    BY <1>2, <1>3
  <2>2. IsPrefix(x.got, got)
    BY <1>3, <2>1, PrefixIs
  <2> QED
    BY <1>6, <2>2
<1>8. RecordsInLine(y)
  <2>1. y.job.kind # "record" /\ y.orphan.kind # "record" /\ ~y.clean
    BY <1>1, <1>4, Jobs
  <2>2. IsPrefix(y.done, y.got) /\ Len(y.got) = Taken(y) + Len(y.todo)
    BY <1>2, <1>3, <1>4, <1>6, <1>7
  <2>3. \A i \in 1..Len(y.todo) : y.todo[i] = Handle(y.got[Taken(y) + i])
    BY <1>2, <1>3, <1>4, <1>6
  <2> QED
    BY <2>1, <2>2, <2>3 DEF RecordsInLine
<1> QED
  BY <1>4, <1>5, <1>8 DEF Sound, y, got, todo

\* The first callback in line is submitted.
LEMMA SubmittedSound ==
  ASSUME NEW x, Sound(x), x.at = "open", x.job = NoJob, x.todo # <<>>
  PROVE  Sound([x EXCEPT !.job = Head(x.todo), !.todo = Tail(x.todo)])
<1> DEFINE y == [x EXCEPT !.job = Head(x.todo), !.todo = Tail(x.todo)]
<1>1. x \in SessionStates /\ x.device \in Devices /\ x.orphan = NoJob /\ ~x.clean
      /\ (x.registered => x.serial) /\ ~x.thread
      /\ \A i \in 1..Len(x.todo) : x.todo[i].kind # "offline"
  BY DEF Sound, WellFormed
<1>2. /\ x.todo \in Seq(Job) /\ Len(x.todo) \in Nat /\ 1 \in 1..Len(x.todo)
      /\ Head(x.todo) = x.todo[1] /\ x.todo[1] \in Job
      /\ Tail(x.todo) \in Seq(Job) /\ Len(Tail(x.todo)) = Len(x.todo) - 1
      /\ \A i \in 1..Len(Tail(x.todo)) :
           i + 1 \in 1..Len(x.todo) /\ Tail(x.todo)[i] = x.todo[i + 1]
  BY OpenLine
<1>3. /\ y \in SessionStates
      /\ y.at = "open" /\ y.device = x.device
      /\ y.registered = x.registered /\ y.serial = x.serial
      /\ y.todo = Tail(x.todo) /\ y.job = x.todo[1] /\ y.thread = x.thread
      /\ y.orphan = NoJob /\ y.clean = x.clean /\ y.got = x.got /\ y.done = x.done
  BY <1>1, <1>2 DEF SessionStates
<1> HIDE DEF y
<1>4. WellFormed(y)
  <2>1. x.serial
    BY DEF Sound, WellFormed
  <2>2. y.job.kind # "offline" /\ \A i \in 1..Len(y.todo) : y.todo[i].kind # "offline"
    BY <1>1, <1>2, <1>3
  <2> QED
    BY <1>1, <1>3, <2>1, <2>2 DEF WellFormed
<1>5. /\ Taken(x) = Len(x.done) /\ Len(x.done) \in Nat /\ Len(x.got) \in Nat
      /\ x.got \in Seq(Numbers) /\ IsPrefix(x.done, x.got)
  BY OpenLine, Jobs
<1>6. IsPrefix(y.done, y.got) /\ y.orphan.kind # "record" /\ ~y.clean
  BY <1>1, <1>3, <1>5, Jobs
<1>7. Len(x.todo) \in Nat \ {0} /\ Len(y.todo) = Len(x.todo) - 1
  BY <1>2, <1>3
<1>8. Len(y.got) = Len(x.got) /\ Len(y.done) = Len(x.done)
  BY <1>3
<1>9. RecordsInLine(y)
  <2>1. CASE /\ Len(x.got) = Taken(x) + Len(x.todo)
             /\ \A i \in 1..Len(x.todo) : x.todo[i] = Handle(x.got[Taken(x) + i])
    <3>1. x.todo[1] = Handle(x.got[Len(x.done) + 1])
      BY <1>2, <1>5, <2>1
    <3>2. x.got[Len(x.done) + 1] \in Numbers
      <4>1. Len(x.got) = Len(x.done) + Len(x.todo)
        BY <1>5, <2>1
      <4>2. Len(x.done) \in Nat /\ Len(x.todo) \in Nat \ {0}
        BY <1>5, <1>7
      <4>3. Len(x.done) + 1 \in 1..Len(x.got)
        BY <4>1, <4>2, LineMoves, Zenon
      <4> QED
        BY <1>5, <4>3
    <3>3. y.job.kind = "record" /\ y.job.n = x.got[Len(x.done) + 1]
      BY <1>3, <3>1, <3>2, Jobs
    <3>4. Taken(y) = Len(x.done) + 1
      BY <1>3, <3>3 DEF Taken
    <3>5. Len(y.got) = Taken(y) + Len(y.todo)
      <4>1. Len(x.got) = Len(x.done) + Len(x.todo)
        BY <1>5, <2>1
      <4>2. Len(x.done) \in Nat /\ Len(x.todo) \in Nat \ {0}
        BY <1>5, <1>7
      <4>3. Len(x.got) = (Len(x.done) + 1) + (Len(x.todo) - 1)
        BY <4>1, <4>2, LineMoves, Zenon
      <4> QED
        BY <1>7, <1>8, <3>4, <4>3
    <3>6. \A i \in 1..Len(y.todo) : y.todo[i] = Handle(y.got[Taken(y) + i])
      <4> SUFFICES ASSUME NEW i \in 1..Len(y.todo)
                   PROVE  y.todo[i] = Handle(y.got[Taken(y) + i])
        OBVIOUS
      <4>1. y.todo[i] = x.todo[i + 1] /\ i + 1 \in 1..Len(x.todo)
        BY <1>2, <1>3
      <4>2. x.todo[i + 1] = Handle(x.got[Taken(x) + (i + 1)])
        BY <2>1, <4>1
      <4>3. Taken(x) + (i + 1) = Taken(y) + i
        <5>1. Len(y.todo) \in Nat /\ i \in Nat /\ Len(x.done) \in Nat
          BY <1>5, <1>7
        <5>2. Len(x.done) + (i + 1) = (Len(x.done) + 1) + i
          BY <5>1
        <5> QED
          BY <1>5, <3>4, <5>2
      <4> QED
        BY <1>3, <4>1, <4>2, <4>3
    <3> QED
      BY <1>3, <1>6, <3>3, <3>4, <3>5, <3>6 DEF RecordsInLine
  <2>2. CASE /\ Len(x.got) = Taken(x)
             /\ \A i \in 1..Len(x.todo) : x.todo[i].kind # "record"
    <3>1. y.job.kind # "record"
      BY <1>2, <1>3, <2>2
    <3>2. Taken(y) = Len(y.done)
      BY <1>3, <1>5, <3>1 DEF Taken
    <3>3. Len(y.got) = Taken(y)
      BY <1>3, <1>5, <2>2, <3>2
    <3>4. \A i \in 1..Len(y.todo) : y.todo[i].kind # "record"
      BY <1>2, <1>3, <2>2
    <3> QED
      BY <1>6, <3>1, <3>3, <3>4 DEF RecordsInLine
  <2> QED
    BY <2>1, <2>2 DEF Sound, RecordsInLine
<1> QED
  BY <1>3, <1>4, <1>9 DEF Sound, y

\* A thread takes the callback.
LEMMA RunningSound ==
  ASSUME NEW x, Sound(x), x.job # NoJob
  PROVE  Sound([x EXCEPT !.thread = TRUE])
<1> DEFINE y == [x EXCEPT !.thread = TRUE]
<1>1. x \in SessionStates /\ x.at # "free"
  BY DEF Sound, WellFormed, Unused
<1>2. /\ y \in SessionStates
      /\ y.at = x.at /\ y.device = x.device
      /\ y.registered = x.registered /\ y.serial = x.serial
      /\ y.todo = x.todo /\ y.job = x.job /\ y.orphan = x.orphan
      /\ y.clean = x.clean /\ y.got = x.got /\ y.done = x.done
  BY <1>1 DEF SessionStates
<1> HIDE DEF y
<1>3. WellFormed(y)
  BY <1>1, <1>2 DEF Sound, WellFormed
<1>4. RecordsInLine(y)
  BY <1>2 DEF Sound, RecordsInLine, Taken
<1> QED
  BY <1>2, <1>3, <1>4 DEF Sound, y

\* The terminal has hung up; what it sent is where it was.
LEMMA HungSound ==
  ASSUME NEW x, Sound(x), x.at = "open"
  PROVE  Sound([x EXCEPT !.hung = TRUE])
<1> DEFINE y == [x EXCEPT !.hung = TRUE]
<1>1. x \in SessionStates
  BY DEF Sound
<1>2. /\ y \in SessionStates
      /\ y.at = x.at /\ y.device = x.device
      /\ y.registered = x.registered /\ y.serial = x.serial
      /\ y.todo = x.todo /\ y.job = x.job /\ y.orphan = x.orphan /\ y.thread = x.thread
      /\ y.clean = x.clean /\ y.got = x.got /\ y.done = x.done
  BY <1>1 DEF SessionStates
<1> HIDE DEF y
<1>3. WellFormed(y)
  BY <1>2 DEF Sound, WellFormed
<1>4. RecordsInLine(y)
  BY <1>2 DEF Sound, RecordsInLine, Taken
<1> QED
  BY <1>2, <1>3, <1>4 DEF Sound, y

\* A callback returns: its record has been handled, in its turn.
LEMMA ReturnedSound ==
  ASSUME NEW x, Sound(x), x.thread
  PROVE  Sound([x EXCEPT !.job = NoJob, !.thread = FALSE,
                         !.registered = @ \/ x.job.kind = "online",
                         !.done = Recorded(@, x.job)])
<1> DEFINE done == Recorded(x.done, x.job)
           registered == x.registered \/ x.job.kind = "online"
           y == [x EXCEPT !.job = NoJob, !.thread = FALSE, !.registered = registered,
                          !.done = done]
<1>1. /\ x \in SessionStates
      /\ x.at \in {"open", "closing"}
  BY DEF Sound, WellFormed, Unused, SessionStates
<1>2. registered \in BOOLEAN
  BY <1>1 DEF SessionStates
<1>3. CASE x.at = "open"
  <2>1. done \in Seq(Numbers) /\ IsPrefix(done, x.got) /\ Len(done) = Taken(x)
    <3>1. CASE x.job.kind = "record"
      BY <1>3, <3>1, OpenLine, NextOfPrefix DEF Recorded
    <3>2. CASE x.job.kind # "record"
      BY <1>3, <3>2, OpenLine DEF Recorded
    <3> QED
      BY <3>1, <3>2
  <2>2. (x.registered => x.serial) /\ (x.job.kind = "online" => x.serial)
    BY <1>3, Jobs DEF Sound, WellFormed
  <2> HIDE DEF done, registered
  <2>3. /\ y \in SessionStates
        /\ y.at = "open" /\ y.device = x.device /\ y.serial = x.serial
        /\ y.registered = registered
        /\ y.todo = x.todo /\ y.job = NoJob /\ y.thread = FALSE /\ y.orphan = x.orphan
        /\ y.clean = x.clean /\ y.got = x.got /\ y.done = done
    BY <1>1, <1>2, <1>3, <2>1, Jobs DEF SessionStates
  <2> HIDE DEF y
  <2>4. registered => x.serial
    BY <2>2 DEF registered
  <2>5. WellFormed(y)
    BY <1>3, <2>3, <2>4, Jobs DEF Sound, WellFormed
  <2>6. y.orphan.kind # "record" /\ ~y.clean
    BY <1>3, <2>3, Jobs DEF Sound, WellFormed
  <2>7. Taken(y) = Taken(x)
    <3>1. y.job.kind # "record" /\ Len(y.done) = Taken(x)
      BY <2>1, <2>3, Jobs
    <3>2. Taken(x) \in Nat
      BY <1>3, OpenLine
    <3> QED
      BY <3>1, <3>2 DEF Taken
  <2>8. y.job.kind # "record" /\ IsPrefix(y.done, y.got)
    BY <2>1, <2>3, Jobs
  <2>9. \/ /\ Len(y.got) = Taken(y) + Len(y.todo)
           /\ \A i \in 1..Len(y.todo) : y.todo[i] = Handle(y.got[Taken(y) + i])
        \/ /\ Len(y.got) = Taken(y)
           /\ \A i \in 1..Len(y.todo) : y.todo[i].kind # "record"
    BY <1>3, <2>3, <2>7 DEF Sound, RecordsInLine
  <2>10. RecordsInLine(y)
    BY <2>6, <2>8, <2>9 DEF RecordsInLine
  <2> QED
    BY <2>3, <2>5, <2>10 DEF Sound, y, done, registered
<1>4. CASE x.at = "closing"
  <2>1. x.job.kind \notin {"record", "online"}
    BY <1>4, Jobs DEF Sound, WellFormed
  <2>2. done = x.done /\ registered = x.registered
    BY <1>1, <2>1 DEF Recorded, SessionStates
  <2> HIDE DEF done, registered
  <2>3. /\ y \in SessionStates
        /\ y.at = "closing" /\ y.device = x.device /\ y.serial = x.serial
        /\ y.registered = x.registered
        /\ y.todo = x.todo /\ y.job = NoJob /\ y.thread = FALSE /\ y.orphan = x.orphan
        /\ y.clean = x.clean /\ y.got = x.got /\ y.done = x.done
    BY <1>1, <1>4, <2>2, Jobs DEF SessionStates
  <2> HIDE DEF y
  <2>4. WellFormed(y)
    BY <1>4, <2>3 DEF Sound, WellFormed
  <2>5. RecordsInLine(y)
    BY <1>4, <2>3 DEF Sound, RecordsInLine
  <2> QED
    BY <2>3, <2>4, <2>5 DEF Sound, y, done, registered
<1> QED
  BY <1>1, <1>3, <1>4

\* A callback that was left to itself returns.
LEMMA OrphanReturnedSound ==
  ASSUME NEW x, Sound(x), x.orphan # NoJob
  PROVE  Sound([x EXCEPT !.orphan = NoJob, !.done = Recorded(@, x.orphan)])
<1> DEFINE done == Recorded(x.done, x.orphan)
           y == [x EXCEPT !.orphan = NoJob, !.done = done]
<1>1. /\ x \in SessionStates
      /\ x.at = "closing" /\ ~x.clean
  BY DEF Sound, WellFormed, Unused, SessionStates
<1>2. /\ x.done \in Seq(Numbers) /\ x.got \in Seq(Numbers)
      /\ IsPrefix(x.done, x.got)
      /\ x.orphan.kind = "record" =>
           Len(x.done) < Len(x.got) /\ x.orphan.n = x.got[Len(x.done) + 1]
  BY <1>1 DEF Sound, RecordsInLine, SessionStates
<1>3. done \in Seq(Numbers) /\ IsPrefix(done, x.got)
  <2>1. CASE x.orphan.kind = "record"
    BY <1>2, <2>1, NextOfPrefix DEF Recorded
  <2>2. CASE x.orphan.kind # "record"
    BY <1>2, <2>2 DEF Recorded
  <2> QED
    BY <2>1, <2>2
<1> HIDE DEF done
<1>4. /\ y \in SessionStates
      /\ y.at = x.at /\ y.device = x.device
      /\ y.registered = x.registered /\ y.serial = x.serial /\ y.thread = x.thread
      /\ y.todo = x.todo /\ y.job = x.job /\ y.orphan = NoJob
      /\ y.clean = x.clean /\ y.got = x.got /\ y.done = done
  BY <1>1, <1>3, Jobs DEF SessionStates
<1> HIDE DEF y
<1>5. WellFormed(y)
  BY <1>1, <1>4 DEF Sound, WellFormed
<1>6. RecordsInLine(y)
  BY <1>1, <1>3, <1>4, Jobs DEF RecordsInLine
<1> QED
  BY <1>4, <1>5, <1>6 DEF Sound, y, done

(***************************************************************************)
(* What each step makes of the published status                            *)
(***************************************************************************)

\* The sessions after a step of one of them.
LEMMA SessionsStep ==
  ASSUME RelayInv, NEW s \in Sessions, NEW y, Sound(y),
         session' = [session EXCEPT ![s] = y]
  PROVE  /\ session' \in [Sessions -> SessionStates]
         /\ session'[s] = y
         /\ \A t \in Sessions \ {s} : session'[t] = session[t]
         /\ \A t \in Sessions : WellFormed(session'[t]) /\ RecordsInLine(session'[t])
<1>1. /\ session \in [Sessions -> SessionStates] /\ y \in SessionStates
      /\ \A t \in Sessions : WellFormed(session[t]) /\ RecordsInLine(session[t])
  BY DEF RelayInv, Sound
<1>2. /\ session' \in [Sessions -> SessionStates]
      /\ session'[s] = y
      /\ \A t \in Sessions \ {s} : session'[t] = session[t]
  BY <1>1
<1> QED
  BY <1>1, <1>2 DEF Sound

\* A sound session of each name.
LEMMA EachSound ==
  ASSUME RelayInv, NEW s \in Sessions
  PROVE  Sound(session[s])
BY DEF RelayInv, Sound

\* A step of one session that keeps its device says nothing of other devices;
\* of this one it must say the truth, unless its sessions have met.
LEMMA StatusStep ==
  ASSUME RelayInv, NEW s \in Sessions, NEW y, Sound(y),
         session' = [session EXCEPT ![s] = y],
         y.device = session[s].device, y.device \in Devices,
         raced \ {y.device} \subseteq raced',
         y.device \in raced => y.device \in raced' \/ Of(y.device) = {s},
         \A e \in Devices \ {y.device} : last'[e] = last[e],
         y.device \in Known \ raced' =>
           /\ y.at = "open" => (last'[y.device] = "online" <=> y.registered)
           /\ y.at = "closing" =>
                /\ y.orphan.kind # "online"
                /\ last'[y.device] = "online" => y.job.kind = "offline"
  PROVE  OneSession' /\ StatusFollows'
<1>1. /\ session'[s] = y
      /\ \A t \in Sessions \ {s} : session'[t] = session[t]
  BY SessionsStep
<1>2. \A e \in Devices : Of(e)' = Of(e)
  BY <1>1 DEF Of
<1>3. s \in Of(y.device)
  BY DEF Of
<1>4. OneSession'
  <2> SUFFICES ASSUME NEW e \in Devices, e \notin raced',
                      NEW t \in Of(e), NEW u \in Of(e)
               PROVE  t = u
    BY <1>2 DEF OneSession
  <2>1. CASE e \in raced
    <3>1. e = y.device
      BY <2>1
    <3> QED
      BY <2>1, <3>1
  <2>2. CASE e \notin raced
    BY <2>2 DEF RelayInv, OneSession
  <2> QED
    BY <2>1, <2>2
<1>5. StatusFollows'
  <2> SUFFICES ASSUME NEW e \in Known, e \notin raced'
               PROVE  /\ Of(e)' = {} => last'[e] # "online"
                      /\ \A t \in Of(e)' :
                           /\ session'[t].at = "open" =>
                                (last'[e] = "online" <=> session'[t].registered)
                           /\ session'[t].at = "closing" =>
                                /\ session'[t].orphan.kind # "online"
                                /\ last'[e] = "online" => session'[t].job.kind = "offline"
    BY DEF StatusFollows
  <2>1. e \in Devices
    BY RelayAssumption
  <2>2. CASE e = y.device
    <3>1. Of(e)' = {s}
      BY <1>2, <1>3, <1>4, <2>1, <2>2 DEF OneSession
    <3> QED
      BY <1>1, <2>2, <3>1
  <2>3. CASE e # y.device
    <3>1. e \notin raced /\ last'[e] = last[e] /\ Of(e)' = Of(e)
      BY <1>2, <2>1, <2>3
    <3>2. \A t \in Of(e) : t \in Sessions \ {s}
      BY <2>3 DEF Of
    <3> QED
      BY <1>1, <3>1, <3>2 DEF RelayInv, StatusFollows
  <2> QED
    BY <2>2, <2>3
<1> QED
  BY <1>4, <1>5

\* What the invariant says of an open session and of one that ends, and of
\* their device, when its sessions have not met.
LEMMA StatusKnown ==
  ASSUME RelayInv, NEW s \in Sessions,
         session[s].device \in Known \ raced
  PROVE  /\ session[s].at = "open" =>
              (last[session[s].device] = "online" <=> session[s].registered)
         /\ session[s].at = "closing" =>
              /\ session[s].orphan.kind # "online"
              /\ last[session[s].device] = "online" => session[s].job.kind = "offline"
         /\ Of(session[s].device) = {s}
<1>1. s \in Of(session[s].device) /\ session[s].device \in Devices
  BY RelayAssumption DEF Of
<1>2. Of(session[s].device) = {s}
  BY <1>1 DEF RelayInv, OneSession
<1> QED
  BY <1>1, <1>2 DEF RelayInv, StatusFollows

\* A step that leaves what was published as it is, and its session where it is.
LEMMA QuietStep ==
  ASSUME RelayInv, NEW s \in Sessions, NEW y, Sound(y),
         session' = [session EXCEPT ![s] = y],
         session[s].at # "free",
         y.at = session[s].at, y.device = session[s].device,
         y.registered = session[s].registered,
         session[s].at = "closing" =>
           y.job = session[s].job /\ y.orphan = session[s].orphan,
         last' = last, raced' = raced, frames' \in 0..MaxFrames
  PROVE  RelayInv'
<1>1. y.device \in Devices
  BY EachSound DEF Sound, WellFormed, SessionStates
<1>2. y.device \in Known \ raced =>
        /\ y.at = "open" => (last[y.device] = "online" <=> y.registered)
        /\ y.at = "closing" =>
             /\ y.orphan.kind # "online"
             /\ last[y.device] = "online" => y.job.kind = "offline"
  BY StatusKnown
<1>3. OneSession' /\ StatusFollows'
  BY <1>1, <1>2, StatusStep
<1>4. /\ session' \in [Sessions -> SessionStates]
      /\ \A t \in Sessions : WellFormed(session'[t]) /\ RecordsInLine(session'[t])
  BY SessionsStep
<1> QED
  BY <1>3, <1>4 DEF RelayInv

\* The end of a session announces its terminal offline if it was online; a
\* callback that brings it online and is left alone makes the device raced.
LEMMA ClosingStep ==
  ASSUME RelayInv, NEW s \in Sessions, NEW y, Sound(y),
         session' = [session EXCEPT ![s] = y],
         session[s].at = "open", y.at = "closing",
         y.device = session[s].device,
         y.job = IF session[s].serial THEN Do("offline") ELSE NoJob,
         y.orphan.kind = "online" => y.device \in raced',
         raced \subseteq raced', raced' \subseteq Devices,
         last' = last, frames' = frames
  PROVE  RelayInv'
<1>1. y.device \in Devices /\ (session[s].registered => session[s].serial)
  BY EachSound DEF Sound, WellFormed
<1>2. ASSUME y.device \in Known \ raced', last[y.device] = "online"
      PROVE  y.job.kind = "offline"
  <2>1. session[s].registered
    BY <1>2, StatusKnown
  <2> QED
    BY <1>1, <2>1, Jobs
<1>3. OneSession' /\ StatusFollows'
  BY <1>1, <1>2, StatusStep
<1>4. /\ session' \in [Sessions -> SessionStates]
      /\ \A t \in Sessions : WellFormed(session'[t]) /\ RecordsInLine(session'[t])
  BY SessionsStep
<1> QED
  BY <1>3, <1>4 DEF RelayInv

(***************************************************************************)
(* Every step keeps the invariant                                          *)
(***************************************************************************)

\* A new session: the device is raced from here on if it has another.
LEMMA ConnectKeeps ==
  ASSUME RelayInv, NEW s \in Sessions, NEW d \in Devices, Connect(s, d)
  PROVE  RelayInv'
<1> DEFINE y == [Unused EXCEPT !.at = "open", !.device = d]
<1>1. /\ y.at = "open" /\ y.device = d /\ y.registered = FALSE
      /\ Unused.device = NoDevice /\ NoDevice \notin Devices
  BY RelayAssumption DEF Unused
<1>2. session' = [session EXCEPT ![s] = y] /\ session[s] = Unused
  BY DEF Connect
<1>3. Sound(y)
  BY ConnectedSound
<1> HIDE DEF y
<1>4. /\ session'[s] = y
      /\ \A t \in Sessions \ {s} : session'[t] = session[t]
      /\ session' \in [Sessions -> SessionStates]
      /\ \A t \in Sessions : WellFormed(session'[t]) /\ RecordsInLine(session'[t])
  BY <1>2, <1>3, SessionsStep
<1>5. \A e \in Devices \ {d} : Of(e)' = Of(e)
  BY <1>1, <1>2, <1>4 DEF Of
<1>6. Of(d)' = Of(d) \cup {s}
  BY <1>1, <1>2, <1>4 DEF Of
<1>7. \A e \in Devices \ raced' : e \notin raced /\ (e = d => Of(d) = {})
  BY DEF Connect
<1>8. OneSession'
  <2> SUFFICES ASSUME NEW e \in Devices, e \notin raced',
                      NEW t \in Of(e)', NEW u \in Of(e)'
               PROVE  t = u
    BY DEF OneSession
  <2>1. CASE e = d
    BY <1>6, <1>7, <2>1
  <2>2. CASE e # d
    BY <1>5, <1>7, <2>2 DEF RelayInv, OneSession
  <2> QED
    BY <2>1, <2>2
<1>9. StatusFollows'
  <2> SUFFICES ASSUME NEW e \in Known, e \notin raced'
               PROVE  /\ Of(e)' = {} => last'[e] # "online"
                      /\ \A t \in Of(e)' :
                           /\ session'[t].at = "open" =>
                                (last'[e] = "online" <=> session'[t].registered)
                           /\ session'[t].at = "closing" =>
                                /\ session'[t].orphan.kind # "online"
                                /\ last'[e] = "online" => session'[t].job.kind = "offline"
    BY DEF StatusFollows
  <2>1. e \in Devices /\ e \notin raced /\ last' = last
    BY <1>7, RelayAssumption DEF Connect
  <2>2. CASE e = d
    <3>1. Of(d) = {} /\ Of(e)' = {s}
      BY <1>6, <1>7, <2>1, <2>2
    <3>2. last[e] # "online"
      BY <2>1, <2>2, <3>1 DEF RelayInv, StatusFollows
    <3> QED
      BY <1>1, <1>4, <2>1, <3>1, <3>2
  <2>3. CASE e # d
    <3>1. Of(e)' = Of(e) /\ s \notin Of(e) /\ \A t \in Of(e) : t \in Sessions
      BY <1>1, <1>2, <1>5, <2>1, <2>3 DEF Of
    <3> QED
      BY <1>4, <2>1, <3>1 DEF RelayInv, StatusFollows
  <2> QED
    BY <2>2, <2>3
<1>10. raced' \subseteq Devices /\ last' = last /\ frames' = frames
  BY DEF Connect, RelayInv
<1> QED
  BY <1>4, <1>8, <1>9, <1>10 DEF RelayInv

\* The name of a session that is over.
LEMMA ForgetKeeps ==
  ASSUME RelayInv, NEW s \in Sessions, Forget(s)
  PROVE  RelayInv'
<1>1. /\ session' = [session EXCEPT ![s] = Unused] /\ session[s].at = "closing"
      /\ session[s].job = NoJob
      /\ Unused.device = NoDevice /\ NoDevice \notin Devices
      /\ last' = last /\ frames' = frames /\ raced' = raced
  BY RelayAssumption DEF Forget, Unused
<1>2. /\ session'[s] = Unused
      /\ \A t \in Sessions \ {s} : session'[t] = session[t]
      /\ session' \in [Sessions -> SessionStates]
      /\ \A t \in Sessions : WellFormed(session'[t]) /\ RecordsInLine(session'[t])
  BY <1>1, UnusedSound, SessionsStep
<1>3. \A e \in Devices : Of(e)' = Of(e) \ {s}
  BY <1>1, <1>2 DEF Of
<1>4. OneSession'
  BY <1>1, <1>3 DEF RelayInv, OneSession
<1>5. StatusFollows'
  <2> SUFFICES ASSUME NEW e \in Known, e \notin raced
               PROVE  /\ Of(e)' = {} => last[e] # "online"
                      /\ \A t \in Of(e)' :
                           /\ session'[t].at = "open" =>
                                (last[e] = "online" <=> session'[t].registered)
                           /\ session'[t].at = "closing" =>
                                /\ session'[t].orphan.kind # "online"
                                /\ last[e] = "online" => session'[t].job.kind = "offline"
    BY <1>1 DEF StatusFollows
  <2>1. e \in Devices
    BY RelayAssumption
  <2>2. CASE session[s].device = e
    <3>1. Of(e) = {s} /\ last[e] # "online"
      BY <1>1, <2>2, StatusKnown, Jobs
    <3> QED
      BY <1>3, <2>1, <3>1
  <2>3. CASE session[s].device # e
    <3>1. Of(e)' = Of(e) /\ s \notin Of(e) /\ \A t \in Of(e) : t \in Sessions
      BY <1>3, <2>1, <2>3 DEF Of
    <3> QED
      BY <1>2, <3>1 DEF RelayInv, StatusFollows
  <2> QED
    BY <2>2, <2>3
<1> QED
  BY <1>1, <1>2, <1>4, <1>5 DEF RelayInv

\* What is published is one of the three words, for the device of the callback.
LEMMA PublishedIs ==
  ASSUME last \in [Devices -> {"none", "online", "offline"}],
         NEW d \in Devices, NEW job \in Job
  PROVE  /\ Published(d, job) \in [Devices -> {"none", "online", "offline"}]
         /\ \A e \in Devices \ {d} : Published(d, job)[e] = last[e]
         /\ d \in Known => Published(d, job)[d] =
              IF job.kind \in {"online", "offline"} THEN job.kind ELSE last[d]
BY DEF Published

\* A callback returns to the coroutine that waits for it.
LEMMA JobReturnsKeeps ==
  ASSUME RelayInv, NEW s \in Sessions, JobReturns(s)
  PROVE  RelayInv'
<1> DEFINE x == session[s]
           y == [x EXCEPT !.job = NoJob, !.thread = FALSE,
                          !.registered = @ \/ x.job.kind = "online",
                          !.done = Recorded(@, x.job)]
<1>1. Sound(x) /\ x.thread /\ x \in SessionStates
  BY EachSound DEF JobReturns, Sound
<1>2. /\ x.at \in {"open", "closing"} /\ x.device \in Devices /\ x.job \in Job
      /\ x.at = "closing" => x.job = Do("offline")
      /\ x.at = "open" => x.job.kind # "offline"
  BY <1>1 DEF Sound, WellFormed, SessionStates, Unused
<1>3. Sound(y)
  BY <1>1, ReturnedSound
<1>4. session' = [session EXCEPT ![s] = y] /\ frames' = frames
  BY DEF JobReturns
<1>5. /\ y.at = x.at /\ y.device = x.device /\ y.orphan = x.orphan
      /\ y.registered = (x.registered \/ x.job.kind = "online")
  BY <1>1 DEF SessionStates
<1>6. last' = Published(x.device, x.job)
  BY DEF JobReturns
<1>7. raced' = IF x.job.kind = "online" /\ Of(x.device) = {s}
                 THEN raced \ {x.device} ELSE raced
  BY DEF JobReturns
<1> HIDE DEF y
<1>8. /\ last' \in [Devices -> {"none", "online", "offline"}]
      /\ \A e \in Devices \ {x.device} : last'[e] = last[e]
      /\ x.device \in Known => last'[x.device] =
           IF x.job.kind \in {"online", "offline"} THEN x.job.kind ELSE last[x.device]
  BY <1>2, <1>6, PublishedIs DEF RelayInv
<1>9. ASSUME x.device \in Known \ raced'
      PROVE  /\ y.at = "open" => (last'[y.device] = "online" <=> y.registered)
             /\ y.at = "closing" =>
                  /\ y.orphan.kind # "online"
                  /\ last'[y.device] = "online" => y.job.kind = "offline"
  <2>1. CASE x.job.kind = "online"
    <3>1. last'[x.device] = "online" /\ x.at = "open"
      BY <1>2, <1>8, <1>9, <2>1, Jobs
    <3> QED
      BY <1>5, <2>1, <3>1
  <2>2. CASE x.job.kind # "online"
    <3>1. x.device \in Known \ raced
      BY <1>7, <1>9, <2>2
    <3>2. CASE x.at = "open"
      <4>1. last'[x.device] = last[x.device]
        BY <1>2, <1>8, <1>9, <2>2, <3>2
      <4>2. last[x.device] = "online" <=> x.registered
        BY <3>1, <3>2, StatusKnown
      <4>3. y.registered <=> x.registered
        BY <1>5, <2>2
      <4> QED
        BY <1>5, <3>2, <4>1, <4>2, <4>3
    <3>3. CASE x.at = "closing"
      <4>1. last'[x.device] = "offline"
        BY <1>2, <1>8, <1>9, <3>3, Jobs
      <4>2. x.orphan.kind # "online"
        BY <3>1, <3>3, StatusKnown
      <4> QED
        BY <1>5, <3>3, <4>1, <4>2
    <3> QED
      BY <1>2, <3>2, <3>3
  <2> QED
    BY <2>1, <2>2
<1>10. OneSession' /\ StatusFollows'
  <2>1. /\ raced \ {y.device} \subseteq raced'
        /\ y.device \in raced => y.device \in raced' \/ Of(y.device) = {s}
    BY <1>5, <1>7
  <2> QED
    BY <1>2, <1>3, <1>4, <1>5, <1>8, <1>9, <2>1, StatusStep
<1>11. /\ session' \in [Sessions -> SessionStates]
       /\ \A t \in Sessions : WellFormed(session'[t]) /\ RecordsInLine(session'[t])
  BY <1>3, <1>4, SessionsStep
<1>12. raced' \subseteq Devices
  BY <1>7 DEF RelayInv
<1> QED
  BY <1>4, <1>8, <1>10, <1>11, <1>12 DEF RelayInv

\* A callback that was left alone returns: it says online of raced devices only.
LEMMA OrphanReturnsKeeps ==
  ASSUME RelayInv, NEW s \in Sessions, OrphanReturns(s)
  PROVE  RelayInv'
<1> DEFINE x == session[s]
           y == [x EXCEPT !.orphan = NoJob, !.done = Recorded(@, x.orphan)]
<1>1. Sound(x) /\ x.orphan # NoJob /\ x \in SessionStates
  BY EachSound DEF OrphanReturns, Sound
<1>2. x.at = "closing" /\ x.device \in Devices /\ x.orphan \in Job
  BY <1>1 DEF Sound, WellFormed, SessionStates, Unused
<1>3. Sound(y)
  BY <1>1, OrphanReturnedSound
<1>4. session' = [session EXCEPT ![s] = y]
  BY DEF OrphanReturns
<1>5. y.at = x.at /\ y.device = x.device /\ y.job = x.job /\ y.orphan = NoJob
  BY <1>1 DEF SessionStates
<1>6. last' = Published(x.device, x.orphan) /\ frames' = frames /\ raced' = raced
  BY DEF OrphanReturns
<1> HIDE DEF y
<1>7. /\ last' \in [Devices -> {"none", "online", "offline"}]
      /\ \A e \in Devices \ {x.device} : last'[e] = last[e]
      /\ x.device \in Known => last'[x.device] =
           IF x.orphan.kind \in {"online", "offline"} THEN x.orphan.kind ELSE last[x.device]
  BY <1>2, <1>6, PublishedIs DEF RelayInv
<1>8. ASSUME x.device \in Known \ raced
      PROVE  last'[x.device] = "online" => x.job.kind = "offline"
  <2>1. x.orphan.kind # "online" /\ (last[x.device] = "online" => x.job.kind = "offline")
    BY <1>2, <1>8, StatusKnown
  <2> QED
    BY <1>7, <1>8, <2>1
<1>9. OneSession' /\ StatusFollows'
  BY <1>2, <1>3, <1>4, <1>5, <1>6, <1>7, <1>8, StatusStep, Jobs
<1>10. /\ session' \in [Sessions -> SessionStates]
       /\ \A t \in Sessions : WellFormed(session'[t]) /\ RecordsInLine(session'[t])
  BY <1>3, <1>4, SessionsStep
<1> QED
  BY <1>6, <1>7, <1>9, <1>10 DEF RelayInv

\* An idle session that ends, for one reason or another.
LEMMA IdleEnds ==
  ASSUME RelayInv, NEW s \in Sessions, Idle(s), NEW clean \in BOOLEAN,
         session' = [session EXCEPT ![s] = Closed(session[s], clean)],
         UNCHANGED <<last, frames, raced>>
  PROVE  RelayInv'
<1> DEFINE x == session[s]
           y == Closed(x, clean)
<1>1. Sound(x) /\ x \in SessionStates /\ x.at = "open" /\ x.job = NoJob /\ x.todo = <<>>
      /\ x.orphan = NoJob
  BY EachSound DEF Idle, Sound, WellFormed
<1>2. Sound(y)
  BY <1>1, ClosedIdleSound
<1>3. /\ y.at = "closing" /\ y.device = x.device /\ y.orphan = NoJob
      /\ y.job = IF x.serial THEN Do("offline") ELSE NoJob
  <2>1. CASE clean = TRUE
    BY <1>1, <2>1, ClosedIs
  <2>2. CASE clean = FALSE
    BY <1>1, <2>2, ClosedIs
  <2> QED
    BY <2>1, <2>2
<1> HIDE DEF y
<1>4. session' = [session EXCEPT ![s] = y] /\ raced' \subseteq Devices
  BY DEF y, RelayInv
<1>5. y.orphan.kind # "online"
  BY <1>3, Jobs
<1> QED
  BY <1>1, <1>2, <1>3, <1>4, <1>5, ClosingStep

\* A session that is cut short, by the server closing or by its answer to a
\* terminal that has hung up.
LEMMA CutKeeps ==
  ASSUME RelayInv, NEW s \in Sessions, session[s].at = "open", Cut(s)
  PROVE  RelayInv'
<1> DEFINE x == session[s]
           c == Closed(x, FALSE)
           orphan == IF x.thread THEN x.job ELSE NoJob
           y == [c EXCEPT !.orphan = orphan]
<1>1. Sound(x) /\ x \in SessionStates /\ x.at = "open" /\ x.device \in Devices
  BY EachSound DEF Sound, WellFormed
<1>2. Sound(y)
  BY <1>1, CutOffSound
<1>3. /\ c \in SessionStates /\ c.at = "closing" /\ c.device = x.device
      /\ c.job = IF x.serial THEN Do("offline") ELSE NoJob
  BY <1>1, ClosedIs
<1>4. session' = [session EXCEPT ![s] = y]
  BY DEF Cut
<1>5. raced' = IF x.thread /\ x.job.kind = "online" THEN raced \cup {x.device} ELSE raced
  BY DEF Cut
<1> HIDE DEF c
<1> HIDE DEF orphan
<1>6. /\ y.at = "closing" /\ y.device = x.device /\ y.orphan = orphan
      /\ y.job = IF x.serial THEN Do("offline") ELSE NoJob
  BY <1>3 DEF SessionStates
<1> HIDE DEF y
<1>7. y.orphan.kind = "online" => y.device \in raced'
  BY <1>5, <1>6, Jobs DEF orphan
<1>8. raced \subseteq raced' /\ raced' \subseteq Devices /\ last' = last /\ frames' = frames
  BY <1>1, <1>5 DEF Cut, RelayInv
<1> QED
  BY <1>1, <1>2, <1>4, <1>6, <1>7, <1>8, ClosingStep

LEMMA RecordRaisesKeeps ==
  ASSUME RelayInv, NEW s \in Sessions, RecordRaises(s)
  PROVE  RelayInv'
<1> DEFINE x == session[s]
           w == [x EXCEPT !.done = Append(@, x.job.n)]
           y == Closed(w, FALSE)
<1>1. /\ Sound(x) /\ x \in SessionStates /\ x.at = "open" /\ x.job.kind = "record"
      /\ x.orphan = NoJob
  BY EachSound DEF RecordRaises, Sound, WellFormed
<1>2. Sound(y)
  BY <1>1, RaisedSound
<1>3. Append(x.done, x.job.n) \in Seq(Numbers)
  BY <1>1, OpenLine, NextOfPrefix
<1>4. /\ w \in SessionStates /\ w.device = x.device /\ w.serial = x.serial
      /\ w.orphan = NoJob
  BY <1>1, <1>3 DEF SessionStates
<1> HIDE DEF w
<1>5. /\ y.at = "closing" /\ y.device = x.device /\ y.orphan = NoJob
      /\ y.job = IF x.serial THEN Do("offline") ELSE NoJob
  BY <1>4, ClosedIs
<1>6. session' = [session EXCEPT ![s] = y]
  BY DEF RecordRaises, w
<1> HIDE DEF y
<1>7. y.orphan.kind # "online"
  BY <1>5, Jobs
<1>8. raced' = raced /\ raced' \subseteq Devices /\ last' = last /\ frames' = frames
  BY DEF RecordRaises, RelayInv
<1> QED
  BY <1>1, <1>2, <1>5, <1>6, <1>7, <1>8, ClosingStep

\* A terminal hangs up: for now only it knows.
LEMMA DeviceClosesKeeps ==
  ASSUME RelayInv, NEW s \in Sessions, DeviceCloses(s)
  PROVE  RelayInv'
<1> DEFINE x == session[s]
           y == [x EXCEPT !.hung = TRUE]
<1>1. Sound(x) /\ x \in SessionStates /\ x.at = "open"
  BY EachSound DEF DeviceCloses, Sound
<1>2. Sound(y)
  BY <1>1, HungSound
<1>3. y.at = x.at /\ y.device = x.device /\ y.registered = x.registered
  BY <1>1 DEF SessionStates
<1>4. session' = [session EXCEPT ![s] = y]
  BY <1>1 DEF DeviceCloses, RelayInv
<1> HIDE DEF y
<1>5. last' = last /\ raced' = raced /\ frames' \in 0..MaxFrames
  BY DEF DeviceCloses, RelayInv
<1> QED
  BY <1>1, <1>2, <1>3, <1>4, <1>5, QuietStep

\* A registration and a sendlog put callbacks in line and publish nothing.
LEMMA RegisterKeeps ==
  ASSUME RelayInv, NEW s \in Sessions, Register(s)
  PROVE  RelayInv'
<1> DEFINE x == session[s]
           todo == <<Do("reg"), Do("online")>>
           y == [x EXCEPT !.serial = TRUE, !.todo = todo]
<1>1. Sound(x) /\ x \in SessionStates /\ x.at = "open" /\ x.job = NoJob /\ x.todo = <<>>
  BY EachSound DEF Register, Idle, Sound
<1>2. Sound(y)
  BY <1>1, RegisteringSound
<1> HIDE DEF todo
<1>3. y.at = x.at /\ y.device = x.device /\ y.registered = x.registered
  BY <1>1 DEF SessionStates
<1>4. session' = [session EXCEPT ![s] = y]
  BY <1>1 DEF Register, RelayInv, todo
<1> HIDE DEF y
<1>5. last' = last /\ raced' = raced /\ frames' \in 0..MaxFrames
  BY Bounds DEF Register, RelayInv
<1> QED
  BY <1>1, <1>2, <1>3, <1>4, <1>5, QuietStep

LEMMA SendLogKeeps ==
  ASSUME RelayInv, NEW s \in Sessions, NEW k \in 1..FrameLog, SendLog(s, k)
  PROVE  RelayInv'
<1> DEFINE x == session[s]
           log == NextLog(k)
           todo == [i \in 1..k |-> Handle(log[i])]
           y == [x EXCEPT !.serial = TRUE, !.got = @ \o log, !.todo = todo]
<1>1. Sound(x) /\ x \in SessionStates /\ x.at = "open" /\ x.job = NoJob /\ x.todo = <<>>
  BY EachSound DEF SendLog, Idle, Sound
<1>2. log \in Seq(Numbers) /\ Len(log) = k
  <2>1. k \in Nat /\ frames \in 0..MaxFrames /\ frames < MaxFrames
    BY Bounds DEF SendLog, RelayInv
  <2>2. \A i \in 1..k : frames * FrameLog + i \in Numbers
    BY <2>1, LogNumbers
  <2> QED
    BY <2>1, <2>2 DEF NextLog
<1>3. session' = [session EXCEPT ![s] = y]
  BY <1>1 DEF SendLog, RelayInv
<1> HIDE DEF log
<1>4. Sound(y)
  BY <1>1, <1>2, LoggingSound
<1> HIDE DEF todo
<1>5. y.at = x.at /\ y.device = x.device /\ y.registered = x.registered
  BY <1>1 DEF SessionStates
<1> HIDE DEF y
<1>6. last' = last /\ raced' = raced /\ frames' \in 0..MaxFrames
  BY Bounds DEF SendLog, RelayInv
<1> QED
  BY <1>1, <1>3, <1>4, <1>5, <1>6, QuietStep

\* Nothing is published when a callback is submitted and when a thread takes it.
LEMMA SubmitKeeps ==
  ASSUME RelayInv, NEW s \in Sessions, Submit(s)
  PROVE  RelayInv'
<1> DEFINE x == session[s]
           y == [x EXCEPT !.job = Head(x.todo), !.todo = Tail(x.todo)]
<1>1. Sound(x) /\ x \in SessionStates /\ x.at = "open" /\ x.job = NoJob /\ x.todo # <<>>
  BY EachSound DEF Submit, Sound
<1>2. Sound(y)
  BY <1>1, SubmittedSound
<1>3. y.at = x.at /\ y.device = x.device /\ y.registered = x.registered
  BY <1>1 DEF SessionStates
<1>4. session' = [session EXCEPT ![s] = y]
  BY <1>1 DEF Submit, RelayInv
<1> HIDE DEF y
<1>5. last' = last /\ raced' = raced /\ frames' \in 0..MaxFrames
  BY DEF Submit, RelayInv
<1> QED
  BY <1>1, <1>2, <1>3, <1>4, <1>5, QuietStep

LEMMA RunJobKeeps ==
  ASSUME RelayInv, NEW s \in Sessions, RunJob(s)
  PROVE  RelayInv'
<1> DEFINE x == session[s]
           y == [x EXCEPT !.thread = TRUE]
<1>1. Sound(x) /\ x \in SessionStates /\ x.at # "free" /\ x.job # NoJob
  BY EachSound DEF RunJob, Sound, WellFormed, Unused
<1>2. Sound(y)
  BY <1>1, RunningSound
<1>3. /\ y.at = x.at /\ y.device = x.device /\ y.registered = x.registered
      /\ y.job = x.job /\ y.orphan = x.orphan
  BY <1>1 DEF SessionStates
<1>4. session' = [session EXCEPT ![s] = y]
  BY <1>1 DEF RunJob, RelayInv
<1> HIDE DEF y
<1>5. last' = last /\ raced' = raced /\ frames' \in 0..MaxFrames
  BY DEF RunJob, RelayInv
<1> QED
  BY <1>1, <1>2, <1>3, <1>4, <1>5, QuietStep

LEMMA RelayInit == Init => RelayInv
<1> SUFFICES ASSUME Init PROVE RelayInv
  OBVIOUS
<1>1. \A s \in Sessions : session[s] = Unused
  BY DEF Init
<1>2. Sound(Unused) /\ Unused.device = NoDevice /\ NoDevice \notin Devices
  BY UnusedSound, RelayAssumption DEF Unused
<1>3. session \in [Sessions -> SessionStates]
  BY <1>2 DEF Init, Sound
<1>4. \A s \in Sessions : WellFormed(session[s]) /\ RecordsInLine(session[s])
  BY <1>1, <1>2 DEF Sound
<1>5. \A d \in Devices : Of(d) = {}
  BY <1>1, <1>2 DEF Of
<1>6. OneSession
  BY <1>5 DEF OneSession
<1>7. StatusFollows
  <2>1. \A d \in Known : d \in Devices /\ last[d] = "none"
    BY RelayAssumption DEF Init
  <2> QED
    BY <1>5, <2>1 DEF StatusFollows
<1>8. /\ last \in [Devices -> {"none", "online", "offline"}]
      /\ frames \in 0..MaxFrames /\ raced \subseteq Devices
  BY Bounds DEF Init
<1> QED
  BY <1>3, <1>4, <1>6, <1>7, <1>8 DEF RelayInv

LEMMA RelayNext == RelayInv /\ [Next]_vars => RelayInv'
<1> SUFFICES ASSUME RelayInv, [Next]_vars PROVE RelayInv'
  OBVIOUS
<1>1. CASE Next
  <2> PICK s \in Sessions :
        \/ \E d \in Devices : Connect(s, d)
        \/ \E k \in 1..FrameLog : SendLog(s, k)
        \/ Register(s) \/ ForwardFails(s)
        \/ DeviceCloses(s) \/ ServerCloses(s) \/ ServerSpeaks(s)
        \/ RecordRaises(s)
        \/ BridgeNext(s)
    BY <1>1 DEF Next
  <2>1. CASE \E d \in Devices : Connect(s, d)
    BY <2>1, ConnectKeeps
  <2>2. CASE \E k \in 1..FrameLog : SendLog(s, k)
    BY <2>2, SendLogKeeps
  <2>3. CASE Register(s)
    BY <2>3, RegisterKeeps
  <2>4. CASE ForwardFails(s)
    BY <2>4, IdleEnds DEF ForwardFails, RelayInv
  <2>5. CASE DeviceCloses(s)
    BY <2>5, DeviceClosesKeeps
  <2>6. CASE ServerCloses(s) \/ ServerSpeaks(s)
    BY <2>6, CutKeeps DEF ServerCloses, ServerSpeaks
  <2>7. CASE RecordRaises(s)
    BY <2>7, RecordRaisesKeeps
  <2>8. CASE BridgeNext(s)
    <3>1. CASE FramesEnd(s)
      BY <3>1, IdleEnds DEF FramesEnd, RelayInv
    <3> QED
      BY <2>8, <3>1, SubmitKeeps, RunJobKeeps, JobReturnsKeeps, OrphanReturnsKeeps,
         ForgetKeeps DEF BridgeNext
  <2> QED
    BY <2>1, <2>2, <2>3, <2>4, <2>5, <2>6, <2>7, <2>8
<1>2. CASE UNCHANGED vars
  BY <1>2 DEF vars, RelayInv, OneSession, StatusFollows, Of
<1> QED
  BY <1>1, <1>2

(***************************************************************************)
(* Theorems                                                                *)
(***************************************************************************)

\* The inductive invariant: sessions are sound by themselves, a device whose
\* sessions have not met has one at most, and what was published last of it
\* follows that session.
THEOREM RelayInvariant == Spec => []RelayInv
BY RelayInit, RelayNext, PTL DEF Spec

\* Type correctness.
THEOREM RelayTypeCorrect == Spec => []TypeOK
<1>1. RelayInv => TypeOK
  <2> SUFFICES ASSUME RelayInv PROVE TypeOK
    OBVIOUS
  <2>1. \A s \in Sessions :
          /\ session[s] \in SessionStates
          /\ WellFormed(session[s])
    BY DEF RelayInv
  <2>2. \A s \in Sessions : session[s].at # "free" => session[s].device \in Devices
    BY <2>1 DEF WellFormed, SessionStates
  <2> QED
    BY <2>1, <2>2 DEF TypeOK, RelayInv, SessionStates, WellFormed
<1> QED
  BY <1>1, RelayInvariant, PTL

\* A session handles the records of its terminal in the order in which they were
\* passed on, each once and none that was not, however it ends and whatever
\* callback runs on after it (evo_relay.py:63-99).
THEOREM RecordsInOrder == Spec => []InOrder
<1>1. RelayInv => InOrder
  BY DEF RelayInv, RecordsInLine, InOrder
<1> QED
  BY <1>1, RelayInvariant, PTL

\* When nothing of a terminal of the configuration is under way, the last event
\* published for it says whether it is registered, unless its sessions have met
\* or its online callback was overtaken by the end of its session.
THEOREM StatusTruthfulOfOneSession == Spec => []StatusTruthfulUnlessRaced
<1>1. RelayInv => StatusTruthfulUnlessRaced
  <2> SUFFICES ASSUME RelayInv, NEW d \in Known, d \notin raced, Quiet(d)
               PROVE  last[d] = "online" <=> Live(d)
    BY DEF StatusTruthfulUnlessRaced, Truthful
  <2>1. d \in Devices
    BY RelayAssumption
  <2>2. CASE Of(d) = {}
    BY <2>2 DEF RelayInv, StatusFollows, Live
  <2>3. CASE Of(d) # {}
    <3> PICK s \in Of(d) : TRUE
      BY <2>3
    <3>1. Of(d) = {s} /\ session[s].at = "open"
      BY <2>1 DEF RelayInv, OneSession, Quiet
    <3>2. last[d] = "online" <=> session[s].registered
      BY <3>1 DEF RelayInv, StatusFollows
    <3>3. Live(d) <=> session[s].registered
      BY <3>1 DEF Live
    <3> QED
      BY <3>2, <3>3
  <2> QED
    BY <2>2, <2>3
<1> QED
  BY <1>1, RelayInvariant, PTL

=============================================================================
