------------------------ MODULE MqttStateDriverProofs ------------------------
(***************************************************************************)
(* Proofs about MqttStateDriver: the inductive invariant MqttInv and what  *)
(* it implies, for any fields and values, any payloads, and any number of  *)
(* publications.                                                           *)
(***************************************************************************)
EXTENDS MqttStateDriver, TLAPS

\* The bound is a number.
LEMMA MqttBounds ==
  ASSUME MqttAssumption
  PROVE  MaxPublications \in Nat
BY DEF MqttAssumption

(***************************************************************************)
(* Payloads, and the merge of one into another                             *)
(***************************************************************************)

\* A payload is a function from some of the fields to values.
LEMMA PayloadIs ==
  ASSUME NEW p \in Payloads
  PROVE  DOMAIN p \subseteq Fields /\ p \in [DOMAIN p -> Values]
BY DEF Payloads

LEMMA IsPayload ==
  ASSUME NEW S \in SUBSET Fields, NEW p \in [S -> Values]
  PROVE  p \in Payloads
BY DEF Payloads

\* The merge of functions into a set of values is one.
LEMMA UpdatedType ==
  ASSUME NEW V, NEW p, NEW q, p \in [DOMAIN p -> V], q \in [DOMAIN q -> V]
  PROVE  Updated(p, q) \in [DOMAIN p \cup DOMAIN q -> V]
BY DEF Updated

\* The transitions of publication n.
LEMMA ChangesAre ==
  ASSUME NEW n
  PROVE  /\ \A t \in Changes(n) :
              /\ t.field \in DOMAIN published[n] \cap DOMAIN cache
              /\ cache[t.field] # published[n][t.field]
              /\ t = [field |-> t.field, old |-> cache[t.field],
                      new |-> published[n][t.field], from |-> since[t.field], by |-> n]
         /\ \A f \in DOMAIN published[n] \cap DOMAIN cache :
              cache[f] # published[n][f] => \E t \in Changes(n) : t.field = f
<1> DEFINE common == {g \in DOMAIN published[n] \cap DOMAIN cache : cache[g] # published[n][g]}
           tr(f) == [field |-> f, old |-> cache[f], new |-> published[n][f],
                     from |-> since[f], by |-> n]
<1>1. Changes(n) = {tr(f) : f \in common}
  BY DEF Changes
<1>2. \A f : tr(f).field = f
  OBVIOUS
<1> HIDE DEF tr
<1>3. \A t \in Changes(n) : t.field \in common /\ t = tr(t.field)
  BY <1>1, <1>2
<1>4. \A f \in common : \E t \in Changes(n) : t.field = f
  BY <1>1, <1>2
<1> QED
  BY <1>3, <1>4 DEF tr

\* The thread goes to "fire" if there is something to announce, and only then.
LEMMA AfterIs ==
  ASSUME NEW T, NEW handled \in BOOLEAN
  PROVE  /\ After(T, handled) \in {"fire", "raw", "idle"}
         /\ After(T, handled) = "fire" <=> T # {}
BY DEF After

\* What a message finds and leaves in the cache: the new entry is of publication
\* n where n has the field, and the transitions lead from the old entry to it.
LEMMA TakeEffect ==
  ASSUME MqttAssumption, MqttInv, NEW n \in 1..Len(published), phase = "idle", Take(n),
         UNCHANGED <<config, published, told>>,
         config.clean => \A f \in DOMAIN cache : since[f] =< n
  PROVE  /\ cache' \in Payloads
         /\ since' \in [DOMAIN cache' -> Publications]
         /\ baseline' \in [DOMAIN cache' -> Values]
         /\ DOMAIN told' \subseteq DOMAIN cache' /\ told' \in [DOMAIN told' -> Values]
         /\ todo' \subseteq Transitions
         /\ phase' \in {"fire", "raw", "idle"}
         /\ Chained' /\ NoStaleNews' /\ OnePerField' /\ Remembered'
         /\ \A f \in DOMAIN cache' :
              since'[f] = n \/ (f \in DOMAIN cache /\ since'[f] = since[f])
<1> DEFINE p == published[n]
           s == [f \in DOMAIN published[n] |-> n]
<1> USE DEF MqttInv
<1>1. /\ cache' = Updated(cache, p)
      /\ since' = Updated(since, s)
      /\ baseline' = Updated(p, baseline)
      /\ todo' = Changes(n)
      /\ phase' = After(Changes(n), DOMAIN p # {})
  BY DEF Take
<1>2. /\ p \in Payloads /\ cache \in Payloads
      /\ since \in [DOMAIN cache -> Publications]
      /\ baseline \in [DOMAIN cache -> Values]
      /\ DOMAIN told \subseteq DOMAIN cache /\ told \in [DOMAIN told -> Values]
      /\ n \in Publications /\ n \in Nat
      /\ Len(published) \in Nat
  <2>1. published \in Seq(Payloads) /\ Len(published) \in Nat
    BY DEF TypeOK
  <2>2. p \in Payloads
    BY <2>1
  <2>3. n \in Publications
    BY <2>1, MqttBounds DEF TypeOK, Publications
  <2> QED
    BY <2>1, <2>2, <2>3 DEF TypeOK
<1>3. /\ DOMAIN p \subseteq Fields /\ p \in [DOMAIN p -> Values]
      /\ DOMAIN cache \subseteq Fields /\ cache \in [DOMAIN cache -> Values]
      /\ DOMAIN since = DOMAIN cache /\ DOMAIN baseline = DOMAIN cache
      /\ DOMAIN s = DOMAIN p /\ s \in [DOMAIN s -> Publications]
  BY <1>2, PayloadIs
<1>4. \A f \in DOMAIN p : s[f] = n
  OBVIOUS
<1>5. todo = {}
  BY DEF OnePerField
<1>6. \A f \in DOMAIN cache : Reached(f) = cache[f]
  BY <1>5 DEF Chained
<1> HIDE DEF p, s
<1>7. DOMAIN s = DOMAIN p /\ DOMAIN cache = DOMAIN baseline /\ DOMAIN since = DOMAIN cache
  BY <1>3
<1>8. /\ DOMAIN cache' = DOMAIN cache \cup DOMAIN p
      /\ \A f \in DOMAIN p : cache'[f] = p[f]
      /\ \A f \in DOMAIN cache \ DOMAIN p : cache'[f] = cache[f]
  BY <1>1 DEF Updated
<1>9. /\ \A f \in DOMAIN p : since'[f] = n
      /\ \A f \in DOMAIN cache \ DOMAIN p : since'[f] = since[f]
  BY <1>1, <1>4, <1>7 DEF Updated
<1>10. /\ told' = told
       /\ \A f \in DOMAIN cache : baseline'[f] = baseline[f]
       /\ \A f \in DOMAIN p \ DOMAIN cache : baseline'[f] = p[f] /\ f \notin DOMAIN told
  BY <1>1, <1>2, <1>7 DEF Updated
<1>11. /\ DOMAIN cache' = DOMAIN cache \cup DOMAIN p
       /\ \A f \in DOMAIN p : cache'[f] = p[f] /\ since'[f] = n
       /\ \A f \in DOMAIN cache \ DOMAIN p :
            cache'[f] = cache[f] /\ since'[f] = since[f]
       /\ \A f \in DOMAIN cache : Reached(f)' = cache[f]
       /\ \A f \in DOMAIN p \ DOMAIN cache : Reached(f)' = p[f]
  BY <1>6, <1>8, <1>9, <1>10 DEF Reached
<1>12. cache' \in Payloads
  BY <1>1, <1>3, UpdatedType, IsPayload
<1>13. since' \in [DOMAIN cache' -> Publications]
  <2>1. since \in [DOMAIN since -> Publications] /\ s \in [DOMAIN s -> Publications]
    BY <1>2, <1>3
  <2>2. since' \in [DOMAIN since \cup DOMAIN s -> Publications]
    BY <1>1, <2>1, UpdatedType
  <2> QED
    BY <1>7, <1>8, <2>2
<1>14. /\ baseline' \in [DOMAIN cache' -> Values]
       /\ DOMAIN told' \subseteq DOMAIN cache' /\ told' \in [DOMAIN told' -> Values]
  <2>1. baseline \in [DOMAIN baseline -> Values] /\ p \in [DOMAIN p -> Values]
    BY <1>2, <1>3
  <2>2. baseline' \in [DOMAIN p \cup DOMAIN baseline -> Values]
    BY <1>1, <2>1, UpdatedType
  <2> QED
    BY <1>2, <1>7, <1>8, <1>10, <2>2
<1>15. ASSUME NEW t \in todo'
       PROVE  /\ t.field \in DOMAIN p \cap DOMAIN cache
              /\ cache[t.field] # p[t.field]
              /\ t = [field |-> t.field, old |-> cache[t.field],
                      new |-> p[t.field], from |-> since[t.field], by |-> n]
  BY <1>1, <1>15, ChangesAre DEF p
<1>16. \A f \in DOMAIN p \cap DOMAIN cache :
         cache[f] # p[f] => \E t \in todo' : t.field = f
  BY <1>1, ChangesAre DEF p
<1>17. todo' \subseteq Transitions
  <2> SUFFICES ASSUME NEW t \in todo'
               PROVE  t \in Transitions
    OBVIOUS
  <2>1. /\ t.field \in Fields /\ cache[t.field] \in Values /\ p[t.field] \in Values
        /\ since[t.field] \in Publications
    BY <1>2, <1>3, <1>15
  <2> QED
    BY <1>2, <1>15, <2>1 DEF Transitions
<1>18. Chained'
  <2>1. ASSUME NEW t \in todo'
        PROVE  t.old = Reached(t.field)' /\ t.new = cache'[t.field] /\ t.old # t.new
    BY <1>11, <1>15
  <2>2. ASSUME NEW f \in DOMAIN cache'
        PROVE  Reached(f)' = cache'[f] \/ \E t \in todo' : t.field = f
    BY <1>11, <1>16
  <2> QED
    BY <2>1, <2>2 DEF Chained
<1>19. NoStaleNews'
  <2> SUFFICES ASSUME config.clean, NEW t \in todo'
               PROVE  t.from < t.by
    BY DEF NoStaleNews
  <2>1. since[t.field] =< n /\ since[t.field] \in Nat
    BY <1>2, <1>15 DEF Publications
  <2>2. since[t.field] # n
    BY <1>15 DEF Remembered, p
  <2> QED
    BY <1>2, <1>15, <2>1, <2>2
<1>20. OnePerField'
  <2>1. phase' = "fire" <=> todo' # {}
    BY <1>1, AfterIs
  <2>2. \A t \in todo' : t.field \in DOMAIN cache'
    BY <1>11, <1>15
  <2>3. \A t, u \in todo' : t.field = u.field => t = u
    BY <1>15
  <2> QED
    BY <2>1, <2>2, <2>3 DEF OnePerField
<1>21. Remembered'
  <2> SUFFICES ASSUME NEW f \in DOMAIN cache'
               PROVE  /\ since'[f] =< Len(published)
                      /\ f \in DOMAIN published[since'[f]]
                      /\ cache'[f] = published[since'[f]][f]
    BY DEF Remembered
  <2>1. CASE f \in DOMAIN p
    BY <1>2, <1>11, <2>1 DEF p
  <2>2. CASE f \notin DOMAIN p
    BY <1>11, <2>2 DEF Remembered
  <2> QED
    BY <2>1, <2>2
<1>22. phase' \in {"fire", "raw", "idle"}
  BY <1>1, AfterIs
<1>23. \A f \in DOMAIN cache' :
         since'[f] = n \/ (f \in DOMAIN cache /\ since'[f] = since[f])
  BY <1>11
<1> QED
  BY <1>12, <1>13, <1>14, <1>17, <1>18, <1>19, <1>20, <1>21, <1>22, <1>23

(***************************************************************************)
(* Device, broker and network                                              *)
(***************************************************************************)

\* Nothing published, nothing known: the invariant holds at the start.
LEMMA InitInv ==
  ASSUME MqttAssumption, Init
  PROVE  MqttInv
<1>1. /\ published = <<>> /\ Len(published) = 0
      /\ published \in Seq(Payloads)
      /\ outbox = <<>> /\ outbox \in Seq(1..Len(published))
      /\ wire = <<>> /\ wire \in Seq(1..Len(published)) /\ Len(wire) = 0
  BY DEF Init
<1>2. DOMAIN cache = {} /\ since = cache /\ baseline = cache /\ told = cache /\ todo = {}
  BY DEF Init, NoEntry
<1>3. /\ cache \in [{} -> Values] /\ since \in [{} -> Publications]
      /\ baseline \in [{} -> Values] /\ told \in [{} -> Values]
  BY DEF Init, NoEntry
<1>4. cache \in Payloads
  BY <1>3, IsPayload
<1>5. TypeOK
  <2>1. 0 =< MaxPublications
    BY MqttBounds
  <2>2. retained \in 0..Len(published)
    BY <1>1 DEF Init
  <2>3. config \in [retain : BOOLEAN, clean : BOOLEAN, raw : BOOLEAN] /\ link \in BOOLEAN
    BY DEF Init
  <2> QED
    BY <1>1, <1>2, <1>3, <1>4, <2>1, <2>2, <2>3 DEF Init, TypeOK
<1>6. Chained /\ NoStaleNews /\ OnePerField /\ Remembered
  BY <1>2 DEF Init, Chained, NoStaleNews, OnePerField, Remembered
<1>7. Delivery /\ NothingOlder
  BY <1>1, <1>2 DEF Init, Delivery, NothingOlder
<1> QED
  BY <1>5, <1>6, <1>7 DEF MqttInv

\* A sequence of publications is still one when there is one more.
LEMMA MorePublications ==
  ASSUME NEW n \in Nat, NEW w \in Seq(1..n)
  PROVE  /\ w \in Seq(1..(n + 1))
         /\ Append(w, n + 1) \in Seq(1..(n + 1))
         /\ Len(Append(w, n + 1)) = Len(w) + 1
         /\ \A i \in 1..Len(w) : Append(w, n + 1)[i] = w[i] /\ w[i] \in 1..n
         /\ Append(w, n + 1)[Len(w) + 1] = n + 1
<1>1. 1..n \subseteq 1..(n + 1) /\ n + 1 \in 1..(n + 1)
  OBVIOUS
<1>2. w \in Seq(1..(n + 1))
  BY <1>1
<1> QED
  BY <1>1, <1>2

\* A publication is newer than all others, on the wire and in the cache.
LEMMA PublishInv ==
  ASSUME MqttAssumption, MqttInv, NEW payload \in Payloads, Publish(payload)
  PROVE  MqttInv'
<1> DEFINE n == Len(published)
<1> USE DEF MqttInv
<1>1. /\ n + 1 =< MaxPublications
      /\ published' = Append(published, payload)
      /\ retained' = IF config.retain THEN n + 1 ELSE retained
      /\ wire' = IF link THEN Append(wire, n + 1) ELSE wire
      /\ outbox' = IF config.clean THEN outbox ELSE Append(outbox, n + 1)
      /\ UNCHANGED <<config, link, phase, todo, cache, since,
                     baseline, told>>
  BY DEF Publish, memory
<1>2. /\ n \in Nat
      /\ published' \in Seq(Payloads) /\ Len(published') = n + 1
      /\ \A k \in 1..n : published'[k] = published[k]
  BY <1>1 DEF TypeOK
<1>3. wire \in Seq(1..n) /\ outbox \in Seq(1..n) /\ retained \in 0..n
  BY DEF TypeOK
<1> HIDE DEF n
<1>4. /\ retained' \in 0..(n + 1)
      /\ retained' # 0 => config.retain /\ retained' = n + 1
  <2>1. CASE config.retain
    BY <1>1, <1>2, <2>1
  <2>2. CASE ~config.retain
    BY <1>1, <1>2, <1>3, <2>2 DEF Delivery
  <2> QED
    BY <2>1, <2>2
<1>5. outbox' \in Seq(1..(n + 1)) /\ wire' \in Seq(1..(n + 1))
  BY <1>1, <1>2, <1>3, MorePublications
<1>6. TypeOK'
  BY <1>1, <1>2, <1>4, <1>5 DEF TypeOK
<1>7. Chained' /\ NoStaleNews' /\ OnePerField'
  BY <1>1 DEF Chained, Reached, NoStaleNews, OnePerField
<1>8. Remembered'
  <2> SUFFICES ASSUME NEW f \in DOMAIN cache
               PROVE  /\ since[f] =< n + 1
                      /\ f \in DOMAIN published'[since[f]]
                      /\ cache[f] = published'[since[f]][f]
    BY <1>1, <1>2 DEF Remembered
  <2>1. since[f] \in 1..n
    BY <1>2 DEF TypeOK, Remembered, Publications, n
  <2> QED
    BY <1>2, <2>1 DEF Remembered
<1>9. Delivery'
  BY <1>1, <1>2, <1>4 DEF Delivery
<1>10. NothingOlder'
  <2> SUFFICES ASSUME config.clean
               PROVE  /\ outbox' = <<>>
                      /\ \A i, j \in 1..Len(wire') : i < j => wire'[i] < wire'[j]
                      /\ \A i \in 1..Len(wire'), f \in DOMAIN cache : since[f] =< wire'[i]
    BY <1>1 DEF NothingOlder
  <2>1. /\ outbox = <<>>
        /\ \A i, j \in 1..Len(wire) : i < j => wire[i] < wire[j]
        /\ \A i \in 1..Len(wire), f \in DOMAIN cache : since[f] =< wire[i]
    BY DEF NothingOlder
  <2>2. \A f \in DOMAIN cache : since[f] =< n + 1
    BY <1>2 DEF TypeOK, Remembered, Publications, n
  <2>3. CASE link
    <3>1. wire' = Append(wire, n + 1)
      BY <1>1, <2>3
    <3>2. /\ Len(wire) \in Nat /\ Len(wire') = Len(wire) + 1
          /\ \A i \in 1..Len(wire) : wire'[i] = wire[i] /\ wire[i] \in 1..n
          /\ wire'[Len(wire) + 1] = n + 1
      BY <1>2, <1>3, <3>1, MorePublications
    <3> QED
      BY <1>1, <1>2, <2>1, <2>2, <3>2
  <2>4. CASE ~link
    BY <1>1, <2>1, <2>4
  <2> QED
    BY <2>3, <2>4
<1> QED
  BY <1>6, <1>7, <1>8, <1>9, <1>10

\* An acknowledgement only shortens what is kept for a session.
LEMMA AcknowledgeInv ==
  ASSUME MqttInv, Acknowledge
  PROVE  MqttInv'
<1> USE DEF MqttInv
<1>1. /\ outbox # <<>> /\ outbox' = Tail(outbox)
      /\ UNCHANGED <<config, published, retained, wire, link, phase, todo, cache, since,
                     baseline, told>>
  BY DEF Acknowledge, memory
<1>2. outbox' \in Seq(1..Len(published))
  BY <1>1 DEF TypeOK
<1>3. TypeOK'
  BY <1>1, <1>2 DEF TypeOK
<1>4. Chained' /\ NoStaleNews' /\ OnePerField' /\ Remembered' /\ Delivery'
  BY <1>1 DEF Chained, Reached, NoStaleNews, OnePerField, Remembered, Delivery
<1>5. NothingOlder'
  BY <1>1 DEF NothingOlder
<1> QED
  BY <1>3, <1>4, <1>5

\* What the broker sends for a subscription is, in a clean session, the last
\* publication alone, which is no older than anything in the cache.
LEMMA ConnectInv ==
  ASSUME MqttInv, Connect
  PROVE  MqttInv'
<1> DEFINE kept == IF retained = 0 THEN <<>> ELSE <<retained>>
<1> USE DEF MqttInv
<1>1. /\ link' = TRUE
      /\ wire' = outbox \o kept
      /\ UNCHANGED <<config, published, retained, outbox, phase, todo, cache, since,
                     baseline, told>>
  BY DEF Connect, broker, memory
<1>2. /\ outbox \in Seq(1..Len(published)) /\ retained \in 0..Len(published)
      /\ Len(published) \in Nat
  BY DEF TypeOK
<1>3. /\ kept \in Seq(1..Len(published)) /\ Len(kept) \in {0, 1}
      /\ \A i \in 1..Len(kept) : kept[i] = retained /\ retained = Len(published)
  <2>1. CASE retained = 0
    BY <2>1
  <2>2. CASE retained # 0
    BY <1>2, <2>2 DEF Delivery
  <2> QED
    BY <2>1, <2>2
<1> HIDE DEF kept
<1>4. wire' \in Seq(1..Len(published))
  BY <1>1, <1>2, <1>3
<1>5. TypeOK'
  BY <1>1, <1>4 DEF TypeOK
<1>6. Chained' /\ NoStaleNews' /\ OnePerField' /\ Remembered'
  BY <1>1 DEF Chained, Reached, NoStaleNews, OnePerField, Remembered
<1>7. Delivery'
  BY <1>1 DEF Delivery
<1>8. NothingOlder'
  <2> SUFFICES ASSUME config.clean
               PROVE  /\ outbox = <<>>
                      /\ \A i, j \in 1..Len(wire') : i < j => wire'[i] < wire'[j]
                      /\ \A i \in 1..Len(wire'), f \in DOMAIN cache : since[f] =< wire'[i]
    BY <1>1 DEF NothingOlder
  <2>1. outbox = <<>> /\ wire' = kept
    BY <1>1, <1>3 DEF NothingOlder
  <2>2. \A f \in DOMAIN cache : since[f] =< Len(published)
    BY DEF Remembered
  <2> QED
    BY <1>3, <2>1, <2>2
<1> QED
  BY <1>5, <1>6, <1>7, <1>8

\* A lost connection loses what is on the wire.
LEMMA DisconnectInv ==
  ASSUME MqttInv, Disconnect
  PROVE  MqttInv'
<1> USE DEF MqttInv
<1>1. /\ link' = FALSE /\ wire' = <<>>
      /\ UNCHANGED <<config, published, retained, outbox, phase, todo, cache, since,
                     baseline, told>>
  BY DEF Disconnect, broker, memory
<1>2. wire' \in Seq(1..Len(published)) /\ Len(wire') = 0
  BY <1>1
<1>3. TypeOK'
  BY <1>1, <1>2 DEF TypeOK
<1>4. Chained' /\ NoStaleNews' /\ OnePerField' /\ Remembered' /\ Delivery'
  BY <1>1 DEF Chained, Reached, NoStaleNews, OnePerField, Remembered, Delivery
<1>5. NothingOlder'
  BY <1>1, <1>2 DEF NothingOlder
<1> QED
  BY <1>3, <1>4, <1>5

(***************************************************************************)
(* handle_mqtt_event                                                       *)
(***************************************************************************)

\* The message taken is the oldest on the wire: what is left is newer than what
\* it puts into the cache.
LEMMA ReceiveInv ==
  ASSUME MqttAssumption, MqttInv, Receive
  PROVE  MqttInv'
<1> DEFINE n == Head(wire)
<1> USE DEF MqttInv
<1>1. /\ phase = "idle" /\ wire # <<>>
      /\ wire' = Tail(wire)
      /\ Take(n)
      /\ UNCHANGED <<config, published, retained, outbox, link, told>>
  BY DEF Receive, broker
<1>2. /\ wire \in Seq(1..Len(published)) /\ Len(wire) \in Nat
      /\ n = wire[1] /\ n \in 1..Len(published) /\ 1 \in 1..Len(wire)
      /\ Len(published) \in Nat
  BY <1>1 DEF TypeOK
<1> HIDE DEF n
<1>3. /\ wire' \in Seq(1..Len(published))
      /\ Len(wire') = Len(wire) - 1
      /\ \A i \in 1..Len(wire') : i + 1 \in 1..Len(wire) /\ wire'[i] = wire[i + 1]
  BY <1>1, <1>2
<1>4. config.clean => \A f \in DOMAIN cache : since[f] =< n
  BY <1>2 DEF NothingOlder
<1>5. /\ cache' \in Payloads
      /\ since' \in [DOMAIN cache' -> Publications]
      /\ baseline' \in [DOMAIN cache' -> Values]
      /\ DOMAIN told' \subseteq DOMAIN cache' /\ told' \in [DOMAIN told' -> Values]
      /\ todo' \subseteq Transitions
      /\ phase' \in {"fire", "raw", "idle"}
      /\ Chained' /\ NoStaleNews' /\ OnePerField' /\ Remembered'
      /\ \A f \in DOMAIN cache' :
           since'[f] = n \/ (f \in DOMAIN cache /\ since'[f] = since[f])
  BY <1>1, <1>2, <1>4, TakeEffect
<1>6. TypeOK'
  BY <1>1, <1>3, <1>5 DEF TypeOK
<1>7. Delivery'
  BY <1>1, <1>2, <1>3 DEF Delivery
<1>8. NothingOlder'
  <2> SUFFICES ASSUME config.clean
               PROVE  /\ outbox = <<>>
                      /\ \A i, j \in 1..Len(wire') : i < j => wire'[i] < wire'[j]
                      /\ \A i \in 1..Len(wire'), f \in DOMAIN cache' : since'[f] =< wire'[i]
    BY <1>1 DEF NothingOlder
  <2>1. /\ outbox = <<>>
        /\ \A i, j \in 1..Len(wire) : i < j => wire[i] < wire[j]
        /\ \A i \in 1..Len(wire), f \in DOMAIN cache : since[f] =< wire[i]
    BY DEF NothingOlder
  <2>2. ASSUME NEW i \in 1..Len(wire'), NEW j \in 1..Len(wire'), i < j
        PROVE  wire'[i] < wire'[j]
    <3>1. i + 1 \in 1..Len(wire) /\ j + 1 \in 1..Len(wire) /\ i + 1 < j + 1
      BY <1>2, <1>3, <2>2
    <3> QED
      BY <1>3, <2>1, <3>1
  <2>3. ASSUME NEW i \in 1..Len(wire'), NEW f \in DOMAIN cache'
        PROVE  since'[f] =< wire'[i]
    <3>1. i + 1 \in 1..Len(wire) /\ 1 < i + 1 /\ wire'[i] = wire[i + 1]
      BY <1>2, <1>3
    <3>2. n < wire[i + 1] /\ wire[i + 1] \in Nat /\ n \in Nat
      BY <1>2, <2>1, <3>1
    <3>3. CASE since'[f] = n
      BY <3>1, <3>2, <3>3
    <3>4. CASE f \in DOMAIN cache /\ since'[f] = since[f]
      BY <2>1, <3>1, <3>4
    <3> QED
      BY <1>5, <3>3, <3>4
  <2> QED
    BY <2>1, <2>2, <2>3
<1> QED
  BY <1>5, <1>6, <1>7, <1>8

\* An announced transition takes its field to the cached value; the others are
\* of other fields.
LEMMA FireInv ==
  ASSUME MqttInv, NEW t \in todo, Fire(t)
  PROVE  MqttInv'
<1> USE DEF MqttInv
<1>1. /\ todo' = todo \ {t}
      /\ told' = Updated(told, [f \in {t.field} |-> t.new])
      /\ phase' = After(todo \ {t}, TRUE)
      /\ UNCHANGED <<config, published, retained, outbox, wire, link, cache, since, baseline>>
  BY DEF Fire, broker
<1>2. /\ t.field \in DOMAIN cache /\ t.new = cache[t.field]
      /\ DOMAIN told \subseteq DOMAIN cache /\ told \in [DOMAIN told -> Values]
      /\ cache[t.field] \in Values
  BY PayloadIs DEF OnePerField, Chained, TypeOK
<1>3. /\ DOMAIN told' \subseteq DOMAIN cache /\ told' \in [DOMAIN told' -> Values]
      /\ Reached(t.field)' = cache[t.field]
      /\ \A f \in DOMAIN cache \ {t.field} : Reached(f)' = Reached(f)
  <2>1. /\ DOMAIN told' = DOMAIN told \cup {t.field}
        /\ told'[t.field] = cache[t.field]
        /\ \A f \in DOMAIN told \ {t.field} : told'[f] = told[f]
        /\ told' \in [DOMAIN told' -> Values]
    BY <1>1, <1>2 DEF Updated
  <2> QED
    BY <1>1, <1>2, <2>1 DEF Reached
<1>4. \A u \in todo' : u \in todo /\ u.field # t.field /\ u.field \in DOMAIN cache
  BY <1>1 DEF OnePerField
<1>5. \A u \in todo : u \in todo' \/ u = t
  BY <1>1
<1>6. phase' \in {"fire", "raw", "idle"} /\ (phase' = "fire" <=> todo' # {})
  BY <1>1, AfterIs
<1>7. TypeOK'
  BY <1>1, <1>3, <1>6 DEF TypeOK
<1>8. Chained'
  <2>1. ASSUME NEW u \in todo'
        PROVE  u.old = Reached(u.field)' /\ u.new = cache'[u.field] /\ u.old # u.new
    BY <1>1, <1>3, <1>4 DEF Chained
  <2>2. ASSUME NEW f \in DOMAIN cache'
        PROVE  Reached(f)' = cache'[f] \/ \E u \in todo' : u.field = f
    BY <1>1, <1>3, <1>5 DEF Chained
  <2> QED
    BY <2>1, <2>2 DEF Chained
<1>9. NoStaleNews' /\ OnePerField'
  BY <1>1, <1>4, <1>6 DEF NoStaleNews, OnePerField
<1>10. Remembered' /\ Delivery' /\ NothingOlder'
  BY <1>1 DEF Remembered, Delivery, NothingOlder
<1> QED
  BY <1>7, <1>8, <1>9, <1>10

\* The payload itself changes nothing, nor does a start of the process.
LEMMA FireRawStartInv ==
  ASSUME MqttInv, FireRaw \/ Start
  PROVE  MqttInv'
<1> USE DEF MqttInv
<1>1. /\ phase \in {"raw", "down"} /\ phase' = "idle"
      /\ UNCHANGED <<config, published, retained, outbox, wire, link, todo, cache, since,
                     baseline, told>>
  BY DEF FireRaw, Start, broker, memory
<1>2. TypeOK'
  BY <1>1 DEF TypeOK
<1>3. Chained' /\ NoStaleNews' /\ Remembered' /\ Delivery' /\ NothingOlder'
  BY <1>1 DEF Chained, Reached, NoStaleNews, Remembered, Delivery, NothingOlder
<1>4. OnePerField'
  BY <1>1 DEF OnePerField
<1> QED
  BY <1>2, <1>3, <1>4

\* The end of the process forgets the cache and what was to be announced of it.
LEMMA CrashInv ==
  ASSUME MqttInv, Crash
  PROVE  MqttInv'
<1> USE DEF MqttInv
<1>1. /\ phase' = "down" /\ link' = FALSE /\ wire' = <<>> /\ todo' = {}
      /\ cache' = NoEntry /\ since' = NoEntry /\ baseline' = NoEntry /\ told' = NoEntry
      /\ UNCHANGED <<config, published, retained, outbox>>
  BY DEF Crash, broker
<1>2. wire' \in Seq(1..Len(published)) /\ Len(wire') = 0
  BY <1>1
<1>3. /\ DOMAIN cache' = {}
      /\ cache' \in [{} -> Values] /\ since' \in [{} -> Publications]
      /\ baseline' \in [{} -> Values] /\ told' \in [{} -> Values] /\ DOMAIN told' = {}
  BY <1>1 DEF NoEntry
<1>4. cache' \in Payloads
  BY <1>3, IsPayload
<1>5. TypeOK'
  BY <1>1, <1>2, <1>3, <1>4 DEF TypeOK
<1>6. Chained' /\ NoStaleNews' /\ OnePerField' /\ Remembered'
  BY <1>1, <1>3 DEF Chained, Reached, NoStaleNews, OnePerField, Remembered
<1>7. Delivery' /\ NothingOlder'
  BY <1>1, <1>2 DEF Delivery, NothingOlder
<1> QED
  BY <1>5, <1>6, <1>7

(***************************************************************************)
(* The theorems                                                            *)
(***************************************************************************)

\* Every step keeps the invariant.
LEMMA NextInv ==
  ASSUME MqttAssumption, MqttInv, [Next]_vars
  PROVE  MqttInv'
<1>1. CASE \E payload \in Payloads : Publish(payload)
  BY <1>1, PublishInv
<1>2. CASE Acknowledge \/ Connect \/ Disconnect
  BY <1>2, AcknowledgeInv, ConnectInv, DisconnectInv
<1>3. CASE ThreadNext
  BY <1>3, ReceiveInv, FireInv, FireRawStartInv DEF ThreadNext
<1>4. CASE Crash \/ Start
  BY <1>4, CrashInv, FireRawStartInv
<1>5. CASE UNCHANGED vars
  BY <1>5 DEF vars, broker, memory, MqttInv, TypeOK, Chained, Reached, NoStaleNews, OnePerField,
     Remembered, Delivery, NothingOlder
<1> QED
  BY <1>1, <1>2, <1>3, <1>4, <1>5 DEF Next

\* Every reachable state satisfies the invariant of the driver.
THEOREM MqttInvariant ==
  ASSUME MqttAssumption
  PROVE  Spec => []MqttInv
<1>1. Init => MqttInv
  BY InitInv
<1>2. MqttInv /\ [Next]_vars => MqttInv'
  BY NextInv
<1> QED
  BY <1>1, <1>2, PTL DEF Spec

\* The variables keep their types: an entry of the cache has the tracked fields
\* only, each from a publication (lines 2567-2608).
THEOREM MqttTypeCorrect ==
  ASSUME MqttAssumption
  PROVE  Spec => []TypeOK
<1>1. MqttInv => TypeOK
  BY DEF MqttInv
<1> QED
  BY <1>1, MqttInvariant, PTL

\* The transitions of every field form a chain from its baseline, whatever fields
\* the payloads carry and whenever the connection or the process ends, and in a
\* clean session none leads back to an older publication (app.py, lines
\* 2567-2608).
THEOREM StatesToldAsPublished ==
  ASSUME MqttAssumption
  PROVE  Spec => []StatesTold
<1>1. MqttInv => StatesTold
  BY DEF MqttInv, StatesTold
<1> QED
  BY <1>1, MqttInvariant, PTL

=============================================================================
