-------------------------- MODULE GbServices_proofs --------------------------
(* Proofs about services of the GB28181 server: the collection of a        *)
(* catalog, the subscriptions to its events, the requests in a dialog,     *)
(* what is known of a device from its messages, and the answers to a       *)
(* query of recordings, for any value of their constants.                  *)
EXTENDS CatalogCollector, EventSubscriptions, DialogRequests, QueryStates, RecordQuery,
  FiniteSetTheorems, SequenceTheorems, WellFoundedInduction, TLAPS

----------------------------------------------------------------------------
(* CatalogCollector: a collection is a list of own channels, each once,
   with the total that was stated: so what is saved in time is whole. *)

\* What is sent to the collector.
CatItems == [chan : Channels, total : Nat, event : BOOLEAN]

CatTables ==
  /\ query \in [Queriers -> [pc : {"idle", "run", "register", "wait", "woken", "done"},
                             dev : CatDevices \cup {None}]]
  /\ \A q \in Queriers : query[q].pc # "idle" => query[q].dev \in CatDevices
  /\ observers \subseteq Queriers
  /\ msgs \in Seq(CatItems)
  /\ created \in Seq(CatDevices)
  /\ DOMAIN content \subseteq CatDevices /\ content \in [DOMAIN content -> Collection]
  /\ calling \in Queriers \cup {None}
  /\ calling # None => query[calling].pc # "idle"

\* An item of an answer states how many channels the device has.
ItemsState ==
  \A i \in 1..Len(msgs) :
    msgs[i].event \/ msgs[i].total = Cardinality(ChannelsOf(DeviceOf[msgs[i].chan]))

\* What is collected of a device: channels of its own, each once, and the total.
ListOf(d, coll) ==
  /\ DataSet(coll.data) \subseteq ChannelsOf(d)
  /\ Cardinality(DataSet(coll.data)) = Len(coll.data)
  /\ coll.mixed \/ coll.data = <<>> \/ coll.total = Cardinality(ChannelsOf(d))
ListsOwn == \A d \in DOMAIN content : ListOf(d, content[d])

CatInv == CatTables /\ CatObserversWait /\ ItemsState /\ ListsOwn

\* A collection begins empty, and says nothing of a total.
LEMMA NewList == \A d : ListOf(d, NewCollection) /\ NewCollection \in Collection
<1>1. DataSet(<<>>) = {}
  BY DEF DataSet
<1>2. Cardinality({}) = 0
  BY FS_EmptySet
<1>3. NewCollection \in Collection
  BY DEF NewCollection, Collection
<1>4. NewCollection.data = <<>> /\ Len(<<>>) = 0
  BY DEF NewCollection
<1> QED
  BY <1>1, <1>2, <1>3, <1>4 DEF ListOf

\* A channel that the device owns is added to its list once.
LEMMA AddedList ==
  ASSUME NEW d \in CatDevices, NEW coll \in Collection, ListOf(d, coll),
         NEW item \in CatItems, DeviceOf[item.chan] = d, ~Repeats(coll, item),
         item.event \/ item.total = Cardinality(ChannelsOf(d))
  PROVE  Added(coll, item) \in Collection /\ ListOf(d, Added(coll, item))
<1>1. coll.data \in Seq(Channels) /\ item.chan \in Channels
  BY DEF Collection, CatItems
<1>2. Added(coll, item) \in Collection
  BY <1>1 DEF Added, Collection, CatItems
<1>3. Len(Append(coll.data, item.chan)) = Len(coll.data) + 1
  BY <1>1
<1>4. DataSet(Append(coll.data, item.chan)) = DataSet(coll.data) \cup {item.chan}
  <2> DEFINE s == coll.data
             t == Append(s, item.chan)
  <2>1. /\ DOMAIN s = 1..Len(s) /\ DOMAIN t = 1..(Len(s) + 1) /\ Len(s) \in Nat
        /\ t[Len(s) + 1] = item.chan /\ \A i \in 1..Len(s) : t[i] = s[i]
    BY <1>1
  <2> HIDE DEF s, t
  <2>2. {t[i] : i \in DOMAIN t} = {s[i] : i \in DOMAIN s} \cup {item.chan}
    <3>1. \A x : x \in {t[i] : i \in DOMAIN t} => x \in {s[i] : i \in DOMAIN s} \cup {item.chan}
      BY <2>1
    <3>2. \A i \in DOMAIN s : i \in DOMAIN t /\ t[i] = s[i]
      BY <2>1
    <3>3. Len(s) + 1 \in DOMAIN t
      BY <2>1
    <3> QED
      BY <2>1, <3>1, <3>2, <3>3
  <2> QED
    BY <2>2 DEF DataSet, s, t
<1>5. IsFiniteSet(DataSet(coll.data))
  <2>1. DataSet(coll.data) \in SUBSET Channels
    BY <1>1 DEF DataSet
  <2> QED
    BY <2>1, CatalogAssumption, FS_Subset
<1>6. Cardinality(DataSet(coll.data) \cup {item.chan}) = Cardinality(DataSet(coll.data)) + 1
  BY <1>5, FS_AddElement DEF Repeats
<1>7. item.chan \in ChannelsOf(d)
  BY <1>1 DEF ChannelsOf
<1> QED
  BY <1>2, <1>3, <1>4, <1>6, <1>7 DEF ListOf, Added

\* A table with one entry set.
LEMMA WithIs ==
  ASSUME CatTables, NEW d \in CatDevices, NEW coll \in Collection, content' = With(d, coll)
  PROVE  /\ DOMAIN content' = DOMAIN content \cup {d} /\ content'[d] = coll
         /\ \A e \in DOMAIN content : e # d => content'[e] = content[e]
         /\ DOMAIN content' \subseteq CatDevices /\ content' \in [DOMAIN content' -> Collection]
BY DEF CatTables, With

\* What an answer or a NOTIFY writes is an item.
LEMMA ItemTyped ==
  ASSUME NEW c \in Channels
  PROVE  /\ Item(c, Cardinality(ChannelsOf(DeviceOf[c])), FALSE) \in CatItems
         /\ Item(c, 1, TRUE) \in CatItems
<1>1. ChannelsOf(DeviceOf[c]) \in SUBSET Channels
  BY DEF ChannelsOf
<1>2. Cardinality(ChannelsOf(DeviceOf[c])) \in Nat
  BY <1>1, CatalogAssumption, FS_Subset, FS_CardinalityType
<1> QED
  BY <1>2 DEF Item, CatItems

\* The time that passes changes no list.
LEMMA TimeKeepsList ==
  ASSUME NEW d, NEW coll \in Collection
  PROVE  /\ [coll EXCEPT !.idle = TRUE] \in Collection
         /\ ListOf(d, coll) => ListOf(d, [coll EXCEPT !.idle = TRUE])
BY DEF ListOf, Collection

\* What the collector does with an item, by the ways it can go.
LEMMA ReceiveIs ==
  ASSUME CatInv, Receive
  PROVE  LET item == Head(msgs)
             d == DeviceOf[item.chan]
         IN  \/ content' = content
             \/ /\ d \in DOMAIN content /\ content' = With(d, Added(content[d], item))
                /\ Added(content[d], item) \in Collection /\ ListOf(d, Added(content[d], item))
<1> DEFINE item == Head(msgs)
           d == DeviceOf[item.chan]
<1>1. /\ content' = IF d \notin DOMAIN content \/ Repeats(content[d], item) THEN content
                    ELSE With(d, Added(content[d], item))
      /\ msgs # <<>>
  BY DEF Receive
<1>2. msgs \in Seq(CatItems) /\ msgs # <<>>
  BY <1>1 DEF CatInv, CatTables
<1>7. item \in CatItems /\ item = msgs[1] /\ 1 \in 1..Len(msgs)
  BY <1>2
<1>8. d \in CatDevices
  BY <1>7, CatalogAssumption DEF CatItems
<1>3. item.event \/ item.total = Cardinality(ChannelsOf(d))
  BY <1>7 DEF CatInv, ItemsState
<1> HIDE DEF item
<1>4. d \in DOMAIN content => content[d] \in Collection /\ ListOf(d, content[d])
  BY DEF CatInv, CatTables, ListsOwn
<1>5. ASSUME d \in DOMAIN content, ~Repeats(content[d], item)
      PROVE  Added(content[d], item) \in Collection /\ ListOf(d, Added(content[d], item))
  BY <1>3, <1>4, <1>5, <1>7, <1>8, AddedList
<1>6. \/ content' = content
      \/ d \in DOMAIN content /\ ~Repeats(content[d], item) /\ content' = With(d, Added(content[d], item))
  BY <1>1
<1> QED
  BY <1>5, <1>6 DEF item

\* Nothing is collected, and nobody waits.
LEMMA CatStarts == CatInit => CatInv
<1> SUFFICES ASSUME CatInit PROVE CatInv
  OBVIOUS
<1>1. CatTables
  BY DEF CatInit, CatTables
<1> QED
  BY <1>1 DEF CatInit, CatInv, CatObserversWait, ItemsState, ListsOwn

\* Every step keeps the types of the tables, callers and channels.
LEMMA CatTablesStep == CatInv /\ [CatNext]_catVars => CatTables'
<1> SUFFICES ASSUME CatInv, [CatNext]_catVars PROVE CatTables'
  OBVIOUS
<1> USE CatalogAssumption DEF CatInv, CatTables, Goto, netVars, collVars
<1>1. ASSUME NEW q \in Queriers, SendQuery(q) PROVE CatTables'
  BY <1>1 DEF SendQuery
<1>2. ASSUME NEW q \in Queriers, Run(q) PROVE CatTables'
  <2>1. query[q].dev \in CatDevices
    BY <1>2 DEF Run
  <2>2. created' \in Seq(CatDevices)
    BY <1>2, <2>1 DEF Run
  <2> QED
    BY <1>2, <2>2 DEF Run
<1>3. ASSUME NEW q \in Queriers, Register(q) PROVE CatTables'
  BY <1>3 DEF Register
<1>4. ASSUME NEW q \in Queriers, Woken(q) PROVE CatTables'
  BY <1>4 DEF Woken
<1>5. ASSUME NEW q \in Queriers, WaitTimeout(q) PROVE CatTables'
  BY <1>5 DEF WaitTimeout
<1>6. ASSUME NEW c \in Channels, ItemArrives(c) PROVE CatTables'
  <2>1. msgs' \in Seq(CatItems)
    <3> DEFINE item == Item(c, Cardinality(ChannelsOf(DeviceOf[c])), FALSE)
    <3>1. item \in CatItems
      BY ItemTyped
    <3>2. msgs' = Append(msgs, item)
      BY <1>6 DEF ItemArrives, Write
    <3> HIDE DEF item
    <3> QED
      BY <3>1, <3>2
  <2> QED
    BY <1>6, <2>1 DEF ItemArrives, Write
<1>7. ASSUME NEW c \in Channels, ItemLost(c) PROVE CatTables'
  BY <1>7 DEF ItemLost
<1>8. ASSUME NEW c \in Channels, NoticeArrives(c) PROVE CatTables'
  <2>1. msgs' \in Seq(CatItems)
    <3> DEFINE item == Item(c, 1, TRUE)
    <3>1. item \in CatItems
      BY ItemTyped
    <3>2. msgs' = Append(msgs, item)
      BY <1>8 DEF NoticeArrives, Write
    <3> HIDE DEF item
    <3> QED
      BY <3>1, <3>2
  <2> QED
    BY <1>8, <2>1 DEF NoticeArrives, Write
<1>9. ASSUME NEW d \in CatDevices, Tick(d) PROVE CatTables'
  BY <1>9 DEF Tick, Without
<1>10. ASSUME NEW d \in CatDevices, TimePasses(d) PROVE CatTables'
  <2>1. [content[d] EXCEPT !.idle = TRUE] \in Collection
    BY <1>10, TimeKeepsList DEF TimePasses
  <2>2. DOMAIN content' \subseteq CatDevices /\ content' \in [DOMAIN content' -> Collection]
    BY <1>10, <2>1, WithIs DEF TimePasses
  <2> QED
    BY <1>10, <2>2 DEF TimePasses
<1>11. CASE Create
  <2>1. Head(created) \in CatDevices /\ Tail(created) \in Seq(CatDevices)
    BY <1>11 DEF Create
  <2>2. DOMAIN content' \subseteq CatDevices /\ content' \in [DOMAIN content' -> Collection]
    BY <1>11, <2>1, NewList, WithIs DEF Create
  <2> QED
    BY <1>11, <2>1, <2>2 DEF Create
<1>12. CASE Receive
  <2>1. DOMAIN content' \subseteq CatDevices /\ content' \in [DOMAIN content' -> Collection]
    BY <1>12, ReceiveIs, WithIs
  <2>2. msgs' \in Seq(CatItems)
    BY <1>12 DEF Receive
  <2> QED
    BY <1>12, <2>1, <2>2 DEF Receive
<1>13. CASE CallObserver
  <2>1. calling \in Queriers
    BY <1>13 DEF CallObserver
  <2>2. \/ UNCHANGED <<query, observers>>
        \/ query' = [query EXCEPT ![calling].pc = "woken"] /\ observers' = observers \ {calling}
           /\ query[calling].pc # "done"
    BY <1>13 DEF CallObserver
  <2>3. calling' = None /\ UNCHANGED <<msgs, created, content>>
    BY <1>13 DEF CallObserver
  <2> QED
    BY <2>1, <2>2, <2>3
<1>14. CASE NotifyDone
  BY <1>14 DEF NotifyDone
<1>15. ASSUME NEW q \in Queriers, LoadObserver(q) PROVE CatTables'
  BY <1>15 DEF LoadObserver, Waiting, CatObserversWait
<1>16. CASE UNCHANGED catVars
  BY <1>16 DEF catVars
<1> QED
  BY <1>1, <1>2, <1>3, <1>4, <1>5, <1>6, <1>7, <1>8, <1>9, <1>10, <1>11, <1>12, <1>13, <1>14,
    <1>15, <1>16 DEF CatNext, Collect

\* Every step keeps the observers those of callers that wait.
LEMMA WaitersStep == CatInv /\ [CatNext]_catVars => CatObserversWait'
<1> SUFFICES ASSUME CatInv, [CatNext]_catVars PROVE CatObserversWait'
  OBVIOUS
<1> USE CatalogAssumption DEF CatInv, CatTables, CatObserversWait, Goto, netVars, collVars
<1>1. ASSUME NEW q \in Queriers, SendQuery(q) PROVE CatObserversWait'
  BY <1>1 DEF SendQuery
<1>2. ASSUME NEW q \in Queriers, Run(q) PROVE CatObserversWait'
  BY <1>2 DEF Run
<1>3. ASSUME NEW q \in Queriers, Register(q) PROVE CatObserversWait'
  BY <1>3 DEF Register
<1>4. ASSUME NEW q \in Queriers, Woken(q) PROVE CatObserversWait'
  BY <1>4 DEF Woken
<1>5. ASSUME NEW q \in Queriers, WaitTimeout(q) PROVE CatObserversWait'
  BY <1>5 DEF WaitTimeout
<1>6. ASSUME NEW c \in Channels, ItemArrives(c) PROVE CatObserversWait'
  BY <1>6 DEF ItemArrives, Write, Item
<1>7. ASSUME NEW c \in Channels, ItemLost(c) PROVE CatObserversWait'
  BY <1>7 DEF ItemLost
<1>8. ASSUME NEW c \in Channels, NoticeArrives(c) PROVE CatObserversWait'
  BY <1>8 DEF NoticeArrives, Write, Item
<1>9. ASSUME NEW d \in CatDevices, Tick(d) PROVE CatObserversWait'
  BY <1>9 DEF Tick, Without
<1>10. ASSUME NEW d \in CatDevices, TimePasses(d) PROVE CatObserversWait'
  BY <1>10 DEF TimePasses, With
<1>11. CASE Create
  BY <1>11 DEF Create, With
<1>12. CASE Receive
  BY <1>12 DEF Receive, With
<1>13. CASE CallObserver
  BY <1>13 DEF CallObserver
<1>14. CASE NotifyDone
  BY <1>14 DEF NotifyDone
<1>15. ASSUME NEW q \in Queriers, LoadObserver(q) PROVE CatObserversWait'
  BY <1>15 DEF LoadObserver, Waiting
<1>16. CASE UNCHANGED catVars
  BY <1>16 DEF catVars
<1> QED
  BY <1>1, <1>2, <1>3, <1>4, <1>5, <1>6, <1>7, <1>8, <1>9, <1>10, <1>11, <1>12, <1>13, <1>14,
    <1>15, <1>16 DEF CatNext, Collect

\* Every step keeps what is under way in range: items name a channel, or are events.
LEMMA ItemsStep == CatInv /\ [CatNext]_catVars => ItemsState'
<1> SUFFICES ASSUME CatInv, [CatNext]_catVars PROVE ItemsState'
  OBVIOUS
<1> USE CatalogAssumption DEF CatInv, CatTables, ItemsState, netVars, collVars
<1>1. ASSUME NEW q \in Queriers, SendQuery(q) PROVE ItemsState'
  BY <1>1 DEF SendQuery
<1>2. ASSUME NEW q \in Queriers, Run(q) PROVE ItemsState'
  BY <1>2 DEF Run
<1>3. ASSUME NEW q \in Queriers, Register(q) PROVE ItemsState'
  BY <1>3 DEF Register
<1>4. ASSUME NEW q \in Queriers, Woken(q) PROVE ItemsState'
  BY <1>4 DEF Woken
<1>5. ASSUME NEW q \in Queriers, WaitTimeout(q) PROVE ItemsState'
  BY <1>5 DEF WaitTimeout
<1>6. ASSUME NEW c \in Channels, ItemArrives(c) PROVE ItemsState'
  BY <1>6 DEF ItemArrives, Write, Item
<1>7. ASSUME NEW c \in Channels, ItemLost(c) PROVE ItemsState'
  BY <1>7 DEF ItemLost
<1>8. ASSUME NEW c \in Channels, NoticeArrives(c) PROVE ItemsState'
  BY <1>8 DEF NoticeArrives, Write, Item
<1>9. ASSUME NEW d \in CatDevices, Tick(d) PROVE ItemsState'
  BY <1>9 DEF Tick, Without
<1>10. ASSUME NEW d \in CatDevices, TimePasses(d) PROVE ItemsState'
  BY <1>10 DEF TimePasses, With
<1>11. CASE Create
  BY <1>11 DEF Create, With
<1>12. CASE Receive
  <2>1. msgs \in Seq(CatItems) /\ msgs # <<>> /\ msgs' = Tail(msgs)
    BY <1>12 DEF Receive
  <2>2. \A i \in 1..Len(msgs') : i + 1 \in 1..Len(msgs) /\ msgs'[i] = msgs[i + 1]
    BY <2>1
  <2> QED
    BY <2>2
<1>13. CASE CallObserver
  BY <1>13 DEF CallObserver
<1>14. CASE NotifyDone
  BY <1>14 DEF NotifyDone
<1>15. ASSUME NEW q \in Queriers, LoadObserver(q) PROVE ItemsState'
  BY <1>15 DEF LoadObserver, Waiting
<1>16. CASE UNCHANGED catVars
  BY <1>16 DEF catVars
<1> QED
  BY <1>1, <1>2, <1>3, <1>4, <1>5, <1>6, <1>7, <1>8, <1>9, <1>10, <1>11, <1>12, <1>13, <1>14,
    <1>15, <1>16 DEF CatNext, Collect

\* Every step keeps a collection a list of its device's own channels, each once, with
\* the total that the device has stated.
LEMMA ListsStep == CatInv /\ [CatNext]_catVars => ListsOwn'
<1> SUFFICES ASSUME CatInv, [CatNext]_catVars PROVE ListsOwn'
  OBVIOUS
<1> USE CatalogAssumption DEF CatInv, CatTables, ListsOwn, netVars, collVars
<1>1. ASSUME NEW q \in Queriers, SendQuery(q) PROVE ListsOwn'
  BY <1>1 DEF SendQuery
<1>2. ASSUME NEW q \in Queriers, Run(q) PROVE ListsOwn'
  BY <1>2 DEF Run
<1>3. ASSUME NEW q \in Queriers, Register(q) PROVE ListsOwn'
  BY <1>3 DEF Register
<1>4. ASSUME NEW q \in Queriers, Woken(q) PROVE ListsOwn'
  BY <1>4 DEF Woken
<1>5. ASSUME NEW q \in Queriers, WaitTimeout(q) PROVE ListsOwn'
  BY <1>5 DEF WaitTimeout
<1>6. ASSUME NEW c \in Channels, ItemArrives(c) PROVE ListsOwn'
  BY <1>6 DEF ItemArrives, Write, Item
<1>7. ASSUME NEW c \in Channels, ItemLost(c) PROVE ListsOwn'
  BY <1>7 DEF ItemLost
<1>8. ASSUME NEW c \in Channels, NoticeArrives(c) PROVE ListsOwn'
  BY <1>8 DEF NoticeArrives, Write, Item
<1>9. ASSUME NEW d \in CatDevices, Tick(d) PROVE ListsOwn'
  BY <1>9 DEF Tick, Without
<1>10. ASSUME NEW d \in CatDevices, TimePasses(d) PROVE ListsOwn'
  <2>1. /\ d \in DOMAIN content /\ content' = With(d, [content[d] EXCEPT !.idle = TRUE])
        /\ content[d] \in Collection
    BY <1>10 DEF TimePasses
  <2>2. [content[d] EXCEPT !.idle = TRUE] \in Collection
        /\ ListOf(d, [content[d] EXCEPT !.idle = TRUE])
    BY <2>1, TimeKeepsList
  <2>3. /\ DOMAIN content' = DOMAIN content \cup {d}
        /\ content'[d] = [content[d] EXCEPT !.idle = TRUE]
        /\ \A e \in DOMAIN content : e # d => content'[e] = content[e]
    BY <2>1, <2>2, WithIs
  <2> QED
    BY <2>2, <2>3
<1>11. CASE Create
  <2>1. Head(created) \in CatDevices /\ content' = With(Head(created), NewCollection)
    BY <1>11 DEF Create
  <2> DEFINE d == Head(created)
  <2>2. /\ DOMAIN content' = DOMAIN content \cup {d} /\ content'[d] = NewCollection
        /\ \A e \in DOMAIN content : e # d => content'[e] = content[e]
    BY <2>1, NewList, WithIs
  <2> QED
    BY <2>2, NewList
<1>12. CASE Receive
  <2> DEFINE d == DeviceOf[Head(msgs).chan]
  <2>1. CASE content' = content
    BY <2>1
  <2>2. CASE /\ d \in DOMAIN content /\ content' = With(d, Added(content[d], Head(msgs)))
             /\ Added(content[d], Head(msgs)) \in Collection
             /\ ListOf(d, Added(content[d], Head(msgs)))
    <3> DEFINE new == Added(content[d], Head(msgs))
    <3>1. d \in CatDevices
      BY <2>2
    <3>2. /\ DOMAIN content' = DOMAIN content \cup {d} /\ content'[d] = new
          /\ \A e \in DOMAIN content : e # d => content'[e] = content[e]
      BY <2>2, <3>1, WithIs
    <3> HIDE DEF new, d
    <3> QED
      BY <2>2, <3>2 DEF new
  <2> QED
    BY <1>12, <2>1, <2>2, ReceiveIs
<1>13. CASE CallObserver
  BY <1>13 DEF CallObserver
<1>14. CASE NotifyDone
  BY <1>14 DEF NotifyDone
<1>15. ASSUME NEW q \in Queriers, LoadObserver(q) PROVE ListsOwn'
  BY <1>15 DEF LoadObserver, Waiting
<1>16. CASE UNCHANGED catVars
  BY <1>16 DEF catVars
<1> QED
  BY <1>1, <1>2, <1>3, <1>4, <1>5, <1>6, <1>7, <1>8, <1>9, <1>10, <1>11, <1>12, <1>13, <1>14,
    <1>15, <1>16 DEF CatNext, Collect

\* The invariant of the catalog holds in every state.
LEMMA CatInvHolds == CatSpec => []CatInv
<1>1. CatInv /\ [CatNext]_catVars => CatInv'
  BY CatTablesStep, WaitersStep, ItemsStep, ListsStep DEF CatInv
<1> QED
  BY <1>1, CatStarts, PTL DEF CatSpec

\* Who is registered for the end of a collection still waits for it (sip/obs.go,
\* Register and Notify), for any devices, channels, callers and orders of answers.
THEOREM ObserversWait == CatSpec => []CatObserversWait
<1>1. CatInv => CatObserversWait
  BY DEF CatInv
<1> QED
  BY <1>1, CatInvHolds, PTL

\* A tick saves a collection only when it has as many channels as were stated.
LEMMA TickSavesWhole ==
  ASSUME CatInv, NEW d \in CatDevices, Tick(d)
  PROVE  LET saved == DataSet(content[d].data)
         IN  /\ saved \subseteq ChannelsOf(d) /\ Cardinality(saved) = Len(content[d].data)
             /\ content[d].idle \/ content[d].mixed \/ ChannelsOf(d) = saved \cap online'
<1> DEFINE coll == content[d]
           saved == DataSet(coll.data)
<1>1. d \in DOMAIN content /\ (coll.idle \/ Complete(coll)) /\ online' = SavedRows(d, saved)
  BY DEF Tick, Expired
<1>2. coll \in Collection /\ ListOf(d, coll)
  BY <1>1 DEF CatInv, CatTables, ListsOwn
<1>3. saved \subseteq ChannelsOf(d) /\ Cardinality(saved) = Len(coll.data)
  BY <1>2 DEF ListOf
<1>4. ASSUME ~coll.idle, ~coll.mixed PROVE ChannelsOf(d) = saved \cap online'
  <2>1. coll.total > 0 /\ Len(coll.data) >= coll.total /\ coll.total \in Nat
        /\ coll.data \in Seq(Channels)
    BY <1>1, <1>2, <1>4 DEF Complete, Collection
  <2>2. coll.data # <<>> /\ 1 \in DOMAIN coll.data
    BY <2>1
  <2>3. coll.total = Cardinality(ChannelsOf(d))
    BY <1>2, <1>4, <2>2 DEF ListOf
  <2>4. ChannelsOf(d) \in SUBSET Channels
    BY DEF ChannelsOf
  <2>5. IsFiniteSet(ChannelsOf(d))
    BY <2>4, CatalogAssumption, FS_Subset
  <2>6. Cardinality(saved) <= Cardinality(ChannelsOf(d))
        /\ (Cardinality(ChannelsOf(d)) = Cardinality(saved) => ChannelsOf(d) = saved)
    BY <1>3, <2>5, FS_Subset
  <2>7. ChannelsOf(d) = saved
    BY <1>3, <2>1, <2>3, <2>6
  <2>8. saved # {}
    BY <2>2 DEF DataSet
  <2> HIDE DEF saved
  <2> QED
    BY <1>1, <2>7, <2>8 DEF SavedRows
<1> QED
  BY <1>3, <1>4

\* What a tick saves is whole, or its time is up (sip/collector.go, Start and
\* SaveChannels), for any devices, channels and orders of answers.
THEOREM SavedWhole == CatSpec => CatSavedWhole
<1>1. CatInv /\ [CatNext]_catVars =>
        \A d \in DOMAIN content \ DOMAIN content' :
          LET saved == DataSet(content[d].data)
          IN  /\ saved \subseteq ChannelsOf(d) /\ Cardinality(saved) = Len(content[d].data)
              /\ content[d].idle \/ content[d].mixed \/ ChannelsOf(d) = saved \cap online'
  <2> SUFFICES ASSUME CatInv, [CatNext]_catVars, NEW d \in DOMAIN content, d \notin DOMAIN content'
               PROVE  Tick(d) /\ d \in CatDevices
    BY TickSavesWhole
  <2>1. d \in CatDevices
    BY DEF CatInv, CatTables
  <2>2. \/ \E e \in CatDevices : Tick(e)
        \/ \E e \in CatDevices : \E coll : content' = With(e, coll)
        \/ content' = content
    <3>1. CASE \E q \in Queriers : \/ SendQuery(q) \/ Run(q) \/ Register(q) \/ Woken(q)
                                   \/ WaitTimeout(q) \/ LoadObserver(q)
      BY <3>1 DEF SendQuery, Run, Register, Woken, WaitTimeout, LoadObserver, collVars
    <3>2. CASE \E c \in Channels : ItemArrives(c) \/ ItemLost(c) \/ NoticeArrives(c)
      BY <3>2 DEF ItemArrives, ItemLost, NoticeArrives, Write, collVars
    <3>3. CASE \E e \in CatDevices : TimePasses(e)
      BY <3>3 DEF TimePasses
    <3>4. CASE Create
      <4>1. Head(created) \in CatDevices
        BY <3>4 DEF Create, CatInv, CatTables
      <4> QED
        BY <3>4, <4>1 DEF Create
    <3>5. CASE Receive
      <4>1. DeviceOf[Head(msgs).chan] \in CatDevices
        BY <3>5, CatalogAssumption DEF Receive, CatInv, CatTables, CatItems
      <4> QED
        BY <3>5, <4>1 DEF Receive
    <3>6. CASE CallObserver \/ NotifyDone \/ UNCHANGED catVars
      BY <3>6 DEF CallObserver, NotifyDone, catVars, collVars
    <3> QED
      BY <3>1, <3>2, <3>3, <3>4, <3>5, <3>6 DEF CatNext, Collect
  <2>3. PICK e \in CatDevices : Tick(e)
    BY <2>2 DEF With
  <2>4. e = d
    BY <2>3 DEF Tick, Without
  <2> QED
    BY <2>1, <2>3, <2>4
<1> QED
  BY <1>1, CatInvHolds, PTL DEF CatSpec, CatSavedWhole

----------------------------------------------------------------------------
(* EventSubscriptions: who relies on an entry was told when it ends, and
   a walk deletes only what it found expired before that. *)

WalkStates ==
  [pc : {"rest", "range", "drop", "send"}, at : Nat, left : SUBSET SubKeys,
   kept : SUBSET SubKeys, key : SubKeys \cup {NoKey}, event : Events \cup {NoEvent}]
SubTables ==
  /\ clock \in Nat
  /\ DOMAIN subs \subseteq SubKeys /\ subs \in [DOMAIN subs -> Nat]
  /\ walk \in [Walks -> WalkStates]
  /\ told \in [SubKeys -> [until : Nat, state : {"none", "held", "late"}]]

\* An entry is what its subscriber was told, unless that one was late once.
PromiseInv ==
  \A k \in SubKeys :
    /\ told[k].state = "held" /\ k \in DOMAIN subs => subs[k] = told[k].until
    /\ told[k].state = "none" => k \notin DOMAIN subs
    /\ k \in Relied => k \in DOMAIN subs

\* What a walk is about to delete nobody relies on, nor will.
DropInv ==
  \A w \in Walks :
    /\ walk[w].at <= clock
    /\ walk[w].pc \in {"drop", "send"} => walk[w].key \in SubKeys
    /\ walk[w].pc = "drop" =>
         /\ told[walk[w].key].state # "none"
         /\ told[walk[w].key].state = "held" => told[walk[w].key].until < clock

\* Who is owed the event of a walk relies on its entry, which the walk has yet to visit.
OwedInv ==
  \A w \in Walks :
    /\ walk[w].kept \subseteq Relied
    /\ walk[w].pc = "rest" => walk[w].kept = {}
    /\ \A k \in walk[w].kept :
         Matches(k, walk[w].event) => k \in walk[w].left \/ (walk[w].pc = "send" /\ walk[w].key = k)

SubInv == SubTables /\ PromiseInv /\ DropInv /\ OwedInv

\* Nobody has subscribed, and the walks rest.
LEMMA SubStarts == SubInit => SubInv
<1> SUFFICES ASSUME SubInit PROVE SubInv
  OBVIOUS
<1>1. SubTables
  BY DEF SubInit, SubTables, Resting, Fresh, WalkStates
<1>2. PromiseInv
  BY DEF SubInit, PromiseInv, Fresh, Relied, InTime
<1>3. DropInv /\ OwedInv
  BY DEF SubInit, DropInv, OwedInv, Resting
<1> QED
  BY <1>1, <1>2, <1>3 DEF SubInv

\* A walk with another set of those it owes.
LEMMA KeptIs ==
  ASSUME NEW r \in WalkStates, NEW S, NEW n, n = [r EXCEPT !.kept = S]
  PROVE  /\ n.pc = r.pc /\ n.at = r.at /\ n.key = r.key /\ n.left = r.left
         /\ n.event = r.event /\ n.kept = S
BY DEF WalkStates

\* Every step keeps the types of the table, the walks and what was told.
LEMMA SubTablesStep == SubInv /\ [SubNext]_subVars => SubTables'
<1> SUFFICES ASSUME SubInv, [SubNext]_subVars PROVE SubTables'
  OBVIOUS
<1> USE SubscriptionAssumption DEF SubInv, SubTables, WalkStates, Walking
<1>1. ASSUME NEW k \in SubKeys, Subscribe(k) PROVE SubTables'
  BY <1>1 DEF Subscribe, Granted, Tell
<1>2. ASSUME NEW k \in SubKeys, Unsubscribe(k) PROVE SubTables'
  <2>1. \A w \in Walks : [walk[w] EXCEPT !.kept = @ \ {k}] \in WalkStates
    OBVIOUS
  <2>2. walk' \in [Walks -> WalkStates]
    <3> HIDE DEF WalkStates
    <3> QED
      BY <1>2, <2>1 DEF Unsubscribe
  <2>3. clock' = clock /\ DOMAIN subs' \subseteq SubKeys /\ subs' \in [DOMAIN subs' -> Nat]
    BY <1>2 DEF Unsubscribe, Dropped
  <2>4. told' \in [SubKeys -> [until : Nat, state : {"none", "held", "late"}]]
    BY <1>2 DEF Unsubscribe, Tell
  <2> HIDE DEF WalkStates
  <2> QED
    BY <2>2, <2>3, <2>4
<1>3. ASSUME NEW w \in Walks, NEW e \in Events \cup {NoEvent}, BeginWalk(w, e) PROVE SubTables'
  <2>1. Relied \subseteq SubKeys /\ DOMAIN subs \subseteq SubKeys
    BY DEF Relied
  <2>2. [pc |-> "range", at |-> clock, left |-> DOMAIN subs, kept |-> Relied, key |-> NoKey,
         event |-> e] \in WalkStates
    BY <2>1
  <2> HIDE DEF WalkStates
  <2> QED
    BY <1>3, <2>2 DEF BeginWalk
<1>4. ASSUME NEW w \in Walks, VisitNext(w) PROVE SubTables'
  <2>1. PICK k \in SubKeys, place \in {"drop", "send", "range"} :
               walk' = [walk EXCEPT ![w].left = @ \ {k}, ![w].key = k, ![w].pc = place]
    BY <1>4 DEF VisitNext, Visit
  <2>2. [walk[w] EXCEPT !.left = @ \ {k}, !.key = k, !.pc = place] \in WalkStates
    OBVIOUS
  <2>3. UNCHANGED <<clock, subs, told>>
    BY <1>4 DEF VisitNext
  <2> HIDE DEF WalkStates
  <2> QED
    BY <2>1, <2>2, <2>3
<1>5. ASSUME NEW w \in Walks, DropExpired(w) PROVE SubTables'
  BY <1>5 DEF DropExpired, Dropped
<1>6. ASSUME NEW w \in Walks, SendNotify(w) PROVE SubTables'
  <2>1. [walk[w] EXCEPT !.pc = "range", !.kept = @ \ {walk[w].key}] \in WalkStates
    OBVIOUS
  <2> HIDE DEF WalkStates
  <2> QED
    BY <1>6, <2>1 DEF SendNotify
<1>7. ASSUME NEW w \in Walks, EndWalk(w) PROVE SubTables'
  BY <1>7 DEF EndWalk, EndsNext, Resting
<1>8. CASE SubTick
  <2>1. ASSUME NEW w \in Walks
        PROVE  [walk[w] EXCEPT !.kept = {k \in @ : told[k].until > clock}] \in WalkStates
    <3> DEFINE left == {k \in walk[w].kept : told[k].until > clock}
    <3>1. left \in SUBSET SubKeys
      OBVIOUS
    <3> HIDE DEF left
    <3>2. [walk[w] EXCEPT !.kept = left] \in WalkStates
      BY <3>1
    <3> QED
      BY <3>2 DEF left
  <2> HIDE DEF WalkStates
  <2> QED
    BY <1>8, <2>1 DEF SubTick
<1>9. CASE UNCHANGED subVars
  BY <1>9 DEF subVars
<1> QED
  BY <1>1, <1>2, <1>3, <1>4, <1>5, <1>6, <1>7, <1>8, <1>9 DEF SubNext, Walk, Publish,
    CleanerTicks, Walks

\* Every step keeps the entries what their subscribers were told.
LEMMA PromiseStep == SubInv /\ [SubNext]_subVars => PromiseInv'
<1> SUFFICES ASSUME SubInv, [SubNext]_subVars PROVE PromiseInv'
  OBVIOUS
<1> USE SubscriptionAssumption DEF SubInv, SubTables, WalkStates, PromiseInv, DropInv, Walking,
  Relied, InTime
<1>1. ASSUME NEW k \in SubKeys, Subscribe(k) PROVE PromiseInv'
  BY <1>1 DEF Subscribe, Granted, Tell
<1>2. ASSUME NEW k \in SubKeys, Unsubscribe(k) PROVE PromiseInv'
  BY <1>2 DEF Unsubscribe, Dropped, Tell
<1>3. ASSUME NEW w \in Walks, NEW e \in Events \cup {NoEvent}, BeginWalk(w, e) PROVE PromiseInv'
  BY <1>3 DEF BeginWalk
<1>4. ASSUME NEW w \in Walks, VisitNext(w) PROVE PromiseInv'
  BY <1>4 DEF VisitNext, Visit, ExpiredAt
<1>5. ASSUME NEW w \in Walks, DropExpired(w) PROVE PromiseInv'
  BY <1>5 DEF DropExpired, Dropped
<1>6. ASSUME NEW w \in Walks, SendNotify(w) PROVE PromiseInv'
  BY <1>6 DEF SendNotify
<1>7. ASSUME NEW w \in Walks, EndWalk(w) PROVE PromiseInv'
  BY <1>7 DEF EndWalk, EndsNext, Resting
<1>8. CASE SubTick
  BY <1>8 DEF SubTick
<1>9. CASE UNCHANGED subVars
  BY <1>9 DEF subVars
<1> QED
  BY <1>1, <1>2, <1>3, <1>4, <1>5, <1>6, <1>7, <1>8, <1>9 DEF SubNext, Walk, Publish,
    CleanerTicks, Walks

\* Every step keeps the entries in danger those that nobody relies on.
LEMMA DropStep == SubInv /\ [SubNext]_subVars => DropInv'
<1> SUFFICES ASSUME SubInv, [SubNext]_subVars PROVE DropInv'
  OBVIOUS
<1> USE SubscriptionAssumption DEF SubInv, SubTables, WalkStates, PromiseInv, DropInv, Walking,
  InTime
<1>1. ASSUME NEW k \in SubKeys, Subscribe(k) PROVE DropInv'
  BY <1>1 DEF Subscribe, Granted, Tell
<1>2. ASSUME NEW k \in SubKeys, Unsubscribe(k) PROVE DropInv'
  <2>1. \A w \in Walks : walk'[w] = [walk[w] EXCEPT !.kept = @ \ {k}]
    BY <1>2 DEF Unsubscribe
  <2>2. \A w \in Walks : /\ walk'[w].pc = walk[w].pc /\ walk'[w].at = walk[w].at
                         /\ walk'[w].key = walk[w].key /\ walk'[w].left = walk[w].left
                         /\ walk'[w].event = walk[w].event /\ walk'[w].kept = walk[w].kept \ {k}
    <3> HIDE DEF WalkStates
    <3>1. \A w \in Walks : walk[w] \in WalkStates
      BY DEF SubTables
    <3>2. \A w \in Walks : walk'[w] = [walk[w] EXCEPT !.kept = walk[w].kept \ {k}]
      BY <2>1
    <3> SUFFICES ASSUME NEW w \in Walks
                 PROVE  /\ walk'[w].pc = walk[w].pc /\ walk'[w].at = walk[w].at
                        /\ walk'[w].key = walk[w].key /\ walk'[w].left = walk[w].left
                        /\ walk'[w].event = walk[w].event /\ walk'[w].kept = walk[w].kept \ {k}
      OBVIOUS
    <3>3. walk[w] \in WalkStates /\ walk'[w] = [walk[w] EXCEPT !.kept = walk[w].kept \ {k}]
      BY <3>1, <3>2
    <3> QED
      BY <3>3, KeptIs
  <2>3. /\ clock' = clock /\ k \in DOMAIN subs
        /\ \A j \in SubKeys : j # k => told'[j] = told[j]
        /\ IF InTime(k) THEN told'[k].state = "none" ELSE told'[k].state = "late"
    BY <1>2 DEF Unsubscribe, Tell
  <2> QED
    BY <2>2, <2>3
<1>3. ASSUME NEW w \in Walks, NEW e \in Events \cup {NoEvent}, BeginWalk(w, e) PROVE DropInv'
  BY <1>3 DEF BeginWalk
<1>4. ASSUME NEW w \in Walks, VisitNext(w) PROVE DropInv'
  BY <1>4 DEF VisitNext, Visit, ExpiredAt
<1>5. ASSUME NEW w \in Walks, DropExpired(w) PROVE DropInv'
  BY <1>5 DEF DropExpired, Dropped
<1>6. ASSUME NEW w \in Walks, SendNotify(w) PROVE DropInv'
  BY <1>6 DEF SendNotify
<1>7. ASSUME NEW w \in Walks, EndWalk(w) PROVE DropInv'
  BY <1>7 DEF EndWalk, EndsNext, Resting
<1>8. CASE SubTick
  BY <1>8 DEF SubTick
<1>9. CASE UNCHANGED subVars
  BY <1>9 DEF subVars
<1> QED
  BY <1>1, <1>2, <1>3, <1>4, <1>5, <1>6, <1>7, <1>8, <1>9 DEF SubNext, Walk, Publish,
    CleanerTicks, Walks

\* Every step keeps who is owed an event in the table and ahead of its walk.
LEMMA OwedStep == SubInv /\ [SubNext]_subVars => OwedInv'
<1> SUFFICES ASSUME SubInv, [SubNext]_subVars PROVE OwedInv'
  OBVIOUS
<1> USE SubscriptionAssumption DEF SubInv, SubTables, WalkStates, PromiseInv, OwedInv, DropInv,
  Walking, Relied, InTime
<1>1. ASSUME NEW k \in SubKeys, Subscribe(k) PROVE OwedInv'
  BY <1>1 DEF Subscribe, Granted, Tell
<1>2. ASSUME NEW k \in SubKeys, Unsubscribe(k) PROVE OwedInv'
  <2>1. \A w \in Walks : walk'[w] = [walk[w] EXCEPT !.kept = @ \ {k}]
    BY <1>2 DEF Unsubscribe
  <2>2. \A w \in Walks : /\ walk'[w].pc = walk[w].pc /\ walk'[w].at = walk[w].at
                         /\ walk'[w].key = walk[w].key /\ walk'[w].left = walk[w].left
                         /\ walk'[w].event = walk[w].event /\ walk'[w].kept = walk[w].kept \ {k}
    <3> HIDE DEF WalkStates
    <3>1. \A w \in Walks : walk[w] \in WalkStates
      BY DEF SubTables
    <3>2. \A w \in Walks : walk'[w] = [walk[w] EXCEPT !.kept = walk[w].kept \ {k}]
      BY <2>1
    <3> SUFFICES ASSUME NEW w \in Walks
                 PROVE  /\ walk'[w].pc = walk[w].pc /\ walk'[w].at = walk[w].at
                        /\ walk'[w].key = walk[w].key /\ walk'[w].left = walk[w].left
                        /\ walk'[w].event = walk[w].event /\ walk'[w].kept = walk[w].kept \ {k}
      OBVIOUS
    <3>3. walk[w] \in WalkStates /\ walk'[w] = [walk[w] EXCEPT !.kept = walk[w].kept \ {k}]
      BY <3>1, <3>2
    <3> QED
      BY <3>3, KeptIs
  <2>3. /\ clock' = clock /\ k \in DOMAIN subs
        /\ \A j \in SubKeys : j # k => told'[j] = told[j]
        /\ IF InTime(k) THEN told'[k].state = "none" ELSE told'[k].state = "late"
    BY <1>2 DEF Unsubscribe, Tell
  <2> QED
    BY <2>2, <2>3
<1>3. ASSUME NEW w \in Walks, NEW e \in Events \cup {NoEvent}, BeginWalk(w, e) PROVE OwedInv'
  BY <1>3 DEF BeginWalk
<1>4. ASSUME NEW w \in Walks, VisitNext(w) PROVE OwedInv'
  BY <1>4 DEF VisitNext, Visit, ExpiredAt
<1>5. ASSUME NEW w \in Walks, DropExpired(w) PROVE OwedInv'
  BY <1>5 DEF DropExpired, Dropped
<1>6. ASSUME NEW w \in Walks, SendNotify(w) PROVE OwedInv'
  BY <1>6 DEF SendNotify
<1>7. ASSUME NEW w \in Walks, EndWalk(w) PROVE OwedInv'
  BY <1>7 DEF EndWalk, EndsNext, Resting
<1>8. CASE SubTick
  BY <1>8 DEF SubTick
<1>9. CASE UNCHANGED subVars
  BY <1>9 DEF subVars
<1> QED
  BY <1>1, <1>2, <1>3, <1>4, <1>5, <1>6, <1>7, <1>8, <1>9 DEF SubNext, Walk, Publish,
    CleanerTicks, Walks

\* The invariant of the subscriptions holds in every state.
LEMMA SubInvHolds == SubSpec => []SubInv
<1>1. SubInv /\ [SubNext]_subVars => SubInv'
  BY SubTablesStep, PromiseStep, DropStep, OwedStep DEF SubInv
<1> QED
  BY <1>1, SubStarts, PTL DEF SubSpec

\* Whoever relies on a subscription is in the table, and no walk ends that owes it an
\* event (subscribe_source.go, PublishEvent and the cleaner), for any number of
\* subscribers, walks and events.
THEOREM SubscribersServed == SubSpec => []SubServed
<1>1. SubInv => SubKept
  BY DEF SubInv, PromiseInv, SubKept, Relied
<1>2. SubInv => SubAllNotified
  BY DEF SubInv, PromiseInv, OwedInv, SubAllNotified, EndsNext, Walking, Walks, Relied
<1> QED
  BY <1>1, <1>2, SubInvHolds, PTL DEF SubServed

----------------------------------------------------------------------------
(* DialogRequests: a dialog is new to its start, answers one object
   and stays with it; while nobody mixes in, one request is made at a time. *)

\* A request as it was sent.
Requests == [line : Lines, method : Lines \cup {"INVITE"}, no : Nat, cmd : Nat]
ActorStates ==
  [pc : {"idle", "invite", "count", "counted", "method", "load", "store", "send"},
   op : {"none", "start", "stop", "control"}, line : Lines \cup {"none"},
   obj : Nat, dlg : Nat, no : Nat, cmd : Nat]
\* Objects and dialogs are starts that have begun.
ObjectsTyped ==
  /\ holder \in Actors \cup {NoActor}
  /\ begun \in 0..MaxStarts /\ mapped \in 0..begun
  /\ answer \in [Dialogs -> 0..begun]
  /\ \A a \in Actors : actor[a].obj \in 0..begun /\ actor[a].dlg \in 0..begun
HistTables ==
  /\ ObjectsTyped
  /\ controls \in [Dialogs -> Nat]
  /\ header \in [Dialogs -> [method : Lines \cup {"INVITE"}, no : Nat]]
  /\ actor \in [Actors -> ActorStates]
  /\ log \in [Dialogs -> Seq(Requests)]

\* The places of a request in the making.
Making == {"count", "counted", "method", "load", "store", "send"}

\* What an actor is at: the mutex is held by who starts or stops.
ActorOK(a) ==
  /\ actor[a].pc \in {"idle", "invite"} \cup Making
  /\ holder = a <=> actor[a].op \in {"start", "stop"}
  /\ actor[a].op = "none" => actor[a].dlg = 0 /\ actor[a].line = "none" /\ actor[a].cmd = 0
  /\ actor[a].pc = "idle" => actor[a].op = "none"
  /\ actor[a].pc = "invite" =>
       actor[a].op = "start" /\ actor[a].line = "none" /\ actor[a].obj # 0 /\ actor[a].dlg = 0
  /\ actor[a].pc \in Making => actor[a].obj # 0 /\ actor[a].dlg # 0 /\ actor[a].line \in Lines
  /\ actor[a].pc \in {"count", "counted"} => actor[a].op = "control"
  /\ actor[a].op = "control" => actor[a].line = "INFO" /\ answer[actor[a].obj] # 0
  /\ actor[a].op # "control" => actor[a].cmd = 0

\* A dialog is the answer of one object, and whoever makes a request in it has that object.
OneObject == \A o, p \in Dialogs : answer[o] = answer[p] /\ answer[o] # 0 => o = p
OwnObject ==
  \A a \in Actors, o \in Dialogs : actor[a].dlg # 0 /\ answer[o] = actor[a].dlg => actor[a].obj = o
\* What has not begun has no answer, and its dialog is untouched.
NoneBeyond == \A o \in Dialogs : o > begun => answer[o] = 0

Untouched(d) == log[d] = <<>> /\ header[d] = [method |-> "INVITE", no |-> InviteNo]
FreshBeyond == \A d \in Dialogs : d > begun => Untouched(d)
\* A start has its dialog to itself until it is answered.
Unanswered(a) == actor[a].op = "start" /\ actor[a].line # "ACK"
FreshStart == \A a \in Actors : Unanswered(a) => begun # 0 /\ Untouched(begun)
FreshToActors == \A a, b \in Actors : Unanswered(a) => actor[b].dlg # begun
FreshToObjects == \A a \in Actors, o \in Dialogs : Unanswered(a) => answer[o] # begun

\* A start whose object is still mapped finds no answer in it.
FreshObject == \A a \in Actors : Unanswered(a) /\ actor[a].obj = mapped => answer[mapped] = 0

\* A dialog that is not mixed has one request in the making at most.
LoneInv ==
  \A a, b \in Actors :
    actor[a].dlg = actor[b].dlg /\ actor[a].dlg \notin mixed \cup {0} => a = b

\* The numbers in a dialog whose requests are made one at a time.
NumbersOf(d) ==
  /\ \A i \in 1..Len(log[d]) :
       /\ log[d][i].no <= header[d].no
       /\ log[d][i].method = log[d][i].line
       /\ log[d][i].line = "ACK" => log[d][i].no = InviteNo
  /\ \A i, j \in 1..Len(log[d]) : i < j /\ log[d][j].line # "ACK" => log[d][i].no < log[d][j].no
\* The request in the making has the newest number, or is about to take it.
NumbersFor(a) ==
  LET d == actor[a].dlg
  IN  /\ actor[a].pc \in {"load", "store", "send"} => header[d].method = actor[a].line
      /\ actor[a].line = "ACK" => log[d] = <<>> /\ header[d].no = InviteNo
      /\ actor[a].pc \in {"load", "store"} => actor[a].line # "ACK"
      /\ actor[a].pc = "store" => actor[a].no = header[d].no
      /\ actor[a].pc = "send" /\ actor[a].line # "ACK" =>
           \A i \in 1..Len(log[d]) : log[d][i].no < header[d].no
SentInv == \A d \in Dialogs \ mixed : NumbersOf(d)
Sends(a) == actor[a].dlg \notin mixed \cup {0} => NumbersFor(a)
SendingInv == \A a \in Actors : Sends(a)

\* Whoever controls an object controls the dialog that it was the answer of when it was mapped.
Early(a) == actor[a].pc \in {"count", "counted", "method"}
WorksInPlace(a) == actor[a].op = "control" /\ (Early(a) \/ actor[a].dlg \notin mixed)
OnePlace ==
  \A a, b \in Actors :
    WorksInPlace(a) /\ WorksInPlace(b) /\ actor[a].obj = actor[b].obj => actor[a].dlg = actor[b].dlg
MappedPlace ==
  \A a \in Actors : WorksInPlace(a) /\ mapped = actor[a].obj => actor[a].dlg = answer[mapped]

\* The commands of a dialog, and the one in the making, by the object's counter.
CommandsOf(d, most) == \A i \in 1..Len(log[d]) : log[d][i].cmd <= most
CommandsRise(d) ==
  \A i, j \in 1..Len(log[d]) :
    i < j /\ log[d][i].cmd # 0 /\ log[d][j].cmd # 0 => log[d][i].cmd < log[d][j].cmd
CommandsFor(a) ==
  LET d == actor[a].dlg
      o == actor[a].obj
  IN  /\ actor[a].pc \in {"count", "counted"} => CommandsOf(d, controls[o])
      /\ actor[a].pc = "counted" => actor[a].cmd = controls[o] + 1
      /\ actor[a].pc \in {"method", "load", "store", "send"} /\ actor[a].cmd # 0 =>
           /\ actor[a].cmd <= controls[o]
           /\ \A i \in 1..Len(log[d]) : log[d][i].cmd < actor[a].cmd
CommandsInv == \A d \in Dialogs \ mixed : CommandsRise(d)
MappedCommands ==
  mapped # 0 => answer[mapped] \in mixed \cup {0} \/ CommandsOf(answer[mapped], controls[mapped])
Commands(a) == actor[a].op = "control" /\ actor[a].dlg \notin mixed => CommandsFor(a)
CommandingInv == \A a \in Actors : Commands(a)

\* The inductive invariant.
HistInv ==
  /\ HistTables /\ (\A a \in Actors : ActorOK(a))
  /\ OneObject /\ OwnObject /\ NoneBeyond /\ FreshBeyond /\ FreshStart /\ FreshToActors /\ FreshToObjects
  /\ FreshObject /\ LoneInv /\ SentInv /\ SendingInv
  /\ OnePlace /\ MappedPlace /\ CommandsInv /\ MappedCommands /\ CommandingInv

----------------------------------------------------------------------------
\* An actor, field by field, and what a step makes of it.
Fields(n, place, op, line, obj, dlg, no, cmd) ==
  /\ n \in ActorStates
  /\ n.pc = place /\ n.op = op /\ n.line = line /\ n.obj = obj /\ n.dlg = dlg /\ n.no = no /\ n.cmd = cmd
Now(a, place, op, line, obj, dlg, no, cmd) ==
  /\ actor' \in [Actors -> ActorStates]
  /\ Fields(actor'[a], place, op, line, obj, dlg, no, cmd)
  /\ \A b \in Actors : b # a => actor'[b] = actor[b]

\* What an actor is after a step that writes it.
LEMMA NowIs ==
  ASSUME HistTables, NEW a \in Actors, NEW n, NEW place, NEW op, NEW line, NEW obj, NEW dlg, NEW no, NEW cmd,
         actor' = [actor EXCEPT ![a] = n], Fields(n, place, op, line, obj, dlg, no, cmd)
  PROVE  Now(a, place, op, line, obj, dlg, no, cmd)
<1>1. actor \in [Actors -> ActorStates] /\ n \in ActorStates
  BY DEF HistTables, Fields
<1>2. actor' \in [Actors -> ActorStates] /\ actor'[a] = n
      /\ \A b \in Actors : b # a => actor'[b] = actor[b]
  BY <1>1
<1> QED
  BY <1>2 DEF Now

\* An actor at rest.
LEMMA IdleIs == Fields(Idle, "idle", "none", "none", 0, 0, 0, 0)
BY DEF Idle, ActorStates, Lines, Fields
\* What a step that begins a request does to the mixed dialogs.
Mixes(a, d) ==
  /\ mixed' \in {mixed, mixed \cup {d}}
  /\ d \notin mixed' => \A b \in Actors : b # a => actor[b].dlg # d
\* The request that an actor sends.
Made(a) ==
  [line |-> actor[a].line, method |-> header[actor[a].dlg].method, no |-> header[actor[a].dlg].no,
   cmd |-> actor[a].cmd]

\* What each action does to the variables, field by field.
StartFreshDone(a) ==
  /\ actor[a].pc = "idle" /\ holder = NoActor /\ holder' = a
  /\ mapped = 0 /\ begun < MaxStarts /\ begun' = begun + 1 /\ mapped' = begun + 1
  /\ Now(a, "invite", "start", "none", begun + 1, 0, 0, 0)
  /\ UNCHANGED <<answer, controls, header, log, mixed>>

StartOverDone(a) ==
  /\ actor[a].pc = "idle" /\ holder = NoActor /\ holder' = a
  /\ mapped # 0 /\ begun < MaxStarts /\ begun' = begun + 1 /\ mapped' = 0
  /\ \/ /\ answer[mapped] = 0 /\ Now(a, "invite", "start", "none", mapped, 0, 0, 0)
        /\ mixed' = mixed
     \/ /\ answer[mapped] # 0
        /\ Now(a, "method", "start", "BYE", mapped, answer[mapped], 0, 0)
        /\ Mixes(a, answer[mapped])
  /\ UNCHANGED <<answer, controls, header, log>>

StartFailsDone(a) ==
  /\ actor[a].pc = "invite" /\ holder' = NoActor
  /\ Now(a, "idle", "none", "none", 0, 0, 0, 0)
  /\ UNCHANGED <<mapped, answer, controls, header, begun, log, mixed>>

AcceptedDone(a) ==
  /\ actor[a].pc = "invite"
  /\ answer' = [answer EXCEPT ![actor[a].obj] = begun]
  /\ Now(a, "method", actor[a].op, "ACK", actor[a].obj, begun, actor[a].no, actor[a].cmd)
  /\ begun # 0 => Mixes(a, begun)
  /\ UNCHANGED <<holder, mapped, controls, header, begun, log>>

StopDone(a) ==
  /\ actor[a].pc = "idle" /\ holder = NoActor /\ holder' = a
  /\ mapped # 0 /\ answer[mapped] # 0 /\ mapped' = 0
  /\ Now(a, "method", "stop", "BYE", mapped, answer[mapped], 0, 0)
  /\ Mixes(a, answer[mapped])
  /\ UNCHANGED <<answer, controls, header, begun, log>>

StopUnansweredDone(a) ==
  /\ mapped # 0 /\ mapped' = 0
  /\ UNCHANGED <<holder, answer, controls, header, begun, actor, log, mixed>>

ControlDone(a) ==
  /\ actor[a].pc = "idle" /\ mapped # 0 /\ answer[mapped] # 0
  /\ \/ Now(a, "method", "control", "INFO", mapped, answer[mapped], 0, 0)
     \/ Now(a, "count", "control", "INFO", mapped, answer[mapped], 0, 0)
  /\ Mixes(a, answer[mapped])
  /\ UNCHANGED <<holder, mapped, answer, controls, header, begun, log>>

CountLoadsDone(a) ==
  /\ actor[a].pc = "count"
  /\ Now(a, "counted", actor[a].op, actor[a].line, actor[a].obj, actor[a].dlg, actor[a].no,
         controls[actor[a].obj] + 1)
  /\ UNCHANGED <<holder, mapped, answer, controls, header, begun, log, mixed>>

CountStoresDone(a) ==
  /\ actor[a].pc = "counted"
  /\ controls' = [controls EXCEPT ![actor[a].obj] = actor[a].cmd]
  /\ \/ Now(a, "idle", "none", "none", 0, 0, 0, 0)
     \/ Now(a, "method", actor[a].op, actor[a].line, actor[a].obj, actor[a].dlg, actor[a].no,
            actor[a].cmd)
  /\ UNCHANGED <<holder, mapped, answer, header, begun, log, mixed>>

SetMethodDone(a) ==
  /\ actor[a].pc = "method"
  /\ \E d \in Dialogs :
       /\ d = IF actor[a].op = "control" THEN answer[actor[a].obj] ELSE actor[a].dlg
       /\ header' = [header EXCEPT ![d].method = actor[a].line]
       /\ Now(a, IF actor[a].line # "ACK" THEN "load" ELSE "send", actor[a].op, actor[a].line,
              actor[a].obj, d, actor[a].no, actor[a].cmd)
       /\ mixed \subseteq mixed' /\ (d = actor[a].dlg \/ d \in mixed')
  /\ UNCHANGED <<holder, mapped, answer, controls, begun, log>>

LoadNoDone(a) ==
  /\ actor[a].pc = "load"
  /\ Now(a, "store", actor[a].op, actor[a].line, actor[a].obj, actor[a].dlg,
         header[actor[a].dlg].no, actor[a].cmd)
  /\ UNCHANGED <<holder, mapped, answer, controls, header, begun, log, mixed>>

StoreNoDone(a) ==
  /\ actor[a].pc = "store"
  /\ header' = [header EXCEPT ![actor[a].dlg].no = actor[a].no + 1]
  /\ Now(a, "send", actor[a].op, actor[a].line, actor[a].obj, actor[a].dlg, actor[a].no,
         actor[a].cmd)
  /\ UNCHANGED <<holder, mapped, answer, controls, begun, log, mixed>>

SendTextDone(a) ==
  /\ actor[a].pc = "send"
  /\ \/ log' = log
     \/ log' = [log EXCEPT ![actor[a].dlg] = Append(log[actor[a].dlg], Made(a))]
  /\ \/ /\ actor[a].op = "start" /\ actor[a].line = "BYE" /\ holder' = holder
        /\ Now(a, "invite", "start", "none", actor[a].obj, 0, 0, 0)
     \/ /\ actor[a].op # "start" \/ actor[a].line # "BYE"
        /\ holder' = IF holder = a THEN NoActor ELSE holder
        /\ Now(a, "idle", "none", "none", 0, 0, 0, 0)
  /\ UNCHANGED <<mapped, answer, controls, header, begun, mixed>>

\* An actor that sends an INVITE.
LEMMA MakeInvite ==
  ASSUME NEW obj \in Nat
  PROVE  Fields([[Idle EXCEPT !.pc = "invite", !.obj = obj] EXCEPT !.op = "start"],
                "invite", "start", "none", obj, 0, 0, 0)
<1> SUFFICES ASSUME NEW r, r = Idle, NEW n, n = [[r EXCEPT !.pc = "invite", !.obj = obj] EXCEPT !.op = "start"]
             PROVE  Fields(n, "invite", "start", "none", obj, 0, 0, 0)
  OBVIOUS
<1> QED
  BY IdleIs DEF Fields, ActorStates

\* An actor that makes a BYE.
LEMMA ByeIs ==
  ASSUME NEW obj \in Nat, NEW dlg \in Nat
  PROVE  Fields([Idle EXCEPT !.pc = "method", !.line = "BYE", !.obj = obj, !.dlg = dlg],
                "method", "none", "BYE", obj, dlg, 0, 0)
<1> SUFFICES ASSUME NEW r, r = Idle, NEW n,
                    n = [r EXCEPT !.pc = "method", !.line = "BYE", !.obj = obj, !.dlg = dlg]
             PROVE  Fields(n, "method", "none", "BYE", obj, dlg, 0, 0)
  OBVIOUS
<1> QED
  BY IdleIs DEF Fields, ActorStates, Lines

\* An actor that makes a BYE in a section of the mutex.
LEMMA MakeBye ==
  ASSUME NEW obj \in Nat, NEW dlg \in Nat, NEW op \in {"start", "stop"}
  PROVE  Fields([[Idle EXCEPT !.pc = "method", !.line = "BYE", !.obj = obj, !.dlg = dlg] EXCEPT !.op = op],
                "method", op, "BYE", obj, dlg, 0, 0)
<1> SUFFICES ASSUME NEW r, r = Idle, NEW n,
                    n = [[r EXCEPT !.pc = "method", !.line = "BYE", !.obj = obj, !.dlg = dlg]
                          EXCEPT !.op = op]
             PROVE  Fields(n, "method", op, "BYE", obj, dlg, 0, 0)
  OBVIOUS
<1> QED
  BY IdleIs DEF Fields, ActorStates, Lines

\* An actor that makes a command.
LEMMA MakeInfo ==
  ASSUME NEW obj \in Nat, NEW dlg \in Nat, NEW place \in {"method", "count"}
  PROVE  Fields([Idle EXCEPT !.pc = place, !.op = "control", !.line = "INFO", !.obj = obj, !.dlg = dlg],
                place, "control", "INFO", obj, dlg, 0, 0)
<1> SUFFICES ASSUME NEW r, r = Idle, NEW n,
                    n = [r EXCEPT !.pc = place, !.op = "control", !.line = "INFO", !.obj = obj, !.dlg = dlg]
             PROVE  Fields(n, place, "control", "INFO", obj, dlg, 0, 0)
  OBVIOUS
<1> QED
  BY IdleIs DEF Fields, ActorStates, Lines

\* A dialog that is not mixed is one that nobody else makes a request in.
LEMMA MixesIs ==
  ASSUME HistTables, NEW a \in Actors, NEW d \in Dialogs, BeginsIn(d, a)
  PROVE  Mixes(a, d)
BY DEF BeginsIn, Mixes, Dialogs

\* A start writes what StartFreshDone says.
LEMMA StartFreshIs ==
  ASSUME HistTables, NEW a \in Actors, ActorOK(a), StartFresh(a)
  PROVE  StartFreshDone(a)
<1>1. Fields([[Idle EXCEPT !.pc = "invite", !.obj = begun + 1] EXCEPT !.op = "start"],
             "invite", "start", "none", begun + 1, 0, 0, 0)
  <2>1. begun + 1 \in Nat
    BY HistoryAssumption DEF HistTables, ObjectsTyped
  <2> QED
    BY <2>1, MakeInvite
<1>2. actor' = [actor EXCEPT ![a] = [[Idle EXCEPT !.pc = "invite", !.obj = begun + 1] EXCEPT !.op = "start"]]
  BY DEF StartFresh, Section
<1>3. Now(a, "invite", "start", "none", begun + 1, 0, 0, 0)
  BY <1>1, <1>2, NowIs
<1> QED
  BY <1>3 DEF StartFresh, Section, ActorAt, StartFreshDone

\* A start over a history writes what StartOverDone says.
LEMMA StartOverIs ==
  ASSUME HistTables, NEW a \in Actors, ActorOK(a), StartOver(a)
  PROVE  StartOverDone(a)
<1>0. mapped \in Dialogs /\ mapped \in Nat /\ answer[mapped] \in Nat /\ answer[mapped] \in 0..MaxStarts
  BY HistoryAssumption DEF HistTables, ObjectsTyped, StartOver, Dialogs
<1>1. CASE answer[mapped] = 0
  <2>1. Bye(mapped) = Idle
    BY <1>1 DEF Bye
  <2>2. Fields([[Idle EXCEPT !.pc = "invite", !.obj = mapped] EXCEPT !.op = "start"],
               "invite", "start", "none", mapped, 0, 0, 0)
    BY MakeInvite, <1>0
  <2>3. actor' = [actor EXCEPT ![a] = [[Idle EXCEPT !.pc = "invite", !.obj = mapped] EXCEPT !.op = "start"]]
    BY <2>1 DEF StartOver, Section
  <2>4. Now(a, "invite", "start", "none", mapped, 0, 0, 0)
    BY <2>2, <2>3, NowIs
  <2>5. mixed' = mixed
    BY <2>1, IdleIs DEF StartOver, BeginsIn, Fields
  <2> QED
    BY <1>1, <2>4, <2>5 DEF StartOver, Section, ActorAt, StartOverDone
<1>2. CASE answer[mapped] # 0
  <2> DEFINE bye == [Idle EXCEPT !.pc = "method", !.line = "BYE", !.obj = mapped, !.dlg = answer[mapped]]
  <2>1. Bye(mapped) = bye
    BY <1>2, <1>0 DEF Bye, StartOver
  <2>2. bye # Idle /\ bye.dlg = answer[mapped]
    <3>1. Fields(bye, "method", "none", "BYE", mapped, answer[mapped], 0, 0)
      BY ByeIs, <1>0
    <3> HIDE DEF bye
    <3> QED
      BY <3>1, IdleIs DEF Fields
  <2>3. Fields([bye EXCEPT !.op = "start"], "method", "start", "BYE", mapped, answer[mapped], 0, 0)
    BY MakeBye, <1>0
  <2>4. actor' = [actor EXCEPT ![a] = [bye EXCEPT !.op = "start"]] /\ BeginsIn(answer[mapped], a)
    <3> HIDE DEF bye
    <3> QED
      BY <2>1, <2>2 DEF StartOver, Section
  <2> HIDE DEF bye
  <2>5. Now(a, "method", "start", "BYE", mapped, answer[mapped], 0, 0)
    BY <2>3, <2>4, NowIs
  <2>6. Mixes(a, answer[mapped])
    BY <2>4, <1>0, <1>2, MixesIs DEF Dialogs
  <2> QED
    BY <1>2, <2>5, <2>6 DEF StartOver, Section, ActorAt, StartOverDone
<1> QED
  BY <1>1, <1>2

\* A failed INVITE writes what StartFailsDone says.
LEMMA StartFailsIs ==
  ASSUME HistTables, NEW a \in Actors, ActorOK(a), StartFails(a)
  PROVE  StartFailsDone(a)
<1>1. Now(a, "idle", "none", "none", 0, 0, 0, 0)
  BY IdleIs, NowIs DEF StartFails
<1> QED
  BY <1>1 DEF StartFails, ActorAt, StartFailsDone

\* An answered INVITE writes what AcceptedDone says.
LEMMA AcceptedIs ==
  ASSUME HistTables, NEW a \in Actors, ActorOK(a), Accepted(a)
  PROVE  AcceptedDone(a)
<1>0. begun \in Nat /\ begun \in 0..MaxStarts
  BY HistoryAssumption DEF HistTables, ObjectsTyped
<1>1. actor[a] \in ActorStates
  BY DEF HistTables, ObjectsTyped
<1> DEFINE n == [actor[a] EXCEPT !.pc = "method", !.line = "ACK", !.dlg = begun]
<1>2. Fields(n, "method", actor[a].op, "ACK", actor[a].obj, begun, actor[a].no, actor[a].cmd)
  BY <1>0, <1>1 DEF ActorStates, Fields, Lines
<1>3. actor' = [actor EXCEPT ![a] = n]
  BY DEF Accepted
<1> HIDE DEF n
<1>4. Now(a, "method", actor[a].op, "ACK", actor[a].obj, begun, actor[a].no, actor[a].cmd)
  BY <1>2, <1>3, NowIs
<1>5. begun # 0 => Mixes(a, begun)
  BY <1>0, MixesIs DEF Accepted, Dialogs
<1> QED
  BY <1>0, <1>4, <1>5 DEF Accepted, ActorAt, AcceptedDone

\* A stop writes what StopDone says.
LEMMA StopIs ==
  ASSUME HistTables, NEW a \in Actors, ActorOK(a), Stop(a)
  PROVE  StopDone(a)
<1>0. mapped \in Dialogs /\ mapped \in Nat /\ answer[mapped] \in Nat /\ answer[mapped] \in Dialogs
  <2>1. mapped \in Dialogs /\ answer[mapped] # 0
    BY HistoryAssumption DEF HistTables, ObjectsTyped, Stop, Dialogs
  <2>2. answer[mapped] \in 0..begun
    BY <2>1 DEF HistTables, ObjectsTyped
  <2> QED
    BY <2>1, <2>2, HistoryAssumption DEF HistTables, ObjectsTyped, Dialogs
<1> DEFINE bye == [Idle EXCEPT !.pc = "method", !.line = "BYE", !.obj = mapped, !.dlg = answer[mapped]]
<1>1. Bye(mapped) = bye
  BY DEF Bye, Stop
<1>2. Fields([bye EXCEPT !.op = "stop"], "method", "stop", "BYE", mapped, answer[mapped], 0, 0)
  BY MakeBye, <1>0
<1> HIDE DEF bye
<1>3. actor' = [actor EXCEPT ![a] = [bye EXCEPT !.op = "stop"]]
  BY <1>1 DEF Stop, Section
<1>4. Now(a, "method", "stop", "BYE", mapped, answer[mapped], 0, 0)
  BY <1>2, <1>3, NowIs
<1>5. Mixes(a, answer[mapped])
  BY <1>0, MixesIs DEF Stop
<1> QED
  BY <1>4, <1>5 DEF Stop, Section, ActorAt, StopDone

\* A stop of what has no answer writes what StopUnansweredDone says.
LEMMA StopUnansweredIs ==
  ASSUME HistTables, NEW a \in Actors, ActorOK(a), StopUnanswered(a)
  PROVE  StopUnansweredDone(a)
BY DEF StopUnanswered, StopUnansweredDone

\* A command writes what ControlDone says.
LEMMA ControlIs ==
  ASSUME HistTables, NEW a \in Actors, ActorOK(a), Control(a)
  PROVE  ControlDone(a)
<1>0. mapped \in Nat /\ answer[mapped] \in Nat /\ answer[mapped] \in Dialogs
  BY HistoryAssumption DEF HistTables, ObjectsTyped, Control, Dialogs
<1>1. PICK place \in {"method", "count"} :
        actor' = [actor EXCEPT ![a] = [Idle EXCEPT !.pc = place, !.op = "control", !.line = "INFO",
                                                   !.obj = mapped, !.dlg = answer[mapped]]]
  BY DEF Control
<1>2. Now(a, place, "control", "INFO", mapped, answer[mapped], 0, 0)
  BY <1>0, <1>1, MakeInfo, NowIs
<1>3. Mixes(a, answer[mapped])
  BY <1>0, MixesIs DEF Control
<1> QED
  BY <1>2, <1>3 DEF Control, ActorAt, ControlDone

\* The load of the counter writes what CountLoadsDone says.
LEMMA CountLoadsIs ==
  ASSUME HistTables, NEW a \in Actors, ActorOK(a), CountLoads(a)
  PROVE  CountLoadsDone(a)
<1>0. controls[actor[a].obj] + 1 \in Nat
  <2>1. controls[actor[a].obj] \in Nat
    BY HistoryAssumption DEF HistTables, ObjectsTyped, ActorOK, Making, CountLoads, ActorAt,
      Dialogs
  <2> QED
    BY <2>1
<1>1. actor[a] \in ActorStates
  BY DEF HistTables, ObjectsTyped
<1> DEFINE n == [actor[a] EXCEPT !.pc = "counted", !.cmd = controls[actor[a].obj] + 1]
<1>2. Fields(n, "counted", actor[a].op, actor[a].line, actor[a].obj, actor[a].dlg, actor[a].no,
           controls[actor[a].obj] + 1)
  BY <1>0, <1>1 DEF ActorStates, Fields, Lines
<1>3. actor' = [actor EXCEPT ![a] = n]
  BY DEF CountLoads
<1> HIDE DEF n
<1>4. Now(a, "counted", actor[a].op, actor[a].line, actor[a].obj, actor[a].dlg, actor[a].no,
           controls[actor[a].obj] + 1)
  BY <1>2, <1>3, NowIs
<1> QED
  BY <1>0, <1>4 DEF CountLoads, ActorAt, CountLoadsDone

\* The store of the counter writes what CountStoresDone says.
LEMMA CountStoresIs ==
  ASSUME HistTables, NEW a \in Actors, ActorOK(a), CountStores(a)
  PROVE  CountStoresDone(a)
<1>1. actor[a] \in ActorStates
  BY DEF HistTables, ObjectsTyped
<1> DEFINE n == [actor[a] EXCEPT !.pc = "method"]
<1>2. Fields(n, "method", actor[a].op, actor[a].line, actor[a].obj, actor[a].dlg, actor[a].no, actor[a].cmd)
  BY <1>1 DEF ActorStates, Fields
<1>3. actor' = [actor EXCEPT ![a] = n] \/ actor' = [actor EXCEPT ![a] = Idle]
  BY DEF CountStores
<1> HIDE DEF n
<1>4. \/ Now(a, "idle", "none", "none", 0, 0, 0, 0)
      \/ Now(a, "method", actor[a].op, actor[a].line, actor[a].obj, actor[a].dlg, actor[a].no, actor[a].cmd)
  BY <1>2, <1>3, NowIs, IdleIs
<1> QED
  BY <1>4 DEF CountStores, ActorAt, CountStoresDone

\* The write of the method is what SetMethodDone says.
LEMMA SetMethodIs ==
  ASSUME HistTables, NEW a \in Actors, ActorOK(a), SetMethod(a)
  PROVE  SetMethodDone(a)
<1> DEFINE d == IF actor[a].op = "control" THEN answer[actor[a].obj] ELSE actor[a].dlg
<1>0. d \in Nat /\ d \in Dialogs
  BY HistoryAssumption DEF HistTables, ObjectsTyped, ActorOK, Making, SetMethod, ActorAt, Dialogs
<1> HIDE DEF d
<1>1. actor[a] \in ActorStates
  BY DEF HistTables, ObjectsTyped
<1> DEFINE place == IF actor[a].line # "ACK" THEN "load" ELSE "send"
           n == [actor[a] EXCEPT !.pc = place, !.dlg = d]
<1>2. place \in {"load", "send"}
  OBVIOUS
<1>3. actor' = [actor EXCEPT ![a] = n]
  BY DEF SetMethod, Numbered, d
<1> HIDE DEF place
<1>4. Fields(n, place, actor[a].op, actor[a].line, actor[a].obj, d, actor[a].no, actor[a].cmd)
  BY <1>0, <1>1, <1>2 DEF ActorStates, Fields
<1> HIDE DEF n
<1>5. Now(a, place, actor[a].op, actor[a].line, actor[a].obj, d, actor[a].no, actor[a].cmd)
  BY <1>3, <1>4, NowIs
<1>6. /\ header' = [header EXCEPT ![d].method = actor[a].line]
      /\ mixed \subseteq mixed' /\ (d = actor[a].dlg \/ d \in mixed')
  BY DEF SetMethod, d
<1> QED
  BY <1>0, <1>5, <1>6 DEF SetMethod, ActorAt, d, place, SetMethodDone

\* The load of the number writes what LoadNoDone says.
LEMMA LoadNoIs ==
  ASSUME HistTables, NEW a \in Actors, ActorOK(a), LoadNo(a)
  PROVE  LoadNoDone(a)
<1>0. header[actor[a].dlg].no \in Nat
  BY HistoryAssumption DEF HistTables, ObjectsTyped, ActorOK, Making, LoadNo, ActorAt, Dialogs
<1>1. actor[a] \in ActorStates
  BY DEF HistTables, ObjectsTyped
<1> DEFINE n == [actor[a] EXCEPT !.pc = "store", !.no = header[actor[a].dlg].no]
<1>2. Fields(n, "store", actor[a].op, actor[a].line, actor[a].obj, actor[a].dlg,
           header[actor[a].dlg].no, actor[a].cmd)
  BY <1>0, <1>1 DEF ActorStates, Fields, Lines
<1>3. actor' = [actor EXCEPT ![a] = n]
  BY DEF LoadNo
<1> HIDE DEF n
<1>4. Now(a, "store", actor[a].op, actor[a].line, actor[a].obj, actor[a].dlg,
           header[actor[a].dlg].no, actor[a].cmd)
  BY <1>2, <1>3, NowIs
<1> QED
  BY <1>0, <1>4 DEF LoadNo, ActorAt, LoadNoDone

\* The store of the number writes what StoreNoDone says.
LEMMA StoreNoIs ==
  ASSUME HistTables, NEW a \in Actors, ActorOK(a), StoreNo(a)
  PROVE  StoreNoDone(a)
<1>1. actor[a] \in ActorStates
  BY DEF HistTables, ObjectsTyped
<1> DEFINE n == [actor[a] EXCEPT !.pc = "send"]
<1>2. Fields(n, "send", actor[a].op, actor[a].line, actor[a].obj, actor[a].dlg, actor[a].no, actor[a].cmd)
  BY <1>1 DEF ActorStates, Fields, Lines
<1>3. actor' = [actor EXCEPT ![a] = n]
  BY DEF StoreNo
<1> HIDE DEF n
<1>4. Now(a, "send", actor[a].op, actor[a].line, actor[a].obj, actor[a].dlg, actor[a].no, actor[a].cmd)
  BY <1>2, <1>3, NowIs
<1> QED
  BY <1>4 DEF StoreNo, ActorAt, StoreNoDone

\* The rendering and the sending write what SendTextDone says.
LEMMA SendTextIs ==
  ASSUME HistTables, NEW a \in Actors, ActorOK(a), SendText(a)
  PROVE  SendTextDone(a)
<1>1. actor[a] \in ActorStates
  BY DEF HistTables, ObjectsTyped
<1>2. log' = log \/ log' = [log EXCEPT ![actor[a].dlg] = Append(log[actor[a].dlg], Made(a))]
  BY DEF SendText, Made
<1>3. CASE actor[a].op = "start" /\ actor[a].line = "BYE"
  <2> DEFINE n == [Idle EXCEPT !.pc = "invite", !.op = "start", !.obj = actor[a].obj]
  <2>1. Follows(a) = n
    BY <1>3 DEF Follows
  <2>2. Fields(n, "invite", "start", "none", actor[a].obj, 0, 0, 0) /\ n # Idle
    <3> SUFFICES ASSUME NEW r, r = Idle, NEW m,
                        m = [r EXCEPT !.pc = "invite", !.op = "start", !.obj = actor[a].obj]
                 PROVE  Fields(m, "invite", "start", "none", actor[a].obj, 0, 0, 0) /\ m # Idle
      OBVIOUS
    <3> QED
      BY IdleIs, <1>1 DEF Fields, ActorStates
  <2> HIDE DEF n
  <2>3. Now(a, "invite", "start", "none", actor[a].obj, 0, 0, 0)
    BY <2>1, <2>2, NowIs DEF SendText
  <2>4. holder' = holder
    BY <2>1, <2>2 DEF SendText, EndsSection
  <2> QED
    BY <1>2, <1>3, <2>3, <2>4 DEF SendText, ActorAt, SendTextDone
<1>4. CASE actor[a].op # "start" \/ actor[a].line # "BYE"
  <2>1. Follows(a) = Idle
    BY <1>4 DEF Follows
  <2>2. Now(a, "idle", "none", "none", 0, 0, 0, 0)
    BY <2>1, IdleIs, NowIs DEF SendText
  <2>3. holder' = IF holder = a THEN NoActor ELSE holder
    BY <2>1 DEF SendText, EndsSection
  <2> QED
    BY <1>2, <1>4, <2>2, <2>3 DEF SendText, ActorAt, SendTextDone
<1> QED
  BY <1>3, <1>4

\* A step is one of those, field by field.
LEMMA StepIs ==
  ASSUME HistInv, [HistoryNext]_requestVars
  PROVE  \/ UNCHANGED requestVars
         \/ \E a \in Actors :
              \/ StartFreshDone(a)
              \/ StartOverDone(a)
              \/ StartFailsDone(a)
              \/ AcceptedDone(a)
              \/ StopDone(a)
              \/ StopUnansweredDone(a)
              \/ ControlDone(a)
              \/ CountLoadsDone(a)
              \/ CountStoresDone(a)
              \/ SetMethodDone(a)
              \/ LoadNoDone(a)
              \/ StoreNoDone(a)
              \/ SendTextDone(a)
<1>1. ASSUME NEW a \in Actors, StartFresh(a) PROVE StartFreshDone(a)
  BY <1>1, StartFreshIs DEF HistInv
<1>2. ASSUME NEW a \in Actors, StartOver(a) PROVE StartOverDone(a)
  BY <1>2, StartOverIs DEF HistInv
<1>3. ASSUME NEW a \in Actors, StartFails(a) PROVE StartFailsDone(a)
  BY <1>3, StartFailsIs DEF HistInv
<1>4. ASSUME NEW a \in Actors, Accepted(a) PROVE AcceptedDone(a)
  BY <1>4, AcceptedIs DEF HistInv
<1>5. ASSUME NEW a \in Actors, Stop(a) PROVE StopDone(a)
  BY <1>5, StopIs DEF HistInv
<1>6. ASSUME NEW a \in Actors, StopUnanswered(a) PROVE StopUnansweredDone(a)
  BY <1>6, StopUnansweredIs DEF HistInv
<1>7. ASSUME NEW a \in Actors, Control(a) PROVE ControlDone(a)
  BY <1>7, ControlIs DEF HistInv
<1>8. ASSUME NEW a \in Actors, CountLoads(a) PROVE CountLoadsDone(a)
  BY <1>8, CountLoadsIs DEF HistInv
<1>9. ASSUME NEW a \in Actors, CountStores(a) PROVE CountStoresDone(a)
  BY <1>9, CountStoresIs DEF HistInv
<1>10. ASSUME NEW a \in Actors, SetMethod(a) PROVE SetMethodDone(a)
  BY <1>10, SetMethodIs DEF HistInv
<1>11. ASSUME NEW a \in Actors, LoadNo(a) PROVE LoadNoDone(a)
  BY <1>11, LoadNoIs DEF HistInv
<1>12. ASSUME NEW a \in Actors, StoreNo(a) PROVE StoreNoDone(a)
  BY <1>12, StoreNoIs DEF HistInv
<1>13. ASSUME NEW a \in Actors, SendText(a) PROVE SendTextDone(a)
  BY <1>13, SendTextIs DEF HistInv
<1> QED
  BY <1>1, <1>2, <1>3, <1>4, <1>5, <1>6, <1>7, <1>8, <1>9, <1>10, <1>11, <1>12, <1>13
    DEF HistoryNext

\* What is a number is one.
Numeric ==
  /\ \A d \in Dialogs :
       /\ header[d].no \in Nat /\ controls[d] \in Nat /\ Len(log[d]) \in Nat
       /\ \A i \in 1..Len(log[d]) : log[d][i].no \in Nat /\ log[d][i].cmd \in Nat
  /\ \A a \in Actors : actor[a].no \in Nat /\ actor[a].cmd \in Nat

\* The tables hold numbers.
LEMMA NumericIs == HistTables => Numeric
<1> SUFFICES ASSUME HistTables PROVE Numeric
  OBVIOUS
<1>1. ASSUME NEW d \in Dialogs PROVE header[d].no \in Nat /\ controls[d] \in Nat
  BY DEF HistTables
<1>2. ASSUME NEW d \in Dialogs
      PROVE  Len(log[d]) \in Nat /\ \A i \in 1..Len(log[d]) : log[d][i].no \in Nat /\ log[d][i].cmd \in Nat
  <2>1. log[d] \in Seq(Requests)
    BY DEF HistTables
  <2>2. Len(log[d]) \in Nat /\ \A i \in 1..Len(log[d]) : log[d][i] \in Requests
    BY <2>1
  <2> QED
    BY <2>2 DEF Requests
<1>3. ASSUME NEW a \in Actors PROVE actor[a].no \in Nat /\ actor[a].cmd \in Nat
  BY DEF HistTables, ActorStates
<1> QED
  BY <1>1, <1>2, <1>3 DEF Numeric

\* Who makes a request has a dialog and an object.
LEMMA MakersDialog ==
  ASSUME HistInv, NEW a \in Actors, actor[a].pc \in Making
  PROVE  actor[a].dlg \in Dialogs /\ actor[a].obj \in Dialogs
<1>1. actor[a].dlg # 0 /\ actor[a].obj # 0
  BY DEF HistInv, ActorOK
<1>2. actor[a].dlg \in 0..begun /\ actor[a].obj \in 0..begun /\ begun \in 0..MaxStarts
  BY DEF HistInv, HistTables, ObjectsTyped
<1> QED
  BY <1>1, <1>2, HistoryAssumption DEF Dialogs

\* The steps that neither write a header nor send.
Quiet(a) ==
  \/ StartFreshDone(a) \/ StartOverDone(a) \/ StartFailsDone(a) \/ AcceptedDone(a)
  \/ StopDone(a) \/ StopUnansweredDone(a)
  \/ ControlDone(a) \/ CountLoadsDone(a) \/ CountStoresDone(a) \/ LoadNoDone(a)

\* A step that writes no header and sends nothing.
LEMMA QuietIs ==
  ASSUME HistInv, NEW a \in Actors, Quiet(a)
  PROVE  header' = header /\ log' = log /\ mixed \subseteq mixed'
<1>1. actor[a].pc = "invite" => begun # 0
  BY DEF HistInv, FreshStart, Unanswered, ActorOK
<1> USE DEF Quiet
<1>2. CASE StartFreshDone(a)
  BY <1>2 DEF StartFreshDone
<1>3. CASE StartOverDone(a)
  BY <1>3 DEF StartOverDone, Mixes
<1>4. CASE StartFailsDone(a)
  BY <1>4 DEF StartFailsDone
<1>5. CASE AcceptedDone(a)
  BY <1>1, <1>5 DEF AcceptedDone, Mixes
<1>6. CASE StopDone(a)
  BY <1>6 DEF StopDone, Mixes
<1>7. CASE StopUnansweredDone(a)
  BY <1>7 DEF StopUnansweredDone
<1>8. CASE ControlDone(a)
  BY <1>8 DEF ControlDone, Mixes
<1>9. CASE CountLoadsDone(a)
  BY <1>9 DEF CountLoadsDone
<1>10. CASE CountStoresDone(a)
  BY <1>10 DEF CountStoresDone
<1>11. CASE LoadNoDone(a)
  BY <1>11 DEF LoadNoDone
<1> QED
  BY <1>2, <1>3, <1>4, <1>5, <1>6, <1>7, <1>8, <1>9, <1>10, <1>11

\* A send adds one request to the end of the log of its dialog.
LEMMA SentIs ==
  ASSUME HistInv, NEW a \in Actors, SendTextDone(a), log' # log
  PROVE  LET d == actor[a].dlg
         IN  /\ d \in Dialogs /\ Len(log[d]) \in Nat /\ Len(log'[d]) = Len(log[d]) + 1
             /\ \A i \in 1..Len(log[d]) : log'[d][i] = log[d][i]
             /\ log'[d][Len(log[d]) + 1] = Made(a)
             /\ \A e \in Dialogs : e # d => log'[e] = log[e]
<1>1. actor[a].dlg \in Dialogs
  BY MakersDialog DEF SendTextDone, Making
<1>2. log[actor[a].dlg] \in Seq(Requests) /\ log \in [Dialogs -> Seq(Requests)]
  BY <1>1 DEF HistInv, HistTables
<1>3. log' = [log EXCEPT ![actor[a].dlg] = Append(log[actor[a].dlg], Made(a))]
  BY DEF SendTextDone
<1> DEFINE r == Made(a)
           s == log[actor[a].dlg]
           t == Append(s, r)
<1>4. t = Append(s, r) /\ s \in Seq(Requests)
  BY <1>2
<1> HIDE DEF r, s
<1>5. Len(s) \in Nat /\ Len(t) = Len(s) + 1
      /\ (\A i \in 1..Len(s) : t[i] = s[i]) /\ t[Len(s) + 1] = r
  <2> SUFFICES ASSUME NEW S, s \in Seq(S)
               PROVE  /\ Len(s) \in Nat /\ Len(t) = Len(s) + 1
                      /\ (\A i \in 1..Len(s) : t[i] = s[i]) /\ t[Len(s) + 1] = r
    BY <1>4
  <2> QED
    OBVIOUS
<1> HIDE DEF t
<1>6. log'[actor[a].dlg] = t /\ \A e \in Dialogs : e # actor[a].dlg => log'[e] = log[e]
  BY <1>1, <1>2, <1>3 DEF t, s, r
<1> QED
  BY <1>1, <1>5, <1>6 DEF s, r
\* A step of one actor leaves what another has in a dialog that is not mixed.
LEMMA OthersKeep ==
  ASSUME HistInv, NEW a \in Actors,
         Quiet(a) \/ SetMethodDone(a) \/ StoreNoDone(a) \/ SendTextDone(a),
         NEW b \in Actors, b # a
  PROVE  /\ actor'[b] = actor[b] /\ mixed \subseteq mixed'
         /\ actor[b].dlg \notin mixed' \cup {0} =>
              /\ header'[actor[b].dlg] = header[actor[b].dlg] /\ log'[actor[b].dlg] = log[actor[b].dlg]
              /\ actor[b].op = "control" => controls'[actor[b].obj] = controls[actor[b].obj]
<1>1. actor[b].dlg \in 0..begun /\ actor[b].obj \in 0..begun /\ begun \in 0..MaxStarts
  BY DEF HistInv, HistTables, ObjectsTyped
<1>2. actor[b].dlg # 0 => actor[b].dlg \in Dialogs
  BY <1>1, HistoryAssumption DEF Dialogs
<1>3. actor[b].dlg \notin mixed \cup {0} => actor[a].dlg # actor[b].dlg
  BY DEF HistInv, LoneInv
<1>4. header \in [Dialogs -> [method : Lines \cup {"INVITE"}, no : Nat]] /\ log \in [Dialogs -> Seq(Requests)]
  BY DEF HistInv, HistTables
<1>5. CASE Quiet(a) /\ ~CountStoresDone(a)
  <2>1. actor'[b] = actor[b]
    BY <1>5 DEF Quiet, StartFreshDone, StartOverDone, StartFailsDone, AcceptedDone, StopDone,
      StopUnansweredDone, ControlDone, CountLoadsDone, LoadNoDone, Now
  <2>2. controls' = controls
    BY <1>5 DEF Quiet, StartFreshDone, StartOverDone, StartFailsDone, AcceptedDone, StopDone,
      StopUnansweredDone, ControlDone, CountLoadsDone, LoadNoDone
  <2> QED
    BY <1>5, <2>1, <2>2, QuietIs
<1>6. CASE CountStoresDone(a)
  <2>1. actor'[b] = actor[b]
    BY <1>6 DEF CountStoresDone, Now
  <2>2. header' = header /\ log' = log /\ mixed \subseteq mixed' /\ mixed' = mixed
    BY <1>6, QuietIs DEF Quiet, CountStoresDone
  <2>3. ASSUME actor[b].dlg \notin mixed \cup {0}, actor[b].op = "control"
        PROVE  controls'[actor[b].obj] = controls[actor[b].obj]
    <3>1. WorksInPlace(a) /\ WorksInPlace(b)
      BY <1>6, <2>3 DEF WorksInPlace, Early, CountStoresDone, HistInv, ActorOK
    <3>2. actor[b].obj # actor[a].obj
      BY <1>3, <2>3, <3>1 DEF HistInv, OnePlace
    <3>3. controls' = [controls EXCEPT ![actor[a].obj] = actor[a].cmd]
      BY <1>6 DEF CountStoresDone
    <3>4. controls \in [Dialogs -> Nat]
      BY DEF HistInv, HistTables
    <3>5. actor[b].obj \in Dialogs
      <4>1. actor[b].obj # 0
        BY <2>3 DEF HistInv, ActorOK
      <4> QED
        BY <1>1, <4>1, HistoryAssumption DEF Dialogs
    <3> QED
      BY <3>2, <3>3, <3>4, <3>5
  <2> QED
    BY <2>1, <2>2, <2>3
<1>7. CASE SetMethodDone(a)
  <2>1. PICK d \in Dialogs :
          /\ header' = [header EXCEPT ![d].method = actor[a].line]
          /\ mixed \subseteq mixed' /\ (d = actor[a].dlg \/ d \in mixed')
    BY <1>7 DEF SetMethodDone
  <2>2. actor'[b] = actor[b] /\ log' = log /\ controls' = controls
    BY <1>7 DEF SetMethodDone, Now
  <2>3. actor[b].dlg \notin mixed' \cup {0} => d # actor[b].dlg
    BY <1>3, <2>1
  <2> QED
    BY <1>2, <1>4, <2>1, <2>2, <2>3
<1>8. CASE StoreNoDone(a)
  <2>1. actor'[b] = actor[b] /\ log' = log /\ controls' = controls /\ mixed' = mixed
    BY <1>8 DEF StoreNoDone, Now
  <2>2. header' = [header EXCEPT ![actor[a].dlg].no = actor[a].no + 1]
    BY <1>8 DEF StoreNoDone
  <2> QED
    BY <1>2, <1>3, <1>4, <2>1, <2>2
<1>9. CASE SendTextDone(a)
  <2>1. actor'[b] = actor[b] /\ header' = header /\ controls' = controls /\ mixed' = mixed
    BY <1>9 DEF SendTextDone, Now
  <2>2. actor[b].dlg \notin mixed \cup {0} => log'[actor[b].dlg] = log[actor[b].dlg]
    BY <1>2, <1>3, <1>9, SentIs
  <2> QED
    BY <2>1, <2>2
<1> QED
  BY <1>5, <1>6, <1>7, <1>8, <1>9

\* A step is quiet, writes a header or sends.
LEMMA StepKinds ==
  ASSUME HistInv, [HistoryNext]_requestVars
  PROVE  \/ UNCHANGED requestVars
         \/ \E a \in Actors : Quiet(a) \/ SetMethodDone(a) \/ StoreNoDone(a) \/ SendTextDone(a)
BY StepIs DEF Quiet

\* Every step keeps the numbers of a dialog in order, while it is not mixed.
LEMMA SentStep == HistInv /\ [HistoryNext]_requestVars => SentInv'
<1> SUFFICES ASSUME HistInv, [HistoryNext]_requestVars PROVE SentInv'
  OBVIOUS
<1>1. SentInv /\ SendingInv /\ Numeric
  BY NumericIs DEF HistInv
<1>2. header \in [Dialogs -> [method : Lines \cup {"INVITE"}, no : Nat]]
  BY DEF HistInv, HistTables
<1>3. ASSUME NEW a \in Actors, Quiet(a) PROVE SentInv'
  BY <1>1, <1>3, QuietIs DEF SentInv, NumbersOf
<1>4. ASSUME NEW a \in Actors, SetMethodDone(a) PROVE SentInv'
  <2>1. PICK d \in Dialogs : header' = [header EXCEPT ![d].method = actor[a].line]
    BY <1>4 DEF SetMethodDone
  <2>2. \A e \in Dialogs : header'[e].no = header[e].no
    BY <1>2, <2>1
  <2>3. log' = log /\ mixed \subseteq mixed'
    BY <1>4 DEF SetMethodDone
  <2> QED
    BY <1>1, <2>2, <2>3 DEF SentInv, NumbersOf
<1>5. ASSUME NEW a \in Actors, StoreNoDone(a) PROVE SentInv'
  <2>1. actor[a].dlg \in Dialogs /\ actor[a].pc = "store"
    BY <1>5, MakersDialog DEF StoreNoDone, Making
  <2>2. log' = log /\ mixed' = mixed /\ header' = [header EXCEPT ![actor[a].dlg].no = actor[a].no + 1]
    BY <1>5 DEF StoreNoDone
  <2>3. \A e \in Dialogs : e # actor[a].dlg => header'[e].no = header[e].no
    BY <1>2, <2>1, <2>2
  <2>4. header'[actor[a].dlg].no = actor[a].no + 1
    BY <1>2, <2>1, <2>2
  <2>5. actor[a].dlg \notin mixed => actor[a].no = header[actor[a].dlg].no
    BY <1>1, <2>1, HistoryAssumption DEF SendingInv, Sends, NumbersFor, Dialogs
  <2>6. ASSUME NEW d \in Dialogs \ mixed PROVE NumbersOf(d)'
    <3>1. header[d].no \in Nat /\ header'[d].no \in {header[d].no, header[d].no + 1}
      BY <1>1, <2>3, <2>4, <2>5 DEF Numeric
    <3>2. \A i \in 1..Len(log[d]) : log[d][i].no \in Nat
      BY <1>1 DEF Numeric
    <3>3. NumbersOf(d)
      BY <1>1 DEF SentInv
    <3> QED
      BY <2>2, <3>1, <3>2, <3>3 DEF NumbersOf
  <2> QED
    BY <2>2, <2>6 DEF SentInv
<1>6. ASSUME NEW a \in Actors, SendTextDone(a) PROVE SentInv'
  <2>1. header' = header /\ mixed' = mixed
    BY <1>6 DEF SendTextDone
  <2>2. CASE log' = log
    BY <1>1, <2>1, <2>2 DEF SentInv, NumbersOf
  <2>3. CASE log' # log
    <3>0. PICK d : d = actor[a].dlg
      OBVIOUS
    <3>1. ASSUME NEW e \in Dialogs \ mixed, e # d PROVE NumbersOf(e)'
      <4>1. log'[e] = log[e] /\ NumbersOf(e)
        BY <1>1, <1>6, <2>3, <3>0, <3>1, SentIs DEF SentInv
      <4> QED
        BY <2>1, <4>1 DEF NumbersOf
    <3>2. ASSUME d \notin mixed PROVE NumbersOf(d)'
      <4>1. /\ d \in Dialogs /\ Len(log[d]) \in Nat /\ Len(log'[d]) = Len(log[d]) + 1
            /\ \A i \in 1..Len(log[d]) : log'[d][i] = log[d][i]
            /\ log'[d][Len(log[d]) + 1] = Made(a)
        BY <1>6, <2>3, <3>0, SentIs
      <4>2. NumbersOf(d) /\ NumbersFor(a)
        BY <1>1, <3>0, <3>2, <4>1, HistoryAssumption DEF SentInv, SendingInv, Sends, Dialogs
      <4>3. /\ Made(a).line = actor[a].line /\ Made(a).method = header[d].method
            /\ Made(a).no = header[d].no
        BY <3>0 DEF Made
      <4>4. /\ actor[a].pc = "send" /\ header[d].no \in Nat
            /\ \A i \in 1..Len(log[d]) : log[d][i].no \in Nat
        BY <1>1, <1>6, <4>1 DEF SendTextDone, Numeric
      <4>5. /\ header[d].method = actor[a].line
            /\ actor[a].line = "ACK" => log[d] = <<>> /\ header[d].no = InviteNo
            /\ actor[a].line # "ACK" => \A i \in 1..Len(log[d]) : log[d][i].no < header[d].no
        BY <3>0, <4>2, <4>4 DEF NumbersFor
      <4>6. actor[a].line = "ACK" => Len(log[d]) = 0
        BY <4>5
      <4> DEFINE n == Len(log[d])
                 s == log'[d]
                 m == Made(a)
                 h == header[d].no
      <4>7. /\ n \in Nat /\ Len(s) = n + 1 /\ s[n + 1] = m /\ (\A i \in 1..n : s[i] = log[d][i])
            /\ m.no = h /\ h \in Nat /\ header'[d].no = h /\ m.method = m.line
            /\ m.line = "ACK" => m.no = InviteNo /\ n = 0
            /\ m.line # "ACK" => \A i \in 1..n : log[d][i].no < h
        BY <2>1, <4>1, <4>3, <4>4, <4>5, <4>6
      <4>8. /\ \A i \in 1..n : log[d][i].no <= h /\ log[d][i].no \in Nat
            /\ \A i \in 1..n : log[d][i].method = log[d][i].line
            /\ \A i \in 1..n : log[d][i].line = "ACK" => log[d][i].no = InviteNo
            /\ \A i, j \in 1..n : i < j /\ log[d][j].line # "ACK" => log[d][i].no < log[d][j].no
        BY <4>2, <4>4 DEF NumbersOf
      <4>9. log'[d] = s /\ header'[d].no = h
        BY <4>7
      <4> HIDE DEF n, s, m, h
      <4>10. \A i \in 1..(n + 1) :
                s[i].no <= h /\ s[i].method = s[i].line /\ (s[i].line = "ACK" => s[i].no = InviteNo)
        BY <4>7, <4>8
      <4>11. \A i, j \in 1..(n + 1) : i < j /\ s[j].line # "ACK" => s[i].no < s[j].no
        BY <4>7, <4>8
      <4> QED
        BY <4>7, <4>9, <4>10, <4>11 DEF NumbersOf
    <3> QED
      BY <2>1, <3>1, <3>2 DEF SentInv
  <2> QED
    BY <2>2, <2>3
<1>7. CASE UNCHANGED requestVars
  BY <1>1, <1>7 DEF SentInv, NumbersOf, requestVars
<1> QED
  BY StepKinds, <1>3, <1>4, <1>5, <1>6, <1>7

\* The parts an actor may play in a step, for the dialogs and their objects.
SameRole(b) ==
  /\ actor'[b].op = actor[b].op /\ actor'[b].line = actor[b].line
  /\ actor'[b].obj = actor[b].obj /\ actor'[b].dlg = actor[b].dlg
  /\ Early(b)' => Early(b)
NoStart == \A b \in Actors : actor[b].op # "start"

Opens(a) ==
  /\ actor'[a].op = "start" /\ actor'[a].line = "none" /\ actor'[a].dlg = 0
  /\ begun < MaxStarts /\ begun' = begun + 1 /\ answer' = answer /\ mixed' = mixed /\ NoStart
  /\ \/ mapped' = 0 /\ actor'[a].obj # 0
     \/ mapped' = begun + 1
Takes(a) ==
  /\ actor'[a].op \in {"start", "stop", "control"} /\ actor'[a].line # "ACK"
  /\ mapped # 0 /\ answer[mapped] # 0
  /\ actor'[a].obj = mapped /\ actor'[a].dlg = answer[mapped] /\ Mixes(a, answer[mapped])
  /\ answer' = answer
  /\ \/ actor'[a].op = "start" /\ mapped' = 0 /\ begun < MaxStarts /\ begun' = begun + 1 /\ NoStart
     \/ actor'[a].op # "start" /\ mapped' \in {0, mapped} /\ begun' = begun
Accepts(a) ==
  /\ Unanswered(a) /\ actor[a].dlg = 0 /\ actor[a].obj \in Dialogs
  /\ actor'[a].op = "start" /\ actor'[a].line = "ACK" /\ actor'[a].obj = actor[a].obj
  /\ actor'[a].dlg = begun /\ begun # 0 /\ Mixes(a, begun)
  /\ answer' = [answer EXCEPT ![actor[a].obj] = begun]
  /\ begun' = begun /\ mapped' = mapped
  /\ \A b \in Actors : b # a => actor[b].op # "start"
Retains(a) ==
  /\ SameRole(a) /\ mapped' \in {0, mapped} /\ UNCHANGED <<answer, begun, mixed>>
Moves(a) ==
  /\ actor[a].obj \in Dialogs /\ actor[a].dlg # 0
  /\ actor'[a].op = actor[a].op /\ actor'[a].line = actor[a].line /\ actor'[a].obj = actor[a].obj
  /\ ~Early(a)' /\ actor'[a].dlg \in {actor[a].dlg, answer[actor[a].obj]}
  /\ mixed \subseteq mixed' /\ (actor'[a].dlg = actor[a].dlg \/ actor'[a].dlg \in mixed')
  /\ UNCHANGED <<answer, begun, mapped>>
Rests(a) ==
  /\ actor'[a].dlg = 0
  /\ \/ actor'[a].op = "none"
     \/ actor'[a].op = "start" /\ Unanswered(a) /\ actor'[a].obj = actor[a].obj
  /\ UNCHANGED <<answer, begun, mapped, mixed>>
Plays(a) == Opens(a) \/ Takes(a) \/ Accepts(a) \/ Retains(a) \/ Moves(a) \/ Rests(a)

\* A step opens, takes, accepts, keeps, moves or rests, and leaves the others' roles.
LEMMA Roles ==
  ASSUME HistInv, [HistoryNext]_requestVars
  PROVE  \/ UNCHANGED requestVars
         \/ \E a \in Actors : Plays(a) /\ \A b \in Actors : b # a => SameRole(b)
<1>0. (\A b \in Actors : ActorOK(b)) /\ FreshStart
  BY DEF HistInv
<1> DEFINE R == \E a \in Actors : Plays(a) /\ \A b \in Actors : b # a => SameRole(b)
<1>a. holder = NoActor => NoStart
  BY <1>0, HistoryAssumption DEF ActorOK, NoStart
<1>b. \A a, b \in Actors : actor[a].op = "start" /\ b # a => actor[b].op # "start"
  BY <1>0, HistoryAssumption DEF ActorOK
<1>c. \A a, b \in Actors : actor'[b] = actor[b] => SameRole(b)
  BY DEF SameRole, Early
<1>1. ASSUME NEW a \in Actors, StartFreshDone(a) PROVE R
  <2>1. Opens(a)
    BY <1>1, <1>a DEF StartFreshDone, Now, Fields, Opens
  <2> QED
    BY <1>1, <1>c, <2>1 DEF StartFreshDone, Now, Plays
<1>2. ASSUME NEW a \in Actors, StartOverDone(a) PROVE R
  <2>1. CASE answer[mapped] = 0
    <3>1. Opens(a)
      BY <1>2, <1>a, <2>1 DEF StartOverDone, Now, Fields, Opens
    <3>2. \A b \in Actors : b # a => actor'[b] = actor[b]
      BY <1>2, <2>1 DEF StartOverDone, Now
    <3> QED
      BY <1>c, <3>1, <3>2 DEF Plays
  <2>2. CASE answer[mapped] # 0
    <3>1. Takes(a)
      BY <1>2, <1>a, <2>2 DEF StartOverDone, Now, Fields, Takes
    <3>2. \A b \in Actors : b # a => actor'[b] = actor[b]
      BY <1>2, <2>2 DEF StartOverDone, Now
    <3> QED
      BY <1>c, <3>1, <3>2 DEF Plays
  <2> QED
    BY <2>1, <2>2
<1>3. ASSUME NEW a \in Actors, StartFailsDone(a) PROVE R
  <2>1. Rests(a)
    BY <1>3 DEF StartFailsDone, Now, Fields, Rests
  <2> QED
    BY <1>3, <1>c, <2>1 DEF StartFailsDone, Now, Plays
<1>4. ASSUME NEW a \in Actors, AcceptedDone(a) PROVE R
  <2>1. /\ actor[a].pc = "invite" /\ answer' = [answer EXCEPT ![actor[a].obj] = begun]
        /\ actor'[a].op = actor[a].op /\ actor'[a].line = "ACK" /\ actor'[a].obj = actor[a].obj
        /\ actor'[a].dlg = begun /\ (begun # 0 => Mixes(a, begun)) /\ begun' = begun /\ mapped' = mapped
    BY <1>4 DEF AcceptedDone, Now, Fields
  <2>2. Unanswered(a) /\ actor[a].dlg = 0 /\ actor[a].obj # 0 /\ actor[a].op = "start"
    BY <1>0, <2>1 DEF ActorOK, Unanswered
  <2>3. begun # 0
    BY <1>0, <2>2 DEF FreshStart
  <2>4. actor[a].obj \in Dialogs
    <3>1. actor[a].obj \in 0..begun /\ begun \in 0..MaxStarts
      BY DEF HistInv, HistTables, ObjectsTyped
    <3> QED
      BY <2>2, <3>1, HistoryAssumption DEF Dialogs
  <2>5. Accepts(a)
    BY <1>b, <2>1, <2>2, <2>3, <2>4 DEF Accepts
  <2> QED
    BY <1>4, <1>c, <2>5 DEF AcceptedDone, Now, Plays
<1>5. ASSUME NEW a \in Actors, StopDone(a) PROVE R
  <2>1. Takes(a)
    BY <1>5 DEF StopDone, Now, Fields, Takes
  <2> QED
    BY <1>5, <1>c, <2>1 DEF StopDone, Now, Plays
<1>6. ASSUME NEW a \in Actors, StopUnansweredDone(a) PROVE R
  <2>1. Retains(a)
    BY <1>6, <1>c DEF StopUnansweredDone, Retains
  <2> QED
    BY <1>6, <1>c, <2>1 DEF StopUnansweredDone, Plays
<1>7. ASSUME NEW a \in Actors, ControlDone(a) PROVE R
  <2>1. Takes(a)
    BY <1>7 DEF ControlDone, Now, Fields, Takes
  <2>2. \A b \in Actors : b # a => actor'[b] = actor[b]
    BY <1>7 DEF ControlDone, Now
  <2> QED
    BY <1>c, <2>1, <2>2 DEF Plays
<1>8. ASSUME NEW a \in Actors, CountLoadsDone(a) PROVE R
  <2>1. Retains(a)
    BY <1>8 DEF CountLoadsDone, Now, Fields, Retains, SameRole, Early
  <2> QED
    BY <1>8, <1>c, <2>1 DEF CountLoadsDone, Now, Plays
<1>9. ASSUME NEW a \in Actors, CountStoresDone(a) PROVE R
  <2>1. UNCHANGED <<answer, begun, mapped, mixed>> /\ Early(a)
    BY <1>9 DEF CountStoresDone, Early
  <2>2. SameRole(a) \/ (actor'[a].op = "none" /\ actor'[a].dlg = 0)
    BY <1>9, <2>1 DEF CountStoresDone, Now, Fields, SameRole
  <2>3. Retains(a) \/ Rests(a)
    BY <2>1, <2>2 DEF Retains, Rests
  <2>4. \A b \in Actors : b # a => actor'[b] = actor[b]
    BY <1>9 DEF CountStoresDone, Now
  <2> QED
    BY <1>c, <2>3, <2>4 DEF Plays
<1>10. ASSUME NEW a \in Actors, SetMethodDone(a) PROVE R
  <2>1. actor[a].obj \in Dialogs /\ actor[a].dlg # 0
    BY <1>10, MakersDialog, HistoryAssumption DEF SetMethodDone, Making, Dialogs
  <2>2. PICK d \in Dialogs :
          /\ d = IF actor[a].op = "control" THEN answer[actor[a].obj] ELSE actor[a].dlg
          /\ Now(a, IF actor[a].line # "ACK" THEN "load" ELSE "send", actor[a].op, actor[a].line,
                 actor[a].obj, d, actor[a].no, actor[a].cmd)
          /\ mixed \subseteq mixed' /\ (d = actor[a].dlg \/ d \in mixed')
    BY <1>10 DEF SetMethodDone
  <2>3. UNCHANGED <<answer, begun, mapped>>
    BY <1>10 DEF SetMethodDone
  <2>4. Moves(a)
    BY <2>1, <2>2, <2>3 DEF Now, Fields, Moves, Early
  <2> QED
    BY <1>c, <2>2, <2>4 DEF Now, Plays
<1>11. ASSUME NEW a \in Actors, LoadNoDone(a) PROVE R
  <2>1. Retains(a)
    BY <1>11 DEF LoadNoDone, Now, Fields, Retains, SameRole, Early
  <2> QED
    BY <1>11, <1>c, <2>1 DEF LoadNoDone, Now, Plays
<1>12. ASSUME NEW a \in Actors, StoreNoDone(a) PROVE R
  <2>1. Retains(a)
    BY <1>12 DEF StoreNoDone, Now, Fields, Retains, SameRole, Early
  <2> QED
    BY <1>12, <1>c, <2>1 DEF StoreNoDone, Now, Plays
<1>13. ASSUME NEW a \in Actors, SendTextDone(a) PROVE R
  <2>1. Rests(a)
    BY <1>13 DEF SendTextDone, Now, Fields, Rests, Unanswered
  <2>2. \A b \in Actors : b # a => actor'[b] = actor[b]
    BY <1>13 DEF SendTextDone, Now
  <2> QED
    BY <1>c, <2>1, <2>2 DEF Plays
<1> QED
  BY StepIs, <1>1, <1>2, <1>3, <1>4, <1>5, <1>6, <1>7, <1>8, <1>9, <1>10, <1>11, <1>12, <1>13

\* Every step keeps a dialog the answer of one object.
LEMMA OneObjectStep == HistInv /\ [HistoryNext]_requestVars => OneObject'
<1> SUFFICES ASSUME HistInv, [HistoryNext]_requestVars PROVE OneObject'
  OBVIOUS
<1>0. ObjectsTyped /\ OneObject /\ FreshToObjects
  BY DEF HistInv, HistTables
<1> USE <1>0, HistoryAssumption DEF ObjectsTyped, OneObject, FreshToObjects, Unanswered,
  Dialogs, SameRole
<1>1. ASSUME NEW a \in Actors, Opens(a), \A b \in Actors : b # a => SameRole(b) PROVE OneObject'
  BY <1>1 DEF Opens, NoStart
<1>2. ASSUME NEW a \in Actors, Takes(a), \A b \in Actors : b # a => SameRole(b) PROVE OneObject'
  BY <1>2 DEF Takes, Mixes, NoStart
<1>3. ASSUME NEW a \in Actors, Accepts(a), \A b \in Actors : b # a => SameRole(b) PROVE OneObject'
  BY <1>3 DEF Accepts, Mixes
<1>4. ASSUME NEW a \in Actors, Retains(a), \A b \in Actors : b # a => SameRole(b) PROVE OneObject'
  BY <1>4 DEF Retains
<1>5. ASSUME NEW a \in Actors, Moves(a), \A b \in Actors : b # a => SameRole(b) PROVE OneObject'
  BY <1>5 DEF Moves
<1>6. ASSUME NEW a \in Actors, Rests(a), \A b \in Actors : b # a => SameRole(b) PROVE OneObject'
  BY <1>6 DEF Rests
<1>7. CASE UNCHANGED requestVars
  BY <1>7 DEF requestVars
<1> QED
  BY Roles, <1>1, <1>2, <1>3, <1>4, <1>5, <1>6, <1>7 DEF Plays

\* Every step keeps who is in a dialog with the object that it answers.
LEMMA OwnObjectStep == HistInv /\ [HistoryNext]_requestVars => OwnObject'
<1> SUFFICES ASSUME HistInv, [HistoryNext]_requestVars PROVE OwnObject'
  OBVIOUS
<1>0. ObjectsTyped /\ OneObject /\ OwnObject /\ FreshToActors /\ FreshToObjects
  BY DEF HistInv, HistTables
<1> USE <1>0, HistoryAssumption DEF ObjectsTyped, OneObject, OwnObject, FreshToActors,
  FreshToObjects, Unanswered, Dialogs, SameRole
<1>1. ASSUME NEW a \in Actors, Opens(a), \A b \in Actors : b # a => SameRole(b) PROVE OwnObject'
  BY <1>1 DEF Opens, NoStart
<1>2. ASSUME NEW a \in Actors, Takes(a), \A b \in Actors : b # a => SameRole(b) PROVE OwnObject'
  BY <1>2 DEF Takes, Mixes, NoStart
<1>3. ASSUME NEW a \in Actors, Accepts(a), \A b \in Actors : b # a => SameRole(b) PROVE OwnObject'
  BY <1>3 DEF Accepts, Mixes
<1>4. ASSUME NEW a \in Actors, Retains(a), \A b \in Actors : b # a => SameRole(b) PROVE OwnObject'
  BY <1>4 DEF Retains
<1>5. ASSUME NEW a \in Actors, Moves(a), \A b \in Actors : b # a => SameRole(b) PROVE OwnObject'
  <2>1. /\ actor'[a].obj = actor[a].obj /\ actor[a].obj \in Dialogs /\ actor[a].dlg # 0
        /\ actor'[a].dlg \in {actor[a].dlg, answer[actor[a].obj]} /\ answer' = answer
    BY <1>5 DEF Moves
  <2>2. ASSUME NEW b \in Actors, NEW o \in Dialogs, actor'[b].dlg # 0, answer[o] = actor'[b].dlg
        PROVE  actor'[b].obj = o
    <3>1. CASE b = a
      BY <2>1, <2>2, <3>1
    <3>2. CASE b # a
      BY <1>5, <2>2, <3>2
    <3> QED
      BY <3>1, <3>2
  <2> QED
    BY <2>1, <2>2
<1>6. ASSUME NEW a \in Actors, Rests(a), \A b \in Actors : b # a => SameRole(b) PROVE OwnObject'
  BY <1>6 DEF Rests
<1>7. CASE UNCHANGED requestVars
  BY <1>7 DEF requestVars
<1> QED
  BY Roles, <1>1, <1>2, <1>3, <1>4, <1>5, <1>6, <1>7 DEF Plays

\* Every step keeps the objects to come without an answer.
LEMMA NoneBeyondStep == HistInv /\ [HistoryNext]_requestVars => NoneBeyond'
<1> SUFFICES ASSUME HistInv, [HistoryNext]_requestVars PROVE NoneBeyond'
  OBVIOUS
<1>0. ObjectsTyped /\ NoneBeyond
  BY DEF HistInv, HistTables
<1> USE <1>0, HistoryAssumption DEF ObjectsTyped, NoneBeyond, Dialogs, SameRole
<1>1. ASSUME NEW a \in Actors, Opens(a), \A b \in Actors : b # a => SameRole(b) PROVE NoneBeyond'
  BY <1>1 DEF Opens, NoStart
<1>2. ASSUME NEW a \in Actors, Takes(a), \A b \in Actors : b # a => SameRole(b) PROVE NoneBeyond'
  BY <1>2 DEF Takes, Mixes, NoStart
<1>3. ASSUME NEW a \in Actors, Accepts(a), \A b \in Actors : b # a => SameRole(b)
      PROVE  NoneBeyond'
  BY <1>3 DEF Accepts, Mixes
<1>4. ASSUME NEW a \in Actors, Retains(a), \A b \in Actors : b # a => SameRole(b) PROVE NoneBeyond'
  BY <1>4 DEF Retains
<1>5. ASSUME NEW a \in Actors, Moves(a), \A b \in Actors : b # a => SameRole(b) PROVE NoneBeyond'
  BY <1>5 DEF Moves
<1>6. ASSUME NEW a \in Actors, Rests(a), \A b \in Actors : b # a => SameRole(b) PROVE NoneBeyond'
  BY <1>6 DEF Rests
<1>7. CASE UNCHANGED requestVars
  BY <1>7 DEF requestVars
<1> QED
  BY Roles, <1>1, <1>2, <1>3, <1>4, <1>5, <1>6, <1>7 DEF Plays

\* Every step keeps others out of the dialog of a start without an answer.
LEMMA FreshToActorsStep == HistInv /\ [HistoryNext]_requestVars => FreshToActors'
<1> SUFFICES ASSUME HistInv, [HistoryNext]_requestVars PROVE FreshToActors'
  OBVIOUS
<1>0. ObjectsTyped /\ FreshToActors /\ FreshToObjects /\ FreshStart
  BY DEF HistInv, HistTables
<1> USE <1>0, HistoryAssumption DEF ObjectsTyped, FreshToActors, FreshToObjects, FreshStart,
  Unanswered, Dialogs, SameRole
<1>1. ASSUME NEW a \in Actors, Opens(a), \A b \in Actors : b # a => SameRole(b)
      PROVE  FreshToActors'
  BY <1>1 DEF Opens, NoStart
<1>2. ASSUME NEW a \in Actors, Takes(a), \A b \in Actors : b # a => SameRole(b)
      PROVE  FreshToActors'
  BY <1>2 DEF Takes, Mixes, NoStart
<1>3. ASSUME NEW a \in Actors, Accepts(a), \A b \in Actors : b # a => SameRole(b)
      PROVE  FreshToActors'
  BY <1>3 DEF Accepts, Mixes
<1>4. ASSUME NEW a \in Actors, Retains(a), \A b \in Actors : b # a => SameRole(b)
      PROVE  FreshToActors'
  BY <1>4 DEF Retains
<1>5. ASSUME NEW a \in Actors, Moves(a), \A b \in Actors : b # a => SameRole(b)
      PROVE  FreshToActors'
  <2>1. /\ actor'[a].op = actor[a].op /\ actor'[a].line = actor[a].line /\ actor[a].obj \in Dialogs
        /\ actor'[a].dlg \in {actor[a].dlg, answer[actor[a].obj]} /\ begun' = begun
    BY <1>5 DEF Moves
  <2>2. \A b \in Actors : Unanswered(b)' => Unanswered(b)
    BY <1>5, <2>1
  <2>3. ASSUME NEW b \in Actors, NEW c \in Actors, Unanswered(b) PROVE actor'[c].dlg # begun
    BY <1>5, <2>1, <2>3
  <2> QED
    BY <2>1, <2>2, <2>3
<1>6. ASSUME NEW a \in Actors, Rests(a), \A b \in Actors : b # a => SameRole(b)
      PROVE  FreshToActors'
  BY <1>6 DEF Rests
<1>7. CASE UNCHANGED requestVars
  BY <1>7 DEF requestVars
<1> QED
  BY Roles, <1>1, <1>2, <1>3, <1>4, <1>5, <1>6, <1>7 DEF Plays

\* Every step keeps the dialog of a start without an answer out of the objects.
LEMMA FreshToObjectsStep == HistInv /\ [HistoryNext]_requestVars => FreshToObjects'
<1> SUFFICES ASSUME HistInv, [HistoryNext]_requestVars PROVE FreshToObjects'
  OBVIOUS
<1>0. ObjectsTyped /\ FreshToObjects
  BY DEF HistInv, HistTables
<1> USE <1>0, HistoryAssumption DEF ObjectsTyped, FreshToObjects, Unanswered, Dialogs, SameRole
<1>1. ASSUME NEW a \in Actors, Opens(a), \A b \in Actors : b # a => SameRole(b)
      PROVE  FreshToObjects'
  BY <1>1 DEF Opens, NoStart
<1>2. ASSUME NEW a \in Actors, Takes(a), \A b \in Actors : b # a => SameRole(b)
      PROVE  FreshToObjects'
  BY <1>2 DEF Takes, Mixes, NoStart
<1>3. ASSUME NEW a \in Actors, Accepts(a), \A b \in Actors : b # a => SameRole(b)
      PROVE  FreshToObjects'
  BY <1>3 DEF Accepts, Mixes
<1>4. ASSUME NEW a \in Actors, Retains(a), \A b \in Actors : b # a => SameRole(b)
      PROVE  FreshToObjects'
  BY <1>4 DEF Retains
<1>5. ASSUME NEW a \in Actors, Moves(a), \A b \in Actors : b # a => SameRole(b)
      PROVE  FreshToObjects'
  BY <1>5 DEF Moves
<1>6. ASSUME NEW a \in Actors, Rests(a), \A b \in Actors : b # a => SameRole(b)
      PROVE  FreshToObjects'
  BY <1>6 DEF Rests
<1>7. CASE UNCHANGED requestVars
  BY <1>7 DEF requestVars
<1> QED
  BY Roles, <1>1, <1>2, <1>3, <1>4, <1>5, <1>6, <1>7 DEF Plays

\* Every step keeps the mapped object of a start unanswered until it is answered.
LEMMA FreshObjectStep == HistInv /\ [HistoryNext]_requestVars => FreshObject'
<1> SUFFICES ASSUME HistInv, [HistoryNext]_requestVars PROVE FreshObject'
  OBVIOUS
<1>0. ObjectsTyped /\ FreshObject /\ NoneBeyond /\ (\A b \in Actors : ActorOK(b))
  BY DEF HistInv, HistTables
<1> USE <1>0, HistoryAssumption DEF ObjectsTyped, FreshObject, NoneBeyond, Unanswered, ActorOK,
  Making, Dialogs, SameRole
<1>1. ASSUME NEW a \in Actors, Opens(a), \A b \in Actors : b # a => SameRole(b) PROVE FreshObject'
  <2>1. \A b \in Actors : b # a => actor'[b].op # "start"
    BY <1>1 DEF Opens, NoStart
  <2>2. CASE mapped' = 0
    <3>1. actor'[a].obj # mapped'
      BY <1>1, <2>2 DEF Opens
    <3> QED
      BY <2>1, <3>1
  <2>3. CASE mapped' = begun + 1
    <3>1. answer'[mapped'] = 0
      BY <1>1, <2>3 DEF Opens
    <3> QED
      BY <3>1
  <2> QED
    BY <1>1, <2>2, <2>3 DEF Opens
<1>2. ASSUME NEW a \in Actors, Takes(a), \A b \in Actors : b # a => SameRole(b) PROVE FreshObject'
  BY <1>2 DEF Takes, Mixes, NoStart
<1>3. ASSUME NEW a \in Actors, Accepts(a), \A b \in Actors : b # a => SameRole(b)
      PROVE  FreshObject'
  BY <1>3 DEF Accepts, Mixes
<1>4. ASSUME NEW a \in Actors, Retains(a), \A b \in Actors : b # a => SameRole(b) PROVE FreshObject'
  <2>1. mapped' \in {0, mapped} /\ answer' = answer
    BY <1>4 DEF Retains
  <2>2. \A b \in Actors : actor'[b].obj = actor[b].obj /\ (Unanswered(b)' => Unanswered(b))
    BY <1>4 DEF Retains
  <2>3. \A b \in Actors : Unanswered(b) => actor[b].obj # 0
    OBVIOUS
  <2> QED
    BY <2>1, <2>2, <2>3
<1>5. ASSUME NEW a \in Actors, Moves(a), \A b \in Actors : b # a => SameRole(b) PROVE FreshObject'
  <2>1. mapped' = mapped /\ answer' = answer
    BY <1>5 DEF Moves
  <2>2. \A b \in Actors : actor'[b].obj = actor[b].obj /\ (Unanswered(b)' => Unanswered(b))
    BY <1>5 DEF Moves
  <2> QED
    BY <2>1, <2>2
<1>6. ASSUME NEW a \in Actors, Rests(a), \A b \in Actors : b # a => SameRole(b) PROVE FreshObject'
  BY <1>6 DEF Rests
<1>7. CASE UNCHANGED requestVars
  BY <1>7 DEF requestVars
<1> QED
  BY Roles, <1>1, <1>2, <1>3, <1>4, <1>5, <1>6, <1>7 DEF Plays

\* Every step keeps at most one request in the making in a dialog not mixed.
LEMMA LoneStep == HistInv /\ [HistoryNext]_requestVars => LoneInv'
<1> SUFFICES ASSUME HistInv, [HistoryNext]_requestVars PROVE LoneInv'
  OBVIOUS
<1>0. ObjectsTyped /\ LoneInv /\ FreshToActors
  BY DEF HistInv, HistTables
<1> USE <1>0, HistoryAssumption DEF ObjectsTyped, LoneInv, FreshToActors, Unanswered, Dialogs,
  SameRole
<1>1. ASSUME NEW a \in Actors, Opens(a), \A b \in Actors : b # a => SameRole(b) PROVE LoneInv'
  BY <1>1 DEF Opens, NoStart
<1>2. ASSUME NEW a \in Actors, Takes(a), \A b \in Actors : b # a => SameRole(b) PROVE LoneInv'
  BY <1>2 DEF Takes, Mixes, NoStart
<1>3. ASSUME NEW a \in Actors, Accepts(a), \A b \in Actors : b # a => SameRole(b) PROVE LoneInv'
  BY <1>3 DEF Accepts, Mixes
<1>4. ASSUME NEW a \in Actors, Retains(a), \A b \in Actors : b # a => SameRole(b) PROVE LoneInv'
  BY <1>4 DEF Retains
<1>5. ASSUME NEW a \in Actors, Moves(a), \A b \in Actors : b # a => SameRole(b) PROVE LoneInv'
  BY <1>5 DEF Moves
<1>6. ASSUME NEW a \in Actors, Rests(a), \A b \in Actors : b # a => SameRole(b) PROVE LoneInv'
  BY <1>6 DEF Rests
<1>7. CASE UNCHANGED requestVars
  BY <1>7 DEF requestVars
<1> QED
  BY Roles, <1>1, <1>2, <1>3, <1>4, <1>5, <1>6, <1>7 DEF Plays

\* Every step keeps those who control an object in one dialog.
LEMMA OnePlaceStep == HistInv /\ [HistoryNext]_requestVars => OnePlace'
<1> SUFFICES ASSUME HistInv, [HistoryNext]_requestVars PROVE OnePlace'
  OBVIOUS
<1>0. ObjectsTyped /\ OnePlace /\ MappedPlace
  BY DEF HistInv, HistTables
<1> USE <1>0, HistoryAssumption DEF ObjectsTyped, OnePlace, MappedPlace, WorksInPlace, Dialogs,
  SameRole
<1>1. ASSUME NEW a \in Actors, Opens(a), \A b \in Actors : b # a => SameRole(b) PROVE OnePlace'
  <2>1. ~WorksInPlace(a)'
    BY <1>1 DEF Opens
  <2>2. SUFFICES ASSUME NEW b \in Actors, NEW c \in Actors, WorksInPlace(b)', WorksInPlace(c)',
                        actor'[b].obj = actor'[c].obj
                 PROVE  actor'[b].dlg = actor'[c].dlg
    OBVIOUS
  <2>3. b # a /\ c # a
    BY <2>1, <2>2
  <2>4. SameRole(b) /\ SameRole(c) /\ mixed' = mixed
    BY <1>1, <2>3 DEF Opens
  <2> HIDE DEF OnePlace, MappedPlace, ObjectsTyped
  <2>5. WorksInPlace(b) /\ WorksInPlace(c)
    BY ONLY <2>2, <2>4 DEF WorksInPlace, Early, SameRole
  <2>6. actor'[b].obj = actor[b].obj /\ actor'[b].dlg = actor[b].dlg
    BY ONLY <2>4 DEF SameRole
  <2>7. actor'[c].obj = actor[c].obj /\ actor'[c].dlg = actor[c].dlg
    BY ONLY <2>4 DEF SameRole
  <2> HIDE DEF WorksInPlace
  <2> QED
    BY ONLY <1>0, <2>2, <2>5, <2>6, <2>7 DEF OnePlace
<1>2. ASSUME NEW a \in Actors, Takes(a), \A b \in Actors : b # a => SameRole(b) PROVE OnePlace'
  <2>1. \A b \in Actors \ {a} : WorksInPlace(b)' => WorksInPlace(b)
    BY <1>2 DEF Takes, Mixes
  <2>2. actor'[a].obj = mapped /\ actor'[a].dlg = answer[mapped]
    BY <1>2 DEF Takes
  <2>3. \A b \in Actors \ {a} : WorksInPlace(b)' /\ actor'[b].obj = mapped => actor'[b].dlg = answer[mapped]
    BY <1>2, <2>1
  <2>4. \A b, c \in Actors \ {a} :
          WorksInPlace(b)' /\ WorksInPlace(c)' /\ actor'[b].obj = actor'[c].obj => actor'[b].dlg = actor'[c].dlg
    BY <1>2, <2>1
  <2> QED
    BY <2>2, <2>3, <2>4
<1>3. ASSUME NEW a \in Actors, Accepts(a), \A b \in Actors : b # a => SameRole(b) PROVE OnePlace'
  BY <1>3 DEF Accepts, Mixes
<1>4. ASSUME NEW a \in Actors, Retains(a), \A b \in Actors : b # a => SameRole(b) PROVE OnePlace'
  BY <1>4 DEF Retains
<1>5. ASSUME NEW a \in Actors, Moves(a), \A b \in Actors : b # a => SameRole(b) PROVE OnePlace'
  BY <1>5 DEF Moves
<1>6. ASSUME NEW a \in Actors, Rests(a), \A b \in Actors : b # a => SameRole(b) PROVE OnePlace'
  BY <1>6 DEF Rests
<1>7. CASE UNCHANGED requestVars
  BY <1>7 DEF requestVars, Early
<1> QED
  BY Roles, <1>1, <1>2, <1>3, <1>4, <1>5, <1>6, <1>7 DEF Plays

\* Every step keeps those who control the mapped object in its dialog.
LEMMA MappedPlaceStep == HistInv /\ [HistoryNext]_requestVars => MappedPlace'
<1> SUFFICES ASSUME HistInv, [HistoryNext]_requestVars PROVE MappedPlace'
  OBVIOUS
<1>0. ObjectsTyped /\ MappedPlace /\ FreshObject /\ (\A b \in Actors : ActorOK(b))
  BY DEF HistInv, HistTables
<1> USE <1>0, HistoryAssumption DEF ObjectsTyped, MappedPlace, FreshObject, Unanswered,
  WorksInPlace, ActorOK, Making, Dialogs, SameRole
<1>1. ASSUME NEW a \in Actors, Opens(a), \A b \in Actors : b # a => SameRole(b) PROVE MappedPlace'
  <2>1. \A b \in Actors : WorksInPlace(b)' => b # a /\ actor'[b].obj = actor[b].obj /\ actor[b].op = "control"
    BY <1>1 DEF Opens
  <2>2. \A b \in Actors : actor[b].op = "control" => actor[b].obj # 0 /\ actor[b].obj \in 0..begun
    OBVIOUS
  <2>3. mapped' = 0 \/ mapped' = begun + 1
    BY <1>1 DEF Opens
  <2>4. \A b \in Actors : WorksInPlace(b)' => actor'[b].obj # mapped'
    BY <2>1, <2>2, <2>3
  <2> QED
    BY <2>4
<1>2. ASSUME NEW a \in Actors, Takes(a), \A b \in Actors : b # a => SameRole(b) PROVE MappedPlace'
  <2>1. mapped' \in {0, mapped} /\ answer' = answer /\ mixed \subseteq mixed' /\ mapped # 0
    BY <1>2 DEF Takes, Mixes
  <2>2. \A b \in Actors : b # a =>
          actor'[b].obj = actor[b].obj /\ actor'[b].dlg = actor[b].dlg /\ (WorksInPlace(b)' => WorksInPlace(b))
    BY <1>2, <2>1
  <2>3. \A b \in Actors : WorksInPlace(b) => actor[b].obj # 0
    OBVIOUS
  <2>4. actor'[a].obj = mapped /\ actor'[a].dlg = answer[mapped]
    BY <1>2 DEF Takes
  <2> QED
    BY <2>1, <2>2, <2>3, <2>4
<1>3. ASSUME NEW a \in Actors, Accepts(a), \A b \in Actors : b # a => SameRole(b)
      PROVE  MappedPlace'
  <2>1. /\ mapped' = mapped /\ actor'[a].op = "start" /\ Unanswered(a) /\ actor[a].obj \in Dialogs
        /\ answer' = [answer EXCEPT ![actor[a].obj] = begun] /\ mixed \subseteq mixed'
    BY <1>3 DEF Accepts, Mixes
  <2>2. \A b \in Actors : WorksInPlace(b)' => b # a /\ WorksInPlace(b)
    BY <1>3, <2>1
  <2>3. \A b \in Actors : WorksInPlace(b) => actor[b].obj # 0 /\ answer[actor[b].obj] # 0
    OBVIOUS
  <2>4. ASSUME NEW b \in Actors, WorksInPlace(b)', mapped' = actor'[b].obj
        PROVE  actor'[b].dlg = answer'[mapped']
    <3>1. b # a /\ WorksInPlace(b) /\ mapped = actor[b].obj /\ actor'[b].dlg = actor[b].dlg
      BY <1>3, <2>1, <2>2, <2>4
    <3>2. actor[b].dlg = answer[mapped] /\ answer[mapped] # 0
      BY <2>3, <3>1
    <3>3. mapped # actor[a].obj
      BY <2>1, <3>2
    <3>4. answer'[mapped'] = answer[mapped]
      BY <2>1, <3>3
    <3> QED
      BY <3>1, <3>2, <3>4
  <2> QED
    BY <2>4
<1>4. ASSUME NEW a \in Actors, Retains(a), \A b \in Actors : b # a => SameRole(b) PROVE MappedPlace'
  <2>1. mapped' \in {0, mapped} /\ answer' = answer
    BY <1>4 DEF Retains
  <2>2. \A b \in Actors :
          actor'[b].obj = actor[b].obj /\ actor'[b].dlg = actor[b].dlg /\ (WorksInPlace(b)' => WorksInPlace(b))
    BY <1>4 DEF Retains
  <2>3. \A b \in Actors : WorksInPlace(b) => actor[b].obj # 0
    OBVIOUS
  <2>4. ASSUME NEW b \in Actors, WorksInPlace(b)', mapped' = actor'[b].obj
        PROVE  actor'[b].dlg = answer'[mapped']
    <3>1. WorksInPlace(b) /\ mapped' = actor[b].obj /\ mapped' = mapped
      BY <2>1, <2>2, <2>3, <2>4
    <3>2. actor[b].dlg = answer[mapped]
      BY <3>1
    <3>3. answer'[mapped'] = answer[mapped]
      BY <2>1, <3>1
    <3> QED
      BY <2>2, <3>2, <3>3
  <2> QED
    BY <2>4
<1>5. ASSUME NEW a \in Actors, Moves(a), \A b \in Actors : b # a => SameRole(b) PROVE MappedPlace'
  BY <1>5 DEF Moves
<1>6. ASSUME NEW a \in Actors, Rests(a), \A b \in Actors : b # a => SameRole(b) PROVE MappedPlace'
  BY <1>6 DEF Rests
<1>7. CASE UNCHANGED requestVars
  BY <1>7 DEF requestVars, Early
<1> QED
  BY Roles, <1>1, <1>2, <1>3, <1>4, <1>5, <1>6, <1>7 DEF Plays

\* A dialog that nobody is in and nothing answers keeps its header and its log.
LEMMA NumbersStay ==
  ASSUME HistInv, [HistoryNext]_requestVars, NEW d \in Dialogs,
         \A a \in Actors : actor[a].dlg # d, \A o \in Dialogs : answer[o] # d
  PROVE  header'[d] = header[d] /\ log'[d] = log[d]
<1>1. header \in [Dialogs -> [method : Lines \cup {"INVITE"}, no : Nat]]
  BY DEF HistInv, HistTables
<1>2. ASSUME NEW a \in Actors, Quiet(a) PROVE header'[d] = header[d] /\ log'[d] = log[d]
  BY <1>2, QuietIs
<1>3. ASSUME NEW a \in Actors, SetMethodDone(a) PROVE header'[d] = header[d] /\ log'[d] = log[d]
  <2>1. PICK e \in Dialogs :
          /\ e = IF actor[a].op = "control" THEN answer[actor[a].obj] ELSE actor[a].dlg
          /\ header' = [header EXCEPT ![e].method = actor[a].line]
    BY <1>3 DEF SetMethodDone
  <2>2. actor[a].obj \in Dialogs
    BY <1>3, MakersDialog DEF SetMethodDone, Making
  <2>3. e # d
    BY <2>1, <2>2
  <2>4. log' = log
    BY <1>3 DEF SetMethodDone
  <2> QED
    BY <1>1, <2>1, <2>3, <2>4
<1>4. ASSUME NEW a \in Actors, StoreNoDone(a) PROVE header'[d] = header[d] /\ log'[d] = log[d]
  BY <1>1, <1>4 DEF StoreNoDone
<1>5. ASSUME NEW a \in Actors, SendTextDone(a) PROVE header'[d] = header[d] /\ log'[d] = log[d]
  <2>1. header' = header
    BY <1>5 DEF SendTextDone
  <2>2. CASE log' = log
    BY <2>1, <2>2
  <2>3. CASE log' # log
    BY <1>5, <2>1, <2>3, SentIs
  <2> QED
    BY <2>2, <2>3
<1>6. CASE UNCHANGED requestVars
  BY <1>6 DEF requestVars
<1> QED
  BY StepKinds, <1>2, <1>3, <1>4, <1>5, <1>6

\* A start is one more, or the starts stay and none becomes unanswered.
LEMMA BegunStep ==
  ASSUME HistInv, [HistoryNext]_requestVars
  PROVE  \/ begun' = begun /\ \A b \in Actors : Unanswered(b)' => \E c \in Actors : Unanswered(c)
         \/ begun' = begun + 1 /\ begun < MaxStarts
<1> DEFINE G == \/ begun' = begun /\ \A b \in Actors : Unanswered(b)' => \E c \in Actors : Unanswered(c)
                \/ begun' = begun + 1 /\ begun < MaxStarts
<1>1. ASSUME NEW a \in Actors, Plays(a), \A b \in Actors : b # a => SameRole(b) PROVE G
  <2>1. \A b \in Actors : b # a => (Unanswered(b)' => Unanswered(b))
    BY <1>1 DEF SameRole, Unanswered
  <2>2. CASE Opens(a)
    BY <2>2 DEF Opens
  <2>3. CASE Takes(a)
    BY <2>1, <2>3 DEF Takes, Unanswered
  <2>4. CASE Accepts(a)
    BY <2>1, <2>4 DEF Accepts, Unanswered
  <2>5. CASE Retains(a)
    BY <2>1, <2>5 DEF Retains, SameRole, Unanswered
  <2>6. CASE Moves(a)
    BY <2>1, <2>6 DEF Moves, Unanswered
  <2>7. CASE Rests(a)
    BY <2>1, <2>7 DEF Rests, Unanswered
  <2> QED
    BY <1>1, <2>2, <2>3, <2>4, <2>5, <2>6, <2>7 DEF Plays
<1>2. CASE UNCHANGED requestVars
  BY <1>2 DEF requestVars, Unanswered
<1> QED
  BY Roles, <1>1, <1>2

\* Every step leaves the dialogs to come untouched.
LEMMA FreshBeyondStep == HistInv /\ [HistoryNext]_requestVars => FreshBeyond'
<1> SUFFICES ASSUME HistInv, [HistoryNext]_requestVars
             PROVE  \A d \in Dialogs : d > begun' => Untouched(d)'
  BY DEF FreshBeyond
<1> SUFFICES ASSUME NEW d \in Dialogs, d > begun' PROVE Untouched(d)'
  OBVIOUS
<1>1. begun \in Nat /\ d \in Nat /\ d > begun
  <2>1. begun \in Nat /\ d \in Nat
    BY HistoryAssumption DEF HistInv, HistTables, ObjectsTyped, Dialogs
  <2>2. begun' = begun \/ begun' = begun + 1
    BY BegunStep
  <2> QED
    BY <2>1, <2>2
<1>2. \A a \in Actors : actor[a].dlg # d
  BY <1>1 DEF HistInv, HistTables, ObjectsTyped
<1>3. \A o \in Dialogs : answer[o] # d
  BY <1>1 DEF HistInv, HistTables, ObjectsTyped
<1>4. Untouched(d)
  BY <1>1 DEF HistInv, FreshBeyond
<1> QED
  BY <1>2, <1>3, <1>4, NumbersStay DEF Untouched

\* Every step leaves the dialog of a start untouched until it is answered.
LEMMA FreshStartStep == HistInv /\ [HistoryNext]_requestVars => FreshStart'
<1> SUFFICES ASSUME HistInv, [HistoryNext]_requestVars, NEW b \in Actors, Unanswered(b)'
             PROVE  (begun # 0 /\ Untouched(begun))'
  BY DEF FreshStart
<1>0. begun \in 0..MaxStarts /\ MaxStarts \in Nat
  BY HistoryAssumption DEF HistInv, HistTables, ObjectsTyped
<1> PICK d : d = begun'
  OBVIOUS
<1>1. /\ d # 0 /\ d \in Dialogs /\ Untouched(d)
      /\ (\A a \in Actors : actor[a].dlg # d) /\ (\A o \in Dialogs : answer[o] # d)
  <2>1. CASE begun' = begun
    <3>1. PICK c \in Actors : Unanswered(c)
      BY <1>0, <2>1, BegunStep
    <3>2. begun # 0 /\ Untouched(begun)
      BY <3>1 DEF HistInv, FreshStart
    <3>3. (\A a \in Actors : actor[a].dlg # begun) /\ (\A o \in Dialogs : answer[o] # begun)
      BY <3>1 DEF HistInv, FreshToActors, FreshToObjects
    <3> QED
      BY <1>0, <2>1, <3>2, <3>3 DEF Dialogs
  <2>2. CASE begun' = begun + 1 /\ begun < MaxStarts
    <3>1. d \in Dialogs /\ d > begun /\ d # 0
      BY <1>0, <2>2 DEF Dialogs
    <3>2. Untouched(d)
      BY <3>1 DEF HistInv, FreshBeyond
    <3>3. (\A a \in Actors : actor[a].dlg # d) /\ (\A o \in Dialogs : answer[o] # d)
      BY <1>0, <3>1 DEF HistInv, HistTables, ObjectsTyped, Dialogs
    <3> QED
      BY <3>1, <3>2, <3>3
  <2> QED
    BY <2>1, <2>2, BegunStep
<1>2. Untouched(d)'
  BY <1>1, NumbersStay DEF Untouched
<1> QED
  BY <1>1, <1>2 DEF Untouched

\* The mutex stays, is taken or is given back.
Hands(a) ==
  holder' = holder \/ (holder = NoActor /\ holder' = a) \/ (holder = a /\ holder' = NoActor)

\* What one actor does leaves the places of the others.
LEMMA OthersOK ==
  ASSUME HistInv, NEW a \in Actors, NEW b \in Actors, b # a, actor'[b] = actor[b], Hands(a),
         \A o \in Dialogs : answer[o] # 0 => answer'[o] # 0
  PROVE  ActorOK(b)'
<1>1. ActorOK(b)
  BY DEF HistInv
<1>2. holder' = b <=> holder = b
  BY HistoryAssumption DEF Hands
<1>3. actor[b].op = "control" => actor[b].obj \in Dialogs
  <2>1. actor[b].op = "control" => actor[b].pc \in Making
    BY <1>1 DEF ActorOK, Making
  <2> QED
    BY <2>1, MakersDialog
<1> QED
  BY <1>1, <1>2, <1>3 DEF ActorOK, Making

\* Every step keeps every actor at one of its places.
LEMMA ActorsStep == HistInv /\ [HistoryNext]_requestVars => \A b \in Actors : ActorOK(b)'
<1> SUFFICES ASSUME HistInv, [HistoryNext]_requestVars PROVE \A b \in Actors : ActorOK(b)'
  OBVIOUS
<1>0. \A b \in Actors : ActorOK(b)
  BY DEF HistInv
<1>d. ObjectsTyped
      /\ \A b \in Actors : actor[b].pc \in Making => actor[b].dlg \in Dialogs /\ actor[b].obj \in Dialogs
  BY MakersDialog DEF HistInv, HistTables
<1>1. ASSUME NEW a \in Actors, StartFreshDone(a) PROVE \A b \in Actors : ActorOK(b)'
  <2>1. ActorOK(a) /\ (holder = NoActor => holder # a)
    BY <1>0, HistoryAssumption
  <2>2. Hands(a) /\ answer' = answer /\ \A b \in Actors : b # a => actor'[b] = actor[b]
    BY <1>1, <2>1 DEF StartFreshDone, Now, Hands, ActorOK
  <2>5. \A o \in Dialogs : answer[o] # 0 => answer'[o] # 0
    BY <2>2
  <2>7. ActorOK(a)'
    BY <1>1, <1>d, <2>1, HistoryAssumption DEF StartFreshDone, Now, Fields, ActorOK, Making,
      Lines, ObjectsTyped
  <2> QED
    BY <2>2, <2>5, <2>7, OthersOK
<1>2. ASSUME NEW a \in Actors, StartOverDone(a) PROVE \A b \in Actors : ActorOK(b)'
  <2>1. ActorOK(a) /\ (holder = NoActor => holder # a)
    BY <1>0, HistoryAssumption
  <2>2. Hands(a) /\ answer' = answer /\ \A b \in Actors : b # a => actor'[b] = actor[b]
    BY <1>2, <2>1 DEF StartOverDone, Now, Hands, ActorOK
  <2>5. \A o \in Dialogs : answer[o] # 0 => answer'[o] # 0
    BY <2>2
  <2>7. ActorOK(a)'
    BY <1>2, <1>d, <2>1, HistoryAssumption DEF StartOverDone, Now, Fields, ActorOK, Making,
      Lines, ObjectsTyped
  <2> QED
    BY <2>2, <2>5, <2>7, OthersOK
<1>3. ASSUME NEW a \in Actors, StartFailsDone(a) PROVE \A b \in Actors : ActorOK(b)'
  <2>1. ActorOK(a) /\ (holder = NoActor => holder # a)
    BY <1>0, HistoryAssumption
  <2>2. Hands(a) /\ answer' = answer /\ \A b \in Actors : b # a => actor'[b] = actor[b]
    BY <1>3, <2>1 DEF StartFailsDone, Now, Hands, ActorOK
  <2>5. \A o \in Dialogs : answer[o] # 0 => answer'[o] # 0
    BY <2>2
  <2>7. ActorOK(a)'
    BY <1>3, <1>d, <2>1, HistoryAssumption DEF StartFailsDone, Now, Fields, ActorOK, Making,
      Lines, ObjectsTyped
  <2> QED
    BY <2>2, <2>5, <2>7, OthersOK
<1>4. ASSUME NEW a \in Actors, AcceptedDone(a) PROVE \A b \in Actors : ActorOK(b)'
  <2>1. ActorOK(a) /\ (holder = NoActor => holder # a)
    BY <1>0, HistoryAssumption
  <2>2. actor[a].pc = "invite" /\ answer' = [answer EXCEPT ![actor[a].obj] = begun]
    BY <1>4 DEF AcceptedDone
  <2>3. actor[a].op = "start" /\ actor[a].line = "none" /\ actor[a].obj # 0 /\ actor[a].cmd = 0
    BY <2>1, <2>2 DEF ActorOK
  <2>4. begun # 0
    BY <2>3 DEF HistInv, FreshStart, Unanswered
  <2>5. \A o \in Dialogs : answer[o] # 0 => answer'[o] # 0
    BY <1>d, <2>2, <2>4 DEF ObjectsTyped
  <2>6. Hands(a) /\ \A b \in Actors : b # a => actor'[b] = actor[b]
    BY <1>4 DEF AcceptedDone, Now, Hands
  <2>7. ActorOK(a)'
    BY <1>4, <2>1, <2>3, <2>4 DEF AcceptedDone, Now, Fields, ActorOK, Making, Lines
  <2> QED
    BY <2>5, <2>6, <2>7, OthersOK
<1>5. ASSUME NEW a \in Actors, StopDone(a) PROVE \A b \in Actors : ActorOK(b)'
  <2>1. ActorOK(a) /\ (holder = NoActor => holder # a)
    BY <1>0, HistoryAssumption
  <2>2. Hands(a) /\ answer' = answer /\ \A b \in Actors : b # a => actor'[b] = actor[b]
    BY <1>5, <2>1 DEF StopDone, Now, Hands, ActorOK
  <2>5. \A o \in Dialogs : answer[o] # 0 => answer'[o] # 0
    BY <2>2
  <2>7. ActorOK(a)'
    BY <1>5, <1>d, <2>1, HistoryAssumption DEF StopDone, Now, Fields, ActorOK, Making, Lines,
      ObjectsTyped
  <2> QED
    BY <2>2, <2>5, <2>7, OthersOK
<1>6. ASSUME NEW a \in Actors, StopUnansweredDone(a) PROVE \A b \in Actors : ActorOK(b)'
  <2>1. actor' = actor /\ holder' = holder /\ answer' = answer
    BY <1>6 DEF StopUnansweredDone
  <2> QED
    BY <1>0, <2>1 DEF ActorOK
<1>7. ASSUME NEW a \in Actors, ControlDone(a) PROVE \A b \in Actors : ActorOK(b)'
  <2>1. ActorOK(a) /\ (holder = NoActor => holder # a)
    BY <1>0, HistoryAssumption
  <2>2. Hands(a) /\ answer' = answer /\ \A b \in Actors : b # a => actor'[b] = actor[b]
    BY <1>7, <2>1 DEF ControlDone, Now, Hands, ActorOK
  <2>5. \A o \in Dialogs : answer[o] # 0 => answer'[o] # 0
    BY <2>2
  <2>7. ActorOK(a)'
    BY <1>7, <1>d, <2>1, HistoryAssumption DEF ControlDone, Now, Fields, ActorOK, Making,
      Lines, ObjectsTyped
  <2> QED
    BY <2>2, <2>5, <2>7, OthersOK
<1>8. ASSUME NEW a \in Actors, CountLoadsDone(a) PROVE \A b \in Actors : ActorOK(b)'
  <2>1. ActorOK(a) /\ (holder = NoActor => holder # a)
    BY <1>0, HistoryAssumption
  <2>2. Hands(a) /\ answer' = answer /\ \A b \in Actors : b # a => actor'[b] = actor[b]
    BY <1>8, <2>1 DEF CountLoadsDone, Now, Hands, ActorOK
  <2>5. \A o \in Dialogs : answer[o] # 0 => answer'[o] # 0
    BY <2>2
  <2>7. ActorOK(a)'
    BY <1>8, <1>d, <2>1, HistoryAssumption DEF CountLoadsDone, Now, Fields, ActorOK, Making,
      Lines, ObjectsTyped
  <2> QED
    BY <2>2, <2>5, <2>7, OthersOK
<1>9. ASSUME NEW a \in Actors, CountStoresDone(a) PROVE \A b \in Actors : ActorOK(b)'
  <2>1. ActorOK(a) /\ (holder = NoActor => holder # a)
    BY <1>0, HistoryAssumption
  <2>2. Hands(a) /\ answer' = answer /\ \A b \in Actors : b # a => actor'[b] = actor[b]
    BY <1>9, <2>1 DEF CountStoresDone, Now, Hands, ActorOK
  <2>5. \A o \in Dialogs : answer[o] # 0 => answer'[o] # 0
    BY <2>2
  <2>7. ActorOK(a)'
    BY <1>9, <1>d, <2>1, HistoryAssumption DEF CountStoresDone, Now, Fields, ActorOK, Making,
      Lines, ObjectsTyped
  <2> QED
    BY <2>2, <2>5, <2>7, OthersOK
<1>10. ASSUME NEW a \in Actors, SetMethodDone(a) PROVE \A b \in Actors : ActorOK(b)'
  <2>1. ActorOK(a) /\ (holder = NoActor => holder # a)
    BY <1>0, HistoryAssumption
  <2>2. Hands(a) /\ answer' = answer /\ \A b \in Actors : b # a => actor'[b] = actor[b]
    BY <1>10, <2>1 DEF SetMethodDone, Now, Hands, ActorOK
  <2>5. \A o \in Dialogs : answer[o] # 0 => answer'[o] # 0
    BY <2>2
  <2>7. ActorOK(a)'
    BY <1>10, <1>d, <2>1, HistoryAssumption DEF SetMethodDone, Now, Fields, ActorOK, Making,
      Lines, ObjectsTyped
  <2> QED
    BY <2>2, <2>5, <2>7, OthersOK
<1>11. ASSUME NEW a \in Actors, LoadNoDone(a) PROVE \A b \in Actors : ActorOK(b)'
  <2>1. ActorOK(a) /\ (holder = NoActor => holder # a)
    BY <1>0, HistoryAssumption
  <2>2. Hands(a) /\ answer' = answer /\ \A b \in Actors : b # a => actor'[b] = actor[b]
    BY <1>11, <2>1 DEF LoadNoDone, Now, Hands, ActorOK
  <2>5. \A o \in Dialogs : answer[o] # 0 => answer'[o] # 0
    BY <2>2
  <2>7. ActorOK(a)'
    BY <1>11, <1>d, <2>1, HistoryAssumption DEF LoadNoDone, Now, Fields, ActorOK, Making,
      Lines, ObjectsTyped
  <2> QED
    BY <2>2, <2>5, <2>7, OthersOK
<1>12. ASSUME NEW a \in Actors, StoreNoDone(a) PROVE \A b \in Actors : ActorOK(b)'
  <2>1. ActorOK(a) /\ (holder = NoActor => holder # a)
    BY <1>0, HistoryAssumption
  <2>2. Hands(a) /\ answer' = answer /\ \A b \in Actors : b # a => actor'[b] = actor[b]
    BY <1>12, <2>1 DEF StoreNoDone, Now, Hands, ActorOK
  <2>5. \A o \in Dialogs : answer[o] # 0 => answer'[o] # 0
    BY <2>2
  <2>7. ActorOK(a)'
    BY <1>12, <1>d, <2>1, HistoryAssumption DEF StoreNoDone, Now, Fields, ActorOK, Making,
      Lines, ObjectsTyped
  <2> QED
    BY <2>2, <2>5, <2>7, OthersOK
<1>13. ASSUME NEW a \in Actors, SendTextDone(a) PROVE \A b \in Actors : ActorOK(b)'
  <2>1. ActorOK(a) /\ (holder = NoActor => holder # a)
    BY <1>0, HistoryAssumption
  <2>2. Hands(a) /\ answer' = answer /\ \A b \in Actors : b # a => actor'[b] = actor[b]
    BY <1>13, <2>1 DEF SendTextDone, Now, Hands, ActorOK
  <2>5. \A o \in Dialogs : answer[o] # 0 => answer'[o] # 0
    BY <2>2
  <2>7. ActorOK(a)'
    BY <1>13, <1>d, <2>1, HistoryAssumption DEF SendTextDone, Now, Fields, ActorOK, Making,
      Lines, ObjectsTyped
  <2> QED
    BY <2>2, <2>5, <2>7, OthersOK
<1>14. CASE UNCHANGED requestVars
  BY <1>0, <1>14 DEF requestVars, ActorOK
<1> QED
  BY StepIs, <1>1, <1>2, <1>3, <1>4, <1>5, <1>6, <1>7, <1>8, <1>9, <1>10, <1>11, <1>12, <1>13,
    <1>14

\* What one actor does leaves the requests that the others make.
LEMMA OthersSend ==
  ASSUME HistInv, NEW a \in Actors,
         Quiet(a) \/ SetMethodDone(a) \/ StoreNoDone(a) \/ SendTextDone(a),
         NEW b \in Actors, b # a
  PROVE  Sends(b)' /\ Commands(b)'
<1> PICK d, o, r : d = actor[b].dlg /\ o = actor[b].obj /\ r = actor[b]
  OBVIOUS
<1>1. Sends(b) /\ Commands(b)
  BY DEF HistInv, SendingInv, CommandingInv
<1>2. /\ actor'[b] = actor[b] /\ mixed \subseteq mixed'
      /\ d \notin mixed' \cup {0} =>
           /\ header'[d] = header[d] /\ log'[d] = log[d]
           /\ r.op = "control" => controls'[o] = controls[o]
  BY OthersKeep
<1>3. r.op = "control" => d # 0
  BY DEF HistInv, ActorOK
<1>4. Sends(b)'
  BY <1>1, <1>2 DEF Sends, NumbersFor
<1>5. ASSUME r.op = "control", d \notin mixed' PROVE CommandsFor(b)'
  <2>1. CommandsFor(b)
    BY <1>1, <1>2, <1>5 DEF Commands
  <2>2. log'[d] = log[d] /\ controls'[o] = controls[o]
    BY <1>2, <1>3, <1>5
  <2> QED
    BY <1>2, <2>1, <2>2 DEF CommandsFor, CommandsOf
<1>6. Commands(b)'
  BY <1>2, <1>5 DEF Commands
<1> QED
  BY <1>4, <1>6

\* What an actor does keeps the request that it makes.
LEMMA SelfSends ==
  ASSUME HistInv, NEW a \in Actors,
         Quiet(a) \/ SetMethodDone(a) \/ StoreNoDone(a) \/ SendTextDone(a)
  PROVE  Sends(a)'
<1>0. /\ ActorOK(a) /\ Sends(a)
      /\ header \in [Dialogs -> [method : Lines \cup {"INVITE"}, no : Nat]]
  BY DEF HistInv, HistTables, SendingInv
<1> USE DEF Quiet
<1>1. CASE StartFreshDone(a) \/ StartFailsDone(a) \/ SendTextDone(a)
  <2>1. actor'[a].dlg = 0
    BY <1>1 DEF StartFreshDone, StartFailsDone, SendTextDone, Now, Fields
  <2> QED
    BY <2>1 DEF Sends
<1>2. CASE StartOverDone(a) \/ StopDone(a) \/ ControlDone(a)
  <2>1. actor'[a].pc \in {"invite", "method", "count"} /\ actor'[a].line # "ACK"
    BY <1>2 DEF StartOverDone, StopDone, ControlDone, Now, Fields
  <2> QED
    BY <2>1 DEF Sends, NumbersFor
<1>3. CASE AcceptedDone(a)
  <2>1. Unanswered(a)
    BY <1>0, <1>3 DEF AcceptedDone, ActorOK, Unanswered
  <2>2. Untouched(begun)
    BY <2>1 DEF HistInv, FreshStart
  <2>3. actor'[a].pc = "method" /\ actor'[a].dlg = begun /\ header' = header /\ log' = log
    BY <1>3 DEF AcceptedDone, Now, Fields
  <2> QED
    BY <2>2, <2>3 DEF Sends, NumbersFor, Untouched
<1>4. CASE StopUnansweredDone(a)
  BY <1>0, <1>4 DEF StopUnansweredDone, Sends, NumbersFor
<1>5. CASE CountLoadsDone(a) \/ CountStoresDone(a)
  <2>1. actor[a].op = "control" /\ actor[a].line = "INFO"
    BY <1>0, <1>5 DEF CountLoadsDone, CountStoresDone, ActorOK
  <2>2. actor'[a].pc \in {"counted", "method", "idle"} /\ actor'[a].line # "ACK"
    BY <1>5, <2>1 DEF CountLoadsDone, CountStoresDone, Now, Fields
  <2> QED
    BY <2>2 DEF Sends, NumbersFor
<1>6. CASE LoadNoDone(a)
  <2>1. /\ actor[a].pc = "load" /\ actor'[a].pc = "store" /\ actor'[a].line = actor[a].line
        /\ actor'[a].dlg = actor[a].dlg /\ actor'[a].no = header[actor[a].dlg].no
        /\ header' = header /\ log' = log /\ mixed' = mixed
    BY <1>6 DEF LoadNoDone, Now, Fields
  <2> QED
    BY <1>0, <2>1 DEF Sends, NumbersFor
<1>7. CASE SetMethodDone(a)
  <2>1. PICK d \in Dialogs :
          /\ header' = [header EXCEPT ![d].method = actor[a].line]
          /\ Now(a, IF actor[a].line # "ACK" THEN "load" ELSE "send", actor[a].op, actor[a].line,
                 actor[a].obj, d, actor[a].no, actor[a].cmd)
          /\ mixed \subseteq mixed' /\ (d = actor[a].dlg \/ d \in mixed')
    BY <1>7 DEF SetMethodDone
  <2>2. /\ actor'[a].dlg = d /\ actor'[a].line = actor[a].line
        /\ actor'[a].pc = IF actor[a].line # "ACK" THEN "load" ELSE "send"
    BY <2>1 DEF Now, Fields
  <2>3. header'[d].method = actor[a].line /\ header'[d].no = header[d].no
    BY <1>0, <2>1
  <2>4. log' = log
    BY <1>7 DEF SetMethodDone
  <2>5. ASSUME d \notin mixed' \cup {0} PROVE NumbersFor(a)'
    <3>1. d = actor[a].dlg /\ NumbersFor(a)
      BY <1>0, <2>1, <2>5 DEF Sends
    <3> QED
      BY <2>2, <2>3, <2>4, <3>1 DEF NumbersFor
  <2> QED
    BY <2>2, <2>5 DEF Sends
<1>8. CASE StoreNoDone(a)
  <2>0. PICK d : d = actor[a].dlg
    OBVIOUS
  <2>1. d \in Dialogs
    BY <1>8, <2>0, MakersDialog DEF StoreNoDone, Making
  <2>2. /\ actor[a].pc = "store" /\ actor'[a].pc = "send" /\ actor'[a].line = actor[a].line
        /\ actor'[a].dlg = d /\ log' = log /\ mixed' = mixed
        /\ header' = [header EXCEPT ![d].no = actor[a].no + 1]
    BY <1>8, <2>0 DEF StoreNoDone, Now, Fields
  <2>3. header'[d].method = header[d].method /\ header'[d].no = actor[a].no + 1
    BY <1>0, <2>1, <2>2
  <2>4. ASSUME d \notin mixed \cup {0} PROVE NumbersFor(a)'
    <3>1. NumbersFor(a) /\ NumbersOf(d)
      BY <1>0, <2>0, <2>1, <2>4 DEF Sends, HistInv, SentInv
    <3>2. /\ actor[a].no = header[d].no /\ actor[a].line # "ACK"
          /\ header[d].method = actor[a].line
      BY <2>0, <2>2, <3>1 DEF NumbersFor
    <3>3. header[d].no \in Nat /\ \A i \in 1..Len(log[d]) : log[d][i].no \in Nat
      BY <2>1, NumericIs DEF HistInv, Numeric
    <3>4. \A i \in 1..Len(log[d]) : log[d][i].no <= header[d].no
      BY <3>1 DEF NumbersOf
    <3>5. \A i \in 1..Len(log[d]) : log[d][i].no < header'[d].no
      BY <2>3, <3>2, <3>3, <3>4
    <3> QED
      BY <2>2, <2>3, <3>2, <3>5 DEF NumbersFor
  <2> QED
    BY <2>2, <2>4 DEF Sends
<1> QED
  BY <1>1, <1>2, <1>3, <1>4, <1>5, <1>6, <1>7, <1>8

\* What an actor does keeps the command that it makes.
LEMMA SelfCommands ==
  ASSUME HistInv, NEW a \in Actors,
         Quiet(a) \/ SetMethodDone(a) \/ StoreNoDone(a) \/ SendTextDone(a)
  PROVE  Commands(a)'
<1>0. ActorOK(a) /\ Commands(a) /\ Numeric
  BY NumericIs DEF HistInv, CommandingInv
<1> USE DEF Quiet
<1>1. CASE StartFreshDone(a) \/ StartOverDone(a) \/ StartFailsDone(a) \/ AcceptedDone(a)
           \/ StopDone(a) \/ SendTextDone(a)
  <2>1. actor'[a].op # "control"
    BY <1>0, <1>1 DEF StartFreshDone, StartOverDone, StartFailsDone, AcceptedDone, StopDone,
      SendTextDone, Now, Fields, ActorOK
  <2> QED
    BY <2>1 DEF Commands
<1>2. CASE StopUnansweredDone(a)
  BY <1>0, <1>2 DEF StopUnansweredDone, Commands, CommandsFor, CommandsOf
<1>3. CASE ControlDone(a)
  <2>1. /\ actor'[a].pc \in {"method", "count"} /\ actor'[a].cmd = 0
        /\ actor'[a].obj = mapped /\ actor'[a].dlg = answer[mapped] /\ answer[mapped] # 0 /\ mapped # 0
        /\ mixed \subseteq mixed' /\ log' = log /\ controls' = controls
    BY <1>3 DEF ControlDone, Now, Fields, Mixes
  <2>2. answer[mapped] \notin mixed' => CommandsOf(answer[mapped], controls[mapped])
    BY <2>1 DEF HistInv, MappedCommands
  <2> QED
    BY <2>1, <2>2 DEF Commands, CommandsFor, CommandsOf
<1>4. CASE CountLoadsDone(a)
  <2>1. /\ actor[a].pc = "count" /\ actor'[a].pc = "counted"
        /\ actor'[a].obj = actor[a].obj /\ actor'[a].dlg = actor[a].dlg /\ actor'[a].op = actor[a].op
        /\ actor'[a].cmd = controls[actor[a].obj] + 1
        /\ mixed' = mixed /\ log' = log /\ controls' = controls
    BY <1>4 DEF CountLoadsDone, Now, Fields
  <2> QED
    BY <1>0, <2>1 DEF Commands, CommandsFor, CommandsOf
<1>5. CASE CountStoresDone(a)
  <2>1. CASE actor'[a].op # "control"
    BY <2>1 DEF Commands
  <2>2. CASE actor'[a].op = "control"
    <3>0. PICK d, o : d = actor[a].dlg /\ o = actor[a].obj
      OBVIOUS
    <3>1. d \in Dialogs /\ o \in Dialogs
      BY <1>5, <3>0, MakersDialog DEF CountStoresDone, Making
    <3>2. /\ actor[a].pc = "counted" /\ actor'[a].pc = "method" /\ actor'[a].obj = o
          /\ actor'[a].dlg = d /\ actor'[a].cmd = actor[a].cmd
          /\ mixed' = mixed /\ log' = log /\ actor[a].op = "control"
      BY <1>0, <1>5, <2>2, <3>0 DEF CountStoresDone, Now, Fields, ActorOK
    <3>3. controls'[o] = actor[a].cmd
      BY <1>5, <3>0, <3>1 DEF CountStoresDone, HistInv, HistTables
    <3>4. ASSUME d \notin mixed PROVE CommandsFor(a)'
      <4>1. CommandsOf(d, controls[o]) /\ actor[a].cmd = controls[o] + 1
        BY <1>0, <3>0, <3>2, <3>4 DEF Commands, CommandsFor
      <4>2. controls[o] \in Nat /\ \A i \in 1..Len(log[d]) : log[d][i].cmd \in Nat
        BY <1>0, <3>1 DEF Numeric
      <4>3. \A i \in 1..Len(log[d]) : log[d][i].cmd < actor[a].cmd
        BY <4>1, <4>2 DEF CommandsOf
      <4>4. actor[a].cmd \in Nat
        BY <1>0 DEF Numeric
      <4>5. actor[a].cmd <= controls'[o]
        BY <3>3, <4>4
      <4> QED
        BY <3>2, <4>3, <4>5 DEF CommandsFor
    <3> QED
      BY <3>2, <3>4 DEF Commands
  <2> QED
    BY <2>1, <2>2
<1>6. CASE LoadNoDone(a) \/ StoreNoDone(a)
  <2>1. /\ actor[a].pc \in {"load", "store"} /\ actor'[a].pc \in {"store", "send"}
        /\ actor'[a].obj = actor[a].obj /\ actor'[a].dlg = actor[a].dlg /\ actor'[a].op = actor[a].op
        /\ actor'[a].cmd = actor[a].cmd
        /\ mixed' = mixed /\ log' = log /\ controls' = controls
    BY <1>6 DEF LoadNoDone, StoreNoDone, Now, Fields
  <2> QED
    BY <1>0, <2>1 DEF Commands, CommandsFor, CommandsOf
<1>7. CASE SetMethodDone(a)
  <2>1. PICK d \in Dialogs :
          /\ Now(a, IF actor[a].line # "ACK" THEN "load" ELSE "send", actor[a].op, actor[a].line,
                 actor[a].obj, d, actor[a].no, actor[a].cmd)
          /\ mixed \subseteq mixed' /\ (d = actor[a].dlg \/ d \in mixed')
    BY <1>7 DEF SetMethodDone
  <2>2. /\ actor'[a].dlg = d /\ actor'[a].obj = actor[a].obj /\ actor'[a].op = actor[a].op
        /\ actor'[a].cmd = actor[a].cmd /\ actor'[a].pc \in {"load", "send"}
    BY <2>1 DEF Now, Fields
  <2>3. log' = log /\ controls' = controls /\ actor[a].pc = "method"
    BY <1>7 DEF SetMethodDone
  <2>4. ASSUME d \notin mixed', actor[a].op = "control" PROVE CommandsFor(a)'
    <3>1. d = actor[a].dlg /\ CommandsFor(a)
      BY <1>0, <2>1, <2>4 DEF Commands
    <3> QED
      BY <2>2, <2>3, <3>1 DEF CommandsFor
  <2> QED
    BY <2>2, <2>4 DEF Commands
<1> QED
  BY <1>1, <1>2, <1>3, <1>4, <1>5, <1>6, <1>7

\* Every step keeps the requests and the commands in the making.
LEMMA SendingStep == HistInv /\ [HistoryNext]_requestVars => SendingInv' /\ CommandingInv'
<1> SUFFICES ASSUME HistInv, [HistoryNext]_requestVars PROVE SendingInv' /\ CommandingInv'
  OBVIOUS
<1>1. ASSUME NEW a \in Actors, Quiet(a) \/ SetMethodDone(a) \/ StoreNoDone(a) \/ SendTextDone(a)
      PROVE  SendingInv' /\ CommandingInv'
  BY <1>1, OthersSend, SelfSends, SelfCommands DEF SendingInv, CommandingInv
<1>2. CASE UNCHANGED requestVars
  BY <1>2 DEF requestVars, HistInv, SendingInv, CommandingInv, Sends, Commands, NumbersFor,
    CommandsFor,
    CommandsOf
<1> QED
  BY <1>1, <1>2, StepKinds

\* Every step keeps the commands of a dialog in order, while it is not mixed.
LEMMA CommandsStep == HistInv /\ [HistoryNext]_requestVars => CommandsInv'
<1> SUFFICES ASSUME HistInv, [HistoryNext]_requestVars PROVE CommandsInv'
  OBVIOUS
<1>1. CommandsInv /\ CommandingInv /\ Numeric
  BY NumericIs DEF HistInv
<1>2. ASSUME log' = log, mixed \subseteq mixed' PROVE CommandsInv'
  BY <1>1, <1>2 DEF CommandsInv, CommandsRise
<1>3. ASSUME NEW a \in Actors, SendTextDone(a), log' # log PROVE CommandsInv'
  <2>0. PICK d : d = actor[a].dlg
    OBVIOUS
  <2>1. mixed' = mixed
    BY <1>3 DEF SendTextDone
  <2>2. ASSUME NEW e \in Dialogs \ mixed, e # d PROVE CommandsRise(e)'
    <3>1. log'[e] = log[e] /\ CommandsRise(e)
      BY <1>1, <1>3, <2>0, <2>2, SentIs DEF CommandsInv
    <3> QED
      BY <3>1 DEF CommandsRise
  <2>3. ASSUME d \notin mixed PROVE CommandsRise(d)'
    <3>1. /\ d \in Dialogs /\ Len(log[d]) \in Nat /\ Len(log'[d]) = Len(log[d]) + 1
          /\ \A i \in 1..Len(log[d]) : log'[d][i] = log[d][i]
          /\ log'[d][Len(log[d]) + 1] = Made(a)
      BY <1>3, <2>0, SentIs
    <3>2. Made(a).cmd = actor[a].cmd /\ actor[a].cmd \in Nat
      BY <1>1 DEF Made, Numeric
    <3>3. actor[a].cmd # 0 => \A i \in 1..Len(log[d]) : log[d][i].cmd < actor[a].cmd
      <4>1. ActorOK(a) /\ Commands(a) /\ actor[a].pc = "send"
        BY <1>1, <1>3 DEF HistInv, CommandingInv, SendTextDone
      <4>2. actor[a].cmd # 0 => CommandsFor(a)
        BY <2>0, <2>3, <4>1 DEF ActorOK, Commands
      <4> QED
        BY <2>0, <4>1, <4>2 DEF CommandsFor
    <3>4. CommandsRise(d) /\ \A i \in 1..Len(log[d]) : log[d][i].cmd \in Nat
      BY <1>1, <2>3, <3>1 DEF CommandsInv, Numeric
    <3> DEFINE n == Len(log[d])
               s == log'[d]
               m == Made(a)
    <3>5. /\ n \in Nat /\ Len(s) = n + 1 /\ s[n + 1] = m /\ (\A i \in 1..n : s[i] = log[d][i])
          /\ m.cmd # 0 => \A i \in 1..n : log[d][i].cmd < m.cmd
      BY <3>1, <3>2, <3>3
    <3>6. \A i, j \in 1..n : i < j /\ log[d][i].cmd # 0 /\ log[d][j].cmd # 0 => log[d][i].cmd < log[d][j].cmd
      BY <3>4 DEF CommandsRise
    <3>7. log'[d] = s
      OBVIOUS
    <3> HIDE DEF n, s, m
    <3>8. \A i, j \in 1..(n + 1) : i < j /\ s[i].cmd # 0 /\ s[j].cmd # 0 => s[i].cmd < s[j].cmd
      BY <3>5, <3>6
    <3> QED
      BY <3>5, <3>7, <3>8 DEF CommandsRise
  <2> QED
    BY <2>0, <2>1, <2>2, <2>3 DEF CommandsInv
<1>4. ASSUME NEW a \in Actors, Quiet(a) \/ SetMethodDone(a) \/ StoreNoDone(a) \/ SendTextDone(a)
      PROVE  (log' = log /\ mixed \subseteq mixed') \/ (SendTextDone(a) /\ log' # log)
  <2>1. CASE Quiet(a)
    BY <2>1, QuietIs
  <2>2. CASE SetMethodDone(a)
    BY <2>2 DEF SetMethodDone
  <2>3. CASE StoreNoDone(a)
    BY <2>3 DEF StoreNoDone
  <2>4. CASE SendTextDone(a)
    BY <2>4 DEF SendTextDone
  <2> QED
    BY <1>4, <2>1, <2>2, <2>3, <2>4
<1>5. CASE UNCHANGED requestVars
  BY <1>2, <1>5 DEF requestVars
<1> QED
  BY <1>2, <1>3, <1>4, <1>5, StepKinds

\* Every step keeps the commands sent within the counter of the mapped object.
LEMMA MappedCommandsStep == HistInv /\ [HistoryNext]_requestVars => MappedCommands'
<1> SUFFICES ASSUME HistInv, [HistoryNext]_requestVars PROVE MappedCommands'
  OBVIOUS
<1>0. MappedCommands /\ ObjectsTyped /\ Numeric
  BY NumericIs DEF HistInv, HistTables
<1>1. ASSUME mapped' = 0 PROVE MappedCommands'
  BY <1>1 DEF MappedCommands
<1>2. ASSUME mapped' = mapped, answer' = answer, controls' = controls, log' = log, mixed \subseteq mixed'
      PROVE  MappedCommands'
  BY <1>0, <1>2 DEF MappedCommands, CommandsOf
<1>3. ASSUME NEW a \in Actors, StartFreshDone(a) PROVE MappedCommands'
  <2>1. mapped' = begun + 1 /\ answer' = answer /\ begun < MaxStarts
    BY <1>3 DEF StartFreshDone
  <2>2. begun + 1 \in Dialogs /\ begun + 1 > begun
    BY <1>0, <2>1, HistoryAssumption DEF ObjectsTyped, Dialogs
  <2>3. answer[begun + 1] = 0
    BY <2>2 DEF HistInv, NoneBeyond
  <2> QED
    BY <2>1, <2>3 DEF MappedCommands
<1>4. ASSUME NEW a \in Actors, AcceptedDone(a) PROVE MappedCommands'
  <2>0. Unanswered(a)
    BY <1>4 DEF AcceptedDone, HistInv, ActorOK, Unanswered
  <2>1. Untouched(begun) /\ begun # 0
    BY <2>0 DEF HistInv, FreshStart
  <2>2. /\ mapped' = mapped /\ controls' = controls /\ log' = log /\ mixed \subseteq mixed'
        /\ answer' = [answer EXCEPT ![actor[a].obj] = begun]
    BY <1>4, <2>1 DEF AcceptedDone, Mixes
  <2>3. CASE mapped = 0
    BY <1>1, <2>2, <2>3
  <2>4. CASE mapped # 0
    <3>1. mapped \in Dialogs
      BY <1>0, <2>4, HistoryAssumption DEF ObjectsTyped, Dialogs
    <3>2. answer'[mapped] \in {answer[mapped], begun}
      BY <1>0, <2>2, <3>1 DEF ObjectsTyped
    <3>3. CommandsOf(begun, controls[mapped])
      BY <2>1 DEF Untouched, CommandsOf
    <3>4. answer'[mapped] \in mixed \cup {0} \/ CommandsOf(answer'[mapped], controls[mapped])
      BY <1>0, <2>4, <3>2, <3>3 DEF MappedCommands
    <3> QED
      BY <2>2, <3>4 DEF MappedCommands, CommandsOf
  <2> QED
    BY <2>3, <2>4
<1>5. ASSUME NEW a \in Actors, CountStoresDone(a) PROVE MappedCommands'
  <2>1. /\ mapped' = mapped /\ answer' = answer /\ log' = log /\ mixed' = mixed
        /\ controls' = [controls EXCEPT ![actor[a].obj] = actor[a].cmd] /\ actor[a].pc = "counted"
    BY <1>5 DEF CountStoresDone
  <2>2. actor[a].obj \in Dialogs /\ actor[a].dlg \in Dialogs /\ controls \in [Dialogs -> Nat]
    BY <2>1, MakersDialog DEF Making, HistInv, HistTables
  <2>3. CASE mapped = 0
    BY <1>1, <2>1, <2>3
  <2>4. ASSUME mapped # 0, answer[mapped] \notin mixed \cup {0}
        PROVE  CommandsOf(answer[mapped], controls'[mapped])
    <3>0. mapped \in Dialogs
      BY <1>0, <2>4, HistoryAssumption DEF ObjectsTyped, Dialogs
    <3>1. CommandsOf(answer[mapped], controls[mapped])
      BY <1>0, <2>4 DEF MappedCommands
    <3>2. CASE mapped # actor[a].obj
      BY <2>1, <2>2, <3>0, <3>1, <3>2
    <3>3. CASE mapped = actor[a].obj
      <4>1. WorksInPlace(a)
        BY <2>1 DEF WorksInPlace, Early, HistInv, ActorOK
      <4>2. actor[a].dlg = answer[mapped] /\ actor[a].op = "control"
        BY <3>3, <4>1 DEF HistInv, MappedPlace, WorksInPlace
      <4>3. actor[a].cmd = controls[mapped] + 1
        BY <2>1, <2>4, <3>3, <4>2 DEF HistInv, CommandingInv, Commands, CommandsFor
      <4>4. controls'[mapped] = controls[mapped] + 1
        BY <2>1, <2>2, <3>3, <4>3
      <4>5. answer[mapped] \in Dialogs /\ controls[mapped] \in Nat
        BY <2>2, <3>0, <4>2
      <4>6. \A i \in 1..Len(log[answer[mapped]]) : log[answer[mapped]][i].cmd \in Nat
        BY <1>0, <4>5 DEF Numeric
      <4> QED
        BY <3>1, <4>4, <4>5, <4>6 DEF CommandsOf
    <3> QED
      BY <3>2, <3>3
  <2>5. CASE mapped # 0
    BY <2>1, <2>4, <2>5 DEF MappedCommands, CommandsOf
  <2> QED
    BY <2>3, <2>5
<1>6. ASSUME NEW a \in Actors, SendTextDone(a) PROVE MappedCommands'
  <2>1. mapped' = mapped /\ answer' = answer /\ controls' = controls /\ mixed' = mixed /\ actor[a].pc = "send"
    BY <1>6 DEF SendTextDone
  <2>2. CASE log' = log
    BY <1>2, <2>1, <2>2
  <2>3. ASSUME log' # log, mapped # 0, answer[mapped] \notin mixed \cup {0} PROVE MappedCommands'
    <3>0. PICK d : d = answer[mapped]
      OBVIOUS
    <3>1. CommandsOf(d, controls[mapped]) /\ mapped \in Dialogs
      BY <1>0, <2>3, <3>0, HistoryAssumption DEF MappedCommands, ObjectsTyped, Dialogs
    <3>2. d \in Dialogs
      BY <1>0, <2>3, <3>0, <3>1, HistoryAssumption DEF ObjectsTyped, Dialogs
    <3>3. CASE d # actor[a].dlg
      <4>1. log'[d] = log[d]
        BY <1>6, <2>3, <3>2, <3>3, SentIs
      <4> QED
        BY <2>1, <3>0, <3>1, <4>1 DEF MappedCommands, CommandsOf
    <3>4. CASE d = actor[a].dlg
      <4>1. actor[a].obj = mapped
        BY <2>3, <3>0, <3>1, <3>4 DEF HistInv, OwnObject
      <4>2. actor[a].cmd <= controls[mapped]
        <5>1. CASE actor[a].cmd = 0
          BY <1>0, <3>1, <5>1 DEF Numeric
        <5>2. CASE actor[a].cmd # 0
          <6>1. actor[a].op = "control"
            BY <5>2 DEF HistInv, ActorOK
          <6>2. CommandsFor(a)
            BY <2>3, <3>0, <3>4, <6>1 DEF HistInv, CommandingInv, Commands
          <6> QED
            BY <2>1, <4>1, <5>2, <6>2 DEF CommandsFor
        <5> QED
          BY <5>1, <5>2
      <4>3. /\ Len(log[d]) \in Nat /\ Len(log'[d]) = Len(log[d]) + 1
            /\ \A i \in 1..Len(log[d]) : log'[d][i] = log[d][i]
            /\ log'[d][Len(log[d]) + 1] = Made(a)
        BY <1>6, <2>3, <3>4, SentIs
      <4>4. Made(a).cmd = actor[a].cmd
        BY DEF Made
      <4> DEFINE n == Len(log[d])
                 s == log'[d]
                 m == Made(a)
                 most == controls[mapped]
      <4>5. /\ n \in Nat /\ Len(s) = n + 1 /\ s[n + 1] = m /\ (\A i \in 1..n : s[i] = log[d][i])
            /\ m.cmd <= most /\ \A i \in 1..n : log[d][i].cmd <= most
        BY <3>1, <4>2, <4>3, <4>4 DEF CommandsOf
      <4>6. log'[d] = s /\ controls'[mapped'] = most
        BY <2>1
      <4> HIDE DEF n, s, m, most
      <4>7. \A i \in 1..(n + 1) : s[i].cmd <= most
        BY <4>5
      <4>8. CommandsOf(d, controls[mapped])'
        BY <4>5, <4>6, <4>7 DEF CommandsOf
      <4> QED
        BY <2>1, <3>0, <4>8 DEF MappedCommands, CommandsOf
    <3> QED
      BY <3>3, <3>4
  <2>4. CASE mapped = 0 \/ answer[mapped] \in mixed \cup {0}
    BY <2>1, <2>4 DEF MappedCommands
  <2> QED
    BY <2>2, <2>3, <2>4
<1>7. ASSUME NEW a \in Actors, StartOverDone(a) \/ StopDone(a) \/ StopUnansweredDone(a)
      PROVE  MappedCommands'
  <2>1. mapped' = 0
    BY <1>7 DEF StartOverDone, StopDone, StopUnansweredDone
  <2> QED
    BY <1>1, <2>1
<1>8. ASSUME NEW a \in Actors,
             StartFailsDone(a) \/ ControlDone(a) \/ CountLoadsDone(a) \/ SetMethodDone(a)
               \/ LoadNoDone(a) \/ StoreNoDone(a)
      PROVE  MappedCommands'
  <2>1. /\ mapped' = mapped /\ answer' = answer /\ controls' = controls /\ log' = log
        /\ mixed \subseteq mixed'
    BY <1>8 DEF StartFailsDone, ControlDone, CountLoadsDone, SetMethodDone, LoadNoDone,
      StoreNoDone, Mixes
  <2> QED
    BY <1>2, <2>1
<1>9. CASE UNCHANGED requestVars
  BY <1>2, <1>9 DEF requestVars
<1> QED
  BY StepIs, <1>3, <1>4, <1>5, <1>6, <1>7, <1>8, <1>9

\* Every step keeps the objects and the dialogs within the starts.
LEMMA ObjectsStep == HistInv /\ [HistoryNext]_requestVars => ObjectsTyped'
<1> SUFFICES ASSUME HistInv, [HistoryNext]_requestVars PROVE ObjectsTyped'
  OBVIOUS
<1>0. ObjectsTyped /\ MaxStarts \in Nat
  BY HistoryAssumption DEF HistInv, HistTables
<1>1. holder' \in Actors \cup {NoActor}
  <2>1. ASSUME NEW a \in Actors,
               \/ StartFreshDone(a) \/ StartOverDone(a) \/ StartFailsDone(a) \/ AcceptedDone(a)
               \/ StopDone(a) \/ StopUnansweredDone(a)
               \/ ControlDone(a) \/ CountLoadsDone(a) \/ CountStoresDone(a)
               \/ SetMethodDone(a) \/ LoadNoDone(a) \/ StoreNoDone(a) \/ SendTextDone(a)
        PROVE  holder' \in {holder, a, NoActor}
    BY <2>1 DEF StartFreshDone, StartOverDone, StartFailsDone, AcceptedDone, StopDone,
      StopUnansweredDone, ControlDone, CountLoadsDone, CountStoresDone, SetMethodDone, LoadNoDone,
      StoreNoDone, SendTextDone
  <2>2. CASE UNCHANGED requestVars
    BY <1>0, <2>2 DEF requestVars, ObjectsTyped
  <2> QED
    BY <1>0, <2>1, <2>2, StepIs DEF ObjectsTyped
<1> DEFINE G == /\ begun' \in 0..MaxStarts /\ mapped' \in 0..begun'
                /\ answer' \in [Dialogs -> 0..begun']
                /\ \A a \in Actors : actor'[a].obj \in 0..begun' /\ actor'[a].dlg \in 0..begun'
<1>2. ASSUME NEW a \in Actors, Plays(a), \A b \in Actors : b # a => SameRole(b) PROVE G
  <2>0. /\ begun \in 0..MaxStarts /\ mapped \in 0..begun /\ answer \in [Dialogs -> 0..begun]
        /\ \A b \in Actors : actor[b].obj \in 0..begun /\ actor[b].dlg \in 0..begun
    BY <1>0 DEF ObjectsTyped
  <2>1. begun' \in {begun, begun + 1} /\ begun' \in 0..MaxStarts
    BY <1>0, <2>0, BegunStep
  <2>2. 0..begun \subseteq 0..begun'
    BY <2>0, <2>1
  <2>3. \A b \in Actors : b # a => actor'[b].obj \in 0..begun' /\ actor'[b].dlg \in 0..begun'
    BY <1>2, <2>0, <2>2 DEF SameRole
  <2>4. answer' \in [Dialogs -> 0..begun]
    <3>1. answer' = answer \/ answer' = [answer EXCEPT ![actor[a].obj] = begun]
      BY <1>2 DEF Plays, Opens, Takes, Accepts, Retains, Moves, Rests
    <3> QED
      BY <2>0, <3>1
  <2>5. mapped' \in {0, mapped, begun'} /\ mapped' \in 0..begun'
    <3>1. mapped' \in {0, mapped, begun'}
      BY <1>2 DEF Plays, Opens, Takes, Accepts, Retains, Moves, Rests
    <3> QED
      BY <2>0, <2>1, <2>2, <3>1
  <2>6. actor'[a].dlg \in 0..begun'
    <3>1. CASE Takes(a)
      <4>1. actor'[a].dlg = answer[mapped] /\ mapped \in Dialogs
        BY <1>0, <2>0, <3>1 DEF Takes, Dialogs
      <4> QED
        BY <2>0, <2>2, <4>1
    <3>2. CASE Moves(a)
      BY <2>0, <2>2, <3>2 DEF Moves
    <3>3. CASE ~Takes(a) /\ ~Moves(a)
      <4>1. actor'[a].dlg \in {0, begun, actor[a].dlg}
        BY <1>2, <3>3 DEF Plays, Opens, Accepts, Retains, Rests, SameRole
      <4> QED
        BY <2>0, <2>1, <2>2, <4>1
    <3> QED
      BY <3>1, <3>2, <3>3
  <2>7. actor'[a].obj \in 0..begun'
    <3>1. ASSUME NEW b \in Actors,
                 \/ StartFreshDone(b) \/ StartOverDone(b) \/ StartFailsDone(b) \/ AcceptedDone(b)
                 \/ StopDone(b) \/ StopUnansweredDone(b)
                 \/ ControlDone(b) \/ CountLoadsDone(b) \/ CountStoresDone(b)
                 \/ SetMethodDone(b) \/ LoadNoDone(b) \/ StoreNoDone(b) \/ SendTextDone(b)
          PROVE  \A c \in Actors : actor'[c].obj \in {0, mapped, begun', actor[c].obj}
      <4>1. CASE StopUnansweredDone(b)
        BY <4>1 DEF StopUnansweredDone
      <4>2. CASE ~StopUnansweredDone(b)
        <5>1. \A c \in Actors : c # b => actor'[c] = actor[c]
          BY <3>1, <4>2 DEF StartFreshDone, StartOverDone, StartFailsDone, AcceptedDone, StopDone,
            ControlDone, CountLoadsDone, CountStoresDone, SetMethodDone, LoadNoDone,
            StoreNoDone, SendTextDone, Now
        <5>2. actor'[b].obj \in {0, mapped, begun', actor[b].obj}
          BY <3>1, <4>2 DEF StartFreshDone, StartOverDone, StartFailsDone, AcceptedDone, StopDone,
            ControlDone, CountLoadsDone, CountStoresDone, SetMethodDone, LoadNoDone,
            StoreNoDone, SendTextDone, Now, Fields
        <5> QED
          BY <5>1, <5>2
      <4> QED
        BY <4>1, <4>2
    <3>2. CASE UNCHANGED requestVars
      BY <2>0, <2>2, <3>2 DEF requestVars
    <3>3. actor'[a].obj \in {0, mapped, begun', actor[a].obj} \/ UNCHANGED requestVars
      BY <3>1, StepIs
    <3> QED
      BY <2>0, <2>1, <2>2, <3>2, <3>3
  <2>8. answer' \in [Dialogs -> 0..begun']
    <3> HIDE DEF Dialogs
    <3> QED
      BY <2>2, <2>4
  <2> QED
    BY <2>1, <2>3, <2>5, <2>6, <2>7, <2>8
<1>3. CASE UNCHANGED requestVars
  BY <1>0, <1>3 DEF requestVars, ObjectsTyped
<1>4. G
  BY <1>2, <1>3, Roles DEF ObjectsTyped
<1> QED
  BY <1>1, <1>4 DEF ObjectsTyped

\* Every step keeps the types of the tables.
LEMMA TablesStep == HistInv /\ [HistoryNext]_requestVars => HistTables'
<1> SUFFICES ASSUME HistInv, [HistoryNext]_requestVars PROVE HistTables'
  OBVIOUS
<1>0. ObjectsTyped'
  BY ObjectsStep
<1> DEFINE Headers == [method : Lines \cup {"INVITE"}, no : Nat]
<1>1. /\ controls \in [Dialogs -> Nat] /\ header \in [Dialogs -> Headers]
      /\ actor \in [Actors -> ActorStates] /\ log \in [Dialogs -> Seq(Requests)] /\ Numeric
  BY NumericIs DEF HistInv, HistTables
<1>2. ASSUME NEW a \in Actors,
             \/ StartFreshDone(a) \/ StartOverDone(a) \/ StartFailsDone(a) \/ AcceptedDone(a)
             \/ StopDone(a) \/ StopUnansweredDone(a)
             \/ ControlDone(a) \/ CountLoadsDone(a) \/ CountStoresDone(a)
             \/ SetMethodDone(a) \/ LoadNoDone(a) \/ StoreNoDone(a) \/ SendTextDone(a)
      PROVE  actor' \in [Actors -> ActorStates] /\ controls' \in [Dialogs -> Nat]
  <2>1. actor' \in [Actors -> ActorStates]
    BY <1>1, <1>2 DEF StartFreshDone, StartOverDone, StartFailsDone, AcceptedDone, StopDone,
      StopUnansweredDone, ControlDone, CountLoadsDone, CountStoresDone, SetMethodDone, LoadNoDone,
      StoreNoDone, SendTextDone, Now
  <2>2. controls' = controls \/ controls' = [controls EXCEPT ![actor[a].obj] = actor[a].cmd]
    BY <1>2 DEF StartFreshDone, StartOverDone, StartFailsDone, AcceptedDone, StopDone,
      StopUnansweredDone, ControlDone, CountLoadsDone, CountStoresDone, SetMethodDone, LoadNoDone,
      StoreNoDone, SendTextDone
  <2>3. actor[a].cmd \in Nat
    BY <1>1 DEF Numeric
  <2> QED
    BY <1>1, <2>1, <2>2, <2>3
<1>3. ASSUME NEW a \in Actors, Quiet(a) \/ SetMethodDone(a) \/ StoreNoDone(a) \/ SendTextDone(a)
      PROVE  header' \in [Dialogs -> Headers] /\ log' \in [Dialogs -> Seq(Requests)]
  <2>1. CASE Quiet(a)
    BY <1>1, <2>1, QuietIs
  <2>2. CASE SetMethodDone(a)
    <3>1. actor[a].line \in Lines
      BY <2>2 DEF SetMethodDone, HistInv, ActorOK, Making
    <3>2. PICK d \in Dialogs : header' = [header EXCEPT ![d].method = actor[a].line]
      BY <2>2 DEF SetMethodDone
    <3>3. [header[d] EXCEPT !.method = actor[a].line] \in Headers
      BY <1>1, <3>1
    <3>4. header' = [header EXCEPT ![d] = [header[d] EXCEPT !.method = actor[a].line]]
      BY <3>2
    <3>5. log' = log
      BY <2>2 DEF SetMethodDone
    <3> HIDE DEF Headers
    <3> QED
      BY <1>1, <3>3, <3>4, <3>5
  <2>3. CASE StoreNoDone(a)
    <3>1. actor[a].no + 1 \in Nat /\ actor[a].dlg \in Dialogs
      BY <1>1, <2>3, MakersDialog DEF StoreNoDone, Numeric, Making
    <3>2. [header[actor[a].dlg] EXCEPT !.no = actor[a].no + 1] \in Headers
      BY <1>1, <3>1
    <3>3. header' = [header EXCEPT ![actor[a].dlg] = [header[actor[a].dlg] EXCEPT !.no = actor[a].no + 1]]
      BY <2>3 DEF StoreNoDone
    <3>4. log' = log
      BY <2>3 DEF StoreNoDone
    <3> HIDE DEF Headers
    <3> QED
      BY <1>1, <3>2, <3>3, <3>4
  <2>4. CASE SendTextDone(a)
    <3>1. actor[a].dlg \in Dialogs /\ actor[a].line \in Lines /\ actor[a].cmd \in Nat
      BY <1>1, <2>4, MakersDialog DEF SendTextDone, Making, Numeric, HistInv, ActorOK
    <3>2. header[actor[a].dlg].method \in Lines \cup {"INVITE"} /\ header[actor[a].dlg].no \in Nat
      BY <1>1, <3>1
    <3>3. Made(a) \in Requests
      BY <3>1, <3>2 DEF Made, Requests
    <3>4. Append(log[actor[a].dlg], Made(a)) \in Seq(Requests)
      BY <1>1, <3>1, <3>3
    <3>5. /\ header' = header
          /\ log' = log \/ log' = [log EXCEPT ![actor[a].dlg] = Append(log[actor[a].dlg], Made(a))]
      BY <2>4 DEF SendTextDone
    <3> QED
      BY <1>1, <3>4, <3>5
  <2> QED
    BY <1>3, <2>1, <2>2, <2>3, <2>4
<1>4. CASE UNCHANGED requestVars
  BY <1>0, <1>1, <1>4 DEF requestVars, HistTables
<1>5. (actor' \in [Actors -> ActorStates] /\ controls' \in [Dialogs -> Nat]) \/ UNCHANGED requestVars
  BY <1>2, StepIs
<1>6. (header' \in [Dialogs -> Headers] /\ log' \in [Dialogs -> Seq(Requests)]) \/ UNCHANGED requestVars
  BY <1>3, StepKinds
<1> QED
  BY <1>0, <1>4, <1>5, <1>6 DEF HistTables

\* Nothing is mapped, and no request was made.
LEMMA HistoryStarts == HistoryInit => HistInv
<1> SUFFICES ASSUME HistoryInit PROVE HistInv
  OBVIOUS
<1>1. \A a \in Actors : Fields(actor[a], "idle", "none", "none", 0, 0, 0, 0)
  <2> TAKE a \in Actors
  <2>1. actor[a] = Idle
    BY DEF HistoryInit
  <2> QED
    BY <2>1, IdleIs
<1>2. HistTables
  <2>1. ObjectsTyped
    BY <1>1, HistoryAssumption DEF HistoryInit, ObjectsTyped, Fields
  <2>2. [method |-> "INVITE", no |-> InviteNo] \in [method : Lines \cup {"INVITE"}, no : Nat]
    BY DEF InviteNo
  <2>3. header \in [Dialogs -> [method : Lines \cup {"INVITE"}, no : Nat]]
    BY <2>2 DEF HistoryInit
  <2>4. actor \in [Actors -> ActorStates]
    BY IdleIs DEF HistoryInit, Fields
  <2> QED
    BY <2>1, <2>3, <2>4 DEF HistoryInit, HistTables
<1>3. \A a \in Actors : ActorOK(a)
  <2> TAKE a \in Actors
  <2>1. holder # a
    BY HistoryAssumption DEF HistoryInit
  <2>2. /\ actor[a].pc = "idle" /\ actor[a].op = "none" /\ actor[a].line = "none"
        /\ actor[a].dlg = 0 /\ actor[a].cmd = 0
    BY <1>1 DEF Fields
  <2> QED
    BY <2>1, <2>2 DEF ActorOK, Making
<1>4. OneObject /\ OwnObject /\ NoneBeyond /\ FreshBeyond /\ FreshStart /\ FreshToActors /\ FreshToObjects
      /\ FreshObject
  BY <1>1 DEF HistoryInit, OneObject, OwnObject, NoneBeyond, FreshBeyond, FreshStart,
    FreshToActors,
    FreshToObjects, FreshObject, Unanswered, Untouched, Fields
<1>5. LoneInv /\ SendingInv /\ OnePlace /\ MappedPlace /\ MappedCommands /\ CommandingInv
  BY <1>1 DEF HistoryInit, LoneInv, SendingInv, Sends, OnePlace, MappedPlace, WorksInPlace,
    MappedCommands,
    CommandingInv, Commands, Fields
<1>6. SentInv /\ CommandsInv
  <2>1. \A d \in Dialogs : log[d] = <<>> /\ Len(log[d]) = 0
    BY DEF HistoryInit
  <2> QED
    BY <2>1 DEF SentInv, CommandsInv, NumbersOf, CommandsRise
<1> QED
  BY <1>2, <1>3, <1>4, <1>5, <1>6 DEF HistInv

\* The invariant of the requests in dialogs holds in every state.
THEOREM HistInvHolds == HistorySpec => []HistInv
<1>1. HistInv /\ [HistoryNext]_requestVars => HistInv'
  BY TablesStep, ActorsStep, OneObjectStep, OwnObjectStep, NoneBeyondStep, FreshBeyondStep,
    FreshStartStep, FreshToActorsStep, FreshToObjectsStep, FreshObjectStep, LoneStep, SentStep,
    SendingStep, OnePlaceStep, MappedPlaceStep, CommandsStep, MappedCommandsStep DEF HistInv
<1> QED
  BY HistoryStarts, <1>1, PTL DEF HistorySpec

\* The requests of a dialog that are made one at a time are numbered well, and so
\* are its commands (request.go, NewRequestFromResponse; history.go), for any number
\* of goroutines, starts and calls.
THEOREM NumberedWell == HistorySpec => []HistoryNumbered
<1>1. HistInv => HistoryNumbered
  BY DEF HistInv, HistoryNumbered, SentInv, NumbersOf, CommandsInv, CommandsRise
<1> QED
  BY HistInvHolds, <1>1, PTL

----------------------------------------------------------------------------
(* QueryStates: a copy of what is known of a device may be old, but it has  *)
(* what every handler that ran alone has left, so what such a handler left  *)
(* outlives it; merging lists keeps the newest whatever the order.          *)

\* A list of objects: finite, each object once.
ObjectLists ==
  {objs \in SUBSET Stamped :
     IsFiniteSet(objs) /\ \A x, y \in objs : x.obj = y.obj => x = y}

\* The smaller of two numbers is one of them (FiniteSetsExt's Min, for the cap of a merge).
LEMMA MinIs ==
  ASSUME NEW m \in Nat, NEW n \in Nat
  PROVE  Min({m, n}) \in {m, n} /\ Min({m, n}) <= m /\ Min({m, n}) <= n
<1>1. \E x \in {m, n} : \A y \in {m, n} : x =< y
  OBVIOUS
<1> QED
  BY <1>1 DEF Min

\* The larger of two numbers is one of them (Max, for the time of an object).
LEMMA MaxIs ==
  ASSUME NEW m \in Nat, NEW n \in Nat
  PROVE  Max({m, n}) \in {m, n} /\ Max({m, n}) >= m /\ Max({m, n}) >= n
<1>1. \E x \in {m, n} : \A y \in {m, n} : x >= y
  OBVIOUS
<1> QED
  BY <1>1 DEF Max

\* An object keeps its identity, and of its times the latest (Newer).
LEMMA NewerIs ==
  ASSUME NEW base \in ObjectLists, NEW o \in Stamped
  PROVE  /\ Newer(base, o) \in Stamped /\ Newer(base, o).obj = o.obj /\ Newer(base, o).at >= o.at
         /\ \A b \in base : b.obj = o.obj => Newer(base, o).at >= b.at
<1> DEFINE most == Max({o.at} \cup Times(base, o.obj))
<1>1. MaxSeconds \in Nat
  BY QueryStateAssumption
<1>2. o.at \in 0..MaxSeconds /\ o.obj \in A4Objects /\ \A b \in base : b.at \in 0..MaxSeconds
  BY DEF Stamped, ObjectLists
<1>3. most \in 0..MaxSeconds /\ most >= o.at /\ \A b \in base : b.obj = o.obj => most >= b.at
  <2>1. CASE \E b \in base : b.obj = o.obj
    <3>1. PICK b \in base : b.obj = o.obj
      BY <2>1
    <3>2. {y \in base : y.obj = o.obj} = {b}
      BY <3>1 DEF ObjectLists
    <3>3. Times(base, o.obj) = {b.at}
      BY <3>2 DEF Times
    <3>4. {o.at} \cup Times(base, o.obj) = {o.at, b.at}
      BY <3>3
    <3>5. most \in {o.at, b.at} /\ most >= o.at /\ most >= b.at
      BY <1>1, <1>2, <3>4, MaxIs
    <3> HIDE DEF most
    <3> QED
      BY <1>2, <3>2, <3>5
  <2>2. CASE ~\E b \in base : b.obj = o.obj
    <3>1. {y \in base : y.obj = o.obj} = {}
      BY <2>2
    <3>2. Times(base, o.obj) = {}
      BY <3>1 DEF Times
    <3>3. {o.at} \cup Times(base, o.obj) = {o.at, o.at}
      BY <3>2
    <3>4. most \in {o.at, o.at} /\ most >= o.at
      BY <1>1, <1>2, <3>3, MaxIs
    <3> HIDE DEF most
    <3> QED
      BY <1>2, <2>2, <3>4
  <2> QED
    BY <2>1, <2>2
<1>4. Newer(base, o) = [o EXCEPT !.at = most]
  BY DEF Newer
<1> HIDE DEF most
<1>5. /\ [o EXCEPT !.at = most] \in Stamped /\ [o EXCEPT !.at = most].obj = o.obj
      /\ [o EXCEPT !.at = most].at = most
  BY <1>3 DEF Stamped
<1> QED
  BY <1>3, <1>4, <1>5

\* What a merge chooses from.
Union(base, inc) == {Newer(base, o) : o \in inc} \cup {b \in base : \A o \in inc : o.obj # b.obj}

\* What is known and what comes in make a list that has all of both, with a time
\* that is not older (the map in mergeAppendixA4Objects).
LEMMA UnionIs ==
  ASSUME NEW base \in ObjectLists, NEW inc \in ObjectLists
  PROVE  /\ Union(base, inc) \in ObjectLists
         /\ \A o \in base \cup inc : \E x \in Union(base, inc) : x.obj = o.obj /\ x.at >= o.at
<1> DEFINE fresh == {Newer(base, o) : o \in inc}
           known == {b \in base : \A o \in inc : o.obj # b.obj}
<1>0. \A o \in inc : o \in Stamped
  BY DEF ObjectLists
<1>1. fresh \subseteq Stamped /\ known \subseteq Stamped
  BY <1>0, NewerIs DEF ObjectLists
<1>2. IsFiniteSet(fresh) /\ IsFiniteSet(known)
  <2>1. IsFiniteSet(inc) /\ IsFiniteSet(base)
    BY DEF ObjectLists
  <2>2. IsFiniteSet(known)
    BY <2>1, FS_Subset
  <2>3. IsFiniteSet(fresh)
    <3> DEFINE f == [o \in inc |-> Newer(base, o)]
    <3>1. f \in Surjection(inc, fresh)
      BY DEF Surjection
    <3> QED
      BY <2>1, <3>1, FS_Surjection
  <2> QED
    BY <2>2, <2>3
<1>3. IsFiniteSet(fresh \cup known)
  BY <1>2, FS_Union
<1>4. \A x, y \in fresh \cup known : x.obj = y.obj => x = y
  <2>1. \A x, y \in fresh : x.obj = y.obj => x = y
    <3>1. SUFFICES ASSUME NEW p \in inc, NEW q \in inc, Newer(base, p).obj = Newer(base, q).obj
                   PROVE  Newer(base, p) = Newer(base, q)
      OBVIOUS
    <3>2. p.obj = q.obj
      BY <1>0, <3>1, NewerIs
    <3> QED
      BY <3>2 DEF ObjectLists
  <2>2. \A x, y \in known : x.obj = y.obj => x = y
    BY DEF ObjectLists
  <2>3. \A x \in fresh, y \in known : x.obj # y.obj
    <3>1. SUFFICES ASSUME NEW p \in inc, NEW y \in known PROVE Newer(base, p).obj # y.obj
      OBVIOUS
    <3> QED
      BY <1>0, NewerIs
  <2> HIDE DEF fresh, known
  <2> QED
    BY <2>1, <2>2, <2>3
<1>5. Union(base, inc) = fresh \cup known
  BY DEF Union
<1>6. ASSUME NEW o \in base \cup inc
      PROVE  \E x \in fresh \cup known : x.obj = o.obj /\ x.at >= o.at
  <2>0. o.at \in Nat
    BY QueryStateAssumption DEF ObjectLists, Stamped
  <2>1. CASE o \in inc
    BY <1>0, <2>1, NewerIs
  <2>2. CASE o \in base /\ \E p \in inc : p.obj = o.obj
    <3>1. PICK p \in inc : p.obj = o.obj
      BY <2>2
    <3>2. Newer(base, p).obj = o.obj /\ Newer(base, p).at >= o.at
      BY <1>0, <2>2, <3>1, NewerIs
    <3> QED
      BY <3>2
  <2>3. CASE o \in base /\ ~\E p \in inc : p.obj = o.obj
    <3>1. o \in known
      BY <2>3
    <3> QED
      BY <2>0, <3>1
  <2> QED
    BY <1>6, <2>1, <2>2, <2>3
<1> HIDE DEF fresh, known
<1>7. fresh \cup known \in ObjectLists
  BY <1>1, <1>3, <1>4 DEF ObjectLists
<1> QED
  BY <1>5, <1>6, <1>7

\* A merge is a list, everything or as much as the cap allows, the newest first.
LEMMA MergesIs ==
  ASSUME NEW base \in ObjectLists, NEW inc \in ObjectLists, NEW cap \in Nat, NEW s \in Merges(base, inc, cap)
  PROVE  /\ s \in ObjectLists /\ s \subseteq Union(base, inc)
         /\ s = Union(base, inc) \/ Cardinality(s) = cap
         /\ Cardinality(s) <= cap
         /\ \A x \in s, y \in Union(base, inc) \ s : x.at >= y.at
<1> DEFINE all == Union(base, inc)
<1>1. all \in ObjectLists
  BY UnionIs
<1>2. /\ s \in SUBSET all /\ Cardinality(s) = Min({cap, Cardinality(all)})
      /\ \A x \in s, y \in all \ s : x.at >= y.at
  BY DEF Merges, Union
<1> HIDE DEF all
<1>3. IsFiniteSet(all) /\ all \subseteq Stamped
  BY <1>1 DEF ObjectLists
<1>4. IsFiniteSet(s) /\ Cardinality(all) \in Nat
  BY <1>2, <1>3, FS_Subset, FS_CardinalityType
<1>5. s \in ObjectLists
  BY <1>1, <1>2, <1>4 DEF ObjectLists
<1>6. Cardinality(s) \in {cap, Cardinality(all)} /\ Cardinality(s) <= cap
  BY <1>2, <1>4, MinIs
<1>7. Cardinality(s) = Cardinality(all) => s = all
  BY <1>2, <1>3, FS_Subset
<1> QED
  BY <1>2, <1>5, <1>6, <1>7 DEF all

\* A merge keeps what it brings, and what was kept before it.
LEMMA MergeKeeps ==
  ASSUME NEW base \in ObjectLists, NEW inc \in ObjectLists, NEW cap \in Nat, NEW s \in Merges(base, inc, cap),
         NEW o \in Stamped, o \in inc \/ Keeps(base, o, cap)
  PROVE  Keeps(s, o, cap)
<1> DEFINE all == Union(base, inc)
<1>1. /\ all \in ObjectLists
      /\ \A p \in base \cup inc : \E x \in all : x.obj = p.obj /\ x.at >= p.at
  BY UnionIs
<1>2. /\ s \subseteq all /\ (s = all \/ Cardinality(s) = cap) /\ Cardinality(s) <= cap
      /\ \A x \in s, y \in all \ s : x.at >= y.at
  BY MergesIs
<1> HIDE DEF all
<1>3. /\ o.at \in Nat /\ \A x \in base \cup inc \cup all : x.at \in Nat
  BY <1>1, QueryStateAssumption DEF ObjectLists, Stamped
<1>4. CASE \E p \in base \cup inc : p.obj = o.obj /\ p.at >= o.at
  <2>1. PICK x \in all : x.obj = o.obj /\ x.at >= o.at
    BY <1>1, <1>3, <1>4
  <2>2. CASE x \in s
    BY <2>1, <2>2 DEF Keeps
  <2>3. CASE x \notin s
    <3>1. Cardinality(s) = cap /\ \A y \in s : y.at >= x.at
      BY <1>2, <2>3
    <3>2. \A y \in s : y.at >= o.at
      BY <1>2, <1>3, <2>1, <3>1
    <3> QED
      BY <3>1, <3>2 DEF Keeps
  <2> QED
    BY <2>2, <2>3
<1>5. CASE ~\E p \in base \cup inc : p.obj = o.obj /\ p.at >= o.at
  <2>1. Cardinality(base) = cap /\ \A b \in base : b.at >= o.at
    BY <1>3, <1>5 DEF Keeps
  <2> DEFINE late == {x \in all : x.at >= o.at}
             f == [b \in base |-> CHOOSE x \in all : x.obj = b.obj /\ x.at >= b.at]
  <2>2. \A b \in base : f[b] \in late /\ f[b].obj = b.obj
    <3> TAKE b \in base
    <3>1. f[b] \in all /\ f[b].obj = b.obj /\ f[b].at >= b.at
      BY <1>1
    <3> HIDE DEF f
    <3> QED
      BY <1>3, <2>1, <3>1
  <2>3. f \in Injection(base, late)
    <3>1. f \in [base -> late]
      <4>1. f = [b \in base |-> f[b]]
        OBVIOUS
      <4> HIDE DEF f, late
      <4> QED
        BY <2>2, <4>1
    <3>2. \A b, c \in base : f[b] = f[c] => b = c
      BY <2>2 DEF ObjectLists
    <3> HIDE DEF f, late
    <3> QED
      BY <3>1, <3>2 DEF Injection, IsInjective
  <2>4. IsFiniteSet(late) /\ IsFiniteSet(all)
    BY <1>1, FS_Subset DEF ObjectLists
  <2>5. cap <= Cardinality(late) /\ Cardinality(late) \in Nat
    <3> HIDE DEF f, late
    <3> QED
      BY <2>1, <2>3, <2>4, FS_Injection, FS_CardinalityType
  <2>6. IsFiniteSet(s)
    BY <1>2, <2>4, FS_Subset
  <2>7. \A x \in s : x.at >= o.at
    <3> SUFFICES ASSUME NEW x \in s, ~(x.at >= o.at) PROVE FALSE
      OBVIOUS
    <3>1. x \in all /\ x.at < o.at
      BY <1>2, <1>3
    <3>2. late \subseteq s \ {x}
      <4> SUFFICES ASSUME NEW y \in all, y.at >= o.at PROVE y \in s /\ y # x
        OBVIOUS
      <4>1. y.at \in Nat /\ x.at \in Nat
        BY <1>3, <3>1
      <4> QED
        BY <1>2, <1>3, <3>1, <4>1
    <3> HIDE DEF late
    <3>3. Cardinality(s \ {x}) = Cardinality(s) - 1 /\ Cardinality(s) \in Nat /\ IsFiniteSet(s \ {x})
      BY <2>6, FS_RemoveElement, FS_CardinalityType
    <3>4. Cardinality(late) <= Cardinality(s) - 1
      BY <3>2, <3>3, FS_Subset
    <3> QED
      BY <1>2, <2>5, <3>3, <3>4
  <2>8. Cardinality(s) = cap
    <3>1. CASE s = all
      <4>1. Cardinality(late) <= Cardinality(all) /\ Cardinality(all) \in Nat
        BY <2>4, FS_Subset, FS_CardinalityType
      <4> HIDE DEF late
      <4> QED
        BY <1>2, <2>5, <3>1, <4>1
    <3> QED
      BY <1>2, <3>1
  <2> QED
    BY <2>7, <2>8 DEF Keeps
<1> QED
  BY <1>4, <1>5

----------------------------------------------------------------------------
Todos == {<<>>, <<"a4">>, <<"section">>, <<"a4", "section">>, <<"section", "a4">>}
Structures == [field : [Sections -> Arrivals \cup {Nobody}], a4 : ObjectLists]
HandlerStates ==
  [pc : {"unsent", "next", "load", "apply", "store", "persist", "done"},
   section : Sections \cup {NoSection}, body : {b \in SUBSET SUBSET A4Objects : IsFiniteSet(b)},
   todo : Todos,
   objs : ObjectLists, copy : Structures]
QsTables ==
  /\ state \in Structures /\ row \in ObjectLists
  /\ isOnline \in Arrivals \cup {Nobody} /\ seconds \in 0..MaxSeconds
  /\ handler \in [Arrivals -> HandlerStates]
  /\ alone \in [Arrivals -> BOOLEAN] /\ before \in [Arrivals -> SUBSET Arrivals]
  /\ persisted \subseteq Stamped /\ applied \subseteq Arrivals

\* What is left to store.
Left(m) == Range(handler[m].todo)
PlaceOK(m) ==
  /\ handler[m].pc \in {"unsent", "done"} <=> handler[m].todo = <<>>
  /\ handler[m].pc \in {"load", "persist"} => NextStore(m) = "a4"
  /\ handler[m].pc = "apply" => NextStore(m) = "section"
  /\ "section" \in Left(m) => handler[m].section \in Sections
  /\ handler[m].pc = "unsent" => handler[m].objs = {}

\* Who was done when a message arrived stays so, and no later message is from before.
BeforeInv == \A m \in Arrivals : \A x \in before[m] : handler[x].pc = "done"
AppliedInv ==
  \A m \in applied : handler[m].pc # "unsent" /\ isOnline \notin before[m] \cup {Nobody}

\* A handler that runs alone copies what is there, and finds what it has stored.
LoneOK(m) ==
  alone[m] /\ Running(m) =>
    /\ \A x \in Arrivals : x # m => ~Running(x)
    /\ handler[m].pc \in {"apply", "store"} => handler[m].copy = state
    /\ handler[m].section # NoSection /\ "section" \notin Left(m) =>
         state.field[handler[m].section] = m
    /\ "a4" \notin Left(m) \/ handler[m].pc = "persist" =>
         \A o \in handler[m].objs : Keeps(state.a4, o, MemCap)
QsLoneInv == \A m \in Arrivals : LoneOK(m)

\* What a message said that was handled alone is in a structure.
LastsIn(m, known) ==
  /\ handler[m].section # NoSection => known.field[handler[m].section] \notin before[m] \cup {Nobody}
  /\ \A o \in handler[m].objs : Keeps(known.a4, o, MemCap)
DoneOK(m) ==
  AtPc(m, "done") /\ alone[m] =>
    /\ LastsIn(m, state)
    /\ \A x \in Arrivals : handler[x].pc \in {"apply", "store"} => LastsIn(m, handler[x].copy)
DoneInv == \A m \in Arrivals : DoneOK(m)

QsInv ==
  /\ QsTables /\ (\A m \in Arrivals : PlaceOK(m))
  /\ BeforeInv /\ AppliedInv /\ QsRowKeepsNewest /\ QsLoneInv /\ DoneInv

----------------------------------------------------------------------------
\* What is to be stored, one at a time: each kind once.
LEMMA TodosIs ==
  /\ Range(<<>>) = {}
  /\ \A t \in Todos \ {<<>>} :
       /\ Head(t) \in {"a4", "section"} /\ Tail(t) \in Todos
       /\ Range(t) = Range(Tail(t)) \cup {Head(t)} /\ Head(t) \notin Range(Tail(t))
       /\ Len(t) = 1 <=> Tail(t) = <<>>
<1>1. Range(<<>>) = {}
  BY DEF Range
<1>2. \A x : Range(<<x>>) = {x} /\ Head(<<x>>) = x /\ Tail(<<x>>) = <<>> /\ Len(<<x>>) = 1
  BY DEF Range
<1>3. \A x, y : Range(<<x, y>>) = {x, y} /\ Head(<<x, y>>) = x /\ Tail(<<x, y>>) = <<y>> /\ Len(<<x, y>>) = 2
  BY DEF Range
<1>4. ASSUME NEW t \in {<<"a4">>, <<"section">>}
      PROVE  /\ Head(t) \in {"a4", "section"} /\ Tail(t) \in Todos
             /\ Range(t) = Range(Tail(t)) \cup {Head(t)} /\ Head(t) \notin Range(Tail(t))
             /\ Len(t) = 1 <=> Tail(t) = <<>>
  <2>1. CASE t = <<"a4">>
    BY <1>1, <1>2, <2>1 DEF Todos
  <2>2. CASE t = <<"section">>
    BY <1>1, <1>2, <2>2 DEF Todos
  <2> QED
    BY <1>4, <2>1, <2>2
<1>5. ASSUME NEW t \in {<<"a4", "section">>, <<"section", "a4">>}
      PROVE  /\ Head(t) \in {"a4", "section"} /\ Tail(t) \in Todos
             /\ Range(t) = Range(Tail(t)) \cup {Head(t)} /\ Head(t) \notin Range(Tail(t))
             /\ Len(t) = 1 <=> Tail(t) = <<>>
  <2>1. CASE t = <<"a4", "section">>
    <3>1. Head(t) = "a4" /\ Tail(t) = <<"section">> /\ Range(t) = {"a4", "section"} /\ Len(t) = 2
      BY <1>3, <2>1
    <3>2. Range(<<"section">>) = {"section"}
      BY <1>2
    <3>3. Range(Tail(t)) = {"section"}
      BY <3>1, <3>2, Zenon
    <3>4. Tail(t) \in Todos /\ Tail(t) # <<>>
      BY <3>1 DEF Todos
    <3> QED
      BY <3>1, <3>3, <3>4
  <2>2. CASE t = <<"section", "a4">>
    <3>1. Head(t) = "section" /\ Tail(t) = <<"a4">> /\ Range(t) = {"a4", "section"} /\ Len(t) = 2
      BY <1>3, <2>2
    <3>2. Range(<<"a4">>) = {"a4"}
      BY <1>2
    <3>3. Range(Tail(t)) = {"a4"}
      BY <3>1, <3>2, Zenon
    <3>4. Tail(t) \in Todos /\ Tail(t) # <<>>
      BY <3>1 DEF Todos
    <3> QED
      BY <3>1, <3>3, <3>4
  <2> QED
    BY <1>5, <2>1, <2>2
<1> QED
  BY <1>1, <1>4, <1>5 DEF Todos

\* Before any message there is an empty list.
LEMMA EmptyList == {} \in ObjectLists /\ NoState \in Structures /\ NoState.a4 = {}
<1>1. {} \in ObjectLists
  BY FS_EmptySet DEF ObjectLists
<1> QED
  BY <1>1 DEF NoState, Structures

\* Nothing is known, and no handler has begun.
LEMMA QsStarts == QsInit => QsInv
<1> SUFFICES ASSUME QsInit PROVE QsInv
  OBVIOUS
<1>1. /\ Unread \in HandlerStates /\ Unread.pc = "unsent" /\ Unread.todo = <<>> /\ Unread.objs = {}
      /\ Unread.section = NoSection
  BY EmptyList, FS_EmptySet DEF Unread, HandlerStates, Todos
<1>2. \A m \in Arrivals : handler[m] = Unread
  BY DEF QsInit
<1> HIDE DEF Unread
<1>3. QsTables
  BY <1>1, EmptyList, QueryStateAssumption DEF QsInit, QsTables
<1>4. \A m \in Arrivals : PlaceOK(m)
  BY <1>1, <1>2, TodosIs DEF PlaceOK, Left
<1>5. BeforeInv /\ AppliedInv /\ QsRowKeepsNewest
  BY DEF QsInit, BeforeInv, AppliedInv, QsRowKeepsNewest
<1>6. QsLoneInv /\ DoneInv
  BY <1>1, <1>2 DEF QsLoneInv, LoneOK, DoneInv, DoneOK, Running, AtPc
<1> QED
  BY <1>3, <1>4, <1>5, <1>6 DEF QsInv

----------------------------------------------------------------------------
Becomes(m, place, section, body, doing, objs, copy) ==
  /\ handler' \in [Arrivals -> HandlerStates]
  /\ handler'[m].pc = place /\ handler'[m].section = section /\ handler'[m].body = body
  /\ handler'[m].todo = doing /\ handler'[m].objs = objs /\ handler'[m].copy = copy
  /\ \A x \in Arrivals : x # m => handler'[x] = handler[x]

\* A handler's new record, field by field.
LEMMA BecomesIs ==
  ASSUME QsTables, NEW m \in Arrivals, NEW n \in HandlerStates, handler' = [handler EXCEPT ![m] = n]
  PROVE  Becomes(m, n.pc, n.section, n.body, n.todo, n.objs, n.copy)
<1>1. handler \in [Arrivals -> HandlerStates]
  BY DEF QsTables
<1>2. handler' \in [Arrivals -> HandlerStates] /\ handler'[m] = n /\ \A x \in Arrivals : x # m => handler'[x] = handler[x]
  BY <1>1
<1> QED
  BY <1>2 DEF Becomes

Still(m, place, objs, copy) ==
  Becomes(m, place, handler[m].section, handler[m].body, handler[m].todo, objs, copy)
Ends(m) ==
  \E place \in {"next", "done"} :
    /\ place = "done" <=> Tail(handler[m].todo) = <<>>
    /\ Becomes(m, place, handler[m].section, handler[m].body, Tail(handler[m].todo), handler[m].objs, NoState)

ArrivesDone(m) ==
  /\ handler[m].pc = "unsent"
  /\ \E section \in Sections \cup {NoSection}, body \in SUBSET SUBSET A4Objects, doing \in Todos,
        place \in {"next", "done"} :
       /\ IsFiniteSet(body) /\ (place = "done" <=> doing = <<>>)
       /\ section # NoSection <=> "section" \in Range(doing)
       /\ Becomes(m, place, section, body, doing, handler[m].objs, handler[m].copy)
  /\ alone' = [x \in Arrivals |->
       IF x = m THEN ~\E y \in Arrivals : Running(y) ELSE alone[x] /\ ~Running(x)]
  /\ before' = [before EXCEPT ![m] = {x \in Arrivals : AtPc(x, "done")}]
  /\ UNCHANGED <<state, row, isOnline, seconds, persisted, applied>>
DecodeDone(m) ==
  /\ handler[m].pc = "next" /\ NextStore(m) = "a4"
  /\ \E objs \in ObjectLists : Still(m, "load", objs, handler[m].copy)
  /\ UNCHANGED <<state, row, isOnline, seconds, alone, before, persisted, applied>>
LoadDone(m) ==
  /\ handler[m].pc \in {"load", "next"}
  /\ \E place \in {"apply", "store"} :
       (place = "apply" => NextStore(m) = "section") /\ Still(m, place, handler[m].objs, state)
  /\ UNCHANGED <<state, row, isOnline, seconds, alone, before, persisted, applied>>
ApplyDone(m) ==
  /\ handler[m].pc = "apply" /\ Still(m, "store", handler[m].objs, handler[m].copy)
  /\ \/ isOnline' = m /\ applied' = applied \cup {m}
     \/ UNCHANGED <<isOnline, applied>>
  /\ UNCHANGED <<state, row, seconds, alone, before, persisted>>
SectionDone(m) ==
  /\ handler[m].pc = "store" /\ NextStore(m) = "section" /\ Ends(m)
  /\ state' \in Structures /\ state'.a4 = handler[m].copy.a4
  /\ state'.field = [handler[m].copy.field EXCEPT ![handler[m].section] = m]
  /\ UNCHANGED <<row, isOnline, seconds, alone, before, persisted, applied>>
A4Done(m) ==
  /\ handler[m].pc = "store" /\ NextStore(m) = "a4"
  /\ Still(m, "persist", handler[m].objs, handler[m].copy)
  /\ state' \in Structures /\ state'.field = handler[m].copy.field
  /\ state'.a4 \in Merges(handler[m].copy.a4, handler[m].objs, MemCap)
  /\ UNCHANGED <<row, isOnline, seconds, alone, before, persisted, applied>>
PersistDone(m) ==
  /\ handler[m].pc = "persist" /\ Ends(m)
  /\ \/ row' \in Merges(row, handler[m].objs, RowCap) /\ persisted' = persisted \cup handler[m].objs
     \/ UNCHANGED <<row, persisted>>
  /\ UNCHANGED <<state, isOnline, seconds, alone, before, applied>>
Works(m) ==
  \/ DecodeDone(m) \/ LoadDone(m) \/ ApplyDone(m) \/ SectionDone(m) \/ A4Done(m) \/ PersistDone(m)

\* Every handler has its record.
LEMMA HandlerIs ==
  ASSUME QsTables, NEW m \in Arrivals
  PROVE  handler[m] \in HandlerStates
BY DEF QsTables

\* A message that arrives gets its handler, which has no objects yet.
LEMMA ArrivesIs ==
  ASSUME QsTables, NEW m \in Arrivals, NEW c \in Contents[m], MessageArrives(m, c)
  PROVE  ArrivesDone(m)
<1>1. c.section \in Sections \cup {NoSection} /\ IsFiniteSet(c.body)
  BY QueryStateAssumption
<1>2. c.body \subseteq SUBSET A4Objects
  <2>1. c \in UNION {Contents[x] : x \in Arrivals}
    OBVIOUS
  <2>2. c.body \in {d.body : d \in UNION {Contents[x] : x \in Arrivals}}
    BY <2>1
  <2> QED
    BY <2>2 DEF A4Objects
<1>3. PICK plan \in Plans(c.section) :
        handler' = [handler EXCEPT ![m] =
          [handler[m] EXCEPT !.pc = IF Stores(plan, c.body) = <<>> THEN "done" ELSE "next",
                    !.section = c.section, !.todo = Stores(plan, c.body), !.body = c.body]]
  BY DEF MessageArrives
<1> DEFINE doing == Stores(plan, c.body)
           place == IF doing = <<>> THEN "done" ELSE "next"
           n == [handler[m] EXCEPT !.pc = place, !.section = c.section, !.todo = doing, !.body = c.body]
<1>4. doing \in Todos /\ (c.section # NoSection <=> "section" \in Range(doing))
  <2>1. /\ Range(<<>>) = {} /\ Range(<<"a4">>) = {"a4"} /\ Range(<<"section">>) = {"section"}
        /\ Range(<<"a4", "section">>) = {"a4", "section"} /\ Range(<<"section", "a4">>) = {"section", "a4"}
    BY DEF Range
  <2>2. CASE c.section = NoSection
    <3>1. plan = <<"a4">>
      BY <2>2 DEF Plans
    <3> QED
      BY <2>1, <2>2, <3>1 DEF Stores, Todos
  <2>3. CASE c.section # NoSection
    <3>1. plan \in {<<"a4", "section">>, <<"section">>, <<"section", "a4">>}
      BY <2>3 DEF Plans
    <3> QED
      BY <2>1, <2>3, <3>1 DEF Stores, Todos
  <2> QED
    BY <2>2, <2>3
<1> HIDE DEF doing
<1>5. /\ n \in HandlerStates /\ n.pc = place /\ n.section = c.section /\ n.todo = doing /\ n.body = c.body
      /\ n.objs = handler[m].objs /\ n.copy = handler[m].copy
  BY <1>1, <1>2, <1>4, HandlerIs DEF HandlerStates
<1>6. handler' = [handler EXCEPT ![m] = n]
  BY <1>3 DEF doing
<1> HIDE DEF n
<1>7. Becomes(m, place, c.section, c.body, doing, handler[m].objs, handler[m].copy)
  BY <1>5, <1>6, BecomesIs
<1>8. place \in {"next", "done"} /\ (place = "done" <=> doing = <<>>)
  OBVIOUS
<1> HIDE DEF place
<1>9. \E section \in Sections \cup {NoSection}, body \in SUBSET SUBSET A4Objects, t \in Todos,
         p \in {"next", "done"} :
       /\ IsFiniteSet(body) /\ (p = "done" <=> t = <<>>)
       /\ section # NoSection <=> "section" \in Range(t)
       /\ Becomes(m, p, section, body, t, handler[m].objs, handler[m].copy)
  BY <1>1, <1>2, <1>4, <1>7, <1>8
<1> QED
  BY <1>9 DEF MessageArrives, ArrivesDone, AtPc

\* The objects that are read are a list: of one second, each once.
LEMMA DecodeIs ==
  ASSUME QsTables, NEW m \in Arrivals, Decode(m)
  PROVE  DecodeDone(m)
<1>1. PICK read \in [handler[m].body -> A4Objects] :
        handler' = [handler EXCEPT ![m].pc = "load",
          ![m].objs = {[obj |-> read[e], at |-> seconds] : e \in handler[m].body}]
  BY DEF Decode, Readings
<1> DEFINE objs == {[obj |-> read[e], at |-> seconds] : e \in handler[m].body}
           n == [handler[m] EXCEPT !.pc = "load", !.objs = objs]
<1>2. objs \in ObjectLists
  <2>1. IsFiniteSet(handler[m].body) /\ seconds \in 0..MaxSeconds
    BY HandlerIs DEF HandlerStates, QsTables
  <2>2. objs \subseteq Stamped
    BY <2>1 DEF Stamped
  <2>3. IsFiniteSet(objs)
    <3> DEFINE f == [e \in handler[m].body |-> [obj |-> read[e], at |-> seconds]]
    <3>1. f \in Surjection(handler[m].body, objs)
      BY DEF Surjection
    <3> QED
      BY <2>1, <3>1, FS_Surjection
  <2>4. \A x, y \in objs : x.obj = y.obj => x = y
    OBVIOUS
  <2> HIDE DEF objs
  <2> QED
    BY <2>2, <2>3, <2>4 DEF ObjectLists
<1>3. handler' = [handler EXCEPT ![m] = n]
  BY <1>1, HandlerIs DEF QsTables
<1> HIDE DEF objs
<1>4. /\ n \in HandlerStates /\ n.pc = "load" /\ n.section = handler[m].section /\ n.todo = handler[m].todo
      /\ n.body = handler[m].body /\ n.objs = objs /\ n.copy = handler[m].copy
  BY <1>2, HandlerIs DEF HandlerStates
<1> HIDE DEF n
<1>5. Still(m, "load", objs, handler[m].copy)
  BY <1>3, <1>4, BecomesIs DEF Still
<1> QED
  BY <1>2, <1>5 DEF Decode, DecodeDone, AtPc

\* The structure is copied as it is (*state = *old).
LEMMA LoadIs ==
  ASSUME QsTables, NEW m \in Arrivals, PlaceOK(m), LoadState(m)
  PROVE  LoadDone(m)
<1> DEFINE place == IF NextStore(m) = "section" /\ handler[m].section = StatusSection
                   THEN "apply" ELSE "store"
           n == [handler[m] EXCEPT !.copy = state, !.pc = place]
<1>1. place \in {"apply", "store"} /\ (place = "apply" => NextStore(m) = "section")
  OBVIOUS
<1>2. handler' = [handler EXCEPT ![m] = n]
  BY HandlerIs DEF QsTables, LoadState, Copied
<1> HIDE DEF place
<1>3. /\ n \in HandlerStates /\ n.pc = place /\ n.section = handler[m].section /\ n.todo = handler[m].todo
      /\ n.body = handler[m].body /\ n.objs = handler[m].objs /\ n.copy = state
  BY <1>1, HandlerIs DEF HandlerStates, QsTables
<1> HIDE DEF n
<1>4. Still(m, place, handler[m].objs, state)
  BY <1>2, <1>3, BecomesIs DEF Still
<1>5. handler[m].pc \in {"load", "next"}
  BY DEF LoadState, AtPc
<1> QED
  BY <1>1, <1>4, <1>5 DEF LoadState, LoadDone

\* A change of the program counter alone.
LEMMA GoesIs ==
  ASSUME QsTables, NEW m \in Arrivals, NEW place \in {"store", "persist"}, Goes(m, place)
  PROVE  Still(m, place, handler[m].objs, handler[m].copy)
<1> DEFINE n == [handler[m] EXCEPT !.pc = place]
<1>1. handler' = [handler EXCEPT ![m] = n]
  BY HandlerIs DEF QsTables, Goes
<1>2. /\ n \in HandlerStates /\ n.pc = place /\ n.section = handler[m].section /\ n.todo = handler[m].todo
      /\ n.body = handler[m].body /\ n.objs = handler[m].objs /\ n.copy = handler[m].copy
  BY HandlerIs DEF HandlerStates
<1> HIDE DEF n
<1> QED
  BY <1>1, <1>2, BecomesIs DEF Still

\* The status is applied, or an error is ignored.
LEMMA ApplyIs ==
  ASSUME QsTables, NEW m \in Arrivals, ApplyStatus(m)
  PROVE  ApplyDone(m)
BY GoesIs DEF ApplyStatus, ApplyDone, AtPc

\* The end of one store.
LEMMA OverIs ==
  ASSUME QsTables, NEW m \in Arrivals, PlaceOK(m), handler[m].pc \in {"store", "persist"},
         handler' = [handler EXCEPT ![m] = Over(m)]
  PROVE  Ends(m)
<1> DEFINE place == IF Len(handler[m].todo) = 1 THEN "done" ELSE "next"
           rest == Tail(handler[m].todo)
           n == [handler[m] EXCEPT !.pc = place, !.todo = rest, !.copy = NoState]
<1>1. handler[m].todo \in Todos /\ handler[m].todo # <<>>
  BY HandlerIs DEF HandlerStates, PlaceOK
<1>2. rest \in Todos /\ place \in {"next", "done"} /\ (place = "done" <=> rest = <<>>)
  BY <1>1, TodosIs
<1>3. handler' = [handler EXCEPT ![m] = n]
  BY DEF Over
<1> HIDE DEF place, rest
<1>4. /\ n \in HandlerStates /\ n.pc = place /\ n.section = handler[m].section /\ n.todo = rest
      /\ n.body = handler[m].body /\ n.objs = handler[m].objs /\ n.copy = NoState
  BY <1>2, HandlerIs, EmptyList DEF HandlerStates
<1> HIDE DEF n
<1>5. Becomes(m, place, handler[m].section, handler[m].body, rest, handler[m].objs, NoState)
  BY <1>3, <1>4, BecomesIs
<1> QED
  BY <1>2, <1>5 DEF Ends, rest

\* The copy is stored with the handler's own field set.
LEMMA SectionIs ==
  ASSUME QsTables, NEW m \in Arrivals, PlaceOK(m), StoreSection(m)
  PROVE  SectionDone(m)
<1>1. handler[m].pc = "store" /\ NextStore(m) = "section"
  BY DEF StoreSection, FieldFrom, AtPc
<1>2. handler[m].section \in Sections
  BY <1>1, HandlerIs, TodosIs DEF PlaceOK, HandlerStates, Left, NextStore
<1>3. handler[m].copy \in Structures
  BY HandlerIs DEF HandlerStates
<1>4. /\ state' \in Structures /\ state'.a4 = handler[m].copy.a4
      /\ state'.field = [handler[m].copy.field EXCEPT ![handler[m].section] = m]
  BY <1>2, <1>3 DEF StoreSection, FieldFrom, Structures
<1>5. Ends(m)
  BY <1>1, OverIs DEF StoreSection
<1> QED
  BY <1>1, <1>4, <1>5 DEF StoreSection, FieldFrom, SectionDone

\* The copy is stored with the objects merged.
LEMMA A4Is ==
  ASSUME QsTables, NEW m \in Arrivals, StoreA4(m)
  PROVE  A4Done(m)
<1>1. PICK kept \in Merges(handler[m].copy.a4, handler[m].objs, MemCap) :
        state' = [handler[m].copy EXCEPT !.a4 = kept]
  BY DEF StoreA4
<1>2. handler[m].copy \in Structures /\ handler[m].objs \in ObjectLists
  BY HandlerIs DEF HandlerStates
<1>3. kept \in ObjectLists
  <2>1. handler[m].copy.a4 \in ObjectLists /\ MemCap \in Nat
    BY <1>2, QueryStateAssumption DEF Structures
  <2> QED
    BY <1>2, <2>1, MergesIs
<1>4. state' \in Structures /\ state'.field = handler[m].copy.field /\ state'.a4 = kept
  BY <1>1, <1>2, <1>3 DEF Structures
<1>5. Still(m, "persist", handler[m].objs, handler[m].copy)
  BY GoesIs DEF StoreA4
<1> QED
  BY <1>4, <1>5 DEF StoreA4, A4Done, AtPc

\* The row is merged, or left alone when the statement fails.
LEMMA PersistIs ==
  ASSUME QsTables, NEW m \in Arrivals, PlaceOK(m), Persist(m) \/ PersistFails(m)
  PROVE  PersistDone(m)
<1>1. handler[m].pc = "persist" /\ handler' = [handler EXCEPT ![m] = Over(m)]
  BY DEF Persist, PersistFails, AtPc
<1>2. Ends(m)
  BY <1>1, OverIs
<1> QED
  BY <1>1, <1>2 DEF Persist, PersistFails, PersistDone

QsPasses ==
  /\ seconds' \in 0..MaxSeconds
  /\ UNCHANGED <<state, row, isOnline, handler, alone, before, persisted, applied>>

\* Every step is that of a message that arrives, of a handler at work, or of the clock.
LEMMA QsStepIs ==
  ASSUME QsInv, [QsNext]_stateVars
  PROVE  QsPasses \/ \E m \in Arrivals : ArrivesDone(m) \/ Works(m)
<1>1. QsTables /\ (\A m \in Arrivals : PlaceOK(m)) /\ seconds \in 0..MaxSeconds
  BY DEF QsInv, QsTables
<1>2. CASE UNCHANGED stateVars
  BY <1>1, <1>2 DEF stateVars, QsPasses
<1>3. CASE SecondPasses
  BY <1>1, <1>3, QueryStateAssumption DEF SecondPasses, QsPasses
<1>4. ASSUME NEW m \in Arrivals, NEW c \in Contents[m], MessageArrives(m, c)
      PROVE  ArrivesDone(m)
  BY <1>1, <1>4, ArrivesIs
<1>5. ASSUME NEW m \in Arrivals,
             Decode(m) \/ LoadState(m) \/ ApplyStatus(m) \/ StoreSection(m)
               \/ StoreA4(m) \/ Persist(m) \/ PersistFails(m)
      PROVE  Works(m)
  BY <1>1, <1>5, DecodeIs, LoadIs, ApplyIs, SectionIs, A4Is, PersistIs DEF Works
<1> QED
  BY <1>2, <1>3, <1>4, <1>5 DEF QsNext

----------------------------------------------------------------------------
\* A step is of one handler, which is not done; the others stay as they are.
LEMMA OneWorks ==
  ASSUME QsInv, NEW m \in Arrivals, ArrivesDone(m) \/ Works(m)
  PROVE  /\ handler[m].pc # "done" /\ handler' \in [Arrivals -> HandlerStates]
         /\ \A x \in Arrivals : x # m => handler'[x] = handler[x]
         /\ \A x \in Arrivals : handler[x].pc = "done" => x # m /\ handler'[x] = handler[x]
<1>1. CASE ArrivesDone(m)
  BY <1>1 DEF ArrivesDone, Becomes
<1>2. CASE Works(m)
  BY <1>2 DEF Works, DecodeDone, LoadDone, ApplyDone, SectionDone, A4Done, PersistDone, Still, Ends, Becomes
<1> QED
  BY <1>1, <1>2

\* At work, a handler keeps its section, and its objects once it has read them.
LEMMA WorkerIs ==
  ASSUME QsInv, NEW m \in Arrivals, Works(m)
  PROVE  /\ Running(m) /\ handler'[m].pc # "unsent" /\ handler'[m].section = handler[m].section
         /\ UNCHANGED <<alone, before, seconds>>
<1>1. CASE DecodeDone(m)
  BY <1>1 DEF DecodeDone, Still, Becomes, Running
<1>2. CASE LoadDone(m)
  BY <1>2 DEF LoadDone, Still, Becomes, Running
<1>3. CASE ApplyDone(m)
  BY <1>3 DEF ApplyDone, Still, Becomes, Running
<1>4. CASE SectionDone(m)
  BY <1>4 DEF SectionDone, Ends, Becomes, Running
<1>5. CASE A4Done(m)
  BY <1>5 DEF A4Done, Still, Becomes, Running
<1>6. CASE PersistDone(m)
  BY <1>6 DEF PersistDone, Ends, Becomes, Running
<1> QED
  BY <1>1, <1>2, <1>3, <1>4, <1>5, <1>6 DEF Works

\* Every step keeps the types of the structure, the row and the handlers.
LEMMA TablesStay ==
  ASSUME QsInv, QsPasses \/ \E m \in Arrivals : ArrivesDone(m) \/ Works(m)
  PROVE  QsTables'
<1>0. QsTables
  BY DEF QsInv
<1>1. CASE QsPasses
  BY <1>0, <1>1 DEF QsPasses, QsTables
<1>2. ASSUME NEW m \in Arrivals, ArrivesDone(m) PROVE QsTables'
  <2>1. handler' \in [Arrivals -> HandlerStates]
    BY <1>2, OneWorks
  <2>2. alone' \in [Arrivals -> BOOLEAN]
    <3>1. \A x \in Arrivals : alone[x] \in BOOLEAN
      BY <1>0 DEF QsTables
    <3>2. \A x \in Arrivals : (IF x = m THEN ~\E y \in Arrivals : Running(y) ELSE alone[x] /\ ~Running(x)) \in BOOLEAN
      OBVIOUS
    <3> QED
      BY <1>2, <3>2 DEF ArrivesDone
  <2>3. before' \in [Arrivals -> SUBSET Arrivals]
    <3>1. {x \in Arrivals : AtPc(x, "done")} \in SUBSET Arrivals
      OBVIOUS
    <3> QED
      BY <1>0, <1>2, <3>1 DEF ArrivesDone, QsTables
  <2> QED
    BY <1>0, <1>2, <2>1, <2>2, <2>3 DEF ArrivesDone, QsTables
<1>3. ASSUME NEW m \in Arrivals, Works(m) PROVE QsTables'
  <2>1. handler' \in [Arrivals -> HandlerStates]
    BY <1>3, OneWorks
  <2>2. handler[m].objs \in ObjectLists /\ handler[m].objs \subseteq Stamped
    BY <1>0, HandlerIs DEF HandlerStates, ObjectLists
  <2>3. UNCHANGED <<alone, before, seconds>>
    BY <1>3, WorkerIs
  <2>4. state' \in Structures
    BY <1>0, <1>3 DEF Works, DecodeDone, LoadDone, ApplyDone, SectionDone, A4Done, PersistDone, QsTables
  <2>5. isOnline' \in Arrivals \cup {Nobody} /\ applied' \subseteq Arrivals
    BY <1>0, <1>3 DEF Works, DecodeDone, LoadDone, ApplyDone, SectionDone, A4Done, PersistDone, QsTables
  <2>6. row' \in ObjectLists /\ persisted' \subseteq Stamped
    <3>1. CASE PersistDone(m)
      <4>1. RowCap \in Nat /\ row \in ObjectLists /\ persisted \subseteq Stamped
        BY <1>0, QueryStateAssumption DEF QsTables
      <4> QED
        BY <2>2, <3>1, <4>1, MergesIs DEF PersistDone
    <3>2. CASE ~PersistDone(m)
      BY <1>0, <1>3, <3>2 DEF Works, DecodeDone, LoadDone, ApplyDone, SectionDone, A4Done, QsTables
    <3> QED
      BY <3>1, <3>2
  <2> QED
    BY <1>0, <2>1, <2>3, <2>4, <2>5, <2>6 DEF QsTables
<1> QED
  BY <1>1, <1>2, <1>3

\* Every step keeps each handler where its list of what is to be stored has it.
LEMMA PlacesStay ==
  ASSUME QsInv, QsPasses \/ \E m \in Arrivals : ArrivesDone(m) \/ Works(m)
  PROVE  \A x \in Arrivals : PlaceOK(x)'
<1>0. QsTables /\ \A x \in Arrivals : PlaceOK(x)
  BY DEF QsInv
<1>1. CASE QsPasses
  BY <1>0, <1>1 DEF QsPasses, PlaceOK, NextStore, Left
<1>2. ASSUME NEW m \in Arrivals, ArrivesDone(m) \/ Works(m), NEW x \in Arrivals, x # m
      PROVE  PlaceOK(x)'
  BY <1>0, <1>2, OneWorks DEF PlaceOK, NextStore, Left
<1>3. ASSUME NEW m \in Arrivals, ArrivesDone(m) PROVE PlaceOK(m)'
  BY <1>0, <1>3 DEF ArrivesDone, Becomes, PlaceOK, NextStore, Left
<1>4. ASSUME NEW m \in Arrivals, Works(m) PROVE PlaceOK(m)'
  <2>0. PlaceOK(m)
    BY <1>0
  <2>1. CASE DecodeDone(m)
    BY <2>0, <2>1 DEF DecodeDone, Still, Becomes, PlaceOK, NextStore, Left
  <2>2. CASE LoadDone(m)
    BY <2>0, <2>2 DEF LoadDone, Still, Becomes, PlaceOK, NextStore, Left
  <2>3. CASE ApplyDone(m)
    BY <2>0, <2>3 DEF ApplyDone, Still, Becomes, PlaceOK, NextStore, Left
  <2>4. CASE A4Done(m)
    BY <2>0, <2>4 DEF A4Done, Still, Becomes, PlaceOK, NextStore, Left
  <2>5. CASE SectionDone(m) \/ PersistDone(m)
    <3>1. handler[m].todo \in Todos \ {<<>>}
      BY <1>0, <2>0, <2>5, HandlerIs DEF SectionDone, PersistDone, HandlerStates, PlaceOK
    <3>2. Range(Tail(handler[m].todo)) \subseteq Range(handler[m].todo)
      BY <3>1, TodosIs
    <3>3. Ends(m)
      BY <2>5 DEF SectionDone, PersistDone
    <3> QED
      BY <2>0, <3>2, <3>3 DEF Ends, Becomes, PlaceOK, NextStore, Left
  <2> QED
    BY <1>4, <2>1, <2>2, <2>3, <2>4, <2>5 DEF Works
<1> QED
  BY <1>1, <1>2, <1>3, <1>4

\* Every step keeps who was done before a message arrived done, and keeps IsOnline
\* from going back to one of these.
LEMMA BeforeStays ==
  ASSUME QsInv, QsPasses \/ \E m \in Arrivals : ArrivesDone(m) \/ Works(m)
  PROVE  BeforeInv' /\ AppliedInv'
<1>0. QsTables /\ BeforeInv /\ AppliedInv
  BY DEF QsInv
<1>1. CASE QsPasses
  BY <1>0, <1>1 DEF QsPasses, BeforeInv, AppliedInv
<1>2. ASSUME NEW m \in Arrivals, ArrivesDone(m) PROVE BeforeInv' /\ AppliedInv'
  <2>1. \A x \in Arrivals : before'[x] = IF x = m THEN {y \in Arrivals : handler[y].pc = "done"} ELSE before[x]
    BY <1>0, <1>2 DEF ArrivesDone, QsTables, AtPc
  <2>2. \A y \in Arrivals : handler[y].pc = "done" => handler'[y].pc = "done"
    BY <1>2, OneWorks
  <2>3. \A x \in Arrivals : before[x] \subseteq Arrivals
    BY <1>0 DEF QsTables
  <2>4. BeforeInv'
    BY <1>0, <2>1, <2>2, <2>3 DEF BeforeInv
  <2>5. m \notin applied /\ applied \subseteq Arrivals /\ isOnline' = isOnline /\ applied' = applied
    BY <1>0, <1>2 DEF ArrivesDone, AppliedInv, QsTables
  <2>6. \A x \in applied : handler'[x] = handler[x] /\ before'[x] = before[x]
    BY <1>2, <2>1, <2>5, OneWorks
  <2>7. AppliedInv'
    BY <1>0, <2>5, <2>6 DEF AppliedInv
  <2> QED
    BY <2>4, <2>7
<1>3. ASSUME NEW m \in Arrivals, Works(m) PROVE BeforeInv' /\ AppliedInv'
  <2>1. before' = before /\ handler'[m].pc # "unsent" /\ \A x \in Arrivals : before[x] \subseteq Arrivals
    BY <1>0, <1>3, WorkerIs DEF QsTables
  <2>2. \A x \in Arrivals : /\ handler[x].pc = "done" => x # m /\ handler'[x].pc = "done"
                            /\ handler[x].pc # "unsent" => handler'[x].pc # "unsent"
    BY <1>3, <2>1, OneWorks
  <2>3. BeforeInv'
    BY <1>0, <2>1, <2>2 DEF BeforeInv
  <2>4. \/ UNCHANGED <<isOnline, applied>>
        \/ isOnline' = m /\ applied' = applied \cup {m}
    BY <1>3 DEF Works, DecodeDone, LoadDone, ApplyDone, SectionDone, A4Done, PersistDone
  <2>5. m # Nobody /\ applied \subseteq Arrivals
    BY <1>0, QueryStateAssumption DEF Arrivals, Nobody, QsTables
  <2>6. \A x \in Arrivals : m \notin before[x]
    BY <1>0, <1>3, OneWorks DEF BeforeInv
  <2>7. AppliedInv'
    BY <1>0, <2>1, <2>2, <2>4, <2>5, <2>6 DEF AppliedInv
  <2> QED
    BY <2>3, <2>7
<1> QED
  BY <1>1, <1>2, <1>3

\* Every step keeps the newest of what was written in the row.
LEMMA RowStays ==
  ASSUME QsInv, QsPasses \/ \E m \in Arrivals : ArrivesDone(m) \/ Works(m)
  PROVE  QsRowKeepsNewest'
<1>0. QsTables /\ QsRowKeepsNewest
  BY DEF QsInv
<1>1. CASE UNCHANGED <<row, persisted>>
  BY <1>0, <1>1 DEF QsRowKeepsNewest, Keeps
<1>2. ASSUME NEW m \in Arrivals, row' \in Merges(row, handler[m].objs, RowCap),
             persisted' = persisted \cup handler[m].objs
      PROVE  QsRowKeepsNewest'
  <2>1. /\ row \in ObjectLists /\ persisted \subseteq Stamped /\ RowCap \in Nat
        /\ handler[m].objs \in ObjectLists /\ handler[m].objs \subseteq Stamped
    BY <1>0, HandlerIs, QueryStateAssumption DEF QsTables, HandlerStates, ObjectLists
  <2> SUFFICES ASSUME NEW o \in persisted \cup handler[m].objs PROVE Keeps(row', o, RowCap)
    BY <1>2 DEF QsRowKeepsNewest, Keeps
  <2>2. o \in Stamped /\ (o \in handler[m].objs \/ Keeps(row, o, RowCap))
    BY <1>0, <2>1 DEF QsRowKeepsNewest
  <2> QED
    BY <1>2, <2>1, <2>2, MergeKeeps
<1>3. \/ UNCHANGED <<row, persisted>>
      \/ \E m \in Arrivals : /\ row' \in Merges(row, handler[m].objs, RowCap)
                             /\ persisted' = persisted \cup handler[m].objs
  BY DEF QsPasses, ArrivesDone, Works, DecodeDone, LoadDone, ApplyDone, SectionDone, A4Done, PersistDone
<1> QED
  BY <1>1, <1>2, <1>3

\* Every step keeps what a handler that is alone has stored.
LEMMA LoneStays ==
  ASSUME QsInv, QsPasses \/ \E m \in Arrivals : ArrivesDone(m) \/ Works(m)
  PROVE  QsLoneInv'
<1>0. QsTables /\ QsLoneInv /\ (\A x \in Arrivals : PlaceOK(x)) /\ QsTables'
  BY TablesStay DEF QsInv
<1>1. CASE QsPasses
  BY <1>0, <1>1 DEF QsPasses, QsLoneInv, LoneOK, Running, Left, Keeps
<1>2. ASSUME NEW m \in Arrivals, ArrivesDone(m), NEW x \in Arrivals PROVE LoneOK(x)'
  <2>0. handler[m].pc = "unsent" /\ \A y \in Arrivals : y # m => handler'[y] = handler[y]
    BY <1>2, OneWorks DEF ArrivesDone
  <2>1. alone'[x] = IF x = m THEN ~\E y \in Arrivals : Running(y) ELSE alone[x] /\ ~Running(x)
    BY <1>2 DEF ArrivesDone
  <2>2. CASE x # m
    BY <2>0, <2>1, <2>2 DEF LoneOK, Running
  <2>3. CASE x = m
    <3>1. handler[m].objs = {}
      BY <1>0, <2>0 DEF PlaceOK
    <3>2. /\ handler'[m].objs = {} /\ handler'[m].pc \in {"next", "done"}
          /\ handler'[m].section # NoSection <=> "section" \in Range(handler'[m].todo)
      BY <1>2, <3>1 DEF ArrivesDone, Becomes
    <3>3. alone'[m] => \A y \in Arrivals : ~Running(y)
      BY <2>1, <2>3
    <3> QED
      BY <2>0, <2>3, <3>2, <3>3 DEF LoneOK, Running, Left
  <2> QED
    BY <2>2, <2>3
<1>3. ASSUME NEW m \in Arrivals, Works(m), NEW x \in Arrivals PROVE LoneOK(x)'
  <2>0. /\ Running(m) /\ handler'[m].section = handler[m].section /\ alone' = alone
        /\ \A y \in Arrivals : y # m => handler'[y] = handler[y]
    BY <1>3, WorkerIs, OneWorks
  <2>1. CASE x # m
    BY <1>0, <2>0, <2>1 DEF QsLoneInv, LoneOK, Running
  <2>2. CASE x = m /\ alone[m]
    <3>0. /\ LoneOK(m) /\ PlaceOK(m) /\ handler[m] \in HandlerStates /\ handler[m].objs \in ObjectLists
          /\ handler[m].objs \subseteq Stamped /\ state \in Structures
      BY <1>0, HandlerIs DEF QsLoneInv, HandlerStates, ObjectLists, QsTables
    <3>1. /\ \A y \in Arrivals : y # m => ~Running(y) /\ ~Running(y)'
          /\ handler[m].pc \in {"apply", "store"} => handler[m].copy = state
          /\ handler[m].section # NoSection /\ "section" \notin Left(m) =>
               state.field[handler[m].section] = m
          /\ "a4" \notin Left(m) \/ handler[m].pc = "persist" =>
               \A o \in handler[m].objs : Keeps(state.a4, o, MemCap)
      BY <2>0, <2>2, <3>0 DEF LoneOK, Running
    <3>2. handler[m].todo # <<>> => handler[m].todo \in Todos \ {<<>>} /\ NextStore(m) \in Left(m)
      BY <3>0, TodosIs DEF HandlerStates, NextStore, Left
    <3>3. CASE DecodeDone(m)
      BY <3>0, <3>1, <3>2, <3>3, <2>2 DEF DecodeDone, Still, Becomes, LoneOK, Left, PlaceOK
    <3>4. CASE LoadDone(m)
      BY <3>0, <3>1, <3>2, <3>4, <2>2 DEF LoadDone, Still, Becomes, LoneOK, Left, PlaceOK
    <3>5. CASE ApplyDone(m)
      BY <3>0, <3>1, <3>2, <3>5, <2>2 DEF ApplyDone, Still, Becomes, LoneOK, Left, PlaceOK
    <3>6. CASE A4Done(m)
      <4>1. \A o \in handler[m].objs : Keeps(state'.a4, o, MemCap)
        <5>1. handler[m].copy.a4 \in ObjectLists /\ MemCap \in Nat
          BY <3>0, QueryStateAssumption DEF HandlerStates, Structures
        <5> QED
          BY <3>0, <3>6, <5>1, MergeKeeps DEF A4Done
      <4>2. handler[m].copy = state
        BY <3>1, <3>6 DEF A4Done
      <4> QED
        BY <3>0, <3>1, <3>6, <4>1, <4>2, <2>2 DEF A4Done, Still, Becomes, LoneOK, Left
    <3>7. CASE SectionDone(m)
      <4>1. handler[m].copy = state /\ handler[m].section \in Sections
        BY <3>0, <3>1, <3>2, <3>7 DEF SectionDone, PlaceOK
      <4>2. state'.a4 = state.a4 /\ state'.field[handler[m].section] = m
        BY <3>0, <3>7, <4>1 DEF SectionDone, Structures
      <4>3. /\ handler'[m].pc \in {"next", "done"} /\ handler'[m].objs = handler[m].objs
            /\ handler'[m].todo = Tail(handler[m].todo)
        BY <3>7 DEF SectionDone, Ends, Becomes
      <4>4. "a4" \notin Range(handler'[m].todo) => "a4" \notin Left(m)
        <5>1. handler[m].todo # <<>> /\ Head(handler[m].todo) = "section"
          BY <3>0, <3>7 DEF SectionDone, PlaceOK, NextStore
        <5> QED
          BY <3>2, <4>3, <5>1, TodosIs DEF Left
      <4> QED
        BY <2>0, <2>2, <3>1, <4>2, <4>3, <4>4 DEF LoneOK, Left
    <3>8. CASE PersistDone(m)
      <4>1. \A o \in handler[m].objs : Keeps(state.a4, o, MemCap)
        BY <3>1, <3>8 DEF PersistDone
      <4>2. /\ handler'[m].pc \in {"next", "done"} /\ handler'[m].objs = handler[m].objs
            /\ handler'[m].todo = Tail(handler[m].todo) /\ state' = state
        BY <3>8 DEF PersistDone, Ends, Becomes
      <4>3. "section" \notin Range(handler'[m].todo) => "section" \notin Left(m)
        <5>1. handler[m].todo # <<>> /\ Head(handler[m].todo) = "a4"
          BY <3>0, <3>8 DEF PersistDone, PlaceOK, NextStore
        <5> QED
          BY <3>2, <4>2, <5>1, TodosIs DEF Left
      <4> QED
        BY <2>0, <2>2, <3>1, <4>1, <4>2, <4>3 DEF LoneOK, Left
    <3> QED
      BY <1>3, <3>3, <3>4, <3>5, <3>6, <3>7, <3>8 DEF Works
  <2> QED
    BY <2>0, <2>1, <2>2 DEF LoneOK
<1> QED
  BY <1>1, <1>2, <1>3 DEF QsLoneInv

\* A store keeps in the structure what its copy has of a message that is done.
LEMMA StoreKeeps ==
  ASSUME QsInv, NEW m \in Arrivals, SectionDone(m) \/ A4Done(m), NEW x \in Arrivals,
         handler[x].pc = "done", LastsIn(x, handler[m].copy)
  PROVE  LastsIn(x, state')
<1>0. /\ m # Nobody /\ m \notin before[x] /\ handler[m] \in HandlerStates /\ handler[x] \in HandlerStates
      /\ PlaceOK(m)
  BY HandlerIs, QueryStateAssumption DEF QsInv, BeforeInv, Arrivals, Nobody, SectionDone, A4Done
<1>1. CASE SectionDone(m)
  <2>1. handler[m].copy.field \in [Sections -> Arrivals \cup {Nobody}] /\ handler[x].section \in Sections \cup {NoSection}
    BY <1>0 DEF HandlerStates, Structures
  <2>2. handler[x].section # NoSection =>
          state'.field[handler[x].section] \in {m, handler[m].copy.field[handler[x].section]}
    BY <1>1, <2>1 DEF SectionDone
  <2> QED
    BY <1>0, <1>1, <2>2 DEF SectionDone, LastsIn
<1>2. CASE A4Done(m)
  <2>1. /\ handler[m].copy.a4 \in ObjectLists /\ handler[m].objs \in ObjectLists /\ handler[x].objs \subseteq Stamped
        /\ MemCap \in Nat
    BY <1>0, QueryStateAssumption DEF HandlerStates, Structures, ObjectLists
  <2>2. \A o \in handler[x].objs : Keeps(state'.a4, o, MemCap)
    BY <1>2, <2>1, MergeKeeps DEF A4Done, LastsIn
  <2> QED
    BY <1>2, <2>2 DEF A4Done, LastsIn
<1> QED
  BY <1>1, <1>2

\* Every step keeps what a handler that was alone has left, in the structure and in
\* every copy that may yet be stored.
LEMMA DoneStays ==
  ASSUME QsInv, QsPasses \/ \E m \in Arrivals : ArrivesDone(m) \/ Works(m)
  PROVE  DoneInv'
<1>0. QsTables /\ QsLoneInv /\ DoneInv /\ BeforeInv /\ \A x \in Arrivals : PlaceOK(x)
  BY DEF QsInv
<1>1. CASE QsPasses
  BY <1>0, <1>1 DEF QsPasses, DoneInv, DoneOK, LastsIn, Keeps, AtPc
<1>2. ASSUME NEW m \in Arrivals, ArrivesDone(m), NEW x \in Arrivals PROVE DoneOK(x)'
  <2>0. /\ handler[m].pc = "unsent" /\ state' = state
        /\ \A y \in Arrivals : y # m => handler'[y] = handler[y] /\ before'[y] = before[y]
    BY <1>0, <1>2, OneWorks DEF ArrivesDone, QsTables
  <2>1. /\ handler'[m].pc \in {"next", "done"} /\ handler'[m].objs = handler[m].objs
        /\ handler'[m].section # NoSection <=> "section" \in Range(handler'[m].todo)
        /\ handler'[m].pc = "done" => handler'[m].todo = <<>>
    BY <1>2 DEF ArrivesDone, Becomes
  <2>2. CASE x = m
    <3>1. handler'[m].objs = {}
      BY <1>0, <2>0, <2>1 DEF PlaceOK
    <3>2. handler'[m].pc = "done" => handler'[m].section = NoSection
      BY <2>1, TodosIs
    <3> QED
      BY <2>2, <3>1, <3>2 DEF DoneOK, LastsIn, AtPc
  <2>3. CASE x # m
    <3>1. alone'[x] => alone[x]
      BY <1>2, <2>3 DEF ArrivesDone
    <3>2. DoneOK(x)
      BY <1>0 DEF DoneInv
    <3> QED
      BY <2>0, <2>1, <2>3, <3>1, <3>2 DEF DoneOK, LastsIn, AtPc
  <2> QED
    BY <2>2, <2>3
<1>3. ASSUME NEW m \in Arrivals, Works(m), NEW x \in Arrivals PROVE DoneOK(x)'
  <2>0. /\ Running(m) /\ handler'[m].section = handler[m].section /\ alone' = alone /\ before' = before
        /\ \A y \in Arrivals : y # m => handler'[y] = handler[y]
    BY <1>3, WorkerIs, OneWorks
  <2>1. CASE x # m
    <3> SUFFICES ASSUME handler[x].pc = "done", alone[x] PROVE DoneOK(x)'
      BY <2>0, <2>1 DEF DoneOK, AtPc
    <3>1. LastsIn(x, state) /\ \A y \in Arrivals : handler[y].pc \in {"apply", "store"} => LastsIn(x, handler[y].copy)
      BY <1>0 DEF DoneInv, DoneOK, AtPc
    <3>2. LastsIn(x, state')
      <4>1. CASE SectionDone(m) \/ A4Done(m)
        <5>1. handler[m].pc = "store"
          BY <4>1 DEF SectionDone, A4Done
        <5> QED
          BY <3>1, <4>1, <5>1, StoreKeeps
      <4>2. CASE ~(SectionDone(m) \/ A4Done(m))
        BY <1>3, <3>1, <4>2 DEF Works, DecodeDone, LoadDone, ApplyDone, PersistDone
      <4> QED
        BY <4>1, <4>2
    <3>3. handler'[m].pc \in {"apply", "store"} =>
            \/ handler'[m].copy = state
            \/ handler[m].pc = "apply" /\ handler'[m].copy = handler[m].copy
      <4>1. CASE DecodeDone(m) \/ A4Done(m)
        BY <4>1 DEF DecodeDone, A4Done, Still, Becomes
      <4>2. CASE SectionDone(m) \/ PersistDone(m)
        BY <4>2 DEF SectionDone, PersistDone, Ends, Becomes
      <4>3. CASE LoadDone(m)
        BY <4>3 DEF LoadDone, Still, Becomes
      <4>4. CASE ApplyDone(m)
        BY <4>4 DEF ApplyDone, Still, Becomes
      <4> QED
        BY <1>3, <4>1, <4>2, <4>3, <4>4 DEF Works
    <3>4. handler'[m].pc \in {"apply", "store"} => LastsIn(x, handler'[m].copy)
      BY <3>1, <3>3
    <3> QED
      BY <2>0, <2>1, <3>1, <3>2, <3>4 DEF DoneOK, LastsIn
  <2>2. CASE x = m
    <3> SUFFICES ASSUME handler'[m].pc = "done", alone[m] PROVE DoneOK(m)'
      BY <2>0, <2>2 DEF DoneOK, AtPc
    <3>0. /\ LoneOK(m) /\ PlaceOK(m) /\ handler[m].todo \in Todos /\ m # Nobody /\ m \notin before[m]
          /\ handler[m].section \in Sections \cup {NoSection}
      BY <1>0, <2>0, HandlerIs, QueryStateAssumption
         DEF QsLoneInv, HandlerStates, Arrivals, Nobody, BeforeInv, Running
    <3>1. SectionDone(m) \/ PersistDone(m)
      BY <1>3 DEF Works, DecodeDone, LoadDone, ApplyDone, A4Done, Still, Becomes
    <3>2. Tail(handler[m].todo) = <<>> /\ handler'[m].objs = handler[m].objs
      BY <3>1 DEF SectionDone, PersistDone, Ends, Becomes
    <3>3. Left(m) = {NextStore(m)}
      <4>1. handler[m].todo # <<>>
        BY <2>0, <3>0 DEF PlaceOK, Running
      <4>2. Range(<<>>) = {}
        BY TodosIs
      <4>3. Range(handler[m].todo) = Range(Tail(handler[m].todo)) \cup {Head(handler[m].todo)}
        BY <3>0, <4>1, TodosIs
      <4> QED
        BY <3>2, <4>2, <4>3 DEF Left, NextStore
    <3>4. handler[m].section # NoSection => state'.field[handler[m].section] = m
      <4>1. CASE SectionDone(m)
        <5>1. handler[m].copy.field \in [Sections -> Arrivals \cup {Nobody}]
          BY <1>0, HandlerIs DEF HandlerStates, Structures
        <5> QED
          BY <3>0, <4>1, <5>1 DEF SectionDone
      <4>2. CASE PersistDone(m)
        <5>1. "section" \notin Left(m) /\ state' = state
          BY <3>0, <3>3, <4>2 DEF PersistDone, PlaceOK
        <5> QED
          BY <2>0, <3>0, <5>1 DEF LoneOK
      <4> QED
        BY <3>1, <4>1, <4>2
    <3>5. \A o \in handler[m].objs : Keeps(state'.a4, o, MemCap)
      <4>1. CASE SectionDone(m)
        <5>1. handler[m].copy = state /\ state'.a4 = handler[m].copy.a4 /\ "a4" \notin Left(m)
          BY <2>0, <3>0, <3>3, <4>1 DEF SectionDone, LoneOK
        <5> QED
          BY <2>0, <3>0, <5>1 DEF LoneOK
      <4>2. CASE PersistDone(m)
        BY <2>0, <3>0, <4>2 DEF PersistDone, LoneOK
      <4> QED
        BY <3>1, <4>1, <4>2
    <3>6. \A y \in Arrivals : handler'[y].pc \notin {"apply", "store"}
      BY <2>0, <3>0 DEF LoneOK, Running
    <3> QED
      BY <2>0, <3>0, <3>2, <3>4, <3>5, <3>6 DEF DoneOK, LastsIn
  <2> QED
    BY <2>1, <2>2
<1> QED
  BY <1>1, <1>2, <1>3 DEF DoneInv

\* The invariant holds in every reachable state.
LEMMA QsInvHolds == QsSpec => []QsInv
<1>1. QsInv /\ [QsNext]_stateVars => QsInv'
  <2> SUFFICES ASSUME QsInv, [QsNext]_stateVars PROVE QsInv'
    OBVIOUS
  <2>1. QsPasses \/ \E m \in Arrivals : ArrivesDone(m) \/ Works(m)
    BY QsStepIs
  <2> QED
    BY <2>1, TablesStay, PlacesStay, BeforeStays, RowStays, LoneStays, DoneStays DEF QsInv
<1> QED
  BY <1>1, QsStarts, PTL DEF QsSpec

\* What the server knows of a device, its row and its handlers keep their types.
THEOREM QsTyped == QsSpec => []QsTypeOK
<1>1. QsTables => QsTypeOK
  <2> SUFFICES ASSUME QsTables PROVE QsTypeOK
    OBVIOUS
  <2>1. \A copy \in Structures :
          copy \in [field : [Sections -> Arrivals \cup {Nobody}], a4 : SUBSET Stamped]
    BY DEF Structures, ObjectLists
  <2>2. row \subseteq Stamped /\ \A m \in Arrivals : alone[m] \in BOOLEAN /\ before[m] \subseteq Arrivals
    BY DEF QsTables, ObjectLists
  <2>3. \A m \in Arrivals :
          /\ handler[m].pc \in {"unsent", "next", "load", "apply", "store", "persist", "done"}
          /\ handler[m].section \in Sections \cup {NoSection}
          /\ handler[m].body \subseteq SUBSET A4Objects
          /\ handler[m].objs \subseteq Stamped /\ handler[m].copy \in Structures
    BY HandlerIs DEF HandlerStates, ObjectLists
  <2> QED
    BY <2>1, <2>2, <2>3 DEF QsTypeOK, QsTables
<1>2. QsInv => QsTables
  BY DEF QsInv
<1> QED
  BY <1>1, <1>2, QsInvHolds, PTL

\* Whatever the order in which the handlers of a device's messages load, change and
\* store what is known of it: a message that was handled alone is not lost to a copy
\* taken before it, and the row keeps the newest of what was written (storeQueryState,
\* storeDeviceConfigState, storeAppendixA4State, persistAppendixA4Objects).
THEOREM LastRemains == QsSpec => []QsLastRemains
<1>1. QsInv => QsLastRemains
  <2> SUFFICES ASSUME QsInv PROVE QsRowKeepsNewest /\ QsLoneUpdateLasts
    BY DEF QsLastRemains
  <2>1. \A m \in Arrivals : AtPc(m, "done") /\ alone[m] => LastsIn(m, state)
    BY DEF QsInv, DoneInv, DoneOK
  <2>2. \A m \in applied : isOnline \notin before[m] \cup {Nobody}
    BY DEF QsInv, AppliedInv
  <2> QED
    BY <2>1, <2>2 DEF QsInv, QsLoneUpdateLasts, LastsIn
<1> QED
  BY <1>1, QsInvHolds, PTL

(* Sets of numbers have a least member, and a greatest one if there is a bound. *)

LEMMA Least ==
  ASSUME NEW T \in SUBSET Nat, T # {}
  PROVE  \E n \in T : \A k \in T : n <= k
<1>1. PICK x \in T : \A y \in T : ~ (<<y, x>> \in OpToRel(<, Nat))
  BY NatLessThanWellFounded, WFMin
<1>2. \A y \in T : ~(y < x)
  BY <1>1 DEF OpToRel
<1> QED
  BY <1>2

LEMMA Greatest ==
  ASSUME NEW T \in SUBSET Nat, T # {}, NEW b \in Nat, \A k \in T : k <= b
  PROVE  \E n \in T : \A k \in T : k <= n
<1> DEFINE U == {n \in Nat : \A k \in T : k <= n}
<1>0. U \in SUBSET Nat /\ b \in U
  OBVIOUS
<1>1. PICK n \in U : \A k \in U : n <= k
  <2> HIDE DEF U
  <2> QED
    BY <1>0, Least
<1>2. n \in T
  <2> SUFFICES ASSUME n \notin T PROVE FALSE
    OBVIOUS
  <2>0. PICK y \in T : TRUE
    OBVIOUS
  <2>1. \A k \in T : k < n
    BY <1>1
  <2>2. n - 1 \in U
    BY <1>1, <2>0, <2>1
  <2> QED
    BY <1>1, <2>2
<1> QED
  BY <1>1, <1>2

\* The recordings after the window's clip have a length.
ProperSegments == {m \in Segment : m.start < m.end}

LEMMA Bounds ==
  ASSUME NEW s \in Seq(ProperSegments)
  PROVE  /\ Len(s) \in Nat /\ DOMAIN s = 1..Len(s)
         /\ \A k \in 1..Len(s) :
              s[k] \in ProperSegments /\ s[k].start \in Nat /\ s[k].end \in Nat /\ s[k].start < s[k].end
<1>1. Len(s) \in Nat /\ DOMAIN s = 1..Len(s) /\ \A k \in 1..Len(s) : s[k] \in ProperSegments
  BY LenProperties
<1>2. \A m \in ProperSegments : m.start \in Nat /\ m.end \in Nat /\ m.start < m.end
  BY DEF ProperSegments, Segment
<1> QED
  BY <1>1, <1>2

----------------------------------------------------------------------------
(* The runs of a sequence of segments. *)

LEMMA LastIs ==
  ASSUME NEW s \in Seq(ProperSegments), NEW i \in Begins(s)
  PROVE  /\ i \in DOMAIN s /\ LastOf(s, i) \in DOMAIN s /\ i <= LastOf(s, i)
         /\ \A k \in (i + 1)..LastOf(s, i) : k \notin Begins(s)
         /\ LastOf(s, i) = Len(s) \/ LastOf(s, i) + 1 \in Begins(s)
<1> DEFINE B == Begins(s)
           n == Len(s)
           T == {k \in 1..n : i <= k /\ (k = n \/ k + 1 \in B)}
<1>1. DOMAIN s = 1..n /\ n \in Nat /\ i \in 1..n /\ i \in B
  BY Bounds DEF Begins
<1> HIDE DEF n, B
<1>2. T \in SUBSET Nat /\ n \in T
  BY <1>1
<1>3. PICK j \in T : \A k \in T : j <= k
  <2> HIDE DEF T
  <2> QED
    BY <1>2, Least
<1>4. ASSUME NEW k \in (i + 1)..j, k \in B PROVE FALSE
  <2>1. k - 1 \in 1..n /\ i <= k - 1 /\ (k - 1) + 1 = k
    BY <1>1, <1>3
  <2>2. k - 1 \in T
    BY <1>4, <2>1
  <2> QED
    BY <1>1, <1>3, <2>1, <2>2
<1>5. (i + 1)..j \cap B = {}
  BY <1>4
<1>6. \E k \in 1..n : i <= k /\ (i + 1)..k \cap B = {} /\ (k = n \/ k + 1 \in B)
  BY <1>3, <1>5
<1> HIDE DEF T
<1>7. \E k \in DOMAIN s : i <= k /\ (i + 1)..k \cap Begins(s) = {} /\ (k = Len(s) \/ k + 1 \in Begins(s))
  BY <1>1, <1>6 DEF n, B
<1>8. /\ LastOf(s, i) \in DOMAIN s /\ i <= LastOf(s, i) /\ (i + 1)..LastOf(s, i) \cap Begins(s) = {}
      /\ LastOf(s, i) = Len(s) \/ LastOf(s, i) + 1 \in Begins(s)
  BY <1>7 DEF LastOf
<1> QED
  BY <1>1, <1>8

\* Within a run the starts rise.
LEMMA RunRises ==
  ASSUME NEW s \in Seq(ProperSegments), NEW i \in 1..Len(s), NEW j \in 1..Len(s),
         \A k \in (i + 1)..j : k \notin Begins(s)
  PROVE  \A k \in i..j : s[i].start <= s[k].start
<1>1. /\ Len(s) \in Nat /\ DOMAIN s = 1..Len(s)
      /\ \A k \in 1..Len(s) : s[k].start \in Nat /\ s[k].end \in Nat /\ s[k].start < s[k].end
  BY Bounds
<1>2. \A k \in (i + 1)..j : k \in 1..Len(s) /\ k - 1 \in 1..Len(s) /\ k - 1 \in i..j /\ s[k].start = s[k - 1].end
  BY <1>1 DEF Begins
<1> DEFINE T == {k \in i..j : s[k].start < s[i].start}
<1>3. T \in SUBSET Nat
  BY <1>1
<1> SUFFICES ASSUME T # {} PROVE FALSE
  BY <1>1
<1>4. PICK k \in T : \A x \in T : k <= x
  <2> HIDE DEF T
  <2> QED
    BY <1>3, Least
<1>5. k \in i..j /\ k \in 1..Len(s) /\ s[k].start < s[i].start
  BY <1>1, <1>4
<1>6. k # i
  BY <1>1, <1>5
<1>7. k \in (i + 1)..j
  BY <1>1, <1>5, <1>6
<1>8. k - 1 \in i..j /\ k - 1 \in 1..Len(s) /\ k \in 1..Len(s) /\ s[k].start = s[k - 1].end
  BY <1>2, <1>7
<1>9. s[k - 1].start < s[i].start
  BY <1>1, <1>5, <1>8
<1>10. k - 1 \in T
  BY <1>8, <1>9
<1> QED
  BY <1>1, <1>4, <1>5, <1>10

\* A run covers what its segments cover.
LEMMA RunCovers ==
  ASSUME NEW s \in Seq(ProperSegments), NEW i \in 1..Len(s), NEW j \in 1..Len(s), i <= j,
         \A k \in (i + 1)..j : k \notin Begins(s)
  PROVE  /\ s[i].start < s[j].end
         /\ \A k \in i..j : s[i].start <= s[k].start /\ s[k].end <= s[j].end
         /\ \A t \in Nat : s[i].start <= t /\ t <= s[j].end =>
              \E k \in i..j : s[k].start <= t /\ t <= s[k].end
<1>1. /\ Len(s) \in Nat /\ DOMAIN s = 1..Len(s)
      /\ \A k \in 1..Len(s) : s[k].start \in Nat /\ s[k].end \in Nat /\ s[k].start < s[k].end
  BY Bounds
<1>a. \A k \in (i + 1)..j : k \in 1..Len(s) /\ k - 1 \in 1..Len(s) /\ k - 1 \in i..j /\ s[k].start = s[k - 1].end
  BY <1>1 DEF Begins
<1>2. \A k \in i..j : s[i].start <= s[k].start
  BY RunRises
<1>3. \A k \in i..j : s[k].end <= s[j].end
  <2> SUFFICES ASSUME NEW k \in i..j, k # j PROVE s[k].end <= s[j].end
    BY <1>1
  <2>1. k + 1 \in (i + 1)..j /\ k + 1 \in 1..Len(s) /\ k \in 1..Len(s) /\ (k + 1) - 1 = k
    BY <1>1
  <2>2. s[k + 1].start = s[k].end
    BY <1>a, <2>1
  <2>3. \A x \in ((k + 1) + 1)..j : x \notin Begins(s)
    BY <1>1, <2>1
  <2>4. \A x \in (k + 1)..j : s[k + 1].start <= s[x].start
    BY <2>1, <2>3, RunRises
  <2>a. j \in (k + 1)..j
    BY <2>1
  <2>5. s[k + 1].start <= s[j].start
    BY <2>a, <2>4
  <2> QED
    BY <1>1, <2>1, <2>2, <2>5
<1>4. s[i].start < s[j].end
  <2>1. s[i].start <= s[j].start
    BY <1>1, <1>2
  <2> QED
    BY <1>1, <2>1
<1>5. ASSUME NEW t \in Nat, s[i].start <= t, t <= s[j].end
      PROVE  \E k \in i..j : s[k].start <= t /\ t <= s[k].end
  <2> DEFINE T == {k \in i..j : t <= s[k].end}
  <2>1. T \in SUBSET Nat /\ j \in T
    BY <1>1, <1>5
  <2>2. PICK k \in T : \A x \in T : k <= x
    <3> HIDE DEF T
    <3> QED
      BY <2>1, Least
  <2>3. CASE k = i
    BY <1>5, <2>2, <2>3
  <2>4. CASE k # i
    <3>1. k \in (i + 1)..j /\ k \in 1..Len(s)
      BY <1>1, <2>2, <2>4
    <3>2. k - 1 \in i..j /\ k - 1 \in 1..Len(s) /\ s[k].start = s[k - 1].end
      BY <1>a, <3>1
    <3>3. k - 1 \notin T
      BY <1>1, <2>2, <3>1
    <3>4. s[k - 1].end < t
      BY <1>1, <3>2, <3>3
    <3> QED
      BY <1>1, <2>2, <3>1, <3>2, <3>4
  <2> QED
    BY <2>3, <2>4
<1> QED
  BY <1>2, <1>3, <1>4, <1>5

\* Every segment is in a run.
LEMMA RunOfEach ==
  ASSUME NEW s \in Seq(ProperSegments), NEW k \in 1..Len(s)
  PROVE  \E i \in Begins(s) : k \in i..LastOf(s, i)
<1>1. DOMAIN s = 1..Len(s) /\ Len(s) \in Nat
  BY Bounds
<1> DEFINE T == {i \in Begins(s) : i <= k}
<1>2. k \in Nat /\ T \in SUBSET Nat /\ 1 \in T /\ \A x \in T : x <= k
  BY <1>1 DEF Begins
<1>3. PICK i \in T : \A x \in T : x <= i
  <2> HIDE DEF T
  <2> QED
    BY <1>2, Greatest
<1>4. i \in Begins(s) /\ i \in 1..Len(s) /\ i <= k
  BY <1>1, <1>3 DEF Begins
<1>5. \A x \in (i + 1)..k : x \notin Begins(s)
  BY <1>1, <1>3, <1>4
<1>6. /\ LastOf(s, i) \in 1..Len(s) /\ i <= LastOf(s, i)
      /\ LastOf(s, i) = Len(s) \/ LastOf(s, i) + 1 \in Begins(s)
  BY <1>1, <1>4, LastIs
<1>7. LastOf(s, i) >= k
  BY <1>1, <1>4, <1>5, <1>6
<1> QED
  BY <1>1, <1>4, <1>6, <1>7

----------------------------------------------------------------------------
(* Days. *)

LEMMA Multiples ==
  ASSUME NEW j \in Nat, NEW k \in Nat
  PROVE  /\ Midnight(k) \in Nat
         /\ Midnight(k + 1) = Midnight(k) + Day
         /\ j <= k => Midnight(j) <= Midnight(k)
<1>1. Day \in Nat
  BY RecordAssumption
<1>2. \A a, b, d \in Nat : a * d \in Nat /\ (a + 1) * d = a * d + d /\ (a <= b => a * d <= b * d)
  OBVIOUS
<1> QED
  BY <1>1, <1>2 DEF Midnight

LEMMA DayOf ==
  ASSUME NEW t \in Nat
  PROVE  /\ t \div Day \in Nat
         /\ Midnight(t \div Day) <= t /\ t < Midnight((t \div Day) + 1)
<1>1. Day \in Nat \ {0}
  BY RecordAssumption
<1>2. \A n \in Nat, d \in Nat \ {0} : n \div d \in Nat /\ (n \div d) * d <= n /\ n < ((n \div d) + 1) * d
  OBVIOUS
<1> QED
  BY <1>1, <1>2 DEF Midnight

\* The day of a second is the one whose midnights it is between.
LEMMA DaysRise ==
  ASSUME NEW t \in Nat, NEW u \in Nat, t <= u
  PROVE  t \div Day <= u \div Day
<1> DEFINE d == t \div Day
           e == u \div Day
<1>1. d \in Nat /\ Midnight(d) <= t
  BY DayOf
<1>2. e \in Nat /\ u < Midnight(e + 1)
  BY DayOf
<1> HIDE DEF d, e
<1>3. e + 1 <= d => Midnight(e + 1) <= Midnight(d)
  BY <1>1, <1>2, Multiples
<1>4. Midnight(e + 1) \in Nat /\ Midnight(d) \in Nat
  BY <1>1, <1>2, Multiples
<1>5. d <= e
  BY <1>1, <1>2, <1>3, <1>4
<1> QED
  BY <1>5 DEF d, e

\* The pieces of a segment lie within their days and within the segment, and leave nothing out.
LEMMA Pieces ==
  ASSUME NEW m \in ProperSegments
  PROVE  LET days == (m.start \div Day)..(m.end \div Day)
         IN /\ days \subseteq Nat
            /\ \A k \in days :
                 /\ Piece(m, k) \in Segment
                 /\ Midnight(k) <= Piece(m, k).start
                 /\ Piece(m, k).start <= Piece(m, k).end
                 /\ Piece(m, k).end < Midnight(k + 1)
                 /\ m.start <= Piece(m, k).start
                 /\ Piece(m, k).end <= m.end
            /\ \A t \in m.start..m.end : \E k \in days : t \in Piece(m, k).start..Piece(m, k).end
<1> DEFINE a == m.start
           b == m.end
           days == (a \div Day)..(b \div Day)
<1>1. a \in Nat /\ b \in Nat /\ a < b
  BY DEF ProperSegments, Segment
<1>2. a \div Day \in Nat /\ b \div Day \in Nat /\ days \subseteq Nat
  BY <1>1, DayOf
<1> HIDE DEF a, b
<1>3. ASSUME NEW k \in days
      PROVE  /\ k \in Nat /\ Midnight(k) \in Nat /\ Midnight(k) <= b /\ a < Midnight(k + 1)
             /\ Midnight(k + 1) = Midnight(k) + Day /\ Midnight(k + 1) \in Nat
  <2>1. k \in Nat /\ a \div Day <= k /\ k <= b \div Day /\ (a \div Day) + 1 <= k + 1
    BY <1>2
  <2>2. Midnight(k) <= Midnight(b \div Day) /\ Midnight((a \div Day) + 1) <= Midnight(k + 1)
    BY <1>2, <2>1, Multiples
  <2>3. Midnight(b \div Day) <= b /\ a < Midnight((a \div Day) + 1)
    BY <1>1, DayOf
  <2>4. /\ Midnight(b \div Day) \in Nat /\ Midnight((a \div Day) + 1) \in Nat
        /\ Midnight(k) \in Nat /\ Midnight(k + 1) \in Nat /\ Midnight(k + 1) = Midnight(k) + Day
    BY <1>2, <2>1, Multiples
  <2> QED
    BY <1>1, <2>1, <2>2, <2>3, <2>4
<1>4. Day \in Nat /\ Day > 0
  BY RecordAssumption
<1>5. ASSUME NEW k \in days
      PROVE  /\ Piece(m, k).start = IF a > Midnight(k) THEN a ELSE Midnight(k)
             /\ Piece(m, k).end = IF b >= Midnight(k + 1) THEN Midnight(k + 1) - 1 ELSE b
             /\ Piece(m, k) = [start |-> Piece(m, k).start, end |-> Piece(m, k).end]
  BY DEF Piece, MaxOf, a, b
<1>6. ASSUME NEW k \in days
      PROVE  /\ Piece(m, k).start \in Nat /\ Piece(m, k).end \in Nat
             /\ Midnight(k) <= Piece(m, k).start
             /\ Piece(m, k).start <= Piece(m, k).end
             /\ Piece(m, k).end < Midnight(k + 1)
             /\ a <= Piece(m, k).start
             /\ Piece(m, k).end <= b
  <2> DEFINE p == Piece(m, k).start
             e == Piece(m, k).end
  <2>1. /\ p = IF a > Midnight(k) THEN a ELSE Midnight(k)
        /\ e = IF b >= Midnight(k + 1) THEN Midnight(k + 1) - 1 ELSE b
    BY <1>5
  <2> HIDE DEF p, e
  <2>2. /\ p \in Nat /\ e \in Nat /\ Midnight(k) <= p /\ p <= e /\ e < Midnight(k + 1) /\ a <= p /\ e <= b
    BY <1>1, <1>3, <1>4, <2>1
  <2> QED
    BY <2>2 DEF p, e
<1>7. ASSUME NEW k \in days PROVE Piece(m, k) \in Segment
  BY <1>5, <1>6 DEF Segment
<1>8. ASSUME NEW t \in a..b PROVE \E k \in days : t \in Piece(m, k).start..Piece(m, k).end
  <2> DEFINE k == t \div Day
  <2>1. t \in Nat /\ k \in Nat /\ Midnight(k) <= t /\ t < Midnight(k + 1)
    BY <1>1, DayOf
  <2>2. a \div Day <= k /\ k <= b \div Day
    BY <1>1, <2>1, DaysRise
  <2> HIDE DEF k
  <2>3. k \in days
    BY <1>2, <2>1, <2>2
  <2>4. Piece(m, k).start <= t /\ t <= Piece(m, k).end
    <3> DEFINE p == Piece(m, k).start
               e == Piece(m, k).end
    <3>1. /\ p = IF a > Midnight(k) THEN a ELSE Midnight(k)
          /\ e = IF b >= Midnight(k + 1) THEN Midnight(k + 1) - 1 ELSE b
      BY <1>5, <2>3
    <3>2. Midnight(k) \in Nat /\ Midnight(k + 1) \in Nat
      BY <1>3, <2>3
    <3> HIDE DEF p, e
    <3>3. p <= t /\ t <= e
      BY <1>1, <2>1, <3>1, <3>2
    <3> QED
      BY <3>3 DEF p, e
  <2> QED
    BY <1>6, <2>1, <2>3, <2>4
<1> QED
  BY <1>2, <1>6, <1>7, <1>8 DEF a, b

----------------------------------------------------------------------------
(* The timeline. *)

\* Seconds that the segments of a sequence cover.
Seconds(s) == {t \in Nat : \E i \in 1..Len(s) : s[i].start <= t /\ t <= s[i].end}

LEMMA MergedProper ==
  ASSUME NEW s \in Seq(ProperSegments), NEW i \in Begins(s)
  PROVE  /\ Merged(s, i) \in ProperSegments
         /\ \A t \in Nat : Merged(s, i).start <= t /\ t <= Merged(s, i).end => t \in Seconds(s)
         /\ \A k \in i..LastOf(s, i) : Merged(s, i).start <= s[k].start /\ s[k].end <= Merged(s, i).end
<1> DEFINE j == LastOf(s, i)
<1>1. i \in 1..Len(s) /\ j \in 1..Len(s) /\ i <= j /\ \A k \in (i + 1)..j : k \notin Begins(s)
  BY LastIs, Bounds
<1>2. Len(s) \in Nat /\ s[i].start \in Nat /\ s[j].end \in Nat
  BY <1>1, Bounds
<1> HIDE DEF j
<1>3. /\ s[i].start < s[j].end
      /\ \A k \in i..j : s[i].start <= s[k].start /\ s[k].end <= s[j].end
      /\ \A t \in Nat : s[i].start <= t /\ t <= s[j].end => \E k \in i..j : s[k].start <= t /\ t <= s[k].end
  BY <1>1, RunCovers
<1>4. Merged(s, i) = [start |-> s[i].start, end |-> s[j].end]
  BY DEF Merged, j
<1>5. Merged(s, i).start = s[i].start /\ Merged(s, i).end = s[j].end
  BY <1>4
<1>6. Merged(s, i) \in ProperSegments
  BY <1>2, <1>3, <1>4, <1>5 DEF ProperSegments, Segment
<1>7. i..j \subseteq 1..Len(s)
  BY <1>1, <1>2
<1>8. \A t \in Nat : s[i].start <= t /\ t <= s[j].end => t \in Seconds(s)
  BY <1>3, <1>7 DEF Seconds
<1> QED
  BY <1>3, <1>5, <1>6, <1>8 DEF j

\* An item of the timeline.
LEMMA TimelineItem ==
  ASSUME NEW s \in Seq(ProperSegments), NEW x
  PROVE  x \in Timeline(s) <=>
           \E i \in Begins(s) : \E k \in (Merged(s, i).start \div Day)..(Merged(s, i).end \div Day) :
             x = [run |-> i, day |-> k, span |-> Piece(Merged(s, i), k)]
BY DEF Timeline

\* The timeline covers the seconds of its segments, and each of its items is within its day.
LEMMA TimelineCovers ==
  ASSUME NEW s \in Seq(ProperSegments)
  PROVE  /\ Timeline(s) \subseteq Items
         /\ \A x \in Timeline(s) : InItsDay(x)
         /\ Covered({x.span : x \in Timeline(s)}) = Seconds(s)
<1> DEFINE Days(i) == (Merged(s, i).start \div Day)..(Merged(s, i).end \div Day)
<1>1. /\ Len(s) \in Nat /\ DOMAIN s = 1..Len(s) /\ Begins(s) \subseteq 1..Len(s)
      /\ \A k \in 1..Len(s) : s[k].start \in Nat /\ s[k].end \in Nat /\ s[k].start < s[k].end
  BY Bounds DEF Begins
<1>2. ASSUME NEW i \in Begins(s), NEW k \in Days(i)
      PROVE  /\ k \in Nat /\ Piece(Merged(s, i), k) \in Segment
             /\ Midnight(k) <= Piece(Merged(s, i), k).start
             /\ Piece(Merged(s, i), k).start <= Piece(Merged(s, i), k).end
             /\ Piece(Merged(s, i), k).end < Midnight(k + 1)
             /\ Merged(s, i).start <= Piece(Merged(s, i), k).start
             /\ Piece(Merged(s, i), k).end <= Merged(s, i).end
  <2>1. Merged(s, i) \in ProperSegments
    BY MergedProper
  <2> QED
    BY <2>1, Pieces
<1>3. \A i \in Begins(s) : Merged(s, i) \in ProperSegments /\ Merged(s, i).start \in Nat /\ Merged(s, i).end \in Nat
  BY MergedProper DEF ProperSegments, Segment
<1>4. ASSUME NEW x \in Timeline(s)
      PROVE  /\ x \in Items /\ InItsDay(x)
             /\ \A t \in x.span.start..x.span.end : t \in Seconds(s)
  <2>0. PICK i \in Begins(s) : \E k \in Days(i) : x = [run |-> i, day |-> k, span |-> Piece(Merged(s, i), k)]
    BY TimelineItem
  <2>1. PICK k \in Days(i) : x = [run |-> i, day |-> k, span |-> Piece(Merged(s, i), k)]
    BY <2>0
  <2> DEFINE p == Piece(Merged(s, i), k)
  <2>2. /\ k \in Nat /\ p \in Segment /\ Midnight(k) <= p.start /\ p.start <= p.end /\ p.end < Midnight(k + 1)
        /\ Merged(s, i).start <= p.start /\ p.end <= Merged(s, i).end
    BY <1>2
  <2>3. p.start \in Nat /\ p.end \in Nat
    BY <2>2 DEF Segment
  <2> HIDE DEF p
  <2>4. x = [run |-> i, day |-> k, span |-> p] /\ x.run = i /\ x.day = k /\ x.span = p
    BY <2>1 DEF p
  <2>5. x \in Items
    BY <1>1, <2>2, <2>4 DEF Items
  <2>6. InItsDay(x)
    BY <2>2, <2>4 DEF InItsDay
  <2>7. ASSUME NEW t \in p.start..p.end PROVE t \in Seconds(s)
    <3>1. t \in Nat /\ Merged(s, i).start <= t /\ t <= Merged(s, i).end
      BY <1>3, <2>2, <2>3
    <3> QED
      BY <3>1, MergedProper
  <2> QED
    BY <2>4, <2>5, <2>6, <2>7
<1>5. ASSUME NEW t \in Seconds(s)
      PROVE  \E x \in Timeline(s) : t \in x.span.start..x.span.end
  <2>1. PICK n \in 1..Len(s) : t \in Nat /\ s[n].start <= t /\ t <= s[n].end
    BY DEF Seconds
  <2>2. PICK i \in Begins(s) : n \in i..LastOf(s, i)
    BY RunOfEach
  <2>3. Merged(s, i).start <= s[n].start /\ s[n].end <= Merged(s, i).end
    BY <2>2, MergedProper
  <2>4. t \in Merged(s, i).start..Merged(s, i).end
    BY <1>1, <1>3, <2>1, <2>3
  <2>5. PICK k \in Days(i) : t \in Piece(Merged(s, i), k).start..Piece(Merged(s, i), k).end
    BY <1>3, <2>4, Pieces
  <2> DEFINE x == [run |-> i, day |-> k, span |-> Piece(Merged(s, i), k)]
  <2>6. x \in Timeline(s)
    BY TimelineItem
  <2>7. x.span = Piece(Merged(s, i), k)
    OBVIOUS
  <2> QED
    BY <2>5, <2>6, <2>7
<1>6. Covered({x.span : x \in Timeline(s)}) = {t : t \in UNION {x.span.start..x.span.end : x \in Timeline(s)}}
  BY DEF Covered
<1>7. UNION {x.span.start..x.span.end : x \in Timeline(s)} = Seconds(s)
  BY <1>4, <1>5
<1> QED
  BY <1>4, <1>6, <1>7

\* In a sequence whose neighbours rise, all rise.
LEMMA NeighboursRise ==
  ASSUME NEW s \in Seq(ProperSegments),
         \A i \in 1..Len(s) : i > 1 => s[i - 1].start <= s[i].start
  PROVE  \A i, j \in 1..Len(s) : i <= j => s[i].start <= s[j].start
<1> SUFFICES ASSUME NEW i \in 1..Len(s) PROVE \A j \in 1..Len(s) : i <= j => s[i].start <= s[j].start
  OBVIOUS
<1> DEFINE T == {j \in 1..Len(s) : i <= j /\ s[j].start < s[i].start}
<1>1. /\ Len(s) \in Nat
      /\ \A k \in 1..Len(s) : s[k].start \in Nat
  BY Bounds
<1>2. T \in SUBSET Nat
  BY <1>1
<1> SUFFICES ASSUME T # {} PROVE FALSE
  BY <1>1
<1>3. PICK j \in T : \A x \in T : j <= x
  <2> HIDE DEF T
  <2> QED
    BY <1>2, Least
<1>4. j \in 1..Len(s) /\ i <= j /\ j # i /\ s[j].start < s[i].start
  BY <1>1, <1>3
<1>5. j > 1 /\ j - 1 \in 1..Len(s) /\ i <= j - 1 /\ j - 1 < j /\ j \in Nat
  BY <1>1, <1>4
<1>6. s[j - 1].start <= s[j].start
  BY <1>4, <1>5
<1>a. s[j - 1].start \in Nat /\ s[j].start \in Nat /\ s[i].start \in Nat
  BY <1>1, <1>4, <1>5
<1>7. s[j - 1].start < s[i].start
  BY ONLY <1>4, <1>6, <1>a
<1>8. j - 1 \in T
  BY <1>5, <1>7
<1> QED
  BY <1>3, <1>5, <1>8

\* The timeline of a sorted sequence has its days in order.
LEMMA TimelineInOrder ==
  ASSUME NEW s \in Seq(ProperSegments),
         \A i \in 1..Len(s) : i > 1 => s[i - 1].start <= s[i].start
  PROVE  DaysInOrder(Timeline(s))
<1> DEFINE Days(i) == (Merged(s, i).start \div Day)..(Merged(s, i).end \div Day)
<1> SUFFICES ASSUME NEW a \in Timeline(s), NEW b \in Timeline(s), a.day < b.day
             PROVE  \E c \in Timeline(s) : c.day = a.day /\ c.run <= b.run
  BY DEF DaysInOrder
<1>1. PICK i \in Begins(s) : \E k \in Days(i) : a = [run |-> i, day |-> k, span |-> Piece(Merged(s, i), k)]
  BY TimelineItem
<1>2. PICK k \in Days(i) : a = [run |-> i, day |-> k, span |-> Piece(Merged(s, i), k)]
  BY <1>1
<1>3. PICK j \in Begins(s) : \E l \in Days(j) : b = [run |-> j, day |-> l, span |-> Piece(Merged(s, j), l)]
  BY TimelineItem
<1>4. PICK l \in Days(j) : b = [run |-> j, day |-> l, span |-> Piece(Merged(s, j), l)]
  BY <1>3
<1>5. a.run = i /\ a.day = k /\ b.run = j /\ b.day = l
  BY <1>2, <1>4
<1>6. /\ i \in 1..Len(s) /\ j \in 1..Len(s) /\ Len(s) \in Nat
      /\ \A n \in 1..Len(s) : s[n].start \in Nat /\ s[n].end \in Nat
  BY Bounds DEF Begins
<1>7. CASE i <= j
  BY <1>5, <1>7
<1>8. CASE j < i
  <2>a. \A x, y \in 1..Len(s) : x <= y => s[x].start <= s[y].start
    BY NeighboursRise
  <2>b. j <= i
    BY <1>6, <1>8
  <2>1. s[j].start <= s[i].start
    BY <1>6, <2>a, <2>b
  <2>2. Merged(s, i).start = s[i].start /\ Merged(s, j).start = s[j].start
    BY DEF Merged
  <2>3. s[j].start \div Day <= s[i].start \div Day
    BY <1>6, <2>1, DaysRise
  <2>4. Merged(s, i).end \in Nat /\ Merged(s, j).end \in Nat
    BY MergedProper DEF ProperSegments, Segment
  <2>5. /\ s[j].start \div Day \in Nat /\ s[i].start \div Day \in Nat
        /\ Merged(s, i).end \div Day \in Nat /\ Merged(s, j).end \div Day \in Nat
    BY <1>6, <2>4, DayOf
  <2>6. k \in (s[i].start \div Day)..(Merged(s, i).end \div Day)
    BY <2>2
  <2>7. l \in (s[j].start \div Day)..(Merged(s, j).end \div Day)
    BY <2>2
  <2>8. k < l
    BY <1>5
  <2>9. k \in (s[j].start \div Day)..(Merged(s, j).end \div Day)
    BY ONLY <2>3, <2>5, <2>6, <2>7, <2>8
  <2>10. k \in Days(j)
    BY <2>2, <2>9
  <2> DEFINE c == [run |-> j, day |-> k, span |-> Piece(Merged(s, j), k)]
  <2>11. c \in Timeline(s)
    BY <2>10, TimelineItem
  <2>12. c.day = a.day /\ c.run <= b.run
    BY <1>5, <1>6
  <2> QED
    BY <2>11, <2>12
<1> QED
  BY <1>6, <1>7, <1>8

\* The segments of a sequence, in any order and number, as a sequence.
LEMMA ArrangementIs ==
  ASSUME NEW data \in Seq(ProperSegments), NEW s \in Arrangements(data)
  PROVE  /\ s \in Seq(ProperSegments) /\ Len(s) = Len(data)
         /\ \A i \in 1..Len(s) : \E j \in 1..Len(data) : s[i] = data[j]
         /\ Seconds(s) \subseteq Seconds(data)
<1>1. Len(data) \in Nat /\ DOMAIN data = 1..Len(data) /\ \A k \in 1..Len(data) : data[k] \in ProperSegments
  BY Bounds
<1>2. Segments(data) \subseteq ProperSegments
  BY <1>1 DEF Segments
<1>3. s \in [1..Len(data) -> ProperSegments]
  BY <1>1, <1>2 DEF Arrangements
<1>4. s \in Seq(ProperSegments)
  BY <1>1, <1>3, SeqDef
<1>5. Len(s) = Len(data)
  BY <1>1, <1>3, <1>4, Bounds
<1>6. \A i \in 1..Len(s) : \E j \in 1..Len(data) : s[i] = data[j]
  BY <1>1, <1>5 DEF Arrangements, Segments
<1>7. Seconds(s) \subseteq Seconds(data)
  BY <1>6 DEF Seconds
<1> QED
  BY <1>4, <1>5, <1>6, <1>7

\* Sorting keeps every segment.
LEMMA SortedIs ==
  ASSUME NEW data \in Seq(ProperSegments), NEW s \in SortedOf(data)
  PROVE  /\ s \in Seq(ProperSegments)
         /\ \A i \in 1..Len(s) : i > 1 => s[i - 1].start <= s[i].start
         /\ Seconds(s) = Seconds(data)
<1> DEFINE Places(f, m) == {i \in DOMAIN data : f[i] = m}
<1>1. s \in Arrangements(data) /\ \A i \in DOMAIN s : i > 1 => s[i - 1].start <= s[i].start
  BY DEF SortedOf, InOrder
<1>2. \A m \in Segments(data) : Cardinality(Places(s, m)) = Cardinality(Places(data, m))
  BY DEF SortedOf
<1>3. s \in Seq(ProperSegments) /\ Len(s) = Len(data) /\ Seconds(s) \subseteq Seconds(data)
  BY <1>1, ArrangementIs
<1>4. Len(data) \in Nat /\ DOMAIN data = 1..Len(data) /\ DOMAIN s = 1..Len(data)
  BY <1>3, Bounds
<1>5. ASSUME NEW j \in 1..Len(data) PROVE \E i \in 1..Len(s) : s[i] = data[j]
  <2> DEFINE m == data[j]
             A == Places(s, m)
             B == Places(data, m)
  <2>1. IsFiniteSet(1..Len(data))
    BY <1>4, FS_Interval
  <2>2. A \subseteq 1..Len(data) /\ B \subseteq 1..Len(data) /\ j \in B
    BY <1>4
  <2>3. IsFiniteSet(A) /\ IsFiniteSet(B)
    BY <2>1, <2>2, FS_Subset
  <2>4. m \in Segments(data)
    BY <1>4 DEF Segments
  <2>5. Cardinality(A) = Cardinality(B)
    BY <1>2, <2>4
  <2>6. Cardinality(B) # 0
    BY <2>2, <2>3, FS_EmptySet
  <2>7. A # {}
    BY <2>3, <2>5, <2>6, FS_EmptySet
  <2> QED
    BY <1>3, <1>4, <2>7
<1>6. Seconds(data) \subseteq Seconds(s)
  BY <1>5 DEF Seconds
<1> QED
  BY <1>1, <1>3, <1>4, <1>6

\* Merging in place keeps the seconds.
LEMMA InPlaceIs ==
  ASSUME NEW s \in Seq(ProperSegments)
  PROVE  InPlace(s) \in Seq(ProperSegments) /\ Seconds(InPlace(s)) = Seconds(s)
<1> DEFINE n == Len(s)
           r == InPlace(s)
<1>1. n \in Nat /\ DOMAIN s = 1..n /\ Begins(s) \subseteq 1..n /\ \A k \in 1..n : s[k] \in ProperSegments
  BY Bounds DEF Begins
<1>2. r = [i \in 1..n |-> IF i \in Begins(s) THEN Merged(s, i) ELSE s[i]]
  BY <1>1 DEF InPlace
<1>3. \A i \in Begins(s) : Merged(s, i) \in ProperSegments
  BY MergedProper
<1>4. r \in [1..n -> ProperSegments]
  BY <1>1, <1>2, <1>3
<1>5. r \in Seq(ProperSegments)
  BY <1>1, <1>4, SeqDef
<1>6. Len(r) = n
  BY <1>1, <1>4, <1>5, Bounds
<1>7. \A i \in 1..n : r[i] = IF i \in Begins(s) THEN Merged(s, i) ELSE s[i]
  BY <1>2
<1> HIDE DEF n, r
<1>8. ASSUME NEW t \in Seconds(r) PROVE t \in Seconds(s)
  <2>1. PICK i \in 1..n : t \in Nat /\ r[i].start <= t /\ t <= r[i].end
    BY <1>6 DEF Seconds
  <2>2. CASE i \in Begins(s)
    <3>1. r[i] = Merged(s, i)
      BY <1>7, <2>2
    <3> QED
      BY <2>1, <2>2, <3>1, MergedProper
  <2>3. CASE i \notin Begins(s)
    <3>1. r[i] = s[i]
      BY <1>7, <2>3
    <3> QED
      BY <2>1, <3>1 DEF Seconds, n
  <2> QED
    BY <2>2, <2>3
<1>9. ASSUME NEW t \in Seconds(s) PROVE t \in Seconds(r)
  <2>1. PICK k \in 1..n : t \in Nat /\ s[k].start <= t /\ t <= s[k].end
    BY DEF Seconds, n
  <2>2. PICK i \in Begins(s) : k \in i..LastOf(s, i)
    BY RunOfEach DEF n
  <2>3. Merged(s, i).start <= s[k].start /\ s[k].end <= Merged(s, i).end
    BY <2>2, MergedProper
  <2>4. Merged(s, i).start \in Nat /\ Merged(s, i).end \in Nat /\ s[k].start \in Nat /\ s[k].end \in Nat
    BY <1>1, <1>3 DEF ProperSegments, Segment
  <2>5. Merged(s, i).start <= t /\ t <= Merged(s, i).end
    BY <2>1, <2>3, <2>4
  <2>6. i \in 1..n /\ r[i] = Merged(s, i)
    BY <1>1, <1>7
  <2> QED
    BY <1>6, <2>1, <2>5, <2>6 DEF Seconds
<1> QED
  BY <1>5, <1>8, <1>9 DEF r

----------------------------------------------------------------------------
(* What a list keeps. *)

RisesOn(f, S) == \A i, j \in DOMAIN f : i < j => f[i] < f[j]

LEMMA FinitePart ==
  ASSUME NEW b \in Nat, NEW S \in SUBSET (1..b)
  PROVE  IsFiniteSet(S) /\ Cardinality(S) \in Nat /\ S \subseteq Nat
<1>1. IsFiniteSet(1..b)
  BY FS_Interval
<1>2. IsFiniteSet(S)
  BY <1>1, FS_Subset
<1> QED
  BY <1>2, FS_CardinalityType

\* A finite set of numbers is a sequence that rises.
LEMMA RisingExists ==
  ASSUME NEW b \in Nat
  PROVE  \A S \in SUBSET (1..b) : \E f \in [1..Cardinality(S) -> S] : RisesOn(f, S)
<1> DEFINE Has(S) == \E f \in [1..Cardinality(S) -> S] : RisesOn(f, S)
           T == {n \in Nat : \E S \in SUBSET (1..b) : Cardinality(S) = n /\ ~ Has(S)}
<1>1. \A S \in SUBSET (1..b) : IsFiniteSet(S) /\ Cardinality(S) \in Nat
  BY FinitePart
<1>2. T \in SUBSET Nat
  OBVIOUS
<1> HIDE DEF Has
<1>3. SUFFICES ASSUME T # {} PROVE FALSE
  BY <1>1 DEF Has
<1>4. PICK n \in T : \A x \in T : n <= x
  <2> HIDE DEF T
  <2> QED
    BY <1>2, <1>3, Least
<1>5. PICK S \in SUBSET (1..b) : Cardinality(S) = n /\ ~ Has(S)
  BY <1>4
<1>6. n \in Nat /\ IsFiniteSet(S)
  BY <1>1, <1>4
<1>7. CASE n = 0
  <2>1. S = {} /\ 1..Cardinality(S) = {}
    BY <1>5, <1>6, <1>7, FS_EmptySet
  <2> DEFINE f == [i \in 1..Cardinality(S) |-> i]
  <2>2. f \in [1..Cardinality(S) -> S] /\ DOMAIN f = {}
    BY <2>1
  <2> HIDE DEF f
  <2>3. RisesOn(f, S)
    BY <2>2 DEF RisesOn
  <2> QED
    BY <1>5, <2>2, <2>3 DEF Has
<1>8. CASE n # 0
  <2>1. S # {} /\ S \in SUBSET Nat /\ \A k \in S : k <= b
    BY <1>5, <1>8, FS_EmptySet
  <2>2. PICK x \in S : \A k \in S : k <= x
    BY <2>1, Greatest
  <2> DEFINE R == S \ {x}
  <2>3. R \in SUBSET (1..b) /\ Cardinality(R) = n - 1
    BY <1>5, <1>6, FS_RemoveElement
  <2>4. Has(R)
    <3>1. n - 1 \notin T /\ n - 1 \in Nat
      BY <1>4, <1>6, <1>8
    <3> QED
      BY <2>3, <3>1
  <2>5. PICK f \in [1..(n - 1) -> R] : RisesOn(f, R)
    BY <2>3, <2>4 DEF Has
  <2> DEFINE g == [i \in 1..n |-> IF i = n THEN x ELSE f[i]]
  <2>6. \A i \in 1..n : i # n => i \in 1..(n - 1) /\ f[i] \in S /\ f[i] < x
    <3> SUFFICES ASSUME NEW i \in 1..n, i # n PROVE i \in 1..(n - 1) /\ f[i] \in S /\ f[i] < x
      OBVIOUS
    <3>1. i \in 1..(n - 1)
      BY <1>6
    <3>2. f[i] \in R
      BY <2>5, <3>1
    <3>3. f[i] \in Nat /\ x \in Nat /\ f[i] <= x /\ f[i] # x
      BY <2>1, <2>2, <3>2
    <3> QED
      BY <3>1, <3>2, <3>3
  <2>7. g \in [1..n -> S] /\ DOMAIN g = 1..n
    BY <2>6
  <2>8. RisesOn(g, S)
    <3> SUFFICES ASSUME NEW i \in 1..n, NEW j \in 1..n, i < j PROVE g[i] < g[j]
      BY DEF RisesOn
    <3>1. i # n /\ g[i] = f[i]
      BY <1>6
    <3>2. CASE j = n
      BY <2>6, <3>1, <3>2
    <3>3. CASE j # n
      <4>1. i \in DOMAIN f /\ j \in DOMAIN f /\ g[j] = f[j]
        BY <2>5, <2>6, <3>1, <3>3
      <4> QED
        BY <2>5, <3>1, <4>1 DEF RisesOn
    <3> QED
      BY <3>2, <3>3
  <2> QED
    BY <1>5, <2>7, <2>8 DEF Has
<1> QED
  BY <1>7, <1>8

LEMMA RisingIs ==
  ASSUME NEW b \in Nat, NEW S \in SUBSET (1..b)
  PROVE  LET f == Rising(S)
             n == Cardinality(S)
         IN /\ n \in Nat /\ f \in [1..n -> S]
            /\ \A x \in S : \E i \in 1..n : f[i] = x
<1> DEFINE f == Rising(S)
           n == Cardinality(S)
<1>1. IsFiniteSet(S) /\ n \in Nat /\ S \subseteq Nat
  BY FinitePart
<1>2. \E g \in [1..n -> S] : \A i, j \in DOMAIN g : i < j => g[i] < g[j]
  BY RisingExists DEF RisesOn
<1> HIDE DEF n
<1>3. f \in [1..n -> S] /\ \A i, j \in DOMAIN f : i < j => f[i] < f[j]
  BY <1>2 DEF Rising, n
<1> HIDE DEF f
<1>4. ASSUME NEW i \in 1..n, NEW j \in 1..n, f[i] = f[j] PROVE i = j
  <2>1. f[i] \in Nat /\ f[j] \in Nat
    BY <1>1, <1>3
  <2>2. ~(f[i] < f[j]) /\ ~(f[j] < f[i])
    BY <1>4, <2>1
  <2>3. ~(i < j) /\ ~(j < i)
    BY <1>3, <2>2
  <2> QED
    BY <1>1, <2>3
<1>5. f \in Injection(1..n, S)
  BY <1>3, <1>4 DEF Injection, IsInjective
<1>6. Cardinality(1..n) = n
  BY <1>1, FS_Interval
<1>7. f \in Surjection(1..n, S)
  BY <1>1, <1>5, <1>6, FS_Injection DEF n
<1> QED
  BY <1>1, <1>3, <1>7 DEF Surjection, n, f

\* The seconds of recordings that a window lets through.
Clips(I, w) ==
  {t \in Nat : \E i \in I : /\ Proper(Clip(Recorded[i], w))
                            /\ Clip(Recorded[i], w).start <= t /\ t <= Clip(Recorded[i], w).end}

LEMMA ClipIs ==
  ASSUME NEW i \in DOMAIN Recorded, NEW w \in Windows
  PROVE  /\ Recorded[i].start \in Nat /\ Recorded[i].end \in Nat
         /\ w.start \in Nat /\ w.end \in Nat /\ w.start < w.end
         /\ Clip(Recorded[i], w) \in Segment
         /\ Clip(Recorded[i], w).start = MaxOf(Recorded[i].start, w.start)
         /\ Clip(Recorded[i], w).end = MinOf(Recorded[i].end, w.end)
<1>1. Recorded[i] \in Segment /\ w \in Segment /\ w.start < w.end
  BY RecordAssumption, LenProperties
<1>2. /\ Recorded[i].start \in Nat /\ Recorded[i].end \in Nat
      /\ w.start \in Nat /\ w.end \in Nat
  BY <1>1 DEF Segment
<1>3. MaxOf(Recorded[i].start, w.start) \in Nat /\ MinOf(Recorded[i].end, w.end) \in Nat
  BY <1>2 DEF MaxOf, MinOf
<1> QED
  BY <1>1, <1>2, <1>3 DEF Clip, Segment

\* A message adds the seconds of its items.
LEMMA KeptItemsAre ==
  ASSUME NEW items \in SUBSET DOMAIN Recorded, NEW w \in Windows
  PROVE  Kept(items, w) \in Seq(ProperSegments) /\ Seconds(Kept(items, w)) = Clips(items, w)
<1> DEFINE S == {i \in items : Proper(Clip(Recorded[i], w))}
           n == Cardinality(S)
           f == Rising(S)
           r == Kept(items, w)
<1>1. DOMAIN Recorded = 1..Len(Recorded) /\ Len(Recorded) \in Nat
  BY RecordAssumption, LenProperties
<1>2. S \in SUBSET (1..Len(Recorded)) /\ S \in SUBSET DOMAIN Recorded
  BY <1>1
<1>3. \A i \in S : i \in items /\ Proper(Clip(Recorded[i], w)) /\ Clip(Recorded[i], w) \in ProperSegments
  BY ClipIs DEF Proper, ProperSegments
<1>a. \A i \in items : Proper(Clip(Recorded[i], w)) => i \in S
  OBVIOUS
<1>b. r = [k \in DOMAIN f |-> Clip(Recorded[f[k]], w)]
  BY DEF Kept
<1> HIDE DEF S
<1>4. n \in Nat /\ f \in [1..n -> S] /\ \A x \in S : \E i \in 1..n : f[i] = x
  BY <1>1, <1>2, RisingIs
<1> HIDE DEF n, f
<1>5. r = [k \in 1..n |-> Clip(Recorded[f[k]], w)]
  BY <1>4, <1>b
<1>6. r \in [1..n -> ProperSegments]
  BY <1>3, <1>4, <1>5
<1>7. r \in Seq(ProperSegments)
  BY <1>4, <1>6, SeqDef
<1>8. Len(r) = n
  BY <1>4, <1>6, <1>7, Bounds
<1>9. \A k \in 1..n : r[k] = Clip(Recorded[f[k]], w) /\ f[k] \in S
  BY <1>4, <1>5
<1> HIDE DEF r
<1>10. Seconds(r) \subseteq Clips(items, w)
  BY <1>3, <1>8, <1>9 DEF Seconds, Clips
<1>11. Clips(items, w) \subseteq Seconds(r)
  <2> SUFFICES ASSUME NEW t \in Clips(items, w) PROVE t \in Seconds(r)
    OBVIOUS
  <2>1. PICK i \in items : /\ t \in Nat /\ Proper(Clip(Recorded[i], w))
                           /\ Clip(Recorded[i], w).start <= t /\ t <= Clip(Recorded[i], w).end
    BY DEF Clips
  <2>2. PICK k \in 1..n : f[k] = i
    BY <1>4, <1>a, <2>1
  <2>3. r[k] = Clip(Recorded[i], w)
    BY <1>9, <2>2
  <2> QED
    BY <1>8, <2>1, <2>3 DEF Seconds
<1> QED
  BY <1>7, <1>10, <1>11 DEF r

LEMMA SecondsOfBoth ==
  ASSUME NEW a \in Seq(ProperSegments), NEW b \in Seq(ProperSegments)
  PROVE  a \o b \in Seq(ProperSegments) /\ Seconds(a \o b) = Seconds(a) \cup Seconds(b)
<1> DEFINE c == a \o b
<1>1. /\ c \in Seq(ProperSegments) /\ Len(c) = Len(a) + Len(b)
      /\ \A i \in 1..(Len(a) + Len(b)) : c[i] = IF i <= Len(a) THEN a[i] ELSE b[i - Len(a)]
  BY ConcatProperties
<1>2. Len(a) \in Nat /\ Len(b) \in Nat
  BY Bounds
<1> HIDE DEF c
<1>3. Seconds(c) \subseteq Seconds(a) \cup Seconds(b)
  <2> SUFFICES ASSUME NEW t \in Seconds(c) PROVE t \in Seconds(a) \cup Seconds(b)
    OBVIOUS
  <2>1. PICK i \in 1..Len(c) : t \in Nat /\ c[i].start <= t /\ t <= c[i].end
    BY DEF Seconds
  <2>2. CASE i <= Len(a)
    <3>1. c[i] = a[i] /\ i \in 1..Len(a)
      BY <1>1, <1>2, <2>2
    <3> QED
      BY <2>1, <3>1 DEF Seconds
  <2>3. CASE ~(i <= Len(a))
    <3>1. c[i] = b[i - Len(a)] /\ i - Len(a) \in 1..Len(b)
      BY <1>1, <1>2, <2>3
    <3> QED
      BY <2>1, <3>1 DEF Seconds
  <2> QED
    BY <2>2, <2>3
<1>4. Seconds(a) \subseteq Seconds(c)
  <2>1. \A i \in 1..Len(a) : i \in 1..Len(c) /\ c[i] = a[i]
    BY <1>1, <1>2
  <2> QED
    BY <2>1 DEF Seconds
<1>5. Seconds(b) \subseteq Seconds(c)
  <2>1. ASSUME NEW i \in 1..Len(b) PROVE Len(a) + i \in 1..Len(c) /\ c[Len(a) + i] = b[i]
    <3>1. /\ Len(a) + i \in 1..(Len(a) + Len(b)) /\ ~(Len(a) + i <= Len(a))
          /\ (Len(a) + i) - Len(a) = i
      BY <1>2
    <3> QED
      BY <1>1, <3>1
  <2> QED
    BY <2>1 DEF Seconds
<1> QED
  BY <1>1, <1>3, <1>4, <1>5 DEF c

\* The recordings of a query are what its window lets through.
LEMMA RecordingsAre ==
  ASSUME NEW q \in Queries, window[q] \in Windows
  PROVE  /\ Clips(DOMAIN Recorded, window[q]) = Recordings(q)
         /\ Clips(Within(window[q]), window[q]) = Recordings(q)
<1> DEFINE w == window[q]
           asked == w.start..w.end
           shared(i) == asked \cap (Recorded[i].start..Recorded[i].end)
<1>1. Recordings(q) = {t \in asked : \E i \in DOMAIN Recorded : t \in shared(i) /\ shared(i) # {t}}
  BY DEF Recordings
<1> HIDE DEF w
<1>2. w \in Windows
  BY DEF w
<1>3. ASSUME NEW i \in DOMAIN Recorded, NEW t \in Nat
      PROVE  /\ Clip(Recorded[i], w).start <= t /\ t <= Clip(Recorded[i], w).end
               <=> t \in asked /\ t \in shared(i)
             /\ t \in shared(i) => (Proper(Clip(Recorded[i], w)) <=> shared(i) # {t})
  <2> DEFINE a == Recorded[i].start
             b == Recorded[i].end
             c == Clip(Recorded[i], w).start
             d == Clip(Recorded[i], w).end
             x == w.start
             y == w.end
  <2>1. /\ a \in Nat /\ b \in Nat /\ x \in Nat /\ y \in Nat
        /\ c = IF a > x THEN a ELSE x
        /\ d = IF b < y THEN b ELSE y
    BY <1>2, ClipIs DEF MaxOf, MinOf
  <2>2. shared(i) = (x..y) \cap (a..b)
    OBVIOUS
  <2> HIDE DEF a, b, c, d, x, y
  <2>3. (x..y) \cap (a..b) = c..d
    BY <2>1
  <2>4. c \in Nat /\ d \in Nat
    BY <2>1
  <2>5. t \in c..d <=> c <= t /\ t <= d
    BY <2>4
  <2>6. t \in c..d => (c < d <=> c..d # {t})
    <3>1. CASE c < d
      <4>1. c \in c..d /\ d \in c..d /\ c # d
        BY <2>4, <3>1
      <4> QED
        BY <3>1, <4>1
    <3>2. CASE ~(c < d)
      BY <2>4, <3>2
    <3> QED
      BY <3>1, <3>2
  <2>7. Proper(Clip(Recorded[i], w)) <=> c < d
    BY DEF Proper, c, d
  <2>8. shared(i) = c..d
    BY <2>2, <2>3
  <2>9. t \in shared(i) => t \in asked
    OBVIOUS
  <2> QED
    BY <2>5, <2>6, <2>7, <2>8, <2>9 DEF c, d
<1>4. ASSUME NEW i \in DOMAIN Recorded, Proper(Clip(Recorded[i], w)) PROVE i \in Within(w)
  <2>1. /\ Recorded[i].start \in Nat /\ Recorded[i].end \in Nat /\ w.start \in Nat /\ w.end \in Nat
        /\ MaxOf(Recorded[i].start, w.start) < MinOf(Recorded[i].end, w.end)
    BY <1>2, <1>4, ClipIs DEF Proper
  <2>2. Recorded[i].start <= w.end /\ Recorded[i].end >= w.start
    BY <2>1 DEF MaxOf, MinOf
  <2> QED
    BY <2>2 DEF Within
<1>5. asked \subseteq Nat
  <2>1. w \in Segment
    BY <1>2, RecordAssumption
  <2>2. w.start \in Nat /\ w.end \in Nat
    BY <2>1 DEF Segment
  <2> QED
    BY <2>2
<1>6. Clips(DOMAIN Recorded, w) = Recordings(q)
  <2> HIDE DEF asked, shared
  <2>1. ASSUME NEW t \in Clips(DOMAIN Recorded, w) PROVE t \in Recordings(q)
    <3>1. PICK i \in DOMAIN Recorded : /\ t \in Nat /\ Proper(Clip(Recorded[i], w))
                                       /\ Clip(Recorded[i], w).start <= t /\ t <= Clip(Recorded[i], w).end
      BY DEF Clips
    <3>2. t \in asked /\ t \in shared(i) /\ shared(i) # {t}
      BY <1>3, <3>1
    <3> QED
      BY <1>1, <3>2
  <2>2. ASSUME NEW t \in Recordings(q) PROVE t \in Clips(DOMAIN Recorded, w)
    <3>1. PICK i \in DOMAIN Recorded : t \in asked /\ t \in shared(i) /\ shared(i) # {t}
      BY <1>1
    <3>2. t \in Nat
      BY <1>5, <3>1
    <3>3. Proper(Clip(Recorded[i], w)) /\ Clip(Recorded[i], w).start <= t /\ t <= Clip(Recorded[i], w).end
      BY <1>3, <3>1, <3>2
    <3> QED
      BY <3>2, <3>3 DEF Clips
  <2> QED
    BY <2>1, <2>2
<1>7. Clips(Within(w), w) = Clips(DOMAIN Recorded, w)
  BY <1>4 DEF Clips, Within
<1> QED
  BY <1>6, <1>7 DEF w

----------------------------------------------------------------------------
(* RecordQuery: every copy of a list holds seconds of its owner's recordings.
   When the number is the query's alone and no message came twice, it holds those
   of some of its messages, as many as it counts, so a count that is reached is
   of all of them. *)

QueryPlaces == {"new", "send", "ack", "wait", "read", "leave", "done"}
Returns == [kind : {"complete", "partial", "error"}, items : SUBSET Items]

RecTables ==
  /\ table \in [SNs -> Lists \cup {Nothing}]
  /\ wire \subseteq Messages
  /\ repeats \in 0..MaxRepeats
  /\ resp \in [Queries -> (SUBSET Items) \cup {Nothing}]
  /\ pc \in [Queries -> QueryPlaces]
  /\ sn \in [Queries -> SNs]
  /\ window \in [Queries -> Windows]
  /\ held \in [Queries -> Lists \cup {Nothing}]
  /\ result \in [Queries -> Returns \cup {Nothing}]
  /\ hpc \in [Handlers -> {"idle", "loaded", "store"}]
  /\ todo \in [Handlers -> Messages \cup {Nothing}]
  /\ list \in [Handlers -> Lists \cup {Nothing}]
  /\ repeated \subseteq Queries
  /\ raced \subseteq Queries
  /\ \A q \in Queries : IF pc[q] = "read" THEN held[q] \in Lists ELSE held[q] = Nothing
  /\ \A h \in Handlers : IF hpc[h] = "idle" THEN todo[h] = Nothing /\ list[h] = Nothing
                                             ELSE todo[h] \in Messages /\ list[h] \in Lists

LEMMA ListsAre == Lists = [owner : Queries, num : Nat, data : Seq(ProperSegments)]
BY DEF Lists, ProperSegments

\* What a message makes of a list.
LEMMA ExtendedIs ==
  ASSUME NEW l \in Lists, NEW m \in Messages, window \in [Queries -> Windows]
  PROVE  LET r == Extended(l, m)
         IN /\ r \in Lists /\ r.owner = l.owner /\ r.num = l.num + Cardinality(m.items)
            /\ r.data \in Seq(ProperSegments)
            /\ Seconds(r.data) = Seconds(l.data) \cup Clips(m.items, window[l.owner])
<1> DEFINE k == Kept(m.items, window[l.owner])
           d == l.data \o k
           c == Cardinality(m.items)
           r == Extended(l, m)
<1>1. l.owner \in Queries /\ l.num \in Nat /\ l.data \in Seq(ProperSegments)
  BY ListsAre
<1>2. m.items \in SUBSET DOMAIN Recorded /\ window[l.owner] \in Windows
  BY <1>1 DEF Messages
<1>3. k \in Seq(ProperSegments) /\ Seconds(k) = Clips(m.items, window[l.owner])
  BY <1>2, KeptItemsAre
<1>4. c \in Nat
  <2>1. Len(Recorded) \in Nat /\ DOMAIN Recorded = 1..Len(Recorded)
    BY RecordAssumption, LenProperties
  <2> QED
    BY <1>2, <2>1, FinitePart
<1>5. r = [l EXCEPT !.num = l.num + c, !.data = d]
  BY DEF Extended
<1> HIDE DEF k
<1>6. d \in Seq(ProperSegments) /\ Seconds(d) = Seconds(l.data) \cup Seconds(k)
  BY <1>1, <1>3, SecondsOfBoth
<1> HIDE DEF c, d, r
<1>7. r = [owner |-> l.owner, num |-> l.num + c, data |-> d]
  BY <1>5, ListsAre
<1>8. l.num + c \in Nat
  BY <1>1, <1>4
<1>9. r \in Lists /\ r.owner = l.owner /\ r.num = l.num + c /\ r.data = d
  BY <1>1, <1>6, <1>7, <1>8, ListsAre
<1> QED
  BY <1>3, <1>6, <1>9 DEF c, r

\* The ways adding the items to a copy can go.
LEMMA AddItemsIs ==
  ASSUME RecTables, NEW h \in Handlers, AddItems(h)
  PROVE  LET l == list[h]
             m == todo[h]
             r == Extended(l, m)
         IN /\ hpc[h] = "loaded" /\ l \in Lists /\ m \in Messages
            /\ \/ /\ r.num >= m.total
                  /\ \E s \in Seq(ProperSegments) :
                       /\ \A i \in 1..Len(s) : i > 1 => s[i - 1].start <= s[i].start
                       /\ Seconds(s) = Seconds(r.data)
                       /\ resp' = [resp EXCEPT ![l.owner] = IF @ = Nothing THEN Timeline(s) ELSE @]
                       /\ list' = [list EXCEPT ![h] = [r EXCEPT !.data = InPlace(s)]]
                  /\ raced' = raced \cup {q \in Queries : pc[q] = "read" /\ held[q].owner = l.owner}
               \/ /\ list' = [list EXCEPT ![h] = r] /\ resp' = resp /\ raced' = raced
            /\ hpc' = [hpc EXCEPT ![h] = "store"]
            /\ UNCHANGED <<table, wire, repeats, queryVars, todo, repeated>>
<1> DEFINE l == list[h]
           m == todo[h]
           r == Extended(l, m)
<1>1. hpc[h] = "loaded" /\ l \in Lists /\ m \in Messages
  BY DEF AddItems, RecTables
<1>2. r.data \in Seq(ProperSegments)
  BY <1>1, ExtendedIs DEF RecTables
<1>3. hpc' = [hpc EXCEPT ![h] = "store"] /\ UNCHANGED <<table, wire, repeats, queryVars, todo, repeated>>
  BY DEF AddItems
<1>4. IF AllArrived(r.num, m.total)
        THEN /\ \E s \in SortedOf(r.data) :
                  /\ resp' = [resp EXCEPT ![r.owner] = IF @ = Nothing THEN Timeline(s) ELSE @]
                  /\ list' = [list EXCEPT ![h] = [r EXCEPT !.data = InPlace(s)]]
             /\ raced' = raced \cup {q \in Queries : pc[q] = "read" /\ held[q].owner = r.owner}
        ELSE list' = [list EXCEPT ![h] = r] /\ UNCHANGED <<resp, raced>>
  BY DEF AddItems
<1>5. r.owner = l.owner
  BY <1>1, ExtendedIs DEF RecTables
<1> HIDE DEF l, m, r
<1>6. CASE AllArrived(r.num, m.total)
  <2>1. r.num >= m.total
    BY <1>6 DEF AllArrived
  <2>2. PICK s \in SortedOf(r.data) :
                  /\ resp' = [resp EXCEPT ![r.owner] = IF @ = Nothing THEN Timeline(s) ELSE @]
                  /\ list' = [list EXCEPT ![h] = [r EXCEPT !.data = InPlace(s)]]
    BY <1>4, <1>6
  <2>3. s \in Seq(ProperSegments) /\ Seconds(s) = Seconds(r.data)
        /\ \A i \in 1..Len(s) : i > 1 => s[i - 1].start <= s[i].start
    BY <1>2, SortedIs
  <2>4. raced' = raced \cup {q \in Queries : pc[q] = "read" /\ held[q].owner = l.owner}
    BY <1>4, <1>5, <1>6
  <2> QED
    BY <1>1, <1>3, <1>5, <2>1, <2>2, <2>3, <2>4 DEF l, m, r
<1>7. CASE ~AllArrived(r.num, m.total)
  BY <1>1, <1>3, <1>4, <1>7 DEF l, m, r
<1> QED
  BY <1>6, <1>7

\* What is read at the timeout.
LEMMA ReadPartialIs ==
  ASSUME RecTables, NEW q \in Queries, ReadPartial(q)
  PROVE  /\ pc[q] = "read" /\ held[q] \in Lists
         /\ \E s \in Seq(ProperSegments) :
              /\ q \notin raced => \A i \in 1..Len(s) : i > 1 => s[i - 1].start <= s[i].start
              /\ Seconds(s) \subseteq Seconds(held[q].data)
              /\ result' = [result EXCEPT ![q] = [kind |-> "partial", items |-> Timeline(s)]]
         /\ pc' = [pc EXCEPT ![q] = "leave"] /\ held' = [held EXCEPT ![q] = Nothing]
         /\ UNCHANGED <<table, wire, repeats, resp, sn, window, handlerVars, historyVars>>
<1>1. pc[q] = "read" /\ held[q] \in Lists
  BY DEF ReadPartial, RecTables
<1>2. held[q].data \in Seq(ProperSegments)
  BY <1>1, ListsAre
<1>3. PICK s \in IF q \in raced THEN Arrangements(held[q].data) ELSE SortedOf(held[q].data) :
        Return(q, [kind |-> "partial", items |-> Timeline(s)])
  BY DEF ReadPartial
<1>4. /\ s \in Seq(ProperSegments) /\ Seconds(s) \subseteq Seconds(held[q].data)
      /\ q \notin raced => \A i \in 1..Len(s) : i > 1 => s[i - 1].start <= s[i].start
  <2>1. CASE q \in raced
    BY <1>2, <1>3, <2>1, ArrangementIs
  <2>2. CASE q \notin raced
    BY <1>2, <1>3, <2>2, SortedIs
  <2> QED
    BY <2>1, <2>2
<1>5. /\ result' = [result EXCEPT ![q] = [kind |-> "partial", items |-> Timeline(s)]]
      /\ pc' = [pc EXCEPT ![q] = "leave"]
  BY <1>3 DEF Return, Move
<1>6. held' = [held EXCEPT ![q] = Nothing]
      /\ UNCHANGED <<table, wire, repeats, resp, sn, window, handlerVars, historyVars>>
  BY DEF ReadPartial
<1> QED
  BY <1>1, <1>4, <1>5, <1>6

\* The messages of an answer have each recording of the window in one of them.
LEMMA AnswersAre ==
  ASSUME RecTables, NEW q \in Queries, NEW reply \in Answers(q)
  PROVE  /\ \A m \in reply : /\ m \in Messages /\ m.query = q /\ m.sn = sn[q]
                              /\ m.items \subseteq Within(window[q])
                              /\ m.total = Cardinality(Within(window[q]))
         /\ \A m, n \in reply : m # n => m.items \cap n.items = {}
<1> DEFINE all == Within(window[q])
           c == Cardinality(all)
<1>1. PICK part \in SUBSET all :
        reply = {Message(q, sn[q], items, c) : items \in IF all = {} THEN {{}} ELSE {part, all \ part} \ {{}}}
  BY DEF Answers
<1>2. all \subseteq DOMAIN Recorded
  BY DEF Within
<1>3. c \in 0..Len(Recorded)
  <2>1. Len(Recorded) \in Nat /\ DOMAIN Recorded = 1..Len(Recorded)
    BY RecordAssumption, LenProperties
  <2>2. IsFiniteSet(1..Len(Recorded)) /\ Cardinality(1..Len(Recorded)) = Len(Recorded)
    BY <2>1, FS_Interval
  <2>3. Cardinality(all) <= Len(Recorded) /\ Cardinality(all) \in Nat
    BY <1>2, <2>1, <2>2, FS_Subset, FS_CardinalityType
  <2> QED
    BY <2>1, <2>3
<1> HIDE DEF c, all
<1>4. ASSUME NEW m \in reply
      PROVE  \E items \in {part, all \ part} \cup {{}} : m = Message(q, sn[q], items, c) /\ items \subseteq all
  BY <1>1
<1>5. ASSUME NEW m \in reply
      PROVE  /\ m.query = q /\ m.sn = sn[q] /\ m.items \subseteq all /\ m.total = c /\ m \in Messages
             /\ m = Message(q, sn[q], m.items, c)
  <2>1. PICK items \in {part, all \ part} \cup {{}} : m = Message(q, sn[q], items, c) /\ items \subseteq all
    BY <1>4
  <2>2. sn[q] \in SNs
    BY DEF RecTables
  <2> QED
    BY <1>2, <1>3, <2>1, <2>2 DEF Message, Messages
<1>6. ASSUME NEW m \in reply, NEW n \in reply, m # n PROVE m.items \cap n.items = {}
  <2>1. m.items # n.items
    BY <1>5, <1>6
  <2>2. m.items \in {part, all \ part, {}} /\ n.items \in {part, all \ part, {}}
    BY <1>4 DEF Message
  <2> QED
    BY <2>1, <2>2
<1> QED
  BY <1>5, <1>6 DEF c, all

LEMMA NewListIs == \A q \in Queries : List(q) \in Lists /\ List(q).owner = q /\ List(q).num = 0 /\ Seconds(List(q).data) = {}
<1>1. <<>> \in Seq(ProperSegments) /\ Len(<<>>) = 0
  BY EmptySeq
<1>2. Seconds(<<>>) = {}
  BY <1>1 DEF Seconds
<1> QED
  BY <1>1, <1>2, ListsAre DEF List

LEMMA RecTablesStart == RecInit => RecTables
BY RecordAssumption DEF RecInit, RecTables, QueryPlaces

LEMMA RecTablesStep == RecTables /\ [RecNext]_recVars => RecTables'
<1> SUFFICES ASSUME RecTables, [RecNext]_recVars PROVE RecTables'
  OBVIOUS
<1>1. CASE UNCHANGED recVars
  BY <1>1 DEF recVars, queryVars, handlerVars, historyVars, RecTables
<1>2. ASSUME NEW q \in Queries, StoreNew(q) PROVE RecTables'
  <2>1. List(q) \in Lists
    BY NewListIs
  <2> QED
    BY <1>2, <2>1 DEF StoreNew, Move, RecTables, QueryPlaces, handlerVars, historyVars
<1>3. ASSUME NEW q \in Queries, Send(q) PROVE RecTables'
  <2>1. CASE Move(q, "ack") /\ (\E reply \in Answers(q) : wire' = wire \cup reply) /\ UNCHANGED result
    <3>1. wire' \subseteq Messages
      BY <2>1, AnswersAre DEF RecTables
    <3> QED
      BY <1>3, <2>1, <3>1 DEF Send, Move, RecTables, QueryPlaces, handlerVars, historyVars
  <2>2. CASE Return(q, Error) /\ UNCHANGED wire
    <3>1. Error \in Returns
      BY DEF Error, Returns
    <3> QED
      BY <1>3, <2>2, <3>1 DEF Send, Return, Move, RecTables, QueryPlaces, handlerVars, historyVars
  <2> QED
    BY <1>3, <2>1, <2>2 DEF Send
<1>4. ASSUME NEW q \in Queries, Acknowledged(q) PROVE RecTables'
  <2>1. Error \in Returns
    BY DEF Error, Returns
  <2> QED
    BY <1>4, <2>1 DEF Acknowledged, Return, Move, RecTables, QueryPlaces, handlerVars, historyVars
<1>5. ASSUME NEW q \in Queries, TakeRecords(q) PROVE RecTables'
  <2>1. [kind |-> "complete", items |-> resp[q]] \in Returns
    BY <1>5 DEF TakeRecords, RecTables, Returns
  <2> QED
    BY <1>5, <2>1 DEF TakeRecords, Return, Move, RecTables, QueryPlaces, handlerVars, historyVars
<1>6. ASSUME NEW q \in Queries, Timeout(q) PROVE RecTables'
  <2>1. Error \in Returns
    BY DEF Error, Returns
  <2>2. CASE table[sn[q]] = Nothing
    BY <1>6, <2>1, <2>2 DEF Timeout, Return, Move, RecTables, QueryPlaces, handlerVars, historyVars
  <2>3. CASE table[sn[q]] # Nothing
    <3>1. table[sn[q]] \in Lists
      BY <2>3 DEF RecTables
    <3> QED
      BY <1>6, <2>3, <3>1 DEF Timeout, Return, Move, RecTables, QueryPlaces, handlerVars, historyVars
  <2> QED
    BY <2>2, <2>3
<1>7. ASSUME NEW q \in Queries, ReadPartial(q) PROVE RecTables'
  <2>1. PICK s \in Seq(ProperSegments) : result' = [result EXCEPT ![q] = [kind |-> "partial", items |-> Timeline(s)]]
    BY <1>7, ReadPartialIs
  <2>2. [kind |-> "partial", items |-> Timeline(s)] \in Returns
    BY TimelineCovers DEF Returns
  <2>3. result' \in [Queries -> Returns \cup {Nothing}]
    BY <2>1, <2>2 DEF RecTables
  <2>4. /\ pc' = [pc EXCEPT ![q] = "leave"] /\ held' = [held EXCEPT ![q] = Nothing]
        /\ UNCHANGED <<table, wire, repeats, resp, sn, window, handlerVars, historyVars>>
    BY <1>7, ReadPartialIs
  <2> QED
    BY <2>3, <2>4 DEF RecTables, QueryPlaces, handlerVars, historyVars
<1>8. ASSUME NEW q \in Queries, Leave(q) PROVE RecTables'
  BY <1>8 DEF Leave, Move, RecTables, QueryPlaces, handlerVars, historyVars
<1>9. ASSUME NEW h \in Handlers, NEW m \in wire, LoadList(h, m) PROVE RecTables'
  <2>1. m \in Messages /\ m.sn \in SNs /\ m.query \in Queries
    BY DEF RecTables, Messages
  <2>2. table[m.sn] \in Lists
    BY <1>9, <2>1 DEF LoadList, RecTables
  <2>3. wire' \subseteq wire /\ repeats' \in 0..MaxRepeats /\ repeated' \subseteq Queries
    BY <1>9, <2>1, RecordAssumption DEF LoadList, RecTables
  <2> QED
    BY <1>9, <2>1, <2>2, <2>3 DEF LoadList, RecTables, queryVars
<1>10. ASSUME NEW h \in Handlers, AddItems(h) PROVE RecTables'
  <2> DEFINE r == Extended(list[h], todo[h])
  <2>1. /\ hpc[h] = "loaded" /\ list[h] \in Lists /\ todo[h] \in Messages
        /\ hpc' = [hpc EXCEPT ![h] = "store"]
        /\ UNCHANGED <<table, wire, repeats, queryVars, todo, repeated>>
    BY <1>10, AddItemsIs
  <2>2. r \in Lists /\ r.owner = list[h].owner /\ r.owner \in Queries
    BY <2>1, ExtendedIs, ListsAre DEF RecTables
  <2> HIDE DEF r
  <2>3. resp' \in [Queries -> (SUBSET Items) \cup {Nothing}] /\ list' = [list EXCEPT ![h] = list'[h]]
        /\ list'[h] \in Lists /\ raced' \subseteq Queries
    <3>1. CASE \E s \in Seq(ProperSegments) :
                 /\ resp' = [resp EXCEPT ![list[h].owner] = IF @ = Nothing THEN Timeline(s) ELSE @]
                 /\ list' = [list EXCEPT ![h] = [r EXCEPT !.data = InPlace(s)]]
                 /\ raced' = raced \cup {q \in Queries : pc[q] = "read" /\ held[q].owner = list[h].owner}
      <4>1. PICK s \in Seq(ProperSegments) :
                 /\ resp' = [resp EXCEPT ![list[h].owner] = IF @ = Nothing THEN Timeline(s) ELSE @]
                 /\ list' = [list EXCEPT ![h] = [r EXCEPT !.data = InPlace(s)]]
                 /\ raced' = raced \cup {q \in Queries : pc[q] = "read" /\ held[q].owner = list[h].owner}
        BY <3>1
      <4>2. Timeline(s) \subseteq Items /\ InPlace(s) \in Seq(ProperSegments)
        BY TimelineCovers, InPlaceIs
      <4>3. [r EXCEPT !.data = InPlace(s)] \in Lists
        BY <2>2, <4>2, ListsAre
      <4> QED
        BY <4>1, <4>2, <4>3 DEF RecTables
    <3>2. CASE list' = [list EXCEPT ![h] = r] /\ resp' = resp /\ raced' = raced
      BY <2>2, <3>2 DEF RecTables
    <3> QED
      BY <1>10, <3>1, <3>2, AddItemsIs DEF r
  <2>4. list' \in [Handlers -> Lists \cup {Nothing}]
    BY <2>3 DEF RecTables
  <2> QED
    BY <2>1, <2>3, <2>4 DEF RecTables, queryVars
<1>11. ASSUME NEW h \in Handlers, StoreList(h) PROVE RecTables'
  <2>1. list[h] \in Lists /\ todo[h].sn \in SNs
    BY <1>11 DEF StoreList, RecTables, Messages
  <2> QED
    BY <1>11, <2>1 DEF StoreList, RecTables, queryVars, historyVars
<1> QED
  BY <1>1, <1>2, <1>3, <1>4, <1>5, <1>6, <1>7, <1>8, <1>9, <1>10, <1>11
     DEF RecNext, Query, HandleMessage

\* A copy belongs to the number it is under, and holds seconds of its owner's recordings.
Sound(l, n, numbers, windows) ==
  numbers[l.owner] = n /\ Seconds(l.data) \subseteq Clips(DOMAIN Recorded, windows[l.owner])

SoundCopies ==
  /\ \A n \in SNs : table[n] = Nothing \/ Sound(table[n], n, sn, window)
  /\ \A h \in Handlers : hpc[h] = "idle" \/ Sound(list[h], todo[h].sn, sn, window)
  /\ \A q \in Queries : pc[q] = "read" => Sound(held[q], sn[q], sn, window)

SpansOf(items) == Covered({x.span : x \in items})

SoundItems(items, w) ==
  /\ SpansOf(items) \subseteq Clips(DOMAIN Recorded, w)
  /\ \A x \in items : InItsDay(x)
  /\ DaysInOrder(items)

SoundAnswers == \A q \in Queries : resp[q] = Nothing \/ SoundItems(resp[q], window[q])

SoundResult(q) ==
  result[q] = Nothing \/
    /\ (\A p \in Queries \ {q} : sn[p] # sn[q]) =>
         SpansOf(result[q].items) \subseteq Clips(DOMAIN Recorded, window[q])
    /\ \A x \in result[q].items : InItsDay(x)
    /\ q \notin raced => DaysInOrder(result[q].items)

SoundResults == \A q \in Queries : SoundResult(q)

RecSound == RecTables /\ SoundCopies /\ SoundAnswers /\ SoundResults

LEMMA FixedStep == [RecNext]_recVars => sn' = sn /\ window' = window
BY DEF RecNext, Query, HandleMessage, StoreNew, Send, Acknowledged, TakeRecords, Timeout, ReadPartial, Leave,
       LoadList, AddItems, StoreList, recVars, queryVars

\* What a handler makes of its copy.
LEMMA AddedSound ==
  ASSUME RecTables, NEW h \in Handlers, AddItems(h)
  PROVE  LET l == list[h]
             all == Seconds(l.data) \cup Clips(todo[h].items, window[l.owner])
         IN /\ list'[h] \in Lists /\ list'[h].owner = l.owner
            /\ list'[h].num = l.num + Cardinality(todo[h].items)
            /\ Seconds(list'[h].data) = all
            /\ \A g \in Handlers : g # h => list'[g] = list[g]
            /\ resp' # resp => /\ list'[h].num >= todo[h].total
                               /\ \E s \in Seq(ProperSegments) :
                                    /\ \A i \in 1..Len(s) : i > 1 => s[i - 1].start <= s[i].start
                                    /\ Seconds(s) = all
                                    /\ resp' = [resp EXCEPT ![l.owner] = Timeline(s)]
            /\ raced \subseteq raced'
<1> DEFINE l == list[h]
           m == todo[h]
           r == Extended(l, m)
           all == Seconds(l.data) \cup Clips(m.items, window[l.owner])
<1>1. /\ l \in Lists /\ m \in Messages
      /\ \/ /\ r.num >= m.total
            /\ \E s \in Seq(ProperSegments) :
                 /\ \A i \in 1..Len(s) : i > 1 => s[i - 1].start <= s[i].start
                 /\ Seconds(s) = Seconds(r.data)
                 /\ resp' = [resp EXCEPT ![l.owner] = IF @ = Nothing THEN Timeline(s) ELSE @]
                 /\ list' = [list EXCEPT ![h] = [r EXCEPT !.data = InPlace(s)]]
            /\ raced' = raced \cup {q \in Queries : pc[q] = "read" /\ held[q].owner = l.owner}
         \/ /\ list' = [list EXCEPT ![h] = r] /\ resp' = resp /\ raced' = raced
  BY AddItemsIs
<1>2. /\ r \in Lists /\ r.owner = l.owner /\ r.num = l.num + Cardinality(m.items)
      /\ r.data \in Seq(ProperSegments) /\ Seconds(r.data) = all
  BY <1>1, ExtendedIs DEF RecTables
<1>3. list \in [Handlers -> Lists \cup {Nothing}] /\ resp \in [Queries -> (SUBSET Items) \cup {Nothing}]
  BY DEF RecTables
<1>4. l.owner \in Queries
  BY <1>1, ListsAre
<1> HIDE DEF r, all, l, m
<1>5. CASE list' = [list EXCEPT ![h] = r] /\ resp' = resp /\ raced' = raced
  BY <1>2, <1>3, <1>5 DEF all, l, m
<1>6. CASE /\ r.num >= m.total
           /\ \E s \in Seq(ProperSegments) :
                 /\ \A i \in 1..Len(s) : i > 1 => s[i - 1].start <= s[i].start
                 /\ Seconds(s) = Seconds(r.data)
                 /\ resp' = [resp EXCEPT ![l.owner] = IF @ = Nothing THEN Timeline(s) ELSE @]
                 /\ list' = [list EXCEPT ![h] = [r EXCEPT !.data = InPlace(s)]]
           /\ raced' = raced \cup {q \in Queries : pc[q] = "read" /\ held[q].owner = l.owner}
  <2>1. PICK s \in Seq(ProperSegments) :
                 /\ \A i \in 1..Len(s) : i > 1 => s[i - 1].start <= s[i].start
                 /\ Seconds(s) = Seconds(r.data)
                 /\ resp' = [resp EXCEPT ![l.owner] = IF @ = Nothing THEN Timeline(s) ELSE @]
                 /\ list' = [list EXCEPT ![h] = [r EXCEPT !.data = InPlace(s)]]
    BY <1>6
  <2> DEFINE n == [r EXCEPT !.data = InPlace(s)]
  <2>2. InPlace(s) \in Seq(ProperSegments) /\ Seconds(InPlace(s)) = all
    BY <1>2, <2>1, InPlaceIs
  <2>3. n \in Lists /\ n.owner = l.owner /\ n.num = r.num /\ n.data = InPlace(s)
    BY <1>2, <2>2, ListsAre
  <2>4. list' = [list EXCEPT ![h] = n]
    BY <2>1
  <2> HIDE DEF n
  <2>5. list'[h] = n /\ \A g \in Handlers : g # h => list'[g] = list[g]
    BY <1>3, <2>4
  <2>6. resp' # resp => resp' = [resp EXCEPT ![l.owner] = Timeline(s)]
    BY <1>3, <1>4, <2>1
  <2>7. raced \subseteq raced'
    BY <1>6
  <2> QED
    BY <1>2, <1>6, <2>1, <2>2, <2>3, <2>5, <2>6, <2>7 DEF all, l, m
<1> QED
  BY <1>1, <1>5, <1>6

LEMMA ClipsMore ==
  ASSUME NEW I, NEW J, I \subseteq J, NEW w
  PROVE  Clips(I, w) \subseteq Clips(J, w)
BY DEF Clips

LEMMA SoundCopiesStep == RecSound /\ [RecNext]_recVars => SoundCopies'
<1> SUFFICES ASSUME RecSound, [RecNext]_recVars PROVE SoundCopies'
  OBVIOUS
<1>0. sn' = sn /\ window' = window /\ RecTables /\ SoundCopies
  BY FixedStep DEF RecSound
<1>1. CASE UNCHANGED recVars
  BY <1>0, <1>1 DEF recVars, queryVars, handlerVars, historyVars, SoundCopies
<1>2. ASSUME NEW q \in Queries, StoreNew(q) PROVE SoundCopies'
  <2>1. Sound(List(q), sn[q], sn, window)
    BY NewListIs DEF Sound
  <2>2. table' = [table EXCEPT ![sn[q]] = List(q)] /\ pc' = [pc EXCEPT ![q] = "send"]
        /\ UNCHANGED <<hpc, list, todo, held>>
    BY <1>2 DEF StoreNew, Move, handlerVars
  <2> QED
    BY <1>0, <2>1, <2>2 DEF RecTables, SoundCopies
<1>3. ASSUME NEW q \in Queries, Send(q) \/ Acknowledged(q) \/ TakeRecords(q) PROVE SoundCopies'
  <2>1. pc' = [pc EXCEPT ![q] = pc'[q]] /\ pc'[q] # "read" /\ UNCHANGED <<table, hpc, list, todo, held>>
    BY <1>0, <1>3 DEF Send, Acknowledged, TakeRecords, Return, Move, handlerVars, RecTables
  <2> QED
    BY <1>0, <2>1 DEF RecTables, SoundCopies
<1>4. ASSUME NEW q \in Queries, Timeout(q) PROVE SoundCopies'
  <2>1. UNCHANGED <<table, hpc, list, todo>> /\ \A p \in Queries : p # q => pc'[p] = pc[p] /\ held'[p] = held[p]
    BY <1>0, <1>4 DEF Timeout, Return, Move, handlerVars, RecTables
  <2>2. pc'[q] = "read" => Sound(held'[q], sn[q], sn, window)
    <3>1. CASE table[sn[q]] = Nothing
      BY <1>0, <1>4, <3>1 DEF Timeout, Return, Move, RecTables
    <3>2. CASE table[sn[q]] # Nothing
      <4>1. sn[q] \in SNs /\ held'[q] = table[sn[q]]
        BY <1>0, <1>4, <3>2 DEF Timeout, RecTables
      <4> QED
        BY <1>0, <3>2, <4>1 DEF SoundCopies
    <3> QED
      BY <3>1, <3>2
  <2> QED
    BY <1>0, <2>1, <2>2 DEF SoundCopies
<1>5. ASSUME NEW q \in Queries, ReadPartial(q) PROVE SoundCopies'
  <2>1. /\ pc' = [pc EXCEPT ![q] = "leave"] /\ held' = [held EXCEPT ![q] = Nothing]
        /\ UNCHANGED <<table, hpc, list, todo>>
    BY <1>0, <1>5, ReadPartialIs DEF handlerVars
  <2> QED
    BY <1>0, <2>1 DEF RecTables, SoundCopies
<1>6. ASSUME NEW q \in Queries, Leave(q) PROVE SoundCopies'
  BY <1>0, <1>6 DEF Leave, Move, RecTables, SoundCopies, handlerVars
<1>7. ASSUME NEW h \in Handlers, NEW m \in wire, LoadList(h, m) PROVE SoundCopies'
  <2>1. m.sn \in SNs
    BY <1>0 DEF RecTables, Messages
  <2>2. /\ hpc' = [hpc EXCEPT ![h] = "loaded"] /\ todo' = [todo EXCEPT ![h] = m]
        /\ list' = [list EXCEPT ![h] = table[m.sn]] /\ table[m.sn] # Nothing
        /\ UNCHANGED <<table, pc, held>>
    BY <1>7 DEF LoadList, queryVars
  <2>3. list'[h] = table[m.sn] /\ todo'[h] = m /\ Sound(table[m.sn], m.sn, sn, window)
    BY <1>0, <2>1, <2>2 DEF RecTables, SoundCopies
  <2> QED
    BY <1>0, <2>2, <2>3 DEF RecTables, SoundCopies
<1>8. ASSUME NEW h \in Handlers, AddItems(h) PROVE SoundCopies'
  <2>1. hpc[h] = "loaded" /\ list[h] \in Lists /\ todo[h] \in Messages /\ Sound(list[h], todo[h].sn, sn, window)
    BY <1>0, <1>8 DEF AddItems, RecTables, SoundCopies
  <2>2. Clips(todo[h].items, window[list[h].owner]) \subseteq Clips(DOMAIN Recorded, window[list[h].owner])
    BY <2>1, ClipsMore DEF Messages
  <2>3. Sound(list'[h], todo[h].sn, sn, window)
    BY <1>0, <1>8, <2>1, <2>2, AddedSound DEF Sound
  <2>4. \A g \in Handlers : g # h => list'[g] = list[g] /\ hpc'[g] = hpc[g]
    BY <1>0, <1>8, AddedSound DEF AddItems, RecTables
  <2>5. UNCHANGED <<table, pc, held, todo>>
    BY <1>8 DEF AddItems, queryVars
  <2> QED
    BY <1>0, <2>3, <2>4, <2>5 DEF SoundCopies
<1>9. ASSUME NEW h \in Handlers, StoreList(h) PROVE SoundCopies'
  <2>1. hpc[h] = "store" /\ Sound(list[h], todo[h].sn, sn, window)
    BY <1>0, <1>9 DEF StoreList, SoundCopies
  <2>2. /\ table' = [table EXCEPT ![todo[h].sn] = list[h]] /\ hpc' = [hpc EXCEPT ![h] = "idle"]
        /\ todo' = [todo EXCEPT ![h] = Nothing] /\ list' = [list EXCEPT ![h] = Nothing]
        /\ UNCHANGED <<pc, held>>
    BY <1>9 DEF StoreList, queryVars
  <2> QED
    BY <1>0, <2>1, <2>2 DEF RecTables, SoundCopies
<1> QED
  BY <1>1, <1>2, <1>3, <1>4, <1>5, <1>6, <1>7, <1>8, <1>9 DEF RecNext, Query, HandleMessage

\* The timeline of a sorted sequence of sound segments is sound.
LEMMA TimelineSound ==
  ASSUME NEW s \in Seq(ProperSegments), NEW w, Seconds(s) \subseteq Clips(DOMAIN Recorded, w)
  PROVE  /\ SpansOf(Timeline(s)) \subseteq Clips(DOMAIN Recorded, w)
         /\ \A x \in Timeline(s) : InItsDay(x)
         /\ (\A i \in 1..Len(s) : i > 1 => s[i - 1].start <= s[i].start) => SoundItems(Timeline(s), w)
<1>1. SpansOf(Timeline(s)) \subseteq Clips(DOMAIN Recorded, w) /\ \A x \in Timeline(s) : InItsDay(x)
  BY TimelineCovers DEF SpansOf
<1>2. ASSUME \A i \in 1..Len(s) : i > 1 => s[i - 1].start <= s[i].start
      PROVE  SoundItems(Timeline(s), w)
  BY <1>1, <1>2, TimelineInOrder DEF SoundItems
<1> QED
  BY <1>1, <1>2

LEMMA SoundAnswersStep == RecSound /\ [RecNext]_recVars => SoundAnswers'
<1> SUFFICES ASSUME RecSound, [RecNext]_recVars PROVE SoundAnswers'
  OBVIOUS
<1>0. /\ sn' = sn /\ window' = window /\ RecTables /\ SoundCopies /\ SoundAnswers
      /\ resp \in [Queries -> (SUBSET Items) \cup {Nothing}]
  BY FixedStep DEF RecSound, RecTables
<1>1. CASE resp' = resp
  BY <1>0, <1>1 DEF SoundAnswers
<1>2. ASSUME NEW q \in Queries, TakeRecords(q) PROVE SoundAnswers'
  <2>1. resp' = [resp EXCEPT ![q] = Nothing]
    BY <1>2 DEF TakeRecords
  <2> QED
    BY <1>0, <2>1 DEF SoundAnswers
<1>3. ASSUME NEW h \in Handlers, AddItems(h) PROVE SoundAnswers'
  <2> DEFINE o == list[h].owner
  <2>1. hpc[h] = "loaded" /\ list[h] \in Lists /\ todo[h] \in Messages /\ Sound(list[h], todo[h].sn, sn, window)
    BY <1>0, <1>3 DEF AddItems, RecTables, SoundCopies
  <2>2. Clips(todo[h].items, window[o]) \subseteq Clips(DOMAIN Recorded, window[o])
    BY <2>1, ClipsMore DEF Messages
  <2>3. CASE resp' # resp
    <3>1. PICK s \in Seq(ProperSegments) :
            /\ \A i \in 1..Len(s) : i > 1 => s[i - 1].start <= s[i].start
            /\ Seconds(s) = Seconds(list[h].data) \cup Clips(todo[h].items, window[o])
            /\ resp' = [resp EXCEPT ![o] = Timeline(s)]
      BY <1>0, <1>3, <2>3, AddedSound
    <3>2. Seconds(s) \subseteq Clips(DOMAIN Recorded, window[o])
      BY <2>1, <2>2, <3>1 DEF Sound
    <3>3. SoundItems(Timeline(s), window[o])
      BY <3>1, <3>2, TimelineSound
    <3>4. \A q \in Queries : resp'[q] = IF q = o THEN Timeline(s) ELSE resp[q]
      BY <1>0, <3>1
    <3> QED
      BY <1>0, <3>3, <3>4 DEF SoundAnswers
  <2> QED
    BY <1>1, <2>3
<1>4. resp' = resp \/ (\E q \in Queries : TakeRecords(q)) \/ (\E h \in Handlers : AddItems(h))
  BY DEF RecNext, Query, HandleMessage, StoreNew, Send, Acknowledged, Timeout, ReadPartial, Leave,
         LoadList, StoreList, recVars
<1> QED
  BY <1>1, <1>2, <1>3, <1>4

LEMMA SoundResultsStep == RecSound /\ [RecNext]_recVars => SoundResults'
<1> SUFFICES ASSUME RecSound, [RecNext]_recVars PROVE SoundResults'
  OBVIOUS
<1>0. /\ sn' = sn /\ window' = window /\ RecTables /\ SoundCopies /\ SoundAnswers /\ SoundResults
      /\ result \in [Queries -> Returns \cup {Nothing}] /\ sn \in [Queries -> SNs]
  BY FixedStep DEF RecSound, RecTables
<1>1. raced \subseteq raced'
  <2>1. ASSUME NEW h \in Handlers, AddItems(h) PROVE raced \subseteq raced'
    BY <1>0, <2>1, AddedSound
  <2> QED
    BY <2>1 DEF RecNext, Query, HandleMessage, StoreNew, Send, Acknowledged, TakeRecords, Timeout, ReadPartial, Leave,
         LoadList, StoreList, recVars, historyVars
<1>2. SUFFICES ASSUME NEW q \in Queries PROVE SoundResult(q)'
  BY DEF SoundResults
<1>3. CASE result'[q] = result[q]
  BY <1>0, <1>1, <1>3 DEF SoundResults, SoundResult
<1>4. CASE result'[q] = Error
  <2>1. result'[q].items = {} /\ SpansOf({}) = {} /\ DaysInOrder({})
    BY <1>4 DEF Error, SpansOf, Covered, DaysInOrder
  <2> QED
    BY <2>1 DEF SoundResult
<1>5. CASE TakeRecords(q)
  <2>1. resp[q] # Nothing /\ result'[q].items = resp[q]
    BY <1>0, <1>5 DEF TakeRecords, Return
  <2>2. SoundItems(resp[q], window[q])
    BY <1>0, <2>1 DEF SoundAnswers
  <2> QED
    BY <1>0, <2>1, <2>2 DEF SoundResult, SoundItems
<1>6. CASE ReadPartial(q)
  <2>1. PICK s \in Seq(ProperSegments) :
              /\ q \notin raced => \A i \in 1..Len(s) : i > 1 => s[i - 1].start <= s[i].start
              /\ Seconds(s) \subseteq Seconds(held[q].data)
              /\ result' = [result EXCEPT ![q] = [kind |-> "partial", items |-> Timeline(s)]]
    BY <1>0, <1>6, ReadPartialIs
  <2>2. pc[q] = "read" /\ held[q] \in Lists
    BY <1>0, <1>6, ReadPartialIs
  <2>3. held[q].owner \in Queries /\ Sound(held[q], sn[q], sn, window)
    BY <1>0, <2>2, ListsAre DEF SoundCopies
  <2>4. result'[q].items = Timeline(s)
    BY <1>0, <2>1
  <2>5. \A x \in Timeline(s) : InItsDay(x)
    BY TimelineCovers
  <2>6. q \notin raced => DaysInOrder(Timeline(s))
    BY <2>1, TimelineInOrder
  <2>7. ASSUME \A p \in Queries \ {q} : sn[p] # sn[q]
        PROVE  SpansOf(Timeline(s)) \subseteq Clips(DOMAIN Recorded, window[q])
    <3>1. held[q].owner = q
      BY <2>3, <2>7 DEF Sound
    <3>2. Seconds(s) \subseteq Clips(DOMAIN Recorded, window[q])
      BY <2>1, <2>3, <3>1 DEF Sound
    <3> QED
      BY <3>2, TimelineSound
  <2> QED
    BY <1>0, <1>1, <2>4, <2>5, <2>6, <2>7 DEF SoundResult
<1>7. \/ result'[q] = result[q] \/ result'[q] = Error \/ TakeRecords(q) \/ ReadPartial(q)
  <2>1. CASE UNCHANGED recVars
    BY <2>1 DEF recVars, queryVars
  <2>2. ASSUME NEW h \in Handlers, HandleMessage(h) PROVE result' = result
    BY <2>2 DEF HandleMessage, LoadList, AddItems, StoreList, queryVars
  <2>3. ASSUME NEW p \in Queries, StoreNew(p) \/ Leave(p) PROVE result' = result
    BY <2>3 DEF StoreNew, Leave
  <2>4. ASSUME NEW p \in Queries, Send(p) \/ Acknowledged(p) \/ Timeout(p)
        PROVE  result' = result \/ result' = [result EXCEPT ![p] = Error]
    BY <2>4 DEF Send, Acknowledged, Timeout, Return
  <2>5. ASSUME NEW p \in Queries, p # q, TakeRecords(p) \/ ReadPartial(p)
        PROVE  result'[q] = result[q]
    BY <1>0, <2>5 DEF TakeRecords, ReadPartial, Return
  <2> QED
    BY <1>0, <2>1, <2>2, <2>3, <2>4, <2>5 DEF RecNext, Query
<1> QED
  BY <1>3, <1>4, <1>5, <1>6, <1>7

LEMMA RecSoundStart == RecInit => RecSound
<1> SUFFICES ASSUME RecInit PROVE RecSound
  OBVIOUS
<1>1. RecTables
  BY RecTablesStart
<1>2. SoundCopies /\ SoundAnswers /\ SoundResults
  BY DEF RecInit, SoundCopies, SoundAnswers, SoundResults, SoundResult
<1> QED
  BY <1>1, <1>2 DEF RecSound

LEMMA RecSoundHolds == RecSpec => []RecSound
<1>1. RecSound /\ [RecNext]_recVars => RecSound'
  BY RecTablesStep, SoundCopiesStep, SoundAnswersStep, SoundResultsStep DEF RecSound
<1> QED
  BY <1>1, RecSoundStart, PTL DEF RecSpec

\* What a query shows is its recordings (QueryRecordList).
THEOREM ShownWithin == RecSpec => []RecShownWithin
<1>1. RecSound => RecShownWithin
  <2> SUFFICES ASSUME RecSound, NEW q \in Queries, result[q] # Nothing
               PROVE  /\ Alone(q) => Returned(q) \subseteq Recordings(q)
                      /\ \A item \in result[q].items : InItsDay(item)
                      /\ q \notin raced => DaysInOrder(result[q].items)
    BY DEF RecShownWithin
  <2>1. SoundResult(q) /\ window[q] \in Windows
    BY DEF RecSound, SoundResults, RecTables
  <2>2. Clips(DOMAIN Recorded, window[q]) = Recordings(q)
    BY <2>1, RecordingsAre
  <2>3. Returned(q) = SpansOf(result[q].items)
    BY DEF Returned, SpansOf
  <2> QED
    BY <2>1, <2>2, <2>3 DEF SoundResult, Alone
<1> QED
  BY <1>1, RecSoundHolds, PTL

\* Messages say what was asked, after it was asked.
Belongs(m, numbers, windows, places) ==
  /\ m.sn = numbers[m.query] /\ places[m.query] \notin {"new", "send"}
  /\ m.items \subseteq Within(windows[m.query])
  /\ m.total = Cardinality(Within(windows[m.query]))

Belonging ==
  /\ \A m \in wire : Belongs(m, sn, window, pc)
  /\ \A h \in Handlers : hpc[h] = "idle" \/ Belongs(todo[h], sn, window, pc)

\* The messages of a query that no list has yet share no item.
LoadedOf(q) == {h \in Handlers : hpc[h] = "loaded" /\ todo[h].query = q}
OnWire(q) == {m \in wire : m.query = q}
Pending(q) == OnWire(q) \cup {todo[h] : h \in LoadedOf(q)}

Disjoint(m, n) == m.items \cap n.items = {}

ApartOf(q) ==
  /\ \A m, n \in OnWire(q) : m # n => Disjoint(m, n)
  /\ \A m \in OnWire(q), h \in LoadedOf(q) : Disjoint(m, todo[h])
  /\ \A g, h \in LoadedOf(q) : g # h => Disjoint(todo[g], todo[h])

Apart == \A q \in Queries \ repeated : ApartOf(q)

\* A list has the seconds of as many items as it counts, none of them pending.
Counts(l, pending, w) ==
  \E I \in SUBSET Within(w) : /\ l.num = Cardinality(I) /\ Seconds(l.data) = Clips(I, w)
                              /\ \A m \in pending : I \cap m.items = {}

Empty(l) == l.num = 0 /\ Seconds(l.data) = {}

Single(q, numbers) == \A p \in Queries \ {q} : numbers[p] # numbers[q]

CountedOf(q) ==
  /\ table[sn[q]] = Nothing \/ Counts(table[sn[q]], Pending(q), window[q])
  /\ pc[q] \in {"new", "send"} => table[sn[q]] = Nothing \/ Empty(table[sn[q]])
  /\ \A h \in Handlers : hpc[h] # "idle" /\ list[h].owner = q => Counts(list[h], Pending(q), window[q])

RecCounted == \A q \in Queries \ repeated : Single(q, sn) => CountedOf(q)

\* What is offered and returned as the whole answer is the whole answer.
WholeOf(q) ==
  /\ resp[q] = Nothing \/ SpansOf(resp[q]) = Clips(Within(window[q]), window[q])
  /\ result[q] = Nothing \/ result[q].kind # "complete"
       \/ SpansOf(result[q].items) = Clips(Within(window[q]), window[q])

Whole == \A q \in Queries \ repeated : Single(q, sn) => WholeOf(q)

RecWhole == RecSound /\ Belonging /\ Apart /\ RecCounted /\ Whole

LEMMA BelongingStep == RecWhole /\ [RecNext]_recVars => Belonging'
<1> SUFFICES ASSUME RecWhole, [RecNext]_recVars PROVE Belonging'
  OBVIOUS
<1>0. /\ sn' = sn /\ window' = window /\ RecTables /\ Belonging
      /\ pc \in [Queries -> QueryPlaces] /\ wire \subseteq Messages /\ todo \in [Handlers -> Messages \cup {Nothing}]
      /\ hpc \in [Handlers -> {"idle", "loaded", "store"}]
  BY FixedStep DEF RecWhole, RecSound, RecTables
<1>a. \A m \in Messages : m.query \in Queries
  BY DEF Messages
<1>1. \A q \in Queries : pc[q] \notin {"new", "send"} => pc'[q] \notin {"new", "send"}
  <2>1. ASSUME NEW q \in Queries, StoreNew(q)
        PROVE  pc[q] = "new" /\ pc' = [pc EXCEPT ![q] = "send"]
    BY <2>1 DEF StoreNew, Move
  <2>2. ASSUME NEW q \in Queries, Query(q), ~StoreNew(q)
        PROVE  \E to \in {"ack", "wait", "read", "leave", "done"} : pc' = [pc EXCEPT ![q] = to]
    BY <2>2 DEF Query, Send, Acknowledged, TakeRecords, Timeout, ReadPartial, Leave, Return, Move
  <2>3. ASSUME NEW h \in Handlers, HandleMessage(h) PROVE pc' = pc
    BY <2>3 DEF HandleMessage, LoadList, AddItems, StoreList, queryVars
  <2>4. CASE UNCHANGED recVars
    BY <2>4 DEF recVars, queryVars
  <2> QED
    BY <1>0, <2>1, <2>2, <2>3, <2>4 DEF RecNext
<1>2. \A m \in Messages : Belongs(m, sn, window, pc) => Belongs(m, sn', window', pc')
  BY <1>0, <1>1, <1>a DEF Belongs
<1>3. CASE wire' = wire /\ \A h \in Handlers : hpc'[h] = "idle" \/ (hpc[h] # "idle" /\ todo'[h] = todo[h])
  <2>1. \A h \in Handlers : hpc[h] # "idle" => todo[h] \in Messages
    BY <1>0 DEF RecTables
  <2> QED
    BY <1>0, <1>2, <1>3, <2>1 DEF Belonging
<1>4. ASSUME NEW q \in Queries, Send(q) PROVE Belonging'
  <2>1. CASE wire' = wire
    BY <1>0, <1>3, <1>4, <2>1 DEF Send, handlerVars
  <2>2. CASE Move(q, "ack") /\ \E reply \in Answers(q) : wire' = wire \cup reply
    <3>1. PICK reply \in Answers(q) : wire' = wire \cup reply
      BY <2>2
    <3>2. pc'[q] = "ack" /\ UNCHANGED <<hpc, todo>>
      BY <1>0, <1>4, <2>2 DEF Send, Move, handlerVars
    <3>3. \A m \in reply : Belongs(m, sn', window', pc')
      BY <1>0, <3>2, AnswersAre DEF Belongs
    <3>4. \A h \in Handlers : hpc[h] # "idle" => todo[h] \in Messages
      BY <1>0 DEF RecTables
    <3>5. \A m \in wire' : Belongs(m, sn', window', pc')
      BY <1>0, <1>2, <3>1, <3>3 DEF Belonging
    <3>6. \A h \in Handlers : hpc'[h] = "idle" \/ Belongs(todo'[h], sn', window', pc')
      BY <1>0, <1>2, <3>2, <3>4 DEF Belonging
    <3> QED
      BY <3>5, <3>6 DEF Belonging
  <2> QED
    BY <1>4, <2>1, <2>2 DEF Send
<1>5. ASSUME NEW h \in Handlers, NEW m \in wire, LoadList(h, m) PROVE Belonging'
  <2>1. wire' \subseteq wire /\ todo' = [todo EXCEPT ![h] = m] /\ hpc' = [hpc EXCEPT ![h] = "loaded"]
    BY <1>5 DEF LoadList
  <2>2. \A g \in Handlers : hpc[g] # "idle" => todo[g] \in Messages
    BY <1>0 DEF RecTables
  <2>3. \A n \in wire' : Belongs(n, sn', window', pc')
    BY <1>0, <1>2, <2>1 DEF Belonging
  <2>4. Belongs(m, sn', window', pc') /\ todo'[h] = m
    BY <1>0, <1>2, <2>1 DEF Belonging
  <2>5. \A g \in Handlers : g # h => hpc'[g] = hpc[g] /\ todo'[g] = todo[g]
    BY <1>0, <2>1
  <2>6. \A g \in Handlers : hpc'[g] = "idle" \/ Belongs(todo'[g], sn', window', pc')
    BY <1>0, <1>2, <2>2, <2>4, <2>5 DEF Belonging
  <2> QED
    BY <2>3, <2>6 DEF Belonging
<1>6. ASSUME NEW h \in Handlers, AddItems(h) \/ StoreList(h) PROVE Belonging'
  BY <1>0, <1>3, <1>6 DEF AddItems, StoreList
<1>7. CASE wire' = wire /\ hpc' = hpc /\ todo' = todo
  BY <1>3, <1>7
<1>8. ASSUME NEW q \in Queries, Query(q), ~Send(q) PROVE wire' = wire /\ hpc' = hpc /\ todo' = todo
  BY <1>8 DEF Query, StoreNew, Acknowledged, TakeRecords, Timeout, ReadPartial, Leave, handlerVars
<1> QED
  BY <1>4, <1>5, <1>6, <1>7, <1>8 DEF RecNext, HandleMessage, recVars, handlerVars

LEMMA ApartStep == RecWhole /\ [RecNext]_recVars => Apart'
<1> SUFFICES ASSUME RecWhole, [RecNext]_recVars PROVE Apart'
  OBVIOUS
<1>0. /\ sn' = sn /\ window' = window /\ RecTables /\ Belonging /\ Apart
      /\ wire \subseteq Messages /\ todo \in [Handlers -> Messages \cup {Nothing}]
      /\ hpc \in [Handlers -> {"idle", "loaded", "store"}]
  BY FixedStep DEF RecWhole, RecSound, RecTables
<1>1. repeated \subseteq repeated'
  BY DEF RecNext, Query, HandleMessage, StoreNew, Send, Acknowledged, TakeRecords, Timeout, ReadPartial, Leave,
         LoadList, AddItems, StoreList, recVars, historyVars
<1>2. SUFFICES ASSUME NEW q \in Queries, q \notin repeated' PROVE ApartOf(q)'
  BY DEF Apart
<1>3. ApartOf(q)
  BY <1>0, <1>1, <1>2 DEF Apart
<1>4. CASE OnWire(q)' = OnWire(q) /\ \A h \in LoadedOf(q)' : h \in LoadedOf(q) /\ todo'[h] = todo[h]
  BY <1>3, <1>4 DEF ApartOf
<1>5. ASSUME NEW p \in Queries, Send(p) PROVE ApartOf(q)'
  <2>1. UNCHANGED <<hpc, todo>>
    BY <1>5 DEF Send, handlerVars
  <2>2. LoadedOf(q)' = LoadedOf(q)
    BY <2>1 DEF LoadedOf
  <2>3. CASE wire' = wire
    BY <1>4, <2>1, <2>2, <2>3 DEF OnWire
  <2>4. CASE \E reply \in Answers(p) : wire' = wire \cup reply
    <3>1. PICK reply \in Answers(p) : wire' = wire \cup reply
      BY <2>4
    <3>2. \A m \in reply : m.query = p
      BY <1>0, AnswersAre
    <3>3. CASE p # q
      BY <1>4, <2>1, <2>2, <3>1, <3>2, <3>3 DEF OnWire
    <3>4. CASE p = q
      <4>1. pc[q] = "send"
        BY <1>5, <3>4 DEF Send
      <4>2. OnWire(q) = {} /\ LoadedOf(q) = {}
        BY <1>0, <4>1 DEF OnWire, LoadedOf, Belonging, Belongs
      <4>3. OnWire(q)' = reply
        BY <3>1, <3>2, <3>4, <4>2 DEF OnWire
      <4> QED
        BY <1>0, <2>2, <4>2, <4>3, AnswersAre DEF ApartOf, Disjoint
    <3> QED
      BY <3>3, <3>4
  <2> QED
    BY <1>5, <2>3, <2>4 DEF Send
<1>6. ASSUME NEW h \in Handlers, NEW m \in wire, LoadList(h, m) PROVE ApartOf(q)'
  <2>1. todo' = [todo EXCEPT ![h] = m] /\ hpc' = [hpc EXCEPT ![h] = "loaded"] /\ hpc[h] = "idle"
    BY <1>6 DEF LoadList
  <2>2. \A g \in Handlers : g # h => (g \in LoadedOf(q)' <=> g \in LoadedOf(q)) /\ todo'[g] = todo[g]
    BY <1>0, <2>1 DEF LoadedOf
  <2>3. h \in LoadedOf(q)' <=> m.query = q
    BY <1>0, <2>1 DEF LoadedOf
  <2>4. todo'[h] = m /\ OnWire(q)' \subseteq OnWire(q)
    BY <1>0, <1>6, <2>1 DEF OnWire, LoadList
  <2>a. \A g \in LoadedOf(q)' : g \in Handlers
    BY DEF LoadedOf
  <2>5. CASE m.query # q
    BY <1>3, <2>2, <2>3, <2>4, <2>5, <2>a DEF ApartOf
  <2>6. CASE m.query = q
    <3>1. wire' = wire \ {m}
      BY <1>2, <1>6, <2>6 DEF LoadList
    <3>2. m \in OnWire(q) /\ m \notin OnWire(q)'
      BY <2>6, <3>1 DEF OnWire
    <3>3. \A x, y \in OnWire(q)' : x # y => Disjoint(x, y)
      BY <1>3, <2>4 DEF ApartOf
    <3>4. ASSUME NEW x \in OnWire(q)', NEW g \in LoadedOf(q)' PROVE Disjoint(x, todo'[g])
      <4>1. CASE g = h
        BY <1>3, <2>4, <3>2, <4>1 DEF ApartOf
      <4>2. CASE g # h
        BY <1>3, <2>2, <2>4, <2>a, <4>2 DEF ApartOf
      <4> QED
        BY <4>1, <4>2
    <3>5. ASSUME NEW f \in LoadedOf(q)', NEW g \in LoadedOf(q)', f # g PROVE Disjoint(todo'[f], todo'[g])
      <4>1. CASE f = h
        <5>1. Disjoint(m, todo[g]) /\ todo'[g] = todo[g]
          BY <1>3, <2>2, <2>a, <3>2, <3>5, <4>1 DEF ApartOf
        <5> QED
          BY <2>4, <4>1, <5>1
      <4>2. CASE g = h
        <5>1. Disjoint(m, todo[f]) /\ todo'[f] = todo[f]
          BY <1>3, <2>2, <2>a, <3>2, <3>5, <4>2 DEF ApartOf
        <5> QED
          BY <2>4, <4>2, <5>1 DEF Disjoint
      <4>3. CASE f # h /\ g # h
        BY <1>3, <2>2, <2>a, <3>5, <4>3 DEF ApartOf
      <4> QED
        BY <4>1, <4>2, <4>3
    <3> QED
      BY <3>3, <3>4, <3>5 DEF ApartOf
  <2> QED
    BY <2>5, <2>6
<1>7. ASSUME NEW h \in Handlers, AddItems(h) \/ StoreList(h) PROVE ApartOf(q)'
  <2>1. wire' = wire /\ \A g \in Handlers : g # h => hpc'[g] = hpc[g] /\ todo'[g] = todo[g]
    BY <1>0, <1>7 DEF AddItems, StoreList
  <2>2. hpc'[h] # "loaded"
    BY <1>0, <1>7 DEF AddItems, StoreList
  <2> QED
    BY <1>4, <2>1, <2>2 DEF OnWire, LoadedOf
<1>8. CASE wire' = wire /\ hpc' = hpc /\ todo' = todo
  BY <1>4, <1>8 DEF OnWire, LoadedOf
<1>9. ASSUME NEW p \in Queries, Query(p), ~Send(p) PROVE wire' = wire /\ hpc' = hpc /\ todo' = todo
  BY <1>9 DEF Query, StoreNew, Acknowledged, TakeRecords, Timeout, ReadPartial, Leave, handlerVars
<1> QED
  BY <1>5, <1>6, <1>7, <1>8, <1>9 DEF RecNext, HandleMessage, recVars, handlerVars

LEMMA FewerPending ==
  ASSUME NEW l, NEW w, NEW P, NEW Q, Q \subseteq P, Counts(l, P, w)
  PROVE  Counts(l, Q, w)
BY DEF Counts

LEMMA EmptyCounts ==
  ASSUME NEW l, NEW w, NEW P, Empty(l)
  PROVE  Counts(l, P, w)
<1>1. l.num = Cardinality({}) /\ Seconds(l.data) = Clips({}, w)
  BY FS_EmptySet DEF Empty, Clips
<1> QED
  BY <1>1 DEF Counts

\* Only sending a query makes messages pending.
LEMMA PendingStep ==
  ASSUME RecWhole, [RecNext]_recVars, NEW q \in Queries, ~Send(q)
  PROVE  Pending(q)' \subseteq Pending(q)
<1>0. /\ RecTables
      /\ wire \subseteq Messages /\ todo \in [Handlers -> Messages \cup {Nothing}]
      /\ hpc \in [Handlers -> {"idle", "loaded", "store"}]
  BY DEF RecWhole, RecSound, RecTables
<1>1. CASE wire' = wire /\ \A h \in LoadedOf(q)' : h \in LoadedOf(q) /\ todo'[h] = todo[h]
  BY <1>1 DEF Pending, OnWire
<1>2. ASSUME NEW p \in Queries, Send(p) PROVE Pending(q)' \subseteq Pending(q)
  <2>1. UNCHANGED <<hpc, todo>>
    BY <1>2 DEF Send, handlerVars
  <2>2. CASE wire' = wire
    BY <1>1, <2>1, <2>2 DEF LoadedOf
  <2>3. CASE \E reply \in Answers(p) : wire' = wire \cup reply
    <3>1. PICK reply \in Answers(p) : wire' = wire \cup reply
      BY <2>3
    <3>2. p # q /\ \A m \in reply : m.query = p
      BY <1>0, <1>2, AnswersAre
    <3> QED
      BY <2>1, <3>1, <3>2 DEF Pending, OnWire, LoadedOf
  <2> QED
    BY <1>2, <2>2, <2>3 DEF Send
<1>3. ASSUME NEW h \in Handlers, NEW m \in wire, LoadList(h, m) PROVE Pending(q)' \subseteq Pending(q)
  <2>1. todo' = [todo EXCEPT ![h] = m] /\ hpc' = [hpc EXCEPT ![h] = "loaded"] /\ wire' \subseteq wire
    BY <1>3 DEF LoadList
  <2>2. \A g \in Handlers : g # h => (g \in LoadedOf(q)' <=> g \in LoadedOf(q)) /\ todo'[g] = todo[g]
    BY <1>0, <2>1 DEF LoadedOf
  <2>3. todo'[h] = m /\ (h \in LoadedOf(q)' => m \in OnWire(q)) /\ OnWire(q)' \subseteq OnWire(q)
    BY <1>0, <2>1 DEF LoadedOf, OnWire
  <2>4. \A g \in LoadedOf(q)' : g \in Handlers
    BY DEF LoadedOf
  <2> QED
    BY <2>2, <2>3, <2>4 DEF Pending
<1>4. ASSUME NEW h \in Handlers, AddItems(h) \/ StoreList(h) PROVE Pending(q)' \subseteq Pending(q)
  <2>1. wire' = wire /\ hpc'[h] # "loaded" /\ \A g \in Handlers : g # h => hpc'[g] = hpc[g] /\ todo'[g] = todo[g]
    BY <1>0, <1>4 DEF AddItems, StoreList
  <2> QED
    BY <1>1, <2>1 DEF LoadedOf
<1>5. CASE wire' = wire /\ hpc' = hpc /\ todo' = todo
  BY <1>1, <1>5 DEF LoadedOf
<1>6. ASSUME NEW p \in Queries, Query(p), ~Send(p) PROVE wire' = wire /\ hpc' = hpc /\ todo' = todo
  BY <1>6 DEF Query, StoreNew, Acknowledged, TakeRecords, Timeout, ReadPartial, Leave, handlerVars
<1> QED
  BY <1>2, <1>3, <1>4, <1>5, <1>6 DEF RecNext, HandleMessage, recVars, handlerVars

LEMMA ClipsOfBoth == \A I, J, w : Clips(I \cup J, w) = Clips(I, w) \cup Clips(J, w)
BY DEF Clips

\* The copy of a handler counts the items of its message too; what it counts is all
\* when it has arrived.
LEMMA AddedCounts ==
  ASSUME RecWhole, NEW h \in Handlers, AddItems(h),
         NEW q \in Queries \ repeated, Single(q, sn), list[h].owner = q
  PROVE  /\ Counts(list'[h], Pending(q)', window[q])
         /\ list'[h].num >= todo[h].total => Seconds(list'[h].data) = Clips(Within(window[q]), window[q])
<1> DEFINE m == todo[h]
           w == window[q]
           l == list[h]
           r == list'[h]
<1>1. /\ RecTables /\ hpc[h] = "loaded" /\ m \in Messages /\ m.query \in Queries /\ w \in Windows
      /\ Sound(l, m.sn, sn, window) /\ Belongs(m, sn, window, pc) /\ ApartOf(q) /\ CountedOf(q)
  BY DEF RecWhole, RecSound, AddItems, RecTables, Messages, SoundCopies, Belonging, Apart, RecCounted
<1>2. m.query = q
  BY <1>1 DEF Sound, Belongs, Single
<1>3. h \in LoadedOf(q)
  BY <1>1, <1>2 DEF LoadedOf
<1>4. Counts(l, Pending(q), w)
  BY <1>1 DEF CountedOf
<1>5. /\ r.num = l.num + Cardinality(m.items)
      /\ Seconds(r.data) = Seconds(l.data) \cup Clips(m.items, w)
  BY <1>1, AddedSound
<1>6. UNCHANGED <<wire, todo>> /\ hpc' = [hpc EXCEPT ![h] = "store"]
  BY DEF AddItems
<1>7. \A n \in Pending(q)' : n \in Pending(q) /\ Disjoint(m, n)
  <2>1. OnWire(q)' = OnWire(q)
    BY <1>6 DEF OnWire
  <2>2. \A g \in LoadedOf(q)' : g \in LoadedOf(q) /\ g # h /\ todo'[g] = todo[g]
    BY <1>1, <1>6 DEF LoadedOf, RecTables
  <2>3. \A n \in OnWire(q) : Disjoint(m, n)
    BY <1>1, <1>3 DEF ApartOf, Disjoint
  <2>4. \A g \in LoadedOf(q)' : Disjoint(m, todo[g])
    BY <1>1, <1>3, <2>2 DEF ApartOf
  <2> QED
    BY <2>1, <2>2, <2>3, <2>4 DEF Pending
<1>8. m \in Pending(q)
  BY <1>3 DEF Pending
<1>9. m.items \subseteq Within(w) /\ m.total = Cardinality(Within(w))
  BY <1>1, <1>2 DEF Belongs
<1>10. IsFiniteSet(Within(w))
  <2>1. Len(Recorded) \in Nat /\ DOMAIN Recorded = 1..Len(Recorded)
    BY RecordAssumption, LenProperties
  <2>2. Within(w) \in SUBSET (1..Len(Recorded))
    BY <2>1 DEF Within
  <2> QED
    BY <2>1, <2>2, FinitePart
<1> HIDE DEF m, w, l, r
<1>11. PICK I \in SUBSET Within(w) : /\ l.num = Cardinality(I) /\ Seconds(l.data) = Clips(I, w)
                                     /\ \A n \in Pending(q) : I \cap n.items = {}
  BY <1>4 DEF Counts
<1> DEFINE J == I \cup m.items
<1>12. Cardinality(J) = Cardinality(I) + Cardinality(m.items)
  <2>1. IsFiniteSet(I) /\ IsFiniteSet(m.items)
    BY <1>9, <1>10, FS_Subset
  <2>2. I \cap m.items = {}
    BY <1>8, <1>11
  <2>3. Cardinality(J) = Cardinality(I) + Cardinality(m.items) - Cardinality(I \cap m.items)
    BY <2>1, FS_Union
  <2>4. Cardinality(I) \in Nat /\ Cardinality(m.items) \in Nat
    BY <2>1, FS_CardinalityType
  <2>5. Cardinality(I \cap m.items) = 0
    BY <2>2, FS_EmptySet
  <2> HIDE DEF J
  <2> QED
    BY <2>3, <2>4, <2>5
<1>13. J \in SUBSET Within(w)
  BY <1>9
<1>14. Seconds(r.data) = Clips(J, w)
  BY <1>5, <1>11, ClipsOfBoth
<1>15. r.num = Cardinality(J)
  BY <1>5, <1>11, <1>12
<1>16. \A n \in Pending(q)' : J \cap n.items = {}
  BY <1>7, <1>11 DEF Disjoint, m
<1> HIDE DEF J
<1>17. Counts(r, Pending(q)', w)
  BY <1>13, <1>14, <1>15, <1>16 DEF Counts
<1>18. ASSUME r.num >= m.total PROVE Seconds(r.data) = Clips(Within(w), w)
  <2>1. Cardinality(J) <= Cardinality(Within(w)) /\ Cardinality(J) \in Nat /\ Cardinality(Within(w)) \in Nat
    BY <1>10, <1>13, FS_Subset, FS_CardinalityType
  <2>2. Cardinality(J) = Cardinality(Within(w))
    BY <1>9, <1>15, <1>18, <2>1
  <2>3. J = Within(w)
    BY <1>10, <1>13, <2>2, FS_Subset
  <2> QED
    BY <1>14, <2>3
<1> QED
  BY <1>17, <1>18 DEF m, r, w

LEMMA RecCountedStep == RecWhole /\ [RecNext]_recVars => RecCounted'
<1> SUFFICES ASSUME RecWhole, [RecNext]_recVars PROVE RecCounted'
  OBVIOUS
<1>0. /\ sn' = sn /\ window' = window /\ RecTables /\ SoundCopies /\ Belonging /\ RecCounted
      /\ table \in [SNs -> Lists \cup {Nothing}] /\ pc \in [Queries -> QueryPlaces] /\ sn \in [Queries -> SNs]
      /\ hpc \in [Handlers -> {"idle", "loaded", "store"}] /\ list \in [Handlers -> Lists \cup {Nothing}]
      /\ todo \in [Handlers -> Messages \cup {Nothing}]
  BY FixedStep DEF RecWhole, RecSound, RecTables
<1>1. repeated \subseteq repeated'
  BY DEF RecNext, Query, HandleMessage, StoreNew, Send, Acknowledged, TakeRecords, Timeout, ReadPartial, Leave,
         LoadList, AddItems, StoreList, recVars, historyVars
<1>2. SUFFICES ASSUME NEW q \in Queries, q \notin repeated', Single(q, sn) PROVE CountedOf(q)'
  BY <1>0 DEF RecCounted
<1>3. CountedOf(q) /\ q \in Queries \ repeated /\ sn[q] \in SNs
  BY <1>0, <1>1, <1>2 DEF RecCounted
<1>4. ASSUME NEW h \in Handlers, hpc[h] # "idle", list[h].owner = q
      PROVE  todo[h].query = q /\ todo[h].sn = sn[q] /\ pc[q] \notin {"new", "send"}
  <2>1. Sound(list[h], todo[h].sn, sn, window) /\ Belongs(todo[h], sn, window, pc) /\ todo[h].query \in Queries
    BY <1>0, <1>4 DEF SoundCopies, Belonging, RecTables, Messages
  <2> QED
    BY <1>2, <1>4, <2>1 DEF Sound, Belongs, Single
<1>5. ~Send(q) => \A l : Counts(l, Pending(q), window[q]) => Counts(l, Pending(q)', window[q])
  BY PendingStep, FewerPending
<1>6. CASE /\ ~Send(q)
           /\ table'[sn[q]] = table[sn[q]] \/ table'[sn[q]] = Nothing
           /\ pc'[q] \in {"new", "send"} => pc'[q] = pc[q]
           /\ \A h \in Handlers : hpc'[h] # "idle" => hpc[h] # "idle" /\ list'[h] = list[h]
  BY <1>0, <1>3, <1>5, <1>6 DEF CountedOf
<1>7. ASSUME NEW p \in Queries, StoreNew(p) PROVE CountedOf(q)'
  <2>1. /\ pc[p] = "new" /\ table' = [table EXCEPT ![sn[p]] = List(p)] /\ pc' = [pc EXCEPT ![p] = "send"]
        /\ UNCHANGED <<hpc, list>>
    BY <1>7 DEF StoreNew, Move, handlerVars
  <2>a. ~Send(q)
    BY <1>0, <1>7, <2>1 DEF StoreNew, Send, Move, Return
  <2>2. CASE p # q
    <3>1. table'[sn[q]] = table[sn[q]] /\ pc'[q] = pc[q]
      BY <1>0, <1>2, <2>1, <2>2 DEF Single
    <3> QED
      BY <1>6, <2>1, <2>a, <3>1
  <2>3. CASE p = q
    <3>1. table'[sn[q]] = List(q) /\ Empty(List(q))
      BY <1>0, <1>3, <2>1, <2>3, NewListIs DEF Empty
    <3>2. Counts(List(q), Pending(q)', window[q])
      BY <3>1, EmptyCounts
    <3> QED
      BY <1>0, <1>3, <1>5, <2>1, <2>a, <3>1, <3>2 DEF CountedOf
  <2> QED
    BY <2>2, <2>3
<1>8. CASE Send(q)
  <2>1. pc[q] = "send" /\ UNCHANGED <<table, hpc, list>> /\ pc'[q] \in {"ack", "leave"}
    BY <1>0, <1>8 DEF Send, Move, Return, handlerVars
  <2>2. table[sn[q]] = Nothing \/ Counts(table[sn[q]], Pending(q)', window[q])
    BY <1>3, <2>1, EmptyCounts DEF CountedOf
  <2>3. \A h \in Handlers : ~(hpc[h] # "idle" /\ list[h].owner = q)
    BY <1>4, <2>1
  <2> QED
    BY <1>0, <2>1, <2>2, <2>3 DEF CountedOf
<1>9. ASSUME NEW p \in Queries, Query(p), ~StoreNew(p), ~Send(q) PROVE CountedOf(q)'
  <2>1. UNCHANGED <<hpc, list>>
    BY <1>9 DEF Query, Send, Acknowledged, TakeRecords, Timeout, ReadPartial, Leave, handlerVars
  <2>2. \E to \in {"ack", "wait", "read", "leave", "done"} : pc' = [pc EXCEPT ![p] = to]
    BY <1>9 DEF Query, Send, Acknowledged, TakeRecords, Timeout, ReadPartial, Leave, Return, Move
  <2>3. table' = table \/ table' = [table EXCEPT ![sn[p]] = Nothing]
    BY <1>9 DEF Query, Send, Acknowledged, TakeRecords, Timeout, ReadPartial, Leave
  <2>4. table'[sn[q]] = table[sn[q]] \/ table'[sn[q]] = Nothing
    BY <1>0, <1>3, <2>3
  <2>5. pc'[q] \in {"new", "send"} => pc'[q] = pc[q]
    BY <1>0, <2>2
  <2> QED
    BY <1>6, <1>9, <2>1, <2>4, <2>5
<1>10. ASSUME NEW h \in Handlers, HandleMessage(h) PROVE pc' = pc /\ ~Send(q)
  <2>1. pc' = pc
    BY <1>10 DEF HandleMessage, LoadList, AddItems, StoreList, queryVars
  <2>2. Send(q) => pc' # pc
    BY <1>0 DEF Send, Move, Return
  <2> QED
    BY <2>1, <2>2
<1>11. ASSUME NEW h \in Handlers, NEW m \in wire, LoadList(h, m), pc' = pc, ~Send(q) PROVE CountedOf(q)'
  <2>1. /\ hpc' = [hpc EXCEPT ![h] = "loaded"] /\ list' = [list EXCEPT ![h] = table[m.sn]]
        /\ table[m.sn] # Nothing /\ table' = table
    BY <1>11 DEF LoadList
  <2>2. m.sn \in SNs
    BY <1>0 DEF RecTables, Messages
  <2>3. list'[h] = table[m.sn] /\ Sound(table[m.sn], m.sn, sn, window)
    BY <1>0, <2>1, <2>2 DEF SoundCopies
  <2>4. list'[h].owner = q => Counts(list'[h], Pending(q)', window[q])
    BY <1>3, <1>5, <1>11, <2>1, <2>3 DEF CountedOf, Sound
  <2>5. \A g \in Handlers : g # h => hpc'[g] = hpc[g] /\ list'[g] = list[g]
    BY <1>0, <2>1
  <2> QED
    BY <1>0, <1>3, <1>5, <1>11, <2>1, <2>4, <2>5 DEF CountedOf
<1>12. ASSUME NEW h \in Handlers, AddItems(h), pc' = pc, ~Send(q) PROVE CountedOf(q)'
  <2>1. hpc[h] # "idle" /\ hpc' = [hpc EXCEPT ![h] = "store"] /\ table' = table
    BY <1>12 DEF AddItems
  <2>2. list'[h].owner = list[h].owner /\ \A g \in Handlers : g # h => hpc'[g] = hpc[g] /\ list'[g] = list[g]
    BY <1>0, <1>12, <2>1, AddedSound
  <2>3. list'[h].owner = q => Counts(list'[h], Pending(q)', window[q])
    BY <1>2, <1>3, <1>12, <2>2, AddedCounts
  <2> QED
    BY <1>0, <1>3, <1>5, <1>12, <2>1, <2>2, <2>3 DEF CountedOf
<1>13. ASSUME NEW h \in Handlers, StoreList(h), pc' = pc, ~Send(q) PROVE CountedOf(q)'
  <2>1. /\ hpc[h] = "store" /\ hpc' = [hpc EXCEPT ![h] = "idle"] /\ list' = [list EXCEPT ![h] = Nothing]
        /\ table' = [table EXCEPT ![todo[h].sn] = list[h]]
    BY <1>13 DEF StoreList
  <2>2. /\ Sound(list[h], todo[h].sn, sn, window) /\ Belongs(todo[h], sn, window, pc)
        /\ todo[h].query \in Queries /\ list[h].owner \in Queries
    BY <1>0, <2>1, ListsAre DEF SoundCopies, Belonging, RecTables, Messages
  <2>3. \A g \in Handlers : hpc'[g] # "idle" => hpc[g] # "idle" /\ list'[g] = list[g]
    BY <1>0, <2>1
  <2>4. CASE todo[h].sn # sn[q]
    <3>1. table'[sn[q]] = table[sn[q]]
      BY <1>0, <1>3, <2>1, <2>4
    <3> QED
      BY <1>6, <1>13, <2>3, <3>1
  <2>5. CASE todo[h].sn = sn[q]
    <3>1. list[h].owner = q
      BY <1>2, <2>2, <2>5 DEF Sound, Single
    <3>2. pc[q] \notin {"new", "send"}
      BY <1>4, <2>1, <3>1
    <3>3. Counts(list[h], Pending(q)', window[q])
      BY <1>3, <1>5, <1>13, <2>1, <3>1 DEF CountedOf
    <3>4. table'[sn[q]] = list[h]
      BY <1>0, <1>3, <2>1, <2>5
    <3> QED
      BY <1>0, <1>3, <1>5, <1>13, <2>3, <3>2, <3>3, <3>4 DEF CountedOf
  <2> QED
    BY <2>4, <2>5
<1>14. CASE UNCHANGED recVars
  <2>1. pc' = pc /\ UNCHANGED <<table, hpc, list>>
    BY <1>14 DEF recVars, queryVars, handlerVars
  <2>2. Send(q) => pc' # pc
    BY <1>0 DEF Send, Move, Return
  <2> QED
    BY <1>6, <2>1, <2>2
<1> QED
  BY <1>7, <1>8, <1>9, <1>10, <1>11, <1>12, <1>13, <1>14 DEF RecNext, HandleMessage

LEMMA WholeStep == RecWhole /\ [RecNext]_recVars => Whole'
<1> SUFFICES ASSUME RecWhole, [RecNext]_recVars PROVE Whole'
  OBVIOUS
<1>0. /\ sn' = sn /\ window' = window /\ RecTables /\ Whole
      /\ resp \in [Queries -> (SUBSET Items) \cup {Nothing}]
      /\ result \in [Queries -> Returns \cup {Nothing}]
  BY FixedStep DEF RecWhole, RecSound, RecTables
<1>1. repeated \subseteq repeated'
  BY DEF RecNext, Query, HandleMessage, StoreNew, Send, Acknowledged, TakeRecords, Timeout, ReadPartial, Leave,
         LoadList, AddItems, StoreList, recVars, historyVars
<1>2. SUFFICES ASSUME NEW q \in Queries, q \notin repeated', Single(q, sn) PROVE WholeOf(q)'
  BY <1>0 DEF Whole
<1>3. WholeOf(q) /\ q \in Queries \ repeated
  BY <1>0, <1>1, <1>2 DEF Whole
<1>4. CASE /\ resp'[q] = resp[q] \/ resp'[q] = Nothing
           /\ result'[q] = result[q] \/ result'[q].kind # "complete"
  BY <1>0, <1>3, <1>4 DEF WholeOf
<1>5. CASE TakeRecords(q)
  <2>1. resp[q] # Nothing /\ resp'[q] = Nothing /\ result'[q].items = resp[q]
    BY <1>0, <1>5 DEF TakeRecords, Return
  <2> QED
    BY <1>0, <1>3, <2>1 DEF WholeOf
<1>6. ASSUME NEW h \in Handlers, AddItems(h) PROVE WholeOf(q)'
  <2>1. result' = result
    BY <1>6 DEF AddItems, queryVars
  <2>2. CASE resp'[q] = resp[q]
    BY <1>4, <2>1, <2>2
  <2>3. CASE resp'[q] # resp[q]
    <3>1. list[h].owner \in Queries
      BY <1>0, <1>6, ListsAre DEF AddItems, RecTables
    <3>2. /\ list'[h].num >= todo[h].total
          /\ \E s \in Seq(ProperSegments) : Seconds(s) = Seconds(list'[h].data)
                                     /\ resp' = [resp EXCEPT ![list[h].owner] = Timeline(s)]
      <4>1. resp' # resp
        BY <2>3
      <4> DEFINE all == Seconds(list[h].data) \cup Clips(todo[h].items, window[list[h].owner])
      <4>2. /\ Seconds(list'[h].data) = all /\ list'[h].num >= todo[h].total
            /\ \E s \in Seq(ProperSegments) : Seconds(s) = all /\ resp' = [resp EXCEPT ![list[h].owner] = Timeline(s)]
        BY <1>0, <1>6, <4>1, AddedSound
      <4> QED
        BY <4>2
    <3>3. PICK s \in Seq(ProperSegments) : Seconds(s) = Seconds(list'[h].data)
                                    /\ resp' = [resp EXCEPT ![list[h].owner] = Timeline(s)]
      BY <3>2
    <3>4. list[h].owner = q /\ resp'[q] = Timeline(s)
      BY <1>0, <2>3, <3>1, <3>3
    <3>5. Seconds(list'[h].data) = Clips(Within(window[q]), window[q])
      BY <1>2, <1>3, <1>6, <3>2, <3>4, AddedCounts
    <3>6. SpansOf(Timeline(s)) = Seconds(s)
      BY TimelineCovers DEF SpansOf
    <3> QED
      BY <1>0, <1>3, <2>1, <3>3, <3>4, <3>5, <3>6 DEF WholeOf
  <2> QED
    BY <2>2, <2>3
<1>7. ASSUME NEW p \in Queries, TakeRecords(p), p # q PROVE resp'[q] = resp[q] /\ result'[q] = result[q]
  BY <1>0, <1>7 DEF TakeRecords, Return
<1>8. ASSUME NEW p \in Queries, Query(p), ~TakeRecords(p)
      PROVE  /\ resp' = resp
             /\ result' = result \/ \E r : r.kind # "complete" /\ result' = [result EXCEPT ![p] = r]
  <2>1. CASE StoreNew(p) \/ Leave(p)
    BY <2>1 DEF StoreNew, Leave
  <2>2. CASE Send(p) \/ Acknowledged(p) \/ Timeout(p)
    <3>1. resp' = resp /\ (result' = result \/ result' = [result EXCEPT ![p] = Error])
      BY <2>2 DEF Send, Acknowledged, Timeout, Return
    <3> QED
      BY <3>1 DEF Error
  <2>3. CASE ReadPartial(p)
    <3>1. PICK s : result' = [result EXCEPT ![p] = [kind |-> "partial", items |-> Timeline(s)]]
      BY <1>0, <2>3, ReadPartialIs
    <3>2. resp' = resp
      BY <2>3 DEF ReadPartial
    <3> QED
      BY <3>1, <3>2
  <2> QED
    BY <1>8, <2>1, <2>2, <2>3 DEF Query
<1>9. ASSUME NEW p \in Queries, Query(p), ~TakeRecords(p) PROVE WholeOf(q)'
  BY <1>0, <1>4, <1>8, <1>9
<1>10. ASSUME NEW h \in Handlers, HandleMessage(h), ~AddItems(h) PROVE resp' = resp /\ result' = result
  BY <1>10 DEF HandleMessage, LoadList, StoreList, queryVars
<1>11. CASE UNCHANGED recVars
  BY <1>4, <1>11 DEF recVars, queryVars
<1> QED
  BY <1>4, <1>5, <1>6, <1>7, <1>9, <1>10, <1>11 DEF RecNext

LEMMA RecWholeStart == RecInit => RecWhole
<1> SUFFICES ASSUME RecInit PROVE RecWhole
  OBVIOUS
<1>1. RecSound
  BY RecSoundStart
<1>2. Belonging /\ Apart
  BY DEF RecInit, Belonging, Apart, ApartOf, OnWire, LoadedOf
<1>3. RecCounted /\ Whole
  BY <1>1 DEF RecInit, RecSound, RecTables, RecCounted, CountedOf, Whole, WholeOf
<1> QED
  BY <1>1, <1>2, <1>3 DEF RecWhole

LEMMA RecWholeHolds == RecSpec => []RecWhole
<1>1. RecWhole /\ [RecNext]_recVars => RecWhole'
  <2>1. RecSound /\ [RecNext]_recVars => RecSound'
    BY RecTablesStep, SoundCopiesStep, SoundAnswersStep, SoundResultsStep DEF RecSound
  <2> QED
    BY <2>1, BelongingStep, ApartStep, RecCountedStep, WholeStep DEF RecWhole
<1> QED
  BY <1>1, RecWholeStart, PTL DEF RecSpec

\* A query returns an answer that is whole when it counts as complete, and shows only its
\* recordings in any case (QueryRecordList, consumeRecordInfo, transRecordList).
THEOREM AnswersSound == RecSpec => []RecAnswersSound
<1>1. RecWhole => RecCompleteIsWhole
  <2> SUFFICES ASSUME RecWhole, NEW q \in Queries \ repeated,
                      result[q] # Nothing, result[q].kind = "complete", Alone(q)
               PROVE  Returned(q) = Recordings(q)
    BY DEF RecCompleteIsWhole
  <2>1. WholeOf(q) /\ window[q] \in Windows
    BY DEF RecWhole, RecSound, RecTables, Whole, Single, Alone
  <2>2. Clips(Within(window[q]), window[q]) = Recordings(q)
    BY <2>1, RecordingsAre
  <2> QED
    BY <2>1, <2>2 DEF WholeOf, Returned, SpansOf
<1> QED
  BY <1>1, ShownWithin, RecWholeHolds, PTL DEF RecAnswersSound
=============================================================================
