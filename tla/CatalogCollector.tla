-------------------------- MODULE CatalogCollector --------------------------
(***************************************************************************)
(* The catalog of a device: QueryCatalog asks the device for its channels  *)
(* and waits; the device answers with messages of its own, whose items the *)
(* handlers hand to the collector; the collector, one goroutine, gathers   *)
(* them by device and saves a list when it is complete, or when nothing    *)
(* new came for 10 s, and then calls the observers that wait for it.       *)
(*                                                                         *)
(* Time is a flag: `idle` of a collection says that 10 s have passed since *)
(* its last new item; a waiter's 7 s may be over at any time.  The table   *)
(* of observers has one entry for each waiter (its key is the device and   *)
(* the millisecond of the wait).                                           *)
(***************************************************************************)
EXTENDS Naturals, FiniteSets, Sequences

CONSTANTS
  CatDevices,     \* the devices, keys of the collector
  Channels,       \* all channels
  DeviceOf,       \* the device of a channel
  Queriers,       \* calls of QueryCatalog: the API and the registrations
  MsgCap,         \* room in the queue of items (512 in the code)
  CreateCap,      \* room in the queue of keys (100 in the code)
  MaxNotices      \* bound on the NOTIFYs of a catalog change

None == "none"

ASSUME CatalogAssumption ==
  /\ DeviceOf \in [Channels -> CatDevices] /\ IsFiniteSet(Channels)
  /\ MsgCap \in Nat \ {0} /\ CreateCap \in Nat \ {0} /\ MaxNotices \in Nat
  /\ None \notin CatDevices \cup Queriers

VARIABLES
  \* the calls of QueryCatalog and the channel each waits on
  query,          \* [Queriers -> [pc, dev]]; "woken": the channel holds a token
  \* the network
  air,            \* channels whose item is on its way to the server
  notices,        \* NOTIFYs sent so far
  \* the collector
  msgs,           \* c.msg: items with the total their message states
  created,        \* c.createCh: keys of collections to begin
  content,        \* c.data: the collections in progress, by device
  observers,      \* o.data: the waiters that are registered
  notifying,      \* the device Notify is called for, or None
  calling,        \* the observer whose function Notify has loaded, or None
  crashed,        \* the process ended: a send on a closed channel
  \* the database
  online          \* channels whose row says online

netVars == <<air, notices>>
collVars == <<msgs, created, content, observers, notifying, calling, crashed>>
catVars == <<query, netVars, collVars, online>>

ChannelsOf(d) == {c \in Channels : DeviceOf[c] = d}
DataSet(s) == {s[i] : i \in DOMAIN s}
NewCollection == [data |-> <<>>, total |-> 0, idle |-> FALSE, mixed |-> FALSE]

CatInit ==
  /\ query = [q \in Queriers |-> [pc |-> "idle", dev |-> None]]
  /\ air = {} /\ notices = 0
  /\ msgs = <<>> /\ created = <<>> /\ observers = {}
  /\ content = [d \in {} |-> NewCollection]
  /\ notifying = None /\ calling = None /\ crashed = FALSE
  /\ online = Channels

----------------------------------------------------------------------------
(* QueryCatalog: send, create the collection, register and wait. *)

Goto(q, pc) == query' = [query EXCEPT ![q].pc = pc]

\* The request goes out before the collector knows of it.  A call that finds
\* the device offline, or cannot send, changes nothing.
SendQuery(q) ==
  /\ query[q].pc = "idle"
  /\ \E d \in CatDevices :
       /\ query' = [query EXCEPT ![q] = [pc |-> "run", dev |-> d]]
       /\ air' = air \cup ChannelsOf(d)
  /\ UNCHANGED <<notices, collVars, online>>

\* A full queue of keys drops the key, and the call still waits.
Run(q) ==
  /\ query[q].pc = "run"
  /\ created' = IF Len(created) < CreateCap THEN Append(created, query[q].dev) ELSE created
  /\ Goto(q, "register")
  /\ UNCHANGED <<netVars, msgs, content, observers, notifying, calling, crashed, online>>

Register(q) ==
  /\ query[q].pc = "register"
  /\ observers' = observers \cup {q}
  /\ Goto(q, "wait")
  /\ UNCHANGED <<netVars, msgs, created, content, notifying, calling, crashed, online>>

Woken(q) ==
  /\ query[q].pc = "woken"
  /\ Goto(q, "done")
  /\ UNCHANGED <<netVars, collVars, online>>

\* Mutant: the observer stays when its timer fires.
MutWaitTimeout(q) ==
  /\ query[q].pc \in {"wait", "woken"}
  /\ Goto(q, "done")
  /\ UNCHANGED <<netVars, collVars, online>>

\* The timer deletes the observer; returning closes the channel.
WaitTimeout(q) ==
  /\ query[q].pc \in {"wait", "woken"}
  /\ observers' = observers \ {q}
  /\ Goto(q, "done")
  /\ UNCHANGED <<netVars, msgs, created, content, notifying, calling, crashed, online>>

----------------------------------------------------------------------------
(* The handlers: every item of a catalog message is written to the queue. *)

Item(c, total, event) == [chan |-> c, total |-> total, event |-> event]

Write(item) ==
  /\ Len(msgs) < MsgCap
  /\ msgs' = Append(msgs, item)
  /\ UNCHANGED <<created, content, observers, notifying, calling, crashed>>

\* An item may stay on its way: the device repeats a message it holds for lost.
ItemArrives(c) ==
  /\ c \in air
  /\ air' \in {air, air \ {c}}
  /\ Write(Item(c, Cardinality(ChannelsOf(DeviceOf[c])), FALSE))
  /\ UNCHANGED <<notices, query, online>>

ItemLost(c) ==
  /\ c \in air /\ air' = air \ {c}
  /\ UNCHANGED <<notices, query, collVars, online>>

\* A NOTIFY of one changed channel takes the same way, and states a total of 1.
NoticeArrives(c) ==
  /\ notices < MaxNotices
  /\ notices' = notices + 1
  /\ Write(Item(c, 1, TRUE))
  /\ UNCHANGED <<air, query, online>>

----------------------------------------------------------------------------
(* The collector: a select over the ticker, the keys and the items. *)

Selecting == notifying = None

With(d, coll) ==
  [e \in DOMAIN content \cup {d} |-> IF e = d THEN coll ELSE content[e]]

\* A key begins a collection, and replaces the one in progress.
Create ==
  /\ Selecting /\ created # <<>>
  /\ content' = With(Head(created), NewCollection)
  /\ created' = Tail(created)
  /\ UNCHANGED <<msgs, observers, notifying, calling, crashed, query, netVars, online>>

\* Mutant: a repeated item is counted again.
MutRepeats(coll, item) == FALSE

Repeats(coll, item) == item.chan \in DataSet(coll.data)

Added(coll, item) ==
  [data |-> Append(coll.data, item.chan), total |-> item.total, idle |-> FALSE,
   mixed |-> coll.mixed \/ item.event]

Receive ==
  /\ Selecting /\ msgs # <<>>
  /\ LET item == Head(msgs)
         d == DeviceOf[item.chan]
     IN  content' = IF d \notin DOMAIN content \/ Repeats(content[d], item) THEN content
                    ELSE With(d, Added(content[d], item))
  /\ msgs' = Tail(msgs)
  /\ UNCHANGED <<created, observers, notifying, calling, crashed, query, netVars, online>>

Without(d) == [e \in DOMAIN content \ {d} |-> content[e]]

\* Mutant: a collection that is not complete waits for the rest.
MutExpired(coll) == FALSE

Expired(coll) == coll.idle
Complete(coll) == coll.total > 0 /\ Len(coll.data) >= coll.total

\* SaveChannels: what was reported is online, what is missing goes offline.
SavedRows(d, data) ==
  IF data = {} THEN online ELSE (online \ ChannelsOf(d)) \cup data

\* The ticker saves the list of d, deletes it, and turns to the observers.
Tick(d) ==
  /\ Selecting /\ d \in DOMAIN content
  /\ Expired(content[d]) \/ Complete(content[d])
  /\ online' = SavedRows(d, DataSet(content[d].data))
  /\ content' = Without(d)
  /\ notifying' = d
  /\ UNCHANGED <<msgs, created, observers, calling, crashed, query, netVars>>

TimePasses(d) ==
  /\ d \in DOMAIN content /\ ~content[d].idle
  /\ content' = With(d, [content[d] EXCEPT !.idle = TRUE])
  /\ UNCHANGED <<msgs, created, observers, notifying, calling, crashed, query, netVars, online>>

----------------------------------------------------------------------------
(* Notify: a Range over the observers, each loaded, called and deleted. *)

Waiting(q) == q \in observers /\ query[q].dev = notifying

LoadObserver(q) ==
  /\ notifying # None /\ calling = None /\ Waiting(q)
  /\ calling' = q
  /\ UNCHANGED <<msgs, created, content, observers, notifying, crashed, query, netVars, online>>

\* The function sends on the waiter's channel, which a timeout may have closed.
CallObserver ==
  /\ calling # None
  /\ IF query[calling].pc = "done"
     THEN crashed' = TRUE /\ UNCHANGED <<query, observers>>
     ELSE /\ Goto(calling, "woken")
          /\ observers' = observers \ {calling}
          /\ UNCHANGED crashed
  /\ calling' = None
  /\ UNCHANGED <<msgs, created, content, notifying, netVars, online>>

NotifyDone ==
  /\ notifying # None /\ calling = None
  /\ \A q \in Queriers : ~Waiting(q)
  /\ notifying' = None
  /\ UNCHANGED <<msgs, created, content, observers, calling, crashed, query, netVars, online>>

----------------------------------------------------------------------------
Collect == Create \/ Receive \/ CallObserver \/ NotifyDone
             \/ \E q \in Queriers : LoadObserver(q)

CatNext ==
  /\ ~crashed
  /\ \/ \E q \in Queriers : \/ SendQuery(q) \/ Run(q)
                            \/ Register(q) \/ Woken(q) \/ WaitTimeout(q)
     \/ \E c \in Channels : ItemArrives(c) \/ ItemLost(c) \/ NoticeArrives(c)
     \/ \E d \in CatDevices : Tick(d) \/ TimePasses(d)
     \/ Collect

CatSpec == CatInit /\ [][CatNext]_catVars

----------------------------------------------------------------------------
Collection == [data : Seq(Channels), total : Nat, idle : BOOLEAN, mixed : BOOLEAN]

\* The state of the collection keeps its types.
CatTypeOK ==
  /\ query \in [Queriers -> [pc : {"idle", "run", "register", "wait", "woken", "done"},
                             dev : CatDevices \cup {None}]]
  /\ observers \subseteq Queriers
  /\ air \subseteq Channels /\ notices \in 0..MaxNotices
  /\ msgs \in Seq([chan : Channels, total : Nat, event : BOOLEAN]) /\ Len(msgs) <= MsgCap
  /\ created \in Seq(CatDevices) /\ Len(created) <= CreateCap
  /\ DOMAIN content \subseteq CatDevices /\ \A d \in DOMAIN content : content[d] \in Collection
  /\ notifying \in CatDevices \cup {None} /\ calling \in Queriers \cup {None}
  /\ crashed \in BOOLEAN
  /\ online \subseteq Channels

\* A list is saved for a device only with channels of that device, each once;
\* and one that is saved as complete, with no NOTIFY mixed in, holds every
\* channel and takes none offline, whatever was repeated, reordered, or left
\* over from an earlier query (collector.go, Start; protocol.go, SaveChannels).
CatSavedWhole ==
  [][\A d \in DOMAIN content \ DOMAIN content' :
       LET list == DataSet(content[d].data)
       IN  /\ list \subseteq ChannelsOf(d) /\ Cardinality(list) = Len(content[d].data)
           /\ content[d].idle \/ content[d].mixed \/ ChannelsOf(d) = list \cap online']_catVars

\* The process goes on after a Notify unless a waiter gave up while the
\* collector was about to wake it: no observer is left registered by a call
\* that has returned, so a later Notify never meets a closed channel (obs.go).
CatObserversWait ==
  \A q \in observers : query[q].pc = "wait"

\* Every collection ends, with items lost or repeated and queries that replace
\* it, as long as the process runs (the 10 s of collector.go, Start).
CatCollectionEnds ==
  \A d \in CatDevices : d \in DOMAIN content ~> (d \notin DOMAIN content \/ crashed)
=============================================================================
