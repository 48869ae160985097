----------------------------- MODULE RecordQuery -----------------------------
(***************************************************************************)
(* The recordings of a channel (pkg/gbs/record.go): QueryRecordList keeps a *)
(* list under the channel and a random serial number, the device answers in *)
(* messages, and each one is a goroutine that loads the list, adds its      *)
(* items under the list's mutex and stores the list again.  The caller      *)
(* takes the whole answer, or at a timeout what there is, merged and cut    *)
(* into days.                                                              *)
(*                                                                         *)
(* One channel: its ID is part of the key.  An answer that names the device *)
(* instead finds no list, under neither ID, and is as good as lost.  Times  *)
(* are small numbers, and Day of them make a day.                          *)
(***************************************************************************)
EXTENDS Naturals, FiniteSets, Sequences

CONSTANTS
  Queries,     \* calls of QueryRecordList
  Handlers,    \* goroutines of the device's messages
  SNs,         \* the numbers that are drawn
  Recorded,    \* the recordings of the channel, in the order the device reports them
  Windows,     \* what is asked for
  Day,         \* the length of a day
  MaxRepeats,  \* bound: messages that arrive twice
  Nothing         \* no list, no answer

Segment == [start : Nat, end : Nat]

ASSUME RecordAssumption ==
  /\ Day \in Nat \ {0}
  /\ MaxRepeats \in Nat
  /\ Recorded \in Seq(Segment)
  /\ \A w \in Windows : w \in Segment /\ w.start < w.end

VARIABLES
  table,     \* _recordList: the list of each number, or Nothing
  wire,      \* messages of the device on their way
  repeats,   \* messages that arrived twice, so far
  resp,      \* the channel of each query: an answer, or Nothing
  pc, sn, window,   \* each query: where it is, its number, and what it asks for
  held, result,     \* the list it loads at a timeout, and what it returns
  hpc, todo, list,  \* each handler: where it is, its message, and its copy of the list
  repeated, raced   \* queries a message of which came twice, and whose list was sorted
                    \* while they read it

queryVars == <<pc, sn, window, held, result>>
handlerVars == <<hpc, todo, list>>
historyVars == <<repeated, raced>>
recVars == <<table, wire, repeats, resp, queryVars, handlerVars, historyVars>>

-----------------------------------------------------------------------------
(* The timeline: transRecordList.                                          *)

MaxOf(a, b) == IF a > b THEN a ELSE b
MinOf(a, b) == IF a < b THEN a ELSE b

Segments(data) == {data[i] : i \in DOMAIN data}

\* Sequences of these segments, as many as there are; and those in the order of their starts.
Arrangements(data) == [DOMAIN data -> Segments(data)]
InOrder(data) == {s \in Arrangements(data) : \A i \in DOMAIN s : i > 1 => s[i - 1].start <= s[i].start}

\* The segments sorted by start; sort.Slice may leave equal ones in any order.
SortedOf(data) ==
  LET Places(f, m) == {i \in DOMAIN data : f[i] = m}
  IN {s \in InOrder(data) :
        \A m \in Segments(data) : Cardinality(Places(s, m)) = Cardinality(Places(data, m))}

\* A segment that starts where the one before it ends goes on with that one.
Begins(s) == {i \in DOMAIN s : i = 1 \/ s[i].start # s[i - 1].end}

LastOf(s, i) == CHOOSE j \in DOMAIN s :
  i <= j /\ (i + 1)..j \cap Begins(s) = {} /\ (j = Len(s) \/ j + 1 \in Begins(s))

Merged(s, i) == [start |-> s[i].start, end |-> s[LastOf(s, i)].end]

Midnight(k) == k * Day

\* A merged segment within day k, up to the last second of the day or its own end.
Piece(m, k) ==
  [start |-> MaxOf(m.start, Midnight(k)),
   end |-> IF m.end >= Midnight(k + 1) THEN Midnight(k + 1) - 1 ELSE m.end]

\* The answer: one item for each day of each merged segment; run is their order.
Timeline(s) ==
  UNION {{[run |-> i, day |-> k, span |-> Piece(Merged(s, i), k)] :
            k \in (Merged(s, i).start \div Day)..(Merged(s, i).end \div Day)} : i \in Begins(s)}

\* What the merging leaves in the list: the first segment of a run has grown in place.
InPlace(s) == [i \in DOMAIN s |-> IF i \in Begins(s) THEN Merged(s, i) ELSE s[i]]

-----------------------------------------------------------------------------
(* Lists and messages.                                                     *)

\* An item, cut to the window.
Clip(m, w) == [start |-> MaxOf(m.start, w.start), end |-> MinOf(m.end, w.end)]

\* Mutant: an item of which nothing is left counts.
MutProper(m) == TRUE

Proper(m) == m.start < m.end

\* A set of numbers as a sequence that rises.
Rising(S) == CHOOSE f \in [1..Cardinality(S) -> S] : \A i, j \in DOMAIN f : i < j => f[i] < f[j]

\* The items of a message, by their places in Recorded, as far as the window has them.
Kept(items, w) ==
  LET places == Rising({i \in items : Proper(Clip(Recorded[i], w))})
  IN [k \in DOMAIN places |-> Clip(Recorded[places[k]], w)]

\* What the device has for a window: the recordings that meet it.
Within(w) == {i \in DOMAIN Recorded : Recorded[i].start <= w.end /\ Recorded[i].end >= w.start}

\* A message of the answer to a query; total is its SumNum.
Message(q, n, items, total) == [query |-> q, sn |-> n, items |-> items, total |-> total]

Messages ==
  [query : Queries, sn : SNs, items : SUBSET DOMAIN Recorded, total : 0..Len(Recorded)]

\* A list: its query's channel, mutex and window, the items it got and what it keeps.
List(q) == [owner |-> q, num |-> 0, data |-> <<>>]

\* Mutant: the last item is not waited for.
MutAllArrived(num, total) == num + 1 >= total

AllArrived(num, total) == num >= total

\* consumeRecordInfo: the copy of the list, with the items of the message.
Extended(l, m) ==
  [l EXCEPT !.num = l.num + Cardinality(m.items), !.data = l.data \o Kept(m.items, window[l.owner])]

RecInit ==
  /\ table = [n \in SNs |-> Nothing]
  /\ wire = {}
  /\ repeats = 0
  /\ resp = [q \in Queries |-> Nothing]
  /\ pc = [q \in Queries |-> "new"]
  /\ sn \in [Queries -> SNs]
  /\ window \in [Queries -> Windows]
  /\ held = [q \in Queries |-> Nothing]
  /\ result = [q \in Queries |-> Nothing]
  /\ hpc = [h \in Handlers |-> "idle"]
  /\ todo = [h \in Handlers |-> Nothing]
  /\ list = [h \in Handlers |-> Nothing]
  /\ repeated = {}
  /\ raced = {}

-----------------------------------------------------------------------------
(* QueryRecordList.                                                        *)

Move(q, label) == pc' = [pc EXCEPT ![q] = label]

Return(q, r) == result' = [result EXCEPT ![q] = r] /\ Move(q, "leave")

Error == [kind |-> "error", items |-> {}]

\* The list of the query takes the place of one with the same number.
StoreNew(q) ==
  /\ pc[q] = "new"
  /\ table' = [table EXCEPT ![sn[q]] = List(q)]
  /\ Move(q, "send")
  /\ UNCHANGED <<wire, repeats, resp, sn, window, held, result, handlerVars, historyVars>>

\* An answer, of all the recordings that meet the window, comes in one or two messages.
Answers(q) ==
  LET all == Within(window[q])
  IN {{Message(q, sn[q], items, Cardinality(all)) :
         items \in IF all = {} THEN {{}} ELSE {part, all \ part} \ {{}}} : part \in SUBSET all}

\* The query is sent, or not.  Messages of the answer may never arrive.
Send(q) ==
  /\ pc[q] = "send"
  /\ \/ /\ Move(q, "ack")
        /\ \E answer \in Answers(q) : wire' = wire \cup answer
        /\ UNCHANGED result
     \/ Return(q, Error) /\ UNCHANGED wire
  /\ UNCHANGED <<table, repeats, resp, sn, window, held, handlerVars, historyVars>>

\* sipResponse: the device confirms the query, or the call ends.
Acknowledged(q) ==
  /\ pc[q] = "ack"
  /\ \/ Move(q, "wait") /\ UNCHANGED result
     \/ Return(q, Error)
  /\ UNCHANGED <<table, wire, repeats, resp, sn, window, held, handlerVars, historyVars>>

TakeRecords(q) ==
  /\ pc[q] = "wait"
  /\ resp[q] # Nothing
  /\ Return(q, [kind |-> "complete", items |-> resp[q]])
  /\ resp' = [resp EXCEPT ![q] = Nothing]
  /\ UNCHANGED <<table, wire, repeats, sn, window, held, handlerVars, historyVars>>

\* The timer: the list is loaded without its mutex.
Timeout(q) ==
  /\ pc[q] = "wait"
  /\ IF table[sn[q]] = Nothing
       THEN Return(q, Error) /\ UNCHANGED held
       ELSE /\ held' = [held EXCEPT ![q] = table[sn[q]]]
            /\ Move(q, "read")
            /\ UNCHANGED result
  /\ UNCHANGED <<table, wire, repeats, resp, sn, window, handlerVars, historyVars>>

\* The segments of the list; when a handler sorts them in place meanwhile, some may be
\* there more than once and others not at all, in any order.
ReadPartial(q) ==
  /\ pc[q] = "read"
  /\ \E s \in IF q \in raced THEN Arrangements(held[q].data) ELSE SortedOf(held[q].data) :
       Return(q, [kind |-> "partial", items |-> Timeline(s)])
  /\ held' = [held EXCEPT ![q] = Nothing]
  /\ UNCHANGED <<table, wire, repeats, resp, sn, window, handlerVars, historyVars>>

\* The deferred deletion, of whatever list has the number.
Leave(q) ==
  /\ pc[q] = "leave"
  /\ table' = [table EXCEPT ![sn[q]] = Nothing]
  /\ Move(q, "done")
  /\ UNCHANGED <<wire, repeats, resp, sn, window, held, result, handlerVars, historyVars>>

-----------------------------------------------------------------------------
(* sipMessageRecordInfo and consumeRecordInfo.                             *)

\* A message arrives, perhaps not for the last time, and its list is loaded; one that
\* finds no list changes nothing.
LoadList(h, m) ==
  /\ hpc[h] = "idle"
  /\ table[m.sn] # Nothing
  /\ \/ wire' = wire \ {m} /\ UNCHANGED <<repeats, repeated>>
     \/ /\ repeats < MaxRepeats
        /\ repeats' = repeats + 1
        /\ repeated' = repeated \cup {m.query}
        /\ UNCHANGED wire
  /\ hpc' = [hpc EXCEPT ![h] = "loaded"]
  /\ todo' = [todo EXCEPT ![h] = m]
  /\ list' = [list EXCEPT ![h] = table[m.sn]]
  /\ UNCHANGED <<table, resp, queryVars, raced>>

\* The mutex of a list, which its copies share, is free.
Unlocked(l) == \A h \in Handlers : hpc[h] = "store" => list[h].owner # l.owner

\* The items go to the copy.  If it is complete, its segments are sorted in place and
\* the answer is offered, unless there is one in the channel.
AddItems(h) ==
  /\ hpc[h] = "loaded"
  /\ Unlocked(list[h])
  /\ LET l == Extended(list[h], todo[h])
     IN IF AllArrived(l.num, todo[h].total)
          THEN /\ \E s \in SortedOf(l.data) :
                    /\ resp' = [resp EXCEPT ![l.owner] = IF @ = Nothing THEN Timeline(s) ELSE @]
                    /\ list' = [list EXCEPT ![h] = [l EXCEPT !.data = InPlace(s)]]
               /\ raced' = raced \cup {q \in Queries : pc[q] = "read" /\ held[q].owner = l.owner}
          ELSE list' = [list EXCEPT ![h] = l] /\ UNCHANGED <<resp, raced>>
  /\ hpc' = [hpc EXCEPT ![h] = "store"]
  /\ UNCHANGED <<table, wire, repeats, queryVars, todo, repeated>>

\* The copy is the list now, also when the query has deleted it meanwhile.
StoreList(h) ==
  /\ hpc[h] = "store"
  /\ table' = [table EXCEPT ![todo[h].sn] = list[h]]
  /\ hpc' = [hpc EXCEPT ![h] = "idle"]
  /\ todo' = [todo EXCEPT ![h] = Nothing]
  /\ list' = [list EXCEPT ![h] = Nothing]
  /\ UNCHANGED <<wire, repeats, resp, queryVars, historyVars>>

-----------------------------------------------------------------------------

Query(q) == StoreNew(q) \/ Send(q) \/ Acknowledged(q) \/ TakeRecords(q) \/ Timeout(q)
              \/ ReadPartial(q) \/ Leave(q)

HandleMessage(h) == (\E m \in wire : LoadList(h, m)) \/ AddItems(h) \/ StoreList(h)

RecNext == (\E q \in Queries : Query(q)) \/ (\E h \in Handlers : HandleMessage(h))

RecSpec == RecInit /\ [][RecNext]_recVars

-----------------------------------------------------------------------------
(* Properties.                                                             *)

Lists == [owner : Queries, num : Nat, data : Seq({m \in Segment : m.start < m.end})]
Items == [run : Nat, day : Nat, span : Segment]

RecTypeOK ==
  /\ \A n \in SNs : table[n] = Nothing \/ table[n] \in Lists
  /\ wire \subseteq Messages
  /\ repeats \in 0..MaxRepeats
  /\ \A q \in Queries : resp[q] = Nothing \/ resp[q] \subseteq Items
  /\ pc \in [Queries -> {"new", "send", "ack", "wait", "read", "leave", "done"}]
  /\ sn \in [Queries -> SNs]
  /\ window \in [Queries -> Windows]
  /\ \A q \in Queries : IF pc[q] = "read" THEN held[q] \in Lists ELSE held[q] = Nothing
  /\ \A q \in Queries : result[q] = Nothing \/ result[q].kind \in {"complete", "partial", "error"}
  /\ hpc \in [Handlers -> {"idle", "loaded", "store"}]
  /\ \A h \in Handlers : IF hpc[h] = "idle" THEN todo[h] = Nothing /\ list[h] = Nothing
                                             ELSE todo[h] \in Messages /\ list[h] \in Lists
  /\ repeated \subseteq Queries
  /\ raced \subseteq Queries

Covered(spans) == UNION {m.start..m.end : m \in spans}

\* The seconds of the window of a query from recordings that share more than one with it.
Recordings(q) ==
  LET asked == window[q].start..window[q].end
      shared(i) == asked \cap (Recorded[i].start..Recorded[i].end)
  IN {t \in asked : \E i \in DOMAIN Recorded : t \in shared(i) /\ shared(i) # {t}}

Returned(q) == Covered({item.span : item \in result[q].items})

\* No other query has the number.
Alone(q) == \A p \in Queries \ {q} : sn[p] # sn[q]

\* An answer that counts as complete leaves nothing out, however its messages were
\* ordered and whichever handlers overwrote each other's list; only a message that came
\* twice can stand in for one that is missing.
RecCompleteIsWhole ==
  \A q \in Queries \ repeated :
    result[q] # Nothing /\ result[q].kind = "complete" /\ Alone(q) => Returned(q) = Recordings(q)

\* An item lies within its day.
InItsDay(item) ==
  /\ Midnight(item.day) <= item.span.start
  /\ item.span.start <= item.span.end
  /\ item.span.end < Midnight(item.day + 1)

\* Before the first item of a day comes one of every earlier day.
DaysInOrder(items) == \A a, b \in items : a.day < b.day => \E c \in items : c.day = a.day /\ c.run <= b.run

\* A query shows only recordings within its window, each item within its day; also when it
\* reads its list at a timeout while a handler sorts it.  Otherwise the days are in order
\* (QueryRecordList, sipMessageRecordInfo).
RecShownWithin ==
  \A q \in Queries : result[q] # Nothing =>
    /\ Alone(q) => Returned(q) \subseteq Recordings(q)
    /\ \A item \in result[q].items : InItsDay(item)
    /\ q \notin raced => DaysInOrder(result[q].items)

\* What a query returns can be relied on, whole or in part.
RecAnswersSound == RecCompleteIsWhole /\ RecShownWithin
=============================================================================
