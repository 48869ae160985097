---------------------------- MODULE QueryStates -----------------------------
(***************************************************************************)
(* What the server knows of one device from its messages: a structure with *)
(* one field per kind of answer and a list of the objects of appendix A.4, *)
(* in memory, and that list in the device's row.  Every message has a      *)
(* handler of its own, which loads the structure, and later stores a copy  *)
(* of it with one field changed: no lock spans the two.                    *)
(*                                                                         *)
(* A field holds the message it comes from; an answer without its data is  *)
(* stored as well, as an empty field, for the nil that the decoder returns *)
(* is not the nil that the caller tests for.                               *)
(***************************************************************************)
EXTENDS Naturals, Sequences, FiniteSets, FiniteSetsExt

CONSTANTS
  MaxMessages,    \* bound on the messages of the device
  Sections,       \* the fields: DeviceStatus, Presets, DeviceConfig...
  StatusSection,  \* the one that also sets the device online or offline
  Contents,       \* what each may carry: a set of [section, body]; the body is a set of
                  \* elements, an element the set of the objects it may be read as
  MemCap, RowCap, \* objects kept in memory (128) and in the row (256)
  MaxSeconds      \* bound on the clock

Nobody == 0
NoSection == "nosection"
Arrivals == 1..MaxMessages      \* in the order in which they arrive

ASSUME QueryStateAssumption ==
  /\ MaxMessages \in Nat /\ StatusSection \in Sections /\ NoSection \notin Sections
  /\ MemCap \in Nat \ {0} /\ RowCap \in Nat \ {0} /\ MaxSeconds \in Nat
  /\ \A m \in Arrivals : \A c \in Contents[m] :
       c.section \in Sections \cup {NoSection} /\ IsFiniteSet(c.body)

VARIABLES
  state,          \* queryStates: [field, a4]; the last message of each field, the objects
  row,            \* Ext.GBAppendixA4 of the device's row
  isOnline,       \* the message that last set IsOnline, of row and object
  seconds,        \* time.Now().Unix()
  handler,        \* each message: [pc, section, body, todo, objs, copy]
  alone, before,  \* history: no other handler ran meanwhile; done when it arrived
  persisted,      \* history: the objects written to the row
  applied         \* history: the messages that set IsOnline

stateVars == <<state, row, isOnline, seconds, handler, alone, before, persisted, applied>>

\* Objects are told apart by their key: type, command, path and fields; of those of
\* one message with the same key one remains.
A4Objects == UNION UNION {c.body : c \in UNION {Contents[m] : m \in Arrivals}}
Stamped == [obj : A4Objects, at : 0..MaxSeconds]
NoState == [field |-> [s \in Sections |-> Nobody], a4 |-> {}]
Unread == [pc |-> "unsent", section |-> NoSection, body |-> {}, todo |-> <<>>,
           objs |-> {}, copy |-> NoState]

QsInit ==
  /\ state = NoState /\ row = {} /\ isOnline = Nobody /\ seconds = 0
  /\ handler = [m \in Arrivals |-> Unread]
  /\ alone = [m \in Arrivals |-> TRUE] /\ before = [m \in Arrivals |-> {}]
  /\ persisted = {} /\ applied = {}

----------------------------------------------------------------------------
(* mergeAppendixA4Objects *)

Times(base, x) == {b.at : b \in {y \in base : y.obj = x}}

\* An object that is known with a later time keeps that time.
Newer(base, o) == [o EXCEPT !.at = Max({@} \cup Times(base, o.obj))]

\* The newest ones, as many as are kept; of those of one second, any.
Merges(base, inc, cap) ==
  LET all == {Newer(base, o) : o \in inc} \cup {b \in base : \A o \in inc : o.obj # b.obj}
  IN {s \in SUBSET all : /\ Cardinality(s) = Min({cap, Cardinality(all)})
                         /\ \A x \in s, y \in all \ s : x.at >= y.at}

----------------------------------------------------------------------------
Running(m) == handler[m].pc \notin {"unsent", "done"}
AtPc(m, pc) == handler[m].pc = pc
NextStore(m) == Head(handler[m].todo)
Goes(m, pc) == handler' = [handler EXCEPT ![m].pc = pc]
\* The store just made is over; after the last one the handler ends.
Over(m) == [handler[m] EXCEPT !.pc = IF Len(handler[m].todo) = 1 THEN "done" ELSE "next",
                              !.todo = Tail(@), !.copy = NoState]

\* An answer to a query comes with its objects first, one to a configuration
\* command with its field; an alarm has no field, a heartbeat no objects.  An
\* answer that somebody waits for is stored twice, as two messages would be.
Plans(s) ==
  IF s = NoSection THEN {<<"a4">>}
  ELSE {<<"a4", "section">>, IF s = StatusSection THEN <<"section">> ELSE <<"section", "a4">>}

\* Without an object the store of the objects is skipped.
Stores(plan, body) ==
  IF body # {} THEN plan ELSE IF "section" \in Range(plan) THEN <<"section">> ELSE <<>>

(* A message arrives and gets its handler. *)
MessageArrives(m, c) ==
  /\ AtPc(m, "unsent") /\ \A x \in 1..(m - 1) : ~AtPc(x, "unsent")
  /\ \E plan \in Plans(c.section) :
       LET todo == Stores(plan, c.body)
       IN handler' = [handler EXCEPT ![m] =
            [@ EXCEPT !.pc = IF todo = <<>> THEN "done" ELSE "next",
                      !.section = c.section, !.todo = todo, !.body = c.body]]
  /\ alone' = [x \in Arrivals |->
       IF x = m THEN ~\E y \in Arrivals : Running(y) ELSE alone[x] /\ ~Running(x)]
  /\ before' = [before EXCEPT ![m] = {x \in Arrivals : AtPc(x, "done")}]
  /\ UNCHANGED <<state, row, isOnline, seconds, persisted, applied>>

\* An element named like a type is one object; the text of an extension that names
\* several types is taken for the one that the iteration over the map of types meets first.
Readings(body) == {read \in [body -> A4Objects] : \A e \in body : read[e] \in e}

(* decodeAppendixA4Objects: the objects bear the time of the reading. *)
Decode(m) ==
  /\ AtPc(m, "next") /\ NextStore(m) = "a4"
  /\ \E read \in Readings(handler[m].body) :
       handler' = [handler EXCEPT ![m].pc = "load",
         ![m].objs = {[obj |-> read[e], at |-> seconds] : e \in handler[m].body}]
  /\ UNCHANGED <<state, row, isOnline, seconds, alone, before, persisted, applied>>

\* Mutant: the field is set in a new structure, not in a copy of the old one.
MutCopied == NoState

\* *state = *old
Copied == state

LoadState(m) ==
  /\ \/ AtPc(m, "load")
     \/ AtPc(m, "next") /\ NextStore(m) = "section"
  /\ handler' = [handler EXCEPT ![m].copy = Copied,
       ![m].pc = IF NextStore(m) = "section" /\ handler[m].section = StatusSection
                   THEN "apply" ELSE "store"]
  /\ UNCHANGED <<state, row, isOnline, seconds, alone, before, persisted, applied>>

\* applyDeviceStatus, within the change; an error is ignored.
ApplyStatus(m) ==
  /\ AtPc(m, "apply")
  /\ \/ isOnline' = m /\ applied' = applied \cup {m}
     \/ UNCHANGED <<isOnline, applied>>
  /\ Goes(m, "store")
  /\ UNCHANGED <<state, row, seconds, alone, before, persisted>>

\* The structure with the field of m's answer as its decoder leaves it, empty or not.
FieldFrom(known, m) == [known EXCEPT !.field[handler[m].section] = m]

StoreSection(m) ==
  /\ AtPc(m, "store") /\ NextStore(m) = "section"
  /\ state' = FieldFrom(handler[m].copy, m)
  /\ handler' = [handler EXCEPT ![m] = Over(m)]
  /\ UNCHANGED <<row, isOnline, seconds, alone, before, persisted, applied>>

StoreA4(m) ==
  /\ AtPc(m, "store") /\ NextStore(m) = "a4"
  /\ \E kept \in Merges(handler[m].copy.a4, handler[m].objs, MemCap) :
       state' = [handler[m].copy EXCEPT !.a4 = kept]
  /\ Goes(m, "persist")
  /\ UNCHANGED <<row, isOnline, seconds, alone, before, persisted, applied>>

\* One transaction reads, merges and writes the row.
Persist(m) ==
  /\ AtPc(m, "persist")
  /\ row' \in Merges(row, handler[m].objs, RowCap)
  /\ persisted' = persisted \cup handler[m].objs
  /\ handler' = [handler EXCEPT ![m] = Over(m)]
  /\ UNCHANGED <<state, isOnline, seconds, alone, before, applied>>

\* The device's row is gone, or the statement fails: a warning.
PersistFails(m) ==
  /\ AtPc(m, "persist")
  /\ handler' = [handler EXCEPT ![m] = Over(m)]
  /\ UNCHANGED <<state, row, isOnline, seconds, alone, before, persisted, applied>>

SecondPasses ==
  /\ seconds < MaxSeconds /\ seconds' = seconds + 1
  /\ UNCHANGED <<state, row, isOnline, handler, alone, before, persisted, applied>>

QsNext ==
  \/ \E m \in Arrivals : \E c \in Contents[m] : MessageArrives(m, c)
  \/ \E m \in Arrivals :
       \/ Decode(m) \/ LoadState(m) \/ ApplyStatus(m) \/ StoreSection(m)
       \/ StoreA4(m) \/ Persist(m) \/ PersistFails(m)
  \/ SecondPasses

QsSpec == QsInit /\ [][QsNext]_stateVars

----------------------------------------------------------------------------
\* The structure, the row and the handlers keep their types.
QsTypeOK ==
  LET structures == [field : [Sections -> Arrivals \cup {Nobody}], a4 : SUBSET Stamped]
  IN /\ state \in structures /\ row \subseteq Stamped
     /\ isOnline \in Arrivals \cup {Nobody} /\ seconds \in 0..MaxSeconds
     /\ \A m \in Arrivals :
          /\ handler[m].pc \in {"unsent", "next", "load", "apply", "store", "persist", "done"}
          /\ handler[m].section \in Sections \cup {NoSection} /\ handler[m].body \subseteq SUBSET A4Objects
          /\ handler[m].objs \subseteq Stamped /\ handler[m].copy \in structures
          /\ alone[m] \in BOOLEAN /\ before[m] \subseteq Arrivals
     /\ persisted \subseteq Stamped /\ applied \subseteq Arrivals

\* The object is listed with its time or a later one, or others as new took the room.
Keeps(list, o, cap) ==
  \/ \E x \in list : x.obj = o.obj /\ x.at >= o.at
  \/ Cardinality(list) = cap /\ \A x \in list : x.at >= o.at

\* Whatever order the handlers write in, the row keeps the newest time of every
\* object written, and gives one up only to as many newer ones as it holds
\* (mergeAppendixA4Objects, persistAppendixA4Objects).
QsRowKeepsNewest == \A o \in persisted : Keeps(row, o, RowCap)

\* The answer of a message whose handler overlapped with no other is still there,
\* in its field, in IsOnline and in the list of objects, until a later message replaces it: no
\* handler brings back what was known before (the copy in storeQueryState,
\* storeDeviceConfigState and storeAppendixA4State).
QsLoneUpdateLasts ==
  \A m \in {x \in Arrivals : AtPc(x, "done") /\ alone[x]} :
    /\ handler[m].section # NoSection =>
         state.field[handler[m].section] \notin before[m] \cup {Nobody}
    /\ m \in applied => isOnline \notin before[m] \cup {Nobody}
    /\ \A o \in handler[m].objs : Keeps(state.a4, o, MemCap)

\* What a device said last remains, in memory and in the row.
QsLastRemains == QsRowKeepsNewest /\ QsLoneUpdateLasts
=============================================================================
