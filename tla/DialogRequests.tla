--------------------------- MODULE DialogRequests ---------------------------
(***************************************************************************)
(* The requests inside the dialogs of a channel's history playback: the    *)
(* ACK of a start, the INFO of a control (pause, speed, seek) and the BYE  *)
(* of a stop.  Each is derived from the stored answer to the INVITE, and   *)
(* shares that answer's CSeq header: deriving a request changes the header *)
(* in place, and the text is made from it when the request is sent.       *)
(* Starts and stops hold the device's mutex, controls do not.              *)
(***************************************************************************)
EXTENDS Naturals, Sequences

CONSTANTS
  Actors,         \* the goroutines that start, stop and control
  NoActor,         \* the mutex is free
  MaxStarts,      \* bound on the starts, and so on objects and dialogs
  MaxCalls        \* bound on the calls

ASSUME HistoryAssumption == NoActor \notin Actors /\ MaxStarts \in Nat /\ MaxCalls \in Nat

VARIABLES
  holder,         \* who holds the device's playMutex
  mapped,         \* g.streams: the Streams object under the history's key, or 0
  answer,         \* Streams.Resp: object -> dialog whose 200 it holds, or 0
  controls,       \* Streams.CseqNo: object -> number of its newest command
  header,         \* the CSeq header in the 200 of each dialog
  begun,          \* starts so far
  calls,          \* calls so far
  actor,          \* each actor: [pc, op, line, obj, dlg, no, cmd]
  log,           \* each dialog: the requests sent, [line, method, no, cmd]
  mixed           \* dialogs with two requests in the making, or one begun for another dialog

requestVars == <<holder, mapped, answer, controls, header, begun, calls, actor, log, mixed>>

Dialogs == 1..MaxStarts
InviteNo == 1     \* NewHeaderBuilder
Idle == [pc |-> "idle", op |-> "none", line |-> "none", obj |-> 0, dlg |-> 0, no |-> 0, cmd |-> 0]

HistoryInit ==
  /\ holder = NoActor
  /\ mapped = 0
  /\ answer = [o \in Dialogs |-> 0]
  /\ controls = [o \in Dialogs |-> 0]
  /\ header = [d \in Dialogs |-> [method |-> "INVITE", no |-> InviteNo]]
  /\ begun = 0
  /\ calls = 0
  /\ actor = [a \in Actors |-> Idle]
  /\ log = [d \in Dialogs |-> <<>>]
  /\ mixed = {}

----------------------------------------------------------------------------
ActorAt(a, pc) == actor[a].pc = pc
Counted == calls < MaxCalls /\ calls' = calls + 1

\* `a` begins to make a request in dialog d, perhaps beside another that does.
BeginsIn(d, a) ==
  mixed' = mixed \cup {e \in {d} : \E b \in Actors \ {a} : actor[b].dlg = e /\ e # 0}

\* A section of the mutex begins, with or without a BYE to make, or ends.
Section(a, op, next) ==
  /\ ActorAt(a, "idle") /\ holder = NoActor /\ Counted
  /\ actor' = [actor EXCEPT ![a] = [next EXCEPT !.op = op]]
  /\ holder' = a

\* stopHistoryNoLock: the object leaves the map; with an answer in it, a BYE is made.
Bye(o) == IF o = 0 \/ answer[o] = 0 THEN Idle
          ELSE [Idle EXCEPT !.pc = "method", !.line = "BYE", !.obj = o, !.dlg = answer[o]]

(* StartHistory: a new object goes into the map.  One that is there leaves it,  *)
(* is written to all the same, and the map stays empty.                         *)
StartFresh(a) ==
  /\ mapped = 0 /\ begun < MaxStarts
  /\ Section(a, "start", [Idle EXCEPT !.pc = "invite", !.obj = begun + 1])
  /\ begun' = begun + 1 /\ mapped' = begun + 1
  /\ UNCHANGED <<answer, controls, header, log, mixed>>

StartOver(a) ==
  /\ mapped # 0 /\ begun < MaxStarts
  /\ LET bye == Bye(mapped)
     IN  /\ Section(a, "start", IF bye = Idle THEN [Idle EXCEPT !.pc = "invite", !.obj = mapped] ELSE bye)
         /\ BeginsIn(bye.dlg, a)
  /\ begun' = begun + 1 /\ mapped' = 0
  /\ UNCHANGED <<answer, controls, header, log>>

\* The media server opens no port, or the device does not accept.
StartFails(a) ==
  /\ ActorAt(a, "invite")
  /\ actor' = [actor EXCEPT ![a] = Idle]
  /\ holder' = NoActor
  /\ UNCHANGED <<mapped, answer, controls, header, begun, calls, log, mixed>>

\* sipInviteHistory: the 200 is stored, and seen by controls, before the ACK is made.
Accepted(a) ==
  /\ ActorAt(a, "invite")
  /\ answer' = [answer EXCEPT ![actor[a].obj] = begun]
  /\ actor' = [actor EXCEPT ![a].pc = "method", ![a].line = "ACK", ![a].dlg = begun]
  /\ BeginsIn(begun, a)
  /\ UNCHANGED <<holder, mapped, controls, header, begun, calls, log>>

(* StopHistory. *)
Stop(a) ==
  /\ mapped # 0 /\ answer[mapped] # 0
  /\ Section(a, "stop", Bye(mapped))
  /\ BeginsIn(answer[mapped], a)
  /\ mapped' = 0
  /\ UNCHANGED <<answer, controls, header, begun, log>>

StopUnanswered(a) ==
  /\ ActorAt(a, "idle") /\ holder = NoActor /\ Counted
  /\ mapped # 0 /\ answer[mapped] = 0
  /\ mapped' = 0
  /\ UNCHANGED <<holder, answer, controls, header, begun, actor, log, mixed>>

(* ControlHistory, with the text of a command, or with an action that is counted. *)
Control(a) ==
  /\ ActorAt(a, "idle") /\ Counted
  /\ mapped # 0 /\ answer[mapped] # 0
  /\ \E pc \in {"method", "count"} :
       actor' = [actor EXCEPT ![a] = [Idle EXCEPT !.pc = pc, !.op = "control", !.line = "INFO",
                                                  !.obj = mapped, !.dlg = answer[mapped]]]
  /\ BeginsIn(answer[mapped], a)
  /\ UNCHANGED <<holder, mapped, answer, controls, header, begun, log>>

\* buildHistoryControlCmd: CseqNo++ is a load and a store.
CountLoads(a) ==
  /\ ActorAt(a, "count")
  /\ actor' = [actor EXCEPT ![a].pc = "counted", ![a].cmd = controls[actor[a].obj] + 1]
  /\ UNCHANGED <<holder, mapped, answer, controls, header, begun, calls, log, mixed>>

\* The action may turn out to be unknown, or to lack its scale or time.
CountStores(a) ==
  /\ ActorAt(a, "counted")
  /\ controls' = [controls EXCEPT ![actor[a].obj] = actor[a].cmd]
  /\ \E after \in {[actor[a] EXCEPT !.pc = "method"], Idle} : actor' = [actor EXCEPT ![a] = after]
  /\ UNCHANGED <<holder, mapped, answer, header, begun, calls, log, mixed>>

----------------------------------------------------------------------------
(* NewRequestFromResponse and the sending of its text. *)

\* Mutant: an ACK is given a number, too.
MutNumbered(line) == TRUE

Numbered(line) == line # "ACK"

\* The header of the answer that the object holds now: another dialog's, when a start came between.
SetMethod(a) ==
  /\ ActorAt(a, "method")
  /\ LET d == IF actor[a].op = "control" THEN answer[actor[a].obj] ELSE actor[a].dlg
     IN  /\ header' = [header EXCEPT ![d].method = actor[a].line]
         /\ actor' = [actor EXCEPT ![a].pc = IF Numbered(actor[a].line) THEN "load" ELSE "send", ![a].dlg = d]
         /\ IF d = actor[a].dlg THEN UNCHANGED mixed ELSE mixed' = mixed \cup {d}
  /\ UNCHANGED <<holder, mapped, answer, controls, begun, calls, log>>

\* SeqNo++ is a load and a store, too.
LoadNo(a) ==
  /\ ActorAt(a, "load")
  /\ actor' = [actor EXCEPT ![a].pc = "store", ![a].no = header[actor[a].dlg].no]
  /\ UNCHANGED <<holder, mapped, answer, controls, header, begun, calls, log, mixed>>

StoreNo(a) ==
  /\ ActorAt(a, "store")
  /\ header' = [header EXCEPT ![actor[a].dlg].no = actor[a].no + 1]
  /\ actor' = [actor EXCEPT ![a].pc = "send"]
  /\ UNCHANGED <<holder, mapped, answer, controls, begun, calls, log, mixed>>

\* What follows a request: a start goes on after the BYE of its predecessor.
Follows(a) ==
  IF actor[a].op = "start" /\ actor[a].line = "BYE"
  THEN [Idle EXCEPT !.pc = "invite", !.op = "start", !.obj = actor[a].obj]
  ELSE Idle
EndsSection(a) == holder' = IF holder = a /\ Follows(a) = Idle THEN NoActor ELSE holder

\* The connection may be gone: the request fails, and keeps its number.
SendText(a) ==
  /\ ActorAt(a, "send")
  /\ \/ log' = [log EXCEPT ![actor[a].dlg] = Append(@,
          [line |-> actor[a].line, method |-> header[actor[a].dlg].method,
           no |-> header[actor[a].dlg].no, cmd |-> actor[a].cmd])]
     \/ UNCHANGED log
  /\ actor' = [actor EXCEPT ![a] = Follows(a)]
  /\ EndsSection(a)
  /\ UNCHANGED <<mapped, answer, controls, header, begun, calls, mixed>>

----------------------------------------------------------------------------
HistoryNext ==
  \E a \in Actors :
    \/ StartFresh(a) \/ StartOver(a) \/ StartFails(a) \/ Accepted(a)
    \/ Stop(a) \/ StopUnanswered(a)
    \/ Control(a) \/ CountLoads(a) \/ CountStores(a)
    \/ SetMethod(a) \/ LoadNo(a) \/ StoreNo(a) \/ SendText(a)

HistorySpec == HistoryInit /\ [][HistoryNext]_requestVars

----------------------------------------------------------------------------
\* The actors, the objects, the headers and the requests sent keep their types.
Lines == {"ACK", "INFO", "BYE"}
HistoryTypeOK ==
  /\ holder \in Actors \cup {NoActor}
  /\ mapped \in 0..begun /\ begun \in 0..MaxStarts /\ calls \in 0..MaxCalls
  /\ answer \in [Dialogs -> 0..begun]
  /\ controls \in [Dialogs -> 0..MaxCalls]
  /\ header \in [Dialogs -> [method : Lines \cup {"INVITE"}, no : 1..MaxCalls + 1]]
  /\ \A a \in Actors :
       /\ actor[a].pc \in {"idle", "invite", "count", "counted", "method", "load", "store", "send"}
       /\ actor[a].pc \in {"method", "load", "store", "send"} => actor[a].line \in Lines
       /\ {actor[a].obj, actor[a].dlg} \subseteq 0..begun
       /\ holder = a <=> actor[a].op \in {"start", "stop"}
  /\ \A d \in Dialogs : Len(log[d]) <= 2 * MaxCalls
  /\ mixed \subseteq Dialogs

\* While its requests are made one at a time, a dialog numbers them well, over
\* starts, failures and stops: each names its own method in its CSeq, the ACK has
\* the INVITE's number, and later requests, and later commands, a higher one
\* (request.go, NewRequestFromResponse; history.go, buildHistoryControlCmd).
HistoryNumbered ==
  \A d \in Dialogs \ mixed : \A i, j \in 1..Len(log[d]) :
    LET r == log[d][i]
        s == log[d][j]
    IN  /\ r.method = r.line /\ (r.line = "ACK" => r.no = InviteNo)
        /\ i < j /\ s.line # "ACK" => r.no < s.no
        /\ i < j /\ r.cmd # 0 /\ s.cmd # 0 => r.cmd < s.cmd

\* "Requests within a dialog MUST contain strictly monotonically increasing and
\* contiguous CSeq sequence numbers ... excepting ACK" (request.go:91), for all.
HistoryStrictlyRise ==
  \A d \in Dialogs : \A i, j \in 1..Len(log[d]) :
    i < j /\ "ACK" \notin {log[d][i].line, log[d][j].line} => log[d][i].no < log[d][j].no
=============================================================================
