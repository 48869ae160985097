--------------------------- MODULE InboundDialogs ---------------------------
(***************************************************************************)
(* The server as the called side of an INVITE: a table of dialogs by       *)
(* Call-ID, changed by the handlers of INVITE, ACK and BYE, each request   *)
(* in a goroutine of its own, and by a cleaner that deletes what was not   *)
(* updated for 10 minutes.  A handler loads a pointer and stores the same  *)
(* pointer later, so that it may put back what a BYE has deleted.          *)
(***************************************************************************)
EXTENDS Naturals, FiniteSets

CONSTANTS
  CallIds,        \* the Call-IDs of the peers
  Requests,       \* requests that arrive, each of some method and Call-ID
  MaxDialogs      \* bound on the dialog objects

NoCall == "nocall"

ASSUME DialogAssumption == NoCall \notin CallIds /\ MaxDialogs \in Nat

VARIABLES
  dialogs,        \* g.inviteDialogs: Call-ID -> object
  object,         \* the objects: [established, aged, quiet]
  made,           \* objects made so far
  request,        \* each request: [pc, call, obj]
  sweep,          \* the cleaner: [pc, left, call]
  released        \* Call-IDs with a BYE answered 200, or once 10 min without an update

dlgVars == <<dialogs, object, made, request, sweep, released>>

Objects == 1..MaxDialogs
NewObject == [established |-> FALSE, aged |-> FALSE, quiet |-> FALSE]
Unsent == [pc |-> "unsent", call |-> NoCall, obj |-> 0]
Asleep == [pc |-> "sleep", left |-> {}, call |-> NoCall]

DlgInit ==
  /\ dialogs = [c \in {} |-> 0]
  /\ object = [o \in Objects |-> NewObject]
  /\ made = 0
  /\ request = [r \in Requests |-> Unsent]
  /\ sweep = Asleep
  /\ released = {}

----------------------------------------------------------------------------
StoreDialog(c, o) ==
  dialogs' = [b \in DOMAIN dialogs \cup {c} |-> IF b = c THEN o ELSE dialogs[b]]
DeleteDialog(c) == dialogs' = [b \in DOMAIN dialogs \ {c} |-> dialogs[b]]

\* Updating sets UpdatedAt to now; `quiet` says it is more than 10 minutes ago.
Touched(o) == [object EXCEPT ![o].quiet = FALSE]

At(r, pc) == request[r].pc = pc
Step(r, pc) == request' = [request EXCEPT ![r].pc = pc]
CallOf(r) == request[r].call

(* A request arrives; its handler loads the entry of the Call-ID. *)
Arrive(r, method, c) ==
  /\ At(r, "unsent")
  /\ request' = [request EXCEPT ![r] =
       [pc |-> method, call |-> c,
        obj |-> IF c \in DOMAIN dialogs THEN dialogs[c] ELSE 0]]
  /\ UNCHANGED <<dialogs, object, made, sweep, released>>

\* sipInviteGeneric, an entry found: the object is updated, then stored again.
InviteKnown(r) ==
  /\ At(r, "invite") /\ request[r].obj # 0
  /\ object' = Touched(request[r].obj)
  /\ Step(r, "store")
  /\ UNCHANGED <<dialogs, made, sweep, released>>

StoreBack(r) ==
  /\ At(r, "store")
  /\ StoreDialog(CallOf(r), request[r].obj)
  /\ Step(r, "done")
  /\ UNCHANGED <<object, made, sweep, released>>

\* sipInviteGeneric, no entry found: a new object, over what may be there now.
InviteNew(r) ==
  /\ At(r, "invite") /\ request[r].obj = 0
  /\ made < MaxDialogs /\ made' = made + 1
  /\ StoreDialog(CallOf(r), made + 1)
  /\ Step(r, "done")
  /\ UNCHANGED <<object, sweep, released>>

\* sipAckGeneric: without an entry nothing happens.
AckUnknown(r) ==
  /\ At(r, "ack") /\ request[r].obj = 0
  /\ Step(r, "done")
  /\ UNCHANGED <<dialogs, object, made, sweep, released>>

AckEstablishes(r) ==
  /\ At(r, "ack") /\ request[r].obj # 0
  /\ object' = [Touched(request[r].obj) EXCEPT ![request[r].obj].established = TRUE]
  /\ Step(r, "store")
  /\ UNCHANGED <<dialogs, made, sweep, released>>

Established(r) == request[r].obj # 0 /\ object[request[r].obj].established

\* sipByeGeneric: 481, or 200 and then the deletion.
ByeRefused(r) ==
  /\ At(r, "bye") /\ ~Established(r)
  /\ Step(r, "done")
  /\ UNCHANGED <<dialogs, object, made, sweep, released>>

ByeAccepted(r) ==
  /\ At(r, "bye") /\ Established(r)
  /\ released' = released \cup {CallOf(r)}
  /\ Step(r, "delete")
  /\ UNCHANGED <<dialogs, object, made, sweep>>

ByeDeletes(r) ==
  /\ At(r, "delete")
  /\ DeleteDialog(CallOf(r))
  /\ Step(r, "done")
  /\ UNCHANGED <<object, made, sweep, released>>

----------------------------------------------------------------------------
(* startInviteDialogCleaner *)

\* Mutants: the age counts from the creation; an established dialog is kept.
MutStaleCreated(o) == object[o].aged
MutStaleEnded(o) == object[o].quiet /\ ~object[o].established

Stale(o) == object[o].quiet

SweepBegins ==
  /\ sweep.pc = "sleep"
  /\ sweep' = [Asleep EXCEPT !.pc = "range", !.left = DOMAIN dialogs]
  /\ UNCHANGED <<dialogs, object, made, request, released>>

SweepVisits ==
  /\ sweep.pc = "range"
  /\ \E c \in sweep.left \cap DOMAIN dialogs :
       sweep' = [pc |-> IF Stale(dialogs[c]) THEN "delete" ELSE "range",
                 left |-> sweep.left \ {c}, call |-> c]
  /\ UNCHANGED <<dialogs, object, made, request, released>>

SweepDeletes ==
  /\ sweep.pc = "delete"
  /\ DeleteDialog(sweep.call)
  /\ sweep' = [sweep EXCEPT !.pc = "range", !.call = NoCall]
  /\ UNCHANGED <<object, made, request, released>>

SweepEnds ==
  /\ sweep.pc = "range" /\ sweep.left \cap DOMAIN dialogs = {}
  /\ sweep' = Asleep
  /\ UNCHANGED <<dialogs, object, made, request, released>>

Sweep == SweepBegins \/ SweepVisits \/ SweepDeletes \/ SweepEnds

\* Ten minutes after its creation, or after its last update; no handler takes
\* that long between two of its steps.
DialogAges(o) ==
  /\ o <= made /\ ~object[o].quiet
  /\ \A r \in Requests : request[r].obj = o => request[r].pc = "done"
  /\ \E quiet \in {q \in BOOLEAN : q \/ ~object[o].aged} :
       /\ object' = [object EXCEPT ![o].aged = TRUE, ![o].quiet = quiet]
       /\ released' = released \cup {c \in DOMAIN dialogs : quiet /\ dialogs[c] = o}
  /\ UNCHANGED <<dialogs, made, request, sweep>>

----------------------------------------------------------------------------
Handle(r) ==
  InviteKnown(r) \/ InviteNew(r) \/ StoreBack(r) \/ AckUnknown(r) \/ AckEstablishes(r)
    \/ ByeRefused(r) \/ ByeAccepted(r) \/ ByeDeletes(r)

DlgNext ==
  \/ \E r \in Requests, c \in CallIds, method \in {"invite", "ack", "bye"} : Arrive(r, method, c)
  \/ \E r \in Requests : Handle(r)
  \/ Sweep
  \/ \E o \in Objects : DialogAges(o)

DlgSpec == DlgInit /\ [][DlgNext]_dlgVars

----------------------------------------------------------------------------
\* The table, the objects and the handlers keep their types.
DlgTypeOK ==
  /\ DOMAIN dialogs \subseteq CallIds /\ \A c \in DOMAIN dialogs : dialogs[c] \in 1..made
  /\ object \in [Objects -> [established : BOOLEAN, aged : BOOLEAN, quiet : BOOLEAN]]
  /\ made \in 0..MaxDialogs
  /\ request \in [Requests -> [pc : {"unsent", "invite", "ack", "bye", "store", "delete", "done"},
                               call : CallIds \cup {NoCall}, obj : 0..MaxDialogs]]
  /\ sweep \in [pc : {"sleep", "range", "delete"}, left : SUBSET CallIds, call : CallIds \cup {NoCall}]
  /\ released \subseteq CallIds

\* A dialog leaves the table only after a BYE was answered with 200, or once it
\* was not updated for ten minutes: an INVITE or ACK that refreshes it in time
\* keeps it, however old it is (invite_inbound.go, sipByeGeneric, the cleaner).
DlgOnlyReleased ==
  [][DOMAIN dialogs \ DOMAIN dialogs' \subseteq released]_dlgVars

\* Once the peers are silent every entry is removed, also one that a late ACK or
\* a repeated INVITE put back after the BYE (startInviteDialogCleaner).
DlgTableDrains ==
  \A c \in CallIds : c \in DOMAIN dialogs ~> c \notin DOMAIN dialogs
----------------------------------------------------------------------------
(* The inductive invariant behind DlgOnlyReleased.                         *)

\* Requests name dialogs that were made; what a handler is about to store back
\* it has just updated.
InHand ==
  /\ \A o \in Objects : o > made => object[o] = NewObject
  /\ \A r \in Requests : /\ request[r].obj \in 0..made
                         /\ ~At(r, "unsent") => CallOf(r) \in CallIds
                         /\ At(r, "store") => request[r].obj # 0 /\ ~object[request[r].obj].quiet

\* Whoever is about to delete an entry may, and so may the cleaner that finds it.
Releases ==
  /\ \A r \in Requests : At(r, "delete") => CallOf(r) \in released
  /\ sweep.pc = "delete" => sweep.call \in released
  /\ \A c \in DOMAIN dialogs : object[dialogs[c]].quiet => c \in released

DlgInv == DlgTypeOK /\ InHand /\ Releases
=============================================================================
