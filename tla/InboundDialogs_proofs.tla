----------------------- MODULE InboundDialogs_proofs -----------------------
(* Proofs about InboundDialogs: its types, and that no dialog leaves the   *)
(* table before it was released, for any Call-IDs, requests and objects.   *)
EXTENDS InboundDialogs, TLAPS

\* What the entries and the objects become when an entry is stored or deleted.
LEMMA Stored ==
  ASSUME NEW c, NEW o, StoreDialog(c, o)
  PROVE  /\ DOMAIN dialogs' = DOMAIN dialogs \cup {c}
         /\ dialogs'[c] = o
         /\ \A b \in DOMAIN dialogs : b # c => dialogs'[b] = dialogs[b]
  BY DEF StoreDialog

LEMMA Deleted ==
  ASSUME NEW c, DeleteDialog(c)
  PROVE  /\ DOMAIN dialogs' = DOMAIN dialogs \ {c}
         /\ \A b \in DOMAIN dialogs' : dialogs'[b] = dialogs[b]
  BY DEF DeleteDialog

\* A handler that goes on keeps its dialog and its Call-ID.
LEMMA Stepped ==
  ASSUME DlgTypeOK, NEW r \in Requests, NEW pc \in {"store", "delete", "done"}, Step(r, pc)
  PROVE  /\ request'[r] = [request[r] EXCEPT !.pc = pc]
         /\ \A q \in Requests : q # r => request'[q] = request[q]
         /\ \A q \in Requests : request'[q].obj = request[q].obj /\ request'[q].call = request[q].call
         /\ request'[r].pc = pc
         /\ request' \in [Requests -> [pc : {"unsent", "invite", "ack", "bye", "store", "delete", "done"},
                                       call : CallIds \cup {NoCall}, obj : 0..MaxDialogs]]
  BY DEF DlgTypeOK, Step

\* A handler that leaves the objects alone keeps what it has in hand.
LEMMA StillInHand ==
  ASSUME DlgTypeOK, InHand, NEW r \in Requests, NEW pc \in {"delete", "done"}, Step(r, pc),
         ~At(r, "unsent"), object' = object, made' = made
  PROVE  InHand'
<1>1. ASSUME NEW q \in Requests
      PROVE  /\ request'[q].obj \in 0..made
             /\ request'[q].pc # "unsent" => request'[q].call \in CallIds
             /\ request'[q].pc = "store" => request'[q].obj # 0 /\ ~object[request'[q].obj].quiet
  <2>1. CASE q = r
    BY <2>1, Stepped DEF InHand, At, CallOf
  <2>2. CASE q # r
    <3>1. request'[q] = request[q]
      BY <2>2, Stepped
    <3> QED
      BY <3>1 DEF InHand, At, CallOf
  <2> QED
    BY <2>1, <2>2
<1> QED
  BY <1>1 DEF InHand, At, CallOf

\* The initial states.
LEMMA InvInit == DlgInit => DlgInv
  BY DialogAssumption DEF DlgInit, DlgInv, DlgTypeOK, InHand, Releases, Objects, NewObject,
     Unsent, Asleep, At, CallOf

\* A request arrives.
LEMMA InvArrive ==
  ASSUME DlgInv, NEW r \in Requests, NEW c \in CallIds, NEW m \in {"invite", "ack", "bye"}, Arrive(r, m, c)
  PROVE  DlgInv'
<1> USE DEF DlgInv, Arrive
<1> DEFINE found == IF c \in DOMAIN dialogs THEN dialogs[c] ELSE 0
<1>1. found \in 0..made /\ made \in 0..MaxDialogs /\ MaxDialogs \in Nat
  BY DialogAssumption DEF DlgTypeOK
<1>2. request'[r] = [pc |-> m, call |-> c, obj |-> found] /\ \A q \in Requests : q # r => request'[q] = request[q]
  BY DEF DlgTypeOK
<1>3. DlgTypeOK'
  BY <1>1 DEF DlgTypeOK
<1>4. InHand'
  BY <1>1, <1>2 DEF InHand, At, CallOf
<1>5. Releases'
  BY <1>2 DEF Releases, At, CallOf
<1> QED
  BY <1>3, <1>4, <1>5

\* The handler of an INVITE or ACK that found an entry updates it.
LEMMA InvTouch ==
  ASSUME DlgInv, NEW r \in Requests, InviteKnown(r) \/ AckEstablishes(r)
  PROVE  DlgInv'
<1> DEFINE o == request[r].obj
<1>1. o \in Objects /\ o \in 1..made /\ made \in 0..MaxDialogs /\ MaxDialogs \in Nat
  BY DialogAssumption DEF DlgInv, DlgTypeOK, InHand, InviteKnown, AckEstablishes, Objects
<1>2. Step(r, "store") /\ UNCHANGED <<dialogs, made, sweep, released>>
  BY DEF InviteKnown, AckEstablishes
<1>3. /\ object' \in [Objects -> [established : BOOLEAN, aged : BOOLEAN, quiet : BOOLEAN]]
      /\ ~object'[o].quiet
      /\ \A p \in Objects : p # o => object'[p] = object[p]
  <2>1. object \in [Objects -> [established : BOOLEAN, aged : BOOLEAN, quiet : BOOLEAN]]
    BY DEF DlgInv, DlgTypeOK
  <2>2. Touched(o) \in [Objects -> [established : BOOLEAN, aged : BOOLEAN, quiet : BOOLEAN]]
    BY <1>1, <2>1 DEF Touched
  <2>3. Touched(o)[o].quiet = FALSE /\ \A p \in Objects : p # o => Touched(o)[p] = object[p]
    BY <1>1, <2>1 DEF Touched
  <2>4. object' = Touched(o) \/ object' = [Touched(o) EXCEPT ![o].established = TRUE]
    BY DEF InviteKnown, AckEstablishes
  <2> QED
    BY <1>1, <2>2, <2>3, <2>4
<1>4. DlgTypeOK'
  BY <1>2, <1>3, Stepped DEF DlgInv, DlgTypeOK
<1>5. ~At(r, "unsent")
  BY DEF At, InviteKnown, AckEstablishes
<1>6. InHand'
  <2>1. \A p \in Objects : p > made' => object'[p] = NewObject
    BY <1>1, <1>2, <1>3 DEF DlgInv, InHand, Objects
  <2>2. ASSUME NEW q \in Requests
        PROVE  /\ request'[q].obj \in 0..made'
               /\ ~At(q, "unsent")' => CallOf(q)' \in CallIds
               /\ At(q, "store")' => request'[q].obj # 0 /\ ~object'[request'[q].obj].quiet
    <3>1. CASE q = r
      <4>1. request'[r].obj = o /\ request'[r].call = CallOf(r)
        BY <1>2, Stepped DEF DlgInv, CallOf
      <4>2. CallOf(r) \in CallIds /\ o \in 0..made' /\ o # 0
        BY <1>1, <1>2, <1>5 DEF DlgInv, InHand
      <4> QED
        BY <1>3, <3>1, <4>1, <4>2 DEF CallOf
    <3>2. CASE q # r
      <4>1. request'[q] = request[q]
        BY <1>2, <3>2, Stepped DEF DlgInv
      <4>2. request[q].obj # 0 => request[q].obj \in Objects
        BY DEF DlgInv, DlgTypeOK, Objects
      <4> QED
        BY <1>2, <1>3, <4>1, <4>2 DEF DlgInv, InHand, At, CallOf
    <3> QED
      BY <3>1, <3>2
  <2> QED
    BY <2>1, <2>2 DEF InHand
<1>7. Releases'
  <2>1. \A q \in Requests : At(q, "delete")' => At(q, "delete") /\ CallOf(q)' = CallOf(q)
    BY <1>2, Stepped DEF DlgInv, At, CallOf
  <2>2. \A c \in DOMAIN dialogs : dialogs[c] \in Objects
    BY <1>1 DEF DlgInv, DlgTypeOK, Objects
  <2> QED
    BY <1>2, <1>3, <2>1, <2>2 DEF DlgInv, Releases
<1> QED
  BY <1>4, <1>6, <1>7 DEF DlgInv

\* It stores the entry again, over whatever is there now.
LEMMA InvStoreBack ==
  ASSUME DlgInv, NEW r \in Requests, StoreBack(r)
  PROVE  DlgInv'
<1> DEFINE c == CallOf(r)
<1> DEFINE o == request[r].obj
<1>1. /\ c \in CallIds /\ o \in 1..made /\ ~object[o].quiet
  BY DEF DlgInv, DlgTypeOK, InHand, StoreBack, At, CallOf
<1>2. Step(r, "done") /\ UNCHANGED <<object, made, sweep, released>>
  BY DEF StoreBack
<1>3. /\ DOMAIN dialogs' = DOMAIN dialogs \cup {c}
      /\ dialogs'[c] = o
      /\ \A b \in DOMAIN dialogs : b # c => dialogs'[b] = dialogs[b]
  BY Stored DEF StoreBack
<1>4. DlgTypeOK'
  BY <1>1, <1>2, <1>3, Stepped DEF DlgInv, DlgTypeOK
<1>5. InHand'
  BY <1>2, StillInHand DEF DlgInv, StoreBack, At
<1>6. Releases'
  <2>1. \A q \in Requests : At(q, "delete")' => At(q, "delete") /\ CallOf(q)' = CallOf(q)
    BY <1>2, Stepped DEF DlgInv, At, CallOf
  <2> QED
    BY <1>1, <1>2, <1>3, <2>1 DEF DlgInv, Releases
<1> QED
  BY <1>4, <1>5, <1>6 DEF DlgInv

\* The handler of an INVITE that found no entry makes a dialog.
LEMMA InvNew ==
  ASSUME DlgInv, NEW r \in Requests, InviteNew(r)
  PROVE  DlgInv'
<1> DEFINE c == CallOf(r)
<1> DEFINE o == made + 1
<1>1. /\ c \in CallIds /\ o \in Objects /\ made' = o /\ o \in 1..made' /\ made \in Nat /\ MaxDialogs \in Nat
      /\ object[o] = NewObject
  BY DialogAssumption DEF DlgInv, DlgTypeOK, InHand, InviteNew, At, CallOf, Objects
<1>2. Step(r, "done") /\ UNCHANGED <<object, sweep, released>>
  BY DEF InviteNew
<1>3. /\ DOMAIN dialogs' = DOMAIN dialogs \cup {c}
      /\ dialogs'[c] = o
      /\ \A b \in DOMAIN dialogs : b # c => dialogs'[b] = dialogs[b]
  BY Stored DEF InviteNew
<1>4. DlgTypeOK'
  <2>1. \A b \in DOMAIN dialogs' : dialogs'[b] \in 1..made'
    BY <1>1, <1>3 DEF DlgInv, DlgTypeOK
  <2>2. made' \in 0..MaxDialogs /\ DOMAIN dialogs' \subseteq CallIds
    BY <1>1, <1>3 DEF DlgInv, DlgTypeOK, Objects
  <2> QED
    BY <1>2, <2>1, <2>2, Stepped DEF DlgInv, DlgTypeOK
<1>5. InHand'
  <2>1. ASSUME NEW q \in Requests
        PROVE  /\ request'[q].obj \in 0..made'
               /\ ~At(q, "unsent")' => CallOf(q)' \in CallIds
               /\ At(q, "store")' => At(q, "store") /\ request'[q].obj = request[q].obj
    <3>1. CASE q = r
      <4>1. request'[r].obj = request[r].obj /\ request'[r].call = c /\ request'[r].pc = "done"
        BY <1>2, Stepped DEF DlgInv, CallOf
      <4>2. request[r].obj \in 0..made'
        BY <1>1 DEF DlgInv, InHand
      <4> QED
        BY <1>1, <3>1, <4>1, <4>2 DEF At, CallOf
    <3>2. CASE q # r
      <4>1. request'[q] = request[q]
        BY <1>2, <3>2, Stepped DEF DlgInv
      <4> QED
        BY <1>1, <4>1 DEF DlgInv, InHand, At, CallOf
    <3> QED
      BY <3>1, <3>2
  <2>2. \A p \in Objects : p > made' => object'[p] = NewObject
    BY <1>1, <1>2 DEF DlgInv, InHand, Objects
  <2> QED
    BY <1>2, <2>1, <2>2 DEF DlgInv, InHand
<1>6. Releases'
  <2>1. \A q \in Requests : At(q, "delete")' => At(q, "delete") /\ CallOf(q)' = CallOf(q)
    BY <1>2, Stepped DEF DlgInv, At, CallOf
  <2> QED
    BY <1>1, <1>2, <1>3, <2>1 DEF DlgInv, Releases, NewObject
<1> QED
  BY <1>4, <1>5, <1>6 DEF DlgInv

\* Handlers that end, or turn to the deletion, without touching the table.
LEMMA InvEnds ==
  ASSUME DlgInv, NEW r \in Requests, AckUnknown(r) \/ ByeRefused(r) \/ ByeAccepted(r)
  PROVE  DlgInv'
<1>1. UNCHANGED <<dialogs, object, made, sweep>>
  BY DEF AckUnknown, ByeRefused, ByeAccepted
<1>2. /\ ~At(r, "unsent")
      /\ \/ Step(r, "done") /\ released' = released
         \/ Step(r, "delete") /\ released' = released \cup {CallOf(r)}
  BY DEF AckUnknown, ByeRefused, ByeAccepted, At
<1>3. CallOf(r) \in CallIds
  BY <1>2 DEF DlgInv, InHand
<1>4. DlgTypeOK'
  BY <1>1, <1>2, <1>3, Stepped DEF DlgInv, DlgTypeOK
<1>5. InHand'
  BY <1>1, <1>2, <1>3, Stepped DEF DlgInv, InHand, At, CallOf
<1>6. Releases'
  BY <1>1, <1>2, Stepped DEF DlgInv, Releases, At, CallOf
<1> QED
  BY <1>4, <1>5, <1>6 DEF DlgInv

\* The handler of a BYE deletes the entry of its Call-ID.
LEMMA InvByeDeletes ==
  ASSUME DlgInv, NEW r \in Requests, ByeDeletes(r)
  PROVE  DlgInv' /\ DOMAIN dialogs \ DOMAIN dialogs' \subseteq released
<1>1. Step(r, "done") /\ UNCHANGED <<object, made, sweep, released>>
  BY DEF ByeDeletes
<1>2. /\ DOMAIN dialogs' = DOMAIN dialogs \ {CallOf(r)}
      /\ \A b \in DOMAIN dialogs' : dialogs'[b] = dialogs[b]
  BY Deleted DEF ByeDeletes
<1>3. CallOf(r) \in released
  BY DEF ByeDeletes, DlgInv, Releases
<1>4. DlgTypeOK'
  BY <1>1, <1>2, Stepped DEF DlgInv, DlgTypeOK
<1>5. InHand'
  BY <1>1, Stepped DEF DlgInv, InHand, At, CallOf, ByeDeletes
<1>6. Releases'
  BY <1>1, <1>2, Stepped DEF DlgInv, Releases, At, CallOf
<1> QED
  BY <1>2, <1>3, <1>4, <1>5, <1>6 DEF DlgInv

\* The cleaner.
LEMMA InvSweep ==
  ASSUME DlgInv, Sweep
  PROVE  DlgInv' /\ DOMAIN dialogs \ DOMAIN dialogs' \subseteq released
<1>1. UNCHANGED <<object, made, request, released>>
  BY DEF Sweep, SweepBegins, SweepVisits, SweepDeletes, SweepEnds
<1>2. CASE SweepBegins \/ SweepEnds
  <2>1. /\ sweep' \in [pc : {"sleep", "range", "delete"}, left : SUBSET CallIds, call : CallIds \cup {NoCall}]
        /\ sweep'.pc # "delete" /\ dialogs' = dialogs
    <3>1. CASE SweepBegins
      <4>1. sweep' = [pc |-> "range", left |-> DOMAIN dialogs, call |-> NoCall]
        BY <3>1 DEF SweepBegins, Asleep
      <4>2. DOMAIN dialogs \in SUBSET CallIds /\ dialogs' = dialogs
        BY <3>1 DEF SweepBegins, DlgInv, DlgTypeOK
      <4> QED
        BY <4>1, <4>2
    <3>2. CASE SweepEnds
      BY <3>2 DEF SweepEnds, Asleep
    <3> QED
      BY <1>2, <3>1, <3>2
  <2> QED
    BY <1>1, <2>1 DEF DlgInv, DlgTypeOK, InHand, Releases, At, CallOf
<1>3. CASE SweepVisits
  <2>1. PICK c \in sweep.left \cap DOMAIN dialogs :
          sweep' = [pc |-> IF Stale(dialogs[c]) THEN "delete" ELSE "range",
                    left |-> sweep.left \ {c}, call |-> c]
    BY <1>3 DEF SweepVisits
  <2>2. dialogs' = dialogs
    BY <1>3 DEF SweepVisits
  <2>3. sweep'.pc = "delete" => sweep'.call \in released
    BY <2>1 DEF DlgInv, Releases, Stale
  <2> QED
    BY <1>1, <2>1, <2>2, <2>3 DEF DlgInv, DlgTypeOK, InHand, Releases, At, CallOf
<1>4. CASE SweepDeletes
  <2>1. /\ DOMAIN dialogs' = DOMAIN dialogs \ {sweep.call}
        /\ \A b \in DOMAIN dialogs' : dialogs'[b] = dialogs[b]
    BY <1>4, Deleted DEF SweepDeletes
  <2>2. sweep.call \in released
    BY <1>4 DEF SweepDeletes, DlgInv, Releases
  <2>3. sweep' = [sweep EXCEPT !.pc = "range", !.call = NoCall]
    BY <1>4 DEF SweepDeletes
  <2> QED
    BY <1>1, <2>1, <2>2, <2>3 DEF DlgInv, DlgTypeOK, InHand, Releases, At, CallOf
<1> QED
  BY <1>2, <1>3, <1>4 DEF Sweep

\* Time passes over a dialog that no handler is working on.
LEMMA InvAges ==
  ASSUME DlgInv, NEW o \in Objects, DialogAges(o)
  PROVE  DlgInv'
<1>1. UNCHANGED <<dialogs, made, request, sweep>>
  BY DEF DialogAges
<1>2. PICK quiet \in BOOLEAN :
        /\ object' = [object EXCEPT ![o].aged = TRUE, ![o].quiet = quiet]
        /\ released' = released \cup {c \in DOMAIN dialogs : quiet /\ dialogs[c] = o}
  BY DEF DialogAges
<1>3. DlgTypeOK'
  BY <1>1, <1>2 DEF DlgInv, DlgTypeOK
<1>4. /\ object'[o].quiet = quiet
      /\ \A p \in Objects : p # o => object'[p] = object[p]
  BY <1>2 DEF DlgInv, DlgTypeOK
<1>5. InHand'
  <2>1. \A p \in Objects : p > made' => object'[p] = NewObject
    BY <1>1, <1>4 DEF DialogAges, DlgInv, DlgTypeOK, InHand, Objects
  <2>2. \A r \in Requests : At(r, "store") => request[r].obj # o /\ request[r].obj \in Objects
    BY DEF DialogAges, DlgInv, DlgTypeOK, InHand, At, Objects
  <2> QED
    BY <1>1, <1>4, <2>1, <2>2 DEF DlgInv, InHand, At, CallOf
<1>6. Releases'
  <2>1. ASSUME NEW c \in DOMAIN dialogs, object'[dialogs[c]].quiet PROVE c \in released'
    <3>1. CASE dialogs[c] = o
      BY <1>2, <1>4, <2>1, <3>1
    <3>2. CASE dialogs[c] # o
      <4>1. dialogs[c] \in Objects
        BY DialogAssumption DEF DlgInv, DlgTypeOK, Objects
      <4> QED
        BY <1>2, <1>4, <2>1, <3>2, <4>1 DEF DlgInv, Releases
    <3> QED
      BY <3>1, <3>2
  <2> QED
    BY <1>1, <1>2, <2>1 DEF DlgInv, Releases, At, CallOf
<1> QED
  BY <1>3, <1>5, <1>6 DEF DlgInv

\* Every step keeps the invariant, and takes only released dialogs from the table.
LEMMA InvStep ==
  ASSUME DlgInv, [DlgNext]_dlgVars
  PROVE  DlgInv' /\ DOMAIN dialogs \ DOMAIN dialogs' \subseteq released
<1>1. ASSUME NEW r \in Requests, NEW c \in CallIds, NEW m \in {"invite", "ack", "bye"}, Arrive(r, m, c)
      PROVE  DlgInv' /\ DOMAIN dialogs' = DOMAIN dialogs
  BY <1>1, InvArrive DEF Arrive
<1>2. ASSUME NEW r \in Requests, Handle(r)
      PROVE  DlgInv' /\ DOMAIN dialogs \ DOMAIN dialogs' \subseteq released
  <2>1. CASE InviteKnown(r) \/ AckEstablishes(r)
    BY <2>1, InvTouch DEF InviteKnown, AckEstablishes
  <2>2. CASE StoreBack(r)
    BY <2>2, InvStoreBack, Stored DEF StoreBack
  <2>3. CASE InviteNew(r)
    BY <2>3, InvNew, Stored DEF InviteNew
  <2>4. CASE AckUnknown(r) \/ ByeRefused(r) \/ ByeAccepted(r)
    BY <2>4, InvEnds DEF AckUnknown, ByeRefused, ByeAccepted
  <2>5. CASE ByeDeletes(r)
    BY <2>5, InvByeDeletes
  <2> QED
    BY <1>2, <2>1, <2>2, <2>3, <2>4, <2>5 DEF Handle
<1>3. ASSUME NEW o \in Objects, DialogAges(o)
      PROVE  DlgInv' /\ DOMAIN dialogs' = DOMAIN dialogs
  BY <1>3, InvAges DEF DialogAges
<1>4. CASE UNCHANGED dlgVars
  BY <1>4 DEF dlgVars, DlgInv, DlgTypeOK, InHand, Releases, At, CallOf
<1> QED
  BY <1>1, <1>2, <1>3, <1>4, InvSweep DEF DlgNext

\* The inductive invariant of the dialogs (invite_inbound.go).
THEOREM InvHolds == DlgSpec => []DlgInv
<1>1. DlgInv /\ [DlgNext]_dlgVars => DlgInv'
  BY InvStep
<1> QED
  BY <1>1, InvInit, PTL DEF DlgSpec

\* The table of dialogs, the objects and the handlers keep their types.
THEOREM TypeCorrect == DlgSpec => []DlgTypeOK
<1>1. DlgInv => DlgTypeOK
  BY DEF DlgInv
<1> QED
  BY <1>1, InvHolds, PTL

\* A dialog leaves the table only after a BYE answered with 200 or ten minutes without
\* an update, whatever handlers and cleaner overlap (sipByeGeneric, startInviteDialogCleaner).
THEOREM OnlyReleased == DlgSpec => DlgOnlyReleased
<1>1. DlgInv /\ [DlgNext]_dlgVars => [DOMAIN dialogs \ DOMAIN dialogs' \subseteq released]_dlgVars
  BY InvStep
<1> QED
  BY <1>1, InvHolds, PTL DEF DlgSpec, DlgOnlyReleased
=============================================================================
