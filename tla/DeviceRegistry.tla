--------------------------- MODULE DeviceRegistry ---------------------------
(***************************************************************************)
(* Whether a GB28181 device is online, in the two places that say so: its  *)
(* row in the database and the Device object in memory, from which requests *)
(* are sent (pkg/gbs/register.go, keepalive.go, options.go, server.go and  *)
(* internal/core/ipc/store/ipccache).                                      *)
(*                                                                         *)
(* Every change goes through Cache.Change, which edits the row in one      *)
(* transaction, then the object, then the channel rows, without a lock over *)
(* the three.  Registrations, heartbeats and API calls run in goroutines of *)
(* their own, beside the scanner of silent devices and the loading of the  *)
(* devices after a restart, which starts when the listeners already serve. *)
(* One device; devices do not touch each other's state.                    *)
(***************************************************************************)
EXTENDS Naturals

CONSTANTS
  Handlers,    \* goroutines of SIP requests and API calls
  Scanner,     \* the goroutine of startTickerCheck
  Loader,      \* the goroutine of NewServer, which loads the devices
  MaxUpsets,   \* bound: logouts, bad heartbeats, new passwords and crashes
  MaxDeletes   \* bound: deletions

ASSUME RegistryAssumption ==
  /\ Scanner \notin Handlers
  /\ Loader \notin Handlers
  /\ Scanner # Loader
  /\ MaxUpsets \in Nat
  /\ MaxDeletes \in Nat

Actors == Handlers \cup {Scanner, Loader}
Ops == {"none", "login", "logout", "alive", "bad", "password", "silent", "refresh", "boot"}
Labels == {"idle", "insert", "add", "store", "row", "memory", "channels", "probe",
           "find", "load", "forget"}
View == [online : BOOLEAN, fresh : BOOLEAN]
Object == [online : BOOLEAN, fresh : BOOLEAN, conn : BOOLEAN]
Holds == {"none", "current", "online", "offline"}

VARIABLES
  transport,  \* Device.Transport: "tcp" or "udp"
  exists,     \* the device has a row
  row,        \* IsOnline, and whether KeepaliveAt is within the timeout
  channels,   \* some channel row of the device is online
  present,    \* the device has an object in memory
  mem,        \* the object: IsOnline, LastKeepaliveAt, and whether conn is set
  asked,      \* a catalog is on its way
  silent,     \* the device sends nothing
  upsets, deletes,     \* events counted against their bounds
  pc, op, seen, held   \* each goroutine: where it is, its change, the row the
                       \* change returned, and the object it changed: the one in
                       \* memory, or one that was replaced while online or offline

rowVars == <<exists, row, channels>>
memVars == <<present, mem>>
envVars == <<transport, asked, silent, upsets, deletes>>
localVars == <<op, seen, held>>
vars == <<rowVars, memVars, envVars, pc, localVars>>

Down == [online |-> FALSE, fresh |-> FALSE]
Blank == [online |-> FALSE, fresh |-> FALSE, conn |-> FALSE]

TypeOK ==
  /\ transport \in {"tcp", "udp"}
  /\ exists \in BOOLEAN
  /\ row \in View
  /\ ~exists => row = Down
  /\ channels \in BOOLEAN
  /\ present \in BOOLEAN
  /\ mem \in Object
  /\ asked \in BOOLEAN
  /\ silent \in BOOLEAN
  /\ upsets \in 0..MaxUpsets
  /\ deletes \in 0..MaxDeletes
  /\ pc \in [Actors -> Labels]
  /\ op \in [Actors -> Ops]
  /\ seen \in [Actors -> View]
  /\ held \in [Actors -> Holds]

Init ==
  /\ transport \in {"tcp", "udp"}
  /\ exists = FALSE
  /\ row = Down
  /\ channels = FALSE
  /\ present = FALSE
  /\ mem = Blank
  /\ asked = FALSE
  /\ silent = FALSE
  /\ upsets = 0
  /\ deletes = 0
  /\ pc = [a \in Actors |-> "idle"]
  /\ op = [a \in Actors |-> "none"]
  /\ seen = [a \in Actors |-> Down]
  /\ held = [a \in Actors |-> "none"]

-----------------------------------------------------------------------------
(* Cache.Change.                                                           *)

Goto(a, label) == pc' = [pc EXCEPT ![a] = label]
At(a, label) == pc[a] = label

\* The goroutine is done; its locals end with it.
Finish(a) ==
  /\ Goto(a, "idle")
  /\ op' = [op EXCEPT ![a] = "none"]
  /\ seen' = [seen EXCEPT ![a] = Down]
  /\ held' = [held EXCEPT ![a] = "none"]

Start(a, o, label) ==
  /\ At(a, "idle")
  /\ op' = [op EXCEPT ![a] = o]
  /\ Goto(a, label)
  /\ UNCHANGED <<seen, held>>

\* Mutant: a heartbeat refreshes the time alone.
MutAliveKeeps(o, r) ==
  [online |-> CASE o = "login" -> TRUE
                [] o \in {"alive", "refresh"} -> r.online
                [] OTHER -> FALSE,
   fresh |-> r.fresh \/ o \in {"login", "alive", "bad", "refresh"}]

\* What a change makes of the row.
Edited(o, r) ==
  [online |-> CASE o \in {"login", "alive"} -> TRUE
                [] o = "refresh" -> r.online
                [] OTHER -> FALSE,
   fresh |-> r.fresh \/ o \in {"login", "alive", "bad", "refresh"}]

\* The edit of the row; without a row the change ends with an error.
EditRow(a) ==
  /\ At(a, "row")
  /\ IF exists
       THEN /\ row' = Edited(op[a], row)
            /\ seen' = [seen EXCEPT ![a] = row']
            /\ Goto(a, "memory")
            /\ UNCHANGED <<op, held>>
       ELSE Finish(a) /\ UNCHANGED row
  /\ UNCHANGED <<exists, channels, memVars, envVars>>

\* Mutant: no change brings the object a connection.
MutNoConn(o) == FALSE

\* The connection of a device, when the change comes with a request of it.
Connects(o) == o \in {"login", "alive", "bad"}

\* What a change makes of the object: the row it returned is copied.
Copied(a, m) ==
  [online |-> seen[a].online,
   fresh |-> seen[a].fresh,
   conn |-> m.conn \/ Connects(op[a])]

\* The object, if there is one; otherwise the change ends with "device not found".
EditMemory(a) ==
  /\ At(a, "memory")
  /\ IF present
       THEN /\ mem' = Copied(a, mem)
            /\ held' = [held EXCEPT ![a] = "current"]
            /\ Goto(a, "channels")
            /\ UNCHANGED <<op, seen>>
       ELSE Finish(a) /\ UNCHANGED mem
  /\ UNCHANGED <<rowVars, present, envVars>>

\* The object of a change, which may have left memory meanwhile.
HeldOnline(a) == held[a] = "online" \/ (held[a] = "current" /\ mem.online)

\* An object that is offline, by this change or by another one, takes the channel
\* rows offline.  A login then asks for the catalog.
EditChannels(a) ==
  /\ At(a, "channels")
  /\ channels' = (channels /\ HeldOnline(a))
  /\ asked' = (asked \/ op[a] = "login")
  /\ Finish(a)
  /\ UNCHANGED <<exists, row, memVars, transport, silent, upsets, deletes>>

-----------------------------------------------------------------------------
(* Objects.                                                                *)

\* What the changes hold once the object leaves memory.
Left == [a \in Actors |-> IF held[a] # "current" THEN held[a]
                          ELSE IF mem.online THEN "online" ELSE "offline"]

\* LoadOrStore keeps the object that is there.
LoadOrStore(m) == present' = TRUE /\ mem' = (IF present THEN mem ELSE m)

-----------------------------------------------------------------------------
(* REGISTER, Keepalive, and the API.                                       *)

\* handlerRegister past the authentication: an unknown device gets a row first.
\* A device that registers with Expires 0 logs out.
Register(h) ==
  /\ ~silent
  /\ Start(h, "login", IF exists THEN "store" ELSE "insert")
  /\ UNCHANGED <<rowVars, memVars, envVars>>

Upset == upsets < MaxUpsets /\ upsets' = upsets + 1

Unregister(h) ==
  /\ ~silent
  /\ Upset
  /\ Start(h, "logout", IF exists THEN "store" ELSE "insert")
  /\ UNCHANGED <<rowVars, memVars, transport, asked, silent, deletes>>

\* The device is added through the API.
AddDevice(h) ==
  /\ ~exists
  /\ Start(h, "none", "insert")
  /\ UNCHANGED <<rowVars, memVars, envVars>>

\* Device.Add: the row is inserted.  If it is there by now, the insertion fails, unless
\* the registration has looked for it once more.
InsertRow(h) ==
  /\ At(h, "insert")
  /\ IF exists
       THEN /\ \/ Finish(h)
               \/ op[h] # "none" /\ Goto(h, "store") /\ UNCHANGED localVars
            /\ UNCHANGED <<exists, row>>
       ELSE /\ exists' = TRUE
            /\ row' = Down
            /\ Goto(h, "add")
            /\ UNCHANGED localVars
  /\ UNCHANGED <<channels, memVars, envVars>>

\* Device.Add: the object has no connection and is offline, as the row.
AddObject(h) ==
  /\ At(h, "add")
  /\ LoadOrStore(Blank)
  /\ IF op[h] = "none" THEN Finish(h)
                       ELSE Goto(h, "store") /\ UNCHANGED localVars
  /\ UNCHANGED <<rowVars, envVars>>

\* sipMessageKeepalive; it asks for no registration before.
Keepalive(h) ==
  /\ ~silent
  /\ Start(h, "alive", "store")
  /\ UNCHANGED <<rowVars, memVars, envVars>>

KeepaliveBad(h) ==
  /\ ~silent
  /\ Upset
  /\ Start(h, "bad", "store")
  /\ UNCHANGED <<rowVars, memVars, transport, asked, silent, deletes>>

\* LoadOrStore of both handlers: the object of the request's connection.
StoreObject(h) ==
  /\ At(h, "store")
  /\ LoadOrStore([Blank EXCEPT !.conn = TRUE])
  /\ Goto(h, "row")
  /\ UNCHANGED <<rowVars, envVars, localVars>>

\* Device.Edit with another password than the object's.
ChangePassword(h) ==
  /\ exists
  /\ present
  /\ Upset
  /\ Start(h, "password", "row")
  /\ UNCHANGED <<rowVars, memVars, transport, asked, silent, deletes>>

\* Device.Del: the rows of the device and of its channels.
DeleteRows(h) ==
  /\ exists
  /\ deletes < MaxDeletes
  /\ deletes' = deletes + 1
  /\ exists' = FALSE
  /\ row' = Down
  /\ channels' = FALSE
  /\ Start(h, "none", "forget")
  /\ UNCHANGED <<memVars, transport, asked, silent, upsets>>

ForgetObject(h) ==
  /\ At(h, "forget")
  /\ present' = FALSE
  /\ mem' = Blank
  /\ Goto(h, "idle")
  /\ held' = Left
  /\ UNCHANGED <<rowVars, envVars, op, seen>>

\* The catalog, once collected: the channels' rows as the device reports them.  Rows
\* saved for a device that was deleted meanwhile belong to none.
SaveCatalog ==
  /\ asked
  /\ asked' = FALSE
  /\ \E up \in BOOLEAN : channels' = (exists /\ up)
  /\ UNCHANGED <<exists, row, memVars, transport, silent, upsets, deletes, pc, localVars>>
-----------------------------------------------------------------------------
(* startTickerCheck.  The times of the last heartbeat and registration that *)
(* it compares are both in fresh: every login sets both.                   *)

OnlineInMemory == present /\ mem.online

\* Silent for too long, or without a connection.
Overdue == ~mem.fresh \/ ~mem.conn

ScanDevice ==
  /\ OnlineInMemory
  /\ Overdue
  /\ IF transport = "tcp" /\ mem.conn
       THEN Start(Scanner, "refresh", "probe")
       ELSE Start(Scanner, "silent", "row")
  /\ UNCHANGED <<rowVars, memVars, envVars>>

\* ProbeOptions, for TCP: an answer refreshes the device, if it is still online in
\* memory; no answer within 3 s, and the device is logged out.
Probe ==
  /\ At(Scanner, "probe")
  /\ \/ /\ OnlineInMemory
        /\ ~silent
        /\ Goto(Scanner, "row")
        /\ UNCHANGED localVars
     \/ /\ Goto(Scanner, "row")
        /\ op' = [op EXCEPT ![Scanner] = "silent"]
        /\ UNCHANGED <<seen, held>>
  /\ UNCHANGED <<rowVars, memVars, envVars>>

-----------------------------------------------------------------------------
(* A crash, and LoadDeviceToMemory after the restart.                      *)

\* Every goroutine and every object is lost.
Crash ==
  /\ Upset
  /\ present' = FALSE
  /\ mem' = Blank
  /\ asked' = FALSE
  /\ pc' = [a \in Actors |-> IF a = Loader THEN "find" ELSE "idle"]
  /\ op' = [a \in Actors |-> "none"]
  /\ seen' = [a \in Actors |-> Down]
  /\ held' = [a \in Actors |-> "none"]
  /\ UNCHANGED <<rowVars, transport, silent, deletes>>

\* The rows are read once; a TCP device is changed to offline.
FindRows ==
  /\ At(Loader, "find")
  /\ IF ~exists
       THEN Finish(Loader)
       ELSE /\ IF transport = "tcp"
                 THEN Goto(Loader, "row") /\ op' = [op EXCEPT ![Loader] = "boot"]
                 ELSE Goto(Loader, "load") /\ UNCHANGED op
            /\ seen' = [seen EXCEPT ![Loader] = row]
            /\ UNCHANGED held
  /\ UNCHANGED <<rowVars, memVars, envVars>>

\* A UDP device whose address can be dialled gets an object as its row was, which
\* replaces the one a request may have made by now.
LoadObject ==
  /\ At(Loader, "load")
  /\ \/ /\ present' = TRUE
        /\ mem' = [online |-> seen[Loader].online, fresh |-> seen[Loader].fresh, conn |-> TRUE]
        /\ held' = Left
     \/ UNCHANGED <<memVars, held>>
  /\ Goto(Loader, "idle")
  /\ seen' = [seen EXCEPT ![Loader] = Down]
  /\ UNCHANGED <<rowVars, envVars, op>>

-----------------------------------------------------------------------------
(* The device and time.                                                    *)

GoSilent ==
  /\ silent' = ~silent
  /\ UNCHANGED <<rowVars, memVars, transport, asked, upsets, deletes, pc, localVars>>

\* The timeout passes after the last message of a device.
Stale(v) == [v EXCEPT !.fresh = FALSE]
TimePasses ==
  /\ silent
  /\ row' = Stale(row)
  /\ mem' = Stale(mem)
  /\ seen' = [a \in Actors |-> Stale(seen[a])]
  /\ UNCHANGED <<exists, channels, present, envVars, pc, op, held>>

-----------------------------------------------------------------------------

Change(a) == EditRow(a) \/ EditMemory(a) \/ EditChannels(a)

Handle(h) == InsertRow(h) \/ AddObject(h) \/ StoreObject(h) \/ ForgetObject(h)

Scan == ScanDevice \/ Probe

Load == FindRows \/ LoadObject

Next ==
  \/ \E h \in Handlers :
       \/ Register(h) \/ Unregister(h) \/ AddDevice(h) \/ Keepalive(h) \/ KeepaliveBad(h)
       \/ ChangePassword(h) \/ DeleteRows(h)
       \/ Handle(h)
  \/ Scan
  \/ Load
  \/ SaveCatalog
  \/ \E a \in Actors : Change(a)
  \/ Crash
  \/ GoSilent
  \/ TimePasses

Spec == Init /\ [][Next]_vars

(* Goroutines are scheduled, the scanner's ticker fires, time passes, and a *)
(* device that is not silent sends its heartbeats.                         *)
Fairness ==
  /\ \A a \in Actors : WF_vars(Change(a))
  /\ \A h \in Handlers : WF_vars(Handle(h)) /\ SF_vars(Keepalive(h))
  /\ WF_vars(Scan)
  /\ WF_vars(Load)
  /\ WF_vars(TimePasses)

FairSpec == Spec /\ Fairness

-----------------------------------------------------------------------------
(* Properties.                                                             *)

\* A device that is online in memory has a connection to send requests on, unless
\* it was deleted meanwhile: no change that finds the row online, from a probe or a
\* restart, brings an object online that no request has given its connection.
OnlineHasConn ==
  deletes = 0 /\ OnlineInMemory => mem.conn

\* Heartbeats heal: a device that keeps sending them is at last online for good in
\* both places, whatever logouts, scans, restarts and races came before.
HeartbeatsHeal ==
  <>[](~silent /\ exists) => <>[](row.online /\ OnlineInMemory)

\* The scanner finds a device that has fallen silent: at last it is offline in memory
\* for good, also when its last heartbeat raced with the scan.
SilentIsFound ==
  <>[](silent /\ exists) => <>[]~OnlineInMemory

\* What a device does decides what is shown of it in the end, if it settles on one.
StateSettles == HeartbeatsHeal /\ SilentIsFound

\* Comment at server.go:168: the timer checks devices for being offline, by the timeout
\* of their heartbeats.  For the row, which the API shows, this can fail for good.
SilentShownOffline ==
  <>[](silent /\ exists) => <>[]~row.online

\* Comment at cache.go:59: loading a TCP device after a restart takes the device and its
\* channels offline.
LoadedOffline ==
  [][op[Loader] = "boot" /\ pc'[Loader] = "idle" /\ exists' => ~channels']_vars
-----------------------------------------------------------------------------
(* The inductive invariant behind OnlineHasConn.                           *)

\* A row that a change returned as online is that of a request of the device, or of
\* a probe, which leaves it as it was.
SeenOnline ==
  \A a \in Actors : pc[a] = "memory" /\ seen[a].online => Connects(op[a]) \/ op[a] = "refresh"

\* Until a deletion, a probe's object keeps its connection or is replaced by one that
\* has its own.
ProbedHasConn ==
  deletes = 0 => \A a \in Actors : /\ pc[a] # "forget"
                                   /\ op[a] = "refresh" => present /\ mem.conn

IInv == TypeOK /\ SeenOnline /\ ProbedHasConn /\ OnlineHasConn
=============================================================================
