---------------------------- MODULE PlaySessions ----------------------------
(***************************************************************************)
(* Media sessions of one GB28181 channel: live play, history playback and  *)
(* download, voice talk and broadcast (pkg/gbs/play.go, history.go,        *)
(* voice.go) and the unregister webhook of the media server that ends a    *)
(* live session (internal/adapter/gbadapter/gb.go).                        *)
(*                                                                         *)
(* Every session kind has its own key in GB28181API.streams; the value is  *)
(* a pointer to a Streams object whose Resp field holds the answer to the  *)
(* INVITE, from which the BYE is built.  Object identity matters, because  *)
(* a start may keep writing to an object that is no longer in the map.     *)
(*                                                                         *)
(* The n-th start call owns Streams object n (the &Streams{} of its        *)
(* LoadOrStore, in the map or not) and INVITE dialog n (its Call-ID).      *)
(* Device objects are numbered too: each one carries its own playMutex and *)
(* a deletion followed by a new registration replaces it.                  *)
(***************************************************************************)
EXTENDS Naturals

CONSTANTS
  Callers,     \* goroutines: HTTP handlers and webhooks
  HistoryKinds, \* history sessions of the channel: playback, download
  VoiceKinds,  \* voice sessions of the channel: talk, broadcast
  MaxStarts,   \* bound: start calls in a behaviour
  MaxDevices,  \* bound: Device objects the device ID names over time
  NoCaller     \* value of an unlocked playMutex

ASSUME PlayAssumption ==
  /\ NoCaller \notin Callers
  /\ MaxStarts \in Nat
  /\ MaxDevices \in Nat \ {0}

\* The kinds of session, each with its key in the map of streams.
Kinds == {"play"} \cup HistoryKinds \cup VoiceKinds
Starts == 1..MaxStarts
Devices == 1..MaxDevices

VARIABLES
  known,    \* the channel is in memory (GetChannel finds it)
  device,   \* the Device object GetChannel leads to
  mutex,    \* Device.playMutex, per object
  streams,  \* GB28181API.streams: kind -> object, 0 when the key is absent
  resp,     \* Streams.Resp: object -> dialog whose answer it holds, 0 when nil
  dialog,   \* where each INVITE dialog stands
  byes,     \* BYE requests handed to the connection, for each dialog
  playing,  \* Channel.IsPlaying in the database
  last,     \* history: what the latest section did to the session
  lost,     \* history: the edit of the flag that ends that section failed
  starts,   \* start calls made
  pc, kind, dev, num, obj   \* locals of each caller

sessionVars == <<streams, resp, dialog, byes>>
flagVars == <<playing, last, lost>>
deviceVars == <<known, device>>
localVars == <<kind, dev, num, obj>>
vars == <<known, device, mutex, streams, resp, dialog, byes, playing,
          last, lost, starts, pc, kind, dev, num, obj>>

Labels == {"idle", "lockStart", "online", "load", "stopOld", "rtp", "invite", "wait",
           "mark", "hook", "lockStop", "bye", "unmark"}

Stages == {"none", "invited", "accepted", "confirmed"}
Outcomes == {"none", "started", "stopped", "replaced"}

DeviceType ==
  /\ known \in BOOLEAN
  /\ device \in Devices
  /\ mutex \in [Devices -> Callers \cup {NoCaller}]

SessionType ==
  /\ streams \in [Kinds -> 0..MaxStarts]
  /\ resp \in [Starts -> 0..MaxStarts]
  /\ dialog \in [Starts -> Stages]
  /\ byes \in [Starts -> Nat]
  /\ starts \in 0..MaxStarts

FlagType == playing \in BOOLEAN /\ last \in Outcomes /\ lost \in BOOLEAN

CallerType ==
  /\ pc \in [Callers -> Labels]
  /\ kind \in [Callers -> Kinds]
  /\ dev \in [Callers -> Devices]
  /\ num \in [Callers -> 0..MaxStarts]
  /\ obj \in [Callers -> 0..MaxStarts]

TypeOK == DeviceType /\ SessionType /\ FlagType /\ CallerType

Init ==
  /\ known = TRUE
  /\ device = 1
  /\ mutex = [d \in Devices |-> NoCaller]
  /\ streams = [k \in Kinds |-> 0]
  /\ resp = [n \in Starts |-> 0]
  /\ dialog = [n \in Starts |-> "none"]
  /\ byes = [n \in Starts |-> 0]
  /\ playing = FALSE
  /\ last = "none"
  /\ lost = FALSE
  /\ starts = 0
  /\ pc = [c \in Callers |-> "idle"]
  /\ kind = [c \in Callers |-> "play"]
  /\ dev = [c \in Callers |-> 1]
  /\ num = [c \in Callers |-> 0]
  /\ obj = [c \in Callers |-> 0]

-----------------------------------------------------------------------------
(* Steps shared by the three families of operations.                       *)

Goto(c, label) == pc' = [pc EXCEPT ![c] = label]
At(c, label) == pc[c] = label

\* Mutant: a mutex that does not exclude.
MutLockFree(c) == mutex' = [mutex EXCEPT ![dev[c]] = c]

Lock(c) ==
  /\ mutex[dev[c]] = NoCaller
  /\ mutex' = [mutex EXCEPT ![dev[c]] = c]

Unlock(c) == mutex' = [mutex EXCEPT ![dev[c]] = NoCaller]

\* The locals of a caller end with its call.
DropLocals(c) ==
  /\ kind' = [kind EXCEPT ![c] = "play"]
  /\ dev' = [dev EXCEPT ![c] = 1]
  /\ num' = [num EXCEPT ![c] = 0]
  /\ obj' = [obj EXCEPT ![c] = 0]

\* The deferred unlock and the return.
Return(c) == Unlock(c) /\ Goto(c, "idle") /\ DropLocals(c)

\* The update of the channel row, without effect once it is gone.
SetPlaying(value) == playing' = (IF known THEN value ELSE playing)

\* EditPlaying at the end of a section: its error is ignored, and the row is as
\* it was.
EditPlaying(value) ==
  \/ SetPlaying(value) /\ lost' = FALSE
  \/ UNCHANGED playing /\ lost' = TRUE

\* History: the session of a channel that still exists was started, stopped, or
\* stopped by a start that has yet to replace it.
Record(what) == last' = (IF known THEN what ELSE last)

\* Mutant: Load where the code has LoadAndDelete.
MutMapKept(k) == streams
MapWithout(k) == [streams EXCEPT ![k] = 0]

\* The dialog whose answer the entry holds, 0 when there is none.
Answered(k) == IF streams[k] = 0 THEN 0 ELSE resp[streams[k]]

\* stopPlay, stopHistoryNoLock, stopVoiceNoLock: LoadAndDelete the entry and,
\* when it holds an answer, send the BYE (an attempt, which the connection may
\* fail) without waiting for its response.
TakeAndBye(k) ==
  /\ streams' = MapWithout(k)
  /\ byes' = (IF Answered(k) = 0 THEN byes ELSE [byes EXCEPT ![Answered(k)] = @ + 1])

-----------------------------------------------------------------------------
(* Play, StartHistory and StartVoice.                                      *)

\* The call up to the lock: GetChannel and, for history and voice, the online
\* check (made before the mutex is taken; when it fails nothing happens).
CallStart(c, k) ==
  /\ At(c, "idle")
  /\ known
  /\ starts < MaxStarts
  /\ starts' = starts + 1
  /\ kind' = [kind EXCEPT ![c] = k]
  /\ dev' = [dev EXCEPT ![c] = device]
  /\ num' = [num EXCEPT ![c] = starts + 1]
  /\ obj' = [obj EXCEPT ![c] = 0]
  /\ Goto(c, "lockStart")
  /\ UNCHANGED <<deviceVars, mutex, sessionVars, flagVars>>

Play(c) == CallStart(c, "play")
StartHistory(c) == \E k \in HistoryKinds : CallStart(c, k)
StartVoice(c) == \E k \in VoiceKinds : CallStart(c, k)

LockStart(c) ==
  /\ At(c, "lockStart")
  /\ Lock(c)
  /\ Goto(c, IF kind[c] = "play" THEN "online" ELSE "load")
  /\ UNCHANGED <<deviceVars, sessionVars, flagVars, starts, localVars>>

\* Play checks IsOnline, an input here, under the lock.
CheckOnline(c) ==
  /\ At(c, "online")
  /\ \/ Goto(c, "load") /\ UNCHANGED <<mutex, localVars>>
     \/ Return(c)
  /\ UNCHANGED <<deviceVars, sessionVars, flagVars, starts>>

\* streams.LoadOrStore(key, &Streams{}).
LoadOrStore(c) ==
  /\ At(c, "load")
  /\ IF streams[kind[c]] = 0
       THEN /\ streams' = [streams EXCEPT ![kind[c]] = num[c]]
            /\ obj' = [obj EXCEPT ![c] = num[c]]
            /\ Goto(c, "rtp")
       ELSE /\ obj' = [obj EXCEPT ![c] = streams[kind[c]]]
            /\ Goto(c, "stopOld")
            /\ UNCHANGED streams
  /\ UNCHANGED <<deviceVars, mutex, resp, dialog, byes, flagVars, starts,
                 kind, dev, num>>

\* An entry existed: it is stopped first, whatever that returns.  The flag is not
\* edited here, nor when the start fails further on.
StopOld(c) ==
  /\ At(c, "stopOld")
  /\ TakeAndBye(kind[c])
  /\ IF Answered(kind[c]) = 0 THEN UNCHANGED last ELSE Record("replaced")
  /\ Goto(c, "rtp")
  /\ UNCHANGED <<deviceVars, mutex, resp, dialog, playing, lost, starts, localVars>>

\* OpenRTPServer on the media server; its failure ends the call.
OpenRTPServer(c) ==
  /\ At(c, "rtp")
  /\ \/ Goto(c, "invite") /\ UNCHANGED <<mutex, localVars>>
     \/ Return(c)
  /\ UNCHANGED <<deviceVars, sessionVars, flagVars, starts>>

\* The INVITE of sipPlayPush2, sipInviteHistory or sipInviteVoice is sent, or
\* the call fails before anything leaves (address resolution, connection).
SendInvite(c) ==
  /\ At(c, "invite")
  /\ \/ /\ dialog' = [dialog EXCEPT ![num[c]] = "invited"]
        /\ Goto(c, "wait")
        /\ UNCHANGED <<mutex, localVars>>
     \/ Return(c) /\ UNCHANGED dialog
  /\ UNCHANGED <<deviceVars, streams, resp, byes, flagVars, starts>>

\* stream.Resp = resp, in the object the call holds.
StoreAnswer(c) == resp' = [resp EXCEPT ![obj[c]] = num[c]]

\* sipResponse returns the 200: the answer is stored in the object the call
\* holds and the ACK is sent, which may fail on the connection.
InviteAnswered(c) ==
  /\ At(c, "wait")
  /\ dialog[num[c]] = "accepted"
  /\ StoreAnswer(c)
  /\ \/ /\ dialog' = [dialog EXCEPT ![num[c]] = "confirmed"]
        /\ Record("started")
        /\ Goto(c, "mark")
        /\ UNCHANGED <<mutex, localVars>>
     \/ Return(c) /\ UNCHANGED <<dialog, last>>
  /\ UNCHANGED <<deviceVars, streams, byes, playing, lost, starts>>

\* Mutant: the 20 s timer of the transaction is missing.
MutInviteNeverFails(c) == FALSE /\ UNCHANGED vars

\* sipResponse returns an error: any other status (180 included), or nil once
\* the transaction's 20 s timer closed it.  A late answer finds no one.
InviteFailed(c) ==
  /\ At(c, "wait")
  /\ Return(c)
  /\ UNCHANGED <<deviceVars, sessionVars, flagVars, starts>>

\* EditPlaying(true), then the deferred unlock.
MarkPlaying(c) ==
  /\ At(c, "mark")
  /\ EditPlaying(TRUE)
  /\ Return(c)
  /\ UNCHANGED <<deviceVars, sessionVars, last, starts>>

-----------------------------------------------------------------------------
(* StopPlay, StopHistory, StopVoice, and the unregister webhook.           *)

CallStop(c, k) ==
  /\ At(c, "idle")
  /\ known
  /\ kind' = [kind EXCEPT ![c] = k]
  /\ dev' = [dev EXCEPT ![c] = device]
  /\ Goto(c, "lockStop")
  /\ UNCHANGED <<deviceVars, mutex, sessionVars, flagVars, starts, num, obj>>

StopPlay(c) == CallStop(c, "play")
StopHistory(c) == \E k \in HistoryKinds : CallStop(c, k)
StopVoice(c) == \E k \in VoiceKinds : CallStop(c, k)

\* Adapter.OnStreamChanged (regist=false) clears IsPlaying before StopPlay,
\* outside the mutex.  An edit that fails ends the webhook with nothing changed.
StreamUnregistered(c) ==
  /\ At(c, "idle")
  /\ known
  /\ SetPlaying(FALSE)
  /\ Goto(c, "hook")
  /\ UNCHANGED <<deviceVars, mutex, sessionVars, last, lost, starts, localVars>>

\* StopPlay of the webhook: returns an error when the channel has gone.
HookStopPlay(c) ==
  /\ At(c, "hook")
  /\ IF known
       THEN /\ kind' = [kind EXCEPT ![c] = "play"]
            /\ dev' = [dev EXCEPT ![c] = device]
            /\ Goto(c, "lockStop")
       ELSE Goto(c, "idle") /\ UNCHANGED <<kind, dev>>
  /\ UNCHANGED <<deviceVars, mutex, sessionVars, flagVars, starts, num, obj>>

LockStop(c) ==
  /\ At(c, "lockStop")
  /\ Lock(c)
  /\ Goto(c, "bye")
  /\ UNCHANGED <<deviceVars, sessionVars, flagVars, starts, localVars>>

\* Mutant: the deferred unlock runs before the deferred EditPlaying.
MutByeThenUnlock(c) ==
  /\ At(c, "bye")
  /\ TakeAndBye(kind[c])
  /\ Record("stopped")
  /\ Goto(c, "unmark")
  /\ Unlock(c)
  /\ UNCHANGED <<deviceVars, resp, dialog, playing, lost, starts, localVars>>

StopAndBye(c) ==
  /\ At(c, "bye")
  /\ TakeAndBye(kind[c])
  /\ Record("stopped")
  /\ Goto(c, "unmark")
  /\ UNCHANGED <<deviceVars, mutex, resp, dialog, playing, lost, starts, localVars>>

\* The deferred EditPlaying(false) runs before the deferred unlock.
MarkStopped(c) ==
  /\ At(c, "unmark")
  /\ EditPlaying(FALSE)
  /\ Return(c)
  /\ UNCHANGED <<deviceVars, sessionVars, last, starts>>

-----------------------------------------------------------------------------
(* The environment: the device answers INVITEs at any time, late included; *)
(* it is deleted, and registers again as a new Device object.              *)

DeviceAccepts(n) ==
  /\ dialog[n] = "invited"
  /\ dialog' = [dialog EXCEPT ![n] = "accepted"]
  /\ UNCHANGED <<deviceVars, mutex, streams, resp, byes, flagVars, starts, pc,
                 localVars>>

\* Deleting the device removes it from memory, and its channel rows.
DeleteDevice ==
  /\ known
  /\ known' = FALSE
  /\ playing' = FALSE
  /\ last' = "none"
  /\ lost' = FALSE
  /\ UNCHANGED <<device, mutex, sessionVars, starts, pc, localVars>>

RegisterAgain ==
  /\ ~known
  /\ device < MaxDevices
  /\ device' = device + 1
  /\ known' = TRUE
  /\ UNCHANGED <<mutex, sessionVars, flagVars, starts, pc, localVars>>

-----------------------------------------------------------------------------

\* The steps a caller takes once it has called, the two lock steps apart.
Step(c) ==
  \/ CheckOnline(c)
  \/ LoadOrStore(c)
  \/ StopOld(c)
  \/ OpenRTPServer(c)
  \/ SendInvite(c)
  \/ InviteAnswered(c)
  \/ InviteFailed(c)
  \/ MarkPlaying(c)
  \/ HookStopPlay(c)
  \/ StopAndBye(c)
  \/ MarkStopped(c)

Next ==
  \/ \E c \in Callers :
       \/ Play(c) \/ StartHistory(c) \/ StartVoice(c)
       \/ StopPlay(c) \/ StopHistory(c) \/ StopVoice(c)
       \/ StreamUnregistered(c)
       \/ LockStart(c)
       \/ LockStop(c)
       \/ Step(c)
  \/ \E n \in Starts : DeviceAccepts(n)
  \/ DeleteDevice
  \/ RegisterAgain

Spec == Init /\ [][Next]_vars

(* Goroutines are scheduled; sync.Mutex hands itself over to a goroutine   *)
(* that has waited too long (starvation mode), hence strong fairness of    *)
(* the lock steps; the 20 s transaction timer ends every wait.             *)
Fairness ==
  \A c \in Callers :
    /\ WF_vars(Step(c))
    /\ SF_vars(LockStart(c))
    /\ SF_vars(LockStop(c))

FairSpec == Spec /\ Fairness

-----------------------------------------------------------------------------
(* Properties.                                                             *)

\* A session is stopped once: no dialog is sent a second BYE, whatever starts,
\* stops, webhooks and re-registrations overlap (LoadAndDelete hands an entry
\* to one taker, and a removed object is never put back).
NoDoubleBye == \A n \in Starts : byes[n] <= 1

\* An entry of the map never names a session that was already stopped: the
\* next stop or start of the key acts on a session the device still holds.
MappedNotStopped ==
  \A k \in Kinds : streams[k] # 0 /\ resp[streams[k]] # 0
                     => byes[resp[streams[k]]] = 0

\* While the device keeps its identity, a start that is about to report success
\* holds the answer to its own INVITE, and that session was not stopped under it
\* by another start or stop of the key.
StartedIsOwn ==
  MaxDevices = 1 =>
    \A c \in Callers : pc[c] = "mark" => /\ resp[obj[c]] = num[c]
                                        /\ byes[num[c]] = 0

\* The flag says what the latest section did.  Of a session that a start stopped
\* and then did not replace (the RTP port, the INVITE or its ACK failed) it says
\* nothing: no edit follows, and IsPlaying stays as it was.
FlagAgrees ==
  /\ last = "started" => playing
  /\ last \in {"none", "stopped"} => ~playing

\* While the device keeps its identity and no operation is under way, IsPlaying
\* tells what the latest section did to the session: no overlap of starts, stops
\* and webhooks, whose flag update comes after the session's, leaves it stale.
\* Only two failures do, and both last until the next section: an edit of the row
\* at the end of the section whose error the code ignores (lost), and a start that
\* stopped the old session and got no new one (last = "replaced"), after which a
\* channel without a session is shown as playing.
FlagOfLastSection ==
  MaxDevices = 1 /\ (\A c \in Callers : pc[c] = "idle") => FlagAgrees \/ lost

\* Every operation returns: no caller waits forever for the mutex or for the
\* answer to an INVITE.
OperationsReturn == \A c \in Callers : pc[c] # "idle" ~> pc[c] = "idle"

\* "Each play stops first, then plays": at most one confirmed session of a
\* kind is alive at the device.  The code breaks this at the third play.
StopBeforePlay ==
  \A m, n \in Starts :
    /\ dialog[m] = "confirmed" /\ byes[m] = 0
    /\ dialog[n] = "confirmed" /\ byes[n] = 0
    => m = n

-----------------------------------------------------------------------------
(* The inductive invariant behind the safety properties: which numbers are *)
(* taken, which objects and dialogs are still private to one start call,   *)
(* and what the mutex gives its holder.                                    *)

Unstored == {"lockStart", "online", "load"}
Unanswered == Unstored \cup {"stopOld", "rtp", "invite", "wait"}
HoldsObject == {"stopOld", "rtp", "invite", "wait", "mark"}
Locked == Labels \ {"idle", "lockStart", "hook", "lockStop"}
Flagging == {"mark", "hook", "lockStop", "bye", "unmark"}

\* Numbers above starts are untouched.
NumbersTaken ==
  /\ \A k \in Kinds : streams[k] <= starts
  /\ \A n \in Starts : resp[n] <= starts
  /\ \A n \in Starts : n > starts => resp[n] = 0 /\ byes[n] = 0
  /\ \A c \in Callers : pc[c] \in Unanswered => num[c] \in 1..starts
  /\ \A c \in Callers : pc[c] \in HoldsObject => obj[c] \in 1..starts

\* Two start calls own different numbers; an object is under one key; a dialog's
\* answer is in one object.
OneOwner ==
  /\ \A c, e \in Callers : /\ pc[c] \in Unanswered /\ pc[e] \in Unanswered
                           /\ num[c] = num[e]
                           => c = e
  /\ \A k, l \in Kinds : streams[k] # 0 /\ streams[k] = streams[l] => k = l
  /\ \A m, n \in Starts : resp[m] # 0 /\ resp[m] = resp[n] => m = n

\* The object of a call that has not stored it is empty and reachable by no one.
FreshObject ==
  \A c \in Callers : pc[c] \in Unstored =>
    /\ resp[num[c]] = 0
    /\ \A k \in Kinds : streams[k] # num[c]
    /\ \A e \in Callers : pc[e] \in HoldsObject => obj[e] # num[c]

\* The dialog of a call without its answer is in no object and has had no BYE.
FreshDialog ==
  \A c \in Callers : pc[c] \in Unanswered =>
    /\ byes[num[c]] = 0
    /\ \A n \in Starts : resp[n] # num[c]

SessionInv ==
  /\ NumbersTaken
  /\ OneOwner
  /\ FreshObject
  /\ FreshDialog
  /\ MappedNotStopped
  /\ NoDoubleBye

LockInv ==
  \A c \in Callers : pc[c] \in Locked => mutex[dev[c]] = c

\* With one Device object: what its holder knows of the flag's history, and who
\* still owes the flag an update when it differs from it.
FlagInv ==
  /\ ~known => ~playing /\ last = "none"
  /\ known => \A c \in Callers : /\ pc[c] = "mark" => last = "started"
                                 /\ pc[c] = "unmark" => last = "stopped"
  /\ known => \/ \E c \in Callers : pc[c] \in Flagging
              \/ FlagAgrees
              \/ lost

OneDeviceInv == MaxDevices = 1 => StartedIsOwn /\ FlagInv

IInv == TypeOK /\ SessionInv /\ LockInv /\ OneDeviceInv
=============================================================================
