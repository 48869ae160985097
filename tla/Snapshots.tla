------------------------------ MODULE Snapshots ------------------------------
(***************************************************************************)
(* Pictures of a GB28181 channel.  The device is asked for one; if it does *)
(* not send it in time, a flight takes one from the channel's live stream, *)
(* which it starts, and stops afterwards, if the row says that the channel *)
(* is not playing.  Calls that need a picture meanwhile share the flight,  *)
(* and it goes on when the call that began it is gone.  Viewers start the  *)
(* same stream, and webhooks stop it, with no regard to the flight.        *)
(*                                                                         *)
(* Play and StopPlay are steps here: one mutex of the device is held       *)
(* throughout.  PlaySessions has what goes on inside.                      *)
(***************************************************************************)
EXTENDS Naturals, FiniteSets

CONSTANTS
  Callers,        \* calls of refreshSnapshot; a flight is named by the call that began it
  Viewers         \* players of the channel's live stream

None == "none"
Empty == "empty"
Starters == Callers \cup Viewers

ASSUME SnapAssumption == Callers \cap Viewers = {} /\ None \notin Starters /\ Empty \notin Starters

VARIABLES
  inMap,          \* the channel's entry in streams, the map of GB28181API: who started
                  \* its session; Empty, without an answer; None
  open,           \* who started a session that the device has answered and has not
                  \* been sent a BYE for
  abandoned,      \* history: those of them that the map never had, since their Play
                  \* met an entry, or that a failed BYE, ACK or StopPlay left behind
  playing,        \* is_playing of the row
  hooks,          \* on_stream_changed of streams that ended, on their way
  flight,         \* the key of the singleflight group
  task,           \* each flight: [pc, temporary]
  caller,         \* each call: its step
  viewer          \* each viewer: its step

sessionVars == <<inMap, open, abandoned, hooks>>
snapVars == <<sessionVars, playing, flight, task, caller, viewer>>

SnapInit ==
  /\ inMap = None /\ open = {} /\ abandoned = {} /\ playing = FALSE /\ hooks = 0 /\ flight = None
  /\ task = [c \in Callers |-> [pc |-> "none", temporary |-> FALSE]]
  /\ caller = [c \in Callers |-> "new"]
  /\ viewer = [v \in Viewers |-> "new"]

TaskAt(t, pc) == task[t].pc = pc
Proceeds(t, pc) == task' = [task EXCEPT ![t].pc = pc]
CallerTo(c, step) == caller' = [caller EXCEPT ![c] = step]

\* An edit of the row, whose error nobody heeds.
Marks(value) == playing' \in {value, playing}

\* stopPlay takes the entry out and, if it had an answer, sends a BYE, which may fail.
\* The end of the session is the end of its stream at the media server.
Found == {inMap} \cap open
HooksAfter(n, ended) == IF ended = {} THEN n ELSE n + 1

StopsFound(n) ==
  \E ended \in SUBSET Found :
    /\ inMap' = None
    /\ open' = open \ ended
    /\ abandoned' = (abandoned \cup Found) \ ended
    /\ hooks' = HooksAfter(n, ended)

\* Play stops what it finds, with its entry, and goes on with the object that it
\* found; without one it has stored its own.
PlayTurns(who, outcome) ==
  LET new == IF outcome = "unanswered" THEN {} ELSE {who}
      held == inMap = None /\ outcome = "answered"
  IN \E ended \in SUBSET Found :
       /\ inMap' = IF inMap # None THEN None ELSE IF new = {} THEN Empty ELSE who
       /\ open' = (open \ ended) \cup new
       /\ abandoned' = ((abandoned \cup Found) \ ended) \cup (IF held THEN {} ELSE new)
       /\ hooks' = HooksAfter(hooks, ended)

Plays(who) == PlayTurns(who, "answered") /\ Marks(TRUE)

\* The device is missing or offline; no port or answer is had; or the ACK cannot be sent.
PlayFails(who) ==
  /\ UNCHANGED sessionVars \/ PlayTurns(who, "unanswered") \/ PlayTurns(who, "unacknowledged")
  /\ UNCHANGED playing

----------------------------------------------------------------------------
(* refreshSnapshot *)

\* The picture is new enough, the row is missing, or a URL was given instead of the stream.
AnswersAtOnce(c) ==
  /\ caller[c] = "new"
  /\ CallerTo(c, "over")
  /\ UNCHANGED <<sessionVars, playing, flight, task, viewer>>

\* waitForFreshCover: the picture has come, whichever call the device or a viewer's
\* play sent it for; or ten seconds are over, or the call is gone.
AwaitCover == {"over", "joins"}

\* QuerySnapshot, whose error is kept for the answer, and the wait after it.
AsksDevice(c) ==
  /\ caller[c] = "new"
  /\ \E step \in {"joins"} \cup AwaitCover : CallerTo(c, step)
  /\ UNCHANGED <<sessionVars, playing, flight, task, viewer>>

----------------------------------------------------------------------------
(* refreshGBSnapshotByLiveStreamSingleflight *)

\* DoChan; a call that is gone by now begins a flight all the same.
JoinFlight(c) ==
  /\ caller[c] = "joins"
  /\ CallerTo(c, "waits")
  /\ IF flight = None
       THEN flight' = c /\ task' = [task EXCEPT ![c].pc = "read"]
       ELSE UNCHANGED <<flight, task>>
  /\ UNCHANGED <<sessionVars, playing, viewer>>

\* Mutant: the flight is forgotten with the call that began it.
MutAfterLeaving(c) == IF flight = c THEN None ELSE flight

\* The flight goes on without it.
AfterLeaving(c) == flight

Leave(c) ==
  /\ caller[c] = "waits"
  /\ CallerTo(c, "over")
  /\ flight' = AfterLeaving(c)
  /\ UNCHANGED <<sessionVars, playing, task, viewer>>

----------------------------------------------------------------------------
(* refreshGBSnapshotByLiveStream, of the flight t *)

\* The row decides whether the stream is the flight's own to stop.
ReadRow(t) ==
  /\ TaskAt(t, "read")
  /\ task' = [task EXCEPT ![t].temporary = ~playing, ![t].pc = IF playing THEN "first" ELSE "start"]
  /\ UNCHANGED <<sessionVars, playing, flight, caller, viewer>>

\* A row is missing.
ReadFails(t) ==
  /\ TaskAt(t, "read")
  /\ Proceeds(t, "return")
  /\ UNCHANGED <<sessionVars, playing, flight, caller, viewer>>

StartStream(t) ==
  /\ TaskAt(t, "start") \/ TaskAt(t, "restart")
  /\ Plays(t)
  /\ Proceeds(t, IF TaskAt(t, "start") THEN "first" ELSE "again")
  /\ UNCHANGED <<flight, caller, viewer>>

\* Nothing is deferred yet, or nothing at all.
StartStreamFails(t) ==
  /\ TaskAt(t, "start") \/ TaskAt(t, "restart")
  /\ PlayFails(t)
  /\ Proceeds(t, "return")
  /\ UNCHANGED <<flight, caller, viewer>>

\* Whatever comes of it, a stream started for the picture is stopped.
WayOut(t) == IF task[t].temporary THEN "stop" ELSE "return"

\* ffmpeg, or after it the media server, takes a picture, which is seen to be newer
\* than the flight.
Capture(t) ==
  /\ TaskAt(t, "first") \/ TaskAt(t, "again")
  /\ open # {}
  /\ task' = [task EXCEPT ![t].pc = WayOut(t)]
  /\ UNCHANGED <<sessionVars, playing, flight, caller, viewer>>

\* Neither gets one: the second round follows, of a new stream unless it is the flight's own.
CaptureFails(t) ==
  /\ TaskAt(t, "first")
  /\ Proceeds(t, IF task[t].temporary THEN "again" ELSE "restart")
  /\ UNCHANGED <<sessionVars, playing, flight, caller, viewer>>

\* The second round fails, or sixty seconds are over in a pause, in the queue for
\* ffmpeg or in a picture.
GiveUp(t) ==
  /\ TaskAt(t, "first") \/ TaskAt(t, "again")
  /\ Proceeds(t, WayOut(t))
  /\ UNCHANGED <<sessionVars, playing, flight, caller, viewer>>

\* StopPlay names the channel; the device may be gone from the memory by now.
StopStream(t) ==
  /\ TaskAt(t, "stop")
  /\ \/ StopsFound(hooks) /\ Marks(FALSE)
     \/ abandoned' = abandoned \cup ({t} \cap open) /\ UNCHANGED <<inMap, open, hooks, playing>>
  /\ Proceeds(t, "return")
  /\ UNCHANGED <<flight, caller, viewer>>

\* The key goes, and everybody who waits gets the result.
FlightEnds(t) ==
  /\ TaskAt(t, "return")
  /\ Proceeds(t, "over")
  /\ flight' = IF flight = t THEN None ELSE flight
  /\ caller' = [c \in Callers |-> IF caller[c] = "waits" /\ flight = t THEN "over" ELSE caller[c]]
  /\ UNCHANGED <<sessionVars, playing, viewer>>

----------------------------------------------------------------------------
(* The viewers, and the webhooks of the media server. *)

\* onPlay comes first, whether the stream is there or not.
OnPlay(v) ==
  /\ viewer[v] = "new"
  /\ Marks(TRUE)
  /\ \E step \in {"missing"} \cup (IF open = {} THEN {} ELSE {"watching"}) :
       viewer' = [viewer EXCEPT ![v] = step]
  /\ UNCHANGED <<sessionVars, flight, task, caller>>

\* onStreamNotFound starts the stream, however late it is handled.
OnStreamNotFound(v) ==
  /\ viewer[v] = "missing"
  /\ \/ Plays(v) /\ viewer' = [viewer EXCEPT ![v] = "watching"]
     \/ PlayFails(v) /\ viewer' = [viewer EXCEPT ![v] = "over"]
  /\ UNCHANGED <<flight, task, caller>>

StopsWatching(v) ==
  /\ viewer[v] = "watching"
  /\ viewer' = [viewer EXCEPT ![v] = "over"]
  /\ UNCHANGED <<sessionVars, playing, flight, task, caller>>

\* The media server closes the stream; the session is stopped by the webhook of that.
OnStreamNoneReader ==
  /\ open # {} /\ hooks = 0 /\ \A v \in Viewers : viewer[v] # "watching"
  /\ Marks(FALSE)
  /\ hooks' = 1
  /\ UNCHANGED <<inMap, open, abandoned, flight, task, caller, viewer>>

\* onStreamChanged of a stream that ended marks the row and stops the session that the
\* map has by now; a row that is not found or edited, or a device that is gone, ends it.
OnStreamGone ==
  /\ hooks > 0
  /\ \/ StopsFound(hooks - 1) /\ playing' = FALSE
     \/ hooks' = hooks - 1 /\ Marks(FALSE) /\ UNCHANGED <<inMap, open, abandoned>>
  /\ UNCHANGED <<flight, task, caller, viewer>>

SnapNext ==
  \/ \E c \in Callers :
       \/ AnswersAtOnce(c) \/ AsksDevice(c) \/ JoinFlight(c) \/ Leave(c)
       \/ ReadRow(c) \/ ReadFails(c) \/ StartStream(c) \/ StartStreamFails(c)
       \/ Capture(c) \/ CaptureFails(c) \/ GiveUp(c) \/ StopStream(c) \/ FlightEnds(c)
  \/ \E v \in Viewers : OnPlay(v) \/ OnStreamNotFound(v) \/ StopsWatching(v)
  \/ OnStreamNoneReader \/ OnStreamGone

SnapSpec == SnapInit /\ [][SnapNext]_snapVars

----------------------------------------------------------------------------
\* The session, the row, the flight and the calls keep their types.
SnapTypeOK ==
  /\ inMap \in Starters \cup {Empty, None} /\ open \subseteq Starters /\ abandoned \subseteq open
  /\ playing \in BOOLEAN /\ hooks \in Nat
  /\ flight \in Callers \cup {None}
  /\ task \in [Callers -> [pc : {"none", "read", "start", "first", "restart", "again", "stop",
                                 "return", "over"}, temporary : BOOLEAN]]
  /\ caller \in [Callers -> {"new", "joins", "waits", "over"}]
  /\ viewer \in [Viewers -> {"new", "missing", "watching", "over"}]

\* A session that a flight started for its picture belongs to the flight at work: it
\* does not outlast the flight, whatever way that ended, and no other flight of the
\* channel runs beside it, although calls come and go.  Not so a session that was
\* abandoned: its Play met an entry of the channel, even one that a failed Play had
\* left, and answered an object that is not in the map, so that the flight's StopPlay
\* finds nothing; or its ACK, its BYE or the StopPlay itself failed, which is only
\* logged (refreshGBSnapshotByLiveStream, DoChan, Play, StopPlay).
SnapStreamOfFlight ==
  \A t \in (open \cap Callers) \ abandoned : task[t].temporary => flight = t
=============================================================================
