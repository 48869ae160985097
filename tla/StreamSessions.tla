--------------------------- MODULE StreamSessions ---------------------------
(***************************************************************************)
(* A channel that is pushed to the media server by RTMP: whether its row   *)
(* says online, and whether the media server records it.  The server hears *)
(* of the publishers by webhooks, each handled in a goroutine of its own:  *)
(* on_publish, whose answer the media server waits for, on_stream_changed  *)
(* when a stream begins and when it ends, and on_server_started.  None     *)
(* names a session, so that the one of an old publisher acts on the new.   *)
(* An edit of the row that fails, and a call to record that fails, is      *)
(* logged and not tried again.  Recording is enabled in the configuration. *)
(***************************************************************************)
EXTENDS Naturals, FiniteSets

CONSTANTS
  Publishers,     \* connections that publish the channel's stream
  ModeSetters,    \* calls of setRecordMode
  MaxServerDeaths \* bound on the ends of the media server

ASSUME StreamAssumption ==
  Publishers \cap ModeSetters = {} /\ MaxServerDeaths \in Nat

VARIABLES
  shown,          \* is_online of the row
  mode,           \* its record mode: "none", or "always" and "ai", which record
  publisher,      \* each publisher: the step of its connection
  begun, ended,   \* each publisher: its two webhooks of on_stream_changed
  started,        \* the webhook on_server_started
  setter,         \* each call: [pc, mode]
  recorded,       \* the media server records the stream
  deaths,
  astray,         \* history: an authorised publisher never began to stream
  crossed,        \* history: since the live stream began two of begun, ended and setter
                  \* overlapped, a mode was set while the row was wrong about it, or
                  \* the row could not be read
  unwritten,      \* history: the last edit that was to take the row offline failed
  refused         \* history: its last call to start or stop recording failed

streamVars == <<shown, mode, publisher, begun, ended, started, setter, recorded,
                deaths, astray, crossed, unwritten, refused>>

Live == {p \in Publishers : publisher[p] = "live"}
Modes == {"none", "always"}

StreamInit ==
  /\ shown = FALSE /\ recorded = FALSE
  /\ mode \in Modes
  /\ publisher = [p \in Publishers |-> "new"]
  /\ begun = [p \in Publishers |-> "unsent"] /\ ended = [p \in Publishers |-> "unsent"]
  /\ started = FALSE
  /\ setter = [c \in ModeSetters |-> [pc |-> "new", mode |-> "none"]]
  /\ deaths = 0 /\ astray = FALSE /\ crossed = FALSE
  /\ unwritten = FALSE /\ refused = FALSE

Pending(hook) == hook \notin {"unsent", "done"}
\* Handlers that start or stop a recording, and the webhooks on their way.
Busy == {p \in Publishers : Pending(begun[p])} \cup {p \in Publishers : Pending(ended[p])}
          \cup {c \in ModeSetters : setter[c].pc \notin {"new", "done"}}

----------------------------------------------------------------------------
(* Publishers, and the handler of on_publish. *)

Connects(p) ==
  /\ publisher[p] = "new"
  /\ publisher' = [publisher EXCEPT ![p] = "asks"]
  /\ UNCHANGED <<shown, mode, begun, ended, started, setter, recorded, deaths, astray,
                 crossed, unwritten, refused>>

\* OnPublish: the row is not found, or the signature is wrong.
Refuse(p) ==
  /\ publisher[p] = "asks"
  /\ publisher' = [publisher EXCEPT ![p] = "over"]
  /\ UNCHANGED <<shown, mode, begun, ended, started, setter, recorded, deaths, astray,
                 crossed, unwritten, refused>>

\* OnPublish: the row is edited, which may fail, then the answer is given all the
\* same; it may be that of a connection that ended with the media server.
Authorise(p) ==
  /\ publisher[p] \in {"asks", "orphan"}
  /\ shown' \in {TRUE, shown}
  /\ publisher' = [publisher EXCEPT ![p] = IF @ = "asks" THEN "authorised" ELSE "over"]
  /\ astray' = (astray \/ publisher[p] = "orphan")
  /\ UNCHANGED <<mode, begun, ended, started, setter, recorded, deaths, crossed, unwritten,
                 refused>>

\* The media server takes one publisher of a stream at a time.
Begins(p) ==
  /\ publisher[p] = "authorised" /\ Live = {}
  /\ publisher' = [publisher EXCEPT ![p] = "live"]
  /\ begun' = [begun EXCEPT ![p] = "sent"]
  /\ crossed' = (Busy # {}) /\ refused' = FALSE
  /\ UNCHANGED <<shown, mode, ended, started, setter, recorded, deaths, astray, unwritten>>

TurnedAway(p) ==
  /\ publisher[p] = "authorised" /\ Live # {}
  /\ publisher' = [publisher EXCEPT ![p] = "over"]
  /\ UNCHANGED <<shown, mode, begun, ended, started, setter, recorded, deaths, astray,
                 crossed, unwritten, refused>>

\* Gone before its first frame: no stream began, and none ends.
Vanishes(p) ==
  /\ publisher[p] = "authorised"
  /\ publisher' = [publisher EXCEPT ![p] = "over"]
  /\ astray' = TRUE
  /\ UNCHANGED <<shown, mode, begun, ended, started, setter, recorded, deaths, crossed,
                 unwritten, refused>>

Ends(p) ==
  /\ publisher[p] = "live"
  /\ publisher' = [publisher EXCEPT ![p] = "over"]
  /\ ended' = [ended EXCEPT ![p] = "sent"]
  /\ recorded' = FALSE /\ crossed' = FALSE /\ refused' = FALSE
  /\ UNCHANGED <<shown, mode, begun, started, setter, deaths, astray, unwritten>>

\* The media server ends, its streams with it, and starts again.
ServerStarts ==
  /\ deaths < MaxServerDeaths /\ deaths' = deaths + 1
  /\ publisher' = [p \in Publishers |->
       CASE publisher[p] = "new" -> "new" [] publisher[p] = "asks" -> "orphan" [] OTHER -> "over"]
  /\ recorded' = FALSE /\ crossed' = FALSE /\ refused' = FALSE
  /\ started' = TRUE
  /\ UNCHANGED <<shown, mode, begun, ended, setter, astray, unwritten>>

----------------------------------------------------------------------------
(* onServerStarted and onStreamChanged *)

\* BatchOfflineRTMP
Offline == FALSE

\* An edit that may fail, which leaves the row as it is.
TakesOffline ==
  \/ shown' = Offline /\ unwritten' = FALSE
  \/ UNCHANGED shown /\ unwritten' = shown

OnServerStarted ==
  /\ started /\ started' = FALSE
  /\ TakesOffline
  /\ UNCHANGED <<mode, publisher, begun, ended, setter, recorded, deaths, astray, crossed,
                 refused>>

\* The row's mode is read, and decides.
BegunReads(p) ==
  /\ begun[p] = "sent"
  /\ begun' = [begun EXCEPT ![p] = IF mode = "none" THEN "done" ELSE "start"]
  /\ UNCHANGED <<shown, mode, publisher, ended, started, setter, recorded, deaths, astray,
                 crossed, unwritten, refused>>

\* Without its row the stream is recorded, whatever its mode.
BegunReadFails(p) ==
  /\ begun[p] = "sent"
  /\ begun' = [begun EXCEPT ![p] = "start"]
  /\ crossed' = (crossed \/ Live # {})
  /\ UNCHANGED <<shown, mode, publisher, ended, started, setter, recorded, deaths, astray,
                 unwritten, refused>>

\* StartRecording and StopRecording.  The media server starts none for a stream that
\* it does not have; a call that fails was carried out or was not.
Orders(on) ==
  LET effect == on /\ Live # {}
  IN \/ recorded' = effect /\ refused' = FALSE
     \/ recorded' \in {effect, recorded} /\ refused' = (Live # {})

BegunStarts(p) ==
  /\ begun[p] = "start"
  /\ begun' = [begun EXCEPT ![p] = "done"]
  /\ Orders(TRUE)
  /\ UNCHANGED <<shown, mode, publisher, ended, started, setter, deaths, astray, crossed,
                 unwritten>>

\* Whoever publishes the stream by now.
EndedStops(p) ==
  /\ ended[p] = "sent"
  /\ ended' = [ended EXCEPT ![p] = "offline"]
  /\ Orders(FALSE)
  /\ UNCHANGED <<shown, mode, publisher, begun, started, setter, deaths, astray, crossed,
                 unwritten>>

\* The adapter's OnStreamChanged, whoever publishes the stream by now; the row may
\* not be found.
EndedOffline(p) ==
  /\ ended[p] = "offline"
  /\ ended' = [ended EXCEPT ![p] = "done"]
  /\ TakesOffline
  /\ UNCHANGED <<mode, publisher, begun, started, setter, recorded, deaths, astray,
                 crossed, refused>>

----------------------------------------------------------------------------
(* setRecordMode *)

\* Mutant: the recording is left to the next webhook.
MutAfterMode(m) == IF m = "none" THEN "stop" ELSE "done"

\* What is left to do for a mode, by the row that the edit returns.
AfterMode(m) == IF m = "none" THEN "stop" ELSE IF shown THEN "start" ELSE "done"

SetMode(c, m) ==
  /\ setter[c].pc = "new"
  /\ mode' = m
  /\ setter' = [setter EXCEPT ![c] = [pc |-> AfterMode(m), mode |-> m]]
  /\ crossed' = (crossed \/ (Live # {} /\ (Busy # {} \/ ~shown)))
  /\ UNCHANGED <<shown, publisher, begun, ended, started, recorded, deaths, astray,
                 unwritten, refused>>

ModeApplies(c) ==
  /\ setter[c].pc \in {"start", "stop"}
  /\ setter' = [setter EXCEPT ![c].pc = "done"]
  /\ Orders(setter[c].pc = "start")
  /\ UNCHANGED <<shown, mode, publisher, begun, ended, started, deaths, astray, crossed,
                 unwritten>>

----------------------------------------------------------------------------
StreamNext ==
  \/ \E p \in Publishers :
       \/ Connects(p) \/ Refuse(p) \/ Authorise(p) \/ Begins(p) \/ TurnedAway(p)
       \/ Vanishes(p) \/ Ends(p)
       \/ BegunReads(p) \/ BegunReadFails(p) \/ BegunStarts(p)
       \/ EndedStops(p) \/ EndedOffline(p)
  \/ ServerStarts \/ OnServerStarted
  \/ \E c \in ModeSetters, m \in Modes : SetMode(c, m)
  \/ \E c \in ModeSetters : ModeApplies(c)

StreamSpec == StreamInit /\ [][StreamNext]_streamVars

----------------------------------------------------------------------------
\* The row, the connections and the handlers keep their types.
StreamTypeOK ==
  /\ shown \in BOOLEAN /\ recorded \in BOOLEAN /\ mode \in Modes
  /\ publisher \in [Publishers -> {"new", "asks", "orphan", "authorised", "live", "over"}]
  /\ begun \in [Publishers -> {"unsent", "sent", "start", "done"}]
  /\ ended \in [Publishers -> {"unsent", "sent", "offline", "done"}]
  /\ started \in BOOLEAN /\ astray \in BOOLEAN /\ crossed \in BOOLEAN
  /\ unwritten \in BOOLEAN /\ refused \in BOOLEAN
  /\ setter \in [ModeSetters -> [pc : {"new", "start", "stop", "done"}, mode : Modes]]
  /\ deaths \in 0..MaxServerDeaths

\* With no publisher left and every webhook handled the channel is offline,
\* whatever order they were handled in and whether streams ended one by one or
\* with the media server; unless a publisher was authorised and its stream never
\* began, or the last edit that was to take the row offline failed (rtmpadapter
\* OnPublish and OnStreamChanged, onServerStarted).
StreamGoneIsOffline ==
  /\ \A p \in Publishers : publisher[p] \in {"new", "over"}
  /\ \A p \in Publishers : ~Pending(begun[p]) /\ ~Pending(ended[p])
  /\ ~started /\ ~astray /\ ~unwritten
  => ~shown

\* Once no handler is left that starts or stops a recording, the stream is recorded
\* as its mode says, unless since it began handlers overlapped, its row could not be
\* read, the mode was set while a late webhook or a failed edit had the row offline,
\* or the last call to the media server failed, as every call to lalmax does
\* (onStreamChanged, setRecordMode, StartRecording, StopRecording).
StreamRecordedAsSet ==
  Live # {} /\ Busy = {} /\ ~crossed /\ ~refused => (recorded <=> mode # "none")

\* The channel is shown and recorded as its publishers come and go.
StreamFollowed == StreamGoneIsOffline /\ StreamRecordedAsSet
=============================================================================
