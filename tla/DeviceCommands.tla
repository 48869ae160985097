--------------------------- MODULE DeviceCommands ---------------------------
(***************************************************************************)
(* A command of a user on its way to a device: the handler finds the       *)
(* device or channel that the path names and passes the fields on, the     *)
(* core checks them and sets defaults, the protocol's adapter passes them  *)
(* on again, and package gbs finds the device in memory, checks what its   *)
(* version allows and writes the message.  A number is itself; a text is a *)
(* word, blank or empty; case, the blanks around a word and the spelling   *)
(* of XML are left out.                                                    *)
(***************************************************************************)
EXTENDS Integers, FiniteSets, Functions, TLC

VARIABLES
  command,        \* what the user asks: [op, by, name, target, given]
  at,             \* the step of the call
  fields,         \* the fields as the last layer passed them on
  world,          \* the rows, and the device in memory
  outcome         \* what the device is told, or why the call was refused

commandVars == <<command, at, fields, world, outcome>>

\* Nothing given, or said.
Empty == [f \in {} |-> 0]

----------------------------------------------------------------------------
(* What a user may ask: a name, written with '_' or with '-', a target and  *)
(* any of the fields of the operation.                                      *)

DeviceOps == {"control", "query", "sync", "subscribe", "options"}
StartOps == {"history_start", "voice_start"}
SessionOps == StartOps \cup {"history_stop", "history_control", "voice_stop"}
ChannelOps == {"ptz", "probe", "records", "upgrade"} \cup SessionOps
Ops == DeviceOps \cup ChannelOps

ControlFields == {"timeout", "ptz_cmd", "ptz_cmd_param", "stream_number", "alarm_method", "alarm_type",
                  "drag_zoom", "home_position", "ptz_precise", "sdcard_id"}
QueryFields == {"timeout", "config_type", "interval", "start_at", "end_at"}
PtzFields == {"speed", "timeout", "preset", "group", "aux", "value"}
UpgradeFields == {"firmware", "file_url", "manufacturer", "session_id", "timeout"}
HistoryFields == {"mode", "start_at", "end_at", "cmd", "act", "scale", "seek_at"}

\* The inputs of the handlers; action and target_id are taken apart from the rest.
FieldsOf ==
  [control |-> ControlFields, query |-> QueryFields, sync |-> {}, subscribe |-> {"event", "expires"},
   options |-> {"timeout"}, ptz |-> PtzFields, probe |-> {"speed", "timeout"},
   records |-> {"start_at", "end_at", "timeout"}, upgrade |-> UpgradeFields,
   history_start |-> HistoryFields, history_stop |-> HistoryFields, history_control |-> HistoryFields,
   voice_start |-> {"mode"}, voice_stop |-> {"mode"}]

Texts == {"ptz_cmd", "alarm_method", "alarm_type", "config_type", "firmware", "file_url", "manufacturer",
          "session_id", "mode", "cmd", "act", "event"}

Zoom == [length |-> 1, width |-> 2, mid_point_x |-> 3, mid_point_y |-> 4, length_x |-> 5, length_y |-> 6]
Home == [enabled |-> 0, reset_time |-> 2, preset_index |-> 3]
Precise == [pan |-> 0, tilt |-> 2, zoom |-> 3]
Named == [preset_name |-> "p", cruise_track_name |-> "t"]

\* Of each field a usual value first, then those at a boundary.
Usual(f) ==
  CASE f = "drag_zoom" -> Zoom [] f = "home_position" -> Home [] f = "ptz_precise" -> Precise
    [] f = "ptz_cmd_param" -> Named [] f = "config_type" -> "osdconfig" [] f = "mode" -> "playback"
    [] f \in Texts -> f [] f = "timeout" -> 5 [] f = "stream_number" -> 1 [] f = "end_at" -> 9
    [] OTHER -> 2

Edges(f) ==
  CASE f = "drag_zoom" -> {Restrict(Zoom, {"length_x"})}
    [] f = "home_position" -> {Restrict(Home, s) : s \in SUBSET DOMAIN Home}
    [] f = "ptz_precise" -> {Restrict(Precise, s) : s \in SUBSET DOMAIN Precise}
    [] f = "ptz_cmd_param" -> {[Named EXCEPT !.preset_name = " "], Restrict(Named, {"preset_name"})}
    [] f = "config_type" -> {"", " ", "basicparam", "basic_param"}
    [] f = "mode" -> {"", "download", "talk", "broadcast"}
    [] f \in Texts -> {"", " "}
    [] f \in {"speed", "group", "aux", "value"} -> {0}
    [] f = "preset" -> {0, 255, 256}
    [] f \in {"start_at", "end_at"} -> {0, 1, 3}
    [] OTHER -> {-1, 0, 3}

\* All of the fields, but for one that is missing or at a boundary; or only one of them.
Givens(fs) ==
  LET all == [f \in fs |-> Usual(f)]
      one(f) == {Usual(f)} \cup Edges(f)
  IN  {all, Empty}
        \cup UNION {{[all EXCEPT ![f] = v] : v \in Edges(f)} : f \in fs}
        \cup {Restrict(all, fs \ {f}) : f \in fs}
        \cup UNION {{f :> v : v \in one(f)} : f \in fs}

Underscored(words) == {[word |-> w, dashed |-> FALSE] : w \in words}
Dashed(words) == {[word |-> w, dashed |-> TRUE] : w \in words}
NoName == [word |-> "", dashed |-> FALSE]

\* Each action by its own name and one or two of its others.
ControlNames ==
  Underscored({"camera_control", "ptz_cmd", "reboot", "tele_boot", "record_start", "record_off", "arm", "disarm",
               "alarm_reset", "iframe", "drag_zoom_in", "drag_zoom_out", "home_position", "ptz_precise",
               "format_sdcard", "", "dance"}) \cup Dashed({"record_start", "format_sd_card"})
QueryNames ==
  Underscored({"catalog", "device_info", "status", "record_info", "file_query", "recordinfo", "preset_query",
               "home_position_query", "sdcard_status", "config_download", "mobile_position", "", "weather"})
    \cup Dashed({"record_info", "config_download"})
PtzNames == Underscored({"left", "right_up", "zoom_out", "stop", "preset_call", "focus_far", "", "jump"})

NamesOf(op) ==
  CASE op = "control" -> ControlNames [] op = "query" -> QueryNames
    [] op \in {"ptz", "probe"} -> PtzNames [] OTHER -> {NoName}

Commands ==
  UNION {[op : {op}, by : IF op = "records" THEN {"id", "codes"} ELSE {"id"}, name : NamesOf(op),
          target : IF op \in {"control", "query"} THEN {"", "c1"} ELSE {""},
          given : Givens(FieldsOf[op])] : op \in Ops}

\* The rows: the protocol of the device, or none, and whether the channel's is there; the
\* device in memory: whether it is online, the version it registered with, and whether
\* its channel is known; and whether the media server's row is there.
Good == [device |-> "gb", channel |-> TRUE, online |-> TRUE, version |-> 2022, known |-> TRUE, media |-> TRUE]
Worlds ==
  {Good, [Good EXCEPT !.device = "none"], [Good EXCEPT !.device = "onvif"], [Good EXCEPT !.channel = FALSE],
   [Good EXCEPT !.online = FALSE], [Good EXCEPT !.version = 2016], [Good EXCEPT !.known = FALSE],
   [Good EXCEPT !.media = FALSE]}

UsualCommand == \A f \in DOMAIN command.given : command.given[f] = Usual(f)

\* Only a command of usual values is tried with all of the worlds.
CommandInit ==
  /\ command \in Commands
  /\ at = "resolve" /\ fields = command.given
  /\ world \in Worlds /\ (UsualCommand \/ world = Good)
  /\ outcome = [told |-> "nothing"]

----------------------------------------------------------------------------
(* Reading a field: one that is not given is zero, empty or nil. *)

Gives(in, f) == f \in DOMAIN in
Num(in, f) == IF Gives(in, f) THEN in[f] ELSE 0
Text(in, f) == IF Gives(in, f) /\ in[f] # " " THEN in[f] ELSE ""
WithDefault(in, f, n) == IF Num(in, f) <= 0 THEN (f :> n) @@ in ELSE in

ValidRange(in) == Num(in, "start_at") > 0 /\ Num(in, "end_at") > Num(in, "start_at")
PresetInRange(in) == Num(in, "preset") \in 1..255

----------------------------------------------------------------------------
(* The handlers *)

\* What each handler passes to the core: of a history session only what the operation needs.
SessionPasses ==
  [history_start |-> {"mode", "start_at", "end_at"}, history_stop |-> {"mode"},
   history_control |-> {"mode", "cmd", "act", "scale", "seek_at"},
   voice_start |-> {"mode"}, voice_stop |-> {"mode"}]
RecordsPass == {"start_at", "end_at", "timeout"}
UpgradePasses == {"firmware", "file_url", "manufacturer", "session_id", "timeout"}
DevicePasses ==
  [sync |-> {}, subscribe |-> {"event", "expires"}, options |-> {"timeout"},
   control |-> {"timeout", "ptz_cmd", "ptz_cmd_param", "stream_number", "alarm_method", "alarm_type",
                "sdcard_id", "drag_zoom", "home_position", "ptz_precise"}]

QueryPasses == {"timeout", "config_type", "interval", "start_at", "end_at"}
PtzPasses == {"speed", "timeout", "preset", "group", "aux", "value"}
ProbePasses == {"speed", "timeout"}

Passes(op) ==
  CASE op \in SessionOps -> SessionPasses[op] [] op \in DOMAIN DevicePasses -> DevicePasses[op]
    [] op = "query" -> QueryPasses [] op = "ptz" -> PtzPasses [] op = "probe" -> ProbePasses
    [] op = "records" -> RecordsPass [] op = "upgrade" -> UpgradePasses

\* probeChannelPTZ: a probe that names no action stops the camera.
Name ==
  IF command.op = "probe" /\ command.name = NoName THEN [word |-> "stop", dashed |-> FALSE] ELSE command.name

Refuse(why) ==
  /\ outcome' = [told |-> "refused", why |-> why]
  /\ at' = "over"
  /\ UNCHANGED <<command, fields, world>>

Continues(step, in) ==
  /\ at' = step /\ fields' = in
  /\ UNCHANGED <<command, world, outcome>>

Tells(message) ==
  /\ outcome' = message
  /\ at' = "over"
  /\ UNCHANGED <<command, fields, world>>

\* resolveDeviceParamID, resolveChannelParamID: the row of the device, or of the channel if
\* its codes were given, is looked up; a channel's own id is taken as it is.
Resolve ==
  /\ at = "resolve"
  /\ LET found == IF command.op \in DeviceOps THEN world.device # "none" ELSE command.by = "id" \/ world.channel
     IN  IF found THEN Continues("core", Restrict(fields, Passes(command.op) \cap DOMAIN fields)) ELSE Refuse("missing")

----------------------------------------------------------------------------
(* The core *)

\* The protocols that implement the operation.
Capable(op) == IF op \in {"ptz", "probe"} THEN {"gb", "onvif"} ELSE {"gb"}

Modes(op) == IF op \in {"voice_start", "voice_stop"} THEN {"talk", "broadcast"} ELSE {"playback", "download"}

\* GBDeviceQuery knows three names of the records' query, and only with '_'; gbs checks again.
RecordsByName == Name.word \in {"record_info", "record_query", "file_query"} /\ ~Name.dashed

\* What UpgradeDevice wants.
UpgradeNeeds == {"firmware", "file_url", "manufacturer"}

\* Speed and time of a command that names none.
PtzDefaults(in) == WithDefault(WithDefault(in, "timeout", 6), "speed", 40)

CoreAccepts(op, in) ==
  CASE op = "control" -> Name.word # ""
    [] op = "query" -> Name.word # "" /\ (RecordsByName => command.target # "" /\ ValidRange(in))
    [] op \in {"ptz", "probe"} -> Name.word # "" /\ (Name.word = "preset_call" => PresetInRange(in))
    [] op = "records" -> ValidRange(in)
    [] op = "upgrade" -> \A f \in UpgradeNeeds : Text(in, f) # ""
    [] op \in SessionOps -> Text(in, "mode") \in Modes(op) /\ (op = "history_start" => ValidRange(in))
    [] OTHER -> TRUE

CoreDefaults(op, in) ==
  CASE op \in {"control", "query"} -> WithDefault(in, "timeout", 6)
    [] op \in {"ptz", "probe"} -> PtzDefaults(in)
    [] op = "records" -> WithDefault(in, "timeout", 10)
    [] op = "upgrade" -> WithDefault(in, "timeout", 8)
    [] OTHER -> in

\* The channel's row, the device's, the protocol, and then what was asked.
Core ==
  /\ at = "core"
  /\ IF world.device = "none" \/ (command.op \in ChannelOps /\ ~world.channel) THEN Refuse("missing")
     ELSE IF world.device \notin Capable(command.op) THEN Refuse("unsupported")
     ELSE IF ~CoreAccepts(command.op, fields) THEN Refuse("invalid")
     ELSE Continues(IF world.device = "onvif" THEN "onvif" ELSE "look", CoreDefaults(command.op, fields))

----------------------------------------------------------------------------
(* The ONVIF adapter *)

\* PTZControl: the velocity of a continuous move: pan, tilt and zoom; a device that is not
\* set up is not known.
Velocity ==
  [left |-> <<-1, 0, 0>>, right |-> <<1, 0, 0>>, up |-> <<0, 1, 0>>, down |-> <<0, -1, 0>>,
   left_up |-> <<-1, 1, 0>>, left_down |-> <<-1, -1, 0>>, right_up |-> <<1, 1, 0>>, right_down |-> <<1, -1, 0>>,
   zoom_in |-> <<0, 0, 1>>, zoom_out |-> <<0, 0, -1>>]

Onvif ==
  /\ at = "onvif"
  /\ CASE ~world.known -> Refuse("missing")
       [] Name.word \in DOMAIN Velocity ->
            Tells([told |-> "move", velocity |-> Velocity[Name.word], speed |-> fields.speed])
       [] Name.word = "stop" -> Tells([told |-> "stop"])
       [] Name.word = "preset_call" -> Tells([told |-> "preset", preset |-> fields.preset])
       [] Name.word = "focus_far" -> Tells([told |-> "focus", far |-> TRUE, speed |-> fields.speed])
       [] OTHER -> Refuse("invalid")

----------------------------------------------------------------------------
(* The GB28181 adapter and package gbs *)

\* What each method of the adapter passes on; of an object, all of it.
CommandCopies ==
  [ptz |-> PtzFields, probe |-> PtzFields, records |-> {"start_at", "end_at", "timeout"}, upgrade |-> UpgradeFields]
SessionCopies ==
  [history_start |-> {"mode", "start_at", "end_at"}, history_stop |-> {"mode"},
   history_control |-> {"mode", "cmd", "act", "scale", "seek_at"}, voice_start |-> {"mode"}, voice_stop |-> {"mode"},
   sync |-> {}, subscribe |-> {"event", "expires"}, options |-> {"timeout"}]
DeviceCopies ==
  [control |-> {"timeout", "ptz_cmd", "ptz_cmd_param", "stream_number", "alarm_method", "alarm_type", "sdcard_id",
                "drag_zoom", "home_position", "ptz_precise"},
   query |-> {"timeout", "config_type", "interval", "start_at", "end_at"}]
Copies(in) == Restrict(in, (CommandCopies @@ SessionCopies @@ DeviceCopies)[command.op] \cap DOMAIN in)

\* The names of an action: normalizeDeviceControlAction and normalizeDeviceQueryAction
\* replace '-' by '_' first.
ControlAlias ==
  [camera |-> "camera_control", camera_ctrl |-> "camera_control", ptz_cmd |-> "camera_control",
   teleboot |-> "tele_boot", reboot |-> "tele_boot", record |-> "record_start", record_on |-> "record_start",
   stop_record |-> "record_stop", record_off |-> "record_stop", set_guard |-> "guard_set",
   guard_on |-> "guard_set", arm |-> "guard_set", reset_guard |-> "guard_reset", guard_off |-> "guard_reset",
   disarm |-> "guard_reset", reset_alarm |-> "alarm_reset", iframe |-> "iframe_send",
   iframe_cmd |-> "iframe_send", ptz_precise_ctrl |-> "ptz_precise", format_sd_card |-> "format_sdcard"]
QueryAlias ==
  [status |-> "device_status", device_status_query |-> "device_status", file_query |-> "record_info",
   record_query |-> "record_info", recordinfo |-> "record_info", record_info_query |-> "record_info",
   ptz_precise_status |-> "ptz_position", ptz_position_query |-> "ptz_position",
   sd_card_status |-> "sdcard_status"]
Normalized(alias, word) == IF word \in DOMAIN alias THEN alias[word] ELSE word

\* toGBHomePosition, toGBPTZPrecise, toGBPTZCmdParam: objects whose fields may be nil.
Object(in, f) == IF Gives(in, f) THEN in[f] ELSE Empty

\* What is 0 if it is not given, and what is left out.
Whole(names, object) == [n \in names |-> Num(object, n)]
Worded(object) == Restrict(object, {n \in DOMAIN object : Text(object, n) # ""})

\* The elements of a request that each are a command.
CommandElements ==
  {"TeleBoot", "PTZCmd", "RecordCmd", "GuardCmd", "AlarmCmd", "IFrameCmd", "DragZoomIn", "DragZoomOut",
   "HomePosition", "PTZPreciseCtrl", "FormatSDCard"}

\* Commands of one word, each in an element of its own.
PlainCommand ==
  [tele_boot |-> "TeleBoot" :> "Boot", guard_set |-> "GuardCmd" :> "SetGuard",
   guard_reset |-> "GuardCmd" :> "ResetGuard", iframe_send |-> "IFrameCmd" :> "Send",
   alarm_reset |-> "AlarmCmd" :> "ResetAlarm",
   record_start |-> "RecordCmd" :> "Record", record_stop |-> "RecordCmd" :> "StopRecord"]

Only2022 == {"home_position", "ptz_precise", "format_sdcard"}

\* fillDeviceControlRequest: what makes it fail, after the version.
ControlAccepts(action, in) ==
  CASE action = "camera_control" -> Text(in, "ptz_cmd") # ""
    [] action \in {"record_start", "record_stop"} -> Num(in, "stream_number") \in 0..2
    [] action \in {"drag_zoom_in", "drag_zoom_out"} -> Gives(in, "drag_zoom")
    [] action = "ptz_precise" -> DOMAIN Object(in, "ptz_precise") # {}
    [] action = "format_sdcard" -> Num(in, "sdcard_id") >= 0
    [] OTHER -> action \in DOMAIN PlainCommand \cup {"home_position"}

\* Mutant: a zero is left out, as an empty text is.
MutHomePosition(in) ==
  LET home == Object(in, "home_position")
  IN  Restrict(home, {n \in DOMAIN home : home[n] # 0}) @@ ("enabled" :> 1)

\* Its switch is on unless it is said to be off; what is nil is left out, a zero is not.
HomePosition(in) == Object(in, "home_position") @@ ("enabled" :> 1)

AlarmInfo(in) ==
  LET said == {f \in {"alarm_method", "alarm_type"} : Text(in, f) # ""}
  IN  IF said = {} THEN Empty ELSE "Info" :> [f \in said |-> in[f]]

\* The elements of the request.
ControlElements(action, in) ==
  CASE action = "camera_control" ->
         ("PTZCmd" :> Text(in, "ptz_cmd"))
           @@ (IF Gives(in, "ptz_cmd_param") THEN "PTZCmdParams" :> Worded(in["ptz_cmd_param"]) ELSE Empty)
    [] action \in {"record_start", "record_stop"} ->
         PlainCommand[action] @@ ("StreamNumber" :> Num(in, "stream_number"))
    [] action = "alarm_reset" -> PlainCommand[action] @@ AlarmInfo(in)
    [] action = "drag_zoom_in" -> "DragZoomIn" :> Whole(DOMAIN Zoom, in["drag_zoom"])
    [] action = "drag_zoom_out" -> "DragZoomOut" :> Whole(DOMAIN Zoom, in["drag_zoom"])
    [] action = "home_position" -> "HomePosition" :> HomePosition(in)
    [] action = "ptz_precise" -> "PTZPreciseCtrl" :> in["ptz_precise"]
    [] action = "format_sdcard" -> "FormatSDCard" :> Num(in, "sdcard_id")
    [] OTHER -> PlainCommand[action]

CmdType ==
  [catalog |-> "Catalog", broadcast |-> "Broadcast", device_info |-> "DeviceInfo",
   device_status |-> "DeviceStatus", record_info |-> "RecordInfo", preset_query |-> "PresetQuery",
   home_position_query |-> "HomePositionQuery", ptz_position |-> "PTZPosition",
   sdcard_status |-> "SDCardStatus", config_download |-> "ConfigDownload",
   mobile_position |-> "MobilePosition"]

\* normalizeConfigType; all but the first need 2022.
ConfigTypes ==
  [basicparam |-> "BasicParam", videoparamopt |-> "VideoParamOpt", svacencodeconfig |-> "SVACEncodeConfig",
   svacdecodeconfig |-> "SVACDecodeConfig", videoparamattribute |-> "VideoParamAttribute",
   videorecordplan |-> "VideoRecordPlan", videoalarmrecord |-> "VideoAlarmRecord",
   picturemask |-> "PictureMask", framemirror |-> "FrameMirror", alarmreport |-> "AlarmReport",
   osdconfig |-> "OSDConfig", snapshot |-> "SnapShot"]

\* requireGBVersionAtLeast of the queries.
QueryNeeds2022(action, in) ==
  \/ action \in {"home_position_query", "ptz_position", "sdcard_status"}
  \/ action = "config_download" /\ Text(in, "config_type") # "basicparam"

QueryAccepts(action, in) ==
  /\ action \in DOMAIN CmdType
  /\ action = "config_download" => Text(in, "config_type") \in DOMAIN ConfigTypes
  /\ action = "record_info" => command.target # "" /\ ValidRange(in)

QueryElements(action, in) ==
  ("CmdType" :> CmdType[action])
    @@ (CASE action = "config_download" -> "ConfigType" :> ConfigTypes[in["config_type"]]
          [] action = "mobile_position" /\ Num(in, "interval") > 0 -> "Interval" :> in["interval"]
          [] action = "record_info" -> ("StartTime" :> in["start_at"]) @@ ("EndTime" :> in["end_at"])
          [] OTHER -> Empty)

\* The device in memory, and for what is addressed to a channel the channel of that device.
Offline == ~world.online
ToDevice(elements) ==
  [told |-> "message", target |-> IF command.op \in DeviceOps THEN command.target ELSE "c1",
   wait |-> Num(fields, "timeout"), elements |-> elements]

\* The first check of each operation; that of an upgrade is the version, that of the start
\* of a session the media server's row.
Look ==
  /\ at = "look"
  /\ IF command.op = "upgrade" /\ world.version < 2022 THEN Refuse("version")
     ELSE IF command.op \in StartOps /\ ~world.media THEN Refuse("missing")
     ELSE IF command.op \notin SessionOps /\ Offline THEN Refuse("offline")
     ELSE Continues("fill", Copies(fields))

FillControl(action) ==
  IF action \in Only2022 /\ world.version < 2022 THEN Refuse("version")
  ELSE IF ~ControlAccepts(action, fields) THEN Refuse("invalid")
  ELSE IF command.target # "" /\ ~world.known THEN Refuse("missing")
  ELSE Tells(ToDevice(ControlElements(action, fields)))

\* A query of the records looks the device up again.
FillQuery(action) ==
  LET valid == QueryAccepts(action, fields)
      old == QueryNeeds2022(action, fields) /\ world.version < 2022
      gone == command.target # "" /\ (~world.known \/ (action = "record_info" /\ Offline))
  IN  IF ~valid THEN Refuse("invalid")
      ELSE IF old THEN Refuse("version")
      ELSE IF gone THEN Refuse("missing")
      ELSE Tells(ToDevice(QueryElements(action, fields)))

\* A session goes on in StartHistory, StopHistory, ControlHistory, StartVoice or StopVoice,
\* which know it by its mode.
FillSession ==
  IF ~world.known THEN Refuse("missing")
  ELSE IF command.op \in StartOps /\ Offline THEN Refuse("offline")
  ELSE Tells([told |-> command.op, mode |-> fields.mode, says |-> Restrict(fields, DOMAIN fields \ {"mode"})])

\* encodePTZCommand takes the numbers into its bytes; it knows no other names.
FillPtz ==
  IF ~world.known THEN Refuse("missing")
  ELSE IF Name.word = "jump" THEN Refuse("invalid")
  ELSE Tells(ToDevice(("PTZCmd" :> Name.word) @@ Restrict(fields, DOMAIN fields \ {"timeout"})))

FillUpgrade ==
  IF ~world.known THEN Refuse("missing")
  ELSE Tells(ToDevice("DeviceUpgrade" :> Worded(Restrict(fields, DOMAIN fields \ {"timeout"}))))

FillRecords ==
  IF ~world.known THEN Refuse("missing")
  ELSE Tells(ToDevice(("CmdType" :> "RecordInfo") @@ ("StartTime" :> fields["start_at"])
                       @@ ("EndTime" :> fields["end_at"])))

FillSubscribe ==
  Tells(ToDevice(("CmdType" :> IF Text(fields, "event") = "" THEN "Alarm" ELSE fields["event"])
                  @@ ("Expires" :> IF Num(fields, "expires") <= 0 THEN 3600 ELSE fields["expires"])))

Fill ==
  /\ at = "fill"
  /\ CASE command.op = "control" -> FillControl(Normalized(ControlAlias, Name.word))
       [] command.op = "query" -> FillQuery(Normalized(QueryAlias, Name.word))
       [] command.op \in {"ptz", "probe"} -> FillPtz
       [] command.op = "records" -> FillRecords
       [] command.op = "upgrade" -> FillUpgrade
       [] command.op = "subscribe" -> FillSubscribe
       [] command.op = "sync" -> Tells(ToDevice("Time" :> "now"))
       [] command.op = "options" ->
            Tells([ToDevice("Method" :> "OPTIONS") EXCEPT !.wait = IF @ <= 0 THEN 3 ELSE @])
       [] OTHER -> FillSession

CommandNext == Resolve \/ Core \/ Onvif \/ Look \/ Fill

CommandSpec == CommandInit /\ [][CommandNext]_commandVars

----------------------------------------------------------------------------
CommandTypeOK ==
  /\ command \in Commands /\ world \in Worlds
  /\ at \in {"resolve", "core", "onvif", "look", "fill", "over"}
  /\ DOMAIN fields \subseteq FieldsOf[command.op] \cup {"timeout", "speed"}

\* What the elements of a message carry: the field that the user gave.
Carries ==
  [camera_control |-> ("PTZCmd" :> "ptz_cmd") @@ ("PTZCmdParams" :> "ptz_cmd_param"),
   record_start |-> "StreamNumber" :> "stream_number", record_stop |-> "StreamNumber" :> "stream_number",
   drag_zoom_in |-> "DragZoomIn" :> "drag_zoom", drag_zoom_out |-> "DragZoomOut" :> "drag_zoom",
   home_position |-> "HomePosition" :> "home_position", ptz_precise |-> "PTZPreciseCtrl" :> "ptz_precise",
   format_sdcard |-> "FormatSDCard" :> "sdcard_id",
   record_info |-> ("StartTime" :> "start_at") @@ ("EndTime" :> "end_at"),
   mobile_position |-> "Interval" :> "interval"]

Action == Normalized(ControlAlias @@ QueryAlias, Name.word)
Told == outcome.told \notin {"nothing", "refused"}
ObjectFields == {"drag_zoom", "home_position", "ptz_precise", "ptz_cmd_param"}

\* A field is said if its value is; an object, if each of its values that is no blank is.
SaysField(e, f) ==
  LET given == command.given[f]
  IN  /\ e \in DOMAIN outcome.elements
      /\ IF f \in ObjectFields
           THEN \A n \in DOMAIN (IF f = "ptz_cmd_param" THEN Worded(given) ELSE given) :
                  n \in DOMAIN outcome.elements[e] /\ outcome.elements[e][n] = given[n]
           ELSE outcome.elements[e] = given

\* There is one element that says which command it is.
OneCommand == Cardinality(DOMAIN outcome.elements \cap CommandElements) = 1

\* Everything that the operation needs is given, each at its usual value.
WholeCommand ==
  /\ command.given = [f \in FieldsOf[command.op] |-> Usual(f)]
  /\ Name.word \notin {"", "dance", "weather", "jump"}
  /\ command.op = "query" => command.target = "c1"
  /\ command.op \notin {"voice_start", "voice_stop"}
  /\ command.op = "probe" => Name.word # "preset_call"

\* A field is kept among what is said; a text that is blank says nothing.
StillSaid(said, f) ==
  Gives(command.given, f) /\ (f \in Texts => Text(command.given, f) # "") =>
    f \in DOMAIN said /\ said[f] = command.given[f]

\* What an element of its own does not carry: the details of an alarm, the kind of a
\* configuration, and the fields of PTZ, upgrades and sessions; a speed has a default.
KeepsRest ==
  /\ command.op = "control" /\ Action = "alarm_reset" =>
       \A f \in {"alarm_method", "alarm_type"} : StillSaid(Object(outcome.elements, "Info"), f)
  /\ command.op = "query" /\ Action = "config_download" =>
       outcome.elements["ConfigType"] = ConfigTypes[command.given["config_type"]]
  /\ command.op \in {"ptz", "probe"} /\ world.device = "gb" =>
       \A f \in PtzFields \ {"timeout"} :
         (f = "speed" => Num(command.given, f) > 0) => StillSaid(outcome.elements, f)
  /\ command.op = "upgrade" =>
       \A f \in UpgradeFields \ {"timeout"} : StillSaid(outcome.elements["DeviceUpgrade"], f)
  /\ command.op = "history_start" => \A f \in {"start_at", "end_at"} : StillSaid(outcome.says, f)
  /\ command.op = "history_control" => \A f \in {"cmd", "act", "scale", "seek_at"} : StillSaid(outcome.says, f)

\* A user's command loses nothing on its way through the layers, each of which copies its
\* fields one by one: what the device is told (what the code of a session is told)
\* carries every value that was given for the command, zeros too, but for blank texts
\* and speeds and intervals that are not positive; it is one command only; it waits as
\* long as was asked; a command that is complete is told to a device that can take it;
\* and what only the version of 2022 defines is never told to an older device
\* (handlers, gb9.go, Adapter, fillDeviceControlRequest, resolveDeviceQueryCmdType).
CommandSaysAll ==
  /\ Told /\ command.op \in {"control", "query"} /\ Action \in DOMAIN Carries =>
       \A e \in DOMAIN Carries[Action] : LET f == Carries[Action][e]
                                         IN  Gives(command.given, f) /\ (f = "interval" => command.given[f] > 0)
                                               => SaysField(e, f)
  /\ Told => KeepsRest
  /\ Told /\ command.op = "control" => OneCommand
  /\ outcome.told = "message" /\ Num(command.given, "timeout") > 0 =>
       outcome.wait = command.given["timeout"]
  /\ Told /\ world.version < 2022 =>
       ~ (command.op = "upgrade" \/ (command.op = "control" /\ Action \in Only2022))
  /\ WholeCommand /\ world = Good /\ at = "over" => Told
=============================================================================
