--------------------------- MODULE MCHostServices ---------------------------
(***************************************************************************)
(* Seven services around the GB28181 server, and the way of a request into *)
(* it, which share no state here, one at a time: `part` says which one     *)
(* runs.  Those that wait begin in one fixed state.                        *)
(***************************************************************************)
EXTENDS MediaNodes, RetentionCleanup, AiTasks, OnvifHealth,
  StreamSessions, ChannelCounts, Snapshots, SipHandlers

VARIABLE part

hostVars == <<nodeVars, cleanVars, aiVars, onvifVars, streamVars, countVars,
             snapVars, handlerVars, part>>

\* Two recordings, or events of one detection, and a later one.
MCStartOf == [r \in Rows |-> IF r = 3 THEN 1 ELSE 0]

HostInit ==
  /\ part \in {"nodes", "retention", "analysis", "onvif", "streams", "channels", "pictures", "requests"}
  /\ NodeInit /\ (part = "nodes" \/ alive = {})
  /\ CleanInit /\ (part = "retention" \/ table = "events")
  /\ AiInit /\ (part = "analysis" \/ (enabled = {} /\ here = {}))
  /\ OnvifInit /\ (part = "onvif" \/ (answers = {} /\ row = [d \in OnvifDevices |-> "new"]))
  /\ StreamInit /\ (part = "streams" \/ mode = "none")
  /\ CountInit /\ SnapInit
  /\ HandlersInit /\ (part = "requests" \/ (~checked /\ cached = Absent))

InNodes(A) ==
  part = "nodes" /\ A /\ UNCHANGED <<cleanVars, aiVars, onvifVars, streamVars, countVars, snapVars, handlerVars, part>>
InRetention(A) ==
  part = "retention" /\ A /\ UNCHANGED <<nodeVars, aiVars, onvifVars, streamVars, countVars, snapVars, handlerVars, part>>
InAnalysis(A) ==
  part = "analysis" /\ A /\ UNCHANGED <<nodeVars, cleanVars, onvifVars, streamVars, countVars, snapVars, handlerVars, part>>
InOnvif(A) ==
  part = "onvif" /\ A /\ UNCHANGED <<nodeVars, cleanVars, aiVars, streamVars, countVars, snapVars, handlerVars, part>>
InStreams(A) ==
  part = "streams" /\ A /\ UNCHANGED <<nodeVars, cleanVars, aiVars, onvifVars, countVars, snapVars, handlerVars, part>>
InChannels(A) ==
  part = "channels" /\ A /\ UNCHANGED <<nodeVars, cleanVars, aiVars, onvifVars, streamVars, snapVars, handlerVars, part>>
InPictures(A) ==
  part = "pictures" /\ A /\ UNCHANGED <<nodeVars, cleanVars, aiVars, onvifVars, streamVars, countVars, handlerVars, part>>
InRequests(A) ==
  part = "requests" /\ A /\ UNCHANGED <<nodeVars, cleanVars, aiVars, onvifVars, streamVars, countVars, snapVars, part>>

HostNext ==
  \/ InNodes(NodeNext)
  \/ InRetention(CleanNext)
  \/ InAnalysis(AiNext)
  \/ InOnvif(OnvifNext)
  \/ InStreams(StreamNext)
  \/ InChannels(CountNext)
  \/ InPictures(SnapNext)
  \/ InRequests(HandlersNext)

\* Timers, goroutines, calls with a timeout and webhooks go on; a start and a
\* deletion that are tried for ever succeed in the end.  Fairness speaks of the
\* variables of a part, since its steps leave the others alone.
HostSpec ==
  /\ HostInit /\ [][HostNext]_hostVars
  /\ WF_nodeVars(part = "nodes" /\ Check) /\ WF_nodeVars(part = "nodes" /\ Keepalive)
  /\ \A s \in Servers : /\ WF_nodeVars(part = "nodes" /\ GetsOld(s))
                        /\ WF_nodeVars(part = "nodes" /\ ReadPorts(s)) /\ WF_nodeVars(part = "nodes" /\ Setup(s))
  /\ WF_cleanVars(part = "retention" /\ Clean) /\ WF_cleanVars(part = "retention" /\ DayPasses)
  /\ SF_cleanVars(part = "retention" /\ FindExpired) /\ SF_cleanVars(part = "retention" /\ DeleteRows)
  /\ WF_aiVars(part = "analysis" /\ Sync)
  /\ \A c \in Cameras : SF_aiVars(part = "analysis" /\ SyncStarts(c)) /\ WF_aiVars(part = "analysis" /\ OnStopped(c))
  /\ \A a \in Calls : WF_aiVars(part = "analysis" /\ Called(a))
  /\ WF_onvifVars(part = "onvif" /\ Interval) /\ WF_onvifVars(part = "onvif" /\ SyncRow)
  /\ \A d \in OnvifDevices :
       /\ WF_onvifVars(part = "onvif" /\ Start(d)) /\ WF_onvifVars(part = "onvif" /\ Connect(d))
       /\ WF_onvifVars(part = "onvif" /\ Reconnect(d)) /\ WF_onvifVars(part = "onvif" /\ DeleteDevice(d))
       /\ WF_onvifVars(part = "onvif" /\ BeatEnds(d)) /\ WF_onvifVars(part = "onvif" /\ Flip(d))

\* The state of each service keeps its types.
HostTypeOK ==
  /\ NodeTypeOK /\ CleanTypeOK /\ AiTypeOK /\ OnvifTypeOK
  /\ StreamTypeOK /\ CountTypeOK /\ SnapTypeOK /\ HandlersTypeOK
=============================================================================
