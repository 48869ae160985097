------------------------------- MODULE AiTasks -------------------------------
(***************************************************************************)
(* The analysis of cameras: a switch in the channel's row, the server's    *)
(* table of tasks, and the tasks of the analysis process, which is asked   *)
(* by remote calls to start and stop them and reports a task that gave up  *)
(* with a webhook.  A caller turns the switch and then makes the remote    *)
(* call; every 5 min one goroutine compares rows and table as it read them *)
(* and starts or stops what differs.                                       *)
(*                                                                         *)
(* The analysis process keeps the entry of a task that gave up, and takes  *)
(* a start of it for one that is already running.                          *)
(***************************************************************************)
EXTENDS Naturals, FiniteSets

CONSTANTS
  Cameras,        \* the channels
  Enablers,       \* calls of enableAI
  Disablers,      \* calls of disableAI
  MaxFailures,    \* bound on tasks that give up
  MaxRestarts     \* bound on the ends of the analysis process

NoCamera == "nocamera"

ASSUME AiAssumption ==
  /\ Enablers \cap Disablers = {} /\ NoCamera \notin Cameras
  /\ MaxFailures \in Nat /\ MaxRestarts \in Nat

VARIABLES
  enabled, here,  \* rows: channels switched on, channels online
  aiTasks,        \* the table of the server
  process,        \* _camera_tasks: "none", "runs", "failed"
  failures, restarts,
  stopped,        \* webhooks of stopped tasks on their way
  call,           \* each call: [pc, cam]
  sync,           \* the goroutine: [pc, db, memory, cam]
  unseen          \* history: cameras whose entry was deleted while they were analysed

switchVars == <<enabled, here>>
processVars == <<process, failures, restarts, stopped>>
aiVars == <<switchVars, aiTasks, processVars, call, sync, unseen>>

Calls == Enablers \cup Disablers
Idle == [pc |-> "rest", db |-> {}, memory |-> {}, cam |-> NoCamera]

AiInit ==
  /\ enabled \in SUBSET Cameras /\ here \in SUBSET Cameras
  /\ aiTasks = {} /\ stopped = {} /\ unseen = {}
  /\ process = [c \in Cameras |-> "none"]
  /\ failures = 0 /\ restarts = 0
  /\ call = [a \in Calls |-> [pc |-> "new", cam |-> NoCamera]]
  /\ sync = Idle

----------------------------------------------------------------------------
(* The analysis process. *)

\* StartCamera: a task that has an entry, of whatever state, is left alone.
Started(c) == [process EXCEPT ![c] = IF @ = "none" THEN "runs" ELSE @]

\* StopCamera, when it gets through.
Ended(c) == [process EXCEPT ![c] = "none"]

\* Ten frames or probes of the stream have failed.
GivesUp(c) ==
  /\ process[c] = "runs"
  /\ failures < MaxFailures /\ failures' = failures + 1
  /\ process' = [process EXCEPT ![c] = "failed"]
  /\ stopped' = stopped \cup {c}
  /\ UNCHANGED <<switchVars, aiTasks, restarts, call, sync, unseen>>

\* setupAIClient starts the process again; it begins without tasks.
ProcessRestarts ==
  /\ restarts < MaxRestarts /\ restarts' = restarts + 1
  /\ process' = [c \in Cameras |-> "none"]
  /\ UNCHANGED <<switchVars, aiTasks, failures, stopped, call, sync, unseen>>

StoreEntry(c) == aiTasks' = aiTasks \cup {c} /\ unseen' = unseen \ {c}
DeleteEntry(c) ==
  /\ aiTasks' = aiTasks \ {c}
  /\ unseen' = IF process[c] = "runs" THEN unseen \cup {c} ELSE unseen

\* onStopped, perhaps late: the entry may be that of the camera's next task.
OnStopped(c) ==
  /\ c \in stopped /\ stopped' = stopped \ {c}
  /\ DeleteEntry(c)
  /\ UNCHANGED <<switchVars, process, failures, restarts, call, sync>>

StoppedLost(c) ==
  /\ c \in stopped /\ stopped' = stopped \ {c}
  /\ UNCHANGED <<switchVars, aiTasks, process, failures, restarts, call, sync, unseen>>

ChannelTurns(c) ==
  /\ here' = IF c \in here THEN here \ {c} ELSE here \cup {c}
  /\ UNCHANGED <<enabled, aiTasks, processVars, call, sync, unseen>>

----------------------------------------------------------------------------
(* enableAI and disableAI *)

InCall(a, pc) == call[a].pc = pc
CallGoes(a, pc) == call' = [call EXCEPT ![a].pc = pc]

SetEnabled(a, c) ==
  /\ InCall(a, "new")
  /\ enabled' = IF a \in Enablers THEN enabled \cup {c} ELSE enabled \ {c}
  /\ call' = [call EXCEPT ![a] = [pc |-> "rpc", cam |-> c]]
  /\ UNCHANGED <<here, aiTasks, processVars, sync, unseen>>

\* The remote call fails, or the media server's row is not found.
StartFails(a) ==
  /\ a \in Enablers /\ InCall(a, "rpc")
  /\ CallGoes(a, "done")
  /\ UNCHANGED <<switchVars, aiTasks, processVars, sync, unseen>>

StartCamera(a) ==
  /\ a \in Enablers /\ InCall(a, "rpc")
  /\ process' = Started(call[a].cam)
  /\ CallGoes(a, "store")
  /\ UNCHANGED <<switchVars, aiTasks, failures, restarts, stopped, sync, unseen>>

StoreTask(a) ==
  /\ InCall(a, "store")
  /\ StoreEntry(call[a].cam)
  /\ CallGoes(a, "done")
  /\ UNCHANGED <<switchVars, processVars, sync>>

\* StopCamera, which may not get through.
StopCamera(a) ==
  /\ a \in Disablers /\ InCall(a, "rpc")
  /\ process' \in {process, Ended(call[a].cam)}
  /\ CallGoes(a, "delete")
  /\ UNCHANGED <<switchVars, aiTasks, failures, restarts, stopped, sync, unseen>>

\* The entry goes whether or not the task has been stopped.
DeleteTask(a) ==
  /\ InCall(a, "delete")
  /\ DeleteEntry(call[a].cam)
  /\ CallGoes(a, "done")
  /\ UNCHANGED <<switchVars, processVars, sync>>

----------------------------------------------------------------------------
(* syncAITasks *)

Wanted == enabled \cap here

SyncReadsRows ==
  /\ sync.pc = "rest"
  /\ sync' = [Idle EXCEPT !.pc = "memory", !.db = Wanted]
  /\ UNCHANGED <<switchVars, aiTasks, processVars, call, unseen>>

SyncReadsTable ==
  /\ sync.pc = "memory"
  /\ sync' = [sync EXCEPT !.pc = "start", !.memory = aiTasks]
  /\ UNCHANGED <<switchVars, aiTasks, processVars, call, unseen>>

\* Mutant: the rounds only start.
MutToStop == {}

\* What is left to start, and then to stop; db and memory shrink as it is done.
ToStart == sync.db \ sync.memory
ToStop == sync.memory \ sync.db

SyncStarts(c) ==
  /\ sync.pc = "start" /\ c \in ToStart
  /\ process' = Started(c)
  /\ sync' = [sync EXCEPT !.pc = "store", !.cam = c]
  /\ UNCHANGED <<switchVars, aiTasks, failures, restarts, stopped, call, unseen>>

SyncStartFails(c) ==
  /\ sync.pc = "start" /\ c \in ToStart
  /\ sync' = [sync EXCEPT !.db = @ \ {c}]
  /\ UNCHANGED <<switchVars, aiTasks, processVars, call, unseen>>

SyncStores ==
  /\ sync.pc = "store"
  /\ StoreEntry(sync.cam)
  /\ sync' = [sync EXCEPT !.pc = "start", !.db = @ \ {sync.cam}, !.cam = NoCamera]
  /\ UNCHANGED <<switchVars, processVars, call>>

SyncStops(c) ==
  /\ sync.pc = "start" /\ ToStart = {} /\ c \in ToStop
  /\ process' \in {process, Ended(c)}
  /\ sync' = [sync EXCEPT !.pc = "delete", !.cam = c]
  /\ UNCHANGED <<switchVars, aiTasks, failures, restarts, stopped, call, unseen>>

SyncDeletes ==
  /\ sync.pc = "delete"
  /\ DeleteEntry(sync.cam)
  /\ sync' = [sync EXCEPT !.pc = "start", !.memory = @ \ {sync.cam}, !.cam = NoCamera]
  /\ UNCHANGED <<switchVars, processVars, call>>

SyncEnds ==
  /\ sync.pc = "start" /\ ToStart = {} /\ ToStop = {}
  /\ sync' = Idle
  /\ UNCHANGED <<switchVars, aiTasks, processVars, call, unseen>>

----------------------------------------------------------------------------
Sync ==
  \/ SyncReadsRows \/ SyncReadsTable \/ SyncStores \/ SyncDeletes \/ SyncEnds
  \/ \E c \in Cameras : SyncStartFails(c) \/ SyncStops(c)

Called(a) == StartFails(a) \/ StartCamera(a) \/ StoreTask(a) \/ StopCamera(a) \/ DeleteTask(a)

AiNext ==
  \/ \E c \in Cameras :
       \/ GivesUp(c) \/ OnStopped(c) \/ StoppedLost(c) \/ ChannelTurns(c) \/ SyncStarts(c)
       \/ \E a \in Calls : SetEnabled(a, c)
  \/ \E a \in Calls : Called(a)
  \/ ProcessRestarts \/ Sync

AiSpec == AiInit /\ [][AiNext]_aiVars

\* The goroutine goes on, a start that is tried for ever succeeds in the end, and
\* calls and webhooks do not hang.
AiFairSpec ==
  /\ AiSpec /\ WF_aiVars(Sync)
  /\ \A c \in Cameras : SF_aiVars(SyncStarts(c)) /\ WF_aiVars(OnStopped(c))
  /\ \A a \in Calls : WF_aiVars(Called(a))

----------------------------------------------------------------------------
\* The switches, the tasks and the calls keep their types.
AiTypeOK ==
  /\ enabled \subseteq Cameras /\ here \subseteq Cameras /\ aiTasks \subseteq Cameras
  /\ process \in [Cameras -> {"none", "runs", "failed"}]
  /\ failures \in 0..MaxFailures /\ restarts \in 0..MaxRestarts
  /\ stopped \subseteq Cameras /\ unseen \subseteq Cameras
  /\ call \in [Calls -> [pc : {"new", "rpc", "store", "delete", "done"},
                         cam : Cameras \cup {NoCamera}]]
  /\ sync \in [pc : {"rest", "memory", "start", "store", "delete"},
               db : SUBSET Cameras, memory : SUBSET Cameras, cam : Cameras \cup {NoCamera}]

\* The table follows the rows: a camera that stays switched on and online is in
\* it for good, one that stays off or offline is not, whichever calls, webhooks
\* and rounds of the sync crossed each other (syncAITasks).  And one that stays off
\* is no longer analysed, unless its entry was deleted while it was: after a
\* StopCamera that did not get through, by a late webhook, or by a stop that crossed
\* a start (StopAIDetection, onStopped).
AiFollowsRows ==
  \A c \in Cameras :
    /\ (<>[](c \in Wanted)) => <>[](c \in aiTasks)
    /\ (<>[](c \notin Wanted)) => <>[](c \notin aiTasks)
    /\ (<>[](c \notin enabled /\ c \notin unseen)) => <>[](process[c] # "runs")

\* What the sync promises (ai_webhook.go:238): a camera that stays switched on
\* and online is analysed.
AiEnabledRuns ==
  \A c \in Cameras : (<>[](c \in Wanted)) => <>[](process[c] = "runs")
=============================================================================
