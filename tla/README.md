# A verification of the GB28181 signalling core of owl

owl is a video surveillance platform: it registers GB28181 cameras and recorders over
SIP, asks them for channels, live and recorded streams, and steers a media server
(ZLMediaKit or lalmax) that receives the streams.  The models here are about the part of
it that is hard to get right: goroutines that share maps, objects and database rows while
devices answer late, twice or not at all.

Contents: [the system](#1-the-system), [the plan](#2-the-plan), [the
models](#3-the-models), [the runs](#4-the-runs), [fairness](#5-fairness), [the
proofs](#6-the-proofs), [where code and comments
disagree](#7-where-code-and-comments-disagree), [what is not
covered](#8-what-is-not-covered).

## 1. The system

### Components

| Component | Source | State it keeps | Operations |
|---|---|---|---|
| SIP transactions | `pkg/gbs/sip/tx.go`, `sip/server.go` | table Call-ID -> transaction; per transaction a queue of 10 responses and an activity channel | `Request`, `GetResponse`, `watch`/`Close` after 20 s, the listener |
| SIP connections and text | `sip/connection.go`, `sip/parser.go`, `sip/header.go`, `sip/message.go` | per TCP connection a reader and a parser | cut lines into packets, packets into messages; read and print headers |
| Media sessions | `pkg/gbs/play.go`, `history.go`, `voice.go`, `sip/request.go`, `internal/adapter/gbadapter/gb.go` | `streams`: key -> `*Streams` with the INVITE's answer; `Device.playMutex`; `Channel.IsPlaying` | play, history, voice: start and stop; control of a playback; the media server's unregister webhook |
| Commands and queries | `pkg/gbs/ptz.go`, `control_a23.go`, `config.go`, `query_a24.go`, `img.go`, `upgrade.go`, `timesync.go`, `control_sn.go` | two counters; three maps of waiting channels | a call that waits for a MESSAGE; the handlers of these MESSAGEs |
| Device registry | `pkg/gbs/register.go`, `keepalive.go`, `options.go`, `server.go`, `internal/core/ipc/store/ipccache` | device row, `gbs.Device` in memory, channel rows | register, unregister, heartbeat, password, add, delete, scan with OPTIONS probe, load after restart |
| Routes and access control | `pkg/gbs/sip/server.go`, `context.go`, `group.go`, `pkg/gbs/access_control.go` | per request a chain of handlers with an index; the credentials in row and object | route, chain, source and digest check, the handler's answer |
| State queries and alarms | `pkg/gbs/query_state.go`, `appendix_a4.go`, `alarm.go` | a structure per device, and part of it in the row | one handler per message |
| Record query | `pkg/gbs/record.go` | `_recordList`: channel and number -> list of segments | query, handler of the messages, merge and cut into days |
| Catalog collection | `pkg/gbs/catalog.go`, `sip/collector.go`, `sip/obs.go` | one collector goroutine with a list per device; observers | run, fragment, tick, wait |
| Inbound dialogs | `pkg/gbs/invite_inbound.go` | dialogs by Call-ID | INVITE, ACK, BYE, cleaner |
| Event subscriptions | `pkg/gbs/subscribe_source.go` | subscriptions with expiry | SUBSCRIBE, publish, cleaner |
| Media server nodes | `internal/core/sms` | nodes with a last-heard time, each with the driver of its type | heartbeat, ping every 3 s by the driver, connect |
| Push streams | `internal/adapter/rtmpadapter`, `internal/core/recording/manager.go`, `internal/web/api/zlm_webhook.go` | the channel's row; what the media server records | publish, stream, and restart webhooks; record mode |
| ONVIF adapter | `internal/adapter/onvifadapter` | objects with a last-heard time, and rows | heartbeat, status check, add, edit, delete, reconnect |
| Recordings, events | `internal/core/recording`, `internal/core/event` | rows and files | add, delete, cleanup in batches |
| Channels and devices | `internal/core/ipc/channel.go`, `device.go` | rows, and a device's number of channels | add and delete by hand |
| Pictures | `internal/web/api/ipc.go`, `ipc_snapshot.go` | one shared flight per channel | refresh, its live stream |
| AI analysis | `internal/web/api/ai_webhook.go`, `analysis/main.py` | a switch in the row, the server's table, the tasks of the process | enable, disable, reconciliation every 5 min, give up |
| Clients, configuration, generated code | `pkg/zlm`, `pkg/lalmax`, `internal/conf`, `docs`, `protos` | none that outlives a call | |

### How they interact

* The HTTP API and the media server's webhooks call the cores and, through
  `gbadapter`, `GB28181API`; each request is a goroutine.
* `GB28181API` sends through `Server.wrapRequest`, which uses the connection kept in
  `gbs.Device`, and waits in `sipResponse` on a SIP transaction.
* One listener goroutine per transport (and one per TCP connection) reads packets.  It
  delivers responses itself and starts a goroutine for each request of a device.
* The answer to a command, query, record query or catalog query is a *request* of the
  device.  Its handler meets the waiting caller only in a map, keyed by a serial number.
* `ipccache.Cache` sits between handlers and database.  A change of a device passes the row,
  the object in memory and the channel rows, one after the other.
* The media server reports streams, players and recorded files by webhooks, which name a
  stream and never a session.

### What is hard, and what makes each component correct

* **Transactions**: the watcher closes channels that callers and the listener are using.
  The listener must never be stuck for good, callers must return, the table must not name
  a closed transaction, a waiting caller must be reachable.
* **Connections**: the reader and the parser decide the length of a message by different
  rules.  A message that gives its own length must arrive whole, unless another's length took
  lines of it.
* **Text**: what the server prints of an address it has read must mean the same.
* **Sessions**: overlap of starts, stops and webhooks, over a mutex that belongs to an object
  which a deletion replaces.  A dialog gets one BYE, a map entry is a live session, a start
  reports its own session, the flag in the database follows.  The requests in a dialog share
  one CSeq header; their numbers must rise.
* **Commands**: answers before the acknowledgement, after the timeout, twice; numbers that
  wrap.  A caller gets the answer to its own command, or fails; nothing leaks.
* **Registry**: two copies of one fact changed without a lock over both, a restart, a
  scanner that acts on what it read.  The copies must agree in the end, and a device that
  is online must be one a request can be sent to.
* **Messages**: headers are pointers, and a message is built from another one out of clones and
  shared objects.  What was built must not change what it was built from.
* **Routes and access control**: a chain that runs itself and is aborted by an index; a check
  against credentials that have two copies.  One answer, one run of the handler, and no refusal
  of a device that is registered properly.
* **User commands**: four layers that copy fields one by one.  Nothing may be lost or made up.
* **State queries**: handlers that store copies over each other's.  The row must keep what is
  newest, and a message handled alone must not be lost.
* **Record query**: list copies stored over one another, a timeout that reads while a handler
  writes.  A complete answer is whole; no answer shows what was not recorded.
* **Catalog**: fragments lost, repeated, or left over from another query; waiters that give
  up while they are woken.  What is saved as complete is whole, and every collection ends.
* **Inbound dialogs**: a handler puts back what a BYE deleted.  No dialog goes without a
  reason, and each goes in the end.
* **Subscriptions**: expiry against renewal.  Who renews in time stays subscribed and is told.
* **Nodes, ONVIF**: last-heard times against pings and objects that are replaced.  What is
  shown is what answers.
* **Push**: webhooks of two publishers of one stream, in any order, and the media server's end.
* **Cleanup**: files and rows go together, the oldest first, and the batches end.
* **Counts**: a row and a count by separate statements.
* **Pictures**: one flight at a time, and its stream ends with it.
* **AI**: three copies of one switch.  They agree in the end.

## 2. The plan

Done, in this order:

1. `PlaySessions`: what users see, and the richest interleavings; with proofs.
2. `SipTransactions`: what every call to a device waits on; with proofs.
3. `PendingRequests` with the abstract `RequestReply`; refinement, with proofs.
4. `DeviceRegistry`: restart, scan, races of row and memory; with proofs.
5. `RecordQuery`: aggregation, and the pure algorithm of the timeline; with proofs.
6. `CatalogCollector`, `InboundDialogs`, `EventSubscriptions`, `DialogRequests`, `QueryStates`,
   `SipReceive`, with proofs; the pure algorithms `PtzCommands`, with proofs, and `SipText`.
7. `RetentionCleanup`, `StreamSessions`, `ChannelCounts`, `Snapshots`, with proofs; `MediaNodes`,
   `OnvifHealth`, `AiTasks`, of which the types are proved.
8. `SipHandlers`, with proofs; `DeviceCommands`, `SipMessages`.

Left:

* The catalog saved into `DeviceRegistry`, where `SaveCatalog` is one step now.

Composition.  Modules 1, 3 and 5 use a transaction as "an answer, or an error after at most
20 s", which is what `TransportLives` in module 2 gives.  They are checked apart, since the
product of the state spaces shows nothing else: a caller has one transaction at a time.
`MCGbServices` and `MCHostServices` put services side by side that share no state: one of
them runs, the others wait in one initial state, so that state spaces add up and do not
multiply.  Abstract specifications: `RequestReply`.

Runs stay below five minutes; two callers and two or three operations are the rule, since
the hazards of section 1 are races of two.

## 3. The models

A model keeps each guard, early return, error path and order of effects.  It leaves out
payloads and logs, and text where it is not the subject.  What one goroutine does under a
lock of a map or in one transaction of the database is one action.

### PlaySessions

One channel.  Start call *n* owns `Streams` object *n* and INVITE dialog *n*, which keeps the
identity of pointers, on which the code depends: `LoadOrStore` may return an object that
`stopPlay` then takes out of the map.

| Model | Code |
|---|---|
| `streams`, `resp` | `GB28181API.streams`; `Streams.Resp` |
| `mutex`, `device`, `known` | `Device.playMutex` of each object; the object in memory |
| `dialog`, `byes` | the INVITE at the device, the BYEs sent |
| `playing` | `Channel.IsPlaying`, also changed by the webhook outside the mutex; `EditPlaying` may fail, which nobody heeds |
| `last`, `lost` | history: what the latest section did to the session; that the edit at its end failed |
| `Play` ... `MarkPlaying` | `Play`, `StartHistory`, `StartVoice`, step by step, every early return with its deferred unlock |
| `StopPlay` ... `MarkStopped` | `StopPlay` and its kin; the deferred `EditPlaying` runs before the unlock |
| `StreamUnregistered`, `HookStopPlay` | `Adapter.OnStreamChanged` |
| `DeviceAccepts`, `DeleteDevice`, `RegisterAgain` | the world |

### SipTransactions

| Model | Code |
|---|---|
| `table`, `RmTX` | `transacionts.txs`; removal is by key, whoever is there |
| `queue`, `tokens`, `stage` | the channels `resp` and `active`; how far `Close` has come |
| `LookupTX`, `CreateTX` | the two halves of `mustTX`, each under its own lock |
| `TakeResponse` ... `SignalPanics` | `GetResponse`, with the panic of a send on a closed channel, which the handler's `recover` ends |
| `WatchActive`, `WatchTimeout`, `CloseResp`, `CloseActive` | `watch` and `Close` |
| `ResponseArrives`, `Deliver`, `DeliverSignal`, `DeliverPanics` | the listener, inside which `receiveResponse` runs |
| `RequestArrives`, `PeerCreateTX` | a request of the device, for which the listener also calls `mustTX` |

`QueueCap` is 10 in the code.  The runs use 1: a queue that is full.

### PendingRequests and RequestReply

A call begins, adds to its counter, files its channel, sends, is acknowledged, waits, and
deletes its entry on every way out.  A handler looks an answer up and, in a later step,
offers it to the channel it found, which by then may belong to a call that has returned.
`Width` is 2^32 in the code; the numbers wrap at it, and 0 becomes 1 in two steps.
`HandleOther` is a message of a query's kind that answers no call of it.

`RequestReply` is what a caller is promised: each call ends, once, and as answered only if
the device has answered that call, until numbers repeat.  `KeepsPromise` says that
`PendingRequests` implements it, with `StateOf` as the refinement mapping: a command is
open from its beginning until its outcome is set.

### DeviceRegistry

One device, because devices share nothing.  `row` and `mem` hold whether it is online and
whether its last message is within the timeout (`fresh`); `mem` also whether it has a
connection.  `EditRow`, `EditMemory` and `EditChannels` are the three parts of
`Cache.Change`; everything that uses it differs in `op`.  `held` follows the object that a
change got hold of, even when a deletion or the loader has replaced it in memory.

| Model | Code |
|---|---|
| `Register`, `Unregister`, `InsertRow`, `AddObject`, `StoreObject` | `handlerRegister`, the adapter's `GetDeviceByDeviceID`, `Device.Add` |
| `Keepalive`, `KeepaliveBad` | `sipMessageKeepalive` with status OK or not |
| `AddDevice`, `ChangePassword`, `DeleteRows`, `ForgetObject` | the API through `ipccache.Device` |
| `ScanDevice`, `Probe` | `startTickerCheck`, `ProbeOptions` |
| `Crash`, `FindRows`, `LoadObject` | the end of the process, `LoadDeviceToMemory` beside the listeners |
| `SaveCatalog` | the catalog that a login asks for, taken as one step |
| `GoSilent`, `TimePasses` | the device; the timeout |

### RecordQuery

One channel.  A list is copied by `LoadList`, extended under the mutex by `AddItems` and put
back by `StoreList`: two handlers may hold copies of the same list.  `Timeout` and
`ReadPartial` are the caller that reads without the mutex; when a handler sorts at that
time (`raced`), the reader may see any arrangement of the segments, with some missing and
others doubled.  `Timeline` is `transRecordList`: sort, merge what touches, cut at midnight.
Seconds are small numbers, and `Day` of them make a day.

### CatalogCollector

`Run`, `Register`, `Woken` and `WaitTimeout` are `QueryCatalog` with `Collector.Run` and
`Wait`; `Write` is `Collector.Write` on the channel of `MsgCap` items.  The collector is one
goroutine, `Collect`: `Create`, `Receive` and `Tick` are the arms of its `select`, of which it
takes one only when no `Notify` is under way (`Selecting`); `LoadObserver`, `CallObserver` and
`NotifyDone` are `Notify`.  `CallObserver` for a waiter that has gone is the send on a closed
channel, which ends the process (`crashed`).  `SavedRows` is what `SaveChannels` does to who is
online.  `ItemLost` and repeated items are the network; `NoticeArrives` is a NOTIFY of one
changed channel, whose total is 1.

### EventSubscriptions

`subs` is `eventSubscribers` with the expiry of each.  A walk (`Publish`, or the cleaner)
visits the keys one at a time; `Visit` reads an entry and `DropExpired` deletes the key it
read earlier.  `told` is what the subscriber was last answered, and `Relied` those who renew
in time: who renews late may lose the renewal to a walk, which is why they are apart.

### InboundDialogs

Objects are numbered, since handlers load and store pointers.  `StoreBack` and
`AckEstablishes` put the object back that they loaded, in a step of its own; `ByeDeletes`
deletes by Call-ID.  The cleaner's walk is `SweepVisits` and `SweepDeletes`.

### QueryStates

A message arrives, is decoded (with the time then), and its handler makes up to four updates
(`Plans`): each is a load and a store of the whole structure, or a write of the row.  Fields
hold the message they come from.  `Merges` is `mergeAppendixA4Objects`, which keeps the newest
time of an object and gives the oldest up beyond the cap (`MemCap`, `RowCap`; 128 and 256 in
the code).

### SipReceive

A connection is a row of lines.  `ReadLine` and `ReadBody` are `ProcessTcpConn`, which knows a
length by a line spelled `Content-Length`; `ParsePacket` is the parser, which takes any
spelling and reads up to its own length.  `Forms` are the ways a message can state its length:
as expected, in another spelling, as no number, not at all; `alive` is a blank line that keeps
the connection open.  The number is any of `Lengths`, right or wrong: `ReadBody` takes as many
lines as it says, those of the next messages too (`eaten` names the messages that lost lines so), or
waits for them until the connection ends.  Numbers that no memory holds, for which the
allocation fails, are left out.

### DialogRequests

`mapped`, `answer` and `holder` are the map, `Streams.Resp` and `playMutex`, as in
`PlaySessions`; `header` is the CSeq header of each stored 200, and the new part.
`NewRequestFromResponse` is `SetMethod`, `LoadNo` and `StoreNo`, and the text that reads the
shared header is `SendText`.  Starts and stops hold the mutex, `Control` does not.  `mixed` are
the dialogs where two requests were in the making at one time.

### SipText and PtzCommands

Functions of their input.  In `SipText` a text is a sequence of tokens, a character that
means something or a word.  Its kinds are the start line, addresses, To and From, Via, Route,
CSeq, Call-ID, numbers, lists and words; `ParseLine` and `LineText` choose among the parsers and
the printing of each.  `Addresses` and `Via` are the parsers, step by step (`ParamAt` is
the loop of `ParseParams`; an operator `...Read` decides whether what has been taken apart is well
formed), `AddressText` and `ViaText` the printing.  `WriteText` puts a text together from `Pieces`,
`ReadHeader` is `ParseHeader`.  A number is a word with a value (`ValueOf`).  Every `<` of a text is closed.  In `PtzCommands` `Encode` gives the eight bytes of a
command.

### DeviceCommands

One call of the API (`Resolve`), through the core (`Core`) to the adapter of the protocol (`Onvif`;
`Look`) and package gbs (`Fill`).  `fields` is what the last layer passed on: each layer's `Copies`
names the fields it copies.  `Commands` are, of every operation, all fields at once but for one
that is missing or at a boundary, and every field alone; `Worlds` are the device in order and
each way of being out of order.

### SipMessages

A header is a name and the objects it points to; `objects` is what these hold, and `printed` how
each message read when it was sent.  `TypeOf` says of each type of header which parts `Clone`
copies.  `WrapRequest`, `SendRequest`, `NewResponseFromRequest` and `Follow` build messages of
clones (`CopyHeaders`), new objects (`Anew`) and shared ones (`Shared`), and `Written` is a write
through a pointer.

### SipHandlers

A request is a goroutine: `Arrive` is the listener and the route, `RunNext` is `Context.Next` with
`index`, `CheckSource` and `CheckDigest` are the middleware, the rest are handlers.  The flags
StrictSourceCheck and RequireMessageAuth are one, `checked`, since each guards one check.  `stored`
and `cached` are the credentials in row and memory; `StoreBlank`, `ChangeRow` and `ChangeObject`
are `LoadOrStore` and the two halves of `Cache.Change`, `ComparePassword` what `Device.Edit`
does after its own edit.  `changer` and `steady` are history variables: who changed the
credentials last and whether that came to its end, and which requests are checked against
credentials that nobody changes.  There is one device.

### MediaNodes

`CheckBegins`, `TakesFresh`, `Pings`, `PingEnds` and `CheckEnds` are `tickCheck`, which writes to
the object it began with even when a connection has replaced it; `Keepalive` the webhook;
`Begin`, `ReadPorts` and `Setup` the connection, whose row names the type and so the driver.
`PingAnswered` is `Ping` of the drivers: that of ZLMediaKit asks the server, that of lalmax asks
nobody and never fails; a type without a driver cannot be connected or asked (`Reached`).
`fresh`: heard within 30 s.

### RetentionCleanup

`WriteFile` and `AddRow` are the media server and its webhook (or a detection, whose events
share a picture); `FindExpired`, `RemoveFile`, `DeleteRows` and `DeleteFails` the pass, and
`FindOldest` the pass over a full disk.  `CrashPass` ends the process anywhere.  The path of a row,
which the code joins to the working directory, is taken to name the file that was written; a file
that is not found counts as removed, as in the code.

### AiTasks

`enabled` is the row, `aiTasks` the server's table, `process` the entries of the Python process.
`SetEnabled` to `DeleteTask` are the two API calls, `SyncReadsRows` to `SyncEnds` the
comparison, `GivesUp` and `OnStopped` a task that fails and its webhook, which names the
camera only.

### OnvifHealth

`Interval` and `BeatEnds` are the heartbeat, whose requests may end after an object was
replaced; `Flip` and `SyncRow` the status check; `Save`, `Connect`, `Ask`, `Reconnect` and
`DeleteDevice` the API.  `age` counts intervals of 30 s.

### StreamSessions, ChannelCounts, Snapshots

`StreamSessions`: the webhooks of publishers as messages (`begun`, `ended`) and their handlers;
`SetMode` is the API call beside them, `OnServerStarted` the restart of the media server.
`Orders` is a call to start or stop recording, which may fail, carried out or not;
`TakesOffline` an edit of the row that may fail; `BegunReadFails` the webhook that cannot read
its row and records whatever the mode.  None of these is tried again.

`ChannelCounts`: `AddChannelRow` and `Count`, `DeleteChannelRow` and `Uncount` are separate
statements, and the second may fail (`CountFails`, `UncountFails`), which is only logged.

`Snapshots`: `JoinFlight` is the singleflight, and `ReadRow` to `FlightEnds` the goroutine that
it starts.  `Plays` and `StopStream` are `Play` and `StopPlay` in one step each, with the entry of
the map that `PlaySessions` models: `inMap` is who started the session in the entry, `open` whose
sessions the device has answered and not been sent a BYE for.  `PlayTurns` takes a present entry
out, even the `Empty` one of a failed play, and answers an object that is then in no map; such a
session is `abandoned`, as is one whose ACK, BYE or `StopPlay` failed.

## 4. The runs

| Run | Question | Bounds |
|---|---|---|
| `play_sessions` | one BYE per dialog | 2 callers, live and history, 3 starts, 2 device objects |
| `play_flag` | own session, flag, every operation returns | 2 callers, live, history and voice, 2 starts, 1 object |
| `play_restart` | *violated*: each play stops the one before | 1 caller, 3 starts |
| `sip_transactions` | the table, reachability, nothing is stuck | 2 Call-IDs, one shared with the device, 2 requests, 2 responses, a queue of 1 |
| `pending_requests` | own answers, no leaks, refinement | 2 callers, 2 calls, 2 messages, width 3, so that counters wrap or do not |
| `device_liveness` | online implies a connection; row and memory settle | 1 handler, scanner, loader, 1 upset (logout, bad heartbeat, password or crash), 1 deletion |
| `device_restart` | *violated*: a restart takes the channels offline | 1 handler, 1 upset |
| `device_silent` | *violated*: a silent device is shown offline | 1 handler |
| `gb_services` | eleven services, below | one at a time |
| `host_services` | seven services and the way of a request, below | one at a time |
| `ai_enabled` | *violated*: a camera switched on is analysed | 1 camera, 1 failure |
| `history_numbers` | *violated*: the numbers in a dialog rise | 2 goroutines, 1 start, 3 calls |

`gb_services` and `host_services` check these parts:

| Part | Properties | Bounds |
|---|---|---|
| catalog | `CatSavedWhole`, `CatObserversWait`, `CatCollectionEnds` | 2 queries, 1 device of 2 channels, 1 NOTIFY, channels of capacity 1 |
| subscriptions | `SubServed` | 2 subscribers, 1 event, the cleaner, 3 points in time |
| dialogs | `DlgOnlyReleased`, `DlgTableDrains` | 1 Call-ID, 3 requests |
| records | `RecAnswersSound` | 1 query, 3 handlers, 3 recordings over 3 days, 2 windows, 1 repeated message |
| states | `QsLastRemains` | 3 messages, 2 fields, lists of 1, 2 points in time |
| connection | `FramedDelivered` | 3 messages, bodies of at most 1 line, lengths of 0, 1 and 3 lines |
| history | `HistoryNumbered` | 2 goroutines, 2 starts, 3 calls |
| texts | `TextKept` | start lines and each kind of header from pieces, at most 9 places |
| ptz | `PtzUnderstood` | every action, numbers at the ends of their ranges |
| user commands | `CommandSaysAll` | every operation, each field given, missing and at a boundary, 8 states of the device |
| messages | `MessagesSound` | 2 devices, one of them loaded, 5 messages, 2 of them new |
| nodes | `NodeShown` | 1 media server, the configured one, of each type, 2 connections |
| retention | `CleanNoOrphans`, `CleanOldestFirst`, `CleanExpiredGo` | 3 rows, 2 of one time, batches of 2, 1 crash |
| analysis | `AiFollowsRows` | 1 camera, 1 call of each kind, 1 failure, 1 restart |
| onvif | `OnvifShown` | 1 device, 2 edits, 1 failed statement |
| streams | `StreamFollowed` | 2 publishers, 1 change of mode, 1 death of the server |
| channels | `ChannelsCounted` | 2 additions, 2 deletions, 1 device deletion |
| pictures | `SnapStreamOfFlight` | 2 calls, 1 viewer |
| requests | `AnsweredOnce`, `AcceptedAsRegistered` | 1 request of any sender, a user, 2 addresses, 1 mishap |

Why the bounds are enough:

* Every session hazard is a race of two operations around a third that came before: three
  starts and two callers give each of them, and two device objects give the lost mutex.
* A transaction is only ever confused with the other one on its Call-ID: two requests.  A full
  queue needs one more response than it holds.
* Two calls on one counter are what a collision needs; with `Width` 3 the starting values
  put the wrap at the first call, at the second, or nowhere.
* The registry's races are between two changes: the handler, the scanner and the loader give
  each pair of different ones, and the proof every number of handlers.
* A list can lose an update with two handlers; the third one completes the answer.  The
  recordings overlap, touch, cross and end at midnight, and come newest first.
* Two catalog queries of one device are what replaces a collection; devices share the
  collector, but no data.  Its channels hold 10 and more in the code: with capacity 1
  they are full at once.
* A subscription, a dialog, a node, a camera or an ONVIF device is touched by a walk and a
  call; the third request of a dialog is the one that finds what the first two left.
* Framing goes wrong from one message to the next and is found again at the third; a length of 3
  lines reaches over several messages.
* Two publishers are what a late webhook confuses; two calls are what share a flight.
* Every kind of character in a header occurs beside every other one that a parser looks for.
* Every safety property of `PlaySessions`, `SipTransactions`, `PendingRequests`,
  `DeviceRegistry`, `InboundDialogs`, `SipHandlers`, `SipReceive`, `RecordQuery`, `CatalogCollector`,
  `EventSubscriptions`, `DialogRequests`, `QueryStates`, `RetentionCleanup`, `StreamSessions`,
  `ChannelCounts` and `Snapshots` is proved as well (section 6): what the runs show for the bounds above holds for all.

`MaxStarts`, `MaxDevices`, `MaxRequests`, `MaxResponses`, `MaxCalls`, `MaxReplies`,
`MaxUpsets`, `MaxDeletes`, `MaxRepeats`, `MaxNotices`, `MaxSubTime`, `MaxDialogs`,
`MaxMessages`, `MaxSeconds`, `MaxSent`, `MaxBody`, `MaxConnects`, `MaxClock`,
`MaxPassCrashes`, `MaxFailures`, `MaxRestarts`, `MaxSaves`, `MaxDbErrors`,
`MaxServerDeaths`, `MaxSipMessages`, `MaxBegun` and `MaxMishaps` are bounds of the models and not of the code.  Deadlock is not checked
where the bounds, or the end of all calls, stop a system that has nothing more to do.

What the passing properties mean:

* `NoDoubleBye`: holds even where the mutex does not exclude, because `LoadAndDelete` gives an
  entry to one taker and nobody puts it back.
* `StartedIsOwn`, `FlagOfLastSection`: are the mutex's work and so are stated for a device that
  keeps its object.  With two objects they fail, as the hazard list says.  Two failures leave the
  flag wrong until the next section, and `FlagOfLastSection` names them: the edit that ends a
  section fails (`lost`), or a start stops the old session and then gets no port or no answer,
  after which the channel is shown as playing without a session (`last = "replaced"`).
* `TableOpen`: surprising, as removal is by key.  It removes too much, never too little.
* `WaiterReachable`: for a Call-ID with one user.  In a dialog shared with the device, the
  second creation hides the first transaction.
* `TransportLives` (`ListenerFree`, `WaiterReturns`, `TransactionsClose`): the 20 s timer is what
  ends a blocked listener, so a full queue costs everybody on that transport up to 20 s.
* `AnsweredByOwn`, `WaiterKnown`: until a counter wraps.  `EntriesOwned`: also after.
* `OnlineHasConn`: until a deletion, after which the scan's probe may have left an object
  without one.
* `StateSettles` (`HeartbeatsHeal`, `SilentIsFound`): every race and restart is repaired by the
  next heartbeats, or by the scan, in memory.  In the row it is not (section 7).
* `AnsweredOnce`: excuses an ACK, the parameters of a device that is not in memory, and the alarm
  whose handler panics (section 7).
* `AcceptedAsRegistered`: for the time after a change of the credentials that was completed
  alone and without a fault.  Between the two halves of one, and after one that failed, the code
  may refuse a proper device, or check it against an older password.
* `RecAnswersSound` is `RecCompleteIsWhole` and `RecShownWithin`.  Lost updates never make an incomplete answer look complete, since a
  lost copy loses its count too; they turn a complete one into a timeout.  A repeated message
  can.  The second holds for partial answers too, and while a list is sorted under its
  reader; only the order of the days is then not promised.  `Recordings` are the seconds that the
  window shares with a recording when it shares more than one: the handler drops an item of
  which no two seconds are left.  The proof found that an earlier definition expected the one second
  of a recording of no length inside the window.
* `CatSavedWhole`: excuses a list that ended by its 10 s, and one that a NOTIFY was mixed into:
  a NOTIFY states a total of 1, so that the collection is complete at once and its list takes
  every other channel offline until the next catalog.
* `CatObserversWait`: a waiter that has given up is not registered any more.  One that gives up
  between the collector's look-up and its call makes the collector send on a closed channel,
  which ends the process; the model goes there (`crashed`), and `CatCollectionEnds` excuses it.
* `SubServed` is `SubKept` and `SubAllNotified`: for who renews in time.
* `DlgOnlyReleased`, `DlgTableDrains`: an ACK may put back a dialog that a BYE has deleted; the
  cleaner removes it after 10 minutes.
* `QsLastRemains` is `QsLoneUpdateLasts` and `QsRowKeepsNewest`: messages that overlap lose
  updates, in the code as in the model; the row keeps the later times.
* `FramedDelivered`: a length that is missing, misspelled or too small spoils the next message
  alone.  One that is too large takes as many lines as it says, of any number of messages, and
  spoils those, and the one after the last of them if that had a body.  Behind them the reader
  finds its place again.
* `HistoryNumbered`: while the requests of a dialog are made one at a time.  When they are not,
  see section 7.
* `TextKept`: excuses values quoted for a separator that hold no blank; they are printed without
  quotes, and `ToString` leaves that to its callers.  A Route none of whose addresses is read
  counts as absent.
* `NodeShown`, `OnvifShown`, `AiFollowsRows`: for what stays as it is from some time on.
  `NodeShown` excuses a dead lalmax server, which stays shown online as its ping cannot fail, and a
  live one of a type without a driver; and it speaks of an installation with the configured
  server alone, since every heartbeat refreshes that one, whoever sent it.
* `CommandSaysAll`: a blank text, and a speed or an interval that is not positive, count as not
  given.  Of a session the property ends where package gbs starts, stops or controls it.
* `MessagesSound` is `MessagesApart` and `MessagesBelong`.  Shared on purpose or not, and excused:
  the number of an answer, and the To of a request, which its answer tags.
* `StreamFollowed` (`StreamRecordedAsSet`, `StreamGoneIsOffline`): the code tries nothing again, so
  these name what leaves the row or the recording wrong for good: an edit that was to take the
  row offline and failed; a publisher that was authorised and never began; a call to start or stop
  recording that failed, as every such call to lalmax does; handlers that overlapped; a row that
  could not be read; and a mode that was set while the row was wrong about the stream.
  Recording is enabled in the configuration.
* `ChannelsCounted`: names a new device that did not get its channel, a deletion that came before
  its addition was counted, and a change of the number that failed.
* `CleanNoOrphans`: excuses files that resist, whose row was not stored, or whose row a user deleted.
* `SnapStreamOfFlight`: excuses sessions that were abandoned, of which the first kind follows from
  what `play_restart` shows: a flight's play that meets an entry, even an empty one, gets a session
  that its `StopPlay` does not find, and the stream outlives the flight.  The viewers are not
  protected: one who joins a flight's stream loses it when the flight ends.

Each property of a passing run has a mutant in `PROJECT.json`: a change of one definition of
the kind a slip in the code would make, under which the run fails.  The operators named
`Mut...` stand beside the definitions they replace.

## 5. Fairness

* `PlaySessions`: weak for the steps of a caller; the 20 s transaction timer justifies it for
  the wait.  Strong for taking the mutex: `sync.Mutex` hands itself to a goroutine that
  has waited for more than a millisecond.
* `SipTransactions`: strong for callers and listener, which block on channels that Go serves in
  the order of arrival; weak for the watchers, whose timer is local.
* `PendingRequests`: weak for a caller, whose waits all have timers.
* `DeviceRegistry`: weak for the steps of a change, of a handler, of the scanner (a ticker),
  of the loader, and for time.  Strong for `Keepalive`: a device that is not silent sends its
  heartbeats at intervals, and a handler is free again and again.  No fairness for the
  device's registrations, for deletions, or for the catalog.
* `GbSpec`: weak for the collector while the process runs, for its ticker and the passing of
  its 10 s; for the cleaner of the dialogs, their ageing, and their handlers.  None for the
  network, for queries, or in the other parts.
* `HostSpec`: weak for the check of the media servers, the heartbeats that are on their way and
  the steps of a connection, which are HTTP calls with timeouts; for the passes of the
  cleanup; for the rounds of the AI synchronisation, the calls of the API and the webhook of
  a task that gave up; for the ONVIF timers and calls.  Strong for three steps that may fail:
  `FindExpired` and `DeleteRows` (a statement of the database that is tried every pass) and
  `SyncStarts` (a remote call that is tried every round).  What fails for ever shows
  nothing of the code.

## 6. The proofs

The modules named `..._proofs` are checked by TLAPS, from the assumptions on the constants
only, which TLC evaluates in the runs: any number of callers, devices, kinds, Call-IDs, rows and
handlers, any bounds, any width and any capacity.  Most assumptions say that names differ and
that bounds are numbers.  Those that say more: the channels of the catalog and the calls of
`ChannelCounts` are finite sets, since the models count them (`CatalogAssumption`,
`CountAssumption`); what a message carries is for a known field and has finitely many elements
(`QueryStateAssumption`); a batch and its target are not 0 (`RetentionAssumption`); passwords are
neither empty nor `#`, which the code takes for "no password" (`HandlersAssumption`).

In each module an inductive invariant is proved: it holds initially, every action keeps it, and
it implies the properties.  TLC looked at each invariant on a small instance first; parts that
proofs called for later were proved without.

* **PlaySessions** (`TypeCorrect`, `ByeOnce`, `EntryAlive`, `StartedOwn`, `FlagFollows`).  That
  a dialog has had no second BYE is not inductive: one must know that its answer is in one
  object (`OneOwner`), that an object is under one key, and that what a starting call owns
  nobody else has seen (`FreshObject`, `FreshDialog`).  `SessionInv` uses no mutex.
  `LockInv` says who holds it, and with one device object `FlagInv` says that only a caller
  within its section, or one that is about to clear the flag, may owe the flag an update; unless
  the last edit failed, or the last section stopped a session that it did not replace.
  Steps that do not touch the sessions are disposed of by one lemma, `QuietKeeps`.
  `EntryAlive`, that an entry never holds the answer of a stopped session, is proved only.
* **SipTransactions** (`TypeCorrect`, `TableStaysOpen`, `SoleWaiterReachable`).
  `SoleTransaction`: while a Call-ID has one user there is no open transaction outside of the
  table, and none when that user is about to create one.  Removal by key is harmless just
  because of it.
* **SipReceive** (`MessagesDelivered`), for any numbers given as lengths.  `FramedDelivered`
  speaks of the end of a row, so the invariant is of the way there.  The newest line that the reader has and those it has not are one
  row in which each line is what the device writes after the one before (`StreamInv`, `Chained`);
  it stops after a whole message or where the connection tore.  While the reader reads lines its
  length is that of the header it has just read (`LineInv`), so it takes exactly the body of a
  message whose number is right and that lost no line to another (`BodyInv`, `Intact`), and the packet is that message (`PacketInv`).  The
  start of a framed message finds the buffer empty, as the message before ended in a packet of
  its own (`StartReadFirst`); so no such start is swallowed (`PresentInv`), and the starts are
  in order all along the way (`OrderInv`).  In the module `SipTransport_proofs`, with the one before.
* **PendingRequests** (`TypeCorrect`, `OwnAnswer`, `WaiterFound`, `NoEntryLeaks`,
  `PromiseKept`).  `Numbers`: until a wrap the numbers of one counter differ and are not above
  it.  `Answers`: what handlers and channels hold is what the call may be given.
  `PromiseKept` is the safety part of the refinement, `Spec => Promise!Spec`: each step
  is one of `RequestReply` or a stutter under `StateOf`.
* **PtzCommands** (`PtzIsUnderstood`, in `PendingRequests_proofs`).  Its invariant only says that
  what was asked is an input and the bytes, once made, are its encoding; the work is in the
  lemmas.  The two tables have no code in common and none for two actions (`PtzTables`,
  `PtzOneTable`); what is left out gets its default (`PtzDefaults`); speeds, groups and values
  fit into their bits and come out again (`PtzAtMost`, `PtzZoom`, `PtzTwelveBits`); the movement
  code has one bit for each direction (`PtzMoveCode`); the check sum is that of the seven bytes
  (`PtzFinal`).  It holds for any speeds and groups of a byte, values of 16 bits, which are more
  than the command has room for, and presets of any size.
* **DeviceRegistry** (`TypeCorrect`, `HasConn`).  `SeenOnline`: a row that a change has returned
  as online comes from a request, which brings a connection, or a probe, which keeps it.
  `ProbedHasConn`: until a deletion, what is probed is in memory and connected.
* **InboundDialogs** (`TypeCorrect`, `InvHolds`, `OnlyReleased`).  `OnlyReleased` is an action
  property: an entry leaves the table only when a BYE was accepted or 10 minutes have passed.
  `InHand`: what a handler is about to store back it has just updated, so the cleaner cannot
  have judged it; `Releases`: whoever is about to delete an entry may.

* **SipHandlers** (`TypeCorrect`, `Answered`, `Accepted`).  `RunOK` says of each place of a
  request how far its chain has run and what it was answered; one lemma per way on (`RunsNext`,
  `RunAborts`, `RunPasses`) settles the middleware.  `Accepted` is an action property.  For it
  one must know who is changing the credentials (`ChangeInv`: a lone change reads the row as
  it is before it copies it to the object) and that nobody is while a request counts as steady
  (`SteadyInv`), so that object and row agree when the digest is compared.
* **HostServices**:
  * `FlightStops`: an answered session that was not abandoned is the one in the map
    (`SessionsOK`), so that there is one at most, and a stop finds it; only the flight of the key is
    at work, and a session that it started for itself, and that was not abandoned, it has yet to
    stop (`FlightsOK`).
  * `NoOrphans`, `OldestGoFirst`: a batch is right when it is read (`BatchInv`: expired rows, or the
    oldest of those there when the pass began), and stays right because rows that arrive later
    are not in `begun` and a row goes only after its file (`FilesInv`).  An attempt to prove that
    nothing older than a deleted row remains *at all* failed for a good reason: within one
    batch rows go one by one, in any order.  `CleanOldestFirst` therefore speaks of rows outside
    of the batch, and the run has batches of 2.
  * `StreamIsFollowed`: a row that says online has a publisher or a webhook on its way
    (`ShownInv`), or an edit failed; until handlers overlap, at most one handler is at work and it
    finds the mode that it decided on, and with none at work the recording is as set, or the last
    call failed (`RecordInv`).
  * `CountsAgree`: a device's number and the counts that calls still owe it are its channels and
    the corrections they owe it, but for the devices in `miscounted` (`CountBalance`).  It needs
    that a new device is unknown until it is made, and that a removed one does not return.
  * `HostTyped`, of all eight side by side: a step of the composition is one of a single service
    and a stutter of the others (`OnePart`).  Some types need more than themselves: a number of
    channels is at most the channels that calls have counted for the device, which are at most
    the calls (`CountBounds`); a call or a goroutine at work has a camera (`AiInv`); a file is
    that of a row (`CleanBounds`).
* **GbServices**, four services:
  * `ObserversWait`, `SavedWhole`: a collection is a list of the device's own channels, each once,
    with the total that it stated, unless a NOTIFY was mixed in (`ListsOwn`).  A list as long as
    the total then is the set of all channels.
  * `SubscribersServed`: an entry is what its subscriber was told (`PromiseInv`); what a walk is
    about to delete had expired before the walk's time, so nobody relies on it (`DropInv`); and
    who is owed an event is in the table, ahead of the walk (`OwedInv`).
  * `NumberedWell`: a dialog is new to its start (`FreshBeyond` to `FreshObject`), answers one
    object (`OneObject`, `OwnObject`), and until another request begins in it has one request in
    the making (`LoneInv`).  So the header's number is the newest, or is about to be taken
    (`NumbersFor`), and the counter of an object covers the commands in its dialog
    (`CommandsFor`, `MappedCommands`).  The steps are first put field by field (`StepIs`), then
    by what they do to dialogs and objects (`Roles`).
  * `ShownWithin`, `AnswersSound`: first what the functions do.  The sorted list has the same
    segments (`SortedIs`), the run a segment is in rises and covers the run's seconds (`RunRises`,
    `RunCovers`), its daily pieces cover it (`Pieces`), so that the timeline covers exactly the
    seconds of the list and its days are in order (`TimelineCovers`, `TimelineInOrder`); merging in
    place keeps the seconds (`InPlaceIs`).  Then the invariant `RecWhole`: every copy, answer and
    result lies within the recordings of its window (`SoundCopies`, `SoundAnswers`,
    `SoundResults`); a message says what its query asked for, after it asked (`Belonging`); messages
    of a query that are still to be added share no item (`Apart`); a list has the seconds of as
    many items as it counts, and none of those still to be added (`RecCounted`).  So an answer that
    counts all has all (`Whole`).
  * `QsTyped`, `LastRemains`: `MergeKeeps` shows that a merged list keeps the newest time of an
    object or holds as many newer ones (by an injection and cardinalities).  A handler that runs
    alone loads what is there and finds it unchanged when it stores (`QsLoneInv`).  What it left
    behind is in the structure *and* in every copy that is still to be stored (`DoneInv`): that is
    what keeps a later handler from bringing older answers back.  Messages that were done when
    another arrived stay done (`BeforeInv`), and `IsOnline` never goes back to one of them
    (`AppliedInv`).

Not proved, and left to TLC:

* Liveness under fairness, which is beyond the prover: `OperationsReturn`, `TransportLives`,
  `StateSettles`, `DlgTableDrains`, `CatCollectionEnds`, `CleanExpiredGo`, `NodeShown`,
  `AiFollowsRows`, `OnvifShown`, and the fairness part of `KeepsPromise`.
* What a function computes for every input by folding over it, which needs induction over
  data: `TextKept` (`Params`, `Joined`) and `MessagesSound` (`HeadersOf`, `Holding`).  Both also
  print numbers, or name objects, with `ToString`, of which the provers know nothing.
  (Induction over numbers alone is within reach through a least element, see `Least` and
  `Greatest` in `GbServices_proofs`.)
* `CommandSaysAll`: the module has no constants, so the run has checked every state there is.
* The types of the modules in `MCGbServices` as a whole (`GbTypeOK`): those of `SipMessages` are
  about what a fold returns.  The types that the proofs above need are in their invariants
  (`CatTables`, `SubTables`, `HistTables`, `QsTables`, `RecTables`).

## 7. Where code and comments disagree

* `play_restart`.  `play.go:87` wants each play to stop the one before.  The second play stores
  its answer in the object it has just taken out of the map; the third finds nothing to stop.
* `device_restart`.  `cache.go:59` wants a TCP device and its channels offline after a
  restart.  The change ends at the missing object, before the channel rows.
* `device_silent`.  `server.go:168` says the timer finds silent devices.  A heartbeat between
  the two halves of the logout leaves row and object opposite, and the scan looks at the
  object alone.
* `ai_enabled`.  `ai_webhook.go:238` wants every camera that is switched on to be analysed.  A
  task that gave up keeps its entry in the analysis process, which answers a start of it
  with "already running".
* `history_numbers`.  `request.go:91` wants the numbers of a dialog's requests to rise.  A
  control holds no lock, and all requests count up one shared header, which is read when their
  text is written.  The run ends with an INFO and a BYE under one number; the start lines are
  their own, but the CSeq header of the INFO reads BYE.

Seen while modelling, without a run:

* `parser.go:46` says that a header parser returns headers or an error, and a comment in
  `ParseAddressValues` names `sip:1678@80.79.5.134;expires=3600`, without brackets.  An address
  without brackets is always refused, and this form's error is dropped: the header is lost.
* `control_sn.go:18` says the common number avoids collisions.  Catalog and device
  information queries draw random numbers, and their answers are looked up in the same
  table (`HandleOther` in `PendingRequests`).
* `nextControlSN` and `nextQuerySN` wrap in two steps, between which a call takes a number that is
  given out again (`AnsweredByOwn`, until a wrap).

* `alarm.go:137` promises a NOTIFY to the subscribers of an alarm.  The line before it calls
  `notify`, which reads `config` (`notify.go:32`); that is set in `LoadSYSInfo` (`server.go:260`)
  only, which nobody calls.  Where the notification is reached the goroutine panics and is
  recovered: no NOTIFY, and no answer (`Alarm` in `SipHandlers`).
* `ipc.go:1263` documents `config_type: "basic_param"`, which `normalizeConfigType` refuses.
* `driver_lalmax.go:125`: `Ping` returns no error, so `tickCheck` (`node_manager.go:82`), which takes a
  server that does not answer offline, never does so with lalmax (`PingAnswered` in `MediaNodes`).
  `StartRecord` and `StopRecord` of that driver return an error always.
* `play.go:102-111`: a play that has stopped the old session and fails does not clear `IsPlaying`
  (`StopOld` in `PlaySessions`).
* `voice.go` lacks the fallback for an answer without a Contact that `play.go` and `history.go`
  have.
* An edit of a device that leaves the password out clears it in the row, while the object keeps
  the old one until it is changed or loaded again (`ComparePassword` in `SipHandlers`).
* An answer to DeviceInfo changes the address in the row alone (`info.go:46`), so that requests are
  compared with the older address of the object until the next heartbeat.

## 8. What is not covered

* The share of the source.  Of the code that is counted, a fifth is generated
  (`docs/docs.go`, `protos/analysis.pb.go`), and in `internal/web/api` most lines are
  documentation comments and handlers that bind a request and call a core.  The cores' lists
  and edits of single rows, the clients of media servers and ONVIF devices, the XML
  structures, configuration, migrations, statistics and self update are data and I/O: one
  call in, one call out, and no state between two of them.
* Code that does not run: `pkg/ota/lin.go` is commented out, `pkg/ffwork` is not imported,
  push's `Publish` and `UnPublish`, `RegisterRecordingVideoOnly` and the older `SipStopPlay`
  are never called.
* Torn reads of the fields of `gbs.Device`, which are accessed without a lock: an object is
  changed in one step.  An edit of a row, which reads and writes it, is one transaction.
* `PlaySessions`: which port or SSRC a session has.
* `SipTransactions`: what a panic in the goroutine of an OPTIONS probe does to the process.
* `RecordQuery`: an answer that names the device counts as lost; a second query with the same
  random number is not in the run (its properties speak of a query that is alone);
  days that have not 24 hours; two copies of a list that share one backing array.
* `DeviceRegistry`: the channels' own state; a catalog is saved in one step.
* `SipHandlers`: the nonce and the computation of a digest; requests of a second device.
* `CatalogCollector`: names and parents of channels, a save that fails, two devices with one
  channel ID, a NOTIFY that deletes a channel.
* `SipReceive`: UDP, where a datagram is a packet.  `SipText`: the headers that no
  code reads again.
* `Snapshots`: the queue for ffmpeg and its frames.  `AiTasks`: what a task does with its
  frames.
