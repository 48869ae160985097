-------------------------- MODULE PendingRequests --------------------------
(***************************************************************************)
(* Commands and queries whose answer comes back as a MESSAGE of its own:   *)
(* PTZ, DeviceControl and Upgrade ("control"), QuerySnapshot ("config"),   *)
(* DeviceQuery ("query"); and TimeSync ("sync"), which draws a number from *)
(* the control counter and does not wait (pkg/gbs/ptz.go, control_a23.go,  *)
(* upgrade.go, img.go, config.go, query_a24.go, timesync.go).              *)
(*                                                                         *)
(* A call takes a serial number, files a channel of capacity 1 under the   *)
(* device and the number, sends its request and waits; the goroutine that  *)
(* handles an answer looks the number up and offers the answer to the      *)
(* channel it found.  Calls are numbered in the order they begin.          *)
(***************************************************************************)
EXTENDS Naturals

CONSTANTS
  Callers,   \* goroutines of the HTTP API
  Handlers,  \* goroutines that handle messages of the devices
  Devices,
  FirstSNs,  \* numbers the counters may start from (random in the code)
  Width,     \* the counters are unsigned with this many values (2^32)
  MaxCalls,  \* bound: calls
  MaxReplies \* bound: messages of the devices

ASSUME PendingAssumption ==
  /\ Width \in Nat \ {0, 1}
  /\ FirstSNs \subseteq 0..(Width - 1)
  /\ FirstSNs # {}
  /\ Devices # {}
  /\ MaxCalls \in Nat
  /\ MaxReplies \in Nat

Calls == 1..MaxCalls
SNs == 0..(Width - 1)
Counters == {"control", "query"}
Tables == {"control", "config", "query"}
Kinds == Tables \cup {"sync"}
Labels == {"idle", "add", "one", "store", "send", "ack", "wait", "delete"}
Outcomes == {"none", "answered", "timeout", "error"}

VARIABLES
  counter,  \* controlSN and querySN
  pending,  \* pendingDeviceControl, -Config, -Query: device, SN -> call, or 0
  slot,     \* the wait channel of each call: the call whose answer it holds
  calls, kind, device, sn,  \* the calls begun, and what each one is
  outcome,  \* how each call has ended
  by,       \* the call whose answer it returned with, 0 for another message
  sent,     \* calls whose request has left
  replied,  \* history: calls the devices have answered
  wrapped,  \* history: a counter has passed its largest value
  messages, \* messages handled
  pc, call, \* each caller: where it is, and its call
  found, from  \* each handler: the call found, and the call it answers

counterVars == <<counter, wrapped>>
callVars == <<calls, kind, device, sn>>
endVars == <<outcome, by>>
callerVars == <<pc, call>>
handlerVars == <<replied, messages, found, from>>
vars == <<counterVars, pending, slot, callVars, endVars, sent, callerVars, handlerVars>>

CallNumbers == 0..MaxCalls

TableType ==
  /\ counter \in [Counters -> SNs]
  /\ wrapped \in BOOLEAN
  /\ pending \in [Tables -> [Devices -> [SNs -> CallNumbers]]]

CallType ==
  /\ calls \in CallNumbers
  /\ kind \in [Calls -> Kinds]
  /\ device \in [Calls -> Devices]
  /\ sn \in [Calls -> SNs]
  /\ slot \in [Calls -> SUBSET CallNumbers]
  /\ outcome \in [Calls -> Outcomes]
  /\ by \in [Calls -> CallNumbers]
  /\ sent \subseteq Calls

ActorType ==
  /\ pc \in [Callers -> Labels]
  /\ call \in [Callers -> CallNumbers]
  /\ found \in [Handlers -> CallNumbers]
  /\ from \in [Handlers -> CallNumbers]
  /\ replied \subseteq Calls
  /\ messages \in 0..MaxReplies

TypeOK == TableType /\ CallType /\ ActorType

Init ==
  /\ counter \in [Counters -> FirstSNs]
  /\ wrapped = FALSE
  /\ pending = [t \in Tables |-> [d \in Devices |-> [s \in SNs |-> 0]]]
  /\ calls = 0
  /\ kind = [n \in Calls |-> "sync"]
  /\ \E d \in Devices : device = [n \in Calls |-> d]
  /\ sn = [n \in Calls |-> 0]
  /\ slot = [n \in Calls |-> {}]
  /\ outcome = [n \in Calls |-> "none"]
  /\ by = [n \in Calls |-> 0]
  /\ sent = {}
  /\ pc = [c \in Callers |-> "idle"]
  /\ call = [c \in Callers |-> 0]
  /\ found = [h \in Handlers |-> 0]
  /\ from = [h \in Handlers |-> 0]
  /\ replied = {}
  /\ messages = 0

-----------------------------------------------------------------------------
(* Callers.                                                                *)

Goto(c, label) == pc' = [pc EXCEPT ![c] = label]

End(n, how) == outcome' = [outcome EXCEPT ![n] = how]

CounterOf(k) == IF k = "query" THEN "query" ELSE "control"

\* atomic.Uint32.Add(1).
Increment(s) == IF s = Width - 1 THEN 0 ELSE s + 1

\* The checks before a number is drawn (input, device online, GB version)
\* return without a trace and are left out.
Begin(c, k, d) ==
  /\ pc[c] = "idle"
  /\ calls < MaxCalls
  /\ calls' = calls + 1
  /\ kind' = [kind EXCEPT ![calls + 1] = k]
  /\ device' = [device EXCEPT ![calls + 1] = d]
  /\ call' = [call EXCEPT ![c] = calls + 1]
  /\ Goto(c, "add")
  /\ UNCHANGED <<counterVars, pending, slot, sn, endVars, sent, handlerVars>>

\* Mutant: the number is read, and not drawn.
MutReadSN(c) ==
  LET n == call[c]
      s == counter[CounterOf(kind[n])]
  IN  /\ pc[c] = "add"
      /\ sn' = [sn EXCEPT ![n] = s]
      /\ Goto(c, "store")
      /\ UNCHANGED <<counterVars, pending, slot, calls, kind, device, endVars, sent, call, handlerVars>>

\* nextControlSN, nextQuerySN: the atomic add.
AddSN(c) ==
  LET n == call[c]
      s == Increment(counter[CounterOf(kind[n])])
  IN  /\ pc[c] = "add"
      /\ counter' = [counter EXCEPT ![CounterOf(kind[n])] = s]
      /\ sn' = [sn EXCEPT ![n] = s]
      /\ wrapped' = (wrapped \/ s = 0)
      /\ Goto(c, IF s = 0 THEN "one" ELSE "store")
      /\ UNCHANGED <<pending, slot, calls, kind, device, endVars, sent, call, handlerVars>>

\* The sum was 0: the counter is set to 1, and so is the number.
StoreOne(c) ==
  /\ pc[c] = "one"
  /\ counter' = [counter EXCEPT ![CounterOf(kind[call[c]])] = 1]
  /\ sn' = [sn EXCEPT ![call[c]] = 1]
  /\ Goto(c, "store")
  /\ UNCHANGED <<wrapped, pending, slot, calls, kind, device, endVars, sent, call, handlerVars>>

\* The channel is filed before the request is sent; an encoding error or an
\* unknown channel ends the call first.
StorePending(c) ==
  LET n == call[c]
  IN  /\ pc[c] = "store"
      /\ \/ /\ Goto(c, "send")
            /\ pending' = (IF kind[n] = "sync" THEN pending
                           ELSE [pending EXCEPT ![kind[n]][device[n]][sn[n]] = n])
            /\ UNCHANGED <<outcome, call>>
         \/ /\ End(n, "error")
            /\ Goto(c, "idle")
            /\ call' = [call EXCEPT ![c] = 0]
            /\ UNCHANGED pending
      /\ UNCHANGED <<counterVars, slot, callVars, by, sent, handlerVars>>

\* wrapRequest.
Send(c) ==
  /\ pc[c] = "send"
  /\ \/ sent' = sent \cup {call[c]} /\ Goto(c, "ack") /\ UNCHANGED outcome
     \/ End(call[c], "error") /\ Goto(c, "delete") /\ UNCHANGED sent
  /\ UNCHANGED <<counterVars, pending, slot, callVars, by, call, handlerVars>>

\* sipResponse: the 200 for the MESSAGE, or an error.  TimeSync ends with it.
Acknowledged(c) ==
  /\ pc[c] = "ack"
  /\ \/ kind[call[c]] # "sync" /\ Goto(c, "wait") /\ UNCHANGED outcome
     \/ kind[call[c]] = "sync" /\ End(call[c], "answered") /\ Goto(c, "delete")
     \/ End(call[c], "error") /\ Goto(c, "delete")
  /\ UNCHANGED <<counterVars, pending, slot, callVars, by, sent, call, handlerVars>>

TakeReply(c) ==
  LET n == call[c]
  IN  /\ pc[c] = "wait"
      /\ \E m \in slot[n] : by' = [by EXCEPT ![n] = m]
      /\ slot' = [slot EXCEPT ![n] = {}]
      /\ End(n, "answered")
      /\ Goto(c, "delete")
      /\ UNCHANGED <<counterVars, pending, callVars, sent, call, handlerVars>>

\* Mutant: no timer.
MutNoTimer(c) == FALSE /\ UNCHANGED vars

\* The timer; PTZ reports it as success under PTZWeakConfirm.
WaitTimeout(c) ==
  /\ pc[c] = "wait"
  /\ End(call[c], "timeout")
  /\ Goto(c, "delete")
  /\ UNCHANGED <<counterVars, pending, slot, callVars, by, sent, call, handlerVars>>

\* Mutant: the entry stays when the call ends.
MutKeepEntry(n) == pending

\* Mutant: every entry of the device goes when one call ends.
MutDropDevice(n) ==
  IF kind[n] = "sync" THEN pending
  ELSE [pending EXCEPT ![kind[n]][device[n]] = [s \in SNs |-> 0]]

\* pending.Delete(key), whosever entry is there.
Without(n) ==
  IF kind[n] = "sync" THEN pending
  ELSE [pending EXCEPT ![kind[n]][device[n]][sn[n]] = 0]

\* The deferred deletion, and the return.
DeletePending(c) ==
  /\ pc[c] = "delete"
  /\ pending' = Without(call[c])
  /\ call' = [call EXCEPT ![c] = 0]
  /\ Goto(c, "idle")
  /\ UNCHANGED <<counterVars, slot, callVars, endVars, sent, handlerVars>>

-----------------------------------------------------------------------------
(* Handlers: sipMessageDeviceControl, handleDeviceConfig and               *)
(* resolvePendingDeviceQuery.  Devices answer once, twice, late or never.  *)

\* A TimeSync is answered with a DeviceControl response.
TableOf(k) == IF k = "sync" THEN "control" ELSE k

\* A handler looks an answer up: without an entry the answer is dropped.
Lookup(h, n, entry) ==
  /\ messages < MaxReplies
  /\ messages' = messages + 1
  /\ found[h] = 0
  /\ found' = [found EXCEPT ![h] = entry]
  /\ from' = [from EXCEPT ![h] = IF entry = 0 THEN 0 ELSE n]
  /\ UNCHANGED <<counterVars, pending, slot, callVars, endVars, sent, callerVars>>

\* resolvePendingDeviceQuery tries the sending device, then the target that the
\* answer names.
QueryEntry(d, target, s) ==
  IF pending["query"][d][s] # 0 THEN pending["query"][d][s]
  ELSE pending["query"][target][s]

HandleReply(h, n, target) ==
  /\ n \in sent
  /\ replied' = replied \cup {n}
  /\ Lookup(h, n, IF kind[n] = "query" THEN QueryEntry(device[n], target, sn[n])
                  ELSE pending[TableOf(kind[n])][device[n]][sn[n]])

\* A message of the kind of a query that answers no call: a NOTIFY, numbered by
\* the device, or the answer to a request with a random number (QueryCatalog,
\* QueryDeviceInfo) or a fixed one (QueryConfigDownloadBasic).
HandleOther(h, d, target, s) ==
  /\ UNCHANGED replied
  /\ Lookup(h, 0, QueryEntry(d, target, s))

\* The send without waiting: a full channel keeps what it has.
Offer(h) ==
  /\ found[h] # 0
  /\ slot' = [slot EXCEPT ![found[h]] = IF @ = {} THEN {from[h]} ELSE @]
  /\ found' = [found EXCEPT ![h] = 0]
  /\ from' = [from EXCEPT ![h] = 0]
  /\ UNCHANGED <<counterVars, pending, callVars, endVars, sent, callerVars, replied, messages>>

-----------------------------------------------------------------------------

Step(c) ==
  \/ AddSN(c)
  \/ StoreOne(c)
  \/ StorePending(c)
  \/ Send(c)
  \/ Acknowledged(c)
  \/ TakeReply(c)
  \/ WaitTimeout(c)
  \/ DeletePending(c)

Next ==
  \/ \E c \in Callers : Step(c) \/ \E k \in Kinds, d \in Devices : Begin(c, k, d)
  \/ \E h \in Handlers : \/ Offer(h)
                         \/ \E d \in Devices : \/ \E n \in Calls : HandleReply(h, n, d)
                                              \/ \E e \in Devices, s \in SNs : HandleOther(h, e, d, s)

Spec == Init /\ [][Next]_vars

\* A caller's next step is always taken: the request has a timer of its own in the
\* SIP transaction, and the wait a timer of 6 or 8 s.
FairSpec == Spec /\ \A c \in Callers : WF_vars(Step(c))

-----------------------------------------------------------------------------
(* Properties.                                                             *)

\* The calls that return what an answer says: commands, and queries.
Commands == {"control", "config"}

\* Answers are told apart: a command that returns as answered returns the device's
\* answer to that very command, and not to another one made at the same time, as long
\* as no counter has wrapped around.
AnsweredByOwn ==
  ~wrapped => \A n \in Calls :
                outcome[n] = "answered" /\ kind[n] \in Commands => by[n] = n /\ n \in replied

\* No answer is lost for coming early: from before the request leaves until the call
\* ends, its channel is the one that an answer with its number finds.
WaiterKnown ==
  ~wrapped => \A c \in Callers :
    LET n == call[c]
    IN  pc[c] \in {"send", "ack", "wait"} /\ kind[n] # "sync"
          => pending[kind[n]][device[n]][sn[n]] = n

\* The tables do not grow: every entry belongs to a call in progress, also when the
\* call failed, timed out, or shares its number after a wrap.
EntriesOwned ==
  \A t \in Tables, d \in Devices, s \in SNs :
    LET n == pending[t][d][s]
    IN  n # 0 => /\ kind[n] = t /\ device[n] = d /\ sn[n] = s
                 /\ \E c \in Callers : call[c] = n /\ pc[c] \in {"send", "ack", "wait", "delete"}

\* Commands keep the promise of RequestReply: each ends, once, and as answered only
\* when the device has answered that very command.
StateOf(n) ==
  CASE kind[n] \notin Commands -> "none"
    [] kind[n] \in Commands /\ outcome[n] = "none" -> "open"
    [] kind[n] \in Commands /\ outcome[n] = "answered" -> "answered"
    [] OTHER -> "failed"

Promise == INSTANCE RequestReply WITH state <- [n \in Calls |-> StateOf(n)], reused <- wrapped

KeepsPromise == Promise!FairSpec

-----------------------------------------------------------------------------
(* The inductive invariant.                                                *)

\* Callers have calls of their own; a call draws its number before it is filed.
Progress ==
  /\ \A n \in Calls : n > calls => kind[n] = "sync" /\ sn[n] = 0 /\ outcome[n] = "none"
  /\ \A c \in Callers : /\ pc[c] = "idle" <=> call[c] = 0
                        /\ call[c] <= calls
                        /\ pc[c] \in {"store", "send", "ack", "wait", "delete"} => sn[call[c]] # 0
                        /\ pc[c] \in Labels \ {"idle", "delete"} => outcome[call[c]] = "none"
                        /\ pc[c] = "one" => wrapped
                        /\ pc[c] \in {"add", "one", "store", "send"} => call[c] \notin sent
                        /\ pc[c] = "wait" => kind[call[c]] # "sync"
  /\ \A c, e \in Callers : call[c] = call[e] /\ call[c] # 0 => c = e
  /\ \A n \in sent : n <= calls /\ sn[n] # 0

SameCounter(n, m) == CounterOf(kind[n]) = CounterOf(kind[m])

\* Until a counter wraps, the numbers it has given are different, and not above it.
Numbers ==
  ~wrapped => /\ \A n \in Calls : sn[n] <= counter[CounterOf(kind[n])]
              /\ \A n, m \in Calls : sn[n] = sn[m] /\ sn[n] # 0 /\ SameCounter(n, m) => n = m

\* What call n may be given: its own answer or, for a query, another message.
May(n, m) == (m = n /\ n \in replied) \/ (m = 0 /\ kind[n] = "query")

Answers ==
  ~wrapped => /\ \A h \in Handlers : found[h] # 0 => May(found[h], from[h])
              /\ \A n \in Calls : \A m \in slot[n] : May(n, m)
              /\ \A n \in Calls : outcome[n] = "answered" => \/ kind[n] = "sync"
                                                             \/ May(n, by[n])

IInv == TypeOK /\ Progress /\ Numbers /\ WaiterKnown /\ EntriesOwned /\ Answers
=============================================================================
