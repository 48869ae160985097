-------------------------- MODULE SipTransactions --------------------------
(***************************************************************************)
(* The client side of the SIP stack (pkg/gbs/sip/tx.go and server.go): the *)
(* table of transactions keyed by Call-ID, the goroutine that watches each *)
(* transaction and closes it after 20 s without activity, the one listener *)
(* that routes every message of a transport, and the callers that wait for *)
(* an answer in GetResponse (through sipResponse, pkg/gbs/server.go).      *)
(*                                                                         *)
(* A key is a Call-ID: all requests of a dialog (INVITE, INFO, BYE) share  *)
(* one.  Transactions are numbered in the order of their creation.         *)
(***************************************************************************)
EXTENDS Naturals, Sequences

CONSTANTS
  Callers,      \* goroutines that send requests
  Keys,         \* Call-IDs
  CallID,       \* the Call-ID each caller uses
  PeerKeys,     \* Call-IDs on which the device sends requests of its own
  QueueCap,     \* capacity of Transaction.resp (10 in the code)
  MaxRequests,  \* bound: requests of both sides, hence transactions
  MaxResponses  \* bound: responses of the devices

ASSUME SipAssumption ==
  /\ CallID \in [Callers -> Keys]
  /\ PeerKeys \subseteq Keys
  /\ QueueCap \in Nat \ {0}
  /\ MaxRequests \in Nat
  /\ MaxResponses \in Nat

Txs == 1..MaxRequests
Codes == {"provisional", "final"}
Labels == {"idle", "lookup", "create", "send", "receive", "signal"}
ListenLabels == {"idle", "create", "deliver", "signal"}
Stages == {"none", "open", "removed", "respClosed", "closed"}

VARIABLES
  table,      \* transacionts.txs: key -> transaction, 0 when absent
  key,        \* Transaction.key
  stage,      \* how far Close has come
  queue,      \* Transaction.resp, the buffered channel
  tokens,     \* Transaction.active, a channel of capacity 1
  created,    \* transactions created
  requests,   \* requests begun
  responses,  \* responses the devices have sent
  asked,      \* keys on which a request was sent
  pc, tx, code,     \* each caller: where it is, its transaction, its response
  lpc, lkey, ltx, lcode   \* the same of the listener

txVars == <<key, stage, queue, tokens>>
boundVars == <<requests, responses, asked>>
callerVars == <<pc, tx, code>>
listenerVars == <<lpc, lkey, ltx, lcode>>
vars == <<table, txVars, created, boundVars, callerVars, listenerVars>>

TxType ==
  /\ table \in [Keys -> 0..MaxRequests]
  /\ key \in [Txs -> Keys]
  /\ stage \in [Txs -> Stages]
  /\ queue \in [Txs -> Seq(Codes)]
  /\ tokens \in [Txs -> 0..1]
  /\ created \in 0..MaxRequests

CountType ==
  /\ requests \in 0..MaxRequests
  /\ responses \in 0..MaxResponses
  /\ asked \in SUBSET Keys

CallerType ==
  /\ pc \in [Callers -> Labels]
  /\ tx \in [Callers -> 0..MaxRequests]
  /\ code \in [Callers -> Codes]

ListenerType ==
  /\ lpc \in ListenLabels
  /\ lkey \in Keys
  /\ ltx \in 0..MaxRequests
  /\ lcode \in Codes

TypeOK == TxType /\ CountType /\ CallerType /\ ListenerType

Init ==
  /\ table = [k \in Keys |-> 0]
  /\ \E k \in Keys : key = [t \in Txs |-> k] /\ lkey = k
  /\ stage = [t \in Txs |-> "none"]
  /\ queue = [t \in Txs |-> <<>>]
  /\ tokens = [t \in Txs |-> 0]
  /\ created = 0
  /\ requests = 0
  /\ responses = 0
  /\ asked = {}
  /\ pc = [c \in Callers |-> "idle"]
  /\ tx = [c \in Callers |-> 0]
  /\ code = [c \in Callers |-> "final"]
  /\ lpc = "idle"
  /\ ltx = 0
  /\ lcode = "final"

-----------------------------------------------------------------------------
(* Operations on the table and on a transaction's channels.                *)

Goto(c, label) == pc' = [pc EXCEPT ![c] = label]

\* The call, or the listener's turn, ends; its locals end with it.
Return(c) ==
  /\ Goto(c, "idle")
  /\ tx' = [tx EXCEPT ![c] = 0]
  /\ code' = [code EXCEPT ![c] = "final"]
ListenAgain ==
  /\ lpc' = "idle"
  /\ ltx' = 0
  /\ lcode' = "final"
  /\ UNCHANGED lkey

Open(t) == stage[t] \in {"open", "removed"}
ActiveOpen(t) == stage[t] # "closed"

\* Mutant: the new transaction is not entered into the table.
MutUntabled(k) ==
  LET t == created + 1
  IN  /\ created' = t
      /\ key' = [key EXCEPT ![t] = k]
      /\ stage' = [stage EXCEPT ![t] = "open"]
      /\ UNCHANGED <<table, queue, tokens>>

\* newTX: a transaction with empty channels and a watching goroutine, stored under
\* the key whatever is there.  The bound never bites: a request creates at most one.
NewTX(k) ==
  LET t == created + 1
  IN  /\ created < MaxRequests
      /\ created' = t
      /\ key' = [key EXCEPT ![t] = k]
      /\ stage' = [stage EXCEPT ![t] = "open"]
      /\ table' = [table EXCEPT ![k] = t]
      /\ UNCHANGED <<queue, tokens>>

\* A send on Transaction.resp or on Transaction.active, when there is room.
Enqueue(t, r) ==
  /\ Open(t)
  /\ Len(queue[t]) < QueueCap
  /\ queue' = [queue EXCEPT ![t] = Append(@, r)]

Activate(t) ==
  /\ ActiveOpen(t)
  /\ tokens[t] < 1
  /\ tokens' = [tokens EXCEPT ![t] = @ + 1]

-----------------------------------------------------------------------------
(* Callers: Server.Request and sipResponse.                                *)

BeginRequest(c) ==
  /\ pc[c] = "idle"
  /\ requests < MaxRequests
  /\ requests' = requests + 1
  /\ Goto(c, "lookup")
  /\ UNCHANGED <<table, txVars, created, responses, asked, tx, code, listenerVars>>

\* mustTX, first half: getTX under the read lock.
LookupTX(c) ==
  /\ pc[c] = "lookup"
  /\ tx' = [tx EXCEPT ![c] = table[CallID[c]]]
  /\ Goto(c, IF table[CallID[c]] = 0 THEN "create" ELSE "send")
  /\ UNCHANGED <<table, txVars, created, boundVars, code, listenerVars>>

\* mustTX, second half: newTX under the write lock, without a second look.
CreateTX(c) ==
  /\ pc[c] = "create"
  /\ NewTX(CallID[c])
  /\ tx' = [tx EXCEPT ![c] = created + 1]
  /\ Goto(c, "send")
  /\ UNCHANGED <<boundVars, code, listenerVars>>

\* Transaction.Request writes to the connection.  The caller of a BYE and a caller
\* whose write failed do not wait for an answer.
SendRequest(c) ==
  /\ pc[c] = "send"
  /\ asked' = asked \cup {CallID[c]}
  /\ \/ Goto(c, "receive") /\ UNCHANGED <<tx, code>>
     \/ Return(c)
  /\ UNCHANGED <<table, txVars, created, requests, responses, listenerVars>>

\* GetResponse: a buffered response, even of a closed channel.
TakeResponse(c) ==
  /\ pc[c] = "receive"
  /\ queue[tx[c]] # <<>>
  /\ code' = [code EXCEPT ![c] = Head(queue[tx[c]])]
  /\ queue' = [queue EXCEPT ![tx[c]] = Tail(@)]
  /\ Goto(c, "signal")
  /\ UNCHANGED <<table, key, stage, tokens, created, boundVars, tx, listenerVars>>

\* GetResponse: nil from a closed and empty channel, "response timeout".
ResponseTimeout(c) ==
  /\ pc[c] = "receive"
  /\ queue[tx[c]] = <<>>
  /\ ~Open(tx[c])
  /\ Return(c)
  /\ UNCHANGED <<table, txVars, created, boundVars, listenerVars>>

\* GetResponse: tell the watcher; a provisional response is waited past.
SignalWatch(c) ==
  /\ pc[c] = "signal"
  /\ Activate(tx[c])
  /\ IF code[c] = "provisional"
       THEN Goto(c, "receive") /\ UNCHANGED <<tx, code>>
       ELSE Return(c)
  /\ UNCHANGED <<table, key, stage, queue, created, boundVars, listenerVars>>

\* ... or panic on the closed channel; the handler's recover ends the call.
SignalPanics(c) ==
  /\ pc[c] = "signal"
  /\ ~ActiveOpen(tx[c])
  /\ Return(c)
  /\ UNCHANGED <<table, txVars, created, boundVars, listenerVars>>

-----------------------------------------------------------------------------
(* The watcher of a transaction: Transaction.watch and Close.              *)

WatchActive(t) ==
  /\ stage[t] = "open"
  /\ tokens[t] > 0
  /\ tokens' = [tokens EXCEPT ![t] = @ - 1]
  /\ UNCHANGED <<table, key, stage, queue, created, boundVars, callerVars, listenerVars>>

\* Mutant: the entry is left in the table.
MutKeepEntry(t) == UNCHANGED table

\* rmTX deletes by key, whichever transaction is stored there by now.
RmTX(t) == table' = [table EXCEPT ![key[t]] = 0]

\* 20 s without activity: Close begins.
WatchTimeout(t) ==
  /\ stage[t] = "open"
  /\ tokens[t] = 0
  /\ RmTX(t)
  /\ stage' = [stage EXCEPT ![t] = "removed"]
  /\ UNCHANGED <<key, queue, tokens, created, boundVars, callerVars, listenerVars>>

CloseResp(t) ==
  /\ stage[t] = "removed"
  /\ stage' = [stage EXCEPT ![t] = "respClosed"]
  /\ UNCHANGED <<table, key, queue, tokens, created, boundVars, callerVars, listenerVars>>

CloseActive(t) ==
  /\ stage[t] = "respClosed"
  /\ stage' = [stage EXCEPT ![t] = "closed"]
  /\ UNCHANGED <<table, key, queue, tokens, created, boundVars, callerVars, listenerVars>>

-----------------------------------------------------------------------------
(* The listener: handlerListen, handlerRequest, handlerResponse.  Duplicate *)
(* and late responses are responses like any other.                        *)

ResponseArrives(k, r) ==
  /\ lpc = "idle"
  /\ k \in asked
  /\ responses < MaxResponses
  /\ responses' = responses + 1
  /\ IF table[k] = 0
       THEN UNCHANGED listenerVars
       ELSE /\ lpc' = "deliver"
            /\ ltx' = table[k]
            /\ lcode' = r
            /\ UNCHANGED lkey
  /\ UNCHANGED <<table, txVars, created, requests, asked, callerVars>>

\* receiveResponse sends the response, waiting while the queue is full.
Deliver ==
  /\ lpc = "deliver"
  /\ Enqueue(ltx, lcode)
  /\ lpc' = "signal"
  /\ UNCHANGED <<table, key, stage, tokens, created, boundVars, callerVars, lkey, ltx, lcode>>

DeliverSignal ==
  /\ lpc = "signal"
  /\ Activate(ltx)
  /\ ListenAgain
  /\ UNCHANGED <<table, key, stage, queue, created, boundVars, callerVars>>

\* Mutant: no recover around the sends.
MutNoRecover == FALSE /\ UNCHANGED vars

\* A send on a closed channel panics and is recovered, one already waiting included.
DeliverPanics ==
  /\ \/ lpc = "deliver" /\ ~Open(ltx)
     \/ lpc = "signal" /\ ~ActiveOpen(ltx)
  /\ ListenAgain
  /\ UNCHANGED <<table, txVars, created, boundVars, callerVars>>

\* A request of the device: mustTX for it, then its handler runs in a goroutine of
\* its own, which only writes to the transaction's connection.
RequestArrives(k) ==
  /\ lpc = "idle"
  /\ k \in PeerKeys
  /\ requests < MaxRequests
  /\ requests' = requests + 1
  /\ IF table[k] = 0
       THEN lpc' = "create" /\ lkey' = k
       ELSE UNCHANGED <<lpc, lkey>>
  /\ UNCHANGED <<table, txVars, created, responses, asked, callerVars, ltx, lcode>>

PeerCreateTX ==
  /\ lpc = "create"
  /\ NewTX(lkey)
  /\ ListenAgain
  /\ UNCHANGED <<boundVars, callerVars>>

-----------------------------------------------------------------------------

Call(c) ==
  \/ LookupTX(c)
  \/ CreateTX(c)
  \/ SendRequest(c)
  \/ TakeResponse(c)
  \/ ResponseTimeout(c)
  \/ SignalWatch(c)
  \/ SignalPanics(c)

Watch(t) ==
  \/ WatchActive(t)
  \/ WatchTimeout(t)
  \/ CloseResp(t)
  \/ CloseActive(t)

Listen ==
  \/ Deliver
  \/ DeliverSignal
  \/ DeliverPanics
  \/ PeerCreateTX

Next ==
  \/ \E c \in Callers : BeginRequest(c) \/ Call(c)
  \/ \E t \in Txs : Watch(t)
  \/ Listen
  \/ \E k \in Keys : \/ \E r \in Codes : ResponseArrives(k, r)
                     \/ RequestArrives(k)

Spec == Init /\ [][Next]_vars

(* Every goroutine that can move does: the scheduler runs it, and a blocked *)
(* send or receive on a channel is served in turn.  The watcher's timer is  *)
(* a local clock: it fires unless activity restarts it.                    *)
Fairness ==
  /\ \A c \in Callers : SF_vars(Call(c))
  /\ \A t \in Txs : WF_vars(Watch(t))
  /\ SF_vars(Listen)

FairSpec == Spec /\ Fairness

-----------------------------------------------------------------------------
(* Properties.                                                             *)

\* The table names transactions that are open and filed under their own key: no
\* response is routed to a transaction whose Close has begun, even though Close
\* removes by key what may by then be another transaction.
TableOpen ==
  \A k \in Keys : table[k] # 0 => stage[table[k]] = "open" /\ key[table[k]] = k

\* One side uses the Call-ID, and with one goroutine.
SoleUser(c) ==
  CallID[c] \notin PeerKeys /\ \A e \in Callers : CallID[e] = CallID[c] => e = c

\* The caller that alone uses a Call-ID can be reached until its transaction closes:
\* while it waits on an open transaction, that transaction is the one in the table,
\* so no answer in time is dropped as unknown.
WaiterReachable ==
  \A c \in Callers :
    SoleUser(c) /\ pc[c] \in {"receive", "signal"} /\ stage[tx[c]] = "open"
      => table[CallID[c]] = tx[c]

\* The listener, on which every device of the transport depends, is held up by one
\* transaction no longer than that transaction lives.
ListenerFree == lpc # "idle" ~> lpc = "idle"

\* A caller of sipResponse returns: with an answer, a timeout or a recovered panic.
WaiterReturns == \A c \in Callers : pc[c] # "idle" ~> pc[c] = "idle"

\* Transactions do not pile up: each one is closed, also one whose entry another
\* has overwritten or removed.
TransactionsClose == \A t \in Txs : stage[t] = "open" ~> stage[t] = "closed"

\* The transport stays alive: nothing holds up its listener, its callers or its
\* transactions for good, not a full queue, a send on a closed channel or a lost timer.
TransportLives == ListenerFree /\ WaiterReturns /\ TransactionsClose

-----------------------------------------------------------------------------
(* The inductive invariant behind the two safety properties.               *)

\* Transactions in use have been created; a caller's has the caller's Call-ID, and
\* so has the one the listener is delivering to.
InUse ==
  /\ \A k \in Keys : table[k] <= created
  /\ \A t \in Txs : stage[t] # "none" => t <= created
  /\ \A c \in Callers : pc[c] \in {"send", "receive", "signal"}
                          => tx[c] \in 1..created /\ key[tx[c]] = CallID[c]
  /\ lpc \in {"deliver", "signal"} => ltx \in 1..created
  /\ lpc = "create" => lkey \in PeerKeys

\* With a sole user, a Call-ID has no open transaction outside the table, and none
\* at all when that user is about to create one.
SoleTransaction ==
  \A c \in Callers : SoleUser(c) =>
    /\ pc[c] = "create" => table[CallID[c]] = 0
    /\ \A t \in 1..created : stage[t] = "open" /\ key[t] = CallID[c] => table[CallID[c]] = t

IInv == TypeOK /\ InUse /\ TableOpen /\ SoleTransaction
=============================================================================
