----------------------- MODULE PendingRequests_proofs -----------------------
(***************************************************************************)
(* Proofs about PendingRequests: until a counter wraps around, a command   *)
(* returns the device's answer to itself and no answer comes too early, for *)
(* any callers, handlers, devices and width of the counters; the tables do *)
(* not grow; and commands keep the promise of RequestReply (its safety).   *)
(* And about PtzCommands: the device reads in its bytes what was asked for. *)
(***************************************************************************)
EXTENDS PendingRequests, PtzCommands, TLAPS

USE DEF Goto, counterVars, callVars, endVars, callerVars, handlerVars

-----------------------------------------------------------------------------
(* Type correctness.                                                       *)

LEMMA TypeInit == Init => TypeOK
<1> SUFFICES ASSUME Init PROVE TypeOK
  OBVIOUS
<1>z. 0 \in SNs /\ 0 \in CallNumbers
  BY PendingAssumption DEF SNs, CallNumbers
<1>1. TableType
  <2>1. counter \in [Counters -> SNs]
    BY PendingAssumption DEF Init, SNs
  <2>2. pending \in [Tables -> [Devices -> [SNs -> CallNumbers]]]
    BY <1>z DEF Init
  <2> QED
    BY <2>1, <2>2 DEF Init, TableType
<1>2. CallType
  BY <1>z DEF Init, CallType, Outcomes, Kinds
<1>3. ActorType
  BY <1>z, PendingAssumption DEF Init, ActorType, Labels
<1> QED
  BY <1>1, <1>2, <1>3 DEF TypeOK

\* A caller that is not idle has one of the calls begun.
LEMMA HasCall ==
  ASSUME TypeOK, Progress, NEW c \in Callers, pc[c] # "idle"
  PROVE  /\ call[c] \in Calls
         /\ kind[call[c]] \in Kinds
         /\ device[call[c]] \in Devices
         /\ sn[call[c]] \in SNs
         /\ CounterOf(kind[call[c]]) \in Counters
         /\ kind[call[c]] # "sync" => kind[call[c]] \in Tables
<1>1. call[c] \in Calls
  BY PendingAssumption DEF TypeOK, ActorType, Progress, CallNumbers, Calls
<1> QED
  BY <1>1 DEF TypeOK, CallType, CounterOf, Counters, Kinds

\* One entry of the tables is written.
LEMMA OneEntry ==
  ASSUME TableType, NEW t \in Tables, NEW d \in Devices, NEW s \in SNs, NEW n \in CallNumbers,
         pending' = [pending EXCEPT ![t][d][s] = n]
  PROVE  /\ pending' \in [Tables -> [Devices -> [SNs -> CallNumbers]]]
         /\ \A u \in Tables, e \in Devices, r \in SNs :
              pending'[u][e][r] = IF u = t /\ e = d /\ r = s THEN n ELSE pending[u][e][r]
BY DEF TableType

LEMMA IncrementType ==
  ASSUME NEW s \in SNs PROVE Increment(s) \in SNs /\ 1 \in SNs
BY PendingAssumption DEF Increment, SNs

LEMMA BeginType ==
  ASSUME TypeOK, NEW c \in Callers, NEW k \in Kinds, NEW d \in Devices, Begin(c, k, d)
  PROVE  TypeOK'
<1> USE DEF TypeOK
<1>1. calls + 1 \in Calls
  BY PendingAssumption DEF CallType, Begin, Calls, CallNumbers
<1>2. calls + 1 \in CallNumbers
  BY <1>1 DEF Calls, CallNumbers
<1>3. CallType'
  BY <1>1, <1>2 DEF Begin, CallType
<1>4. ActorType'
  BY <1>2 DEF Begin, ActorType, Labels
<1> QED
  BY <1>3, <1>4 DEF Begin, TableType

LEMMA AddType ==
  ASSUME TypeOK, Progress, NEW c \in Callers, AddSN(c) \/ StoreOne(c) PROVE TypeOK'
<1> USE DEF TypeOK
<1>k. /\ call[c] \in Calls
      /\ CounterOf(kind[call[c]]) \in Counters
      /\ Increment(counter[CounterOf(kind[call[c]])]) \in SNs
      /\ 1 \in SNs
  BY HasCall, IncrementType DEF AddSN, StoreOne, TableType
<1>1. counter' \in [Counters -> SNs] /\ sn' \in [Calls -> SNs]
  BY <1>k DEF AddSN, StoreOne, TableType, CallType
<1>2. wrapped' \in BOOLEAN
  BY DEF AddSN, StoreOne, TableType
<1>3. pc' \in [Callers -> Labels]
  BY DEF AddSN, StoreOne, ActorType, Labels
<1> QED
  BY <1>1, <1>2, <1>3 DEF AddSN, StoreOne, TableType, CallType, ActorType

LEMMA StoreType ==
  ASSUME TypeOK, Progress, NEW c \in Callers, StorePending(c) PROVE TypeOK'
<1> USE DEF TypeOK
<1>k. /\ call[c] \in Calls
      /\ device[call[c]] \in Devices
      /\ sn[call[c]] \in SNs
      /\ kind[call[c]] # "sync" => kind[call[c]] \in Tables
      /\ call[c] \in CallNumbers
  BY HasCall DEF StorePending, ActorType
<1>1. pending' \in [Tables -> [Devices -> [SNs -> CallNumbers]]]
  <2>1. CASE pending' = pending
    BY <2>1 DEF TableType
  <2>2. CASE pending' # pending
    <3>1. /\ kind[call[c]] # "sync"
          /\ pending' = [pending EXCEPT ![kind[call[c]]][device[call[c]]][sn[call[c]]] = call[c]]
      BY <2>2 DEF StorePending
    <3> QED
      BY <1>k, <3>1, OneEntry
  <2> QED
    BY <2>1, <2>2
<1>2. outcome' \in [Calls -> Outcomes]
  BY <1>k DEF StorePending, End, CallType, Outcomes
<1>3. pc' \in [Callers -> Labels] /\ call' \in [Callers -> CallNumbers]
  BY PendingAssumption DEF StorePending, ActorType, Labels, CallNumbers
<1> QED
  BY <1>1, <1>2, <1>3 DEF StorePending, TableType, CallType, ActorType

LEMMA CallStepType ==
  ASSUME TypeOK, Progress, NEW c \in Callers,
         Send(c) \/ Acknowledged(c) \/ TakeReply(c) \/ WaitTimeout(c)
  PROVE  TypeOK'
<1> USE DEF TypeOK
<1>k. call[c] \in Calls
  BY HasCall DEF Send, Acknowledged, TakeReply, WaitTimeout
<1>1. outcome' \in [Calls -> Outcomes]
  BY <1>k DEF Send, Acknowledged, TakeReply, WaitTimeout, End, CallType, Outcomes
<1>2. pc' \in [Callers -> Labels]
  BY DEF Send, Acknowledged, TakeReply, WaitTimeout, ActorType, Labels
<1>3. sent' \subseteq Calls
  BY <1>k DEF Send, Acknowledged, TakeReply, WaitTimeout, CallType
<1>4. slot' \in [Calls -> SUBSET CallNumbers]
  BY <1>k DEF Send, Acknowledged, TakeReply, WaitTimeout, CallType
<1>5. by' \in [Calls -> CallNumbers]
  <2>1. CASE TakeReply(c)
    <3>1. PICK m \in slot[call[c]] : by' = [by EXCEPT ![call[c]] = m]
      BY <2>1 DEF TakeReply
    <3>2. m \in CallNumbers
      BY <1>k, <3>1 DEF CallType
    <3> QED
      BY <3>1, <3>2 DEF CallType
  <2> QED
    BY <2>1 DEF Send, Acknowledged, WaitTimeout, CallType
<1>6. UNCHANGED <<counter, wrapped, pending, calls, kind, device, sn, call, replied, messages,
                  found, from>>
  BY DEF Send, Acknowledged, TakeReply, WaitTimeout
<1>7. TableType'
  BY <1>6 DEF TableType
<1>8. CallType'
  BY <1>1, <1>3, <1>4, <1>5, <1>6 DEF CallType
<1> QED
  BY <1>2, <1>6, <1>7, <1>8 DEF ActorType

LEMMA DeleteType ==
  ASSUME TypeOK, Progress, NEW c \in Callers, DeletePending(c) PROVE TypeOK'
<1> USE DEF TypeOK
<1>k. /\ device[call[c]] \in Devices
      /\ sn[call[c]] \in SNs
      /\ kind[call[c]] # "sync" => kind[call[c]] \in Tables
      /\ 0 \in CallNumbers
  BY HasCall, PendingAssumption DEF DeletePending, CallNumbers
<1>1. pending' \in [Tables -> [Devices -> [SNs -> CallNumbers]]]
  BY <1>k, OneEntry DEF DeletePending, Without, TableType
<1>2. pc' \in [Callers -> Labels] /\ call' \in [Callers -> CallNumbers]
  BY <1>k DEF DeletePending, ActorType, Labels
<1> QED
  BY <1>1, <1>2 DEF DeletePending, TableType, CallType, ActorType

LEMMA LookupType ==
  ASSUME TypeOK, NEW h \in Handlers, NEW n \in CallNumbers, NEW entry \in CallNumbers,
         Lookup(h, n, entry), replied' \subseteq Calls
  PROVE  TypeOK'
<1> USE DEF TypeOK
<1>1. messages' \in 0..MaxReplies
  BY PendingAssumption DEF Lookup, ActorType
<1>2. found' \in [Handlers -> CallNumbers] /\ from' \in [Handlers -> CallNumbers]
  BY PendingAssumption DEF Lookup, ActorType, CallNumbers
<1> QED
  BY <1>1, <1>2 DEF Lookup, TableType, CallType, ActorType

\* Looking up finds a call or nothing.
LEMMA EntryType ==
  ASSUME TypeOK, NEW d \in Devices, NEW e \in Devices, NEW s \in SNs, NEW t \in Tables
  PROVE  QueryEntry(d, e, s) \in CallNumbers /\ pending[t][d][s] \in CallNumbers
BY DEF QueryEntry, TypeOK, TableType, Tables

LEMMA SentSN ==
  ASSUME TypeOK, NEW n \in Calls
  PROVE  n \in CallNumbers /\ TableOf(kind[n]) \in Tables /\ device[n] \in Devices /\ sn[n] \in SNs
<1>1. n \in CallNumbers
  BY PendingAssumption DEF Calls, CallNumbers
<1> QED
  BY <1>1 DEF TypeOK, CallType, TableOf, Tables, Kinds

LEMMA HandlerType ==
  ASSUME TypeOK, NEW h \in Handlers,
         \/ \E n \in Calls, d \in Devices : HandleReply(h, n, d)
         \/ \E d \in Devices, e \in Devices, s \in SNs : HandleOther(h, e, d, s)
  PROVE  TypeOK'
<1>1. ASSUME NEW n \in Calls, NEW d \in Devices, HandleReply(h, n, d) PROVE TypeOK'
  <2> DEFINE entry == IF kind[n] = "query" THEN QueryEntry(device[n], d, sn[n])
                      ELSE pending[TableOf(kind[n])][device[n]][sn[n]]
  <2>1. entry \in CallNumbers /\ n \in CallNumbers
    BY SentSN, EntryType
  <2>2. Lookup(h, n, entry) /\ replied' \subseteq Calls
    BY <1>1 DEF HandleReply, TypeOK, ActorType
  <2> HIDE DEF entry
  <2> QED
    BY <2>1, <2>2, LookupType
<1>2. ASSUME NEW d \in Devices, NEW e \in Devices, NEW s \in SNs, HandleOther(h, e, d, s)
      PROVE  TypeOK'
  <2>1. QueryEntry(e, d, s) \in CallNumbers /\ 0 \in CallNumbers
    BY EntryType, PendingAssumption DEF CallNumbers, Tables
  <2>2. Lookup(h, 0, QueryEntry(e, d, s)) /\ replied' \subseteq Calls
    BY <1>2 DEF HandleOther, TypeOK, ActorType
  <2> QED
    BY <2>1, <2>2, LookupType
<1> QED
  BY <1>1, <1>2

LEMMA OfferType ==
  ASSUME TypeOK, NEW h \in Handlers, Offer(h) PROVE TypeOK'
<1> USE DEF TypeOK
<1>1. found[h] \in Calls /\ from[h] \in CallNumbers /\ 0 \in CallNumbers
  BY PendingAssumption DEF Offer, ActorType, CallNumbers, Calls
<1>2. slot' \in [Calls -> SUBSET CallNumbers]
  BY <1>1 DEF Offer, CallType
<1>3. found' \in [Handlers -> CallNumbers] /\ from' \in [Handlers -> CallNumbers]
  BY <1>1 DEF Offer, ActorType
<1> QED
  BY <1>2, <1>3 DEF Offer, TableType, CallType, ActorType

LEMMA TypeStep == TypeOK /\ Progress /\ [Next]_vars => TypeOK'
<1> SUFFICES ASSUME TypeOK, Progress, [Next]_vars PROVE TypeOK'
  OBVIOUS
<1>1. CASE UNCHANGED vars
  BY <1>1 DEF vars, TypeOK, TableType, CallType, ActorType
<1>2. ASSUME NEW c \in Callers, Step(c) PROVE TypeOK'
  BY <1>2, AddType, StoreType, CallStepType, DeleteType DEF Step
<1>3. ASSUME NEW c \in Callers, NEW k \in Kinds, NEW d \in Devices, Begin(c, k, d) PROVE TypeOK'
  BY <1>3, BeginType
<1>4. ASSUME NEW h \in Handlers,
             \/ Offer(h)
             \/ \E d \in Devices : \/ \E n \in Calls : HandleReply(h, n, d)
                                   \/ \E e \in Devices, s \in SNs : HandleOther(h, e, d, s)
      PROVE  TypeOK'
  <2>1. CASE Offer(h)
    BY <2>1, OfferType
  <2>2. CASE \/ \E n \in Calls, d \in Devices : HandleReply(h, n, d)
             \/ \E d \in Devices, e \in Devices, s \in SNs : HandleOther(h, e, d, s)
    BY <2>2, HandlerType
  <2> QED
    BY <1>4, <2>1, <2>2
<1> QED
  BY <1>1, <1>2, <1>3, <1>4 DEF Next

-----------------------------------------------------------------------------
(* Calls in progress.                                                      *)

LEMMA ProgressInit == Init => Progress
BY PendingAssumption DEF Init, Progress, Calls, Labels

LEMMA ProgressBegin ==
  ASSUME TypeOK, Progress, NEW c \in Callers, NEW k \in Kinds, NEW d \in Devices, Begin(c, k, d)
  PROVE  Progress'
<1> DEFINE n == calls + 1
<1>1. n \in Calls /\ n \in Nat /\ calls \in Nat /\ Calls \subseteq Nat
  BY PendingAssumption DEF Begin, TypeOK, CallType, Calls, CallNumbers
<1>2. /\ calls' = n /\ UNCHANGED <<sn, outcome, sent, wrapped>>
      /\ kind' = [kind EXCEPT ![n] = k]
      /\ call' = [call EXCEPT ![c] = n]
      /\ pc' = [pc EXCEPT ![c] = "add"]
  BY DEF Begin
<1>3. /\ kind \in [Calls -> Kinds] /\ call \in [Callers -> CallNumbers]
      /\ pc \in [Callers -> Labels] /\ CallNumbers \subseteq Nat /\ sent \subseteq Calls
  BY DEF TypeOK, CallType, ActorType, CallNumbers
<1>4. n > calls /\ sn[n] = 0 /\ outcome[n] = "none" /\ n \notin sent
  BY <1>1, <1>3 DEF Progress
<1>5. \A e \in Callers : call[e] # n /\ call[e] <= n
  <2> SUFFICES ASSUME NEW e \in Callers PROVE call[e] # n /\ call[e] <= n
    OBVIOUS
  <2>1. call[e] <= calls
    BY DEF Progress
  <2>2. call[e] \in Nat
    BY <1>3
  <2>3. calls \in Nat
    BY <1>1
  <2> QED
    BY <2>1, <2>2, <2>3
<1>6. \A m \in Calls : m > n => m > calls /\ m # n
  BY <1>1
<1>7. \A m \in sent : m <= n /\ m # n
  BY <1>1, <1>3, <1>4 DEF Progress
<1> HIDE DEF n
<1>8. \A m \in Calls : m > n => kind'[m] = "sync" /\ sn[m] = 0 /\ outcome[m] = "none"
  BY <1>2, <1>3, <1>6 DEF Progress
<1>9. \A e \in Callers : /\ (e = c => pc'[e] = "add" /\ call'[e] = n)
                         /\ (e # c => /\ pc'[e] = pc[e] /\ call'[e] = call[e]
                                      /\ pc[e] # "idle" => kind'[call[e]] = kind[call[e]])
  <2> SUFFICES ASSUME NEW e \in Callers
               PROVE  /\ (e = c => pc'[e] = "add" /\ call'[e] = n)
                      /\ (e # c => /\ pc'[e] = pc[e] /\ call'[e] = call[e]
                                   /\ pc[e] # "idle" => kind'[call[e]] = kind[call[e]])
    OBVIOUS
  <2>1. pc[e] # "idle" => call[e] \in Calls
    BY HasCall
  <2> QED
    BY <1>2, <1>3, <1>5, <2>1
<1>10. n # 0 /\ n <= n
  BY <1>1 DEF n
<1> QED
  BY <1>2, <1>4, <1>5, <1>7, <1>8, <1>9, <1>10 DEF Progress

\* A caller's step after it has begun: it goes on with its call, or drops it.
LEMMA ProgressStep ==
  ASSUME TypeOK, Progress, NEW c \in Callers, Step(c) PROVE Progress'
<1> DEFINE n == call[c]
<1>1. /\ pc[c] # "idle" /\ n \in Calls /\ n # 0 /\ n <= calls /\ n \in Nat /\ calls \in Nat
      /\ \A e \in Callers : e # c => call[e] # n
  BY HasCall DEF Step, AddSN, StoreOne, StorePending, Send, Acknowledged, TakeReply, WaitTimeout,
                 DeletePending, Progress, TypeOK, ActorType, CallType, Calls, CallNumbers
<1>2. /\ sn \in [Calls -> SNs] /\ outcome \in [Calls -> Outcomes] /\ call \in [Callers -> CallNumbers]
      /\ pc \in [Callers -> Labels] /\ CallNumbers \subseteq Nat /\ sent \subseteq Calls
      /\ Calls \subseteq Nat
  BY DEF TypeOK, CallType, ActorType, CallNumbers, Calls
<1> HIDE DEF n
<1>3. UNCHANGED <<calls, kind>>
  BY DEF Step, AddSN, StoreOne, StorePending, Send, Acknowledged, TakeReply, WaitTimeout,
         DeletePending
<1>4. CASE AddSN(c) \/ StoreOne(c)
  <2>1. PICK s \in SNs : sn' = [sn EXCEPT ![n] = s] /\ (pc'[c] = "store" => s # 0)
    <3>1. CASE AddSN(c)
      <4>1. Increment(counter[CounterOf(kind[n])]) \in SNs
        BY <3>1, HasCall, IncrementType DEF AddSN, n, TypeOK, TableType
      <4> QED
        BY <3>1, <4>1, <1>2 DEF AddSN, n
    <3>2. CASE StoreOne(c)
      <4>1. sn' = [sn EXCEPT ![n] = 1] /\ 1 \in SNs /\ 1 # 0
        BY <3>2, PendingAssumption DEF StoreOne, n, SNs
      <4> QED
        BY <4>1
    <3> QED
      BY <1>4, <3>1, <3>2
  <2>2. /\ pc' \in [Callers -> Labels] /\ (pc[c] = "add" \/ pc[c] = "one")
        /\ \A e \in Callers : e # c => pc'[e] = pc[e]
        /\ pc'[c] \in {"store", "one"}
        /\ UNCHANGED <<outcome, call, sent>>
    BY <1>2, <1>4 DEF AddSN, StoreOne, Labels
  <2>7. wrapped => wrapped'
    BY <1>4 DEF AddSN, StoreOne
  <2>8. pc'[c] = "one" => wrapped'
    <3>1. pc'[c] = "one" => AddSN(c) /\ Increment(counter[CounterOf(kind[call[c]])]) = 0
      BY <1>2, <1>4 DEF AddSN, StoreOne
    <3> QED
      BY <3>1, Zenon DEF AddSN
  <2>3. \A m \in Calls : m # n => sn'[m] = sn[m]
    BY <2>1, <1>2
  <2>4. n \notin sent
    BY <2>2 DEF Progress, n
  <2>5. \A e \in Callers : e # c /\ pc[e] # "idle" => sn'[call[e]] = sn[call[e]]
    BY <1>1, <2>3, HasCall
  <2>6. pc'[c] = "store" => sn'[n] # 0
    BY <2>1, <1>1, <1>2
  <2> QED
    BY <1>1, <1>2, <1>3, <2>2, <2>3, <2>4, <2>5, <2>6, <2>7, <2>8 DEF Progress, n, Labels
<1>5. CASE StorePending(c)
  <2>1. CASE pc'[c] = "send"
    BY <1>1, <1>2, <1>3, <1>5, <2>1 DEF StorePending, Progress, n, Labels, End
  <2>2. CASE pc'[c] # "send"
    <3>1. /\ pc'[c] = "idle" /\ call'[c] = 0 /\ outcome' = [outcome EXCEPT ![n] = "error"]
          /\ UNCHANGED <<sn, sent, wrapped>>
          /\ \A e \in Callers : e # c => pc'[e] = pc[e] /\ call'[e] = call[e]
      BY <1>2, <1>5, <2>2 DEF StorePending, n, End
    <3>2. \A m \in Calls : m # n => outcome'[m] = outcome[m]
      BY <1>2, <3>1
    <3>3. \A e \in Callers : e # c /\ pc[e] # "idle" => outcome'[call[e]] = outcome[call[e]]
      BY <1>1, <3>2, HasCall
    <3>4. \A m \in Calls : m > calls => outcome'[m] = "none"
      BY <1>1, <1>2, <3>2 DEF Progress
    <3> QED
      BY <1>1, <1>2, <1>3, <3>1, <3>3, <3>4 DEF Progress, n, Labels
  <2> QED
    BY <2>1, <2>2
<1>6. CASE Send(c) \/ Acknowledged(c) \/ TakeReply(c) \/ WaitTimeout(c)
  <2>1. /\ UNCHANGED <<call, sn, wrapped>> /\ pc[c] \in {"send", "ack", "wait"}
        /\ pc'[c] \in {"ack", "wait", "delete"}
        /\ pc'[c] = "ack" => outcome'[n] = outcome[n]
        /\ pc'[c] = "wait" => outcome'[n] = outcome[n] /\ kind[n] # "sync"
        /\ sent' \subseteq sent \cup {n}
        /\ \A e \in Callers : e # c => pc'[e] = pc[e]
        /\ \A m \in Calls : m # n => outcome'[m] = outcome[m]
    BY <1>1, <1>2, <1>6 DEF Send, Acknowledged, TakeReply, WaitTimeout, n, End
  <2>2. \A e \in Callers : e # c /\ pc[e] # "idle" => outcome'[call[e]] = outcome[call[e]]
    BY <1>1, <2>1, HasCall
  <2>3. sn[n] # 0 /\ outcome[n] = "none"
    BY <2>1 DEF Progress, n, Labels
  <2>4. \A m \in Calls : m > calls => outcome'[m] = "none"
    BY <1>1, <1>2, <2>1 DEF Progress
  <2>5. \A m \in sent' : m <= calls /\ sn[m] # 0
    BY <1>1, <2>1, <2>3 DEF Progress
  <2>6. \A e \in Callers : e # c /\ pc[e] \in {"add", "one", "store", "send"} => call[e] \notin sent'
    BY <1>1, <2>1 DEF Progress
  <2> QED
    BY <1>1, <1>2, <1>3, <2>1, <2>2, <2>3, <2>4, <2>5, <2>6 DEF Progress, n, Labels
<1>7. CASE DeletePending(c)
  <2>1. /\ UNCHANGED <<sn, outcome, sent, wrapped>> /\ pc'[c] = "idle" /\ call'[c] = 0
        /\ \A e \in Callers : e # c => pc'[e] = pc[e] /\ call'[e] = call[e]
    BY <1>2, <1>7 DEF DeletePending
  <2> QED
    BY <1>1, <1>2, <1>3, <2>1 DEF Progress, n, Labels
<1> QED
  BY <1>4, <1>5, <1>6, <1>7 DEF Step

LEMMA ProgressNext ==
  ASSUME TypeOK, Progress, [Next]_vars PROVE Progress'
<1>1. CASE UNCHANGED <<counterVars, callVars, endVars, sent, callerVars>>
  BY <1>1 DEF Progress
<1>2. CASE ~UNCHANGED <<counterVars, callVars, endVars, sent, callerVars>>
  <2>1. \/ \E c \in Callers : Step(c) \/ \E k \in Kinds, d \in Devices : Begin(c, k, d)
        \/ UNCHANGED <<counterVars, callVars, endVars, sent, callerVars>>
    <3>1. CASE UNCHANGED vars
      BY <3>1 DEF vars
    <3>2. ASSUME NEW h \in Handlers, NEW n, NEW entry, Offer(h) \/ Lookup(h, n, entry)
          PROVE  UNCHANGED <<counterVars, callVars, endVars, sent, callerVars>>
      BY <3>2 DEF Offer, Lookup
    <3> QED
      BY <3>1, <3>2 DEF Next, HandleReply, HandleOther
  <2> QED
    BY <1>2, <2>1, ProgressBegin, ProgressStep
<1> QED
  BY <1>1, <1>2

-----------------------------------------------------------------------------
(* Numbers.                                                                *)

LEMMA NumbersInit == Init => Numbers
<1> SUFFICES ASSUME Init PROVE Numbers
  OBVIOUS
<1>1. \A n \in Calls : sn[n] = 0
  BY DEF Init
<1>2. \A k \in Counters : counter[k] \in 0..(Width - 1)
  BY PendingAssumption DEF Init
<1>3. \A n \in Calls : CounterOf(kind[n]) \in Counters
  BY DEF CounterOf, Counters
<1>4. \A n \in Calls : sn[n] <= counter[CounterOf(kind[n])]
  BY <1>1, <1>2, <1>3
<1> QED
  BY <1>1, <1>4 DEF Numbers

\* A call that draws its number gets one above all numbers of its counter.
LEMMA NumbersAdd ==
  ASSUME TypeOK, Progress, Numbers, NEW c \in Callers, AddSN(c) PROVE Numbers'
<1> SUFFICES ASSUME ~wrapped' PROVE Numbers'
  BY DEF Numbers
<1> DEFINE n == call[c]
           k == CounterOf(kind[n])
           s == Increment(counter[k])
<1>1. n \in Calls /\ k \in Counters /\ counter[k] \in SNs
  BY HasCall DEF AddSN, TypeOK, TableType
<1>2. ~wrapped /\ s # 0
  BY Zenon DEF AddSN
<1>3. s = counter[k] + 1 /\ counter[k] \in Nat
  BY <1>1, <1>2 DEF Increment, SNs
<1>4. /\ \A m \in Calls : m # n => sn'[m] = sn[m]
      /\ sn'[n] = s
      /\ counter' = [counter EXCEPT ![k] = s]
      /\ kind' = kind
  BY <1>1 DEF AddSN, TypeOK, CallType
<1> HIDE DEF s
<1>5. \A m \in Calls : CounterOf(kind[m]) \in Counters /\ sn[m] \in Nat /\ sn[m] <= counter[CounterOf(kind[m])]
  BY <1>2 DEF Numbers, TypeOK, CallType, SNs, CounterOf, Counters
<1>6. \A l \in Counters : counter[l] \in Nat /\ counter'[l] = IF l = k THEN s ELSE counter[l]
  BY <1>1, <1>4 DEF TypeOK, TableType, SNs
<1> HIDE DEF k, n
<1>7. \A m \in Calls : sn'[m] <= counter'[CounterOf(kind[m])]
  <2> SUFFICES ASSUME NEW m \in Calls PROVE sn'[m] <= counter'[CounterOf(kind[m])]
    OBVIOUS
  <2>1. CASE m = n
    BY <2>1, <1>1, <1>3, <1>4, <1>6 DEF k
  <2>2. CASE m # n
    BY <2>2, <1>3, <1>4, <1>5, <1>6
  <2> QED
    BY <2>1, <2>2
<1>8. \A m \in Calls : m # n /\ CounterOf(kind[m]) = k => sn'[m] # s
  <2> SUFFICES ASSUME NEW m \in Calls, m # n, CounterOf(kind[m]) = k PROVE sn'[m] # s
    OBVIOUS
  <2>1. sn'[m] = sn[m] /\ sn[m] \in Nat /\ sn[m] <= counter[k]
    BY <1>4, <1>5
  <2> QED
    BY <2>1, <1>3
<1>9. \A m, l \in Calls : sn'[m] = sn'[l] /\ sn'[m] # 0 /\ CounterOf(kind[m]) = CounterOf(kind[l]) => m = l
  <2> SUFFICES ASSUME NEW m \in Calls, NEW l \in Calls, sn'[m] = sn'[l], sn'[m] # 0,
                      CounterOf(kind[m]) = CounterOf(kind[l]), m # l
               PROVE  FALSE
    OBVIOUS
  <2>1. m # n /\ l # n
    BY <1>4, <1>8 DEF k
  <2> QED
    BY <2>1, <1>2, <1>4 DEF Numbers, SameCounter
<1> QED
  BY <1>4, <1>7, <1>9 DEF Numbers, SameCounter

LEMMA NumbersNext ==
  ASSUME TypeOK, Progress, Numbers, [Next]_vars PROVE Numbers'
<1>1. CASE UNCHANGED <<counter, wrapped, kind, sn>>
  BY <1>1 DEF Numbers, SameCounter
<1>2. ASSUME NEW c \in Callers, StoreOne(c) PROVE Numbers'
  <2>1. wrapped /\ wrapped' = wrapped
    BY <1>2 DEF StoreOne, Progress
  <2> QED
    BY <2>1 DEF Numbers
<1>3. ASSUME NEW c \in Callers, NEW k \in Kinds, NEW d \in Devices, Begin(c, k, d) PROVE Numbers'
  <2> DEFINE n == calls + 1
  <2>1. n \in Calls /\ n > calls
    BY <1>3, PendingAssumption DEF Begin, TypeOK, CallType, Calls, CallNumbers
  <2>2. /\ sn[n] = 0 /\ UNCHANGED <<counter, wrapped, sn>>
        /\ \A m \in Calls : m # n => kind'[m] = kind[m]
    BY <1>3, <2>1 DEF Begin, Progress, TypeOK, CallType
  <2>3. CounterOf(kind'[n]) \in Counters
    BY DEF CounterOf, Counters
  <2>4. \A l \in Counters : counter[l] >= 0
    BY DEF TypeOK, TableType, SNs
  <2> HIDE DEF n
  <2> QED
    BY <2>1, <2>2, <2>3, <2>4 DEF Numbers, SameCounter
<1>4. \/ UNCHANGED <<counter, wrapped, kind, sn>>
      \/ \E c \in Callers : \/ AddSN(c) \/ StoreOne(c)
                           \/ \E k \in Kinds, d \in Devices : Begin(c, k, d)
  <2>1. CASE UNCHANGED vars
    BY <2>1 DEF vars
  <2>2. ASSUME NEW h \in Handlers, NEW n, NEW entry, Offer(h) \/ Lookup(h, n, entry)
        PROVE  UNCHANGED <<counter, wrapped, kind, sn>>
    BY <2>2 DEF Offer, Lookup
  <2>3. ASSUME NEW c \in Callers, Step(c), ~AddSN(c), ~StoreOne(c)
        PROVE  UNCHANGED <<counter, wrapped, kind, sn>>
    BY <2>3 DEF Step, StorePending, Send, Acknowledged, TakeReply, WaitTimeout, DeletePending
  <2> QED
    BY <2>1, <2>2, <2>3 DEF Next, HandleReply, HandleOther
<1> QED
  BY <1>1, <1>2, <1>3, <1>4, NumbersAdd

-----------------------------------------------------------------------------
(* Entries of the tables.                                                  *)

Filed == {"send", "ack", "wait", "delete"}

\* The calls of two callers whose numbers are filed never share an entry while no
\* counter has wrapped.
LEMMA OtherEntry ==
  ASSUME TypeOK, Progress, Numbers, ~wrapped,
         NEW n \in Calls, NEW m \in Calls, n # m, sn[n] = sn[m], kind[n] = kind[m]
  PROVE  sn[n] = 0
BY DEF Numbers, SameCounter

LEMMA EntriesInit == Init => WaiterKnown /\ EntriesOwned
<1> SUFFICES ASSUME Init PROVE WaiterKnown /\ EntriesOwned
  OBVIOUS
<1>1. \A t \in Tables, d \in Devices, s \in SNs : pending[t][d][s] = 0
  BY DEF Init
<1>2. \A c \in Callers : pc[c] = "idle"
  BY DEF Init
<1> QED
  BY <1>1, <1>2 DEF WaiterKnown, EntriesOwned

\* A step that leaves the tables alone, and each caller with its entry.
Steady(c) ==
  /\ UNCHANGED pending
  /\ wrapped => wrapped'
  /\ \A n \in Calls : (\E e \in Callers : pc[e] \in Filed /\ call[e] = n)
                       => kind'[n] = kind[n] /\ device'[n] = device[n] /\ sn'[n] = sn[n]
  /\ \A e \in Callers : e # c => pc'[e] = pc[e] /\ call'[e] = call[e]
  /\ pc[c] \in Filed => call'[c] = call[c] /\ pc'[c] \in Filed
  /\ pc[c] \notin Filed => pc'[c] \notin Filed \/ kind'[call'[c]] = "sync"
  /\ pc[c] = "delete" => pc'[c] = "delete"

LEMMA SteadyEntries ==
  ASSUME TypeOK, Progress, WaiterKnown, EntriesOwned, NEW c \in Callers, Steady(c)
  PROVE  WaiterKnown' /\ EntriesOwned'
<1>1. EntriesOwned'
  <2> SUFFICES ASSUME NEW t \in Tables, NEW d \in Devices, NEW s \in SNs, pending[t][d][s] # 0
               PROVE  LET n == pending[t][d][s]
                      IN  /\ kind'[n] = t /\ device'[n] = d /\ sn'[n] = s
                          /\ \E e \in Callers : call'[e] = n /\ pc'[e] \in Filed
    BY DEF EntriesOwned, Steady, Filed
  <2> DEFINE n == pending[t][d][s]
  <2>1. /\ kind[n] = t /\ device[n] = d /\ sn[n] = s
        /\ \E e \in Callers : call[e] = n /\ pc[e] \in Filed
    BY DEF EntriesOwned, Filed
  <2>2. n \in Calls
    BY <2>1, HasCall DEF Filed
  <2> HIDE DEF n
  <2>3. PICK e \in Callers : call[e] = n /\ pc[e] \in Filed
    BY <2>1
  <2>4. call'[e] = n /\ pc'[e] \in Filed
    BY <2>3 DEF Steady
  <2>5. kind'[n] = t /\ device'[n] = d /\ sn'[n] = s
    BY <2>1, <2>2 DEF Steady
  <2> QED
    BY <2>4, <2>5 DEF n
<1>2. WaiterKnown'
  <2> SUFFICES ASSUME ~wrapped', NEW e \in Callers, pc'[e] \in {"send", "ack", "wait"},
                      kind'[call'[e]] # "sync"
               PROVE  pending'[kind'[call'[e]]][device'[call'[e]]][sn'[call'[e]]] = call'[e]
    BY DEF WaiterKnown
  <2>1. pc[e] \in {"send", "ack", "wait"} /\ call'[e] = call[e]
    BY DEF Steady, Filed
  <2>2. call[e] \in Calls
    BY <2>1, HasCall
  <2>3. /\ kind'[call[e]] = kind[call[e]] /\ device'[call[e]] = device[call[e]]
        /\ sn'[call[e]] = sn[call[e]]
    BY <2>1, <2>2 DEF Steady, Filed
  <2>4. ~wrapped
    BY Zenon DEF Steady
  <2>5. kind[call[e]] # "sync"
    BY <2>1, <2>3
  <2>6. pending[kind[call[e]]][device[call[e]]][sn[call[e]]] = call[e]
    BY <2>1, <2>4, <2>5 DEF WaiterKnown
  <2>7. pending' = pending
    BY DEF Steady
  <2> QED
    BY <2>1, <2>3, <2>6, <2>7
<1> QED
  BY <1>1, <1>2

LEMMA SteadySteps ==
  ASSUME TypeOK, Progress, NEW c \in Callers,
         \/ AddSN(c) \/ StoreOne(c) \/ Send(c) \/ Acknowledged(c) \/ TakeReply(c) \/ WaitTimeout(c)
         \/ StorePending(c) /\ (pc'[c] = "idle" \/ kind[call[c]] = "sync")
         \/ \E k \in Kinds, d \in Devices : Begin(c, k, d)
  PROVE  Steady(c)
<1>1. pc \in [Callers -> Labels] /\ call \in [Callers -> CallNumbers]
  BY DEF TypeOK, ActorType
<1>2. kind \in [Calls -> Kinds] /\ device \in [Calls -> Devices] /\ sn \in [Calls -> SNs]
  BY DEF TypeOK, CallType
<1>3. CASE AddSN(c) \/ StoreOne(c)
  <2>1. /\ pc[c] \in {"add", "one"} /\ pc'[c] \in {"store", "one"} /\ UNCHANGED <<pending, call, kind, device>>
        /\ \A e \in Callers : e # c => pc'[e] = pc[e]
        /\ \A n \in Calls : n # call[c] => sn'[n] = sn[n]
    BY <1>1, <1>2, <1>3 DEF AddSN, StoreOne
  <2>2. wrapped => wrapped'
    BY <1>3 DEF AddSN, StoreOne
  <2>3. \A e \in Callers : pc[e] \in Filed => e # c /\ call[e] # call[c]
    BY <2>1 DEF Progress, Filed
  <2> QED
    BY <2>1, <2>2, <2>3 DEF Steady, Filed
<1>4. CASE Send(c) \/ Acknowledged(c) \/ TakeReply(c) \/ WaitTimeout(c)
  <2>1. /\ pc[c] \in {"send", "ack", "wait"} /\ pc'[c] \in Filed
        /\ UNCHANGED <<pending, call, kind, device, sn, wrapped>>
        /\ \A e \in Callers : e # c => pc'[e] = pc[e]
    BY <1>1, <1>4 DEF Send, Acknowledged, TakeReply, WaitTimeout, Filed
  <2> QED
    BY <2>1 DEF Steady, Filed
<1>5. CASE StorePending(c) /\ (pc'[c] = "idle" \/ kind[call[c]] = "sync")
  <2>1. /\ pc[c] = "store" /\ UNCHANGED <<pending, kind, device, sn, wrapped>>
        /\ pc'[c] = "idle" \/ (pc'[c] = "send" /\ kind[call[c]] = "sync" /\ call' = call)
        /\ \A e \in Callers : e # c => pc'[e] = pc[e] /\ call'[e] = call[e]
    BY <1>1, <1>5 DEF StorePending
  <2> QED
    BY <2>1 DEF Steady, Filed
<1>6. ASSUME NEW k \in Kinds, NEW d \in Devices, Begin(c, k, d) PROVE Steady(c)
  <2>1. /\ pc[c] = "idle" /\ pc'[c] = "add" /\ UNCHANGED <<pending, sn, wrapped>>
        /\ \A e \in Callers : e # c => pc'[e] = pc[e] /\ call'[e] = call[e]
        /\ \A n \in Calls : n # calls + 1 => kind'[n] = kind[n] /\ device'[n] = device[n]
    BY <1>1, <1>2, <1>6 DEF Begin
  <2>2. \A e \in Callers : call[e] # calls + 1
    <3> SUFFICES ASSUME NEW e \in Callers PROVE call[e] # calls + 1
      OBVIOUS
    <3>1. call[e] <= calls
      BY DEF Progress
    <3>2. call[e] \in Nat /\ calls \in Nat
      BY <1>1 DEF TypeOK, CallType, CallNumbers
    <3> QED
      BY <3>1, <3>2
  <2> QED
    BY <2>1, <2>2 DEF Steady, Filed
<1> QED
  BY <1>3, <1>4, <1>5, <1>6

\* The call is filed: until a counter wraps, under a key that no other call in
\* progress has.
LEMMA FileEntry ==
  ASSUME TypeOK, Progress, Numbers, WaiterKnown, EntriesOwned, NEW c \in Callers, StorePending(c),
         pc'[c] # "idle", kind[call[c]] # "sync"
  PROVE  WaiterKnown' /\ EntriesOwned'
<1> DEFINE n == call[c]
           k == kind[n]
           d == device[n]
           s == sn[n]
<1>0. pc[c] = "store"
  BY DEF StorePending
<1>1. /\ n \in Calls /\ k \in Tables /\ d \in Devices /\ s \in SNs /\ n \in CallNumbers /\ s # 0
  <2>1. n \in Calls /\ k \in Tables /\ d \in Devices /\ s \in SNs
    BY <1>0, HasCall
  <2>2. n \in CallNumbers
    BY DEF TypeOK, ActorType
  <2>3. s # 0
    BY <1>0 DEF Progress
  <2> QED
    BY <2>1, <2>2, <2>3
<1>2. /\ pending' = [pending EXCEPT ![k][d][s] = n] /\ pc' = [pc EXCEPT ![c] = "send"]
      /\ UNCHANGED <<kind, device, sn, wrapped, call>>
  BY <1>0 DEF StorePending, TypeOK, ActorType
<1>3. /\ pc'[c] = "send" /\ \A e \in Callers : e # c => pc'[e] = pc[e]
  BY <1>2 DEF TypeOK, ActorType
<1> HIDE DEF n, k, d, s
<1>4. \A u \in Tables, f \in Devices, r \in SNs :
        pending'[u][f][r] = IF u = k /\ f = d /\ r = s THEN n ELSE pending[u][f][r]
  <2>1. TableType /\ k \in Tables /\ d \in Devices /\ s \in SNs /\ n \in CallNumbers
    BY <1>1 DEF TypeOK
  <2>2. pending' = [pending EXCEPT ![k][d][s] = n]
    BY <1>2
  <2> QED
    BY <2>1, <2>2 DEF TableType
<1>5. WaiterKnown'
  <2> SUFFICES ASSUME ~wrapped', NEW e \in Callers, pc'[e] \in {"send", "ack", "wait"},
                      kind[call[e]] # "sync"
               PROVE  pending'[kind[call[e]]][device[call[e]]][sn[call[e]]] = call[e]
    BY <1>2 DEF WaiterKnown
  <2>0. ~wrapped
    BY <1>2
  <2>1. CASE e = c
    BY <2>1, <1>1, <1>4 DEF n, k, d, s
  <2>2. CASE e # c
    <3>1. pc[e] \in {"send", "ack", "wait"}
      BY <2>2, <1>3
    <3>2. /\ call[e] \in Calls /\ kind[call[e]] \in Tables /\ device[call[e]] \in Devices /\ sn[call[e]] \in SNs
          /\ call[e] # n
      BY <2>2, <3>1, <1>0, HasCall DEF Progress, n
    <3>3. kind[call[e]] # k \/ sn[call[e]] # s
      BY <3>2, <2>0, <1>1, OtherEntry DEF k, s
    <3>4. pending[kind[call[e]]][device[call[e]]][sn[call[e]]] = call[e]
      BY <3>1, <2>0 DEF WaiterKnown
    <3> QED
      BY <3>2, <3>3, <3>4, <1>4
  <2> QED
    BY <2>1, <2>2
<1>6. EntriesOwned'
  <2> SUFFICES ASSUME NEW u \in Tables, NEW f \in Devices, NEW r \in SNs, pending'[u][f][r] # 0
               PROVE  LET m == pending'[u][f][r]
                      IN  /\ kind[m] = u /\ device[m] = f /\ sn[m] = r
                          /\ \E e \in Callers : call[e] = m /\ pc'[e] \in Filed
    BY <1>2 DEF EntriesOwned, Filed
  <2>1. CASE u = k /\ f = d /\ r = s
    BY <2>1, <1>3, <1>4 DEF n, k, d, s, Filed
  <2>2. CASE ~(u = k /\ f = d /\ r = s)
    <3>1. pending'[u][f][r] = pending[u][f][r]
      BY <2>2, <1>4
    <3>2. PICK e \in Callers : call[e] = pending[u][f][r] /\ pc[e] \in Filed
      BY <3>1 DEF EntriesOwned, Filed
    <3>3. e # c
      BY <3>2, <1>0 DEF Filed
    <3> QED
      BY <3>1, <3>2, <3>3, <1>3 DEF EntriesOwned
  <2> QED
    BY <2>1, <2>2
<1> QED
  BY <1>5, <1>6

\* The call ends: its key is free, and no other call in progress had it.
LEMMA FreeEntry ==
  ASSUME TypeOK, Progress, Numbers, WaiterKnown, EntriesOwned, NEW c \in Callers, DeletePending(c)
  PROVE  WaiterKnown' /\ EntriesOwned'
<1> DEFINE n == call[c]
           k == kind[n]
           d == device[n]
           s == sn[n]
<1>0. pc[c] = "delete"
  BY DEF DeletePending
<1>1. /\ n \in Calls /\ d \in Devices /\ s \in SNs /\ s # 0 /\ 0 \in CallNumbers
      /\ k # "sync" => k \in Tables
  <2>1. s # 0
    BY <1>0 DEF Progress
  <2> QED
    BY <1>0, <2>1, HasCall, PendingAssumption DEF CallNumbers
<1>2. /\ UNCHANGED <<kind, device, sn, wrapped>>
      /\ pc'[c] = "idle" /\ \A e \in Callers : e # c => pc'[e] = pc[e] /\ call'[e] = call[e]
  BY DEF DeletePending, TypeOK, ActorType
<1>3. pending' = IF k = "sync" THEN pending ELSE [pending EXCEPT ![k][d][s] = 0]
  BY DEF DeletePending, Without
<1> HIDE DEF n, k, d, s
<1>4. \A u \in Tables, f \in Devices, r \in SNs :
        pending'[u][f][r] = IF u = k /\ f = d /\ r = s THEN 0 ELSE pending[u][f][r]
  <2>1. CASE k = "sync"
    BY <2>1, <1>3 DEF Tables
  <2>2. CASE k # "sync"
    <3>1. TableType /\ k \in Tables /\ d \in Devices /\ s \in SNs /\ 0 \in CallNumbers
      BY <2>2, <1>1 DEF TypeOK
    <3>2. pending' = [pending EXCEPT ![k][d][s] = 0]
      BY <2>2, <1>3
    <3> QED
      BY <3>1, <3>2 DEF TableType
  <2> QED
    BY <2>1, <2>2
<1>5. WaiterKnown'
  <2> SUFFICES ASSUME ~wrapped', NEW e \in Callers, pc'[e] \in {"send", "ack", "wait"},
                      kind[call'[e]] # "sync"
               PROVE  pending'[kind[call'[e]]][device[call'[e]]][sn[call'[e]]] = call'[e]
    BY <1>2 DEF WaiterKnown
  <2>0. ~wrapped
    BY <1>2
  <2>1. e # c /\ call'[e] = call[e] /\ pc[e] \in {"send", "ack", "wait"}
    BY <1>2
  <2>2. /\ call[e] \in Calls /\ kind[call[e]] \in Tables /\ device[call[e]] \in Devices /\ sn[call[e]] \in SNs
        /\ call[e] # n
    BY <2>1, <1>0, HasCall DEF Progress, n
  <2>3. kind[call[e]] # k \/ sn[call[e]] # s
    BY <2>2, <2>0, <1>1, OtherEntry DEF k, s
  <2>4. pending[kind[call[e]]][device[call[e]]][sn[call[e]]] = call[e]
    BY <2>1, <2>0 DEF WaiterKnown
  <2> QED
    BY <2>1, <2>2, <2>3, <2>4, <1>4
<1>6. EntriesOwned'
  <2> SUFFICES ASSUME NEW u \in Tables, NEW f \in Devices, NEW r \in SNs, pending'[u][f][r] # 0
               PROVE  LET m == pending'[u][f][r]
                      IN  /\ kind[m] = u /\ device[m] = f /\ sn[m] = r
                          /\ \E e \in Callers : call'[e] = m /\ pc'[e] \in Filed
    BY <1>2 DEF EntriesOwned, Filed
  <2>1. pending'[u][f][r] = pending[u][f][r] /\ ~(u = k /\ f = d /\ r = s)
    BY <1>4
  <2>2. PICK e \in Callers : call[e] = pending[u][f][r] /\ pc[e] \in Filed
    BY <2>1 DEF EntriesOwned, Filed
  <2>3. kind[call[e]] = u /\ device[call[e]] = f /\ sn[call[e]] = r
    BY <2>1, <2>2 DEF EntriesOwned
  <2>4. e # c
    BY <2>1, <2>3 DEF n, k, d, s
  <2> QED
    BY <2>1, <2>2, <2>3, <2>4, <1>2
<1> QED
  BY <1>5, <1>6

LEMMA EntriesNext ==
  ASSUME TypeOK, Progress, Numbers, WaiterKnown, EntriesOwned, [Next]_vars
  PROVE  WaiterKnown' /\ EntriesOwned'
<1>1. CASE UNCHANGED <<pending, kind, device, sn, wrapped, pc, call>>
  BY <1>1 DEF WaiterKnown, EntriesOwned
<1>2. ASSUME NEW c \in Callers, Step(c) \/ \E k \in Kinds, d \in Devices : Begin(c, k, d)
      PROVE  WaiterKnown' /\ EntriesOwned'
  <2>1. CASE StorePending(c) /\ pc'[c] # "idle" /\ kind[call[c]] # "sync"
    BY <2>1, FileEntry
  <2>2. CASE DeletePending(c)
    BY <2>2, FreeEntry
  <2>3. CASE ~(StorePending(c) /\ pc'[c] # "idle" /\ kind[call[c]] # "sync") /\ ~DeletePending(c)
    <3>1. Steady(c)
      BY <1>2, <2>3, SteadySteps DEF Step
    <3> QED
      BY <3>1, SteadyEntries
  <2> QED
    BY <2>1, <2>2, <2>3
<1>3. \/ UNCHANGED <<pending, kind, device, sn, wrapped, pc, call>>
      \/ \E c \in Callers : Step(c) \/ \E k \in Kinds, d \in Devices : Begin(c, k, d)
  <2>1. CASE UNCHANGED vars
    BY <2>1 DEF vars
  <2>2. ASSUME NEW h \in Handlers, NEW n, NEW entry, Offer(h) \/ Lookup(h, n, entry)
        PROVE  UNCHANGED <<pending, kind, device, sn, wrapped, pc, call>>
    BY <2>2 DEF Offer, Lookup
  <2> QED
    BY <2>1, <2>2 DEF Next, HandleReply, HandleOther
<1> QED
  BY <1>1, <1>2, <1>3

-----------------------------------------------------------------------------
(* Answers.                                                                *)

\* May, after the step.
MayAfter(n, m) == (m = n /\ n \in replied') \/ (m = 0 /\ kind'[n] = "query")

LEMMA AnswersAfter ==
  ASSUME \A h \in Handlers : found'[h] # 0 => MayAfter(found'[h], from'[h]),
         \A n \in Calls : \A m \in slot'[n] : MayAfter(n, m),
         \A n \in Calls : outcome'[n] = "answered" => kind'[n] = "sync" \/ MayAfter(n, by'[n])
  PROVE  Answers'
BY DEF Answers, May, MayAfter

LEMMA AnswersInit == Init => Answers
BY DEF Init, Answers

\* A step that hands no answer on.
LEMMA AnswersKept ==
  ASSUME TypeOK, Progress, Answers, wrapped => wrapped', UNCHANGED <<found, from, slot, by>>,
         replied \subseteq replied',
         \A n \in Calls : /\ kind'[n] = kind[n] \/ (kind[n] = "sync" /\ outcome'[n] = "none")
                          /\ outcome'[n] = "answered" => outcome[n] = "answered" \/ kind'[n] = "sync"
  PROVE  Answers'
<1> SUFFICES ASSUME ~wrapped' PROVE Answers'
  BY DEF Answers
<1>1. ~wrapped
  OBVIOUS
<1>0. /\ UNCHANGED <<found, from, slot, by>> /\ replied \subseteq replied'
      /\ \A n \in Calls : /\ kind'[n] = kind[n] \/ (kind[n] = "sync" /\ outcome'[n] = "none")
                          /\ outcome'[n] = "answered" => outcome[n] = "answered" \/ kind'[n] = "sync"
  OBVIOUS
<1>2. ASSUME NEW n \in Calls, NEW m, May(n, m) PROVE MayAfter(n, m)
  BY <1>0, <1>2 DEF May, MayAfter
<1>3. \A h \in Handlers : found[h] # 0 => found[h] \in Calls
  BY PendingAssumption DEF TypeOK, ActorType, CallNumbers, Calls
<1>4. \A h \in Handlers : found'[h] # 0 => MayAfter(found'[h], from'[h])
  BY <1>0, <1>1, <1>2, <1>3 DEF Answers
<1>5. \A n \in Calls : \A m \in slot'[n] : MayAfter(n, m)
  BY <1>0, <1>1, <1>2 DEF Answers
<1>6. \A n \in Calls : outcome'[n] = "answered" => kind'[n] = "sync" \/ MayAfter(n, by'[n])
  <2> SUFFICES ASSUME NEW n \in Calls, outcome'[n] = "answered", kind'[n] # "sync"
               PROVE  MayAfter(n, by'[n])
    OBVIOUS
  <2>1. kind'[n] = kind[n] /\ outcome[n] = "answered"
    BY <1>0
  <2>2. May(n, by[n])
    BY <1>1, <2>1 DEF Answers
  <2> QED
    BY <1>0, <1>2, <2>2
<1> QED
  BY <1>4, <1>5, <1>6, AnswersAfter

\* An answer is looked up: the entry found is the answered call's own.
LEMMA OwnEntry ==
  ASSUME TypeOK, Progress, Numbers, EntriesOwned, ~wrapped, NEW n \in sent, NEW t \in Tables,
         NEW d \in Devices, CounterOf(t) = CounterOf(kind[n]), pending[t][d][sn[n]] # 0
  PROVE  pending[t][d][sn[n]] = n
<1> DEFINE m == pending[t][d][sn[n]]
<1>1. n \in Calls /\ sn[n] \in SNs /\ sn[n] # 0
  BY DEF TypeOK, CallType, Progress
<1>2. kind[m] = t /\ sn[m] = sn[n] /\ m \in Calls
  <2>1. m \in CallNumbers
    BY <1>1, EntryType
  <2>2. m \in Calls
    BY <2>1, PendingAssumption DEF CallNumbers, Calls
  <2>3. kind[m] = t /\ sn[m] = sn[n]
    BY <1>1 DEF EntriesOwned
  <2> QED
    BY <2>2, <2>3
<1> HIDE DEF m
<1>3. m = n
  BY <1>1, <1>2 DEF Numbers, SameCounter
<1> QED
  BY <1>3 DEF m

LEMMA AnswersLookup ==
  ASSUME TypeOK, Answers, NEW h \in Handlers, NEW n, NEW entry, Lookup(h, n, entry),
         replied \subseteq replied', ~wrapped => (entry = 0 \/ MayAfter(entry, n))
  PROVE  Answers'
<1> SUFFICES ASSUME ~wrapped' PROVE Answers'
  BY DEF Answers
<1>1. /\ ~wrapped /\ UNCHANGED <<slot, by, kind, outcome>>
      /\ found' = [found EXCEPT ![h] = entry]
      /\ from' = [from EXCEPT ![h] = IF entry = 0 THEN 0 ELSE n]
  BY DEF Lookup
<1>2. ASSUME NEW m, NEW l, May(m, l) PROVE MayAfter(m, l)
  BY <1>1, <1>2 DEF May, MayAfter
<1>3. \A g \in Handlers : found'[g] # 0 => MayAfter(found'[g], from'[g])
  <2> SUFFICES ASSUME NEW g \in Handlers, found'[g] # 0 PROVE MayAfter(found'[g], from'[g])
    OBVIOUS
  <2>1. CASE g = h
    BY <1>1, <2>1 DEF TypeOK, ActorType
  <2>2. CASE g # h
    <3>1. found'[g] = found[g] /\ from'[g] = from[g]
      BY <1>1, <2>2 DEF TypeOK, ActorType
    <3>2. May(found[g], from[g])
      BY <1>1, <3>1 DEF Answers
    <3> QED
      BY <1>2, <3>1, <3>2
  <2> QED
    BY <2>1, <2>2
<1>4. \A m \in Calls : \A l \in slot'[m] : MayAfter(m, l)
  BY <1>1, <1>2 DEF Answers
<1>5. \A m \in Calls : outcome'[m] = "answered" => kind'[m] = "sync" \/ MayAfter(m, by'[m])
  BY <1>1, <1>2 DEF Answers
<1> QED
  BY <1>3, <1>4, <1>5, AnswersAfter

LEMMA AnswersHandle ==
  ASSUME TypeOK, Progress, Numbers, EntriesOwned, Answers, NEW h \in Handlers,
         \/ \E n \in Calls, d \in Devices : HandleReply(h, n, d)
         \/ \E d \in Devices, e \in Devices, s \in SNs : HandleOther(h, e, d, s)
  PROVE  Answers'
<1>1. ASSUME NEW n \in Calls, NEW d \in Devices, HandleReply(h, n, d) PROVE Answers'
  <2> DEFINE entry == IF kind[n] = "query" THEN QueryEntry(device[n], d, sn[n])
                      ELSE pending[TableOf(kind[n])][device[n]][sn[n]]
  <2>1. n \in sent /\ Lookup(h, n, entry) /\ replied' = replied \cup {n}
    BY <1>1 DEF HandleReply
  <2>2. ASSUME ~wrapped, entry # 0 PROVE entry = n
    <3>1. CASE kind[n] = "query"
      <4>1. "query" \in Tables /\ CounterOf("query") = CounterOf(kind[n]) /\ device[n] \in Devices
        BY <3>1, SentSN DEF Tables
      <4> QED
        BY <2>1, <2>2, <3>1, <4>1, OwnEntry DEF QueryEntry
    <3>2. CASE kind[n] # "query"
      <4>1. /\ TableOf(kind[n]) \in Tables /\ device[n] \in Devices
            /\ CounterOf(TableOf(kind[n])) = CounterOf(kind[n])
        BY <3>2, SentSN DEF TableOf, CounterOf
      <4> QED
        BY <2>1, <2>2, <3>2, <4>1, OwnEntry
    <3> QED
      BY <3>1, <3>2
  <2> HIDE DEF entry
  <2>3. ~wrapped => (entry = 0 \/ MayAfter(entry, n))
    <3>1. n \in replied'
      BY <2>1
    <3> QED
      BY <2>2, <3>1 DEF MayAfter
  <2> QED
    BY <2>1, <2>3, AnswersLookup
<1>2. ASSUME NEW d \in Devices, NEW e \in Devices, NEW s \in SNs, HandleOther(h, e, d, s) PROVE Answers'
  <2> DEFINE entry == QueryEntry(e, d, s)
  <2>1. Lookup(h, 0, entry) /\ replied' = replied /\ kind' = kind
    BY <1>2 DEF HandleOther, Lookup
  <2>2. entry # 0 => kind[entry] = "query"
    BY DEF QueryEntry, EntriesOwned, Tables
  <2> HIDE DEF entry
  <2>3. ~wrapped => (entry = 0 \/ MayAfter(entry, 0))
    BY <2>1, <2>2 DEF MayAfter
  <2> QED
    BY <2>1, <2>3, AnswersLookup
<1> QED
  BY <1>1, <1>2

LEMMA AnswersOffer ==
  ASSUME TypeOK, Answers, NEW h \in Handlers, Offer(h) PROVE Answers'
<1> SUFFICES ASSUME ~wrapped' PROVE Answers'
  BY DEF Answers
<1>1. /\ ~wrapped /\ UNCHANGED <<by, kind, outcome, replied>> /\ found[h] # 0
      /\ slot' = [slot EXCEPT ![found[h]] = IF slot[found[h]] = {} THEN {from[h]} ELSE slot[found[h]]]
      /\ found' = [found EXCEPT ![h] = 0]
      /\ from' = [from EXCEPT ![h] = 0]
  BY DEF Offer
<1>2. May(found[h], from[h]) /\ found[h] \in Calls
  BY <1>1, PendingAssumption DEF Answers, TypeOK, ActorType, CallNumbers, Calls
<1>3. \A g \in Handlers : found'[g] # 0 => May(found'[g], from'[g])
  BY <1>1 DEF TypeOK, ActorType, Answers
<1>4. \A n \in Calls : \A m \in slot'[n] : May(n, m)
  BY <1>1, <1>2 DEF TypeOK, CallType, Answers
<1> QED
  BY <1>1, <1>3, <1>4 DEF Answers, May

LEMMA AnswersTake ==
  ASSUME TypeOK, Progress, Answers, NEW c \in Callers, TakeReply(c) PROVE Answers'
<1> SUFFICES ASSUME ~wrapped' PROVE Answers'
  BY DEF Answers
<1> DEFINE n == call[c]
<1>1. PICK m \in slot[n] : by' = [by EXCEPT ![n] = m]
  BY DEF TakeReply
<1>2. n \in Calls
  BY HasCall DEF TakeReply
<1>3. /\ ~wrapped /\ UNCHANGED <<found, from, kind, replied>>
      /\ slot' = [slot EXCEPT ![n] = {}]
      /\ outcome' = [outcome EXCEPT ![n] = "answered"]
  BY DEF TakeReply, End
<1>4. May(n, m)
  BY <1>1, <1>2, <1>3 DEF Answers
<1> HIDE DEF n
<1>5. \A l \in Calls : \A k \in slot'[l] : May(l, k)
  BY <1>2, <1>3 DEF TypeOK, CallType, Answers
<1>6. \A l \in Calls : outcome'[l] = "answered" => kind[l] = "sync" \/ May(l, by'[l])
  BY <1>1, <1>2, <1>3, <1>4 DEF TypeOK, CallType, Answers
<1> QED
  BY <1>3, <1>5, <1>6 DEF Answers, May

LEMMA AnswersNext ==
  ASSUME TypeOK, Progress, Numbers, EntriesOwned, Answers, [Next]_vars PROVE Answers'
<1> DEFINE Quiet == /\ wrapped => wrapped'
                    /\ UNCHANGED <<found, from, slot, by, replied>>
                    /\ \A n \in Calls :
                         /\ kind'[n] = kind[n] \/ (kind[n] = "sync" /\ outcome'[n] = "none")
                         /\ outcome'[n] = "answered" => outcome[n] = "answered" \/ kind'[n] = "sync"
<1>1. CASE Quiet
  BY <1>1, AnswersKept
<1>2. ASSUME NEW c \in Callers, Step(c), ~TakeReply(c) PROVE Quiet
  <2>1. call[c] \in Calls
    BY <1>2, HasCall DEF Step, AddSN, StoreOne, StorePending, Send, Acknowledged, WaitTimeout, DeletePending
  <2>2. wrapped => wrapped'
    BY <1>2 DEF Step, AddSN, StoreOne, StorePending, Send, Acknowledged, WaitTimeout, DeletePending
  <2>3. UNCHANGED <<found, from, slot, by, replied, kind>>
    BY <1>2 DEF Step, AddSN, StoreOne, StorePending, Send, Acknowledged, WaitTimeout, DeletePending
  <2>4. \A n \in Calls : outcome'[n] = "answered" => outcome[n] = "answered" \/ kind[n] = "sync"
    BY <1>2, <2>1 DEF Step, AddSN, StoreOne, StorePending, Send, Acknowledged, WaitTimeout, DeletePending,
                      End, TypeOK, CallType
  <2> QED
    BY <2>2, <2>3, <2>4
<1>3. ASSUME NEW c \in Callers, NEW k \in Kinds, NEW d \in Devices, Begin(c, k, d) PROVE Quiet
  <2>1. calls + 1 \in Calls /\ calls + 1 > calls
    BY <1>3, PendingAssumption DEF Begin, TypeOK, CallType, Calls, CallNumbers
  <2>2. kind[calls + 1] = "sync" /\ outcome[calls + 1] = "none"
    BY <2>1 DEF Progress
  <2>3. \A n \in Calls : n # calls + 1 => kind'[n] = kind[n]
    BY <1>3 DEF Begin, TypeOK, CallType
  <2>4. UNCHANGED <<wrapped, found, from, slot, by, replied, outcome>>
    BY <1>3 DEF Begin
  <2> QED
    BY <2>2, <2>3, <2>4
<1>4. CASE UNCHANGED vars
  BY <1>4, <1>1 DEF vars
<1> HIDE DEF Quiet
<1>5. ASSUME NEW h \in Handlers,
             \/ Offer(h)
             \/ \E d \in Devices : \/ \E n \in Calls : HandleReply(h, n, d)
                                   \/ \E e \in Devices, s \in SNs : HandleOther(h, e, d, s)
      PROVE  Answers'
  <2>1. CASE Offer(h)
    BY <2>1, AnswersOffer
  <2>2. CASE \/ \E n \in Calls, d \in Devices : HandleReply(h, n, d)
             \/ \E d \in Devices, e \in Devices, s \in SNs : HandleOther(h, e, d, s)
    BY <2>2, AnswersHandle
  <2> QED
    BY <1>5, <2>1, <2>2
<1> QED
  BY <1>1, <1>2, <1>3, <1>4, <1>5, AnswersTake DEF Next

-----------------------------------------------------------------------------
(* Theorems.                                                               *)

\* The whole invariant holds: types, progress of the calls, numbers, tables, answers.
THEOREM InvHolds == Spec => []IInv
<1>1. Init => IInv
  BY TypeInit, ProgressInit, NumbersInit, EntriesInit, AnswersInit DEF IInv
<1>2. IInv /\ [Next]_vars => IInv'
  BY TypeStep, ProgressNext, NumbersNext, EntriesNext, AnswersNext DEF IInv
<1> QED
  BY <1>1, <1>2, PTL DEF Spec

\* Every variable keeps its type.
THEOREM TypeCorrect == Spec => []TypeOK
BY InvHolds, PTL DEF IInv

\* A command returns as answered only with the device's answer to itself, until a
\* counter of serial numbers wraps around.
THEOREM OwnAnswer == Spec => []AnsweredByOwn
<1>1. IInv => AnsweredByOwn
  BY DEF IInv, Answers, AnsweredByOwn, May, Commands
<1> QED
  BY <1>1, InvHolds, PTL

\* A waiting call is the one its number finds, from before its request leaves.
THEOREM WaiterFound == Spec => []WaiterKnown
BY InvHolds, PTL DEF IInv

\* Every entry belongs to a call in progress: the tables do not grow.
THEOREM NoEntryLeaks == Spec => []EntriesOwned
BY InvHolds, PTL DEF IInv

-----------------------------------------------------------------------------
(* The promise.                                                            *)

LEMMA PromiseInit == Init => Promise!Init
<1> SUFFICES ASSUME Init PROVE Promise!Init
  OBVIOUS
<1>1. \A n \in Calls : StateOf(n) = "none"
  BY DEF Init, StateOf, Commands
<1> QED
  BY <1>1 DEF Init, Promise!Init

\* What the abstract state of a call becomes.
StateAfter(n) ==
  CASE kind'[n] \notin Commands -> "none"
    [] kind'[n] \in Commands /\ outcome'[n] = "none" -> "open"
    [] kind'[n] \in Commands /\ outcome'[n] = "answered" -> "answered"
    [] OTHER -> "failed"

\* A step that ends no command is a stutter of the promise, or begins to repeat.
LEMMA PromiseStutter ==
  ASSUME TypeOK, \A n \in Calls : StateAfter(n) = StateOf(n), replied' = replied,
         wrapped' = wrapped \/ wrapped'
  PROVE  [Promise!Next]_(Promise!vars)
<1>1. [n \in Calls |-> StateAfter(n)] = [n \in Calls |-> StateOf(n)]
  OBVIOUS
<1>2. [n \in Calls |-> StateOf(n)]' = [n \in Calls |-> StateOf(n)]
  BY <1>1 DEF StateOf, StateAfter
<1>3. CASE wrapped' = wrapped
  BY <1>2, <1>3 DEF Promise!vars
<1>4. CASE wrapped' # wrapped
  <2>1. wrapped' = TRUE
    BY <1>4
  <2>2. Promise!Repeat
    BY <1>2, <2>1 DEF Promise!Repeat
  <2> QED
    BY <2>2 DEF Promise!Next
<1> QED
  BY <1>3, <1>4

\* A call ends, or begins.
LEMMA PromiseOne ==
  ASSUME TypeOK, NEW n \in Calls, \A m \in Calls : m # n => StateAfter(m) = StateOf(m),
         replied' = replied, wrapped' = wrapped,
         \/ StateAfter(n) = StateOf(n)
         \/ StateOf(n) = "none" /\ StateAfter(n) = "open"
         \/ StateOf(n) = "open" /\ StateAfter(n) = "failed"
         \/ StateOf(n) = "open" /\ StateAfter(n) = "answered" /\ (n \in replied \/ wrapped)
  PROVE  [Promise!Next]_(Promise!vars)
<1> DEFINE S == [m \in Calls |-> StateOf(m)]
           T == [m \in Calls |-> StateAfter(m)]
<1>1. S' = T
  BY DEF StateOf, StateAfter
<1>2. T = [S EXCEPT ![n] = StateAfter(n)]
  OBVIOUS
<1>3. S[n] = StateOf(n)
  OBVIOUS
<1>4. CASE StateAfter(n) = StateOf(n)
  <2>1. S' = S
    BY <1>1, <1>2, <1>3, <1>4
  <2> QED
    BY <2>1 DEF Promise!vars
<1>5. CASE StateOf(n) = "none" /\ StateAfter(n) = "open"
  <2>1. Promise!Ask(n)
    BY <1>1, <1>2, <1>3, <1>5 DEF Promise!Ask
  <2> QED
    BY <2>1 DEF Promise!Next
<1>6. CASE StateOf(n) = "open" /\ StateAfter(n) = "failed"
  <2>1. Promise!Failed(n)
    BY <1>1, <1>2, <1>3, <1>6 DEF Promise!Failed
  <2> QED
    BY <2>1 DEF Promise!Next, Promise!Finish
<1>7. CASE StateOf(n) = "open" /\ StateAfter(n) = "answered" /\ (n \in replied \/ wrapped)
  <2>1. Promise!Answered(n)
    BY <1>1, <1>2, <1>3, <1>7 DEF Promise!Answered
  <2> QED
    BY <2>1 DEF Promise!Next, Promise!Finish
<1> QED
  BY <1>4, <1>5, <1>6, <1>7

\* The steps that change no call's kind or outcome, and no answer.
LEMMA PromiseQuiet ==
  ASSUME TypeOK, UNCHANGED <<kind, outcome, replied>>, wrapped' = wrapped \/ wrapped'
  PROVE  [Promise!Next]_(Promise!vars)
<1>1. \A n \in Calls : StateAfter(n) = StateOf(n)
  BY DEF StateAfter, StateOf
<1> QED
  BY <1>1, PromiseStutter

\* A step of the caller that may end its call.
LEMMA PromiseEnd ==
  ASSUME TypeOK, Progress, Answers, NEW c \in Callers,
         StorePending(c) \/ Send(c) \/ Acknowledged(c) \/ TakeReply(c) \/ WaitTimeout(c)
  PROVE  [Promise!Next]_(Promise!vars)
<1> DEFINE n == call[c]
<1>1. n \in Calls /\ pc[c] \in {"store", "send", "ack", "wait"}
  BY HasCall DEF StorePending, Send, Acknowledged, TakeReply, WaitTimeout
<1>2. outcome[n] = "none"
  BY <1>1 DEF Progress, Labels
<1>3. UNCHANGED <<kind, replied, wrapped>>
  BY DEF StorePending, Send, Acknowledged, TakeReply, WaitTimeout
<1>4. \A m \in Calls : m # n => outcome'[m] = outcome[m]
  BY <1>1 DEF StorePending, Send, Acknowledged, TakeReply, WaitTimeout, End, TypeOK, CallType
<1>5. \/ outcome'[n] \in {"none", "error", "timeout"}
      \/ outcome'[n] = "answered" /\ kind[n] = "sync"
      \/ outcome'[n] = "answered" /\ TakeReply(c)
  BY <1>1, <1>2 DEF StorePending, Send, Acknowledged, TakeReply, WaitTimeout, End, TypeOK, CallType
<1>6. TakeReply(c) /\ kind[n] \in Commands => n \in replied \/ wrapped
  <2> SUFFICES ASSUME TakeReply(c), kind[n] \in Commands, ~wrapped PROVE n \in replied
    OBVIOUS
  <2>1. PICK m \in slot[n] : TRUE
    BY DEF TakeReply
  <2> QED
    BY <1>1, <2>1 DEF Answers, May, Commands
<1>7. \A m \in Calls : m # n => StateAfter(m) = StateOf(m)
  BY <1>3, <1>4 DEF StateAfter, StateOf
<1>8. CASE kind[n] \notin Commands
  <2>1. StateAfter(n) = StateOf(n)
    BY <1>3, <1>8 DEF StateAfter, StateOf
  <2> HIDE DEF n
  <2> QED
    BY <1>1, <1>3, <1>7, <2>1, PromiseOne
<1>9. CASE kind[n] \in Commands
  <2>1. StateOf(n) = "open" /\ kind[n] # "sync"
    BY <1>2, <1>9 DEF StateOf, Commands
  <2>2. CASE outcome'[n] = "none"
    <3>1. StateAfter(n) = StateOf(n)
      BY <1>2, <1>3, <2>2 DEF StateAfter, StateOf
    <3> HIDE DEF n
    <3> QED
      BY <1>1, <1>3, <1>7, <3>1, PromiseOne
  <2>3. CASE outcome'[n] \in {"error", "timeout"}
    <3>1. StateAfter(n) = "failed"
      BY <1>3, <1>9, <2>3 DEF StateAfter
    <3> HIDE DEF n
    <3> QED
      BY <1>1, <1>3, <1>7, <2>1, <3>1, PromiseOne
  <2>4. CASE outcome'[n] = "answered"
    <3>1. StateAfter(n) = "answered"
      BY <1>3, <1>9, <2>4 DEF StateAfter
    <3>2. n \in replied \/ wrapped
      BY <1>5, <1>6, <1>9, <2>1, <2>4
    <3> HIDE DEF n
    <3> QED
      BY <1>1, <1>3, <1>7, <2>1, <3>1, <3>2, PromiseOne
  <2> QED
    BY <1>5, <2>1, <2>2, <2>3, <2>4
<1> QED
  BY <1>8, <1>9

LEMMA PromiseBegin ==
  ASSUME TypeOK, Progress, NEW c \in Callers, NEW k \in Kinds, NEW d \in Devices, Begin(c, k, d)
  PROVE  [Promise!Next]_(Promise!vars)
<1> DEFINE n == calls + 1
<1>1. n \in Calls /\ n > calls
  BY PendingAssumption DEF Begin, TypeOK, CallType, Calls, CallNumbers
<1>2. kind[n] = "sync" /\ outcome[n] = "none"
  BY <1>1 DEF Progress
<1>3. /\ UNCHANGED <<replied, wrapped, outcome>> /\ kind'[n] = k
      /\ \A m \in Calls : m # n => kind'[m] = kind[m]
  BY <1>1 DEF Begin, TypeOK, CallType
<1> HIDE DEF n
<1>4. \A m \in Calls : m # n => StateAfter(m) = StateOf(m)
  BY <1>3 DEF StateAfter, StateOf
<1>5. StateOf(n) = "none"
  BY <1>2 DEF StateOf, Commands
<1>6. StateAfter(n) \in {"none", "open"}
  BY <1>2, <1>3 DEF StateAfter
<1> QED
  BY <1>1, <1>3, <1>4, <1>5, <1>6, PromiseOne

LEMMA PromiseReply ==
  ASSUME TypeOK, NEW h \in Handlers, NEW n \in Calls, NEW d \in Devices, HandleReply(h, n, d)
  PROVE  [Promise!Next]_(Promise!vars)
<1>1. UNCHANGED <<kind, outcome, wrapped>> /\ replied' = replied \cup {n}
  BY DEF HandleReply, Lookup
<1>2. [m \in Calls |-> StateOf(m)]' = [m \in Calls |-> StateOf(m)]
  BY <1>1 DEF StateOf
<1>3. Promise!Reply(n)
  BY <1>1, <1>2 DEF Promise!Reply
<1> QED
  BY <1>3 DEF Promise!Next

LEMMA PromiseStep == IInv /\ [Next]_vars => [Promise!Next]_(Promise!vars)
<1> SUFFICES ASSUME TypeOK, Progress, Answers, [Next]_vars PROVE [Promise!Next]_(Promise!vars)
  BY DEF IInv
<1>1. CASE UNCHANGED vars
  BY <1>1, PromiseQuiet DEF vars
<1>2. ASSUME NEW c \in Callers, AddSN(c) \/ StoreOne(c) \/ DeletePending(c)
      PROVE  [Promise!Next]_(Promise!vars)
  <2>1. UNCHANGED <<kind, outcome, replied>>
    BY <1>2 DEF AddSN, StoreOne, DeletePending
  <2>2. wrapped' = wrapped \/ wrapped'
    <3>1. CASE AddSN(c) /\ wrapped
      BY <3>1 DEF AddSN
    <3>2. CASE AddSN(c) /\ ~wrapped
      BY <3>2 DEF AddSN, TypeOK, TableType
    <3>3. CASE StoreOne(c) \/ DeletePending(c)
      BY <3>3 DEF StoreOne, DeletePending
    <3> QED
      BY <1>2, <3>1, <3>2, <3>3
  <2> QED
    BY <2>1, <2>2, PromiseQuiet
<1>3. ASSUME NEW h \in Handlers, NEW d \in Devices,
             Offer(h) \/ \E e \in Devices, s \in SNs : HandleOther(h, e, d, s)
      PROVE  [Promise!Next]_(Promise!vars)
  <2>1. UNCHANGED <<kind, outcome, replied, wrapped>>
    BY <1>3 DEF Offer, HandleOther, Lookup
  <2> QED
    BY <2>1, PromiseQuiet
<1>4. ASSUME NEW h \in Handlers, Offer(h) PROVE [Promise!Next]_(Promise!vars)
  <2>1. UNCHANGED <<kind, outcome, replied, wrapped>>
    BY <1>4 DEF Offer
  <2> QED
    BY <2>1, PromiseQuiet
<1> QED
  BY <1>1, <1>2, <1>3, <1>4, PromiseEnd, PromiseBegin, PromiseReply DEF Next, Step

\* Commands keep the promise of RequestReply: an unanswered command never ends as
\* answered, and none ends twice.  (That each one ends is model-checked.)
THEOREM PromiseKept == Spec => Promise!Spec
BY PromiseInit, PromiseStep, InvHolds, PTL DEF Spec, Promise!Spec

-----------------------------------------------------------------------------
(* The bytes of a PTZ command.                                           *)

\* What the tables of codes hold.
LEMMA PtzTables ==
  /\ DOMAIN MoveBit = {"right", "left", "up", "down", "zoom_out", "zoom_in"}
  /\ DOMAIN LensBit = {"focus_far", "focus_near", "iris_open", "iris_close"}
  /\ DOMAIN PresetCode = {"preset_set", "preset_call", "preset_delete"}
  /\ DOMAIN StationCode = {"cruise_add", "cruise_del"}
  /\ DOMAIN ValueCode = {"cruise_speed", "cruise_stay", "scan_speed"}
  /\ DOMAIN PlainCode = {"cruise_start", "scan_start", "scan_left", "scan_right"}
  /\ DOMAIN SwitchCode = {"aux_on", "aux_off"}
  BY DEF MoveBit, LensBit, PresetCode, StationCode, ValueCode, PlainCode, SwitchCode

\* What is asked for has the numbers its types allow, and is a movement or an action.
LEMMA PtzAsked ==
  ASSUME NEW in \in Inputs
  PROVE  /\ in.speed \in 0..255 /\ in.preset \in Nat /\ in.group \in 0..255
         /\ in.aux \in 0..255 /\ in.value \in Nat
         /\ \/ \E m \in Moves \cup {{}} : in.does = <<"move", m>>
            \/ \E a \in Actions : in.does = <<"act", a>>
<1> DEFINE Movements == {Asked(<<"move", m>>, s, 0, 0, 0, 0) : m \in Moves \cup {{}}, s \in Numbers8}
           Acts == {Asked(<<"act", a>>, s, p, g, g, v) :
                      a \in Actions, s \in Numbers8, p \in PresetNumbers, g \in Numbers8, v \in Numbers16}
<1>1. CASE in \in Movements
  <2>1. PICK m \in Moves \cup {{}}, s \in Numbers8 : in = Asked(<<"move", m>>, s, 0, 0, 0, 0)
    BY <1>1
  <2>2. s \in 0..255
    BY PtzAssumption, <2>1
  <2>3. /\ in.speed = s /\ in.preset = 0 /\ in.group = 0 /\ in.aux = 0 /\ in.value = 0
        /\ in.does = <<"move", m>>
    BY <2>1 DEF Asked
  <2> HIDE DEF Movements, Acts
  <2>4. \E n \in Moves \cup {{}} : in.does = <<"move", n>>
    BY <2>1, <2>3
  <2> QED
    BY <2>2, <2>3, <2>4
<1>2. CASE in \in Acts
  <2>1. PICK a \in Actions, s \in Numbers8, p \in PresetNumbers, g \in Numbers8, v \in Numbers16 :
          in = Asked(<<"act", a>>, s, p, g, g, v)
    BY <1>2
  <2>2. s \in 0..255 /\ p \in Nat /\ g \in 0..255 /\ v \in Nat
    BY PtzAssumption, <2>1
  <2>3. /\ in.speed = s /\ in.preset = p /\ in.group = g /\ in.aux = g /\ in.value = v
        /\ in.does = <<"act", a>>
    BY <2>1 DEF Asked
  <2> HIDE DEF Movements, Acts
  <2>4. \E n \in Actions : in.does = <<"act", n>>
    BY <2>1, <2>3
  <2> QED
    BY <2>2, <2>3, <2>4
<1>3. Inputs = Movements \cup Acts
  BY DEF Inputs
<1> HIDE DEF Movements, Acts
<1> QED
  BY <1>1, <1>2, <1>3

\* The defaults stay within the ranges.
LEMMA PtzDefaults ==
  ASSUME NEW in, in.speed \in 0..255, in.group \in 0..255, in.value \in Nat
  PROVE  Speed(in) \in 1..255 /\ Group(in) \in 1..255 /\ Value(in) \in Nat \ {0}
<1>1. Speed(in) \in 1..255
  BY DEF Speed
<1>2. Group(in) \in 1..255
  BY DEF Group
<1> QED
  BY <1>1, <1>2 DEF Value

\* The smaller of two numbers.
LEMMA PtzAtMost ==
  ASSUME NEW n \in Nat, NEW max \in Nat
  PROVE  AtMost(n, max) = IF n > max THEN max ELSE n
<1>1. AtMost(n, max) \in {n, max} /\ AtMost(n, max) <= n /\ AtMost(n, max) <= max
  <2>1. \E m \in {n, max} : m <= n /\ m <= max
    <3>1. CASE n <= max
      BY <3>1
    <3>2. CASE n > max
      BY <3>2
    <3> QED
      BY <3>1, <3>2
  <2> QED
    BY <2>1 DEF AtMost
<1> QED
  BY <1>1

\* The speed of the zoom is in the upper half of its byte, and is not wrapped around.
LEMMA PtzZoom ==
  ASSUME NEW s \in 0..255
  PROVE  /\ NormalizeZoomSpeed(s) * 16 \in 0..255
         /\ (NormalizeZoomSpeed(s) * 16) \div 16 = AtMost(s, 15)
<1>1. NormalizeZoomSpeed(s) \in 0..15 /\ NormalizeZoomSpeed(s) = AtMost(s, 15)
  BY PtzAtMost DEF NormalizeZoomSpeed
<1>2. ASSUME NEW z \in 0..15
      PROVE  z * 16 \in 0..255 /\ (z * 16) \div 16 = z
  OBVIOUS
<1> QED
  BY <1>1, <1>2

\* The two bytes of a value of twelve bits.
Low(v) == v % 256
High(v) == ((v \div 256) * 16) % 256
Byte == 0..255
Twelve == 0..4095

\* The low byte and the four upper bits are bytes, and give the value back.
LEMMA PtzParts ==
  ASSUME NEW v \in Twelve
  PROVE  Low(v) \in Byte /\ High(v) \in Byte /\ Low(v) + 256 * (High(v) \div 16) = v
<1>1. PICK q \in 0..15, r \in 0..255 : v = 256 * q + r
  <2>1. v \div 256 \in 0..15 /\ v % 256 \in 0..255 /\ v = 256 * (v \div 256) + (v % 256)
    BY DEF Twelve
  <2> QED
    BY <2>1
<1>2. v % 256 = r /\ v \div 256 = q
  BY <1>1
<1>3. q * 16 \in 0..255 /\ (q * 16) % 256 = q * 16 /\ (q * 16) \div 16 = q
  BY <1>1
<1> QED
  BY <1>1, <1>2, <1>3 DEF Low, High, Byte

\* A value goes into two bytes, and comes out of them, cut to twelve bits.
LEMMA PtzTwelveBits ==
  ASSUME NEW what \in Byte, NEW value \in Nat
  PROVE  \E y, z \in Byte : /\ TwelveBits(what, value) = <<what, y, z>>
                            /\ y + 256 * (z \div 16) = AtMost(value, 4095)
<1>1. Clamped(value) \in Twelve /\ Clamped(value) = AtMost(value, 4095)
  BY PtzAtMost DEF Clamped, Twelve
<1>2. TwelveBits(what, value) = <<what, Low(Clamped(value)), High(Clamped(value))>>
  BY DEF TwelveBits, Low, High
<1>3. /\ Low(Clamped(value)) \in Byte /\ High(Clamped(value)) \in Byte
      /\ Low(Clamped(value)) + 256 * (High(Clamped(value)) \div 16) = Clamped(value)
  BY <1>1, PtzParts
<1> QED
  BY <1>1, <1>2, <1>3

\* Eight bytes with the right check sum, that hold a code and three bytes.
Holds(b, code, x, y, z) ==
  /\ b # Refused /\ b # NotYet /\ Len(b) = 8 /\ \A i \in 1..8 : b[i] \in 0..255
  /\ SumOfSeven(b) % 256 = b[8]
  /\ b[4] = code /\ b[5] = x /\ b[6] = y /\ b[7] = z

\* finalizePTZCmd makes them, of any code and any three bytes.
LEMMA PtzFinal ==
  ASSUME NEW code \in 0..255, NEW x \in 0..255, NEW y \in 0..255, NEW z \in 0..255
  PROVE  Holds(Final(code, <<x, y, z>>), code, x, y, z)
<1> DEFINE sum == 165 + 15 + 1 + code + x + y + z
           b == Final(code, <<x, y, z>>)
<1>1. b = <<165, 15, 1, code, x, y, z, sum % 256>>
  BY DEF Final
<1>2. sum \in Nat /\ sum % 256 \in 0..255
  <2>1. sum \in Nat
    OBVIOUS
  <2>2. \A n \in Nat : n % 256 \in 0..255
    OBVIOUS
  <2> HIDE DEF sum
  <2> QED
    BY <2>1, <2>2
<1>3. PICK c \in 0..255 : c = sum % 256
  BY <1>2
<1>4. b = <<165, 15, 1, code, x, y, z, c>>
  BY <1>1, <1>3
<1>5. SumOfSeven(b) = sum
  <2> HIDE DEF sum
  <2>1. /\ b[1] = 165 /\ b[2] = 15 /\ b[3] = 1 /\ b[4] = code /\ b[5] = x /\ b[6] = y /\ b[7] = z
    BY <1>4
  <2> HIDE DEF b
  <2> QED
    BY <2>1 DEF SumOfSeven, sum
<1> HIDE DEF b, sum
<1>6. Len(b) = 8
  BY <1>4
<1>7. /\ b[1] = 165 /\ b[2] = 15 /\ b[3] = 1 /\ b[4] = code /\ b[5] = x /\ b[6] = y /\ b[7] = z
      /\ b[8] = c
  BY <1>4
<1>8. b # Refused /\ b # NotYet
  <2>1. Len(<<"refused">>) = 1 /\ Len(<<>>) = 0
    OBVIOUS
  <2> QED
    BY <1>6, <2>1 DEF Refused, NotYet
<1>9. \A i \in 1..8 : b[i] \in 0..255
  BY <1>7
<1> QED
  BY <1>3, <1>5, <1>6, <1>7, <1>8, <1>9 DEF b, Holds

\* The directions of a movement are the bits of its code, and no other bit is set.
LEMMA PtzMoveCode ==
  ASSUME NEW dirs \in Moves \cup {{}}
  PROVE  /\ MoveCode(dirs) \in 0..63
         /\ \A d \in DOMAIN MoveBit : Bit(MoveCode(dirs), MoveBit[d]) <=> d \in dirs
<1> DEFINE On(d) == IF d \in dirs THEN MoveBit[d] ELSE 0
<1>1. /\ MoveBit["right"] = 1 /\ MoveBit["left"] = 2 /\ MoveBit["up"] = 4
      /\ MoveBit["down"] = 8 /\ MoveBit["zoom_out"] = 16 /\ MoveBit["zoom_in"] = 32
  BY DEF MoveBit
<1>2. \E r, l, u, w, o, i \in 0..1 :
        /\ MoveCode(dirs) = r + 2 * l + 4 * u + 8 * w + 16 * o + 32 * i
        /\ r = 1 <=> "right" \in dirs
        /\ l = 1 <=> "left" \in dirs
        /\ u = 1 <=> "up" \in dirs
        /\ w = 1 <=> "down" \in dirs
        /\ o = 1 <=> "zoom_out" \in dirs
        /\ i = 1 <=> "zoom_in" \in dirs
  <2> DEFINE In(d) == IF d \in dirs THEN 1 ELSE 0
  <2>1. MoveCode(dirs) = In("right") + 2 * In("left") + 4 * In("up") + 8 * In("down")
                           + 16 * In("zoom_out") + 32 * In("zoom_in")
    BY <1>1 DEF MoveCode
  <2> QED
    BY <2>1
<1>3. PICK r, l, u, w, o, i \in 0..1 :
        /\ MoveCode(dirs) = r + 2 * l + 4 * u + 8 * w + 16 * o + 32 * i
        /\ r = 1 <=> "right" \in dirs
        /\ l = 1 <=> "left" \in dirs
        /\ u = 1 <=> "up" \in dirs
        /\ w = 1 <=> "down" \in dirs
        /\ o = 1 <=> "zoom_out" \in dirs
        /\ i = 1 <=> "zoom_in" \in dirs
  BY <1>2
<1> DEFINE c == r + 2 * l + 4 * u + 8 * w + 16 * o + 32 * i
<1>4. /\ (c \div 1) % 2 = r /\ (c \div 2) % 2 = l /\ (c \div 4) % 2 = u
      /\ (c \div 8) % 2 = w /\ (c \div 16) % 2 = o /\ (c \div 32) % 2 = i
  OBVIOUS
<1>5. c \in 0..63
  OBVIOUS
<1> QED
  BY <1>1, <1>3, <1>4, <1>5, PtzTables DEF Bit

\* Every movement is understood, and the stop.
LEMMA PtzMoveUnderstood ==
  ASSUME NEW in, in.speed \in 0..255, NEW dirs \in Moves \cup {{}}, in.does = <<"move", dirs>>
  PROVE  /\ Understood(in, MoveBytes(in))
         /\ MoveBytes(in) # NotYet
         /\ Len(MoveBytes(in)) = 8 /\ \A i \in 1..8 : MoveBytes(in)[i] \in 0..255
<1> DEFINE s == IF dirs = {} THEN 0 ELSE Speed(in)
           b == Final(MoveCode(dirs), <<s, s, NormalizeZoomSpeed(s) * 16>>)
<1>1. in.does[1] = "move" /\ in.does[2] = dirs
  OBVIOUS
<1>2. MoveBytes(in) = b
  BY <1>1 DEF MoveBytes
<1>3. Speed(in) \in 1..255
  BY DEF Speed
<1>4. s \in 0..255
  BY <1>3
<1>5. NormalizeZoomSpeed(s) * 16 \in 0..255 /\ (NormalizeZoomSpeed(s) * 16) \div 16 = AtMost(s, 15)
  <2> HIDE DEF s
  <2> QED
    BY <1>4, PtzZoom
<1>6. /\ MoveCode(dirs) \in 0..63
      /\ \A d \in DOMAIN MoveBit : Bit(MoveCode(dirs), MoveBit[d]) <=> d \in dirs
  BY PtzMoveCode
<1>9. /\ b # Refused /\ b # NotYet /\ Len(b) = 8 /\ \A i \in 1..8 : b[i] \in 0..255
      /\ SumOfSeven(b) % 256 = b[8]
      /\ b[4] = MoveCode(dirs) /\ b[5] = s /\ b[6] = s /\ b[7] = NormalizeZoomSpeed(s) * 16
  <2> HIDE DEF s
  <2>1. MoveCode(dirs) \in 0..255
    BY <1>6
  <2>2. PICK z \in 0..255 : z = NormalizeZoomSpeed(s) * 16
    BY <1>5
  <2> DEFINE c == Final(MoveCode(dirs), <<s, s, z>>)
  <2>3. /\ c # Refused /\ c # NotYet /\ Len(c) = 8 /\ \A i \in 1..8 : c[i] \in 0..255
        /\ SumOfSeven(c) % 256 = c[8]
        /\ c[4] = MoveCode(dirs) /\ c[5] = s /\ c[6] = s /\ c[7] = z
    <3>1. Holds(c, MoveCode(dirs), s, s, z)
      BY <2>1, <2>2, <1>4, PtzFinal
    <3> HIDE DEF c
    <3> QED
      BY <3>1 DEF Holds
  <2>4. c = b
    BY <2>2
  <2> HIDE DEF b, c
  <2> QED
    BY <2>2, <2>3, <2>4
<1>11. MoveUnderstood(in, b)
  <2> HIDE DEF b
  <2>1. b[4] < 64 /\ \A d \in DOMAIN MoveBit : Bit(b[4], MoveBit[d]) <=> d \in dirs
    BY <1>6, <1>9
  <2>2. dirs # {} => b[5] = Speed(in) /\ b[6] = Speed(in) /\ b[7] \div 16 = AtMost(Speed(in), 15)
    BY <1>5, <1>9
  <2>3. dirs = {} => b[5] = 0 /\ b[6] = 0 /\ b[7] = 0
    BY <1>9 DEF NormalizeZoomSpeed
  <2> QED
    BY <1>1, <2>1, <2>2, <2>3 DEF MoveUnderstood
<1>12. ~NeedsPreset(in.does) /\ in.does[1] # "act"
  BY <1>1 DEF NeedsPreset
<1> HIDE DEF b
<1> QED
  BY <1>1, <1>2, <1>9, <1>11, <1>12 DEF Understood

\* The codes are bytes; and every action has one table.
LEMMA PtzCodes ==
  /\ \A a \in DOMAIN LensBit : 64 + LensBit[a] \in 0..255
  /\ \A a \in DOMAIN PresetCode : PresetCode[a] \in 0..255
  /\ \A a \in DOMAIN StationCode : StationCode[a] \in 0..255
  /\ \A a \in DOMAIN ValueCode : ValueCode[a] \in 0..255
  /\ \A a \in DOMAIN PlainCode : PlainCode[a] \in 0..255 /\ ScanSide[a] \in 0..255
  /\ \A a \in DOMAIN SwitchCode : SwitchCode[a] \in 0..255
  BY DEF MoveBit, LensBit, PresetCode, StationCode, ValueCode, PlainCode, SwitchCode, ScanSide

\* An action is in one of the tables.
LEMMA PtzActions ==
  ASSUME NEW a \in Actions
  PROVE  \/ a \in DOMAIN LensBit \/ a \in DOMAIN PresetCode \/ a \in DOMAIN StationCode
         \/ a \in DOMAIN ValueCode \/ a \in DOMAIN PlainCode \/ a \in DOMAIN SwitchCode
  BY DEF Actions

\* The bits of the lens.
LEMMA PtzLensCode ==
  ASSUME NEW a \in DOMAIN LensBit
  PROVE  \A l \in DOMAIN LensBit : Bit(64 + LensBit[a], LensBit[l]) <=> l = a
<1>1. /\ LensBit["focus_far"] = 1 /\ LensBit["focus_near"] = 2
      /\ LensBit["iris_open"] = 4 /\ LensBit["iris_close"] = 8
  BY DEF LensBit
<1> QED
  BY <1>1, PtzTables DEF Bit


\* An action has one table; and a default or a number of its own in every byte.
LEMMA PtzOneTable ==
  ASSUME NEW a
  PROVE  /\ a \in DOMAIN StationCode =>
              a \notin DOMAIN PresetCode \cup DOMAIN ValueCode \cup DOMAIN SwitchCode \cup DOMAIN PlainCode \cup DOMAIN LensBit
         /\ a \in DOMAIN PresetCode =>
              a \notin DOMAIN StationCode \cup DOMAIN ValueCode \cup DOMAIN SwitchCode \cup DOMAIN PlainCode \cup DOMAIN LensBit
         /\ a \in DOMAIN ValueCode =>
              a \notin DOMAIN StationCode \cup DOMAIN PresetCode \cup DOMAIN SwitchCode \cup DOMAIN PlainCode \cup DOMAIN LensBit
         /\ a \in DOMAIN SwitchCode =>
              a \notin DOMAIN StationCode \cup DOMAIN PresetCode \cup DOMAIN ValueCode \cup DOMAIN PlainCode \cup DOMAIN LensBit
         /\ a \in DOMAIN PlainCode =>
              a \notin DOMAIN StationCode \cup DOMAIN PresetCode \cup DOMAIN ValueCode \cup DOMAIN SwitchCode \cup DOMAIN LensBit
         /\ a \in DOMAIN LensBit =>
              a \notin DOMAIN StationCode \cup DOMAIN PresetCode \cup DOMAIN ValueCode \cup DOMAIN SwitchCode \cup DOMAIN PlainCode
  BY PtzTables

\* What encodePTZCommand makes of an action, by the table that has it.
LEMMA PtzActForms ==
  ASSUME NEW in, NEW a
  PROVE  /\ a \in DOMAIN StationCode => ActBytes(in, a) = Final(StationCode[a], <<Group(in), in.preset % 256, 0>>)
         /\ a \in DOMAIN PresetCode => ActBytes(in, a) = Final(PresetCode[a], <<0, in.preset % 256, 0>>)
         /\ a \in DOMAIN ValueCode => ActBytes(in, a) = Final(ValueCode[a], TwelveBits(Group(in), Value(in)))
         /\ a \in DOMAIN SwitchCode => ActBytes(in, a) = Final(SwitchCode[a], TwelveBits(in.aux, Value(in)))
         /\ a \in DOMAIN PlainCode => ActBytes(in, a) = Final(PlainCode[a], <<Group(in), ScanSide[a], 0>>)
         /\ a \in DOMAIN LensBit => ActBytes(in, a) = LensBytes(in, a)
  BY PtzOneTable DEF ActBytes


\* The code and the three bytes of an action say what was asked.
Says(in, a, code, x, y, z) ==
  /\ a \in DOMAIN LensBit => code = 64 + LensBit[a] /\ {x, y} = {0, Speed(in)}
  /\ a \in DOMAIN StationCode \cup DOMAIN PresetCode => y = in.preset
  /\ a \in DOMAIN ValueCode \cup DOMAIN SwitchCode => y + 256 * (z \div 16) = AtMost(Value(in), 4095)
  /\ a \in DOMAIN SwitchCode => x = in.aux
  /\ a \in DOMAIN StationCode \cup DOMAIN ValueCode \cup DOMAIN PlainCode => x = Group(in)

\* Every action is made into bytes that say what was asked for.
LEMMA PtzActSays ==
  ASSUME NEW in, in.speed \in 0..255, in.preset \in Nat, in.group \in 0..255, in.aux \in 0..255,
         in.value \in Nat, NEW a \in Actions,
         a \in DOMAIN StationCode \cup DOMAIN PresetCode => in.preset \in 1..255
  PROVE  \E code, x, y, z \in Byte : Holds(ActBytes(in, a), code, x, y, z) /\ Says(in, a, code, x, y, z)
<1>1. ASSUME NEW code \in Byte, NEW x \in Byte, NEW y \in Byte, NEW z \in Byte,
             Says(in, a, code, x, y, z), ActBytes(in, a) = Final(code, <<x, y, z>>)
      PROVE  \E c, p, q, r \in Byte : Holds(ActBytes(in, a), c, p, q, r) /\ Says(in, a, c, p, q, r)
  <2>1. Holds(Final(code, <<x, y, z>>), code, x, y, z)
    BY PtzFinal DEF Byte
  <2> QED
    BY <1>1, <2>1
<1>2. /\ Speed(in) \in Byte /\ Group(in) \in Byte /\ Value(in) \in Nat /\ in.aux \in Byte /\ 0 \in Byte
  BY PtzDefaults DEF Byte
<1>3. a \in DOMAIN StationCode \cup DOMAIN PresetCode => in.preset \in Byte /\ in.preset % 256 = in.preset
  <2>1. \A n \in 1..255 : n % 256 = n
    OBVIOUS
  <2> QED
    BY <2>1 DEF Byte
<1>a. /\ a \in DOMAIN StationCode => ActBytes(in, a) = Final(StationCode[a], <<Group(in), in.preset % 256, 0>>)
      /\ a \in DOMAIN PresetCode => ActBytes(in, a) = Final(PresetCode[a], <<0, in.preset % 256, 0>>)
      /\ a \in DOMAIN ValueCode => ActBytes(in, a) = Final(ValueCode[a], TwelveBits(Group(in), Value(in)))
      /\ a \in DOMAIN SwitchCode => ActBytes(in, a) = Final(SwitchCode[a], TwelveBits(in.aux, Value(in)))
      /\ a \in DOMAIN PlainCode => ActBytes(in, a) = Final(PlainCode[a], <<Group(in), ScanSide[a], 0>>)
      /\ a \in DOMAIN LensBit => ActBytes(in, a) = LensBytes(in, a)
  BY PtzActForms
<1>4. CASE a \in DOMAIN StationCode
  <2>1. StationCode[a] \in Byte
    BY <1>4, PtzCodes DEF Byte
  <2>2. ActBytes(in, a) = Final(StationCode[a], <<Group(in), in.preset, 0>>)
    <3>1. ActBytes(in, a) = Final(StationCode[a], <<Group(in), in.preset % 256, 0>>)
      BY <1>4, <1>a, Zenon
    <3> QED
      BY <1>3, <1>4, <3>1, Zenon
  <2>3. Says(in, a, StationCode[a], Group(in), in.preset, 0)
    BY <1>4, PtzOneTable DEF Says
  <2> QED
    BY <1>1, <1>2, <1>3, <1>4, <2>1, <2>2, <2>3
<1>5. CASE a \in DOMAIN PresetCode
  <2>1. PresetCode[a] \in Byte
    BY <1>5, PtzCodes DEF Byte
  <2>2. ActBytes(in, a) = Final(PresetCode[a], <<0, in.preset, 0>>)
    <3>1. ActBytes(in, a) = Final(PresetCode[a], <<0, in.preset % 256, 0>>)
      BY <1>5, <1>a, Zenon
    <3> QED
      BY <1>3, <1>5, <3>1, Zenon
  <2>3. Says(in, a, PresetCode[a], 0, in.preset, 0)
    BY <1>5, PtzOneTable DEF Says
  <2> QED
    BY <1>1, <1>2, <1>3, <1>5, <2>1, <2>2, <2>3
<1>7. CASE a \in DOMAIN ValueCode
  <2>1. PICK x \in Byte : x = Group(in)
    BY <1>2
  <2>2. PICK y, z \in Byte : /\ TwelveBits(x, Value(in)) = <<x, y, z>>
                            /\ y + 256 * (z \div 16) = AtMost(Value(in), 4095)
    <3>1. x \in Byte /\ Value(in) \in Nat
      BY <1>2, <2>1
    <3> QED
      BY <3>1, PtzTwelveBits
  <2>3. ValueCode[a] \in Byte
    BY <1>7, PtzCodes DEF Byte
  <2>4. ActBytes(in, a) = Final(ValueCode[a], TwelveBits(Group(in), Value(in)))
    BY <1>7, <1>a, Zenon
  <2>5. ActBytes(in, a) = Final(ValueCode[a], <<x, y, z>>)
    BY <2>1, <2>2, <2>4
  <2>6. Says(in, a, ValueCode[a], x, y, z)
    BY <1>7, <2>1, <2>2, PtzOneTable DEF Says
  <2> QED
    BY <1>1, <2>1, <2>2, <2>3, <2>5, <2>6
<1>8. CASE a \in DOMAIN SwitchCode
  <2>1. PICK x \in Byte : x = in.aux
    BY <1>2
  <2>2. PICK y, z \in Byte : /\ TwelveBits(x, Value(in)) = <<x, y, z>>
                            /\ y + 256 * (z \div 16) = AtMost(Value(in), 4095)
    <3>1. x \in Byte /\ Value(in) \in Nat
      BY <1>2, <2>1
    <3> QED
      BY <3>1, PtzTwelveBits
  <2>3. SwitchCode[a] \in Byte
    BY <1>8, PtzCodes DEF Byte
  <2>4. ActBytes(in, a) = Final(SwitchCode[a], TwelveBits(in.aux, Value(in)))
    BY <1>8, <1>a, Zenon
  <2>5. ActBytes(in, a) = Final(SwitchCode[a], <<x, y, z>>)
    BY <2>1, <2>2, <2>4
  <2>6. Says(in, a, SwitchCode[a], x, y, z)
    BY <1>8, <2>1, <2>2, PtzOneTable DEF Says
  <2> QED
    BY <1>1, <2>1, <2>2, <2>3, <2>5, <2>6
<1>9. CASE a \in DOMAIN PlainCode
  <2>1. PlainCode[a] \in Byte /\ ScanSide[a] \in Byte
    BY <1>9, PtzCodes DEF Byte
  <2>2. ActBytes(in, a) = Final(PlainCode[a], <<Group(in), ScanSide[a], 0>>)
    BY <1>9, <1>a, Zenon
  <2>3. Says(in, a, PlainCode[a], Group(in), ScanSide[a], 0)
    BY <1>9, PtzOneTable DEF Says
  <2> QED
    BY <1>1, <1>2, <2>1, <2>2, <2>3
<1>10. CASE a \in DOMAIN LensBit
  <2>1. 64 + LensBit[a] \in Byte
    BY <1>10, PtzCodes DEF Byte
  <2>2. ActBytes(in, a) = LensBytes(in, a)
    BY <1>10, <1>a, Zenon
  <2>3. CASE a \in {"iris_open", "iris_close"}
    <3>1. ActBytes(in, a) = Final(64 + LensBit[a], <<0, Speed(in), 0>>)
      BY <2>2, <2>3 DEF LensBytes
    <3>2. Says(in, a, 64 + LensBit[a], 0, Speed(in), 0)
      BY <1>10, PtzOneTable DEF Says
    <3> QED
      BY <1>1, <1>2, <2>1, <3>1, <3>2
  <2>4. CASE a \notin {"iris_open", "iris_close"}
    <3>1. ActBytes(in, a) = Final(64 + LensBit[a], <<Speed(in), 0, 0>>)
      BY <2>2, <2>4 DEF LensBytes
    <3>2. Says(in, a, 64 + LensBit[a], Speed(in), 0, 0)
      BY <1>10, PtzOneTable DEF Says
    <3> QED
      BY <1>1, <1>2, <2>1, <3>1, <3>2
  <2> QED
    BY <2>3, <2>4
<1> QED
  BY <1>4, <1>5, <1>7, <1>8, <1>9, <1>10, PtzActions

\* A command is refused, or understood, and is eight bytes.
LEMMA PtzEncode ==
  ASSUME NEW in \in Inputs
  PROVE  /\ Encode(in) # NotYet /\ Understood(in, Encode(in))
         /\ Encode(in) = Refused \/ (Len(Encode(in)) = 8 /\ \A i \in 1..8 : Encode(in)[i] \in 0..255)
<1>1. /\ in.speed \in 0..255 /\ in.preset \in Nat /\ in.group \in 0..255
      /\ in.aux \in 0..255 /\ in.value \in Nat
  BY PtzAsked
<1>2. CASE \E m \in Moves \cup {{}} : in.does = <<"move", m>>
  <2>1. PICK m \in Moves \cup {{}} : in.does = <<"move", m>>
    BY <1>2
  <2>2. in.does[1] = "move" /\ ~NeedsPreset(in.does)
    BY <2>1 DEF NeedsPreset
  <2>3. Encode(in) = MoveBytes(in)
    BY <2>2 DEF Encode
  <2> QED
    BY <1>1, <2>1, <2>3, PtzMoveUnderstood
<1>3. CASE \E a \in Actions : in.does = <<"act", a>>
  <2>1. PICK a \in Actions : in.does = <<"act", a>>
    BY <1>3
  <2>2. in.does[1] = "act" /\ in.does[2] = a
    BY <2>1
  <2>3. NeedsPreset(in.does) <=> a \in DOMAIN StationCode \cup DOMAIN PresetCode
    BY <2>2 DEF NeedsPreset
  <2>4. OutOfRange(in.preset) <=> in.preset \notin 1..255
    BY <1>1 DEF OutOfRange
  <2>5. CASE NeedsPreset(in.does) /\ OutOfRange(in.preset)
    <3>1. Encode(in) = Refused
      BY <2>5 DEF Encode
    <3>2. Refused # NotYet
      <4>1. Len(<<"refused">>) = 1 /\ Len(<<>>) = 0
        OBVIOUS
      <4> QED
        BY <4>1 DEF Refused, NotYet
    <3> QED
      BY <2>4, <2>5, <3>1, <3>2 DEF Understood
  <2>6. CASE ~(NeedsPreset(in.does) /\ OutOfRange(in.preset))
    <3> DEFINE b == Encode(in)
    <3>1. b = ActBytes(in, a)
      BY <2>2, <2>6 DEF Encode
    <3>2. a \in DOMAIN StationCode \cup DOMAIN PresetCode => in.preset \in 1..255
      BY <2>3, <2>4, <2>6
    <3>3. PICK code, x, y, z \in Byte : Holds(b, code, x, y, z) /\ Says(in, a, code, x, y, z)
      BY <1>1, <3>1, <3>2, PtzActSays
    <3> HIDE DEF b
    <3>4. /\ b # Refused /\ b # NotYet /\ Len(b) = 8 /\ \A i \in 1..8 : b[i] \in 0..255
          /\ SumOfSeven(b) % 256 = b[8] /\ b[4] = code /\ b[5] = x /\ b[6] = y /\ b[7] = z
      BY <3>3 DEF Holds
    <3>5. a \in DOMAIN LensBit => /\ \A l \in DOMAIN LensBit : Bit(b[4], LensBit[l]) <=> l = a
                                 /\ {b[5], b[6]} = {0, Speed(in)}
      <4> SUFFICES ASSUME a \in DOMAIN LensBit
                   PROVE  /\ \A l \in DOMAIN LensBit : Bit(b[4], LensBit[l]) <=> l = a
                          /\ {b[5], b[6]} = {0, Speed(in)}
        OBVIOUS
      <4>1. b[4] = 64 + LensBit[a] /\ {b[5], b[6]} = {0, Speed(in)}
        BY <3>3, <3>4 DEF Says
      <4>2. \A l \in DOMAIN LensBit : Bit(64 + LensBit[a], LensBit[l]) <=> l = a
        BY PtzLensCode
      <4> HIDE DEF b
      <4> QED
        BY <4>1, <4>2
    <3>6. Wide(b) = y + 256 * (z \div 16)
      BY <3>4 DEF Wide
    <3>7. ActUnderstood(in, b)
      BY <2>2, <3>3, <3>4, <3>5, <3>6 DEF ActUnderstood, Says
    <3>8. in.does[1] # "move"
      BY <2>2
    <3>9. ~(NeedsPreset(in.does) /\ in.preset \notin 1..255)
      BY <2>4, <2>6
    <3>10. Understood(in, b)
      BY <3>4, <3>7, <3>8, <3>9 DEF Understood
    <3> QED
      BY <3>4, <3>10 DEF b
  <2> QED
    BY <2>5, <2>6
<1> QED
  BY <1>2, <1>3, PtzAsked

\* Every speed, group, preset and value, of any size its type allows, arrives at the
\* device as it was asked for, is cut to the largest its bits can hold, or is refused;
\* and what arrives is eight bytes with the right check sum.
THEOREM PtzIsUnderstood == PtzSpec => [](PtzTypeOK /\ PtzUnderstood)
<1> DEFINE Made == asked \in Inputs /\ (bytes = NotYet \/ bytes = Encode(asked))
<1>1. PtzInit => Made
  BY DEF PtzInit
<1>2. Made /\ [PtzNext]_ptzVars => Made'
  BY DEF PtzNext, ptzVars
<1>3. Made => PtzTypeOK /\ PtzUnderstood
  BY PtzEncode DEF PtzTypeOK, PtzUnderstood
<1> QED
  BY <1>1, <1>2, <1>3, PTL DEF PtzSpec
=============================================================================
