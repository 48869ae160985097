----------------------- MODULE DeviceRegistry_proofs -----------------------
(* Proofs about DeviceRegistry: its types, and that a device online in     *)
(* memory has a connection, for any handlers and bounds.                   *)
EXTENDS DeviceRegistry, TLAPS

\* The rows that changes return, and the objects they make, are of their types.
LEMMA EditedType == ASSUME NEW o \in Ops, NEW r \in View PROVE Edited(o, r) \in View
  BY DEF Edited, View

LEMMA CopiedType ==
  ASSUME NEW a \in Actors, NEW m \in Object, seen[a] \in View, op[a] \in Ops
  PROVE  Copied(a, m) \in Object
  BY DEF Copied, View, Object, Connects

LEMMA BlankTypes ==
  /\ Down \in View
  /\ Blank \in Object
  /\ [Blank EXCEPT !.conn = TRUE] \in Object
  BY DEF Down, Blank, View, Object

\* Time passing over a row or an object.
LEMMA StaleView ==
  ASSUME NEW v \in View
  PROVE  Stale(v) \in View /\ (Stale(v).online <=> v.online)
  BY DEF Stale, View

LEMMA StaleObject ==
  ASSUME NEW m \in Object
  PROVE  /\ Stale(m) \in Object
         /\ Stale(m).online <=> m.online
         /\ Stale(m).conn <=> m.conn
  BY DEF Stale, Object

LEMMA StaleDown == Stale(Down) = Down
<1>1. ASSUME NEW v \in View, v.online = FALSE, v.fresh = FALSE PROVE v = Down
  BY <1>1 DEF Down, View
<1>2. Down.online = FALSE
  BY DEF Down
<1>3. Stale(Down).online = FALSE
  BY <1>2, StaleView, BlankTypes
<1>4. Stale(Down).fresh = FALSE
  BY BlankTypes DEF Stale, View
<1> QED
  BY <1>1, <1>3, <1>4, StaleView, BlankTypes

\* TypeOK: initial states.
LEMMA TypeInit == Init => TypeOK
<1> SUFFICES ASSUME Init PROVE TypeOK
  OBVIOUS
<1>1. 0 \in 0..MaxUpsets /\ 0 \in 0..MaxDeletes
  BY RegistryAssumption
<1> QED
  BY <1>1, BlankTypes DEF Init, TypeOK, Ops, Labels, Holds

\* TypeOK: the steps of a change.
LEMMA TypeChange == ASSUME TypeOK, NEW a \in Actors, Change(a) PROVE TypeOK'
<1>1. CASE EditRow(a)
  <2>1. op[a] \in Ops /\ row \in View
    BY DEF TypeOK
  <2>2. Edited(op[a], row) \in View
    BY <2>1, EditedType
  <2>3. CASE exists
    BY <1>1, <2>2, <2>3 DEF EditRow, TypeOK, Goto, memVars, envVars, Labels
  <2>4. CASE ~exists
    BY <1>1, <2>4, BlankTypes DEF EditRow, TypeOK, Finish, Goto, memVars, envVars, Labels, Ops, Holds
  <2> QED
    BY <2>3, <2>4
<1>2. CASE EditMemory(a)
  <2>1. Copied(a, mem) \in Object
    BY CopiedType DEF TypeOK
  <2> QED
    BY <1>2, <2>1, BlankTypes DEF EditMemory, TypeOK, Finish, Goto, rowVars, envVars, Labels, Ops, Holds
<1>3. CASE EditChannels(a)
  <2>1. channels' \in BOOLEAN /\ asked' \in BOOLEAN
    BY <1>3 DEF EditChannels
  <2> QED
    BY <1>3, <2>1, BlankTypes DEF EditChannels, TypeOK, Finish, Goto, memVars, Labels, Ops, Holds
<1> QED
  BY <1>1, <1>2, <1>3 DEF Change

LEMMA LeftType == TypeOK => Left \in [Actors -> Holds]
  BY DEF TypeOK, Left, Holds

\* TypeOK: the steps that begin an operation of a handler.
LEMMA TypeBegin ==
  ASSUME TypeOK, NEW h \in Handlers,
         \/ Register(h) \/ Unregister(h) \/ AddDevice(h) \/ Keepalive(h) \/ KeepaliveBad(h)
         \/ ChangePassword(h) \/ DeleteRows(h)
  PROVE  TypeOK'
<1> h \in Actors
  BY DEF Actors
<1> USE RegistryAssumption DEF TypeOK, Start, Goto, rowVars, memVars, envVars, Labels, Ops
<1>1. CASE Register(h)
  BY <1>1 DEF Register
<1>2. CASE Unregister(h)
  BY <1>2 DEF Unregister, Upset
<1>3. CASE AddDevice(h)
  BY <1>3 DEF AddDevice
<1>4. CASE Keepalive(h)
  BY <1>4 DEF Keepalive
<1>5. CASE KeepaliveBad(h)
  BY <1>5 DEF KeepaliveBad, Upset
<1>6. CASE ChangePassword(h)
  BY <1>6 DEF ChangePassword, Upset
<1>7. CASE DeleteRows(h)
  <2>1. deletes' \in 0..MaxDeletes
    BY <1>7 DEF DeleteRows
  <2>2. row' = Down /\ Down \in View
    BY <1>7, BlankTypes DEF DeleteRows
  <2>3. pc' \in [Actors -> Labels] /\ op' \in [Actors -> Ops]
    BY <1>7 DEF DeleteRows
  <2> QED
    BY <1>7, <2>1, <2>2, <2>3 DEF DeleteRows
<1> QED
  BY <1>1, <1>2, <1>3, <1>4, <1>5, <1>6, <1>7

\* TypeOK: the steps within a handler.
LEMMA TypeHandle == ASSUME TypeOK, NEW h \in Handlers, Handle(h) PROVE TypeOK'
<1> h \in Actors
  BY DEF Actors
<1> USE DEF TypeOK, Finish, Goto, rowVars, memVars, envVars, localVars, Labels, Ops, Holds
<1>1. CASE InsertRow(h)
  BY <1>1, BlankTypes DEF InsertRow
<1>2. CASE AddObject(h)
  BY <1>2, BlankTypes DEF AddObject, LoadOrStore
<1>3. CASE StoreObject(h)
  BY <1>3, BlankTypes DEF StoreObject, LoadOrStore
<1>4. CASE ForgetObject(h)
  BY <1>4, LeftType, BlankTypes DEF ForgetObject
<1> QED
  BY <1>1, <1>2, <1>3, <1>4 DEF Handle

\* TypeOK: the scanner, the loader and the environment.
LEMMA TypeOthers ==
  ASSUME TypeOK, Scan \/ Load \/ SaveCatalog \/ Crash \/ GoSilent \/ TimePasses
  PROVE  TypeOK'
<1> Scanner \in Actors /\ Loader \in Actors
  BY DEF Actors
<1> USE DEF TypeOK, Finish, Start, Goto, rowVars, memVars, envVars, localVars, Labels, Ops, Holds
<1>1. CASE ScanDevice
  BY <1>1 DEF ScanDevice
<1>2. CASE Probe
  BY <1>2 DEF Probe
<1>3. CASE FindRows
  BY <1>3, BlankTypes DEF FindRows
<1>4. CASE LoadObject
  <2>1. [online |-> seen[Loader].online, fresh |-> seen[Loader].fresh, conn |-> TRUE] \in Object
    BY DEF View, Object
  <2> QED
    BY <1>4, <2>1, LeftType, BlankTypes DEF LoadObject
<1>5. CASE SaveCatalog
  BY <1>5 DEF SaveCatalog
<1>6. CASE Crash
  <2>1. upsets' \in 0..MaxUpsets
    BY <1>6, RegistryAssumption DEF Crash, Upset
  <2>2. present' \in BOOLEAN /\ mem' \in Object /\ asked' \in BOOLEAN
    BY <1>6, BlankTypes DEF Crash
  <2>3. pc' \in [Actors -> Labels] /\ op' \in [Actors -> Ops] /\ held' \in [Actors -> Holds]
    BY <1>6 DEF Crash
  <2>4. seen' \in [Actors -> View]
    BY <1>6, BlankTypes DEF Crash
  <2> QED
    BY <1>6, <2>1, <2>2, <2>3, <2>4 DEF Crash
<1>7. CASE GoSilent
  BY <1>7 DEF GoSilent
<1>8. CASE TimePasses
  <2>4. row' \in View /\ mem' \in Object
    BY <1>8, StaleView, StaleObject DEF TimePasses
  <2>5. ~exists' => row' = Down
    BY <1>8, StaleDown DEF TimePasses
  <2>6. seen' \in [Actors -> View]
    <3>1. \A a \in Actors : Stale(seen[a]) \in View
      BY StaleView
    <3>2. seen' = [a \in Actors |-> Stale(seen[a])]
      BY <1>8 DEF TimePasses
    <3> QED
      BY <3>1, <3>2
  <2> QED
    BY <1>8, <2>4, <2>5, <2>6 DEF TimePasses
<1> QED
  BY <1>1, <1>2, <1>3, <1>4, <1>5, <1>6, <1>7, <1>8 DEF Scan, Load

LEMMA TypeStep == TypeOK /\ [Next]_vars => TypeOK'
<1> SUFFICES ASSUME TypeOK, [Next]_vars PROVE TypeOK'
  OBVIOUS
<1>1. CASE UNCHANGED vars
  BY <1>1 DEF TypeOK, vars, rowVars, memVars, envVars, localVars
<1>2. CASE Next
  BY <1>2, TypeChange, TypeBegin, TypeHandle, TypeOthers DEF Next
<1> QED
  BY <1>1, <1>2

\* The rows and objects, the counters and the locals of every goroutine keep their
\* types; a device without a row has no flags.
THEOREM TypeCorrect == Spec => []TypeOK
  BY TypeInit, TypeStep, PTL DEF Spec

-----------------------------------------------------------------------------
(* The connection of the devices online in memory.                         *)

LEMMA InvInit == Init => IInv
<1> SUFFICES ASSUME Init PROVE IInv
  OBVIOUS
<1>1. SeenOnline /\ ProbedHasConn /\ OnlineHasConn
  BY DEF Init, SeenOnline, ProbedHasConn, OnlineHasConn, OnlineInMemory
<1> QED
  BY <1>1, TypeInit DEF IInv

\* A change brings the object online for a request, which has a connection, or for a
\* probe, whose object has one.
LEMMA InvChange ==
  ASSUME IInv, NEW a \in Actors, Change(a)
  PROVE  SeenOnline' /\ ProbedHasConn' /\ OnlineHasConn'
<1> USE DEF IInv, SeenOnline, ProbedHasConn, OnlineHasConn, OnlineInMemory, TypeOK, Finish, Goto, At,
            rowVars, memVars, envVars
<1>1. CASE EditRow(a)
  <2>1. Edited(op[a], row).online => Connects(op[a]) \/ op[a] = "refresh"
    BY DEF Edited, Connects
  <2>2. SeenOnline'
    BY <1>1, <2>1 DEF EditRow, Connects
  <2>3. ProbedHasConn'
    BY <1>1 DEF EditRow
  <2> QED
    BY <1>1, <2>2, <2>3 DEF EditRow
<1>2. CASE EditMemory(a)
  <2>1. SeenOnline'
    BY <1>2 DEF EditMemory, Connects
  <2>2. CASE present
    <3>1. mem.conn => mem'.conn
      BY <1>2, <2>2 DEF EditMemory, Copied, Object
    <3>2. deletes = 0 /\ mem'.online => mem'.conn
      BY <1>2, <2>2 DEF EditMemory, Copied, Object, View, Connects
    <3>3. ProbedHasConn'
      BY <1>2, <2>2, <3>1 DEF EditMemory
    <3> QED
      BY <1>2, <2>1, <3>2, <3>3 DEF EditMemory
  <2>3. CASE ~present
    BY <1>2, <2>1, <2>3 DEF EditMemory
  <2> QED
    BY <2>2, <2>3
<1>3. CASE EditChannels(a)
  BY <1>3 DEF EditChannels, Connects
<1> QED
  BY <1>1, <1>2, <1>3 DEF Change

\* A goroutine that begins an operation is not probing; a deletion ends the promise.
LEMMA InvBegin ==
  ASSUME IInv, NEW h \in Handlers,
         \/ Register(h) \/ Unregister(h) \/ AddDevice(h) \/ Keepalive(h) \/ KeepaliveBad(h)
         \/ ChangePassword(h) \/ DeleteRows(h)
  PROVE  SeenOnline' /\ ProbedHasConn' /\ OnlineHasConn'
<1> h \in Actors
  BY DEF Actors
<1> USE DEF IInv, SeenOnline, ProbedHasConn, OnlineHasConn, OnlineInMemory, TypeOK, Start, Goto, At,
            rowVars, memVars, envVars, Connects
<1>1. CASE Register(h)
  BY <1>1 DEF Register
<1>2. CASE Unregister(h)
  BY <1>2 DEF Unregister
<1>3. CASE AddDevice(h)
  BY <1>3 DEF AddDevice
<1>4. CASE Keepalive(h)
  BY <1>4 DEF Keepalive
<1>5. CASE KeepaliveBad(h)
  BY <1>5 DEF KeepaliveBad
<1>6. CASE ChangePassword(h)
  BY <1>6 DEF ChangePassword
<1>7. CASE DeleteRows(h)
  <2>1. deletes' # 0
    BY <1>7, RegistryAssumption DEF DeleteRows
  <2> QED
    BY <1>7, <2>1 DEF DeleteRows
<1> QED
  BY <1>1, <1>2, <1>3, <1>4, <1>5, <1>6, <1>7

\* A handler makes an object only where there is none, and offline; only the handler of
\* a deletion forgets one.
LEMMA InvHandle ==
  ASSUME IInv, NEW h \in Handlers, Handle(h)
  PROVE  SeenOnline' /\ ProbedHasConn' /\ OnlineHasConn'
<1> h \in Actors
  BY DEF Actors
<1> USE DEF IInv, SeenOnline, ProbedHasConn, OnlineHasConn, OnlineInMemory, TypeOK, Finish, Goto, At,
            rowVars, memVars, envVars, localVars, Connects
<1>1. CASE InsertRow(h)
  BY <1>1 DEF InsertRow
<1>2. CASE AddObject(h)
  <2>1. present => UNCHANGED memVars
    BY <1>2 DEF AddObject, LoadOrStore
  <2>2. ~present => ~mem'.online
    BY <1>2 DEF AddObject, LoadOrStore, Blank
  <2> QED
    BY <1>2, <2>1, <2>2 DEF AddObject
<1>3. CASE StoreObject(h)
  <2>1. present => UNCHANGED memVars
    BY <1>3 DEF StoreObject, LoadOrStore
  <2>2. ~present => ~mem'.online
    BY <1>3 DEF StoreObject, LoadOrStore, Blank
  <2> QED
    BY <1>3, <2>1, <2>2 DEF StoreObject
<1>4. CASE ForgetObject(h)
  <2>1. deletes # 0 /\ deletes' = deletes
    BY <1>4 DEF ForgetObject
  <2> QED
    BY <1>4, <2>1 DEF ForgetObject
<1> QED
  BY <1>1, <1>2, <1>3, <1>4 DEF Handle

\* Only a device with a connection is probed, and a loaded object has one.
LEMMA InvOthers ==
  ASSUME IInv, Scan \/ Load \/ SaveCatalog \/ Crash \/ GoSilent \/ TimePasses
  PROVE  SeenOnline' /\ ProbedHasConn' /\ OnlineHasConn'
<1> Scanner \in Actors /\ Loader \in Actors
  BY DEF Actors
<1> USE DEF IInv, SeenOnline, ProbedHasConn, OnlineHasConn, OnlineInMemory, TypeOK, Finish, Start,
            Goto, At, rowVars, memVars, envVars, localVars, Connects
<1>1. CASE ScanDevice
  BY <1>1 DEF ScanDevice
<1>2. CASE Probe
  BY <1>2 DEF Probe
<1>3. CASE FindRows
  BY <1>3 DEF FindRows
<1>4. CASE LoadObject
  <2>1. CASE UNCHANGED memVars
    BY <1>4, <2>1 DEF LoadObject
  <2>2. CASE present' /\ mem'.conn
    BY <1>4, <2>2 DEF LoadObject
  <2> QED
    BY <1>4, <2>1, <2>2 DEF LoadObject
<1>5. CASE SaveCatalog
  BY <1>5 DEF SaveCatalog
<1>6. CASE Crash
  BY <1>6 DEF Crash
<1>7. CASE GoSilent
  BY <1>7 DEF GoSilent
<1>8. CASE TimePasses
  <2>1. (mem'.online <=> mem.online) /\ (mem'.conn <=> mem.conn)
    BY <1>8, StaleObject DEF TimePasses
  <2>2. ASSUME NEW a \in Actors PROVE seen'[a].online <=> seen[a].online
    <3>1. seen'[a] = Stale(seen[a])
      BY <1>8 DEF TimePasses
    <3>2. seen[a] \in View
      OBVIOUS
    <3> QED
      BY <3>1, <3>2, StaleView
  <2> QED
    BY <1>8, <2>1, <2>2 DEF TimePasses
<1> QED
  BY <1>1, <1>2, <1>3, <1>4, <1>5, <1>6, <1>7, <1>8 DEF Scan, Load

LEMMA InvStep == IInv /\ [Next]_vars => IInv'
<1> SUFFICES ASSUME IInv, [Next]_vars PROVE IInv'
  OBVIOUS
<1>1. TypeOK'
  BY TypeStep DEF IInv
<1>2. SeenOnline' /\ ProbedHasConn' /\ OnlineHasConn'
  <2>1. CASE UNCHANGED vars
    BY <2>1 DEF IInv, SeenOnline, ProbedHasConn, OnlineHasConn, OnlineInMemory, vars, rowVars,
                memVars, envVars, localVars
  <2>2. CASE Next
    BY <2>2, InvChange, InvBegin, InvHandle, InvOthers DEF Next
  <2> QED
    BY <2>1, <2>2
<1> QED
  BY <1>1, <1>2 DEF IInv

\* Rows seen online are of requests or probes, and what is probed keeps a connection.
THEOREM InvHolds == Spec => []IInv
  BY InvInit, InvStep, PTL DEF Spec

\* Until a deletion, a device online in memory has a connection to send requests on.
THEOREM HasConn == Spec => []OnlineHasConn
<1>1. IInv => OnlineHasConn
  BY DEF IInv
<1> QED
  BY <1>1, InvHolds, PTL
=============================================================================
