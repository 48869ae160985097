------------------------ MODULE PlaySessions_proofs ------------------------
(***************************************************************************)
(* Proofs about PlaySessions: its safety properties hold for any number of *)
(* callers, session kinds, start calls and Device objects.                 *)
(***************************************************************************)
EXTENDS PlaySessions, TLAPS

USE DEF Goto, At

-----------------------------------------------------------------------------
(* Type correctness.                                                       *)

LEMMA PlayKind == "play" \in Kinds
BY DEF Kinds

\* The calls of the three families are starts and stops of some kind.
LEMMA Calls ==
  ASSUME NEW c \in Callers,
         \/ Play(c) \/ StartHistory(c) \/ StartVoice(c)
         \/ StopPlay(c) \/ StopHistory(c) \/ StopVoice(c)
  PROVE  \E k \in Kinds : CallStart(c, k) \/ CallStop(c, k)
BY DEF Kinds, Play, StartHistory, StartVoice, StopPlay, StopHistory, StopVoice

\* The initial state has the type.
LEMMA TypeInit == Init => TypeOK
<1> SUFFICES ASSUME Init PROVE TypeOK
  OBVIOUS
<1> USE PlayAssumption, PlayKind DEF Init, Starts, Devices
<1>1. DeviceType
  BY DEF DeviceType
<1>2. SessionType
  BY DEF SessionType, Stages
<1>3. FlagType
  BY DEF FlagType, Outcomes
<1>4. CallerType
  BY DEF CallerType, Labels
<1> QED
  BY <1>1, <1>2, <1>3, <1>4 DEF TypeOK

\* What taking an entry and stopping its session does, by whether the entry holds
\* an answer.
LEMMA TakeAndByeCases ==
  ASSUME SessionType, NEW k \in Kinds, TakeAndBye(k)
  PROVE  /\ streams' = [streams EXCEPT ![k] = 0]
         /\ \/ /\ streams[k] = 0 \/ resp[streams[k]] = 0
               /\ byes' = byes
            \/ /\ streams[k] \in Starts
               /\ resp[streams[k]] \in Starts
               /\ byes' = [byes EXCEPT ![resp[streams[k]]] = byes[resp[streams[k]]] + 1]
<1> DEFINE d == IF streams[k] = 0 THEN 0 ELSE resp[streams[k]]
<1>1. /\ streams' = [streams EXCEPT ![k] = 0]
      /\ byes' = (IF d = 0 THEN byes ELSE [byes EXCEPT ![d] = byes[d] + 1])
  BY Zenon DEF TakeAndBye, Answered, MapWithout
<1>2. streams[k] \in 0..MaxStarts
  BY DEF SessionType
<1>3. streams[k] # 0 => streams[k] \in Starts /\ resp[streams[k]] \in 0..MaxStarts
  BY <1>2, PlayAssumption DEF SessionType, Starts
<1>4. CASE d = 0
  BY <1>1, <1>4
<1>5. CASE d # 0
  <2>1. streams[k] \in Starts /\ d = resp[streams[k]] /\ d \in Starts
    BY <1>3, <1>5, PlayAssumption DEF Starts
  <2> HIDE DEF d
  <2> QED
    BY <1>1, <1>5, <2>1
<1> QED
  BY <1>4, <1>5

LEMMA TakeAndByeType ==
  ASSUME SessionType, NEW k \in Kinds, TakeAndBye(k)
  PROVE  streams' \in [Kinds -> 0..MaxStarts] /\ byes' \in [Starts -> Nat]
<1>1. streams' \in [Kinds -> 0..MaxStarts]
  BY PlayAssumption, TakeAndByeCases DEF SessionType
<1>2. byes' \in [Starts -> Nat]
  BY TakeAndByeCases DEF SessionType
<1> QED
  BY <1>1, <1>2

\* Every step keeps the type.
LEMMA TypeStep == TypeOK /\ [Next]_vars => TypeOK'
<1> SUFFICES ASSUME TypeOK, [Next]_vars PROVE TypeOK'
  OBVIOUS
<1> USE PlayAssumption, PlayKind DEF TypeOK, Starts, Devices, deviceVars, sessionVars, flagVars, localVars
<1>1. ASSUME NEW c \in Callers, NEW k \in Kinds, CallStart(c, k)
      PROVE  TypeOK'
  <2>1. DeviceType'
    BY <1>1 DEF DeviceType, CallStart
  <2>2. SessionType'
    BY <1>1 DEF SessionType, Stages, CallStart
  <2>3. FlagType'
    BY <1>1 DEF FlagType, Outcomes, CallStart
  <2>4. CallerType'
    BY <1>1 DEF CallerType, DeviceType, SessionType, Labels, CallStart
  <2> QED
    BY <2>1, <2>2, <2>3, <2>4
<1>2. ASSUME NEW c \in Callers, NEW k \in Kinds, CallStop(c, k)
      PROVE  TypeOK'
  <2>1. DeviceType'
    BY <1>2 DEF DeviceType, CallStop
  <2>2. SessionType'
    BY <1>2 DEF SessionType, Stages, CallStop
  <2>3. FlagType'
    BY <1>2 DEF FlagType, Outcomes, CallStop
  <2>4. CallerType'
    BY <1>2 DEF CallerType, DeviceType, Labels, CallStop
  <2> QED
    BY <2>1, <2>2, <2>3, <2>4
<1>3. ASSUME NEW c \in Callers, StreamUnregistered(c)
      PROVE  TypeOK'
  <2>1. DeviceType'
    BY <1>3 DEF DeviceType, StreamUnregistered
  <2>2. SessionType'
    BY <1>3 DEF SessionType, Stages, StreamUnregistered
  <2>3. FlagType'
    BY <1>3 DEF FlagType, Outcomes, StreamUnregistered, SetPlaying
  <2>4. CallerType'
    BY <1>3 DEF CallerType, Labels, StreamUnregistered
  <2> QED
    BY <2>1, <2>2, <2>3, <2>4
<1>4. ASSUME NEW c \in Callers, LockStart(c)
      PROVE  TypeOK'
  <2>1. DeviceType'
    BY <1>4 DEF DeviceType, LockStart, Lock
  <2>2. SessionType'
    BY <1>4 DEF SessionType, Stages, LockStart, Lock
  <2>3. FlagType'
    BY <1>4 DEF FlagType, Outcomes, LockStart, Lock
  <2>4. CallerType'
    BY <1>4 DEF CallerType, Labels, LockStart, Lock
  <2> QED
    BY <2>1, <2>2, <2>3, <2>4
<1>5. ASSUME NEW c \in Callers, LockStop(c)
      PROVE  TypeOK'
  <2>1. DeviceType'
    BY <1>5 DEF DeviceType, LockStop, Lock
  <2>2. SessionType'
    BY <1>5 DEF SessionType, Stages, LockStop, Lock
  <2>3. FlagType'
    BY <1>5 DEF FlagType, Outcomes, LockStop, Lock
  <2>4. CallerType'
    BY <1>5 DEF CallerType, Labels, LockStop, Lock
  <2> QED
    BY <2>1, <2>2, <2>3, <2>4
<1>6. ASSUME NEW c \in Callers, CheckOnline(c)
      PROVE  TypeOK'
  <2>1. DeviceType'
    BY <1>6 DEF DeviceType, CheckOnline, Return, Unlock, DropLocals
  <2>2. SessionType'
    BY <1>6 DEF SessionType, Stages, CheckOnline, Return, Unlock, DropLocals
  <2>3. FlagType'
    BY <1>6 DEF FlagType, Outcomes, CheckOnline, Return, Unlock, DropLocals
  <2>4. CallerType'
    BY <1>6 DEF CallerType, Labels, CheckOnline, Return, Unlock, DropLocals
  <2> QED
    BY <2>1, <2>2, <2>3, <2>4
<1>7. ASSUME NEW c \in Callers, LoadOrStore(c)
      PROVE  TypeOK'
  <2>1. DeviceType'
    BY <1>7 DEF DeviceType, LoadOrStore
  <2>2. SessionType'
    BY <1>7 DEF SessionType, CallerType, Stages, LoadOrStore
  <2>3. FlagType'
    BY <1>7 DEF FlagType, Outcomes, LoadOrStore
  <2>4. CallerType'
    BY <1>7 DEF CallerType, SessionType, Labels, LoadOrStore
  <2> QED
    BY <2>1, <2>2, <2>3, <2>4
<1>8. ASSUME NEW c \in Callers, StopOld(c)
      PROVE  TypeOK'
  <2>1. DeviceType'
    BY <1>8 DEF DeviceType, StopOld, TakeAndBye, MapWithout
  <2>2. SessionType'
    BY <1>8, TakeAndByeType DEF SessionType, CallerType, StopOld
  <2>3. FlagType'
    BY <1>8 DEF FlagType, Outcomes, StopOld, Record
  <2>4. CallerType'
    BY <1>8 DEF CallerType, Labels, StopOld, TakeAndBye, MapWithout
  <2> QED
    BY <2>1, <2>2, <2>3, <2>4
<1>9. ASSUME NEW c \in Callers, OpenRTPServer(c)
      PROVE  TypeOK'
  <2>1. DeviceType'
    BY <1>9 DEF DeviceType, OpenRTPServer, Return, Unlock, DropLocals
  <2>2. SessionType'
    BY <1>9 DEF SessionType, Stages, OpenRTPServer, Return, Unlock, DropLocals
  <2>3. FlagType'
    BY <1>9 DEF FlagType, Outcomes, OpenRTPServer, Return, Unlock, DropLocals
  <2>4. CallerType'
    BY <1>9 DEF CallerType, Labels, OpenRTPServer, Return, Unlock, DropLocals
  <2> QED
    BY <2>1, <2>2, <2>3, <2>4
<1>10. ASSUME NEW c \in Callers, SendInvite(c)
      PROVE  TypeOK'
  <2>1. DeviceType'
    BY <1>10 DEF DeviceType, SendInvite, Return, Unlock, DropLocals
  <2>2. SessionType'
    BY <1>10 DEF SessionType, Stages, SendInvite, Return, Unlock, DropLocals
  <2>3. FlagType'
    BY <1>10 DEF FlagType, Outcomes, SendInvite, Return, Unlock, DropLocals
  <2>4. CallerType'
    BY <1>10 DEF CallerType, Labels, SendInvite, Return, Unlock, DropLocals
  <2> QED
    BY <2>1, <2>2, <2>3, <2>4
<1>11. ASSUME NEW c \in Callers, InviteAnswered(c)
      PROVE  TypeOK'
  <2>1. DeviceType'
    BY <1>11 DEF DeviceType, InviteAnswered, StoreAnswer, Record, Return, Unlock, DropLocals
  <2>2. SessionType'
    BY <1>11 DEF SessionType, CallerType, Stages, InviteAnswered, StoreAnswer, Record, Return, Unlock, DropLocals
  <2>3. FlagType'
    BY <1>11 DEF FlagType, Outcomes, InviteAnswered, StoreAnswer, Record, Return, Unlock, DropLocals
  <2>4. CallerType'
    BY <1>11 DEF CallerType, Labels, InviteAnswered, StoreAnswer, Record, Return, Unlock, DropLocals
  <2> QED
    BY <2>1, <2>2, <2>3, <2>4
<1>12. ASSUME NEW c \in Callers, InviteFailed(c)
      PROVE  TypeOK'
  <2>1. DeviceType'
    BY <1>12 DEF DeviceType, InviteFailed, Return, Unlock, DropLocals
  <2>2. SessionType'
    BY <1>12 DEF SessionType, Stages, InviteFailed, Return, Unlock, DropLocals
  <2>3. FlagType'
    BY <1>12 DEF FlagType, Outcomes, InviteFailed, Return, Unlock, DropLocals
  <2>4. CallerType'
    BY <1>12 DEF CallerType, Labels, InviteFailed, Return, Unlock, DropLocals
  <2> QED
    BY <2>1, <2>2, <2>3, <2>4
<1>13. ASSUME NEW c \in Callers, MarkPlaying(c)
      PROVE  TypeOK'
  <2>1. DeviceType'
    BY <1>13 DEF DeviceType, MarkPlaying, EditPlaying, Return, Unlock, DropLocals
  <2>2. SessionType'
    BY <1>13 DEF SessionType, Stages, MarkPlaying, EditPlaying, Return, Unlock, DropLocals
  <2>3. FlagType'
    BY <1>13 DEF FlagType, Outcomes, MarkPlaying, EditPlaying, SetPlaying
  <2>4. CallerType'
    BY <1>13 DEF CallerType, Labels, MarkPlaying, EditPlaying, Return, Unlock, DropLocals
  <2> QED
    BY <2>1, <2>2, <2>3, <2>4
<1>14. ASSUME NEW c \in Callers, HookStopPlay(c)
      PROVE  TypeOK'
  <2>1. DeviceType'
    BY <1>14 DEF DeviceType, HookStopPlay
  <2>2. SessionType'
    BY <1>14 DEF SessionType, Stages, HookStopPlay
  <2>3. FlagType'
    BY <1>14 DEF FlagType, Outcomes, HookStopPlay
  <2>4. CallerType'
    BY <1>14 DEF CallerType, DeviceType, Labels, HookStopPlay
  <2> QED
    BY <2>1, <2>2, <2>3, <2>4
<1>15. ASSUME NEW c \in Callers, StopAndBye(c)
      PROVE  TypeOK'
  <2>1. DeviceType'
    BY <1>15 DEF DeviceType, StopAndBye, TakeAndBye, MapWithout, Record
  <2>2. SessionType'
    BY <1>15, TakeAndByeType DEF SessionType, CallerType, StopAndBye
  <2>3. FlagType'
    BY <1>15 DEF FlagType, Outcomes, StopAndBye, TakeAndBye, MapWithout, Record
  <2>4. CallerType'
    BY <1>15 DEF CallerType, Labels, StopAndBye, TakeAndBye, MapWithout, Record
  <2> QED
    BY <2>1, <2>2, <2>3, <2>4
<1>16. ASSUME NEW c \in Callers, MarkStopped(c)
      PROVE  TypeOK'
  <2>1. DeviceType'
    BY <1>16 DEF DeviceType, MarkStopped, EditPlaying, Return, Unlock, DropLocals
  <2>2. SessionType'
    BY <1>16 DEF SessionType, Stages, MarkStopped, EditPlaying, Return, Unlock, DropLocals
  <2>3. FlagType'
    BY <1>16 DEF FlagType, Outcomes, MarkStopped, EditPlaying, SetPlaying
  <2>4. CallerType'
    BY <1>16 DEF CallerType, Labels, MarkStopped, EditPlaying, Return, Unlock, DropLocals
  <2> QED
    BY <2>1, <2>2, <2>3, <2>4
<1>17. ASSUME NEW n \in Starts, DeviceAccepts(n)
      PROVE  TypeOK'
  <2>1. DeviceType'
    BY <1>17 DEF DeviceType, DeviceAccepts
  <2>2. SessionType'
    BY <1>17 DEF SessionType, Stages, DeviceAccepts
  <2>3. FlagType'
    BY <1>17 DEF FlagType, Outcomes, DeviceAccepts
  <2>4. CallerType'
    BY <1>17 DEF CallerType, Labels, DeviceAccepts
  <2> QED
    BY <2>1, <2>2, <2>3, <2>4
<1>18. CASE DeleteDevice
  <2>1. DeviceType'
    BY <1>18 DEF DeviceType, DeleteDevice
  <2>2. SessionType'
    BY <1>18 DEF SessionType, Stages, DeleteDevice
  <2>3. FlagType'
    BY <1>18 DEF FlagType, Outcomes, DeleteDevice
  <2>4. CallerType'
    BY <1>18 DEF CallerType, Labels, DeleteDevice
  <2> QED
    BY <2>1, <2>2, <2>3, <2>4
<1>19. CASE RegisterAgain
  <2>1. DeviceType'
    BY <1>19 DEF DeviceType, RegisterAgain
  <2>2. SessionType'
    BY <1>19 DEF SessionType, Stages, RegisterAgain
  <2>3. FlagType'
    BY <1>19 DEF FlagType, Outcomes, RegisterAgain
  <2>4. CallerType'
    BY <1>19 DEF CallerType, Labels, RegisterAgain
  <2> QED
    BY <2>1, <2>2, <2>3, <2>4
<1>20. CASE UNCHANGED vars
  <2>1. DeviceType'
    BY <1>20 DEF DeviceType, vars
  <2>2. SessionType'
    BY <1>20 DEF SessionType, Stages, vars
  <2>3. FlagType'
    BY <1>20 DEF FlagType, Outcomes, vars
  <2>4. CallerType'
    BY <1>20 DEF CallerType, Labels, vars
  <2> QED
    BY <2>1, <2>2, <2>3, <2>4
<1> QED
  BY <1>1, <1>2, <1>3, <1>4, <1>5, <1>6, <1>7, <1>8, <1>9, <1>10, <1>11, <1>12, <1>13, <1>14, <1>15, <1>16, <1>17, <1>18, <1>19, <1>20, Calls DEF Next, Step

\* Type correctness: no interleaving of starts, stops, webhooks, deletions and
\* registrations puts an ill-typed value into the session state.
THEOREM TypeCorrect == Spec => []TypeOK
BY TypeInit, TypeStep, PTL DEF Spec

-----------------------------------------------------------------------------
(* The session invariant.                                                  *)

\* A step that leaves the sessions alone and gives no caller a number or an object
\* it did not have.
Quiet ==
  /\ UNCHANGED <<streams, resp, byes, starts>>
  /\ \A c \in Callers :
       /\ pc'[c] \in Unstored => pc[c] \in Unstored /\ num'[c] = num[c]
       /\ pc'[c] \in Unanswered => pc[c] \in Unanswered /\ num'[c] = num[c]
       /\ pc'[c] \in HoldsObject => pc[c] \in HoldsObject /\ obj'[c] = obj[c]

LEMMA QuietKeeps == SessionInv /\ Quiet => SessionInv'
<1> SUFFICES ASSUME SessionInv, Quiet PROVE SessionInv'
  OBVIOUS
<1> USE DEF SessionInv, Quiet
<1>1. NumbersTaken'
  BY DEF NumbersTaken
<1>2. OneOwner'
  BY DEF OneOwner
<1>3. FreshObject'
  BY DEF FreshObject
<1>4. FreshDialog'
  BY DEF FreshDialog
<1>5. MappedNotStopped' /\ NoDoubleBye'
  BY DEF MappedNotStopped, NoDoubleBye
<1> QED
  BY <1>1, <1>2, <1>3, <1>4, <1>5

\* The steps that are quiet.
LEMMA QuietSteps ==
  ASSUME TypeOK, NEW c \in Callers,
         \/ \E k \in Kinds : CallStop(c, k)
         \/ StreamUnregistered(c) \/ LockStart(c) \/ LockStop(c) \/ CheckOnline(c)
         \/ OpenRTPServer(c) \/ SendInvite(c) \/ InviteFailed(c)
         \/ MarkPlaying(c) \/ HookStopPlay(c) \/ MarkStopped(c)
  PROVE  Quiet
<1> USE DEF TypeOK, CallerType, Unstored, Unanswered, HoldsObject, Quiet,
            deviceVars, sessionVars, flagVars, localVars
<1>1. ASSUME NEW k \in Kinds, CallStop(c, k) PROVE Quiet
  BY <1>1 DEF CallStop
<1>2. CASE StreamUnregistered(c)
  BY <1>2 DEF StreamUnregistered
<1>3. CASE LockStart(c)
  BY <1>3 DEF LockStart
<1>4. CASE LockStop(c)
  BY <1>4 DEF LockStop
<1>5. CASE CheckOnline(c)
  BY <1>5 DEF CheckOnline, Return, DropLocals
<1>6. CASE OpenRTPServer(c)
  BY <1>6 DEF OpenRTPServer, Return, DropLocals
<1>7. CASE SendInvite(c)
  BY <1>7 DEF SendInvite, Return, DropLocals
<1>8. CASE InviteFailed(c)
  BY <1>8 DEF InviteFailed, Return, DropLocals
<1>9. CASE MarkPlaying(c)
  BY <1>9 DEF MarkPlaying, Return, DropLocals
<1>10. CASE HookStopPlay(c)
  BY <1>10 DEF HookStopPlay
<1>11. CASE MarkStopped(c)
  BY <1>11 DEF MarkStopped, Return, DropLocals
<1> QED
  BY <1>1, <1>2, <1>3, <1>4, <1>5, <1>6, <1>7, <1>8, <1>9, <1>10, <1>11

\* A new call takes the first number no one has used.
LEMMA CallStartKeeps ==
  ASSUME TypeOK, SessionInv, NEW c \in Callers, NEW k \in Kinds, CallStart(c, k)
  PROVE  SessionInv'
<1> USE PlayAssumption DEF CallStart, sessionVars
<1> DEFINE m == starts + 1
<1>1. /\ m \in Starts /\ starts \in Nat /\ starts' = m
      /\ UNCHANGED <<streams, resp, byes>>
      /\ \A e \in Callers \ {c} : pc'[e] = pc[e] /\ num'[e] = num[e] /\ obj'[e] = obj[e]
      /\ pc'[c] = "lockStart" /\ num'[c] = m
  BY DEF TypeOK, SessionType, CallerType, Starts
<1>2. /\ \A j \in Kinds : streams[j] \in Nat
      /\ \A n \in Starts : n \in Nat /\ resp[n] \in Nat
      /\ \A e \in Callers : obj[e] \in Nat /\ num[e] \in Nat
  BY DEF TypeOK, SessionType, CallerType, Starts
<1> HIDE DEF CallStart, m
<1> USE DEF SessionInv, NumbersTaken, Unstored, Unanswered, HoldsObject
<1>m. m > starts /\ m \in 1..starts'
  BY <1>1 DEF m
<1>3. NumbersTaken'
  BY <1>1, <1>2, <1>m DEF m
<1>4. OneOwner'
  BY <1>1, <1>2, <1>m DEF OneOwner, m
<1>5. FreshObject'
  BY <1>1, <1>2, <1>m DEF FreshObject
<1>6. FreshDialog'
  BY <1>1, <1>2, <1>m DEF FreshDialog
<1>7. MappedNotStopped' /\ NoDoubleBye'
  BY <1>1 DEF MappedNotStopped, NoDoubleBye
<1> QED
  BY <1>3, <1>4, <1>5, <1>6, <1>7

\* Storing a fresh object puts no stopped session into the map; taking the stored
\* one does not change it.
LEMMA LoadOrStoreKeeps ==
  ASSUME TypeOK, SessionInv, NEW c \in Callers, LoadOrStore(c)
  PROVE  SessionInv'
<1> DEFINE k == kind[c]
<1>1. /\ k \in Kinds /\ num[c] \in 1..starts /\ starts \in Nat /\ starts' = starts
      /\ UNCHANGED <<resp, byes, num>>
      /\ \A e \in Callers \ {c} : pc'[e] = pc[e] /\ obj'[e] = obj[e]
      /\ pc[c] = "load" /\ pc'[c] \in {"rtp", "stopOld"}
  BY DEF TypeOK, SessionType, CallerType, LoadOrStore, flagVars, SessionInv,
         NumbersTaken, Unanswered, Unstored
<1>2. \/ /\ streams[k] # 0 /\ streams' = streams /\ obj'[c] = streams[k]
      \/ /\ streams[k] = 0 /\ obj'[c] = num[c]
         /\ streams' = [streams EXCEPT ![k] = num[c]]
  BY DEF TypeOK, CallerType, LoadOrStore
<1>3. /\ streams \in [Kinds -> Nat]
      /\ \A e \in Callers : obj[e] \in Nat /\ num[e] \in Nat
      /\ num[c] \in Starts
  BY <1>1, PlayAssumption DEF TypeOK, SessionType, CallerType, Starts
<1> HIDE DEF k
<1> USE DEF SessionInv, Unstored, Unanswered, HoldsObject
<1>4. NumbersTaken'
  BY <1>1, <1>2, <1>3 DEF NumbersTaken
<1>5. OneOwner'
  BY <1>1, <1>2, <1>3 DEF OneOwner, FreshObject
<1>6. FreshObject'
  BY <1>1, <1>2, <1>3 DEF OneOwner, FreshObject
<1>7. FreshDialog'
  BY <1>1 DEF FreshDialog
<1>8. MappedNotStopped' /\ NoDoubleBye'
  BY <1>1, <1>2, <1>3 DEF FreshObject, MappedNotStopped, NoDoubleBye
<1> QED
  BY <1>4, <1>5, <1>6, <1>7, <1>8

\* Whoever takes an entry is the first to stop its session.
LEMMA TakeAndByeKeeps ==
  ASSUME TypeOK, SessionInv, NEW k \in Kinds, TakeAndBye(k),
         UNCHANGED <<resp, starts, num, obj>>,
         \A c \in Callers :
           /\ pc'[c] \in Unstored => pc[c] \in Unstored
           /\ pc'[c] \in Unanswered => pc[c] \in Unanswered
           /\ pc'[c] \in HoldsObject => pc[c] \in HoldsObject
  PROVE  SessionInv'
<1> DEFINE d == resp[streams[k]]
<1>1. streams' = [streams EXCEPT ![k] = 0] /\ streams \in [Kinds -> Nat]
  BY TakeAndByeCases DEF TypeOK, SessionType
<1>2. \/ byes' = byes
      \/ /\ streams[k] \in Starts /\ d \in Starts /\ d # 0 /\ streams[k] # 0
         /\ byes' = [byes EXCEPT ![d] = byes[d] + 1]
  BY TakeAndByeCases DEF TypeOK, SessionType, Starts
<1>3. /\ byes \in [Starts -> Nat] /\ resp \in [Starts -> Nat] /\ starts \in Nat
      /\ \A j \in Kinds : streams[j] # 0 => streams[j] \in Starts
      /\ \A n \in Starts : resp[n] # 0 => resp[n] \in Starts
      /\ \A c \in Callers : pc[c] \in Unanswered => num[c] \in Starts
      /\ Starts \subseteq Nat
  BY PlayAssumption DEF TypeOK, SessionType, CallerType, Starts, SessionInv, NumbersTaken
<1>4. NumbersTaken'
  <2>1. ASSUME NEW n \in Starts, n > starts PROVE byes'[n] = 0
    <3>1. byes[n] = 0
      BY <2>1 DEF SessionInv, NumbersTaken
    <3>2. CASE byes' = byes
      BY <3>1, <3>2
    <3>3. CASE d # n /\ byes' = [byes EXCEPT ![d] = byes[d] + 1]
      BY <3>1, <3>3, <1>3
    <3>4. ASSUME d = n, streams[k] \in Starts PROVE FALSE
      <4>1. d <= starts
        BY <3>4 DEF SessionInv, NumbersTaken
      <4>2. n \in Nat
        BY <1>3
      <4> QED
        BY <1>3, <2>1, <3>4, <4>1, <4>2
    <3> QED
      BY <1>2, <3>2, <3>3, <3>4
  <2> QED
    BY <1>1, <1>3, <2>1 DEF SessionInv, NumbersTaken
<1>5. OneOwner'
  BY <1>1, <1>3 DEF SessionInv, OneOwner
<1>6. FreshObject'
  BY <1>1, <1>3 DEF SessionInv, NumbersTaken, FreshObject, Unstored, Unanswered
<1>7. FreshDialog'
  BY <1>2, <1>3 DEF SessionInv, FreshDialog
<1>8. byes[d] = 0 \/ byes' = byes
  BY <1>2 DEF SessionInv, MappedNotStopped
<1>9. NoDoubleBye'
  BY <1>2, <1>3, <1>8 DEF SessionInv, NoDoubleBye
<1>10. MappedNotStopped'
  <2> SUFFICES ASSUME NEW j \in Kinds, streams'[j] # 0, resp[streams'[j]] # 0
               PROVE  byes'[resp[streams'[j]]] = 0
    BY DEF MappedNotStopped
  <2>1. j # k /\ streams'[j] = streams[j] /\ byes[resp[streams[j]]] = 0
    BY <1>1 DEF SessionInv, MappedNotStopped
  <2>2. streams[k] \in Starts /\ d # 0 => resp[streams[j]] # d
    BY <1>3, <2>1, PlayAssumption DEF SessionInv, OneOwner, Starts
  <2> QED
    BY <1>2, <1>3, <2>1, <2>2
<1> QED
  BY <1>4, <1>5, <1>6, <1>7, <1>9, <1>10 DEF SessionInv

\* An answer enters the object its caller holds; its dialog had no BYE yet.
LEMMA InviteAnsweredKeeps ==
  ASSUME TypeOK, SessionInv, NEW c \in Callers, InviteAnswered(c)
  PROVE  SessionInv'
<1>1. /\ num[c] \in 1..starts /\ obj[c] \in 1..starts /\ starts \in Nat
      /\ resp' = [resp EXCEPT ![obj[c]] = num[c]]
      /\ UNCHANGED <<streams, byes, starts>>
      /\ pc[c] = "wait" /\ pc'[c] \in {"mark", "idle"}
  BY DEF TypeOK, SessionType, CallerType, InviteAnswered, StoreAnswer, Return, SessionInv,
         NumbersTaken, Unanswered, HoldsObject
<1>2. /\ pc'[c] = "mark" => obj'[c] = obj[c]
      /\ \A e \in Callers \ {c} : pc'[e] = pc[e] /\ obj'[e] = obj[e] /\ num'[e] = num[e]
  BY <1>1 DEF TypeOK, CallerType, InviteAnswered, Return, DropLocals, localVars
<1>3. /\ resp \in [Starts -> Nat] /\ num[c] \in Starts /\ obj[c] \in Starts
      /\ \A j \in Kinds : streams[j] # 0 => streams[j] \in Starts
      /\ \A e \in Callers : obj[e] \in Nat /\ num[e] \in Nat
  BY <1>1, PlayAssumption DEF TypeOK, SessionType, CallerType, Starts
<1> USE DEF SessionInv, Unstored, Unanswered, HoldsObject
<1>4. NumbersTaken'
  BY <1>1, <1>2, <1>3 DEF NumbersTaken
<1>5. OneOwner'
  BY <1>1, <1>2, <1>3 DEF OneOwner, FreshDialog
<1>6. FreshObject'
  BY <1>1, <1>2, <1>3 DEF FreshObject
<1>7. FreshDialog'
  BY <1>1, <1>2, <1>3 DEF OneOwner, FreshDialog
<1>8. MappedNotStopped' /\ NoDoubleBye'
  BY <1>1, <1>3 DEF FreshDialog, MappedNotStopped, NoDoubleBye
<1> QED
  BY <1>4, <1>5, <1>6, <1>7, <1>8

\* Every step keeps the session invariant.
LEMMA SessionStep == TypeOK /\ SessionInv /\ [Next]_vars => SessionInv'
<1> SUFFICES ASSUME TypeOK, SessionInv, [Next]_vars PROVE SessionInv'
  OBVIOUS
<1>1. ASSUME NEW c \in Callers, NEW k \in Kinds, CallStart(c, k) PROVE SessionInv'
  BY <1>1, CallStartKeeps
<1>2. ASSUME NEW c \in Callers, LoadOrStore(c) PROVE SessionInv'
  BY <1>2, LoadOrStoreKeeps
<1>3. ASSUME NEW c \in Callers, StopOld(c) PROVE SessionInv'
  <2>1. kind[c] \in Kinds
    BY DEF TypeOK, CallerType
  <2> QED
    BY <1>3, <2>1, TakeAndByeKeeps
    DEF StopOld, TypeOK, CallerType, localVars, Unstored, Unanswered, HoldsObject
<1>4. ASSUME NEW c \in Callers, StopAndBye(c) PROVE SessionInv'
  <2>1. kind[c] \in Kinds
    BY DEF TypeOK, CallerType
  <2> QED
    BY <1>4, <2>1, TakeAndByeKeeps
    DEF StopAndBye, TypeOK, CallerType, localVars, Unstored, Unanswered, HoldsObject
<1>5. ASSUME NEW c \in Callers, InviteAnswered(c) PROVE SessionInv'
  BY <1>5, InviteAnsweredKeeps
<1>6. ASSUME NEW c \in Callers,
             \/ \E k \in Kinds : CallStop(c, k)
             \/ StreamUnregistered(c) \/ LockStart(c) \/ LockStop(c) \/ CheckOnline(c)
             \/ OpenRTPServer(c) \/ SendInvite(c) \/ InviteFailed(c)
             \/ MarkPlaying(c) \/ HookStopPlay(c) \/ MarkStopped(c)
      PROVE  SessionInv'
  BY <1>6, QuietSteps, QuietKeeps
<1>7. ASSUME \/ \E n \in Starts : DeviceAccepts(n)
             \/ DeleteDevice \/ RegisterAgain \/ UNCHANGED vars
      PROVE  SessionInv'
  <2>1. Quiet
    BY <1>7 DEF DeviceAccepts, DeleteDevice, RegisterAgain, vars, sessionVars, localVars,
                Quiet
  <2> QED
    BY <2>1, QuietKeeps
<1> QED
  BY <1>1, <1>2, <1>3, <1>4, <1>5, <1>6, <1>7, Calls DEF Next, Step

LEMMA SessionInit == Init => SessionInv
BY PlayAssumption DEF Init, SessionInv, NumbersTaken, OneOwner, FreshObject, FreshDialog,
   MappedNotStopped, NoDoubleBye, Starts, Unstored, Unanswered, HoldsObject

THEOREM SessionsHold == Spec => []SessionInv
<1>1. TypeOK /\ SessionInv /\ [Next]_vars => SessionInv'
  BY SessionStep
<1> QED
  BY <1>1, SessionInit, TypeCorrect, PTL DEF Spec

\* No dialog is sent two BYEs: stopPlay, stopHistoryNoLock and stopVoiceNoLock take
\* an entry with LoadAndDelete, and nothing puts a taken object back.
THEOREM ByeOnce == Spec => []NoDoubleBye
<1>1. SessionInv => NoDoubleBye
  BY DEF SessionInv
<1> QED
  BY <1>1, SessionsHold, PTL

\* No entry of GB28181API.streams names a session that was already stopped.
THEOREM EntryAlive == Spec => []MappedNotStopped
<1>1. SessionInv => MappedNotStopped
  BY DEF SessionInv
<1> QED
  BY <1>1, SessionsHold, PTL

-----------------------------------------------------------------------------
(* The mutex, and what it protects while the Device object stays the same. *)

\* Every step keeps the mutex in the hands of the caller inside.
LEMMA LockStep == TypeOK /\ LockInv /\ [Next]_vars => LockInv'
<1> SUFFICES ASSUME TypeOK, LockInv, [Next]_vars PROVE LockInv'
  OBVIOUS
<1> USE DEF TypeOK, DeviceType, CallerType, LockInv, Locked, Labels,
            localVars
<1>n. NoCaller \notin Callers
  BY PlayAssumption
<1>1. ASSUME NEW c \in Callers, NEW k \in Kinds, CallStart(c, k) PROVE LockInv'
  BY <1>1 DEF CallStart
<1>2. ASSUME NEW c \in Callers, NEW k \in Kinds, CallStop(c, k) PROVE LockInv'
  BY <1>2 DEF CallStop
<1>3. ASSUME NEW c \in Callers, StreamUnregistered(c) PROVE LockInv'
  BY <1>3 DEF StreamUnregistered
<1>4. ASSUME NEW c \in Callers, LockStart(c) PROVE LockInv'
  BY <1>4, <1>n DEF LockStart, Lock
<1>5. ASSUME NEW c \in Callers, LockStop(c) PROVE LockInv'
  BY <1>5, <1>n DEF LockStop, Lock
<1>6. ASSUME NEW c \in Callers, Return(c), pc[c] \in Locked PROVE LockInv'
  BY <1>6 DEF Return, Unlock, DropLocals
<1>7. ASSUME NEW c \in Callers, pc[c] \in Locked, UNCHANGED <<mutex, dev>>,
             \A e \in Callers \ {c} : pc'[e] = pc[e]
      PROVE  LockInv'
  BY <1>7
<1>8. ASSUME NEW c \in Callers, HookStopPlay(c) PROVE LockInv'
  BY <1>8 DEF HookStopPlay
<1>9. ASSUME NEW c \in Callers,
             CheckOnline(c) \/ LoadOrStore(c) \/ StopOld(c) \/ OpenRTPServer(c)
      PROVE  LockInv'
  BY <1>6, <1>7, <1>9 DEF CheckOnline, LoadOrStore, StopOld, OpenRTPServer
<1>10. ASSUME NEW c \in Callers,
              SendInvite(c) \/ InviteAnswered(c) \/ InviteFailed(c) \/ MarkPlaying(c)
       PROVE  LockInv'
  BY <1>6, <1>7, <1>10 DEF SendInvite, InviteAnswered, InviteFailed, MarkPlaying
<1>11. ASSUME NEW c \in Callers, StopAndBye(c) \/ MarkStopped(c) PROVE LockInv'
  BY <1>6, <1>7, <1>11 DEF StopAndBye, MarkStopped
<1>12. ASSUME \/ \E n \in Starts : DeviceAccepts(n)
              \/ DeleteDevice \/ RegisterAgain \/ UNCHANGED vars
       PROVE  LockInv'
  BY <1>12 DEF DeviceAccepts, DeleteDevice, RegisterAgain, vars
<1> QED
  BY <1>1, <1>2, <1>3, <1>4, <1>5, <1>8, <1>9, <1>10, <1>11, <1>12, Calls DEF Next, Step

THEOREM MutexHolds == Spec => []LockInv
<1>1. Init => LockInv
  BY DEF Init, LockInv, Locked
<1>2. TypeOK /\ LockInv /\ [Next]_vars => LockInv'
  BY LockStep
<1> QED
  BY <1>1, <1>2, TypeCorrect, PTL DEF Spec

\* With one Device object, at most one caller is inside.
LEMMA Exclusion ==
  ASSUME TypeOK, LockInv, MaxDevices = 1,
         NEW c \in Callers, NEW e \in Callers, pc[c] \in Locked, pc[e] \in Locked
  PROVE  c = e
<1>1. dev[c] = 1 /\ dev[e] = 1
  BY DEF TypeOK, CallerType, Devices
<1> QED
  BY <1>1 DEF LockInv

\* What a started session holds stays its own: only the caller inside stores
\* answers and stops sessions.
LEMMA StartedStep ==
  ASSUME TypeOK, SessionInv, LockInv, MaxDevices = 1, StartedIsOwn, [Next]_vars
  PROVE  StartedIsOwn'
<1> DEFINE Own(e) == resp[obj[e]] = num[e] /\ byes[num[e]] = 0
<1> SUFFICES ASSUME NEW e \in Callers, pc'[e] = "mark"
             PROVE  Own(e)'
  BY DEF StartedIsOwn
<1>1. ASSUME NEW c \in Callers, InviteAnswered(c) PROVE Own(e)'
  <2>1. CASE e = c
    <3>1. /\ UNCHANGED <<obj, num, byes>> /\ resp' = [resp EXCEPT ![obj[c]] = num[c]]
          /\ pc[c] = "wait"
      BY <1>1, <2>1 DEF InviteAnswered, Return, StoreAnswer, localVars, TypeOK, CallerType
    <3>2. obj[c] \in Starts /\ byes[num[c]] = 0
      BY <3>1, PlayAssumption DEF SessionInv, NumbersTaken, FreshDialog, HoldsObject, Unanswered,
            TypeOK, SessionType, Starts
    <3> QED
      BY <2>1, <3>1, <3>2 DEF TypeOK, SessionType
  <2>2. CASE e # c
    <3>1. pc[e] \in Locked /\ pc[c] \in Locked
      BY <1>1, <2>2 DEF InviteAnswered, Return, TypeOK, CallerType, Locked, Labels
    <3> QED
      BY <2>2, <3>1, Exclusion
  <2> QED
    BY <2>1, <2>2
<1>2. ASSUME NEW c \in Callers, StopOld(c) \/ StopAndBye(c) PROVE FALSE
  <2>1. e # c /\ pc[e] \in Locked /\ pc[c] \in Locked
    BY <1>2 DEF StopOld, StopAndBye, TypeOK, CallerType, Locked, Labels
  <2> QED
    BY <2>1, Exclusion
<1>3. ASSUME pc[e] = "mark", UNCHANGED <<resp, byes>>, obj'[e] = obj[e], num'[e] = num[e]
      PROVE  Own(e)'
  BY <1>3, MaxDevices = 1 DEF StartedIsOwn
<1> USE DEF TypeOK, CallerType, sessionVars, localVars
<1>4. ASSUME NEW c \in Callers, NEW k \in Kinds, CallStart(c, k) \/ CallStop(c, k)
      PROVE  Own(e)'
  BY <1>3, <1>4 DEF CallStart, CallStop
<1>5. ASSUME NEW c \in Callers,
             StreamUnregistered(c) \/ LockStart(c) \/ LockStop(c) \/ HookStopPlay(c)
      PROVE  Own(e)'
  BY <1>3, <1>5 DEF StreamUnregistered, LockStart, LockStop, HookStopPlay
<1>6. ASSUME NEW c \in Callers, CheckOnline(c) \/ OpenRTPServer(c) \/ SendInvite(c)
      PROVE  Own(e)'
  BY <1>3, <1>6 DEF CheckOnline, OpenRTPServer, SendInvite, Return, DropLocals
<1>7. ASSUME NEW c \in Callers, InviteFailed(c) \/ MarkPlaying(c) \/ MarkStopped(c)
      PROVE  Own(e)'
  BY <1>3, <1>7 DEF InviteFailed, MarkPlaying, MarkStopped, Return, DropLocals
<1>8. ASSUME NEW c \in Callers, LoadOrStore(c) PROVE Own(e)'
  BY <1>3, <1>8 DEF LoadOrStore
<1>9. ASSUME \/ \E n \in Starts : DeviceAccepts(n)
             \/ DeleteDevice \/ RegisterAgain \/ UNCHANGED vars
      PROVE  Own(e)'
  BY <1>3, <1>9 DEF DeviceAccepts, DeleteDevice, RegisterAgain, vars
<1> QED
  BY <1>1, <1>2, <1>4, <1>5, <1>6, <1>7, <1>8, <1>9, Calls DEF Next, Step

\* While the device is unknown nothing writes the flag; the first device object is
\* also the last.
LEMMA FlagUnknown ==
  ASSUME TypeOK, MaxDevices = 1, FlagInv, [Next]_vars
  PROVE  ~known' => ~playing' /\ last' = "none"
<1> SUFFICES ASSUME ~known' PROVE ~playing' /\ last' = "none"
  OBVIOUS
<1>1. CASE DeleteDevice
  BY <1>1, Zenon DEF DeleteDevice
<1>2. CASE ~known
  <2>1. playing = FALSE /\ last = "none"
    BY <1>2, Zenon DEF FlagInv, TypeOK, FlagType
  <2>2. ASSUME NEW c \in Callers, Step(c) PROVE playing' = playing /\ last' = last
    BY <1>2, <2>2, Zenon DEF Step, CheckOnline, LoadOrStore, StopOld, OpenRTPServer, SendInvite,
       InviteAnswered, InviteFailed, MarkPlaying, HookStopPlay, StopAndBye, MarkStopped,
       SetPlaying, EditPlaying, Record, flagVars
  <2>3. ASSUME NEW c \in Callers, LockStart(c) \/ LockStop(c)
        PROVE  playing' = playing /\ last' = last
    BY <2>3, Zenon DEF LockStart, LockStop, flagVars
  <2>4. ASSUME \/ \E n \in Starts : DeviceAccepts(n)
               \/ RegisterAgain \/ UNCHANGED vars
        PROVE  playing' = playing /\ last' = last
    BY <2>4, Zenon DEF DeviceAccepts, RegisterAgain, flagVars, vars
  <2>5. ASSUME NEW c \in Callers,
               \/ \E k \in Kinds : CallStart(c, k) \/ CallStop(c, k)
               \/ StreamUnregistered(c)
        PROVE  FALSE
    BY <1>2, <2>5, Zenon DEF CallStart, CallStop, StreamUnregistered
  <2>6. DeleteDevice \/ (playing' = playing /\ last' = last)
    BY <2>2, <2>3, <2>4, <2>5, Calls, Zenon DEF Next
  <2>7. CASE playing' = playing /\ last' = last
    <3>1. playing' = FALSE /\ last' = "none"
      BY <2>1, <2>7
    <3> QED
      BY <3>1, Zenon
  <2> QED
    BY <1>1, <2>6, <2>7
<1>3. CASE known /\ ~DeleteDevice
  <2>1. ASSUME NEW c \in Callers, Step(c) PROVE known' = known
    BY <2>1, Zenon DEF Step, CheckOnline, LoadOrStore, StopOld, OpenRTPServer, SendInvite,
       InviteAnswered, InviteFailed, MarkPlaying, HookStopPlay, StopAndBye, MarkStopped,
       deviceVars
  <2>2. ASSUME NEW c \in Callers,
               \/ \E k \in Kinds : CallStart(c, k) \/ CallStop(c, k)
               \/ StreamUnregistered(c) \/ LockStart(c) \/ LockStop(c)
        PROVE  known' = known
    BY <2>2, Zenon DEF CallStart, CallStop, StreamUnregistered, LockStart, LockStop, deviceVars
  <2>3. ASSUME \/ \E n \in Starts : DeviceAccepts(n)
               \/ RegisterAgain \/ UNCHANGED vars
        PROVE  known' = known
    BY <1>3, <2>3, Zenon DEF DeviceAccepts, RegisterAgain, deviceVars, vars
  <2> QED
    BY <1>3, <2>1, <2>2, <2>3, Calls, Zenon DEF Next
<1> QED
  BY <1>1, <1>2, <1>3

\* What the holder of the mutex knows of the last section.
FlagHolder ==
  \A e \in Callers : /\ pc[e] = "mark" => last = "started"
                     /\ pc[e] = "unmark" => last = "stopped"

\* Some caller still owes the flag an update, or the flag is right.
FlagOwed ==
  \/ \E e \in Callers : pc[e] \in Flagging
  \/ FlagAgrees
  \/ lost

\* Only the section of the caller inside is recorded.
LEMMA FlagHolderStep ==
  ASSUME TypeOK, LockInv, MaxDevices = 1, known, FlagHolder, [Next]_vars, known'
  PROVE  FlagHolder'
<1> USE DEF TypeOK, CallerType, localVars, flagVars
<1>1. ASSUME NEW c \in Callers, InviteAnswered(c) \/ StopAndBye(c) PROVE FlagHolder'
  <2>1. pc[c] \in Locked
    BY <1>1 DEF InviteAnswered, StopAndBye, Locked, Labels
  <2>2. ASSUME NEW e \in Callers \ {c} PROVE pc'[e] = pc[e] /\ pc[e] \notin {"mark", "unmark"}
    <3>1. pc'[e] = pc[e]
      BY <1>1 DEF InviteAnswered, StopAndBye, Return
    <3>2. pc[e] \notin Locked
      BY <2>1, Exclusion
    <3> QED
      BY <3>1, <3>2 DEF Locked, Labels
  <2>3. CASE StopAndBye(c)
    <3>1. pc'[c] = "unmark" /\ last' = "stopped"
      BY <2>3 DEF StopAndBye, Record
    <3> QED
      BY <2>2, <3>1 DEF FlagHolder
  <2>4. CASE InviteAnswered(c)
    <3>1. (pc'[c] = "mark" /\ last' = "started") \/ pc'[c] = "idle"
      BY <2>4 DEF InviteAnswered, Record, Return
    <3> QED
      BY <2>2, <3>1 DEF FlagHolder
  <2> QED
    BY <1>1, <2>3, <2>4
<1>2. ASSUME UNCHANGED last, \A e \in Callers : pc'[e] \in {"mark", "unmark"} => pc'[e] = pc[e]
      PROVE  FlagHolder'
  BY <1>2 DEF FlagHolder
<1>3. ASSUME NEW c \in Callers, NEW k \in Kinds, CallStart(c, k) \/ CallStop(c, k)
      PROVE  FlagHolder'
  BY <1>2, <1>3 DEF CallStart, CallStop
<1>4. ASSUME NEW c \in Callers,
             StreamUnregistered(c) \/ LockStart(c) \/ LockStop(c) \/ HookStopPlay(c)
      PROVE  FlagHolder'
  BY <1>2, <1>4 DEF StreamUnregistered, LockStart, LockStop, HookStopPlay
<1>5. ASSUME NEW c \in Callers, CheckOnline(c) \/ OpenRTPServer(c) \/ SendInvite(c)
      PROVE  FlagHolder'
  BY <1>2, <1>5 DEF CheckOnline, OpenRTPServer, SendInvite, Return
<1>6. ASSUME NEW c \in Callers, InviteFailed(c) \/ MarkPlaying(c) \/ MarkStopped(c)
      PROVE  FlagHolder'
  BY <1>2, <1>6 DEF InviteFailed, MarkPlaying, MarkStopped, Return
<1>7. ASSUME NEW c \in Callers, LoadOrStore(c) \/ StopOld(c) PROVE FlagHolder'
  <2>1. CASE LoadOrStore(c)
    BY <1>2, <2>1 DEF LoadOrStore
  <2>2. CASE StopOld(c)
    <3>1. /\ pc[c] \in Locked /\ pc[c] = "stopOld"
          /\ pc' = [pc EXCEPT ![c] = "rtp"]
      BY <2>2 DEF StopOld, Locked, Labels
    <3>2. ASSUME NEW e \in Callers PROVE pc'[e] \notin {"mark", "unmark"}
      <4>1. pc[e] \notin Locked \/ e = c
        BY <3>1, Exclusion
      <4> QED
        BY <3>1, <4>1 DEF Locked, Labels
    <3> QED
      BY <3>2 DEF FlagHolder
  <2> QED
    BY <1>7, <2>1, <2>2
<1>8. ASSUME \/ \E n \in Starts : DeviceAccepts(n)
             \/ RegisterAgain \/ UNCHANGED vars
      PROVE  FlagHolder'
  BY <1>2, <1>8 DEF DeviceAccepts, RegisterAgain, vars
<1>9. ~DeleteDevice
  BY Zenon DEF DeleteDevice
<1> QED
  BY <1>1, <1>3, <1>4, <1>5, <1>6, <1>7, <1>8, <1>9, Calls DEF Next, Step

\* A caller that leaves the flagging part leaves the flag right, or its edit failed.
LEMMA FlagOwedStep ==
  ASSUME TypeOK, known, FlagHolder, FlagOwed, [Next]_vars, known'
  PROVE  FlagOwed'
<1> USE DEF TypeOK, CallerType, localVars, flagVars
<1>1. ASSUME NEW c \in Callers, pc'[c] \in Flagging PROVE FlagOwed'
  BY <1>1, Zenon DEF FlagOwed
<1>2. ASSUME UNCHANGED <<playing, last, lost>>,
             \A e \in Callers : pc[e] \in Flagging => pc'[e] \in Flagging
      PROVE  FlagOwed'
  BY <1>2, Zenon DEF FlagOwed, FlagAgrees
<1>3. ASSUME NEW c \in Callers, MarkPlaying(c) PROVE FlagOwed'
  <2>1. (playing' = TRUE \/ lost' = TRUE) /\ last' = last
    BY <1>3, Zenon DEF MarkPlaying, EditPlaying, SetPlaying
  <2>2. last = "started"
    BY <1>3 DEF MarkPlaying, FlagHolder
  <2>3. last' \notin {"none", "stopped"}
    BY <2>1, <2>2
  <2> QED
    BY <2>1, <2>3, Zenon DEF FlagOwed, FlagAgrees
<1>4. ASSUME NEW c \in Callers, MarkStopped(c) PROVE FlagOwed'
  <2>1. (playing' = FALSE \/ lost' = TRUE) /\ last' = last
    BY <1>4, Zenon DEF MarkStopped, EditPlaying, SetPlaying
  <2>2. last # "started"
    BY <1>4 DEF MarkStopped, FlagHolder
  <2> QED
    BY <2>1, <2>2, Zenon DEF FlagOwed, FlagAgrees
<1>5. ASSUME NEW c \in Callers, InviteAnswered(c) PROVE FlagOwed'
  <2>1. CASE pc'[c] = "mark"
    BY <1>1, <2>1 DEF Flagging
  <2>2. CASE pc'[c] = "idle"
    BY <1>2, <1>5, <2>2 DEF InviteAnswered, Flagging, Return
  <2> QED
    BY <1>5, <2>1, <2>2 DEF InviteAnswered, Return
<1>6. ASSUME NEW c \in Callers,
             \/ StreamUnregistered(c) \/ LockStop(c) \/ HookStopPlay(c) \/ StopAndBye(c)
      PROVE  FlagOwed'
  <2>1. pc'[c] \in {"hook", "bye", "lockStop", "unmark"}
    <3>1. CASE HookStopPlay(c)
      BY <3>1 DEF HookStopPlay
    <3> QED
      BY <1>6, <3>1 DEF StreamUnregistered, LockStop, StopAndBye
  <2> QED
    BY <1>1, <2>1 DEF Flagging
<1>7. ASSUME NEW c \in Callers, NEW k \in Kinds, CallStart(c, k) \/ CallStop(c, k)
      PROVE  FlagOwed'
  BY <1>2, <1>7 DEF CallStart, CallStop, Flagging
<1>8. ASSUME NEW c \in Callers,
             \/ LockStart(c) \/ CheckOnline(c) \/ LoadOrStore(c)
             \/ OpenRTPServer(c) \/ SendInvite(c) \/ InviteFailed(c)
      PROVE  FlagOwed'
  BY <1>2, <1>8 DEF LockStart, CheckOnline, LoadOrStore, OpenRTPServer, SendInvite,
     InviteFailed, Return, Flagging
<1>9. ASSUME \/ \E n \in Starts : DeviceAccepts(n)
             \/ RegisterAgain \/ UNCHANGED vars
      PROVE  FlagOwed'
  BY <1>2, <1>9 DEF DeviceAccepts, RegisterAgain, vars
<1>10. ~DeleteDevice
  BY Zenon DEF DeleteDevice
<1>11. ASSUME NEW c \in Callers, StopOld(c) PROVE FlagOwed'
  <2>1. CASE last' = last
    BY <1>2, <1>11, <2>1 DEF StopOld, Flagging
  <2>2. CASE last' = "replaced"
    <3>1. last' # "started" /\ last' \notin {"none", "stopped"}
      BY <2>2
    <3> QED
      BY <3>1, Zenon DEF FlagOwed, FlagAgrees
  <2> QED
    BY <1>11, <2>1, <2>2, Zenon DEF StopOld, Record
<1> QED
  BY <1>3, <1>4, <1>5, <1>6, <1>7, <1>8, <1>9, <1>10, <1>11, Calls DEF Next, Step

LEMMA FlagStep ==
  ASSUME TypeOK, LockInv, MaxDevices = 1, FlagInv, [Next]_vars
  PROVE  FlagInv'
<1>1. ~known' => ~playing' /\ last' = "none"
  BY FlagUnknown
<1>2. CASE known /\ known'
  <2>1. FlagHolder /\ FlagOwed
    BY <1>2, Zenon DEF FlagInv, FlagHolder, FlagOwed
  <2>2. FlagHolder' /\ FlagOwed'
    BY <1>2, <2>1, FlagHolderStep, FlagOwedStep
  <2> QED
    BY <1>1, <2>2, Zenon DEF FlagInv, FlagHolder, FlagOwed
<1>3. CASE ~known /\ known'
  <2>1. ~RegisterAgain
    BY DEF RegisterAgain, TypeOK, DeviceType, Devices
  <2>2. ASSUME NEW c \in Callers, Step(c) PROVE known' = known
    BY <2>2, Zenon DEF Step, CheckOnline, LoadOrStore, StopOld, OpenRTPServer, SendInvite,
       InviteAnswered, InviteFailed, MarkPlaying, HookStopPlay, StopAndBye, MarkStopped,
       deviceVars
  <2>3. ASSUME NEW c \in Callers,
               \/ \E k \in Kinds : CallStart(c, k) \/ CallStop(c, k)
               \/ StreamUnregistered(c) \/ LockStart(c) \/ LockStop(c)
        PROVE  known' = known
    BY <2>3, Zenon DEF CallStart, CallStop, StreamUnregistered, LockStart, LockStop, deviceVars
  <2>4. ASSUME \/ \E n \in Starts : DeviceAccepts(n)
               \/ DeleteDevice \/ UNCHANGED vars
        PROVE  FALSE
    BY <1>3, <2>4, Zenon DEF DeviceAccepts, DeleteDevice, deviceVars, vars
  <2> QED
    BY <1>3, <2>1, <2>2, <2>3, <2>4, Calls, Zenon DEF Next
<1>4. CASE ~known'
  BY <1>1, <1>4, Zenon DEF FlagInv
<1> QED
  BY <1>2, <1>3, <1>4

THEOREM InvHolds == Spec => []IInv
<1>1. Init => IInv
  <2>1. Init => StartedIsOwn /\ FlagInv /\ LockInv
    <3>1. Init => StartedIsOwn /\ LockInv
      BY DEF Init, StartedIsOwn, LockInv, Locked
    <3>2. Init => FlagInv
      <4> SUFFICES ASSUME Init PROVE FlagInv
        OBVIOUS
      <4>1. known = TRUE /\ playing = FALSE /\ last = "none" /\ last # "started"
            /\ \A c \in Callers : pc[c] # "mark" /\ pc[c] # "unmark"
        BY DEF Init
      <4> QED
        BY <4>1, Zenon DEF FlagInv, FlagAgrees
    <3> QED
      BY <3>1, <3>2
  <2> QED
    BY <2>1, TypeInit, SessionInit DEF IInv, OneDeviceInv
<1>2. IInv /\ [Next]_vars => IInv'
  <2> SUFFICES ASSUME IInv, [Next]_vars PROVE IInv'
    OBVIOUS
  <2>1. TypeOK' /\ SessionInv' /\ LockInv'
    BY TypeStep, SessionStep, LockStep DEF IInv
  <2>2. MaxDevices = 1 => StartedIsOwn' /\ FlagInv'
    BY StartedStep, FlagStep DEF IInv, OneDeviceInv
  <2> QED
    BY <2>1, <2>2 DEF IInv, OneDeviceInv
<1> QED
  BY <1>1, <1>2, PTL DEF Spec

\* While the device keeps its identity, a start that reports success holds its own,
\* unstopped session: playMutex covers Play, StartHistory and StartVoice entirely.
THEOREM StartedOwn == Spec => []StartedIsOwn
<1>1. IInv => StartedIsOwn
  BY DEF IInv, OneDeviceInv, StartedIsOwn
<1> QED
  BY <1>1, InvHolds, PTL

\* While the device keeps its identity and nothing is under way, IsPlaying agrees
\* with the last section, unless the edit that ended that section failed, or the
\* section was a start that stopped the old session and got no new one: the flag is
\* written under the mutex, after the session.
THEOREM FlagFollows == Spec => []FlagOfLastSection
<1>1. IInv => FlagOfLastSection
  <2> SUFFICES ASSUME IInv, MaxDevices = 1, \A c \in Callers : pc[c] = "idle"
               PROVE  FlagAgrees \/ lost
    BY DEF FlagOfLastSection
  <2>1. FlagInv
    BY DEF IInv, OneDeviceInv
  <2>2. \A c \in Callers : pc[c] \notin Flagging
    BY DEF Flagging
  <2>3. ~known => FlagAgrees
    <3>1. "none" # "started"
      OBVIOUS
    <3> QED
      BY <2>1, <3>1, Zenon DEF FlagInv, FlagAgrees
  <2> QED
    BY <2>1, <2>2, <2>3, Zenon DEF FlagInv
<1> QED
  BY <1>1, InvHolds, PTL
=============================================================================
