------------------------- MODULE HostServices_proofs -------------------------
(* Proofs about the services around the GB28181 server, for any value of   *)
(* their constants: the pictures, the cleanup of what is kept, the         *)
(* channels pushed by RTMP and the channels added by hand; and, of all of  *)
(* them, what their states are made of.                                    *)
EXTENDS MCHostServices, SipHandlers_proofs, FiniteSetTheorems, TLAPS

----------------------------------------------------------------------------
(* Snapshots: only the flight in `flight` is at work; a session that nobody
   abandoned is that of the map, and one that a flight started for itself the
   flight has yet to stop. *)

\* The steps of a flight.
AtWork == {"read", "start", "first", "restart", "again", "stop", "return"}

SessionsOK ==
  /\ inMap \in Starters \cup {Empty, None} /\ open \subseteq Starters /\ abandoned \subseteq open
  /\ hooks \in Nat
  /\ \A o \in open \ abandoned : inMap = o

FlightsOK ==
  /\ \A t \in Callers : task[t].pc \in AtWork => flight = t
  /\ \A c \in Callers : caller[c] \in {"new", "joins"} => task[c].pc = "none"
  /\ \A t \in Callers : task[t].pc \in {"none", "read", "start"} => t \notin open
  /\ \A t \in Callers : task[t].pc = "restart" => ~task[t].temporary
  /\ \A t \in Callers \cap (open \ abandoned) :
       task[t].temporary => task[t].pc \in {"first", "again", "stop"}

SnapInv == SnapTypeOK /\ SessionsOK /\ FlightsOK

\* No call has come, and nothing is on.
LEMMA SnapStarts == SnapInit => SnapInv
<1> USE SnapAssumption DEF SnapInit
<1>1. SnapInit => SnapTypeOK
  <2> SUFFICES ASSUME SnapInit PROVE SnapTypeOK
    OBVIOUS
  <2>1. task \in [Callers -> [pc : {"none", "read", "start", "first", "restart", "again", "stop",
                                 "return", "over"}, temporary : BOOLEAN]]
    OBVIOUS
  <2>2. caller \in [Callers -> {"new", "joins", "waits", "over"}]
    OBVIOUS
  <2>3. viewer \in [Viewers -> {"new", "missing", "watching", "over"}]
    OBVIOUS
  <2>4. inMap \in Starters \cup {Empty, None} /\ open \subseteq Starters /\ abandoned \subseteq open
    OBVIOUS
  <2>5. playing \in BOOLEAN /\ hooks \in Nat /\ flight \in Callers \cup {None}
    OBVIOUS
  <2> QED
    BY <2>1, <2>2, <2>3, <2>4, <2>5 DEF SnapTypeOK
<1> QED
  BY <1>1 DEF SnapInv, SessionsOK, FlightsOK, SnapTypeOK, AtWork

\* What stopPlay does to the sessions: none is left that is not abandoned.
LEMMA SessionStops ==
  ASSUME SessionsOK, NEW n \in Nat, StopsFound(n)
  PROVE  SessionsOK' /\ open' \subseteq open /\ open' \ abandoned' = {}
<1>1. PICK bye \in SUBSET Found :
        /\ inMap' = None /\ open' = open \ bye /\ abandoned' = (abandoned \cup Found) \ bye
        /\ hooks' = HooksAfter(n, bye)
  BY DEF StopsFound
<1>2. \A o \in open \ abandoned : o \in Found
  BY DEF SessionsOK, Found
<1>3. Found \subseteq open /\ hooks' \in Nat
  BY <1>1 DEF Found, HooksAfter
<1> QED
  BY <1>1, <1>2, <1>3 DEF SessionsOK

\* What Play does to them: none is left but its own.
LEMMA SessionTurns ==
  ASSUME SessionsOK, NEW who \in Starters,
         NEW outcome \in {"answered", "unanswered", "unacknowledged"}, PlayTurns(who, outcome)
  PROVE  /\ SessionsOK' /\ open' \subseteq open \cup {who} /\ open' \ abandoned' \subseteq {who}
         /\ outcome = "unanswered" => open' \subseteq open
         /\ outcome = "unacknowledged" => who \in abandoned'
<1> DEFINE new == IF outcome = "unanswered" THEN {} ELSE {who}
           held == inMap = None /\ outcome = "answered"
<1>1. PICK bye \in SUBSET Found :
        /\ inMap' = (IF inMap # None THEN None ELSE IF new = {} THEN Empty ELSE who)
        /\ open' = (open \ bye) \cup new
        /\ abandoned' = ((abandoned \cup Found) \ bye) \cup (IF held THEN {} ELSE new)
        /\ hooks' = HooksAfter(hooks, bye)
  BY DEF PlayTurns
<1>2. \A o \in open \ abandoned : o \in Found
  BY DEF SessionsOK, Found
<1>3. Found \subseteq open /\ hooks' \in Nat
  BY <1>1 DEF Found, HooksAfter, SessionsOK
<1>4. new \subseteq {who} /\ (held => new = {who} /\ inMap' = who)
  BY <1>1
<1>5. /\ open' \subseteq open \cup {who} /\ abandoned' \subseteq open'
      /\ open' \ abandoned' \subseteq {who} /\ (~held => open' \ abandoned' = {})
  BY <1>1, <1>2, <1>3, <1>4 DEF SessionsOK
<1>6. inMap' \in Starters \cup {Empty, None} /\ open' \subseteq Starters
  BY <1>1, <1>5 DEF SessionsOK
<1>7. SessionsOK'
  BY <1>3, <1>4, <1>5, <1>6 DEF SessionsOK
<1> QED
  BY <1>1, <1>5, <1>7

\* A Play that fails leaves no session that is its own to stop.
LEMMA SessionFails ==
  ASSUME SessionsOK, NEW who \in Starters, PlayFails(who)
  PROVE  /\ SessionsOK' /\ open' \subseteq open \cup {who} /\ open' \ abandoned' \subseteq open \ abandoned
         /\ UNCHANGED playing
<1>1. CASE UNCHANGED sessionVars
  BY <1>1 DEF PlayFails, sessionVars, SessionsOK
<1>2. CASE PlayTurns(who, "unanswered")
  <2>1. SessionsOK' /\ open' \subseteq open /\ open' \ abandoned' \subseteq {who}
    BY <1>2, SessionTurns
  <2>2. open' \ abandoned' = {}
    <3>1. PICK bye \in SUBSET Found : open' = open \ bye /\ abandoned' = (abandoned \cup Found) \ bye
      BY <1>2 DEF PlayTurns
    <3>2. \A o \in open \ abandoned : o \in Found
      BY DEF SessionsOK, Found
    <3> QED
      BY <3>1, <3>2
  <2> QED
    BY <2>1, <2>2 DEF PlayFails
<1>3. CASE PlayTurns(who, "unacknowledged")
  <2>1. /\ SessionsOK' /\ open' \subseteq open \cup {who} /\ open' \ abandoned' \subseteq {who}
        /\ who \in abandoned'
    BY <1>3, SessionTurns
  <2> QED
    BY <2>1 DEF PlayFails
<1> QED
  BY <1>1, <1>2, <1>3 DEF PlayFails

\* Every step keeps the types.
LEMMA SnapTypeStep ==
  ASSUME SnapInv, SessionsOK', [SnapNext]_snapVars
  PROVE  SnapTypeOK'
<1> DEFINE Steps == {"none", "read", "start", "first", "restart", "again", "stop", "return", "over"}
<1>a. /\ inMap' \in Starters \cup {Empty, None} /\ open' \subseteq Starters
      /\ abandoned' \subseteq open' /\ hooks' \in Nat
  BY DEF SessionsOK
<1>b. /\ task \in [Callers -> [pc : Steps, temporary : BOOLEAN]] /\ playing \in BOOLEAN
      /\ caller \in [Callers -> {"new", "joins", "waits", "over"}]
      /\ viewer \in [Viewers -> {"new", "missing", "watching", "over"}]
      /\ flight \in Callers \cup {None}
  BY DEF SnapInv, SnapTypeOK
<1>1. playing' \in BOOLEAN
  BY <1>b DEF SnapNext, snapVars, sessionVars, AnswersAtOnce, AsksDevice, JoinFlight, Leave, ReadRow,
     ReadFails, StartStream, StartStreamFails, Capture, CaptureFails, GiveUp, StopStream, FlightEnds,
     OnPlay, OnStreamNotFound, StopsWatching, OnStreamNoneReader, OnStreamGone, Plays, PlayFails, Marks
<1>2. task' \in [Callers -> [pc : Steps, temporary : BOOLEAN]]
  <2> DEFINE Tasks == [pc : Steps, temporary : BOOLEAN]
  <2>1. task \in [Callers -> Tasks]
    BY <1>b
  <2>2. \A x \in Tasks, pc \in Steps, b \in BOOLEAN :
          [x EXCEPT !.pc = pc] \in Tasks /\ [[x EXCEPT !.temporary = b] EXCEPT !.pc = pc] \in Tasks
    OBVIOUS
  <2>3. \A t \in Callers : task[t] \in Tasks
    BY <2>1
  <2>4. \A t \in Callers, x \in Tasks : [task EXCEPT ![t] = x] \in [Callers -> Tasks]
    BY <2>1
  <2> HIDE DEF Tasks
  <2>5. ASSUME NEW c \in Callers, JoinFlight(c) \/ ReadFails(c) \/ StartStream(c)
                 \/ StartStreamFails(c) \/ Capture(c) \/ CaptureFails(c) \/ GiveUp(c)
                 \/ StopStream(c) \/ FlightEnds(c)
        PROVE  task' \in [Callers -> Tasks]
    <3>1. task' = task \/ \E pc \in Steps : task' = [task EXCEPT ![c].pc = pc]
      BY <2>5 DEF JoinFlight, ReadFails, StartStream, StartStreamFails, Capture, CaptureFails,
         GiveUp, StopStream, FlightEnds, Proceeds, WayOut
    <3>2. ASSUME NEW pc \in Steps, task' = [task EXCEPT ![c].pc = pc]
          PROVE  task' \in [Callers -> Tasks]
      <4>1. task' = [task EXCEPT ![c] = [task[c] EXCEPT !.pc = pc]]
        BY <3>2
      <4>2. [task[c] EXCEPT !.pc = pc] \in Tasks
        BY <2>2, <2>3
      <4> QED
        BY <4>1, <4>2, <2>4
    <3> QED
      BY <3>1, <3>2, <2>1
  <2>6. ASSUME NEW c \in Callers, ReadRow(c) PROVE task' \in [Callers -> Tasks]
    <3>1. PICK pc \in Steps, b \in BOOLEAN :
            task' = [task EXCEPT ![c] = [[task[c] EXCEPT !.temporary = b] EXCEPT !.pc = pc]]
      <4>1. CASE playing = TRUE
        BY <4>1, <2>6 DEF ReadRow
      <4>2. CASE playing = FALSE
        BY <4>2, <2>6 DEF ReadRow
      <4> QED
        BY <4>1, <4>2, <1>b
    <3>2. [[task[c] EXCEPT !.temporary = b] EXCEPT !.pc = pc] \in Tasks
      BY <2>2, <2>3
    <3> QED
      BY <3>1, <3>2, <2>4
  <2>7. UNCHANGED task => task' \in [Callers -> Tasks]
    BY <2>1
  <2>8. task' \in [Callers -> Tasks]
    BY <2>5, <2>6, <2>7 DEF SnapNext, snapVars, AnswersAtOnce, AsksDevice, Leave, OnPlay,
       OnStreamNotFound, StopsWatching, OnStreamNoneReader, OnStreamGone
  <2> QED
    BY <2>8 DEF Tasks
<1>3. caller' \in [Callers -> {"new", "joins", "waits", "over"}]
  BY <1>b DEF SnapNext, snapVars, AnswersAtOnce, AsksDevice, AwaitCover, JoinFlight, Leave, ReadRow,
     ReadFails, StartStream, StartStreamFails, Capture, CaptureFails, GiveUp, StopStream, FlightEnds,
     OnPlay, OnStreamNotFound, StopsWatching, OnStreamNoneReader, OnStreamGone, CallerTo
<1>4. viewer' \in [Viewers -> {"new", "missing", "watching", "over"}]
  BY <1>b DEF SnapNext, snapVars, AnswersAtOnce, AsksDevice, JoinFlight, Leave, ReadRow,
     ReadFails, StartStream, StartStreamFails, Capture, CaptureFails, GiveUp, StopStream, FlightEnds,
     OnPlay, OnStreamNotFound, StopsWatching, OnStreamNoneReader, OnStreamGone
<1>5. flight' \in Callers \cup {None}
  BY <1>b DEF SnapNext, snapVars, AnswersAtOnce, AsksDevice, JoinFlight, Leave, AfterLeaving, ReadRow,
     ReadFails, StartStream, StartStreamFails, Capture, CaptureFails, GiveUp, StopStream, FlightEnds,
     OnPlay, OnStreamNotFound, StopsWatching, OnStreamNoneReader, OnStreamGone
<1> QED
  BY <1>a, <1>1, <1>2, <1>3, <1>4, <1>5 DEF SnapTypeOK

\* What a step does to the sessions matters to a flight only where one becomes its own.
LEMMA FlightsStay ==
  ASSUME SnapInv, UNCHANGED <<flight, task, caller>>,
         open' \cap Callers \subseteq open, Callers \cap (open' \ abandoned') \subseteq open \ abandoned
  PROVE  FlightsOK'
BY DEF SnapInv, FlightsOK

\* Every step keeps what is known of the sessions and of the flights.
LEMMA FlightsStep == SnapInv /\ [SnapNext]_snapVars => SessionsOK' /\ FlightsOK'
<1> SUFFICES ASSUME SnapInv, [SnapNext]_snapVars PROVE SessionsOK' /\ FlightsOK'
  OBVIOUS
<1>a. /\ task \in [Callers -> [pc : {"none", "read", "start", "first", "restart", "again", "stop",
                                     "return", "over"}, temporary : BOOLEAN]]
      /\ caller \in [Callers -> {"new", "joins", "waits", "over"}]
      /\ flight \in Callers \cup {None} /\ SessionsOK /\ FlightsOK
  BY DEF SnapInv, SnapTypeOK
<1>b. Callers \subseteq Starters /\ Viewers \subseteq Starters /\ Callers \cap Viewers = {}
      /\ None \notin Callers
  BY SnapAssumption DEF Starters
<1>c. UNCHANGED sessionVars => SessionsOK' /\ open' = open /\ abandoned' = abandoned
  BY <1>a DEF sessionVars, SessionsOK
<1>1. ASSUME NEW c \in Callers, AnswersAtOnce(c) \/ AsksDevice(c)
      PROVE  SessionsOK' /\ FlightsOK'
  <2>1. /\ caller[c] = "new" /\ UNCHANGED <<flight, task>> /\ UNCHANGED sessionVars
        /\ \A d \in Callers : caller'[d] \in {"new", "joins"} => caller[d] \in {"new", "joins"}
    BY <1>1, <1>a DEF AnswersAtOnce, AsksDevice, CallerTo
  <2> QED
    BY <2>1, <1>a, <1>c DEF FlightsOK
<1>2. ASSUME NEW c \in Callers, JoinFlight(c) PROVE SessionsOK' /\ FlightsOK'
  <2>1. caller[c] = "joins" /\ caller' = [caller EXCEPT ![c] = "waits"] /\ UNCHANGED sessionVars
    BY <1>2 DEF JoinFlight, CallerTo
  <2>2. CASE flight = None
    <3>1. flight' = c /\ task' = [task EXCEPT ![c].pc = "read"]
      BY <1>2, <2>2 DEF JoinFlight
    <3>2. \A t \in Callers : task[t].pc \notin AtWork
      BY <2>2, <1>a, <1>b DEF FlightsOK
    <3>3. task[c].pc = "none" /\ c \notin open
      BY <2>1, <1>a DEF FlightsOK
    <3> QED
      BY <2>1, <3>1, <3>2, <3>3, <1>a, <1>c DEF FlightsOK, AtWork
  <2>3. CASE flight # None
    <3>1. UNCHANGED <<flight, task>>
      BY <1>2, <2>3 DEF JoinFlight
    <3> QED
      BY <2>1, <3>1, <1>a, <1>c DEF FlightsOK
  <2> QED
    BY <2>2, <2>3
<1>3. ASSUME NEW c \in Callers, Leave(c) PROVE SessionsOK' /\ FlightsOK'
  BY <1>3, <1>a, <1>c DEF Leave, AfterLeaving, CallerTo, FlightsOK
<1>4. ASSUME NEW t \in Callers, ReadRow(t) \/ ReadFails(t) PROVE SessionsOK' /\ FlightsOK'
  BY <1>4, <1>a, <1>c DEF ReadRow, ReadFails, TaskAt, Proceeds, FlightsOK, AtWork
<1>5. ASSUME NEW t \in Callers, StartStream(t) PROVE SessionsOK' /\ FlightsOK'
  <2>1. SessionsOK' /\ open' \subseteq open \cup {t} /\ open' \ abandoned' \subseteq {t}
    BY <1>5, <1>a, <1>b, SessionTurns DEF StartStream, Plays
  <2>2. /\ task[t].pc \in {"start", "restart"} /\ UNCHANGED <<flight, caller>>
        /\ task' = [task EXCEPT ![t].pc = IF task[t].pc = "start" THEN "first" ELSE "again"]
    BY <1>5 DEF StartStream, TaskAt, Proceeds
  <2> QED
    BY <2>1, <2>2, <1>a DEF FlightsOK, AtWork
<1>6. ASSUME NEW t \in Callers, StartStreamFails(t) PROVE SessionsOK' /\ FlightsOK'
  <2>1. /\ SessionsOK' /\ open' \subseteq open \cup {t}
        /\ open' \ abandoned' \subseteq open \ abandoned
    BY <1>6, <1>a, <1>b, SessionFails DEF StartStreamFails
  <2>2. /\ task[t].pc \in {"start", "restart"} /\ UNCHANGED <<flight, caller>>
        /\ task' = [task EXCEPT ![t].pc = "return"]
    BY <1>6 DEF StartStreamFails, TaskAt, Proceeds
  <2> QED
    BY <2>1, <2>2, <1>a DEF FlightsOK, AtWork
<1>7. ASSUME NEW t \in Callers, Capture(t) \/ CaptureFails(t) \/ GiveUp(t)
      PROVE  SessionsOK' /\ FlightsOK'
  BY <1>7, <1>a, <1>c DEF Capture, CaptureFails, GiveUp, WayOut, TaskAt, Proceeds, FlightsOK, AtWork
<1>8. ASSUME NEW t \in Callers, StopStream(t) PROVE SessionsOK' /\ FlightsOK'
  <2>1. /\ task[t].pc = "stop" /\ task' = [task EXCEPT ![t].pc = "return"]
        /\ UNCHANGED <<flight, caller>>
    BY <1>8 DEF StopStream, TaskAt, Proceeds
  <2>2. /\ SessionsOK' /\ open' \subseteq open /\ t \notin open' \ abandoned'
        /\ open' \ abandoned' \subseteq open \ abandoned
    <3>1. CASE StopsFound(hooks)
      BY <3>1, <1>a, SessionStops DEF SessionsOK
    <3>2. CASE abandoned' = abandoned \cup ({t} \cap open) /\ UNCHANGED <<inMap, open, hooks, playing>>
      BY <3>2, <1>a DEF SessionsOK
    <3> QED
      BY <1>8, <3>1, <3>2 DEF StopStream
  <2> QED
    BY <2>1, <2>2, <1>a DEF FlightsOK, AtWork
<1>9. ASSUME NEW t \in Callers, FlightEnds(t) PROVE SessionsOK' /\ FlightsOK'
  BY <1>9, <1>a, <1>c DEF FlightEnds, TaskAt, Proceeds, FlightsOK, AtWork
<1>10. ASSUME NEW v \in Viewers, OnPlay(v) \/ StopsWatching(v) PROVE SessionsOK' /\ FlightsOK'
  BY <1>10, <1>c, FlightsStay DEF OnPlay, StopsWatching
<1>11. ASSUME NEW v \in Viewers, OnStreamNotFound(v) PROVE SessionsOK' /\ FlightsOK'
  <2>1. UNCHANGED <<flight, task, caller>>
    BY <1>11 DEF OnStreamNotFound
  <2>2. CASE Plays(v)
    <3>1. SessionsOK' /\ open' \subseteq open \cup {v} /\ open' \ abandoned' \subseteq {v}
      BY <2>2, <1>a, <1>b, SessionTurns DEF Plays
    <3> QED
      BY <2>1, <3>1, <1>b, FlightsStay
  <2>3. CASE PlayFails(v)
    <3>1. /\ SessionsOK' /\ open' \subseteq open \cup {v}
          /\ open' \ abandoned' \subseteq open \ abandoned
      BY <2>3, <1>a, <1>b, SessionFails
    <3> QED
      BY <2>1, <3>1, <1>b, FlightsStay
  <2> QED
    BY <1>11, <2>2, <2>3 DEF OnStreamNotFound
<1>12. CASE OnStreamNoneReader
  <2>1. SessionsOK' /\ UNCHANGED <<open, abandoned, flight, task, caller>>
    BY <1>12, <1>a DEF OnStreamNoneReader, SessionsOK
  <2> QED
    BY <2>1, FlightsStay
<1>13. CASE OnStreamGone
  <2>1. UNCHANGED <<flight, task, caller>> /\ hooks - 1 \in Nat
    BY <1>13, <1>a DEF OnStreamGone, SessionsOK
  <2>2. SessionsOK' /\ open' \subseteq open /\ open' \ abandoned' \subseteq open \ abandoned
    <3>1. CASE StopsFound(hooks - 1)
      BY <3>1, <2>1, <1>a, SessionStops
    <3>2. CASE hooks' = hooks - 1 /\ UNCHANGED <<inMap, open, abandoned>>
      BY <3>2, <2>1, <1>a DEF SessionsOK
    <3> QED
      BY <1>13, <3>1, <3>2 DEF OnStreamGone
  <2> QED
    BY <2>1, <2>2, FlightsStay
<1>14. CASE UNCHANGED snapVars
  BY <1>14, <1>c, FlightsStay DEF snapVars
<1> QED
  BY <1>1, <1>2, <1>3, <1>4, <1>5, <1>6, <1>7, <1>8, <1>9, <1>10, <1>11, <1>12, <1>13, <1>14
  DEF SnapNext

\* Every step keeps the invariant of the pictures.
LEMMA SnapStep == SnapInv /\ [SnapNext]_snapVars => SnapInv'
BY FlightsStep, SnapTypeStep DEF SnapInv

\* The invariant of the pictures holds in every state.
LEMMA SnapInvHolds == SnapSpec => []SnapInv
BY SnapStarts, SnapStep, PTL DEF SnapSpec

\* A session that a flight started for its picture, and that was not abandoned, is
\* that of the flight at work (refreshGBSnapshotByLiveStream, DoChan, Play,
\* StopPlay), for any number of calls and viewers.
THEOREM FlightStops == SnapSpec => []SnapStreamOfFlight
<1>1. SnapInv => SnapStreamOfFlight
  BY DEF SnapInv, FlightsOK, AtWork, SnapStreamOfFlight
<1> QED
  BY <1>1, SnapInvHolds, PTL

----------------------------------------------------------------------------
(* RetentionCleanup: a batch is read first; the invariant says what
   stays right of it until its rows go. *)

CleanTables ==
  /\ table \in {"recordings", "events"} /\ cutoff \in 0..MaxClock
  /\ rows \subseteq tried /\ tried \subseteq Rows
  /\ pass \in [pc : {"rest", "find", "remove", "oldest"}, cut : 0..MaxClock, full : BOOLEAN,
               batch : SUBSET tried, todo : SUBSET tried, freed : Nat, begun : SUBSET rows]

\* A batch holds expired rows, or the oldest of those that were there.
BatchInv ==
  /\ pass.todo \subseteq pass.batch
  /\ pass.pc # "remove" => pass.batch = {}
  /\ pass.pc \in {"find", "oldest"} => (pass.full <=> pass.pc = "oldest")
  /\ \A r \in pass.batch :
       IF pass.full THEN \A o \in pass.begun \ pass.batch : StartOf[r] <= StartOf[o]
       ELSE StartOf[r] < pass.cut

\* A row whose file was tried is left without a file, unless that file is excused.
FilesInv ==
  /\ CleanNoOrphans
  /\ \A r \in pass.batch \ pass.todo : FileOf(r) \in files => FileOf(r) \in excused

CleanInv == CleanTables /\ BatchInv /\ FilesInv

\* Nothing is stored, and the cleanup rests.
LEMMA CleanStarts == CleanInit => CleanInv
BY RetentionAssumption
DEF CleanInit, CleanInv, CleanTables, BatchInv, FilesInv, CleanNoOrphans, Resting

\* What follows a batch.
LEMMA AfterBatchIs ==
  \A p \in AfterBatch :
    \/ p = Resting
    \/ p = [pass EXCEPT !.pc = "oldest", !.batch = {}] /\ pass.full
    \/ p = [pass EXCEPT !.pc = "find", !.batch = {}] /\ ~pass.full
BY DEF AfterBatch

\* A pass that is over has nothing to forget.
LEMMA RestingBegun == \A S : [Resting EXCEPT !.begun = @ \ S] = Resting
BY DEF Resting

\* What the pass is after the steps that choose between several ways on.
LEMMA PassAfter ==
  /\ ExpiredDone => pass' = Resting \/ pass' = [pass EXCEPT !.pc = "oldest", !.full = TRUE]
  /\ DeleteRows =>
       \/ pass' = Resting
       \/ pass' = [pass EXCEPT !.pc = "oldest", !.batch = {}, !.begun = @ \ pass.batch]
            /\ pass.full
       \/ pass' = [pass EXCEPT !.pc = "find", !.batch = {}, !.begun = @ \ pass.batch]
            /\ ~pass.full
  /\ DeleteFails =>
       \/ pass' = Resting
       \/ pass' = [pass EXCEPT !.pc = "oldest", !.batch = {}] /\ pass.full
       \/ pass' = [pass EXCEPT !.pc = "find", !.batch = {}] /\ ~pass.full
<1>1. ExpiredDone => pass' = Resting \/ pass' = [pass EXCEPT !.pc = "oldest", !.full = TRUE]
  BY DEF ExpiredDone
<1>2. DeleteRows =>
       \/ pass' = Resting
       \/ pass' = [pass EXCEPT !.pc = "oldest", !.batch = {}, !.begun = @ \ pass.batch]
            /\ pass.full
       \/ pass' = [pass EXCEPT !.pc = "find", !.batch = {}, !.begun = @ \ pass.batch]
            /\ ~pass.full
  <2> SUFFICES ASSUME NEW p \in AfterBatch, pass' = [p EXCEPT !.begun = @ \ pass.batch]
               PROVE \/ pass' = Resting
                     \/ pass' = [pass EXCEPT !.pc = "oldest", !.batch = {}, !.begun = @ \ pass.batch]
                          /\ pass.full
                     \/ pass' = [pass EXCEPT !.pc = "find", !.batch = {}, !.begun = @ \ pass.batch]
                          /\ ~pass.full
    BY DEF DeleteRows
  <2>1. CASE p = Resting
    BY <2>1, RestingBegun
  <2>2. CASE p = [pass EXCEPT !.pc = "oldest", !.batch = {}] /\ pass.full
    BY <2>2
  <2>3. CASE p = [pass EXCEPT !.pc = "find", !.batch = {}] /\ ~pass.full
    BY <2>3
  <2> QED
    BY <2>1, <2>2, <2>3, AfterBatchIs
<1>3. DeleteFails =>
       \/ pass' = Resting
       \/ pass' = [pass EXCEPT !.pc = "oldest", !.batch = {}] /\ pass.full
       \/ pass' = [pass EXCEPT !.pc = "find", !.batch = {}] /\ ~pass.full
  BY AfterBatchIs DEF DeleteFails
<1> QED
  BY <1>1, <1>2, <1>3

\* Every step keeps the types of the table and of the pass.
LEMMA CleanTablesStep == CleanTables /\ [CleanNext]_cleanVars => CleanTables'
<1> SUFFICES ASSUME CleanTables, [CleanNext]_cleanVars PROVE CleanTables'
  OBVIOUS
<1> USE RetentionAssumption DEF CleanTables
<1>1. ASSUME NEW r \in Rows, WriteFile(r) PROVE CleanTables'
  BY <1>1 DEF WriteFile
<1>2. ASSUME NEW r \in Rows, AddRow(r) PROVE CleanTables'
  BY <1>2 DEF AddRow, Inserted
<1>3. ASSUME NEW r \in Rows, DeleteByUser(r) PROVE CleanTables'
  BY <1>3 DEF DeleteByUser
<1>4. CASE PassBegins
  BY <1>4 DEF PassBegins, rowVars, Resting
<1>5. CASE ExpiredDone
  <2>1. CASE pass' = Resting
    BY <1>5, <2>1 DEF ExpiredDone, rowVars, Resting
  <2>2. CASE pass' = [pass EXCEPT !.pc = "oldest", !.full = TRUE]
    BY <1>5, <2>2 DEF ExpiredDone, rowVars
  <2> QED
    BY <1>5, PassAfter, <2>1, <2>2
<1>6. ASSUME NEW r \in Rows, RemoveFile(r) PROVE CleanTables'
  <2>3. Freed \in Nat
    BY DEF Freed
  <2>1. CASE pass' = [pass EXCEPT !.todo = @ \ {r}, !.freed = Freed] /\ files' = files \ {FileOf(r)}
            /\ excused' = excused \ {FileOf(r)}
    BY <1>6, <2>1, <2>3 DEF RemoveFile
  <2>2. CASE pass' = [pass EXCEPT !.todo = @ \ {r}] /\ excused' = Excuse(r) /\ files' = files
    BY <1>6, <2>2 DEF RemoveFile, Excuse
  <2> QED
    BY <1>6, <2>1, <2>2 DEF RemoveFile
<1>7. CASE DeleteRows
  <2>1. CASE pass' = Resting
    BY <1>7, <2>1 DEF DeleteRows, FilesGone, Resting
  <2>2. CASE pass' = [pass EXCEPT !.pc = "oldest", !.batch = {}, !.begun = @ \ pass.batch]
              /\ pass.full
    BY <1>7, <2>2 DEF DeleteRows, FilesGone
  <2>3. CASE pass' = [pass EXCEPT !.pc = "find", !.batch = {}, !.begun = @ \ pass.batch]
              /\ ~pass.full
    BY <1>7, <2>3 DEF DeleteRows, FilesGone
  <2> QED
    BY <1>7, PassAfter, <2>1, <2>2, <2>3
<1>8. CASE DeleteFails
  <2>1. CASE pass' = Resting
    BY <1>8, <2>1 DEF DeleteFails, rowVars, FilesGone, Resting
  <2>2. CASE pass' = [pass EXCEPT !.pc = "oldest", !.batch = {}] /\ pass.full
    BY <1>8, <2>2 DEF DeleteFails, rowVars, FilesGone
  <2>3. CASE pass' = [pass EXCEPT !.pc = "find", !.batch = {}] /\ ~pass.full
    BY <1>8, <2>3 DEF DeleteFails, rowVars, FilesGone
  <2> QED
    BY <1>8, PassAfter, <2>1, <2>2, <2>3
<1>9. CASE OldestDone
  BY <1>9 DEF OldestDone, Resting, rowVars
<1>10. CASE FindExpired
  BY <1>10 DEF FindExpired, ExpiredRows, BatchesOf, Take, rowVars
<1>11. CASE FindOldest
  BY <1>11 DEF FindOldest, BatchesOf, Take, rowVars
<1>12. CASE CrashPass
  BY <1>12 DEF CrashPass, Resting, rowVars
<1>13. CASE DayPasses
  BY <1>13 DEF DayPasses, rowVars
<1>14. CASE UNCHANGED cleanVars
  BY <1>14 DEF cleanVars, rowVars
<1> QED
  BY <1>1, <1>2, <1>3, <1>4, <1>5, <1>6, <1>7, <1>8, <1>9, <1>10, <1>11, <1>12, <1>13, <1>14
  DEF CleanNext, Clean

\* Every step keeps what a batch is: expired rows, or the oldest that were there.
LEMMA BatchStep == CleanInv /\ [CleanNext]_cleanVars => BatchInv'
<1> SUFFICES ASSUME CleanInv, [CleanNext]_cleanVars PROVE BatchInv'
  OBVIOUS
<1> USE RetentionAssumption DEF CleanInv, CleanTables, BatchInv
<1>1. ASSUME NEW r \in Rows, WriteFile(r) PROVE BatchInv'
  BY <1>1 DEF WriteFile
<1>2. ASSUME NEW r \in Rows, AddRow(r) PROVE BatchInv'
  BY <1>2 DEF AddRow, Inserted
<1>3. ASSUME NEW r \in Rows, DeleteByUser(r) PROVE BatchInv'
  BY <1>3 DEF DeleteByUser
<1>4. CASE PassBegins
  BY <1>4 DEF PassBegins, rowVars, Resting
<1>5. CASE ExpiredDone
  <2>1. CASE pass' = Resting
    BY <1>5, <2>1 DEF ExpiredDone, rowVars, Resting
  <2>2. CASE pass' = [pass EXCEPT !.pc = "oldest", !.full = TRUE]
    BY <1>5, <2>2 DEF ExpiredDone, rowVars
  <2> QED
    BY <1>5, PassAfter, <2>1, <2>2
<1>6. ASSUME NEW r \in Rows, RemoveFile(r) PROVE BatchInv'
  <2>1. CASE pass' = [pass EXCEPT !.todo = @ \ {r}, !.freed = Freed] /\ files' = files \ {FileOf(r)}
            /\ excused' = excused \ {FileOf(r)}
    BY <1>6, <2>1 DEF RemoveFile
  <2>2. CASE pass' = [pass EXCEPT !.todo = @ \ {r}] /\ excused' = Excuse(r) /\ files' = files
    BY <1>6, <2>2 DEF RemoveFile, Excuse
  <2> QED
    BY <1>6, <2>1, <2>2 DEF RemoveFile
<1>7. CASE DeleteRows
  <2>1. CASE pass' = Resting
    BY <1>7, <2>1 DEF DeleteRows, FilesGone, Resting
  <2>2. CASE pass' = [pass EXCEPT !.pc = "oldest", !.batch = {}, !.begun = @ \ pass.batch]
              /\ pass.full
    BY <1>7, <2>2 DEF DeleteRows, FilesGone
  <2>3. CASE pass' = [pass EXCEPT !.pc = "find", !.batch = {}, !.begun = @ \ pass.batch]
              /\ ~pass.full
    BY <1>7, <2>3 DEF DeleteRows, FilesGone
  <2> QED
    BY <1>7, PassAfter, <2>1, <2>2, <2>3
<1>8. CASE DeleteFails
  <2>1. CASE pass' = Resting
    BY <1>8, <2>1 DEF DeleteFails, rowVars, FilesGone, Resting
  <2>2. CASE pass' = [pass EXCEPT !.pc = "oldest", !.batch = {}] /\ pass.full
    BY <1>8, <2>2 DEF DeleteFails, rowVars, FilesGone
  <2>3. CASE pass' = [pass EXCEPT !.pc = "find", !.batch = {}] /\ ~pass.full
    BY <1>8, <2>3 DEF DeleteFails, rowVars, FilesGone
  <2> QED
    BY <1>8, PassAfter, <2>1, <2>2, <2>3
<1>9. CASE OldestDone
  BY <1>9 DEF OldestDone, Resting, rowVars
<1>10. CASE FindExpired
  <2> PICK b \in BatchesOf(ExpiredRows) : pass' = Take(b)
    BY <1>10 DEF FindExpired
  <2>1. pass.batch = {} /\ b \subseteq rows /\ \A r \in b : StartOf[r] < pass.cut
    BY <1>10 DEF FindExpired, BatchesOf, ExpiredRows
  <2>2. rows' = rows /\ ~pass.full
    BY <1>10 DEF FindExpired, rowVars
  <2> QED
    BY <2>1, <2>2 DEF Take
<1>11. CASE FindOldest
  <2> PICK b \in BatchesOf(rows) : Oldest(b) /\ pass' = Take(b)
    BY <1>11 DEF FindOldest
  <2>1. b \subseteq rows /\ rows' = rows
    BY <1>11 DEF BatchesOf, FindOldest, rowVars
  <2>2. pass.full
    BY <1>11 DEF FindOldest
  <2> QED
    BY <2>1, <2>2 DEF Take, Oldest
<1>12. CASE CrashPass
  BY <1>12 DEF CrashPass, Resting, rowVars
<1>13. CASE DayPasses
  BY <1>13 DEF DayPasses, rowVars
<1>14. CASE UNCHANGED cleanVars
  BY <1>14 DEF cleanVars, rowVars
<1> QED
  BY <1>1, <1>2, <1>3, <1>4, <1>5, <1>6, <1>7, <1>8, <1>9, <1>10, <1>11, <1>12, <1>13, <1>14
  DEF CleanNext, Clean

\* Every step keeps files and rows together: a row goes only after its file.
LEMMA FilesStep == CleanInv /\ [CleanNext]_cleanVars => FilesInv'
<1> SUFFICES ASSUME CleanInv, [CleanNext]_cleanVars PROVE FilesInv'
  OBVIOUS
<1>0. table' = table
  BY DEF CleanNext, Clean, WriteFile, AddRow, Inserted, DeleteByUser, PassBegins, ExpiredDone, RemoveFile,
    DeleteRows, DeleteFails, OldestDone, FindExpired, FindOldest, CrashPass, DayPasses, cleanVars
<1>f. \A r : FileOf(r)' = FileOf(r)
  BY <1>0 DEF FileOf
<1> USE <1>f DEF CleanInv, CleanTables, BatchInv, FilesInv, CleanNoOrphans, RowsOf
<1>1. ASSUME NEW r \in Rows, WriteFile(r) PROVE FilesInv'
  BY <1>1 DEF WriteFile
<1>2. ASSUME NEW r \in Rows, AddRow(r) PROVE FilesInv'
  BY <1>2 DEF AddRow, Inserted, Excuse
<1>3. ASSUME NEW r \in Rows, DeleteByUser(r) PROVE FilesInv'
  BY <1>3 DEF DeleteByUser, Excuse
<1>4. CASE PassBegins
  BY <1>4 DEF PassBegins, rowVars, Resting
<1>5. CASE ExpiredDone
  <2>1. CASE pass' = Resting
    BY <1>5, <2>1 DEF ExpiredDone, rowVars, Resting
  <2>2. CASE pass' = [pass EXCEPT !.pc = "oldest", !.full = TRUE]
    BY <1>5, <2>2 DEF ExpiredDone, rowVars
  <2> QED
    BY <1>5, PassAfter, <2>1, <2>2
<1>6. ASSUME NEW r \in Rows, RemoveFile(r) PROVE FilesInv'
  <2>1. CASE pass' = [pass EXCEPT !.todo = @ \ {r}, !.freed = Freed] /\ files' = files \ {FileOf(r)}
            /\ excused' = excused \ {FileOf(r)}
    BY <1>6, <2>1 DEF RemoveFile
  <2>2. CASE pass' = [pass EXCEPT !.todo = @ \ {r}] /\ excused' = Excuse(r) /\ files' = files
    BY <1>6, <2>2 DEF RemoveFile, Excuse
  <2> QED
    BY <1>6, <2>1, <2>2 DEF RemoveFile
<1>7. CASE DeleteRows
  <2>1. CASE pass' = Resting
    BY <1>7, <2>1 DEF DeleteRows, FilesGone, Resting
  <2>2. CASE pass' = [pass EXCEPT !.pc = "oldest", !.batch = {}, !.begun = @ \ pass.batch]
              /\ pass.full
    BY <1>7, <2>2 DEF DeleteRows, FilesGone
  <2>3. CASE pass' = [pass EXCEPT !.pc = "find", !.batch = {}, !.begun = @ \ pass.batch]
              /\ ~pass.full
    BY <1>7, <2>3 DEF DeleteRows, FilesGone
  <2> QED
    BY <1>7, PassAfter, <2>1, <2>2, <2>3
<1>8. CASE DeleteFails
  <2>1. CASE pass' = Resting
    BY <1>8, <2>1 DEF DeleteFails, rowVars, FilesGone, Resting
  <2>2. CASE pass' = [pass EXCEPT !.pc = "oldest", !.batch = {}] /\ pass.full
    BY <1>8, <2>2 DEF DeleteFails, rowVars, FilesGone
  <2>3. CASE pass' = [pass EXCEPT !.pc = "find", !.batch = {}] /\ ~pass.full
    BY <1>8, <2>3 DEF DeleteFails, rowVars, FilesGone
  <2> QED
    BY <1>8, PassAfter, <2>1, <2>2, <2>3
<1>9. CASE OldestDone
  BY <1>9 DEF OldestDone, Resting, rowVars
<1>10. CASE FindExpired
  BY <1>10 DEF FindExpired, ExpiredRows, BatchesOf, Take, rowVars
<1>11. CASE FindOldest
  BY <1>11 DEF FindOldest, BatchesOf, Take, rowVars, Oldest
<1>12. CASE CrashPass
  BY <1>12 DEF CrashPass, Resting, rowVars
<1>13. CASE DayPasses
  BY <1>13 DEF DayPasses, rowVars
<1>14. CASE UNCHANGED cleanVars
  BY <1>14 DEF cleanVars, rowVars
<1> QED
  BY <1>1, <1>2, <1>3, <1>4, <1>5, <1>6, <1>7, <1>8, <1>9, <1>10, <1>11, <1>12, <1>13, <1>14
  DEF CleanNext, Clean

\* The invariant of the cleanup holds in every state.
LEMMA CleanInvHolds == CleanSpec => []CleanInv
<1>1. CleanInv /\ [CleanNext]_cleanVars => CleanInv'
  BY CleanTablesStep, BatchStep, FilesStep DEF CleanInv
<1> QED
  BY <1>1, CleanStarts, PTL DEF CleanSpec

\* A file never outlives its rows, unless it is excused (batchDeleteRecordings,
\* cleanupExpiredEvents), for any rows, times, batch size and number of crashes.
THEOREM NoOrphans == CleanSpec => []CleanNoOrphans
<1>1. CleanInv => CleanNoOrphans
  BY DEF CleanInv, FilesInv
<1> QED
  BY <1>1, CleanInvHolds, PTL

\* What is not expired goes only when nothing older that was there when the pass
\* began is left outside its batch (cleanupByDiskUsage).
THEOREM OldestGoFirst == CleanSpec => CleanOldestFirst
<1>1. CleanInv => \A r \in (rows \ rows') \cap pass.batch :
       \/ StartOf[r] < pass.cut
       \/ \A o \in (rows' \cap pass.begun) \ pass.batch : StartOf[o] >= StartOf[r]
  <2> SUFFICES ASSUME CleanInv, NEW r \in pass.batch, pass.full,
                      NEW o \in pass.begun \ pass.batch
               PROVE StartOf[o] >= StartOf[r]
    BY DEF CleanInv, BatchInv
  <2>1. StartOf[r] <= StartOf[o]
    BY DEF CleanInv, BatchInv
  <2>2. StartOf[r] \in Nat /\ StartOf[o] \in Nat
    BY RetentionAssumption DEF CleanInv, CleanTables
  <2> QED
    BY <2>1, <2>2
<1> QED
  BY <1>1, CleanInvHolds, PTL DEF CleanOldestFirst

----------------------------------------------------------------------------
(* StreamSessions: a row that says online has somebody who will say
   offline, or somebody failed to; and since the stream began, as long as handlers
   did not overlap, the one at work knows what to do. *)

StreamTypes ==
  /\ shown \in BOOLEAN /\ recorded \in BOOLEAN /\ mode \in Modes
  /\ publisher \in [Publishers -> {"new", "asks", "orphan", "authorised", "live", "over"}]
  /\ begun \in [Publishers -> {"unsent", "sent", "start", "done"}]
  /\ ended \in [Publishers -> {"unsent", "sent", "offline", "done"}]
  /\ started \in BOOLEAN /\ astray \in BOOLEAN /\ crossed \in BOOLEAN
  /\ unwritten \in BOOLEAN /\ refused \in BOOLEAN
  /\ setter \in [ModeSetters -> [pc : {"new", "start", "stop", "done"}, mode : Modes]]

\* A row that says online still has a publisher, or a webhook that will say offline.
ShownInv ==
  shown /\ ~astray /\ ~unwritten =>
    \/ started
    \/ \E p \in Publishers : publisher[p] \in {"authorised", "live"} \/ Pending(ended[p])

\* At most one handler that starts or stops a recording is at work.
LoneHandler ==
  /\ \A p \in Publishers : ~Pending(ended[p])
  /\ \A p, q \in Publishers : Pending(begun[p]) /\ Pending(begun[q]) => p = q
  /\ \A c, d \in ModeSetters :
       setter[c].pc \in {"start", "stop"} /\ setter[d].pc \in {"start", "stop"} => c = d
  /\ \A p \in Publishers, c \in ModeSetters :
       Pending(begun[p]) => setter[c].pc \notin {"start", "stop"}

\* A handler at work finds the mode that it decided on.
HandlerKnows ==
  /\ \A p \in Publishers : begun[p] = "sent" => ~recorded
  /\ \A p \in Publishers : begun[p] = "start" => mode # "none"
  /\ \A c \in ModeSetters : setter[c].pc = "start" => mode # "none"
  /\ \A c \in ModeSetters : setter[c].pc = "stop" => mode = "none"

RecordInv ==
  /\ \A p, q \in Publishers : publisher[p] = "live" /\ publisher[q] = "live" => p = q
  /\ (\A p \in Publishers : publisher[p] # "live") => ~recorded
  /\ (\E p \in Publishers : publisher[p] = "live") /\ ~crossed =>
       /\ LoneHandler /\ HandlerKnows
       /\ (\A p \in Publishers : ~Pending(begun[p]))
          /\ (\A c \in ModeSetters : setter[c].pc \notin {"start", "stop"}) /\ ~refused
          => (recorded <=> mode # "none")

StreamInv == StreamTypes /\ ShownInv /\ RecordInv

\* No publisher has come, and the channel is offline.
LEMMA StreamStarts == StreamInit => StreamInv
<1> SUFFICES ASSUME StreamInit PROVE StreamInv
  OBVIOUS
<1>1. StreamTypes
  BY DEF StreamInit, StreamTypes, Modes
<1>2. ShownInv
  BY DEF StreamInit, ShownInv
<1>3. RecordInv
  BY DEF StreamInit, RecordInv
<1> QED
  BY <1>1, <1>2, <1>3 DEF StreamInv

\* The two sets of the recording, element by element.
LEMMA BusyIs ==
  ASSUME StreamTypes
  PROVE  /\ Busy = {} <=> /\ \A p \in Publishers : ~Pending(begun[p]) /\ ~Pending(ended[p])
                          /\ \A c \in ModeSetters : setter[c].pc \notin {"start", "stop"}
         /\ Live = {} <=> \A p \in Publishers : publisher[p] # "live"
BY DEF Busy, Live, StreamTypes

\* Every step keeps the types.
LEMMA StreamTypesStep == StreamTypes /\ [StreamNext]_streamVars => StreamTypes'
<1> SUFFICES ASSUME StreamTypes, [StreamNext]_streamVars PROVE StreamTypes'
  OBVIOUS
<1> USE DEF StreamTypes, Modes, Offline, TakesOffline
<1>1. ASSUME NEW p \in Publishers, Connects(p) PROVE StreamTypes'
  BY <1>1 DEF Connects
<1>2. ASSUME NEW p \in Publishers, Refuse(p) PROVE StreamTypes'
  BY <1>2 DEF Refuse
<1>3. ASSUME NEW p \in Publishers, Authorise(p) PROVE StreamTypes'
  BY <1>3 DEF Authorise
<1>4. ASSUME NEW p \in Publishers, Begins(p) PROVE StreamTypes'
  BY <1>4 DEF Begins
<1>5. ASSUME NEW p \in Publishers, TurnedAway(p) PROVE StreamTypes'
  BY <1>5 DEF TurnedAway, Live
<1>6. ASSUME NEW p \in Publishers, Vanishes(p) PROVE StreamTypes'
  BY <1>6 DEF Vanishes
<1>7. ASSUME NEW p \in Publishers, Ends(p) PROVE StreamTypes'
  BY <1>7 DEF Ends
<1>8. ASSUME NEW p \in Publishers, BegunReads(p) \/ BegunReadFails(p) PROVE StreamTypes'
  BY <1>8 DEF BegunReads, BegunReadFails
<1>9. ASSUME NEW p \in Publishers, BegunStarts(p) PROVE StreamTypes'
  BY <1>9 DEF BegunStarts, Orders
<1>10. ASSUME NEW p \in Publishers, EndedStops(p) PROVE StreamTypes'
  BY <1>10 DEF EndedStops, Orders
<1>11. ASSUME NEW p \in Publishers, EndedOffline(p) PROVE StreamTypes'
  BY <1>11 DEF EndedOffline
<1>12. CASE ServerStarts
  BY <1>12 DEF ServerStarts
<1>13. CASE OnServerStarted
  BY <1>13 DEF OnServerStarted
<1>14. ASSUME NEW c \in ModeSetters, NEW m \in Modes, SetMode(c, m) PROVE StreamTypes'
  BY <1>14 DEF SetMode, AfterMode
<1>15. ASSUME NEW c \in ModeSetters, ModeApplies(c) PROVE StreamTypes'
  BY <1>15 DEF ModeApplies, Orders
<1>16. CASE UNCHANGED streamVars
  BY <1>16 DEF streamVars
<1> QED
  BY <1>1, <1>2, <1>3, <1>4, <1>5, <1>6, <1>7, <1>8, <1>9, <1>10, <1>11, <1>12, <1>13, <1>14,
     <1>15, <1>16 DEF StreamNext

\* Every step keeps a reason for the row to say online.
LEMMA ShownStep == StreamInv /\ [StreamNext]_streamVars => ShownInv'
<1> SUFFICES ASSUME StreamInv, [StreamNext]_streamVars PROVE ShownInv'
  OBVIOUS
<1> USE DEF StreamInv, StreamTypes, ShownInv, Pending, Offline, TakesOffline
<1>1. ASSUME NEW p \in Publishers, Connects(p) PROVE ShownInv'
  BY <1>1 DEF Connects
<1>2. ASSUME NEW p \in Publishers, Refuse(p) PROVE ShownInv'
  BY <1>2 DEF Refuse
<1>3. ASSUME NEW p \in Publishers, Authorise(p) PROVE ShownInv'
  BY <1>3 DEF Authorise
<1>4. ASSUME NEW p \in Publishers, Begins(p) PROVE ShownInv'
  BY <1>4 DEF Begins
<1>5. ASSUME NEW p \in Publishers, TurnedAway(p) PROVE ShownInv'
  BY <1>5 DEF TurnedAway, Live
<1>6. ASSUME NEW p \in Publishers, Vanishes(p) PROVE ShownInv'
  BY <1>6 DEF Vanishes
<1>7. ASSUME NEW p \in Publishers, Ends(p) PROVE ShownInv'
  BY <1>7 DEF Ends
<1>8. ASSUME NEW p \in Publishers, BegunReads(p) \/ BegunReadFails(p) PROVE ShownInv'
  BY <1>8 DEF BegunReads, BegunReadFails
<1>9. ASSUME NEW p \in Publishers, BegunStarts(p) PROVE ShownInv'
  BY <1>9 DEF BegunStarts, Orders
<1>10. ASSUME NEW p \in Publishers, EndedStops(p) PROVE ShownInv'
  BY <1>10 DEF EndedStops, Orders
<1>11. ASSUME NEW p \in Publishers, EndedOffline(p) PROVE ShownInv'
  BY <1>11 DEF EndedOffline
<1>12. CASE ServerStarts
  BY <1>12 DEF ServerStarts
<1>13. CASE OnServerStarted
  <2>1. \/ ~shown'
        \/ shown' = shown /\ (unwritten' = shown)
    BY <1>13 DEF OnServerStarted
  <2> QED
    BY <2>1
<1>14. ASSUME NEW c \in ModeSetters, NEW m \in Modes, SetMode(c, m) PROVE ShownInv'
  BY <1>14 DEF SetMode, AfterMode
<1>15. ASSUME NEW c \in ModeSetters, ModeApplies(c) PROVE ShownInv'
  BY <1>15 DEF ModeApplies, Orders
<1>16. CASE UNCHANGED streamVars
  BY <1>16 DEF streamVars
<1> QED
  BY <1>1, <1>2, <1>3, <1>4, <1>5, <1>6, <1>7, <1>8, <1>9, <1>10, <1>11, <1>12, <1>13, <1>14,
     <1>15, <1>16 DEF StreamNext

\* Every step keeps what is known of the recording.
LEMMA RecordStep == StreamInv /\ [StreamNext]_streamVars => RecordInv'
<1> SUFFICES ASSUME StreamInv, [StreamNext]_streamVars PROVE RecordInv'
  OBVIOUS
<1> USE DEF StreamInv, StreamTypes, RecordInv, LoneHandler, HandlerKnows, Pending, Modes
<1>1. ASSUME NEW p \in Publishers, Connects(p) PROVE RecordInv'
  BY <1>1, BusyIs DEF Connects
<1>2. ASSUME NEW p \in Publishers, Refuse(p) PROVE RecordInv'
  BY <1>2, BusyIs DEF Refuse
<1>3. ASSUME NEW p \in Publishers, Authorise(p) PROVE RecordInv'
  BY <1>3, BusyIs DEF Authorise
<1>4. ASSUME NEW p \in Publishers, Begins(p) PROVE RecordInv'
  BY <1>4, BusyIs DEF Begins
<1>5. ASSUME NEW p \in Publishers, TurnedAway(p) PROVE RecordInv'
  BY <1>5, BusyIs DEF TurnedAway
<1>6. ASSUME NEW p \in Publishers, Vanishes(p) PROVE RecordInv'
  BY <1>6, BusyIs DEF Vanishes
<1>7. ASSUME NEW p \in Publishers, Ends(p) PROVE RecordInv'
  BY <1>7, BusyIs DEF Ends
<1>8. ASSUME NEW p \in Publishers, BegunReads(p) \/ BegunReadFails(p) PROVE RecordInv'
  <2>1. CASE BegunReads(p)
    BY <2>1, BusyIs DEF BegunReads
  <2>2. CASE BegunReadFails(p)
    <3>1. /\ begun' = [begun EXCEPT ![p] = "start"] /\ UNCHANGED <<publisher, recorded>>
          /\ Live # {} => crossed'
      BY <2>2 DEF BegunReadFails
    <3> QED
      BY <3>1, BusyIs
  <2> QED
    BY <1>8, <2>1, <2>2
<1>9. ASSUME NEW p \in Publishers, BegunStarts(p) PROVE RecordInv'
  <2>1. /\ begun[p] = "start" /\ begun' = [begun EXCEPT ![p] = "done"]
        /\ UNCHANGED <<mode, publisher, ended, setter, crossed>>
    BY <1>9 DEF BegunStarts, Orders
  <2>2. CASE Live = {}
    <3>1. ~recorded' /\ \A q \in Publishers : publisher[q] # "live"
      BY <1>9, <2>2, BusyIs DEF BegunStarts, Orders
    <3> QED
      BY <2>1, <3>1
  <2>3. CASE Live # {}
    <3>1. (recorded' \/ refused') /\ \E q \in Publishers : publisher[q] = "live"
      BY <1>9, <2>3, BusyIs DEF BegunStarts, Orders
    <3> QED
      BY <2>1, <3>1
  <2> QED
    BY <2>2, <2>3
<1>10. ASSUME NEW p \in Publishers, EndedStops(p) PROVE RecordInv'
  BY <1>10, BusyIs DEF EndedStops, Orders
<1>11. ASSUME NEW p \in Publishers, EndedOffline(p) PROVE RecordInv'
  BY <1>11, BusyIs DEF EndedOffline, TakesOffline
<1>12. CASE ServerStarts
  BY <1>12, BusyIs DEF ServerStarts
<1>13. CASE OnServerStarted
  BY <1>13, BusyIs DEF OnServerStarted, TakesOffline
<1>14. ASSUME NEW c \in ModeSetters, NEW m \in Modes, SetMode(c, m) PROVE RecordInv'
  <2>1. /\ setter[c].pc = "new" /\ mode' = m /\ UNCHANGED <<publisher, begun, ended, recorded>>
        /\ setter' = [setter EXCEPT ![c] = [pc |-> AfterMode(m), mode |-> m]]
    BY <1>14 DEF SetMode
  <2>2. AfterMode(m) = "stop" <=> m = "none"
    BY DEF AfterMode
  <2>3. /\ setter'[c].pc = AfterMode(m)
        /\ \A d \in ModeSetters : d # c => setter'[d] = setter[d]
    BY <2>1
  <2>4. CASE Live = {} \/ crossed'
    BY <2>1, <2>4, BusyIs
  <2>5. CASE Live # {} /\ ~crossed'
    <3>1. ~crossed /\ Busy = {} /\ shown
      BY <1>14, <2>5 DEF SetMode
    <3>2. AfterMode(m) \in {"start", "stop"}
      BY <3>1 DEF AfterMode
    <3>3. LoneHandler'
      BY <2>1, <2>3, <3>1, BusyIs
    <3>4. HandlerKnows'
      BY <2>1, <2>2, <2>3, <3>1, BusyIs
    <3> QED
      BY <2>1, <2>3, <3>2, <3>3, <3>4
  <2> QED
    BY <2>4, <2>5
<1>15. ASSUME NEW c \in ModeSetters, ModeApplies(c) PROVE RecordInv'
  <2>1. /\ setter[c].pc \in {"start", "stop"} /\ setter' = [setter EXCEPT ![c].pc = "done"]
        /\ UNCHANGED <<mode, publisher, begun, ended, crossed>>
    BY <1>15 DEF ModeApplies, Orders
  <2>2. CASE Live = {}
    <3>1. ~recorded' /\ \A q \in Publishers : publisher[q] # "live"
      BY <1>15, <2>2, BusyIs DEF ModeApplies, Orders
    <3> QED
      BY <2>1, <3>1
  <2>3. CASE Live # {}
    <3>1. /\ refused' \/ (recorded' <=> setter[c].pc = "start")
          /\ \E q \in Publishers : publisher[q] = "live"
      BY <1>15, <2>3, BusyIs DEF ModeApplies, Orders
    <3> QED
      BY <2>1, <3>1
  <2> QED
    BY <2>2, <2>3
<1>16. CASE UNCHANGED streamVars
  BY <1>16 DEF streamVars
<1> QED
  BY <1>1, <1>2, <1>3, <1>4, <1>5, <1>6, <1>7, <1>8, <1>9, <1>10, <1>11, <1>12, <1>13, <1>14,
     <1>15, <1>16 DEF StreamNext

\* The invariant of the pushed stream holds in every state.
LEMMA StreamInvHolds == StreamSpec => []StreamInv
<1>1. StreamInv /\ [StreamNext]_streamVars => StreamInv'
  BY StreamTypesStep, ShownStep, RecordStep DEF StreamInv
<1> QED
  BY <1>1, StreamStarts, PTL DEF StreamSpec

\* The channel is shown, and recorded, as its publishers come and go (rtmpadapter
\* OnPublish and OnStreamChanged, onServerStarted, setRecordMode), for any number
\* of publishers, changes of the mode and ends of the media server.
THEOREM StreamIsFollowed == StreamSpec => []StreamFollowed
<1>1. StreamInv => StreamGoneIsOffline
  BY DEF StreamInv, StreamTypes, ShownInv, StreamGoneIsOffline
<1>2. StreamInv => StreamRecordedAsSet
  BY BusyIs DEF StreamInv, StreamTypes, RecordInv, StreamRecordedAsSet
<1> QED
  BY <1>1, <1>2, StreamInvHolds, PTL DEF StreamFollowed

----------------------------------------------------------------------------
(* ChannelCounts: the number of a device and the counts owed to it are the
   channels that it has and the corrections owed to it. *)

\* Calls that are yet to count a channel, and to correct the number, of d; and a new
\* device that counts the channel it is yet to get.
Counting(d) == {a \in Adders : user[a].pc = "count" /\ user[a].dev = d}
Uncounting(d) == {u \in Deleters : user[u].pc = "uncount" /\ user[u].dev = d}
OwedTo(d) == d \in Adders /\ user[d].pc = "row" /\ user[d].dev = d

CountTables ==
  /\ number \in [DOMAIN number -> Nat] /\ DOMAIN number \subseteq AllDevices
  /\ parent \in [DOMAIN parent -> AllDevices] /\ DOMAIN parent \subseteq Adders
  /\ user \in [Users -> [pc : {"new", "row", "count", "uncount", "channels", "done"},
                         dev : AllDevices \cup {NoDevice}]]
  /\ \A a \in Adders : user[a].pc \in {"new", "row", "count", "done"}
  /\ \A u \in Deleters : user[u].pc \in {"new", "uncount", "done"}
  /\ \A r \in Removers : user[r].pc \in {"new", "channels", "done"}
  /\ \A u \in Users : user[u].pc # "new" => user[u].dev \in AllDevices

\* A call that is yet to come has made no device, and nobody knows of it.
CountFresh ==
  \A a \in Adders :
    /\ user[a].pc \in {"new", "row"} => a \notin DOMAIN parent
    /\ user[a].pc = "new" =>
         /\ a \notin DOMAIN number
         /\ \A u \in Users : user[u].pc # "new" => user[u].dev # a
         /\ \A c \in DOMAIN parent : parent[c] # a

\* A device whose row was removed does not come back.
CountRemoved ==
  \A r \in Removers : user[r].pc = "channels" => user[r].dev \notin DOMAIN number

\* The balance of a device.
BalanceOf(d) ==
  number[d] + Cardinality(Counting(d))
    = Cardinality(ChildrenOf(d)) + Cardinality(Uncounting(d)) + (IF OwedTo(d) THEN 1 ELSE 0)
CountBalance == \A d \in DOMAIN number \ miscounted : BalanceOf(d)

CountInv == CountTables /\ CountFresh /\ CountRemoved /\ CountBalance

\* The sets that are counted are finite.
LEMMA CountFinite ==
  ASSUME CountTables, NEW d
  PROVE  /\ IsFiniteSet(Counting(d)) /\ IsFiniteSet(Uncounting(d)) /\ IsFiniteSet(ChildrenOf(d))
         /\ Cardinality(Counting(d)) \in Nat /\ Cardinality(Uncounting(d)) \in Nat
         /\ Cardinality(ChildrenOf(d)) \in Nat
<1>1. Counting(d) \in SUBSET Adders /\ Uncounting(d) \in SUBSET Deleters
      /\ ChildrenOf(d) \in SUBSET Adders
  BY DEF Counting, Uncounting, ChildrenOf, CountTables
<1>2. IsFiniteSet(Counting(d)) /\ IsFiniteSet(Uncounting(d)) /\ IsFiniteSet(ChildrenOf(d))
  BY <1>1, CountAssumption, FS_Subset
<1> QED
  BY <1>2, FS_CardinalityType

\* The devices that are there have no channels.
LEMMA CountStarts == CountInit => CountInv
<1> SUFFICES ASSUME CountInit PROVE CountInv
  OBVIOUS
<1>1. CountTables
  BY DEF CountInit, CountTables, AllDevices, Users
<1>2. CountFresh
  BY CountAssumption DEF CountInit, CountFresh, Users
<1>3. CountRemoved
  BY DEF CountInit, CountRemoved, Users
<1>4. CountBalance
  <2> SUFFICES ASSUME NEW d \in OldDevices
               PROVE  number[d] = 0 /\ ~OwedTo(d) /\ Counting(d) = {} /\ Uncounting(d) = {}
                      /\ ChildrenOf(d) = {}
    <3>1. Cardinality({}) = 0
      BY FS_EmptySet
    <3>2. \A d \in OldDevices : BalanceOf(d)
      BY <3>1 DEF BalanceOf
    <3> QED
      BY <3>2 DEF CountInit, CountBalance
  <2> QED
    BY CountAssumption DEF CountInit, OwedTo, Counting, Uncounting, ChildrenOf, Users
<1> QED
  BY <1>1, <1>2, <1>3, <1>4 DEF CountInv

\* Every step keeps the types of the rows and the calls.
LEMMA CountTablesStep == CountInv /\ [CountNext]_countVars => CountTables'
<1> SUFFICES ASSUME CountInv, [CountNext]_countVars PROVE CountTables'
  OBVIOUS
<1> USE CountAssumption DEF CountInv, CountTables, Users, AllDevices, IsAt, Moves
<1>1. ASSUME NEW a \in Adders, NEW d \in AllDevices, FindDevice(a, d) PROVE CountTables'
  BY <1>1 DEF FindDevice
<1>2. ASSUME NEW a \in Adders, MakeDevice(a) PROVE CountTables'
  BY <1>2 DEF MakeDevice
<1>3. ASSUME NEW a \in Adders, AddChannelRow(a) PROVE CountTables'
  BY <1>3 DEF AddChannelRow
<1>4. ASSUME NEW a \in Adders, AddChannelRowFails(a) PROVE CountTables'
  BY <1>4 DEF AddChannelRowFails
<1>5. ASSUME NEW a \in Adders, Count(a) PROVE CountTables'
  BY <1>5 DEF Count
<1>6. ASSUME NEW u \in Deleters, NEW c \in Adders, DeleteChannelRow(u, c) PROVE CountTables'
  BY <1>6 DEF DeleteChannelRow, Deleted, Without
<1>7. ASSUME NEW u \in Deleters, Uncount(u) PROVE CountTables'
  BY <1>7 DEF Uncount
<1>8. ASSUME NEW r \in Removers, NEW d \in AllDevices, RemoveDevice(r, d) PROVE CountTables'
  BY <1>8 DEF RemoveDevice, Without
<1>9. ASSUME NEW r \in Removers, RemoveChannels(r) PROVE CountTables'
  BY <1>9 DEF RemoveChannels, Without, ChildrenOf
<1>10. ASSUME NEW r \in Removers, RemoveFails(r) PROVE CountTables'
  BY <1>10 DEF RemoveFails
<1>11. CASE UNCHANGED countVars
  BY <1>11 DEF countVars
<1>12. ASSUME NEW a \in Adders, CountFails(a) PROVE CountTables'
  BY <1>12 DEF CountFails, NumberStays
<1>13. ASSUME NEW u \in Deleters, UncountFails(u) PROVE CountTables'
  BY <1>13 DEF UncountFails, NumberStays
<1> QED
  BY <1>1, <1>2, <1>3, <1>4, <1>5, <1>6, <1>7, <1>8, <1>9, <1>10, <1>11, <1>12, <1>13
  DEF CountNext

\* Every step keeps a device unknown until it is made.
LEMMA CountFreshStep == CountInv /\ [CountNext]_countVars => CountFresh'
<1> SUFFICES ASSUME CountInv, [CountNext]_countVars PROVE CountFresh'
  OBVIOUS
<1> USE CountAssumption DEF CountInv, CountTables, CountFresh, Users, AllDevices, IsAt, Moves
<1>1. ASSUME NEW a \in Adders, NEW d \in AllDevices, FindDevice(a, d) PROVE CountFresh'
  BY <1>1 DEF FindDevice
<1>2. ASSUME NEW a \in Adders, MakeDevice(a) PROVE CountFresh'
  BY <1>2 DEF MakeDevice
<1>3. ASSUME NEW a \in Adders, AddChannelRow(a) PROVE CountFresh'
  BY <1>3 DEF AddChannelRow
<1>4. ASSUME NEW a \in Adders, AddChannelRowFails(a) PROVE CountFresh'
  BY <1>4 DEF AddChannelRowFails
<1>5. ASSUME NEW a \in Adders, Count(a) PROVE CountFresh'
  BY <1>5 DEF Count
<1>6. ASSUME NEW u \in Deleters, NEW c \in Adders, DeleteChannelRow(u, c) PROVE CountFresh'
  BY <1>6 DEF DeleteChannelRow, Deleted, Without
<1>7. ASSUME NEW u \in Deleters, Uncount(u) PROVE CountFresh'
  BY <1>7 DEF Uncount
<1>8. ASSUME NEW r \in Removers, NEW d \in AllDevices, RemoveDevice(r, d) PROVE CountFresh'
  BY <1>8 DEF RemoveDevice, Without
<1>9. ASSUME NEW r \in Removers, RemoveChannels(r) PROVE CountFresh'
  BY <1>9 DEF RemoveChannels, Without, ChildrenOf
<1>10. ASSUME NEW r \in Removers, RemoveFails(r) PROVE CountFresh'
  BY <1>10 DEF RemoveFails
<1>11. CASE UNCHANGED countVars
  BY <1>11 DEF countVars
<1>12. ASSUME NEW a \in Adders, CountFails(a) PROVE CountFresh'
  BY <1>12 DEF CountFails, NumberStays
<1>13. ASSUME NEW u \in Deleters, UncountFails(u) PROVE CountFresh'
  BY <1>13 DEF UncountFails, NumberStays
<1> QED
  BY <1>1, <1>2, <1>3, <1>4, <1>5, <1>6, <1>7, <1>8, <1>9, <1>10, <1>11, <1>12, <1>13
  DEF CountNext

\* Every step keeps a removed device removed.
LEMMA CountRemovedStep == CountInv /\ [CountNext]_countVars => CountRemoved'
<1> SUFFICES ASSUME CountInv, [CountNext]_countVars PROVE CountRemoved'
  OBVIOUS
<1> USE CountAssumption
  DEF CountInv, CountTables, CountFresh, CountRemoved, Users, AllDevices, IsAt, Moves
<1>1. ASSUME NEW a \in Adders, NEW d \in AllDevices, FindDevice(a, d) PROVE CountRemoved'
  BY <1>1 DEF FindDevice
<1>2. ASSUME NEW a \in Adders, MakeDevice(a) PROVE CountRemoved'
  BY <1>2 DEF MakeDevice
<1>3. ASSUME NEW a \in Adders, AddChannelRow(a) PROVE CountRemoved'
  BY <1>3 DEF AddChannelRow
<1>4. ASSUME NEW a \in Adders, AddChannelRowFails(a) PROVE CountRemoved'
  BY <1>4 DEF AddChannelRowFails
<1>5. ASSUME NEW a \in Adders, Count(a) PROVE CountRemoved'
  BY <1>5 DEF Count
<1>6. ASSUME NEW u \in Deleters, NEW c \in Adders, DeleteChannelRow(u, c) PROVE CountRemoved'
  BY <1>6 DEF DeleteChannelRow, Deleted, Without
<1>7. ASSUME NEW u \in Deleters, Uncount(u) PROVE CountRemoved'
  BY <1>7 DEF Uncount
<1>8. ASSUME NEW r \in Removers, NEW d \in AllDevices, RemoveDevice(r, d) PROVE CountRemoved'
  BY <1>8 DEF RemoveDevice, Without
<1>9. ASSUME NEW r \in Removers, RemoveChannels(r) PROVE CountRemoved'
  BY <1>9 DEF RemoveChannels, Without, ChildrenOf
<1>10. ASSUME NEW r \in Removers, RemoveFails(r) PROVE CountRemoved'
  BY <1>10 DEF RemoveFails
<1>11. CASE UNCHANGED countVars
  BY <1>11 DEF countVars
<1>12. ASSUME NEW a \in Adders, CountFails(a) PROVE CountRemoved'
  BY <1>12 DEF CountFails, NumberStays
<1>13. ASSUME NEW u \in Deleters, UncountFails(u) PROVE CountRemoved'
  BY <1>13 DEF UncountFails, NumberStays
<1> QED
  BY <1>1, <1>2, <1>3, <1>4, <1>5, <1>6, <1>7, <1>8, <1>9, <1>10, <1>11, <1>12, <1>13
  DEF CountNext

\* What a step leaves alone stays in balance.
LEMMA BalanceStays ==
  ASSUME CountInv, NEW d \in DOMAIN number \ miscounted, number'[d] = number[d],
         Counting(d)' = Counting(d), Uncounting(d)' = Uncounting(d),
         ChildrenOf(d)' = ChildrenOf(d), OwedTo(d)' <=> OwedTo(d)
  PROVE  BalanceOf(d)'
BY DEF CountInv, CountBalance, BalanceOf

\* Every step keeps the balance: a channel row that comes is owed a count, one that
\* goes is owed a correction, and each is settled once.
LEMMA BalanceStep == CountInv /\ [CountNext]_countVars => CountBalance'
<1> SUFFICES ASSUME CountInv, [CountNext]_countVars,
                    NEW d \in DOMAIN number' \ miscounted'
             PROVE  BalanceOf(d)'
  BY DEF CountBalance
<1> USE CountAssumption DEF CountInv, CountTables, Users, AllDevices, IsAt, Moves
<1>0. /\ IsFiniteSet(Counting(d)) /\ IsFiniteSet(Uncounting(d)) /\ IsFiniteSet(ChildrenOf(d))
      /\ Cardinality(Counting(d)) \in Nat /\ Cardinality(Uncounting(d)) \in Nat
      /\ Cardinality(ChildrenOf(d)) \in Nat
  BY CountFinite
<1>1. ASSUME NEW a \in Adders, NEW e \in AllDevices, FindDevice(a, e) PROVE BalanceOf(d)'
  <2>1. Counting(d)' = Counting(d) /\ Uncounting(d)' = Uncounting(d)
    BY <1>1 DEF FindDevice, Counting, Uncounting
  <2>2. OwedTo(d)' <=> OwedTo(d)
    BY <1>1 DEF FindDevice, OwedTo, CountFresh
  <2>3. ChildrenOf(d)' = ChildrenOf(d)
    BY <1>1 DEF FindDevice, ChildrenOf
  <2> QED
    BY <1>1, <2>1, <2>2, <2>3, BalanceStays DEF FindDevice
<1>2. ASSUME NEW a \in Adders, MakeDevice(a) PROVE BalanceOf(d)'
  <2>1. Counting(d)' = Counting(d) /\ Uncounting(d)' = Uncounting(d)
    BY <1>2 DEF MakeDevice, Counting, Uncounting
  <2>3. ChildrenOf(d)' = ChildrenOf(d)
    BY <1>2 DEF MakeDevice, ChildrenOf
  <2>4. CASE d = a
    <3>1. number'[d] = 1 /\ OwedTo(d)'
      BY <1>2, <2>4 DEF MakeDevice, OwedTo
    <3>2. Counting(d) = {} /\ Uncounting(d) = {} /\ ChildrenOf(d) = {}
      BY <1>2, <2>4 DEF MakeDevice, CountFresh, Counting, Uncounting, ChildrenOf
    <3>3. Cardinality({}) = 0
      BY FS_EmptySet
    <3> QED
      BY <2>1, <2>3, <3>1, <3>2, <3>3 DEF BalanceOf
  <2>5. CASE d # a
    <3>1. d \in DOMAIN number \ miscounted /\ number'[d] = number[d] /\ (OwedTo(d)' <=> OwedTo(d))
      BY <1>2, <2>5 DEF MakeDevice, OwedTo
    <3> QED
      BY <2>1, <2>3, <3>1, BalanceStays
  <2> QED
    BY <2>4, <2>5
<1>3. ASSUME NEW a \in Adders, AddChannelRow(a) PROVE BalanceOf(d)'
  <2>1. d \in DOMAIN number \ miscounted /\ number'[d] = number[d] /\ BalanceOf(d)
    BY <1>3 DEF AddChannelRow, CountBalance
  <2>2. Uncounting(d)' = Uncounting(d)
    BY <1>3 DEF AddChannelRow, Uncounting
  <2>3. CASE user[a].dev # d
    <3>1. ChildrenOf(d)' = ChildrenOf(d)
      BY <1>3, <2>3 DEF AddChannelRow, ChildrenOf, CountFresh
    <3>2. Counting(d)' = Counting(d) /\ (OwedTo(d)' <=> OwedTo(d))
      BY <1>3, <2>3 DEF AddChannelRow, Counting, OwedTo
    <3> QED
      BY <2>1, <2>2, <3>1, <3>2, BalanceStays
  <2>4. CASE user[a].dev = d
    <3>1. ChildrenOf(d)' = ChildrenOf(d) \cup {a} /\ a \notin ChildrenOf(d)
      BY <1>3, <2>4 DEF AddChannelRow, ChildrenOf, CountFresh
    <3>2. Cardinality(ChildrenOf(d) \cup {a}) = Cardinality(ChildrenOf(d)) + 1
      BY <1>0, <3>1, FS_AddElement
    <3>3. CASE d = a
      <4>1. Counting(d)' = Counting(d) /\ OwedTo(d) /\ ~OwedTo(d)'
        BY <1>3, <2>4, <3>3 DEF AddChannelRow, Counting, OwedTo
      <4> QED
        BY <1>0, <2>1, <2>2, <3>1, <3>2, <4>1 DEF BalanceOf
    <3>4. CASE d # a
      <4>1. /\ Counting(d)' = Counting(d) \cup {a} /\ a \notin Counting(d)
            /\ (OwedTo(d)' <=> OwedTo(d))
        BY <1>3, <2>4, <3>4 DEF AddChannelRow, Counting, OwedTo
      <4>2. Cardinality(Counting(d) \cup {a}) = Cardinality(Counting(d)) + 1
        BY <1>0, <4>1, FS_AddElement
      <4>3. /\ Cardinality(ChildrenOf(d))' = Cardinality(ChildrenOf(d)) + 1
            /\ Cardinality(Counting(d))' = Cardinality(Counting(d)) + 1
            /\ Cardinality(Uncounting(d))' = Cardinality(Uncounting(d))
        BY <2>2, <3>1, <3>2, <4>1, <4>2
      <4>4. number[d] \in Nat
        BY <2>1
      <4> HIDE DEF CountTables
      <4> QED
        BY <1>0, <2>1, <4>1, <4>3, <4>4 DEF BalanceOf
    <3> QED
      BY <3>3, <3>4
  <2> QED
    BY <2>3, <2>4
<1>4. ASSUME NEW a \in Adders, AddChannelRowFails(a) PROVE BalanceOf(d)'
  <2>1. d \in DOMAIN number \ miscounted /\ number'[d] = number[d] /\ ChildrenOf(d)' = ChildrenOf(d)
    BY <1>4 DEF AddChannelRowFails, ChildrenOf
  <2>2. Counting(d)' = Counting(d) /\ Uncounting(d)' = Uncounting(d)
    BY <1>4 DEF AddChannelRowFails, Counting, Uncounting
  <2>3. OwedTo(d)' <=> OwedTo(d)
    BY <1>4 DEF AddChannelRowFails, OwedTo
  <2> QED
    BY <2>1, <2>2, <2>3, BalanceStays
<1>5. ASSUME NEW a \in Adders, Count(a) PROVE BalanceOf(d)'
  <2>1. d \in DOMAIN number \ miscounted /\ BalanceOf(d) /\ ChildrenOf(d)' = ChildrenOf(d)
    BY <1>5 DEF Count, CountBalance, ChildrenOf
  <2>2. Uncounting(d)' = Uncounting(d) /\ (OwedTo(d)' <=> OwedTo(d))
    BY <1>5 DEF Count, Uncounting, OwedTo
  <2>3. CASE user[a].dev # d
    <3>1. Counting(d)' = Counting(d) /\ number'[d] = number[d]
      BY <1>5, <2>1, <2>3 DEF Count, Counting
    <3> QED
      BY <2>1, <2>2, <3>1, BalanceStays
  <2>4. CASE user[a].dev = d
    <3>1. /\ Counting(d)' = Counting(d) \ {a} /\ a \in Counting(d)
          /\ number'[d] = number[d] + 1 /\ number[d] \in Nat
      BY <1>5, <2>1, <2>4 DEF Count, Counting
    <3>2. Cardinality(Counting(d) \ {a}) = Cardinality(Counting(d)) - 1
      BY <1>0, <3>1, FS_RemoveElement
    <3> QED
      BY <1>0, <2>1, <2>2, <3>1, <3>2 DEF BalanceOf
  <2> QED
    BY <2>3, <2>4
<1>6. ASSUME NEW u \in Deleters, NEW c \in Adders, DeleteChannelRow(u, c) PROVE BalanceOf(d)'
  <2>1. PICK e \in AllDevices : Deleted(c, e) /\ Moves(u, "uncount", e)
    BY <1>6 DEF DeleteChannelRow
  <2>2. d \in DOMAIN number \ miscounted /\ BalanceOf(d) /\ number'[d] = number[d]
    BY <1>6 DEF DeleteChannelRow, CountBalance
  <2>3. Counting(d)' = Counting(d) /\ (OwedTo(d)' <=> OwedTo(d))
    BY <1>6, <2>1 DEF DeleteChannelRow, Counting, OwedTo
  <2>4. CASE e # d
    <3>1. ChildrenOf(d)' = ChildrenOf(d)
      BY <1>6, <2>1, <2>4 DEF DeleteChannelRow, ChildrenOf, Without, Deleted
    <3>2. Uncounting(d)' = Uncounting(d)
      BY <1>6, <2>1, <2>4 DEF DeleteChannelRow, Uncounting
    <3> QED
      BY <2>2, <2>3, <3>1, <3>2, BalanceStays
  <2>5. CASE e = d
    <3>1. ChildrenOf(d)' = ChildrenOf(d) \ {c} /\ c \in ChildrenOf(d)
      BY <1>6, <2>1, <2>5 DEF DeleteChannelRow, ChildrenOf, Without, Deleted
    <3>2. Uncounting(d)' = Uncounting(d) \cup {u} /\ u \notin Uncounting(d)
      BY <1>6, <2>1, <2>5 DEF DeleteChannelRow, Uncounting
    <3>3. Cardinality(ChildrenOf(d) \ {c}) = Cardinality(ChildrenOf(d)) - 1
      BY <1>0, <3>1, FS_RemoveElement
    <3>4. Cardinality(Uncounting(d) \cup {u}) = Cardinality(Uncounting(d)) + 1
      BY <1>0, <3>2, FS_AddElement
    <3> QED
      BY <1>0, <2>2, <2>3, <3>1, <3>2, <3>3, <3>4 DEF BalanceOf
  <2> QED
    BY <2>4, <2>5
<1>7. ASSUME NEW u \in Deleters, Uncount(u) PROVE BalanceOf(d)'
  <2>1. d \in DOMAIN number \ miscounted /\ BalanceOf(d) /\ ChildrenOf(d)' = ChildrenOf(d)
    BY <1>7 DEF Uncount, CountBalance, ChildrenOf
  <2>2. Counting(d)' = Counting(d) /\ (OwedTo(d)' <=> OwedTo(d))
    BY <1>7 DEF Uncount, Counting, OwedTo
  <2>3. CASE user[u].dev # d
    <3>1. Uncounting(d)' = Uncounting(d) /\ number'[d] = number[d]
      BY <1>7, <2>1, <2>3 DEF Uncount, Uncounting
    <3> QED
      BY <2>1, <2>2, <3>1, BalanceStays
  <2>4. CASE user[u].dev = d
    <3>1. number[d] \in Nat /\ number[d] # 0
      BY <1>7, <2>1, <2>4 DEF Uncount
    <3>2. number'[d] = number[d] - 1
      BY <1>7, <2>1, <2>4, <3>1 DEF Uncount
    <3>3. Uncounting(d)' = Uncounting(d) \ {u} /\ u \in Uncounting(d)
      BY <1>7, <2>4 DEF Uncount, Uncounting
    <3>4. Cardinality(Uncounting(d) \ {u}) = Cardinality(Uncounting(d)) - 1
      BY <1>0, <3>3, FS_RemoveElement
    <3> QED
      BY <1>0, <2>1, <2>2, <3>1, <3>2, <3>3, <3>4 DEF BalanceOf
  <2> QED
    BY <2>3, <2>4
<1>8. ASSUME NEW r \in Removers, NEW e \in AllDevices, RemoveDevice(r, e) PROVE BalanceOf(d)'
  <2>1. d \in DOMAIN number \ miscounted /\ number'[d] = number[d] /\ ChildrenOf(d)' = ChildrenOf(d)
    BY <1>8 DEF RemoveDevice, Without, ChildrenOf
  <2>2. /\ Counting(d)' = Counting(d) /\ Uncounting(d)' = Uncounting(d)
        /\ (OwedTo(d)' <=> OwedTo(d))
    BY <1>8 DEF RemoveDevice, Counting, Uncounting, OwedTo
  <2> QED
    BY <2>1, <2>2, BalanceStays
<1>9. ASSUME NEW r \in Removers, RemoveChannels(r) PROVE BalanceOf(d)'
  <2>1. d \in DOMAIN number \ miscounted /\ number'[d] = number[d] /\ user[r].dev # d
    BY <1>9 DEF RemoveChannels, CountRemoved
  <2>2. ChildrenOf(d)' = ChildrenOf(d)
    BY <1>9, <2>1 DEF RemoveChannels, Without, ChildrenOf
  <2>3. /\ Counting(d)' = Counting(d) /\ Uncounting(d)' = Uncounting(d)
        /\ (OwedTo(d)' <=> OwedTo(d))
    BY <1>9 DEF RemoveChannels, Counting, Uncounting, OwedTo
  <2> QED
    BY <2>1, <2>2, <2>3, BalanceStays
<1>10. ASSUME NEW r \in Removers, RemoveFails(r) PROVE BalanceOf(d)'
  <2>1. d \in DOMAIN number \ miscounted /\ number'[d] = number[d] /\ ChildrenOf(d)' = ChildrenOf(d)
    BY <1>10 DEF RemoveFails, ChildrenOf
  <2>2. /\ Counting(d)' = Counting(d) /\ Uncounting(d)' = Uncounting(d)
        /\ (OwedTo(d)' <=> OwedTo(d))
    BY <1>10 DEF RemoveFails, Counting, Uncounting, OwedTo
  <2> QED
    BY <2>1, <2>2, BalanceStays
<1>11. CASE UNCHANGED countVars
  <2>1. d \in DOMAIN number \ miscounted /\ number'[d] = number[d] /\ ChildrenOf(d)' = ChildrenOf(d)
    BY <1>11 DEF countVars, ChildrenOf
  <2>2. /\ Counting(d)' = Counting(d) /\ Uncounting(d)' = Uncounting(d)
        /\ (OwedTo(d)' <=> OwedTo(d))
    BY <1>11 DEF countVars, Counting, Uncounting, OwedTo
  <2> QED
    BY <2>1, <2>2, BalanceStays
<1>12. ASSUME NEW a \in Adders, CountFails(a) PROVE BalanceOf(d)'
  <2>1. /\ d \in DOMAIN number \ miscounted /\ number'[d] = number[d]
        /\ ChildrenOf(d)' = ChildrenOf(d) /\ user[a].dev # d
    BY <1>12 DEF CountFails, NumberStays, ChildrenOf
  <2>2. /\ Counting(d)' = Counting(d) /\ Uncounting(d)' = Uncounting(d)
        /\ (OwedTo(d)' <=> OwedTo(d))
    BY <1>12, <2>1 DEF CountFails, NumberStays, Counting, Uncounting, OwedTo
  <2> QED
    BY <2>1, <2>2, BalanceStays
<1>13. ASSUME NEW u \in Deleters, UncountFails(u) PROVE BalanceOf(d)'
  <2>1. /\ d \in DOMAIN number \ miscounted /\ number'[d] = number[d]
        /\ ChildrenOf(d)' = ChildrenOf(d) /\ user[u].dev # d
    BY <1>13 DEF UncountFails, NumberStays, ChildrenOf
  <2>2. /\ Counting(d)' = Counting(d) /\ Uncounting(d)' = Uncounting(d)
        /\ (OwedTo(d)' <=> OwedTo(d))
    BY <1>13, <2>1 DEF UncountFails, NumberStays, Counting, Uncounting, OwedTo
  <2> QED
    BY <2>1, <2>2, BalanceStays
<1> QED
  BY <1>1, <1>2, <1>3, <1>4, <1>5, <1>6, <1>7, <1>8, <1>9, <1>10, <1>11, <1>12, <1>13
  DEF CountNext

\* The invariant of the counts holds in every state.
LEMMA CountInvHolds == CountSpec => []CountInv
<1>1. CountInv /\ [CountNext]_countVars => CountInv'
  BY CountTablesStep, CountFreshStep, CountRemovedStep, BalanceStep DEF CountInv
<1> QED
  BY <1>1, CountStarts, PTL DEF CountSpec

\* When no call is at work a device shows the number of its channels (AddChannel,
\* DelChannel, DelDevice), for any finite number of calls.
THEOREM CountsAgree == CountSpec => []ChannelsCounted
<1>1. CountInv => ChannelsCounted
  <2> SUFFICES ASSUME CountInv, \A u \in Users : user[u].pc \in {"new", "done"},
                      NEW d \in DOMAIN number \ miscounted
               PROVE  number[d] = Cardinality(ChildrenOf(d))
    BY DEF ChannelsCounted
  <2>1. Counting(d) = {} /\ Uncounting(d) = {} /\ ~OwedTo(d)
    BY DEF Counting, Uncounting, OwedTo, Users
  <2>2. Cardinality({}) = 0 /\ Cardinality(ChildrenOf(d)) \in Nat /\ number[d] \in Nat
    BY FS_EmptySet, CountFinite DEF CountInv, CountTables
  <2>3. BalanceOf(d)
    BY DEF CountInv, CountBalance
  <2> QED
    BY <2>1, <2>2, <2>3 DEF BalanceOf
<1> QED
  BY <1>1, CountInvHolds, PTL

----------------------------------------------------------------------------
(* MediaNodes: what the nodes and the check are made of. *)

\* No server is connected, and nothing is asked.
LEMMA NodeStarts == NodeInit => NodeTypeOK
BY NodeAssumption DEF NodeInit, NodeTypeOK, Unknown, Waiting, Drivers

\* Every step keeps the types of the nodes and of the check.
LEMMA NodeStep == NodeTypeOK /\ [NodeNext]_nodeVars => NodeTypeOK'
<1> SUFFICES ASSUME NodeTypeOK, [NodeNext]_nodeVars PROVE NodeTypeOK'
  OBVIOUS
<1> DEFINE Node == [known : BOOLEAN, online : BOOLEAN, fresh : BOOLEAN, driver : Drivers]
           Round == [pc : {"wait", "range", "answered", "silent"}, left : SUBSET Servers,
                     at : Servers \cup {NoServer}]
<1>a. /\ node \in [Servers -> Node] /\ nodeCheck \in Round
      /\ \A s \in Servers, n \in Node : [node EXCEPT ![s] = n] \in [Servers -> Node]
  BY DEF NodeTypeOK
<1>b. \A n \in Node, b \in BOOLEAN :
        /\ [n EXCEPT !.fresh = b] \in Node /\ [n EXCEPT !.online = b] \in Node
        /\ [n EXCEPT !.online = b, !.fresh = @ \/ b] \in Node
  OBVIOUS
<1>c. \A s \in Servers :
        /\ [nodeCheck EXCEPT !.left = @ \ {s}] \in Round
        /\ [nodeCheck EXCEPT !.pc = "range", !.at = NoServer] \in Round
        /\ [[nodeCheck EXCEPT !.left = @ \ {s}] EXCEPT !.pc = "answered", !.at = s] \in Round
        /\ [[nodeCheck EXCEPT !.left = @ \ {s}] EXCEPT !.pc = "silent", !.at = s] \in Round
  BY <1>a
<1>d. NodeTypeOK' <=>
        /\ (node \in [Servers -> Node])' /\ (nodeCheck \in Round)'
        /\ alive' \subseteq Servers /\ beats' \subseteq Servers /\ hooked' \subseteq Servers
        /\ connect' \in [Servers -> {"no", "begun", "ports", "set", "failed"}]
        /\ connects' \in 0..MaxConnects
  BY DEF NodeTypeOK
<1>e. /\ alive \subseteq Servers /\ beats \subseteq Servers /\ hooked \subseteq Servers
      /\ connect \in [Servers -> {"no", "begun", "ports", "set", "failed"}]
      /\ connects \in 0..MaxConnects
  BY DEF NodeTypeOK
<1>f. \A s \in Servers : node[s] \in Node
  BY <1>a
<1>g. (\A driver \in Drivers : Stored(driver) \in Node) /\ Default \in Servers /\ MaxConnects \in Nat
  BY NodeAssumption DEF Stored
<1> HIDE DEF Node, Round
<1>1. ASSUME NEW s \in Servers, ServerDies(s) \/ ServerRises(s) \/ SendBeat(s) PROVE NodeTypeOK'
  BY <1>1, <1>a, <1>d, <1>e DEF ServerDies, ServerRises, SendBeat
<1>2. ASSUME NEW s \in Servers, NEW driver \in Drivers, Begin(s, driver) PROVE NodeTypeOK'
  <2>1. (nodeCheck \in Round)'
    BY <1>2, <1>a DEF Begin, Round
  <2>2. (node \in [Servers -> Node])'
    BY <1>2, <1>a, <1>g DEF Begin
  <2> QED
    BY <2>1, <2>2, <1>2, <1>d, <1>e, <1>g DEF Begin
<1>3. ASSUME NEW s \in Servers, ReadPorts(s) \/ Setup(s) PROVE NodeTypeOK'
  BY <1>3, <1>a, <1>d, <1>e DEF ReadPorts, Setup, Gets
<1>4. ASSUME NEW s \in Servers, GetsOld(s) PROVE NodeTypeOK'
  <2>1. node' = [node EXCEPT ![s] = [node[s] EXCEPT !.fresh = FALSE]]
    BY <1>4 DEF GetsOld
  <2>2. [node[s] EXCEPT !.fresh = FALSE] \in Node
    BY <1>b, <1>f
  <2>3. (node \in [Servers -> Node])'
    BY <2>1, <2>2, <1>a
  <2> QED
    BY <2>3, <1>4, <1>a, <1>d, <1>e DEF GetsOld
<1>5. CASE Keepalive
  <2>1. node' = IF node[Default].known
                THEN [node EXCEPT ![Default] = [node[Default] EXCEPT !.fresh = TRUE]] ELSE node
    BY <1>5 DEF Keepalive, Refreshed
  <2>2. [node[Default] EXCEPT !.fresh = TRUE] \in Node
    BY <1>b, <1>f, <1>g
  <2>3. (node \in [Servers -> Node])'
    BY <2>1, <2>2, <1>a, <1>g
  <2> QED
    BY <2>3, <1>5, <1>a, <1>d, <1>e DEF Keepalive
<1>6. CASE CheckBegins \/ CheckEnds
  <2>1. Known \in SUBSET Servers
    BY DEF Known
  <2>2. [Waiting EXCEPT !.pc = "range", !.left = Known] \in Round /\ Waiting \in Round
    BY <2>1 DEF Waiting, Round
  <2>3. (nodeCheck \in Round)'
    BY <2>2, <1>6 DEF CheckBegins, CheckEnds
  <2> QED
    BY <2>3, <1>6, <1>a, <1>d, <1>e DEF CheckBegins, CheckEnds
<1>7. ASSUME NEW s \in Servers, TakesFresh(s) PROVE NodeTypeOK'
  <2>1. node' = [node EXCEPT ![s] = [node[s] EXCEPT !.online = TRUE]]
    BY <1>7 DEF TakesFresh
  <2> QED
    BY <2>1, <1>7, <1>a, <1>b, <1>c, <1>d, <1>e, <1>f DEF TakesFresh, Passed
<1>8. ASSUME NEW s \in Servers, Pings(s) PROVE NodeTypeOK'
  BY <1>8, <1>a, <1>c, <1>d, <1>e DEF Pings, Passed
<1>9. CASE PingEnds
  <2>1. CASE nodeCheck.at = NoServer
    <3>1. (nodeCheck \in Round)'
      BY <1>9, <1>a DEF PingEnds, Round
    <3> QED
      BY <2>1, <3>1, <1>9, <1>a, <1>d, <1>e DEF PingEnds
  <2>2. CASE nodeCheck.at # NoServer
    <3>1. nodeCheck.at \in Servers
      BY <2>2, <1>a DEF Round
    <3>2. \A n \in Node, up \in BOOLEAN : Pinged(n, up) \in Node
      BY <1>b DEF Pinged
    <3>3. node' = [node EXCEPT ![nodeCheck.at] =
                     Pinged(node[nodeCheck.at], nodeCheck.pc = "answered")]
      BY <2>2, <1>9 DEF PingEnds
    <3>4. Pinged(node[nodeCheck.at], nodeCheck.pc = "answered") \in Node
      BY <3>1, <3>2, <1>f
    <3> QED
      BY <3>1, <3>3, <3>4, <1>9, <1>a, <1>c, <1>d, <1>e DEF PingEnds
  <2> QED
    BY <2>1, <2>2
<1>10. CASE UNCHANGED nodeVars
  BY <1>10 DEF nodeVars, NodeTypeOK
<1> QED
  BY <1>1, <1>2, <1>3, <1>4, <1>5, <1>6, <1>7, <1>8, <1>9, <1>10 DEF NodeNext, Check

----------------------------------------------------------------------------
(* AiTasks: what the tasks and the calls are made of.  A call at work, and the
   goroutine at work, has a camera. *)

AiInv ==
  /\ AiTypeOK
  /\ \A a \in Calls : call[a].pc \in {"rpc", "store", "delete"} => call[a].cam \in Cameras
  /\ sync.pc \in {"store", "delete"} => sync.cam \in Cameras

\* Nothing is analysed, and no call has come.
LEMMA AiStarts == AiInit => AiInv
BY AiAssumption DEF AiInit, AiInv, AiTypeOK, Idle

\* The steps of the calls.
LEMMA AiCall ==
  ASSUME AiInv, NEW a \in Calls, Called(a)
  PROVE  AiInv'
<1> USE AiAssumption DEF AiInv, AiTypeOK, InCall, CallGoes, switchVars, processVars
<1>1. CASE StartFails(a)
  BY <1>1 DEF StartFails
<1>2. CASE StartCamera(a)
  BY <1>2 DEF StartCamera, Started
<1>3. CASE StoreTask(a)
  BY <1>3 DEF StoreTask, StoreEntry
<1>4. CASE StopCamera(a)
  BY <1>4 DEF StopCamera, Ended
<1>5. CASE DeleteTask(a)
  BY <1>5 DEF DeleteTask, DeleteEntry
<1> QED
  BY <1>1, <1>2, <1>3, <1>4, <1>5 DEF Called

\* The steps of the goroutine.
LEMMA AiSync ==
  ASSUME AiInv, Sync \/ \E c \in Cameras : SyncStarts(c)
  PROVE  AiInv'
<1> USE AiAssumption DEF AiInv, AiTypeOK, switchVars, processVars
<1>1. CASE SyncReadsRows
  <2>1. sync' = [pc |-> "memory", db |-> Wanted, memory |-> {}, cam |-> NoCamera]
    BY <1>1 DEF SyncReadsRows, Idle
  <2>2. Wanted \in SUBSET Cameras
    BY DEF Wanted
  <2> QED
    BY <1>1, <2>1, <2>2 DEF SyncReadsRows
<1>2. CASE SyncReadsTable
  BY <1>2 DEF SyncReadsTable
<1>3. CASE SyncStores
  BY <1>3 DEF SyncStores, StoreEntry
<1>4. CASE SyncDeletes
  BY <1>4 DEF SyncDeletes, DeleteEntry
<1>5. CASE SyncEnds
  BY <1>5 DEF SyncEnds, Idle
<1>6. ASSUME NEW c \in Cameras, SyncStartFails(c) PROVE AiInv'
  BY <1>6 DEF SyncStartFails
<1>7. ASSUME NEW c \in Cameras, SyncStops(c) PROVE AiInv'
  BY <1>7 DEF SyncStops, Ended
<1>8. ASSUME NEW c \in Cameras, SyncStarts(c) PROVE AiInv'
  BY <1>8 DEF SyncStarts, Started
<1> QED
  BY <1>1, <1>2, <1>3, <1>4, <1>5, <1>6, <1>7, <1>8 DEF Sync

\* Every step keeps the types and the cameras of what is at work.
LEMMA AiStep == AiInv /\ [AiNext]_aiVars => AiInv'
<1> SUFFICES ASSUME AiInv, [AiNext]_aiVars PROVE AiInv'
  OBVIOUS
<1>1. CASE Sync \/ \E c \in Cameras : SyncStarts(c)
  BY <1>1, AiSync
<1>2. ASSUME NEW a \in Calls, Called(a) PROVE AiInv'
  BY <1>2, AiCall
<1> USE AiAssumption DEF AiInv, AiTypeOK, switchVars, processVars
<1>3. ASSUME NEW c \in Cameras, GivesUp(c) \/ StoppedLost(c) \/ ChannelTurns(c) PROVE AiInv'
  BY <1>3 DEF GivesUp, StoppedLost, ChannelTurns
<1>4. ASSUME NEW c \in Cameras, OnStopped(c) PROVE AiInv'
  BY <1>4 DEF OnStopped, DeleteEntry
<1>5. ASSUME NEW c \in Cameras, NEW a \in Calls, SetEnabled(a, c) PROVE AiInv'
  BY <1>5 DEF SetEnabled, InCall
<1>6. CASE ProcessRestarts
  BY <1>6 DEF ProcessRestarts
<1>7. CASE UNCHANGED aiVars
  BY <1>7 DEF aiVars
<1> QED
  BY <1>1, <1>2, <1>3, <1>4, <1>5, <1>6, <1>7 DEF AiNext

----------------------------------------------------------------------------
(* OnvifHealth: what the objects, the rows and the calls are made of. *)

\* The process begins on any rows.
LEMMA OnvifStarts == OnvifInit => OnvifTypeOK
BY OnvifAssumption DEF OnvifInit, OnvifTypeOK, Unmapped, OnvifRows, AtRest, Ages, Expired

\* Every step keeps the types of the objects, the rows and the calls.
LEMMA OnvifStep == OnvifTypeOK /\ [OnvifNext]_onvifVars => OnvifTypeOK'
<1> SUFFICES ASSUME OnvifTypeOK, [OnvifNext]_onvifVars PROVE OnvifTypeOK'
  OBVIOUS
<1> DEFINE Object == [mapped : BOOLEAN, heard : BOOLEAN, age : Ages, online : BOOLEAN]
           Row == {"new", "online", "offline", "gone"}
           Checker == [pc : {"wait"}] \cup [pc : {"sync"}, at : OnvifDevices, to : {"online", "offline"}]
<1>a. /\ row \in [OnvifDevices -> Row] /\ object \in [OnvifDevices -> Object]
      /\ starting \subseteq OnvifDevices /\ answers \subseteq OnvifDevices /\ beat \subseteq OnvifDevices
      /\ saving \subseteq OnvifDevices /\ asking \subseteq OnvifDevices /\ deleting \subseteq OnvifDevices
      /\ check \in Checker
      /\ saves \in 0..MaxSaves /\ dbErrors \in 0..MaxDbErrors /\ missed \subseteq OnvifDevices
      /\ MaxSaves \in Nat /\ MaxDbErrors \in Nat
  BY OnvifAssumption DEF OnvifTypeOK
<1>b. OnvifTypeOK' <=>
      /\ (row \in [OnvifDevices -> Row])' /\ (object \in [OnvifDevices -> Object])'
      /\ starting' \subseteq OnvifDevices /\ answers' \subseteq OnvifDevices /\ beat' \subseteq OnvifDevices
      /\ saving' \subseteq OnvifDevices /\ asking' \subseteq OnvifDevices /\ deleting' \subseteq OnvifDevices
      /\ (check \in Checker)'
      /\ saves' \in 0..MaxSaves /\ dbErrors' \in 0..MaxDbErrors /\ missed' \subseteq OnvifDevices
  BY DEF OnvifTypeOK
<1>c. \A d \in OnvifDevices, o \in Object :
        /\ [object EXCEPT ![d] = o] \in [OnvifDevices -> Object]
        /\ [o EXCEPT !.online = ~@] \in Object
        /\ \A n \in Ages : [o EXCEPT !.age = n] \in Object
  BY <1>a
<1>k. \A o \in Object : HeardFrom(o) \in Object
  <2>1. 0 \in Ages
    BY DEF Ages, Expired
  <2> QED
    BY <2>1 DEF HeardFrom
<1>d. \A d \in OnvifDevices, v \in {"new", "online", "offline", "gone"} :
         [row EXCEPT ![d] = v] \in [OnvifDevices -> Row]
  BY <1>a
<1>e. Unmapped \in Object /\ \A up \in BOOLEAN : Connected(up) \in Object
  <2>1. 0 \in Ages
    BY DEF Ages, Expired
  <2>2. Unmapped \in Object
    BY <2>1 DEF Unmapped
  <2>3. \A o \in Object, up \in BOOLEAN : [o EXCEPT !.mapped = TRUE, !.online = up] \in Object
    OBVIOUS
  <2> QED
    BY <2>2, <2>3 DEF Connected
<1>f. \A d \in OnvifDevices : object[d] \in Object
  BY <1>a
<1>g. AtRest \in Checker /\ \A d \in OnvifDevices, v \in {"online", "offline"} :
         [pc |-> "sync", at |-> d, to |-> v] \in Checker
  BY DEF AtRest
<1>h. check.pc = "sync" => check.at \in OnvifDevices /\ check.to \in {"online", "offline"}
  BY <1>a
<1> HIDE DEF Object, Row, Checker
\* What an edit of a row does to it, and what is stored.
<1>i. ASSUME NEW d \in OnvifDevices, NEW v \in {"online", "offline"}, EditRow(d, v)
      PROVE  (row \in [OnvifDevices -> Row])' /\ dbErrors' \in 0..MaxDbErrors
             /\ missed' \subseteq OnvifDevices
  BY <1>i, <1>a, <1>d DEF EditRow
<1>j. ASSUME NEW d \in OnvifDevices, NEW up \in BOOLEAN, Store(d, up)
      PROVE  (object \in [OnvifDevices -> Object])' /\ beat' \subseteq OnvifDevices
  BY <1>j, <1>a, <1>c, <1>e DEF Store
<1>1. ASSUME NEW d \in OnvifDevices, Device(d) PROVE OnvifTypeOK'
  BY <1>1, <1>a, <1>b DEF Device
<1>2. ASSUME NEW d \in OnvifDevices, Start(d) PROVE OnvifTypeOK'
  BY <1>2, <1>a, <1>b, <1>i, <1>j DEF Start
<1>3. ASSUME NEW d \in OnvifDevices, Save(d) PROVE OnvifTypeOK'
  BY <1>3, <1>a, <1>b, <1>d DEF Save
<1>4. ASSUME NEW d \in OnvifDevices, Connect(d) PROVE OnvifTypeOK'
  BY <1>4, <1>a, <1>b, <1>j DEF Connect
<1>5. ASSUME NEW d \in OnvifDevices, Ask(d) PROVE OnvifTypeOK'
  BY <1>5, <1>a, <1>b DEF Ask
<1>6. ASSUME NEW d \in OnvifDevices, Reconnect(d) PROVE OnvifTypeOK'
  BY <1>6, <1>a, <1>b, <1>j DEF Reconnect
<1>7. ASSUME NEW d \in OnvifDevices, DeleteRow(d) PROVE OnvifTypeOK'
  BY <1>7, <1>a, <1>b, <1>d DEF DeleteRow
<1>8. ASSUME NEW d \in OnvifDevices, DeleteDevice(d) PROVE OnvifTypeOK'
  BY <1>8, <1>a, <1>b, <1>c, <1>e DEF DeleteDevice
<1>9. ASSUME NEW d \in OnvifDevices, BeatEnds(d) PROVE OnvifTypeOK'
  <2>1. object' = IF d \in answers THEN [object EXCEPT ![d] = HeardFrom(object[d])] ELSE object
    BY <1>9 DEF BeatEnds
  <2>2. (object \in [OnvifDevices -> Object])'
    BY <2>1, <1>a, <1>c, <1>f, <1>k
  <2> QED
    BY <2>2, <1>9, <1>a, <1>b DEF BeatEnds
<1>10. ASSUME NEW d \in OnvifDevices, Flip(d) PROVE OnvifTypeOK'
  <2>1. object' = [object EXCEPT ![d] = [object[d] EXCEPT !.online = ~@]]
    BY <1>10 DEF Flip
  <2>2. (check \in Checker)'
    BY <1>10, <1>g DEF Flip
  <2>3. (object \in [OnvifDevices -> Object])'
    BY <2>1, <1>c, <1>f
  <2> QED
    BY <2>2, <2>3, <1>10, <1>a, <1>b DEF Flip
<1>11. CASE Interval
  <2>1. \A d \in OnvifDevices :
          [object[d] EXCEPT !.age = IF object[d].heard /\ @ < Expired THEN @ + 1 ELSE @] \in Object
    <3> SUFFICES ASSUME NEW d \in OnvifDevices
                 PROVE  (IF object[d].heard /\ object[d].age < Expired THEN object[d].age + 1
                         ELSE object[d].age) \in Ages
      BY <1>c, <1>f
    <3>1. object[d].age \in Ages
      BY <1>f DEF Object
    <3> QED
      BY <3>1 DEF Ages, Expired
  <2>2. (object \in [OnvifDevices -> Object])'
    BY <2>1, <1>11 DEF Interval
  <2> QED
    BY <2>2, <1>11, <1>a, <1>b DEF Interval
<1>12. CASE SyncRow
  BY <1>12, <1>a, <1>b, <1>g, <1>h, <1>i DEF SyncRow
<1>13. CASE UNCHANGED onvifVars
  BY <1>13 DEF onvifVars, OnvifTypeOK
<1> QED
  BY <1>1, <1>2, <1>3, <1>4, <1>5, <1>6, <1>7, <1>8, <1>9, <1>10, <1>11, <1>12, <1>13 DEF OnvifNext

----------------------------------------------------------------------------
(* RetentionCleanup: every file is that of a row. *)

CleanBounds ==
  /\ crashes \in 0..MaxPassCrashes
  /\ files \subseteq {FileOf(r) : r \in Rows} /\ excused \subseteq {FileOf(r) : r \in Rows}

\* Nothing is on disk.
LEMMA CleanBoundsStart == CleanInit => CleanBounds
BY RetentionAssumption DEF CleanInit, CleanBounds

\* Every step keeps the files those of rows.
LEMMA CleanBoundsStep ==
  CleanInv /\ CleanBounds /\ [CleanNext]_cleanVars => CleanBounds'
<1> SUFFICES ASSUME CleanInv, CleanBounds, [CleanNext]_cleanVars PROVE CleanBounds'
  OBVIOUS
<1> DEFINE Files == {FileOf(r) : r \in Rows}
<1>a. /\ crashes \in 0..MaxPassCrashes /\ files \subseteq Files /\ excused \subseteq Files
      /\ \A r \in Rows : FileOf(r) \in Files
      /\ rows \subseteq Rows /\ pass.todo \subseteq Rows /\ MaxPassCrashes \in Nat
  BY RetentionAssumption DEF CleanBounds, CleanInv, CleanTables
<1>b. table' = table => Files' = Files
  BY DEF FileOf
<1>c. CleanBounds' <=>
        crashes' \in 0..MaxPassCrashes /\ files' \subseteq Files' /\ excused' \subseteq Files'
  BY DEF CleanBounds
<1> HIDE DEF Files
<1>1. ASSUME NEW r \in Rows, WriteFile(r) PROVE CleanBounds'
  BY <1>1, <1>a, <1>b, <1>c DEF WriteFile
<1>2. ASSUME NEW r \in Rows, AddRow(r) PROVE CleanBounds'
  BY <1>2, <1>a, <1>b, <1>c DEF AddRow, Inserted, Excuse
<1>3. ASSUME NEW r \in Rows, DeleteByUser(r) PROVE CleanBounds'
  BY <1>3, <1>a, <1>b, <1>c DEF DeleteByUser, Excuse
<1>4. ASSUME NEW r \in Rows, RemoveFile(r) PROVE CleanBounds'
  BY <1>4, <1>a, <1>b, <1>c DEF RemoveFile, Excuse
<1>5. CASE CrashPass
  BY <1>5, <1>a, <1>b, <1>c DEF CrashPass, rowVars
<1>6. CASE PassBegins \/ ExpiredDone \/ DeleteRows \/ DeleteFails \/ OldestDone
           \/ FindExpired \/ FindOldest \/ DayPasses
  BY <1>6, <1>a, <1>b, <1>c DEF PassBegins, ExpiredDone, DeleteRows, DeleteFails, OldestDone,
     FindExpired, FindOldest, DayPasses, rowVars
<1>7. CASE UNCHANGED cleanVars
  BY <1>7, <1>a, <1>b, <1>c DEF cleanVars, rowVars
<1> QED
  BY <1>1, <1>2, <1>3, <1>4, <1>5, <1>6, <1>7 DEF CleanNext, Clean

----------------------------------------------------------------------------
(* StreamSessions: the types, and how often the media server has ended. *)

\* Every step keeps both.
LEMMA StreamTypeStep == StreamTypeOK /\ [StreamNext]_streamVars => StreamTypeOK'
<1> SUFFICES ASSUME StreamTypeOK, [StreamNext]_streamVars PROVE StreamTypeOK'
  OBVIOUS
<1>1. StreamTypes'
  BY StreamTypesStep DEF StreamTypeOK, StreamTypes
<1>2. deaths' = deaths \/ (deaths < MaxServerDeaths /\ deaths' = deaths + 1)
  BY DEF StreamNext, streamVars, Connects, Refuse, Authorise, Begins, TurnedAway, Vanishes, Ends,
     BegunReads, BegunReadFails, BegunStarts, EndedStops, EndedOffline, ServerStarts, OnServerStarted, SetMode,
     ModeApplies
<1>3. deaths' \in 0..MaxServerDeaths
  BY <1>2, StreamAssumption DEF StreamTypeOK
<1> QED
  BY <1>1, <1>3 DEF StreamTypeOK, StreamTypes

----------------------------------------------------------------------------
(* ChannelCounts: a device never shows more channels than calls have counted for it. *)

\* The calls that have counted a channel for d.
CountedFor(d) ==
  {a \in Adders : user[a].dev = d /\ (user[a].pc = "done" \/ (a = d /\ user[a].pc = "row"))}
CountBounds ==
  /\ miscounted \subseteq AllDevices
  /\ \A d \in DOMAIN number : number[d] <= Cardinality(CountedFor(d))

\* Nothing is counted.
LEMMA CountBoundsStart == CountInit => CountBounds
<1> SUFFICES ASSUME CountInit PROVE CountBounds
  OBVIOUS
<1>1. ASSUME NEW d \in OldDevices PROVE 0 <= Cardinality(CountedFor(d))
  <2>1. IsFiniteSet(CountedFor(d))
    BY FS_Subset, CountAssumption DEF CountedFor
  <2> QED
    BY <2>1, FS_CardinalityType
<1> QED
  BY <1>1 DEF CountInit, CountBounds

\* A number that does not grow stays within bounds when no count is forgotten.
LEMMA BoundStays ==
  ASSUME CountTables, CountTables', CountBounds, NEW d \in DOMAIN number, NEW n \in Nat,
         n <= number[d], CountedFor(d) \subseteq CountedFor(d)'
  PROVE  n <= Cardinality(CountedFor(d)')
<1>1. IsFiniteSet(CountedFor(d)) /\ IsFiniteSet(CountedFor(d)')
  BY FS_Subset, CountAssumption DEF CountedFor
<1>2. Cardinality(CountedFor(d)) <= Cardinality(CountedFor(d)')
  BY <1>1, FS_Subset
<1>3. Cardinality(CountedFor(d)) \in Nat /\ Cardinality(CountedFor(d)') \in Nat
  BY <1>1, FS_CardinalityType
<1>4. number[d] \in Nat /\ number[d] <= Cardinality(CountedFor(d))
  BY DEF CountBounds, CountTables
<1> QED
  BY <1>2, <1>3, <1>4

\* Every step keeps the numbers within the channels counted.
LEMMA CountBoundsStep ==
  CountInv /\ CountTables' /\ CountBounds /\ [CountNext]_countVars => CountBounds'
<1> SUFFICES ASSUME CountInv, CountTables', CountBounds, [CountNext]_countVars
             PROVE  CountBounds'
  OBVIOUS
<1>a. CountTables
  BY DEF CountInv
<1>b. ASSUME NEW d \in DOMAIN number, d \in (DOMAIN number)', number'[d] <= number[d],
             CountedFor(d) \subseteq CountedFor(d)'
      PROVE  number'[d] <= Cardinality(CountedFor(d)')
  <2>1. number'[d] \in Nat
    BY <1>b DEF CountTables
  <2> QED
    BY <2>1, <1>a, <1>b, BoundStays
<1>c. ASSUME \A d \in (DOMAIN number)' :
               number'[d] <= Cardinality(CountedFor(d)'),
             miscounted' \subseteq AllDevices
      PROVE  CountBounds'
  BY <1>c DEF CountBounds, AllDevices, CountedFor
<1>d. miscounted \subseteq AllDevices /\ DOMAIN number \subseteq AllDevices
      /\ \A d \in DOMAIN number : number[d] \in Nat
  BY <1>a DEF CountBounds, CountTables
\* Steps that forget no count, and let no number grow.
<1>e. ASSUME DOMAIN number' \subseteq DOMAIN number, miscounted' \subseteq AllDevices,
             \A d \in DOMAIN number' : number'[d] <= number[d],
             \A d \in DOMAIN number' : CountedFor(d) \subseteq CountedFor(d)'
      PROVE  CountBounds'
  BY <1>b, <1>c, <1>e
<1>f. ASSUME number' = number
      PROVE  DOMAIN number' \subseteq DOMAIN number /\ \A d \in DOMAIN number' : number'[d] <= number[d]
  BY <1>d, <1>f
<1> USE CountAssumption DEF IsAt, Moves
<1>1. ASSUME NEW a \in Adders, NEW d \in AllDevices, FindDevice(a, d) PROVE CountBounds'
  <2>1. \A x : CountedFor(x) \subseteq CountedFor(x)'
    BY <1>1, <1>a DEF FindDevice, CountedFor, CountTables
  <2> QED
    BY <2>1, <1>1, <1>d, <1>e, <1>f DEF FindDevice
<1>2. ASSUME NEW a \in Adders, MakeDevice(a) PROVE CountBounds'
  <2>1. a \notin DOMAIN number /\ user[a].pc = "new"
    BY <1>2 DEF MakeDevice, CountInv, CountFresh
  <2>2. \A x : CountedFor(x) \subseteq CountedFor(x)'
    BY <1>2, <1>a DEF MakeDevice, CountedFor, CountTables
  <2>3. number'[a] = 1 /\ DOMAIN number' = DOMAIN number \cup {a}
        /\ \A d \in DOMAIN number : number'[d] = number[d]
    BY <2>1, <1>2 DEF MakeDevice
  <2>4. 1 <= Cardinality(CountedFor(a)')
    <3>1. user'[a] = [pc |-> "row", dev |-> a]
      BY <1>2, <1>a DEF MakeDevice, CountTables, Users
    <3>2. {a} \subseteq CountedFor(a)' /\ IsFiniteSet(CountedFor(a)')
      BY <3>1, FS_Subset DEF CountedFor
    <3>3. Cardinality({a}) = 1
      BY FS_Singleton
    <3> QED
      BY <3>2, <3>3, FS_Subset
  <2>5. \A d \in DOMAIN number : number'[d] <= Cardinality(CountedFor(d)')
    BY <1>b, <1>d, <2>2, <2>3
  <2>6. miscounted' = miscounted
    BY <1>2 DEF MakeDevice
  <2> QED
    BY <2>3, <2>4, <2>5, <2>6, <1>c, <1>d
<1>3. ASSUME NEW a \in Adders, AddChannelRow(a) PROVE CountBounds'
  <2>1. \A x : CountedFor(x) \subseteq CountedFor(x)'
    BY <1>3, <1>a DEF AddChannelRow, CountedFor, CountTables, Users
  <2> QED
    BY <2>1, <1>3, <1>d, <1>e, <1>f DEF AddChannelRow
<1>4. ASSUME NEW a \in Adders, AddChannelRowFails(a) PROVE CountBounds'
  <2>1. \A x : CountedFor(x) \subseteq CountedFor(x)'
    BY <1>4, <1>a DEF AddChannelRowFails, CountedFor, CountTables, Users
  <2>2. miscounted' \subseteq AllDevices
    BY <1>4, <1>d DEF AddChannelRowFails, AllDevices
  <2> QED
    BY <2>1, <2>2, <1>4, <1>e, <1>f DEF AddChannelRowFails
<1>5. ASSUME NEW a \in Adders, Count(a) PROVE CountBounds'
  <2>1. \A x : CountedFor(x) \subseteq CountedFor(x)'
    BY <1>5, <1>a DEF Count, CountedFor, CountTables, Users
  <2>2. miscounted' = miscounted /\ DOMAIN number' = DOMAIN number
        /\ \A d \in DOMAIN number :
             number'[d] = IF d = user[a].dev THEN number[d] + 1 ELSE number[d]
    BY <1>5 DEF Count
  <2>3. ASSUME NEW d \in DOMAIN number, d # user[a].dev
        PROVE  number'[d] <= Cardinality(CountedFor(d)')
    BY <2>1, <2>2, <2>3, <1>b, <1>d
  <2>4. ASSUME NEW d \in DOMAIN number, d = user[a].dev
        PROVE  number'[d] <= Cardinality(CountedFor(d)')
    <3>1. a \notin CountedFor(d) /\ CountedFor(d) \cup {a} \subseteq CountedFor(d)'
      BY <1>5, <2>1, <2>4, <1>a DEF Count, CountedFor, CountTables, Users
    <3>2. IsFiniteSet(CountedFor(d)) /\ IsFiniteSet(CountedFor(d)')
      BY FS_Subset DEF CountedFor
    <3>3. Cardinality(CountedFor(d) \cup {a}) = Cardinality(CountedFor(d)) + 1
      BY <3>1, <3>2, FS_AddElement
    <3>4. Cardinality(CountedFor(d) \cup {a}) <= Cardinality(CountedFor(d)')
      BY <3>1, <3>2, FS_Subset
    <3>5. Cardinality(CountedFor(d)) \in Nat /\ Cardinality(CountedFor(d)') \in Nat
      BY <3>2, FS_CardinalityType
    <3>6. number[d] <= Cardinality(CountedFor(d))
      BY DEF CountBounds
    <3> QED
      BY <2>2, <2>4, <3>3, <3>4, <3>5, <3>6, <1>d
  <2> QED
    BY <2>2, <2>3, <2>4, <1>c, <1>d
<1>6. ASSUME NEW u \in Deleters, NEW c \in Adders, DeleteChannelRow(u, c) PROVE CountBounds'
  <2>1. \A x : CountedFor(x) \subseteq CountedFor(x)'
    BY <1>6, <1>a DEF DeleteChannelRow, CountedFor, CountTables
  <2> QED
    BY <2>1, <1>6, <1>d, <1>e, <1>f DEF DeleteChannelRow
<1>7. ASSUME NEW u \in Deleters, Uncount(u) PROVE CountBounds'
  <2>1. \A x : CountedFor(x) \subseteq CountedFor(x)'
    BY <1>7, <1>a DEF Uncount, CountedFor, CountTables
  <2>2. DOMAIN number' = DOMAIN number /\ \A d \in DOMAIN number : number'[d] <= number[d]
    BY <1>7, <1>d DEF Uncount
  <2>3. miscounted' \subseteq AllDevices
    BY <1>7, <1>d DEF Uncount
  <2> QED
    BY <2>1, <2>2, <2>3, <1>e
<1>8. ASSUME NEW r \in Removers, NEW d \in AllDevices, RemoveDevice(r, d) PROVE CountBounds'
  <2>1. \A x : CountedFor(x) \subseteq CountedFor(x)'
    BY <1>8, <1>a DEF RemoveDevice, CountedFor, CountTables
  <2>2. DOMAIN number' \subseteq DOMAIN number /\ \A x \in DOMAIN number' : number'[x] <= number[x]
    BY <1>8, <1>d DEF RemoveDevice, Without
  <2> QED
    BY <2>1, <2>2, <1>8, <1>d, <1>e DEF RemoveDevice
<1>9. ASSUME NEW r \in Removers, RemoveChannels(r) \/ RemoveFails(r) PROVE CountBounds'
  <2>1. \A x : CountedFor(x) \subseteq CountedFor(x)'
    <3>1. user' = [user EXCEPT ![r] = [pc |-> "done", dev |-> user[r].dev]] /\ r \notin Adders
      BY <1>9 DEF RemoveChannels, RemoveFails
    <3>2. \A a \in Adders : user'[a] = user[a]
      BY <3>1, <1>a DEF CountTables, Users
    <3> QED
      BY <3>2 DEF CountedFor
  <2> QED
    BY <2>1, <1>9, <1>d, <1>e, <1>f DEF RemoveChannels, RemoveFails
<1>10. CASE UNCHANGED countVars
  BY <1>10 DEF countVars, CountBounds, CountedFor, AllDevices
<1>11. ASSUME NEW a \in Adders, CountFails(a) PROVE CountBounds'
  <2>1. \A x : CountedFor(x) \subseteq CountedFor(x)'
    BY <1>11, <1>a DEF CountFails, NumberStays, CountedFor, CountTables, Users
  <2>2. miscounted' \subseteq AllDevices
    BY <1>11, <1>d DEF CountFails, NumberStays
  <2> QED
    BY <2>1, <2>2, <1>11, <1>e, <1>f DEF CountFails, NumberStays
<1>12. ASSUME NEW u \in Deleters, UncountFails(u) PROVE CountBounds'
  <2>1. \A x : CountedFor(x) \subseteq CountedFor(x)'
    BY <1>12, <1>a DEF UncountFails, NumberStays, CountedFor, CountTables, Users
  <2>2. miscounted' \subseteq AllDevices
    BY <1>12, <1>d DEF UncountFails, NumberStays
  <2> QED
    BY <2>1, <2>2, <1>12, <1>e, <1>f DEF UncountFails, NumberStays
<1> QED
  BY <1>1, <1>2, <1>3, <1>4, <1>5, <1>6, <1>7, <1>8, <1>9, <1>10, <1>11, <1>12
  DEF CountNext

----------------------------------------------------------------------------
(* All of them: what the state of each service is made of. *)

HostInv ==
  /\ NodeTypeOK /\ CleanInv /\ CleanBounds /\ AiInv /\ OnvifTypeOK
  /\ StreamTypeOK /\ CountInv /\ CountBounds /\ SnapInv /\ IInv

\* A step is one of a single service.
LEMMA OnePart ==
  [HostNext]_hostVars =>
    /\ [NodeNext]_nodeVars /\ [CleanNext]_cleanVars /\ [AiNext]_aiVars /\ [OnvifNext]_onvifVars
    /\ [StreamNext]_streamVars /\ [CountNext]_countVars /\ [SnapNext]_snapVars
    /\ [HandlersNext]_handlerVars
BY DEF HostNext, hostVars, InNodes, InRetention, InAnalysis, InOnvif, InStreams, InChannels,
   InPictures, InRequests

\* The invariants of the services say what their states are made of.
LEMMA HostInvTypes == HostInv => HostTypeOK
<1>1. ASSUME CleanInv, CleanBounds PROVE CleanTypeOK
  BY <1>1 DEF CleanInv, CleanBounds, CleanTables, BatchInv, CleanTypeOK
<1>2. ASSUME CountInv, CountBounds PROVE CountTypeOK
  <2>1. \A d \in DOMAIN number : number[d] \in 0..Cardinality(Adders)
    <3> SUFFICES ASSUME NEW d \in DOMAIN number PROVE number[d] \in 0..Cardinality(Adders)
      OBVIOUS
    <3>1. CountedFor(d) \subseteq Adders
      BY DEF CountedFor
    <3>2. Cardinality(CountedFor(d)) <= Cardinality(Adders) /\ IsFiniteSet(CountedFor(d))
      BY <3>1, CountAssumption, FS_Subset
    <3>3. Cardinality(CountedFor(d)) \in Nat /\ Cardinality(Adders) \in Nat
      BY <3>2, CountAssumption, FS_CardinalityType
    <3>4. number[d] \in Nat /\ number[d] <= Cardinality(CountedFor(d))
      BY <1>2 DEF CountBounds, CountInv, CountTables
    <3> QED
      BY <3>2, <3>3, <3>4
  <2> QED
    BY <1>2, <2>1 DEF CountInv, CountTables, CountBounds, CountTypeOK
<1>3. IInv => HandlersTypeOK
  BY InvTypes
<1> QED
  BY <1>1, <1>2, <1>3 DEF HostInv, HostTypeOK, AiInv, SnapInv

\* The state of each service keeps its types, whichever of them runs: in particular no
\* device shows more channels than calls have added (AddChannel, DelChannel), every file
\* is that of a row (onRecordMP4, onEvents), and a check, a call or a goroutine at work
\* has the node, the device or the camera that it is at work on (tickCheck,
\* syncDeviceStatusToDB, syncAITasks).
THEOREM HostTyped == HostSpec => []HostTypeOK
<1>1. HostInit => HostInv
  <2>1. StreamInit => StreamTypeOK
    BY StreamStarts, StreamAssumption DEF StreamInv, StreamTypes, StreamTypeOK, StreamInit
  <2> QED
    BY <2>1, NodeStarts, CleanStarts, CleanBoundsStart, AiStarts, OnvifStarts, CountStarts,
       CountBoundsStart, SnapStarts, InvInit DEF HostInit, HostInv
<1>2. HostInv /\ [HostNext]_hostVars => HostInv'
  <2>1. CountInv /\ [CountNext]_countVars => CountInv'
    BY CountTablesStep, CountFreshStep, CountRemovedStep, BalanceStep DEF CountInv
  <2>2. CountInv' => CountTables'
    BY DEF CountInv
  <2>3. CleanInv /\ [CleanNext]_cleanVars => CleanInv'
    BY CleanTablesStep, BatchStep, FilesStep DEF CleanInv
  <2>4. HostInv' <=>
          /\ NodeTypeOK' /\ CleanInv' /\ CleanBounds' /\ AiInv' /\ OnvifTypeOK'
          /\ StreamTypeOK' /\ CountInv' /\ CountBounds' /\ SnapInv' /\ IInv'
    BY DEF HostInv
  <2> QED
    BY <2>1, <2>2, <2>3, <2>4, OnePart, NodeStep, CleanBoundsStep, AiStep, OnvifStep,
       StreamTypeStep, CountBoundsStep, SnapStep, NextKeeps DEF HostInv
<1> QED
  BY <1>1, <1>2, HostInvTypes, PTL DEF HostSpec
=============================================================================
