---------------------------- MODULE OnvifHealth ----------------------------
(***************************************************************************)
(* The ONVIF devices and what the server shows of them: an object in       *)
(* memory for each connected device and a row.  Every 30 s one goroutine   *)
(* asks every object's device something and notes the time of the answer;  *)
(* every second another takes an object whose last answer is 70 s old as   *)
(* offline, and writes to the row what has changed in the object.  Adding, *)
(* editing, querying and deleting a device cross both.                     *)
(*                                                                         *)
(* `age` counts the 30 s intervals since the last answer.  The model       *)
(* begins with the start of the process, on any rows.                      *)
(***************************************************************************)
EXTENDS Naturals

CONSTANTS
  OnvifDevices,        \* the ONVIF devices
  MaxSaves,       \* bound on the devices added and edited, and on the catalogs asked for
  MaxDbErrors     \* bound on the edits of a row that fail

ASSUME OnvifAssumption == MaxSaves \in Nat /\ MaxDbErrors \in Nat

VARIABLES
  row,            \* ipc.Device: "new", "online", "offline", "gone"
  object,         \* Adapter.devices: [mapped, heard, age, online]
  starting,       \* goroutines of init
  answers,        \* devices that answer now
  beat,           \* heartbeats on their way
  saving, asking, deleting,  \* calls of Add/EditDevice, QueryCatalog, DelDevice between two steps
  check,          \* the status checker: what it has to write to a row
  saves, dbErrors,
  missed          \* history: rows that a failed edit or connection left behind

onvifVars == <<row, object, starting, answers, beat, saving, asking, deleting, check,
               saves, dbErrors, missed>>

Expired == 3      \* intervals: heartbeatTimeout is 70 s, heartbeatInterval 30 s
Ages == 0..Expired

Unmapped == [mapped |-> FALSE, heard |-> FALSE, age |-> 0, online |-> FALSE]
Connected(up) == [Unmapped EXCEPT !.mapped = TRUE, !.online = up]
OnvifRows == {d \in OnvifDevices : row[d] \in {"online", "offline"}}
AtRest == [pc |-> "wait"]

OnvifInit ==
  /\ row \in [OnvifDevices -> {"new", "online", "offline"}]
  /\ object = [d \in OnvifDevices |-> Unmapped]
  /\ starting = OnvifRows
  /\ answers \in SUBSET OnvifDevices
  /\ beat = {} /\ saving = {} /\ asking = {} /\ deleting = {} /\ missed = {}
  /\ check = AtRest
  /\ saves = 0 /\ dbErrors = 0

Device(d) ==
  /\ answers' = IF d \in answers THEN answers \ {d} ELSE answers \cup {d}
  /\ UNCHANGED <<row, object, starting, beat, saving, asking, deleting, check, saves, dbErrors, missed>>

\* a.devices.Store: an answer that the old object waits for goes to that.
Store(d, up) ==
  /\ object' = [object EXCEPT ![d] = Connected(up)]
  /\ beat' = beat \ {d}

\* a.adapter.Edit, which may fail; the caller only logs it.
EditRow(d, value) ==
  \/ /\ row' = IF d \in OnvifRows THEN [row EXCEPT ![d] = value] ELSE row
     /\ UNCHANGED <<dbErrors, missed>>
  \/ /\ dbErrors < MaxDbErrors /\ dbErrors' = dbErrors + 1
     /\ missed' = missed \cup {d}
     /\ UNCHANGED row

----------------------------------------------------------------------------
(* init, one goroutine for each row: a device that does not answer has its *)
(* row edited and, unless NewDevice returned it all the same, no object.   *)

Start(d) ==
  /\ d \in starting /\ starting' = starting \ {d}
  /\ \/ /\ d \in answers
        /\ Store(d, TRUE)
        /\ UNCHANGED <<row, dbErrors, missed>>
     \/ /\ d \notin answers
        /\ EditRow(d, "offline")
        /\ Store(d, FALSE) \/ UNCHANGED <<object, beat>>
  /\ UNCHANGED <<answers, saving, asking, deleting, check, saves>>

----------------------------------------------------------------------------
(* The calls of the ipc core. *)

\* AddDevice and EditDevice, up to the row: ValidateDevice asks the device.
Save(d) ==
  /\ row[d] # "gone" /\ d \notin saving /\ d \in answers
  /\ saves < MaxSaves /\ saves' = saves + 1
  /\ row' = [row EXCEPT ![d] = "online"]
  /\ saving' = saving \cup {d}
  /\ UNCHANGED <<object, starting, answers, beat, asking, deleting, check, dbErrors, missed>>

\* InitDevice: when the device no longer answers the old object stays.
Connect(d) ==
  /\ d \in saving /\ saving' = saving \ {d}
  /\ \/ d \in answers /\ Store(d, TRUE) /\ UNCHANGED missed
     \/ d \notin answers /\ missed' = missed \cup {d} /\ UNCHANGED <<object, beat>>
  /\ UNCHANGED <<row, starting, answers, asking, deleting, check, saves, dbErrors>>

\* QueryCatalog, up to the row it reads.
Ask(d) ==
  /\ d \in OnvifRows \ asking
  /\ saves < MaxSaves /\ saves' = saves + 1
  /\ asking' = asking \cup {d}
  /\ UNCHANGED <<row, object, starting, answers, beat, saving, deleting, check, dbErrors, missed>>

\* A device without an object is connected again.
Reconnect(d) ==
  /\ d \in asking /\ asking' = asking \ {d}
  /\ IF ~object[d].mapped /\ d \in answers THEN Store(d, TRUE) ELSE UNCHANGED <<object, beat>>
  /\ UNCHANGED <<row, starting, answers, saving, deleting, check, saves, dbErrors, missed>>

DeleteRow(d) ==
  /\ d \in OnvifRows
  /\ row' = [row EXCEPT ![d] = "gone"]
  /\ deleting' = deleting \cup {d}
  /\ UNCHANGED <<object, starting, answers, beat, saving, asking, check, saves, dbErrors, missed>>

DeleteDevice(d) ==
  /\ d \in deleting /\ deleting' = deleting \ {d}
  /\ object' = [object EXCEPT ![d] = Unmapped]
  /\ beat' = beat \ {d}
  /\ UNCHANGED <<row, starting, answers, saving, asking, check, saves, dbErrors, missed>>

----------------------------------------------------------------------------
(* startHeartbeat and startStatusChecker *)

\* An answer takes 3 s at most, to init as to a heartbeat.
Interval ==
  /\ beat = {} /\ starting = {}
  /\ beat' = {d \in OnvifDevices : object[d].mapped}
  /\ object' = [d \in OnvifDevices |->
       [object[d] EXCEPT !.age = IF object[d].heard /\ @ < Expired THEN @ + 1 ELSE @]]
  /\ UNCHANGED <<row, starting, answers, saving, asking, deleting, check, saves, dbErrors, missed>>

HeardFrom(o) == [o EXCEPT !.heard = TRUE, !.age = 0]

BeatEnds(d) ==
  /\ d \in beat /\ beat' = beat \ {d}
  /\ object' = IF d \in answers THEN [object EXCEPT ![d] = HeardFrom(@)] ELSE object
  /\ UNCHANGED <<row, starting, answers, saving, asking, deleting, check, saves, dbErrors, missed>>

\* Mutant: the bound is never passed.
MutInTime(o) == o.age <= Expired

InTime(o) == o.age < Expired

\* Only a change is written, first to the object.
Flip(d) ==
  /\ check.pc = "wait"
  /\ object[d].mapped /\ object[d].heard /\ object[d].online # InTime(object[d])
  /\ object' = [object EXCEPT ![d].online = ~@]
  /\ check' = [pc |-> "sync", at |-> d, to |-> IF InTime(object[d]) THEN "online" ELSE "offline"]
  /\ UNCHANGED <<row, starting, answers, beat, saving, asking, deleting, saves, dbErrors, missed>>

SyncRow ==
  /\ check.pc = "sync"
  /\ EditRow(check.at, check.to)
  /\ check' = AtRest
  /\ UNCHANGED <<object, starting, answers, beat, saving, asking, deleting, saves>>

----------------------------------------------------------------------------
OnvifNext ==
  \/ \E d \in OnvifDevices :
       \/ Device(d) \/ Start(d) \/ Save(d) \/ Connect(d) \/ Ask(d) \/ Reconnect(d)
       \/ DeleteRow(d) \/ DeleteDevice(d) \/ BeatEnds(d) \/ Flip(d)
  \/ Interval
  \/ SyncRow

OnvifSpec == OnvifInit /\ [][OnvifNext]_onvifVars

----------------------------------------------------------------------------
\* The objects, the rows and the calls keep their types.
OnvifTypeOK ==
  /\ row \in [OnvifDevices -> {"new", "online", "offline", "gone"}]
  /\ object \in [OnvifDevices -> [mapped : BOOLEAN, heard : BOOLEAN, age : Ages, online : BOOLEAN]]
  /\ starting \subseteq OnvifDevices /\ answers \subseteq OnvifDevices /\ beat \subseteq OnvifDevices
  /\ saving \subseteq OnvifDevices /\ asking \subseteq OnvifDevices /\ deleting \subseteq OnvifDevices
  /\ check \in [pc : {"wait"}]
             \cup [pc : {"sync"}, at : OnvifDevices, to : {"online", "offline"}]
  /\ saves \in 0..MaxSaves /\ dbErrors \in 0..MaxDbErrors /\ missed \subseteq OnvifDevices

\* A connected device that answers is taken as online for good, and one that
\* was heard and has fallen silent is offline for good, in memory and, unless
\* an edit of the row or a connection failed, in its row, whatever edit, query
\* or deletion crossed the heartbeat and the check (startHeartbeat,
\* startStatusChecker, syncDeviceStatusToDB).
OnvifShown ==
  \A d \in OnvifDevices :
    /\ (<>[](object[d].mapped /\ d \in answers)) => <>[](object[d].online)
    /\ (<>[](object[d].mapped /\ object[d].heard /\ d \notin answers)) => <>[](~object[d].online)
    /\ (<>[](object[d].mapped /\ object[d].heard /\ d \notin answers /\ d \notin missed))
          => <>[](row[d] # "online")
=============================================================================
