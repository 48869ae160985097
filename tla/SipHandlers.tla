----------------------------- MODULE SipHandlers -----------------------------
(***************************************************************************)
(* A request from its arrival to its answer: the listener rejects or       *)
(* routes it, the access control looks the device up, in memory or else in *)
(* the database, and the handler of its route answers it                   *)
(* (pkg/gbs/sip/server.go, context.go, group.go, pkg/gbs/access_control.go,*)
(* register.go, keepalive.go, info.go, alarm.go).                          *)
(*                                                                         *)
(* One device.  A credential is its password and its address; row and      *)
(* object have one each.  A digest is right when the secret it was made    *)
(* with is the password.  What else the handlers do is modelled where its  *)
(* state is (DeviceRegistry, EventSubscriptions, QueryStates, ...).        *)
(***************************************************************************)
EXTENDS Naturals, Sequences

CONSTANTS
  SipRequests,   \* goroutines, with one request each
  Strangers,     \* those whose request need not be the device's
  User,          \* the API call that edits or deletes the device
  ServerPassword, \* the password of the configuration
  OwnPasswords,  \* passwords of a device's own
  HostAddresses, \* addresses requests come from
  HomeAddress,   \* the one that those of the others come from
  MaxMishaps     \* bound: statements of the database that fail, and ends of the process

ASSUME HandlersAssumption ==
  /\ User \notin SipRequests /\ HomeAddress \in HostAddresses /\ MaxMishaps \in Nat
  /\ {"none", "several"} \cap (SipRequests \cup {User}) = {}
  /\ {"", "#"} \cap (OwnPasswords \cup {ServerPassword} \cup HostAddresses) = {}

SipActors == SipRequests \cup {User}
Ignore == "#" \* a password that stands for no authentication
Credential == [password : OwnPasswords \cup {"", Ignore}, ip : HostAddresses \cup {""}]
NoCredential == [password |-> "", ip |-> ""]
Absent == [none |-> TRUE]

VARIABLES
  checked,   \* StrictSourceCheck and RequireMessageAuth
  stored,    \* the row of the device, or Absent
  cached,    \* the Device in memory, or Absent
  request,   \* what each goroutine handles
  place,     \* where each one is
  index,     \* Context.index
  replies,   \* the answers to each request
  ran,       \* how often the handler of each request has run
  seenRow,   \* the row that the edit of each one returned
  mishaps,   \* events counted against their bound
  changer,   \* history: "none" when the last change was completed alone, without a fault
             \* and without leaving row and object apart, the actor that has one in
             \* progress, or "several"
  steady     \* history: requests being checked, while nothing is changed

storeVars == <<stored, cached>>
runVars == <<request, index, replies, ran>>
handlerVars == <<checked, storeVars, runVars, place, seenRow, mishaps, changer, steady>>

----------------------------------------------------------------------------
(* Requests and their routes.                                              *)

Reports == {"Catalog", "DeviceControl", "DeviceConfig", "RecordInfo", "DeviceStatus", "PresetQuery",
            "HomePositionQuery", "PTZPosition", "SDCardStatus"}

\* The handler of a method and, of a MESSAGE or NOTIFY, its CmdType; "" where there is
\* none.  A handler that only decodes, tells others and answers is a "report".
Route(method, cmd) ==
  CASE method = "REGISTER" -> "register"
    [] method = "SUBSCRIBE" -> "subscribe"
    [] method \in {"INVITE", "BYE"} -> "dialog"
    [] method = "ACK" -> "ack"
    [] method = "OPTIONS" -> "options"
    [] method \in {"MESSAGE", "NOTIFY"} /\ cmd = "Alarm" -> "alarm"
    [] method = "MESSAGE" /\ cmd = "Keepalive" -> "keepalive"
    [] method = "MESSAGE" /\ cmd = "DeviceInfo" -> "info"
    [] method = "MESSAGE" /\ cmd = "ConfigDownload" -> "config"
    [] method = "MESSAGE" /\ cmd \in Reports \cup {"MobilePosition", "Broadcast"} -> "report"
    [] method = "NOTIFY" /\ cmd = "MobilePosition" -> "position"
    [] method = "NOTIFY" /\ cmd \in (Reports \ {"DeviceControl", "DeviceConfig", "RecordInfo"})
                                     \cup {"ConfigDownload"} -> "report"
    [] OTHER -> ""

HasBody(method) == method \in {"MESSAGE", "NOTIFY"}

\* The middleware of a route, then its handler.
Chain(method) == IF HasBody(method) THEN <<"access", "handle">> ELSE <<"handle">>

\* What may arrive: a body may lack its length, be no XML, or be XML of which the handler
\* can make nothing; the sender may be unreadable, which leaves the request without a
\* device and without a source.
Sent(method, cmd, body, known, secret, ip, way) ==
  [method |-> method, cmd |-> cmd, body |-> body, known |-> known, secret |-> secret, ip |-> ip, way |-> way]
Proofs == OwnPasswords \cup {ServerPassword}

FromDevice ==
  {Sent("REGISTER", "", "good", TRUE, s, i, "login") : s \in Proofs, i \in HostAddresses}
  \cup {Sent("MESSAGE", "Keepalive", "good", TRUE, s, i, "") : s \in Proofs, i \in HostAddresses}

FromAnybody ==
  {Sent("REGISTER", "", "good", w # "bad id", "", HomeAddress, w) : w \in {"bad id", "redirect", "bad redirect"}}
  \cup {Sent("REGISTER", "", "good", TRUE, s, HomeAddress, "logout") : s \in Proofs}
  \cup {Sent("MESSAGE", "DeviceInfo", "good", TRUE, s, i, "") : s \in Proofs, i \in HostAddresses}
  \cup {Sent("MESSAGE", c, "good", k, "", IF k THEN HomeAddress ELSE "", "") : k \in BOOLEAN,
           c \in {"Keepalive", "DeviceInfo", "ConfigDownload", "Alarm", "Catalog", "?"}}
  \cup {Sent("MESSAGE", c, "odd", TRUE, "", HomeAddress, "") : c \in {"Keepalive", "DeviceInfo", "ConfigDownload", "Alarm"}}
  \cup {Sent("NOTIFY", "MobilePosition", b, TRUE, "", HomeAddress, "") : b \in {"none", "bad", "odd", "good"}}
  \cup {Sent(m, "", b, TRUE, "", HomeAddress, "") : b \in {"odd", "good"}, m \in {"SUBSCRIBE", "INVITE"}}
  \cup {Sent(m, "", "good", TRUE, "", HomeAddress, "") : m \in {"ACK", "OPTIONS", "INFO"}}

Arrivals(r) == IF r \in Strangers THEN FromDevice \cup FromAnybody ELSE {q \in FromDevice : q.ip = HomeAddress}

NoRequest == [method |-> "", cmd |-> "", body |-> "", known |-> FALSE, secret |-> "", ip |-> "", way |-> ""]

JobOf(r) == Route(request[r].method, request[r].cmd)

----------------------------------------------------------------------------
(* What happens to the credentials.                                        *)

\* Places between the first change of an operation and its last.
Changing(a) == place[a] \in {"object", "store", "row", "memory", "check", "repair", "forget"}

\* A changes the row or the object.
Changes(a) ==
  changer' = IF changer = a \/ (\A b \in SipActors : ~Changing(b)) THEN a ELSE "several"

\* A is through with both.
Completes(a) == changer' = IF changer = a THEN "none" ELSE "several"

Spoils == changer' = "several"

\* A statement of the database fails.
Fault == mishaps < MaxMishaps /\ mishaps' = mishaps + 1
NoFault == UNCHANGED mishaps

\* Requests are checked against credentials that nobody changes.
Steady == steady' = IF changer' = "none" THEN steady ELSE {}

HandlersInit ==
  /\ checked \in BOOLEAN
  /\ stored \in {Absent} \cup [password : OwnPasswords \cup {"", Ignore}, ip : {""}]
  /\ (checked \/ stored = Absent)
  /\ cached \in {Absent, stored}
  /\ request = [r \in SipRequests |-> NoRequest] /\ place = [a \in SipActors |-> "new"]
  /\ index = [r \in SipRequests |-> 0]
  /\ replies = [r \in SipRequests |-> <<>>] /\ ran = [r \in SipRequests |-> 0]
  /\ seenRow = [a \in SipActors |-> NoCredential]
  /\ mishaps = 0 /\ changer = "none" /\ steady = {}

----------------------------------------------------------------------------
(* The listener and the chain of handlers.                                 *)

MoveTo(a, p) == place' = [place EXCEPT ![a] = p]
Replies(r, status) == replies' = [replies EXCEPT ![r] = Append(@, status)]
StaysWithin == UNCHANGED <<request, index, ran, replies>>

\* A request of which nobody will read the sender any more.
Read(q) == [q EXCEPT !.known = FALSE, !.secret = "", !.ip = "", !.way = ""]

\* Its proof is not read any more.
Proven(r) == request' = [request EXCEPT ![r].secret = "", ![r].way = ""]

\* Context.Next: the function at the index runs next, the last one of a chain being the
\* handler.  The middleware calls it from within, and finds nothing left to run when that
\* call ends, since both loops share the index.
RunNext(r, i, q) ==
  LET chain == Chain(q.method)
      next == IF i < Len(chain) THEN chain[i + 1] ELSE "through"
  IN  /\ index' = [index EXCEPT ![r] = i] /\ MoveTo(r, next)
      /\ ran' = [ran EXCEPT ![r] = IF next = "handle" THEN @ + 1 ELSE @]
      /\ request' = [request EXCEPT ![r] = IF next = "through" THEN Read(q) ELSE q]

\* A function of the chain returns.
Returns(r) == RunNext(r, index[r] + 1, request[r])

\* Mutant: the index stays where it is.
MutAborted(i) == i

\* The index of a chain that was aborted: beyond any chain.
Aborted(i) == 63

\* A function answers, keeps the rest of the chain from running, and returns.
Aborts(r, status) == Replies(r, status) /\ RunNext(r, Aborted(index[r]) + 1, request[r])

\* The listener answers what has no body, no XML or no route, and starts the chain of the rest.
Arrive(r) ==
  /\ place[r] = "new"
  /\ \E q \in Arrivals(r) :
       LET empty == HasBody(q.method) /\ q.body \in {"none", "bad"}
           routed == Route(q.method, q.cmd) # ""
       IN  \/ empty /\ Replies(r, 400) /\ RunNext(r, 64, q)
           \/ ~empty /\ ~routed /\ Replies(r, 405) /\ RunNext(r, 64, q)
           \/ ~empty /\ routed /\ RunNext(r, 0, q) /\ UNCHANGED replies
  /\ steady' = IF changer = "none" /\ place'[r] = "access" THEN steady \cup {r} ELSE steady
  /\ UNCHANGED <<checked, storeVars, seenRow, mishaps, changer>>

\* What the access control takes for the device's: the object's, or else the row's.
TakenFor(r, cred) == request[r].known /\ cred = IF cached # Absent THEN cached ELSE stored

\* The row has to be read, and that fails.
LookupFails(r) == request[r].known /\ cached = Absent /\ Fault

\* The source of a request is compared with that of the registration.
SourceFits(r, cred) == cred.ip = "" \/ cred.ip = request[r].ip

\* The addresses of the request and of the registration are compared.
CheckSource(r) ==
  /\ place[r] = "access"
  /\ \/ /\ \/ ~checked \/ ~request[r].known
           \/ \E cred \in Credential : TakenFor(r, cred) /\ SourceFits(r, cred)
        /\ MoveTo(r, "digest") /\ NoFault /\ StaysWithin /\ UNCHANGED steady
     \/ /\ checked
        /\ \/ TakenFor(r, Absent) /\ NoFault
           \/ \E cred \in Credential : TakenFor(r, cred) /\ ~SourceFits(r, cred) /\ NoFault
           \/ LookupFails(r)
        /\ Aborts(r, 403) /\ steady' = steady \ {r}
  /\ UNCHANGED <<checked, storeVars, seenRow, changer>>

\* The password a digest must be made with, "" when none is wanted.
PasswordFor(password) ==
  IF password = Ignore THEN "" ELSE IF password = "" THEN ServerPassword ELSE password

Signed(r, cred) == PasswordFor(cred.password) \in {"", request[r].secret}

CheckDigest(r) ==
  /\ place[r] = "digest"
  /\ \/ /\ \/ ~checked
           \/ \E cred \in Credential : TakenFor(r, cred) /\ Signed(r, cred)
        /\ Returns(r) /\ NoFault /\ UNCHANGED replies
     \/ /\ checked
        /\ \/ ~request[r].known /\ NoFault
           \/ TakenFor(r, Absent) /\ NoFault
           \/ \E cred \in Credential : TakenFor(r, cred) /\ ~Signed(r, cred) /\ NoFault
           \/ LookupFails(r)
        /\ Aborts(r, 401)
  /\ steady' = steady \ {r}
  /\ UNCHANGED <<checked, storeVars, seenRow, changer>>

----------------------------------------------------------------------------
(* The handlers.                                                           *)

Answers(r, status) == Replies(r, status) /\ Returns(r)

\* Handlers that change none of the credentials, by what they could decode.
Answerless(r) ==
  \/ JobOf(r) = "ack"
  \/ JobOf(r) = "config" /\ request[r].body = "good" /\ (cached = Absent \/ ~request[r].known)

\* A handler answers whether it could decode the request, after it told the subscribers; a
\* position is answered in any case, an ACK never, and neither are the parameters of a
\* device that is not in memory.
Report(r) ==
  /\ place[r] = "handle" /\ JobOf(r) \in {"report", "position", "config", "subscribe", "dialog", "ack", "options"}
  /\ \/ Answerless(r) /\ Returns(r) /\ UNCHANGED replies
     \/ /\ ~Answerless(r)
        /\ request[r].body = "good" \/ JobOf(r) \in {"position", "options"}
        /\ Answers(r, 200)
     \/ /\ ~Answerless(r) /\ request[r].body = "odd" /\ JobOf(r) \notin {"position", "options"}
        /\ \E status \in IF JobOf(r) = "dialog" THEN {400, 481} ELSE {400} : Answers(r, status)
  /\ UNCHANGED <<checked, storeVars, seenRow, mishaps, changer, steady>>

\* A registration that is not one of a device, is sent elsewhere, cannot be looked up, or
\* does not prove the password of the row.
RegisterRefused(r) ==
  /\ place[r] = "handle" /\ JobOf(r) = "register"
  /\ \/ request[r].way \in {"bad id", "bad redirect"} /\ NoFault /\ Answers(r, 400)
     \/ request[r].way = "redirect" /\ NoFault /\ Answers(r, 302)
     \/ request[r].way \in {"login", "logout"} /\ Fault /\ Answers(r, 500)
     \/ /\ request[r].way \in {"login", "logout"} /\ NoFault
        /\ ~Signed(r, IF stored = Absent THEN NoCredential ELSE stored)
        /\ Answers(r, 401)
  /\ UNCHANGED <<checked, storeVars, seenRow, changer, steady>>

RegisterPasses(r) ==
  /\ place[r] = "handle" /\ JobOf(r) = "register" /\ request[r].way \in {"login", "logout"}
  /\ Signed(r, IF stored = Absent THEN NoCredential ELSE stored)
  /\ \/ stored = Absent /\ MoveTo(r, "create") /\ UNCHANGED changer
     \/ stored # Absent /\ MoveTo(r, "store") /\ Changes(r)
  /\ Proven(r) /\ Steady
  /\ UNCHANGED <<checked, storeVars, index, replies, ran, seenRow, mishaps>>

\* The row of a new device is added, unless another registration has done so.
CreateRow(r) ==
  /\ place[r] = "create"
  /\ \/ /\ stored = Absent /\ stored' = NoCredential /\ Changes(r) /\ NoFault
        /\ MoveTo(r, "object") /\ StaysWithin
     \/ /\ stored # Absent /\ NoFault /\ Changes(r)
        /\ MoveTo(r, "store") /\ StaysWithin /\ UNCHANGED stored
     \/ /\ Fault /\ Answers(r, 500) /\ UNCHANGED <<stored, changer>>
  /\ Steady
  /\ UNCHANGED <<checked, cached, seenRow>>

\* LoadOrStore of an object without credentials: by Device.Add, then by the handler.
StoreBlank(a) ==
  /\ place[a] \in {"object", "store"}
  /\ cached' = IF cached = Absent THEN NoCredential ELSE cached
  /\ MoveTo(a, IF place[a] = "object" THEN "store" ELSE "row")
  /\ Changes(a) /\ Steady
  /\ UNCHANGED <<checked, stored, runVars, seenRow, mishaps>>

\* The row that an edit returned is not used any more.
Unseen(a) == seenRow' = [seenRow EXCEPT ![a] = NoCredential]

\* Where an operation goes on after its change.
After(a) == IF a = User THEN "end" ELSE "answer"

\* The first half of Change: the row gets the address of the request, or in "repair" the
\* password that was set before.
ChangeRow(a) ==
  /\ place[a] \in {"row", "repair"}
  /\ \/ /\ stored # Absent /\ NoFault
        /\ stored' = IF place[a] = "row" THEN [stored EXCEPT !.ip = request[a].ip]
                                         ELSE [stored EXCEPT !.password = seenRow[a].password]
        /\ seenRow' = [seenRow EXCEPT ![a] = stored']
        /\ MoveTo(a, "memory") /\ Changes(a)
     \/ /\ (stored = Absent /\ NoFault) \/ Fault
        /\ MoveTo(a, After(a)) /\ Spoils /\ Unseen(a) /\ UNCHANGED stored
  /\ request' = [r \in SipRequests |-> IF r = a THEN Read(request[r]) ELSE request[r]]
  /\ Steady
  /\ UNCHANGED <<checked, cached, index, replies, ran>>

\* Mutant: the object keeps its password.
MutCopies(a) == [seenRow[a] EXCEPT !.password = cached.password]

\* The second half: the object gets the credentials of the row as the edit returned it.
Copies(a) == seenRow[a]

ChangeObject(a) ==
  /\ place[a] = "memory"
  /\ cached' = IF cached = Absent THEN Absent ELSE Copies(a)
  /\ Unseen(a) /\ MoveTo(a, After(a)) /\ Completes(a) /\ Steady
  /\ UNCHANGED <<checked, stored, runVars, mishaps>>

\* A heartbeat puts an object in memory if there is none, and changes both; one without a
\* sender changes what belongs to nobody.
HandleKeepalive(r) ==
  /\ place[r] = "handle" /\ JobOf(r) = "keepalive"
  /\ \/ request[r].body # "good" /\ Answers(r, 400) /\ UNCHANGED changer
     \/ /\ request[r].body = "good" /\ Proven(r) /\ UNCHANGED <<index, ran, replies>>
        /\ \/ request[r].known /\ MoveTo(r, "store") /\ Changes(r)
           \/ ~request[r].known /\ MoveTo(r, "answer") /\ UNCHANGED changer
  /\ Steady
  /\ UNCHANGED <<checked, storeVars, seenRow, mishaps>>

\* The answer to the query of a device edits its row alone; then the object is compared.
DeviceInfo(r) ==
  /\ place[r] = "handle" /\ JobOf(r) = "info"
  /\ \/ /\ request[r].body # "good" /\ NoFault /\ Answers(r, 400)
        /\ UNCHANGED <<stored, seenRow, changer>>
     \/ /\ request[r].body = "good"
        /\ \/ (~request[r].known \/ stored = Absent) /\ NoFault
           \/ Fault
        /\ Answers(r, 500) /\ UNCHANGED <<stored, seenRow, changer>>
     \/ /\ request[r].body = "good" /\ request[r].known /\ stored # Absent /\ NoFault
        /\ stored' = [stored EXCEPT !.ip = request[r].ip]
        /\ seenRow' = [seenRow EXCEPT ![r].password = stored'.password]
        /\ MoveTo(r, "check") /\ Changes(r) /\ StaysWithin
  /\ Steady
  /\ UNCHANGED <<checked, cached>>

\* Device.Edit: a password that differs from the object's is a new one, which both get; a
\* password that was cleared, and an address, stay with the row.
ComparePassword(a) ==
  /\ place[a] = "check"
  /\ IF cached # Absent /\ seenRow[a].password \notin {"", cached.password}
     THEN MoveTo(a, "repair") /\ Changes(a) /\ UNCHANGED seenRow
     ELSE /\ MoveTo(a, After(a)) /\ Unseen(a)
          /\ IF cached \notin {Absent, stored} THEN Spoils ELSE Completes(a)
  /\ Steady
  /\ UNCHANGED <<checked, storeVars, runVars, mishaps>>

\* The end of a heartbeat, of a registration or of the answer to a query: subscribers
\* are told of the first and the last.
Answer200(r) ==
  /\ place[r] = "answer"
  /\ Answers(r, 200)
  /\ UNCHANGED <<checked, storeVars, seenRow, mishaps, changer, steady>>

\* An alarm is told to the handler of the events.  The notification of an external system
\* then reads a configuration that is never set: the goroutine panics and is recovered,
\* before the subscribers are told and the device is answered.
Alarm(r) ==
  /\ place[r] = "handle" /\ JobOf(r) = "alarm"
  /\ \/ request[r].body # "good" /\ Answers(r, 400)
     \/ request[r].body = "good" /\ RunNext(r, 64, request[r]) /\ UNCHANGED replies
  /\ UNCHANGED <<checked, storeVars, seenRow, mishaps, changer, steady>>

\* The goroutine of a request that is through ends.
Leaves(r) ==
  /\ place[r] = "through" /\ MoveTo(r, "end")
  /\ request' = [request EXCEPT ![r] = NoRequest] /\ index' = [index EXCEPT ![r] = 0]
  /\ replies' = [replies EXCEPT ![r] = <<>>] /\ ran' = [ran EXCEPT ![r] = 0]
  /\ UNCHANGED <<checked, storeVars, seenRow, mishaps, changer, steady>>

----------------------------------------------------------------------------
(* The user, and the end of the process.                                   *)

\* An edit sets the password to what it was given, which is nothing when it was left out.
EditDevice ==
  /\ place[User] = "new" /\ stored # Absent
  /\ \E p \in OwnPasswords \cup {"", Ignore} : stored' = [stored EXCEPT !.password = p]
  /\ seenRow' = [seenRow EXCEPT ![User].password = stored'.password]
  /\ MoveTo(User, "check") /\ Changes(User) /\ Steady
  /\ UNCHANGED <<checked, cached, runVars, mishaps>>

DeleteDeviceRow ==
  /\ place[User] = "new" /\ stored # Absent
  /\ stored' = Absent /\ MoveTo(User, "forget") /\ Changes(User) /\ Steady
  /\ UNCHANGED <<checked, cached, runVars, seenRow, mishaps>>

ForgetObject ==
  /\ place[User] = "forget"
  /\ cached' = Absent /\ MoveTo(User, "end") /\ Completes(User) /\ Steady
  /\ UNCHANGED <<checked, stored, runVars, seenRow, mishaps>>

\* The goroutines are gone; a device that uses UDP is loaded from its row.
Reboot ==
  /\ Fault
  /\ cached' \in {Absent, stored}
  /\ place' = [a \in SipActors |-> IF place[a] = "new" THEN "new" ELSE "gone"]
  /\ request' = [r \in SipRequests |-> NoRequest] /\ index' = [r \in SipRequests |-> 0]
  /\ replies' = [r \in SipRequests |-> <<>>] /\ ran' = [r \in SipRequests |-> 0]
  /\ seenRow' = [a \in SipActors |-> NoCredential]
  /\ changer' = "none" /\ steady' = {}
  /\ UNCHANGED <<checked, stored>>

Goes ==
  \/ \E r \in SipRequests :
       \/ Arrive(r) \/ CheckSource(r) \/ CheckDigest(r) \/ Report(r)
       \/ RegisterRefused(r) \/ RegisterPasses(r) \/ CreateRow(r)
       \/ HandleKeepalive(r) \/ DeviceInfo(r) \/ Answer200(r) \/ Alarm(r)
  \/ \E a \in SipActors : StoreBlank(a) \/ ChangeRow(a) \/ ChangeObject(a) \/ ComparePassword(a)
  \/ EditDevice \/ DeleteDeviceRow \/ ForgetObject
  \/ Reboot

\* Nobody looks at a request that is through, so that it leaves before anything else happens.
HandlersNext ==
  \/ \E r \in SipRequests : Leaves(r)
  \/ (\A r \in SipRequests : place[r] # "through") /\ Goes

HandlersSpec == HandlersInit /\ [][HandlersNext]_handlerVars

----------------------------------------------------------------------------
\* Requests, credentials and answers keep their types.
Places == {"new", "access", "digest", "handle", "create", "object", "store", "row", "memory", "check",
           "repair", "forget", "answer", "through", "end", "gone"}
HandlersTypeOK ==
  /\ stored \in Credential \cup {Absent} /\ cached \in Credential \cup {Absent}
  /\ \A r \in SipRequests :
       /\ request[r].known \in BOOLEAN /\ request[r].ip \in HostAddresses \cup {""}
       /\ index[r] \in 0..65 /\ ran[r] \in 0..1
       /\ replies[r] \in {<<>>} \cup {<<status>> : status \in {200, 302, 400, 401, 403, 405, 481, 500}}
  /\ place \in [SipActors -> Places]
  /\ seenRow \in [SipActors -> Credential]
  /\ changer \in SipActors \cup {"none", "several"}
  /\ steady \subseteq SipRequests
  /\ mishaps \in 0..MaxMishaps

\* A request that is through was answered, once, and its handler ran once or, when the
\* access control refused it, not at all; whatever the middleware and the chain do to each
\* other (Context.Next, Abort).  An ACK wants no answer; the parameters of a device that is
\* not in memory get none, and neither does an alarm whose handler panicked.
AnsweredOnce ==
  \A r \in SipRequests :
    /\ Len(replies[r]) <= 1 /\ ran[r] <= 1
    /\ place[r] = "through" =>
         /\ replies[r] = <<>> => ran[r] = 1 /\ JobOf(r) \in {"ack", "config", "alarm"}
         /\ HasBody(request[r].method) /\ replies[r] \in {<<401>>, <<403>>} => ran[r] = 0

\* A device whose credentials are those of its row, as at its registration, is not refused
\* a report, in whatever order rows and objects were created, edited, deleted, loaded and
\* replaced before, as long as the last of these changes was completed without a fault,
\* was not one of the row alone, and none is in progress (sipAccessControlMiddleware,
\* Cache.Change, Device.Edit).
AcceptedAsRegistered ==
  [][\A r \in steady : mishaps' = mishaps =>
       (stored # Absent /\ Signed(r, stored) /\ SourceFits(r, stored) /\ request[r].known
        => replies'[r] \notin {<<401>>, <<403>>})]_handlerVars
=============================================================================
