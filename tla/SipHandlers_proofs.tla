------------------------- MODULE SipHandlers_proofs -------------------------
(* Proofs about SipHandlers: its types, that a request is answered once,   *)
(* and that a device is accepted as it is registered, for any requests at  *)
(* one time, any passwords, addresses and number of mishaps.               *)
EXTENDS SipHandlers, TLAPS

Statuses == {200, 302, 400, 401, 403, 405, 481, 500}
Replied == {<<>>} \cup {<<status>> : status \in Statuses}
Secrets == OwnPasswords \cup {ServerPassword, ""}
Methods == {"", "REGISTER", "MESSAGE", "NOTIFY", "SUBSCRIBE", "INVITE", "ACK", "OPTIONS", "INFO"}
Cmds == {"", "Keepalive", "DeviceInfo", "ConfigDownload", "Alarm", "Catalog", "MobilePosition", "?"}
Bodies == {"", "none", "bad", "odd", "good"}
Ways == {"", "login", "logout", "redirect", "bad redirect", "bad id"}
Request == [method : Methods, cmd : Cmds, body : Bodies, known : BOOLEAN, secret : Secrets,
            ip : HostAddresses \cup {""}, way : Ways]

RunTyped ==
  /\ request \in [SipRequests -> Request]
  /\ index \in [SipRequests -> 0..64] /\ ran \in [SipRequests -> 0..1]
  /\ replies \in [SipRequests -> Replied]
TypeInv ==
  /\ RunTyped
  /\ stored \in Credential \cup {Absent} /\ cached \in Credential \cup {Absent}
  /\ place \in [SipActors -> Places]
  /\ seenRow \in [SipActors -> Credential]
  /\ changer \in SipActors \cup {"none", "several"}
  /\ steady \subseteq SipRequests
  /\ mishaps \in 0..MaxMishaps

Unbusy == {"new", "end", "gone"}
Handled == {"handle", "create", "object", "store", "row", "memory", "check", "repair", "answer"}

\* What is known of the answer and of the chain of a request, by where it is.
IsThrough(r) ==
  /\ replies[r] = <<>> => ran[r] = 1 /\ JobOf(r) \in {"ack", "config", "alarm"}
  /\ HasBody(request[r].method) /\ replies[r] \in {<<401>>, <<403>>} => ran[r] = 0
RunOK(r) ==
  /\ place[r] \in Unbusy => replies[r] = <<>> /\ ran[r] = 0
  /\ place[r] \in {"access", "digest"} =>
       HasBody(request[r].method) /\ index[r] = 0 /\ ran[r] = 0 /\ replies[r] = <<>>
  /\ place[r] \in Handled =>
       replies[r] = <<>> /\ ran[r] = 1 /\ index[r] = Len(Chain(request[r].method)) - 1
  /\ place[r] = "through" => IsThrough(r)
  /\ place[r] # "forget"
RunInv ==
  /\ \A r \in SipRequests : RunOK(r)
  /\ place[User] \in {"new", "check", "repair", "memory", "forget", "end", "gone"}

\* Whoever changes the credentials alone is the only one to do so, and before it copies
\* the row to the object it has the row as it is.
ChangeInv ==
  /\ changer = "none" => (\A b \in SipActors : ~Changing(b)) /\ cached \in {Absent, stored}
  /\ changer \in SipActors =>
       /\ \A b \in SipActors : Changing(b) <=> b = changer
       /\ place[changer] = "memory" => seenRow[changer] = stored
       /\ place[changer] = "forget" => stored = Absent

\* Nothing is being changed while a request counts as steady, and it is being checked.
SteadyInv ==
  /\ steady # {} => changer = "none"
  /\ \A r \in steady : place[r] \in {"access", "digest"}

\* What a step does to the requests it may not refuse, the body of AcceptedAsRegistered.
Accepts ==
  \A r \in steady : mishaps' = mishaps =>
    (stored # Absent /\ Signed(r, stored) /\ SourceFits(r, stored) /\ request[r].known
     => replies'[r] \notin {<<401>>, <<403>>})

IInv == TypeInv /\ RunInv /\ ChangeInv /\ SteadyInv

----------------------------------------------------------------------------
(* Requests, routes and the chain.                                         *)

\* What is sent is a request.
LEMMA SentTyped ==
  ASSUME NEW m \in Methods, NEW c \in Cmds, NEW b \in Bodies, NEW k \in BOOLEAN, NEW s \in Secrets,
         NEW i \in HostAddresses \cup {""}, NEW w \in Ways
  PROVE  Sent(m, c, b, k, s, i, w) \in Request
  BY DEF Sent, Request

\* Every request that can arrive is one.
LEMMA RequestsTyped == NoRequest \in Request /\ \A r \in SipRequests : Arrivals(r) \subseteq Request
<1> DEFINE Login(s, i) == Sent("REGISTER", "", "good", TRUE, s, i, "login")
           Logout(s) == Sent("REGISTER", "", "good", TRUE, s, HomeAddress, "logout")
           Elsewhere(w) == Sent("REGISTER", "", "good", w # "bad id", "", HomeAddress, w)
           Beat(s, i) == Sent("MESSAGE", "Keepalive", "good", TRUE, s, i, "")
           Info(s, i) == Sent("MESSAGE", "DeviceInfo", "good", TRUE, s, i, "")
           Message(c, k) == Sent("MESSAGE", c, "good", k, "", IF k THEN HomeAddress ELSE "", "")
           Asks(m, c, b) == Sent(m, c, b, TRUE, "", HomeAddress, "")
           Calling(b, m) == Asks(m, "", b)
<1>1. HomeAddress \in HostAddresses /\ Proofs \subseteq Secrets /\ "" \in Secrets
  BY HandlersAssumption DEF Proofs, Secrets
<1>2. \A s \in Proofs, i \in HostAddresses :
        Login(s, i) \in Request /\ Beat(s, i) \in Request /\ Info(s, i) \in Request
  <2>1. \A m \in Methods, c \in Cmds, s \in Proofs, i \in HostAddresses, w \in Ways :
          Sent(m, c, "good", TRUE, s, i, w) \in Request
    BY <1>1, SentTyped DEF Bodies
  <2> QED
    BY <2>1 DEF Methods, Cmds, Ways
<1>3. \A s \in Proofs : Logout(s) \in Request
  BY <1>1, SentTyped DEF Methods, Cmds, Bodies, Ways
<1>4. \A w \in {"bad id", "redirect", "bad redirect"} : Elsewhere(w) \in Request
  <2>1. \A k \in BOOLEAN, w \in Ways : Sent("REGISTER", "", "good", k, "", HomeAddress, w) \in Request
    BY <1>1, SentTyped DEF Methods, Cmds, Bodies
  <2>2. \A w \in {"bad id", "redirect", "bad redirect"} : w \in Ways /\ (w # "bad id") \in BOOLEAN
    BY DEF Ways
  <2> QED
    BY <2>1, <2>2, Zenon
<1>5. \A k \in BOOLEAN, c \in Cmds : Message(c, k) \in Request
  <2>1. \A k \in BOOLEAN, c \in Cmds, i \in HostAddresses \cup {""} :
          Sent("MESSAGE", c, "good", k, "", i, "") \in Request
    BY <1>1, SentTyped DEF Methods, Bodies, Ways
  <2>2. \A k \in BOOLEAN : (IF k THEN HomeAddress ELSE "") \in HostAddresses \cup {""}
    BY <1>1
  <2> QED
    BY <2>1, <2>2, Zenon
<1>6. \A m \in Methods, c \in Cmds, b \in Bodies : Asks(m, c, b) \in Request
  BY <1>1, SentTyped DEF Ways
<1>7. NoRequest \in Request
  BY DEF NoRequest, Request, Secrets, Methods, Cmds, Bodies, Ways
<1> DEFINE Odd == {"odd", "good"}
           Few == {"Keepalive", "DeviceInfo", "ConfigDownload", "Alarm"}
           Some == {"Keepalive", "DeviceInfo", "ConfigDownload", "Alarm", "Catalog", "?"}
           Calls == {"SUBSCRIBE", "INVITE"}
           Logins == {Login(s, i) : s \in Proofs, i \in HostAddresses}
           Beats == {Beat(s, i) : s \in Proofs, i \in HostAddresses}
           Elsewheres == {Elsewhere(w) : w \in {"bad id", "redirect", "bad redirect"}}
           Logouts == {Logout(s) : s \in Proofs}
           Infos == {Info(s, i) : s \in Proofs, i \in HostAddresses}
           Messages == {Message(c, k) : k \in BOOLEAN, c \in Some}
           Odds == {Asks("MESSAGE", c, "odd") : c \in Few}
           Positions == {Asks("NOTIFY", "MobilePosition", b) : b \in {"none", "bad", "odd", "good"}}
           Callings == {Calling(b, m) : b \in Odd, m \in Calls}
           Others == {Asks(m, "", "good") : m \in {"ACK", "OPTIONS", "INFO"}}
<1>8. /\ FromDevice = Logins \cup Beats
      /\ FromAnybody = Elsewheres \cup Logouts \cup Infos \cup Messages \cup Odds \cup Positions
                       \cup Callings \cup Others
  BY DEF FromDevice, FromAnybody
<1>9. Some \subseteq Cmds /\ Few \subseteq Cmds /\ Odd \subseteq Bodies /\ Calls \subseteq Methods /\ "" \in Cmds
  BY DEF Cmds, Bodies, Methods
<1> HIDE DEF Login, Logout, Elsewhere, Beat, Info, Message, Asks, Calling, Odd, Few, Some, Calls
<1>10. Logins \subseteq Request /\ Beats \subseteq Request /\ Infos \subseteq Request
  <2>1. Logins \subseteq Request
    BY <1>2
  <2>2. Beats \subseteq Request
    BY <1>2
  <2>3. Infos \subseteq Request
    BY <1>2
  <2> QED
    BY <2>1, <2>2, <2>3
<1>11. Elsewheres \subseteq Request /\ Logouts \subseteq Request
  BY <1>4, <1>3
<1>12. Messages \subseteq Request
  <2>1. \A k \in BOOLEAN, c \in Some : Message(c, k) \in Request
    BY <1>5, <1>9
  <2> QED
    BY <2>1
<1>13. Callings \subseteq Request
  <2>1. \A b \in Odd, m \in Calls : Calling(b, m) \in Request
    BY <1>6, <1>9 DEF Calling
  <2> QED
    BY <2>1
<1>14. Odds \subseteq Request /\ Positions \subseteq Request /\ Others \subseteq Request
  BY <1>6, <1>9 DEF Methods, Cmds, Bodies
<1> HIDE DEF Logins, Beats, Infos, Elsewheres, Logouts, Messages, Odds, Positions, Callings, Others
<1>15. FromDevice \subseteq Request /\ FromAnybody \subseteq Request
  BY <1>8, <1>10, <1>11, <1>12, <1>13, <1>14
<1> QED
  BY <1>7, <1>15 DEF Arrivals

\* A handler that has read the row keeps what the request is.
LEMMA ReadTyped ==
  ASSUME NEW q \in Request
  PROVE  Read(q) \in Request /\ Read(q).method = q.method /\ Read(q).cmd = q.cmd
  BY DEF Read, Request, Secrets, Ways

\* So does a digest that was right.
LEMMA ProvenTyped ==
  ASSUME NEW q \in Request
  PROVE  /\ [q EXCEPT !.secret = "", !.way = ""] \in Request
         /\ [q EXCEPT !.secret = "", !.way = ""].method = q.method
  BY DEF Request, Secrets, Ways

\* The chain of a request with a body has two functions, that of any other has one.
LEMMA Chains ==
  ASSUME NEW method
  PROVE  /\ HasBody(method) => Len(Chain(method)) = 2 /\ Chain(method)[1] = "access" /\ Chain(method)[2] = "handle"
         /\ ~HasBody(method) => Len(Chain(method)) = 1 /\ Chain(method)[1] = "handle"
  BY DEF Chain

\* An index that was aborted is past every chain.
LEMMA PastTheChain ==
  ASSUME NEW method
  PROVE  64 >= Len(Chain(method))
<1>1. Len(Chain(method)) = 2 \/ Len(Chain(method)) = 1
  BY Chains
<1> QED
  BY <1>1

\* A REGISTER is not checked by the access control.
LEMMA RegistersHaveNoBody ==
  ASSUME NEW r, JobOf(r) = "register"
  PROVE  ~HasBody(request[r].method)
  BY DEF JobOf, Route, HasBody, Reports

\* Nobody is called what a history variable may say.
LEMMA ActorsApart == User \notin SipRequests /\ "none" \notin SipActors /\ "several" \notin SipActors
  BY HandlersAssumption DEF SipActors

\* The bound of the mishaps is a number.
LEMMA BoundNat == MaxMishaps \in Nat
  BY HandlersAssumption

\* One step of the chain.
LEMMA RunsNext ==
  ASSUME TypeInv, NEW r \in SipRequests, NEW i \in 0..64, NEW q \in Request, RunNext(r, i, q),
         ran[r] = 0 \/ i >= Len(Chain(q.method))
  PROVE  /\ index' = [index EXCEPT ![r] = i] /\ index' \in [SipRequests -> 0..64]
         /\ ran' \in [SipRequests -> 0..1] /\ request' \in [SipRequests -> Request]
         /\ \A x \in SipRequests : x # r => ran'[x] = ran[x] /\ request'[x] = request[x]
         /\ request'[r].method = q.method /\ request'[r].cmd = q.cmd
         /\ i >= Len(Chain(q.method)) =>
              place' = [place EXCEPT ![r] = "through"] /\ ran'[r] = ran[r]
         /\ i < Len(Chain(q.method)) => request'[r] = q
         /\ i = 0 /\ HasBody(q.method) =>
              place' = [place EXCEPT ![r] = "access"] /\ ran'[r] = ran[r]
         /\ i = Len(Chain(q.method)) - 1 =>
              place' = [place EXCEPT ![r] = "handle"] /\ ran'[r] = ran[r] + 1
<1> DEFINE chain == Chain(q.method)
           next == IF i < Len(chain) THEN chain[i + 1] ELSE "through"
<1>1. /\ index' = [index EXCEPT ![r] = i] /\ place' = [place EXCEPT ![r] = next]
      /\ ran' = [ran EXCEPT ![r] = IF next = "handle" THEN @ + 1 ELSE @]
      /\ request' = [request EXCEPT ![r] = IF next = "through" THEN Read(q) ELSE q]
  BY DEF RunNext, MoveTo
<1>2. /\ i >= Len(chain) => next = "through"
      /\ i < Len(chain) => next # "through"
      /\ i = 0 /\ HasBody(q.method) => next = "access"
      /\ i = Len(chain) - 1 => next = "handle"
  BY Chains
<1>3. next = "handle" => ran[r] = 0
  BY <1>2
<1> HIDE DEF next
<1>4. ran' \in [SipRequests -> 0..1] /\ \A x \in SipRequests : x # r => ran'[x] = ran[x]
  BY <1>1, <1>3 DEF TypeInv, RunTyped
<1>5. ran'[r] = IF next = "handle" THEN ran[r] + 1 ELSE ran[r]
  BY <1>1 DEF TypeInv, RunTyped
<1>6. /\ request' \in [SipRequests -> Request] /\ \A x \in SipRequests : x # r => request'[x] = request[x]
      /\ request'[r] = IF next = "through" THEN Read(q) ELSE q
  BY <1>1, ReadTyped DEF TypeInv, RunTyped
<1>7. index' \in [SipRequests -> 0..64]
  BY <1>1 DEF TypeInv, RunTyped
<1> QED
  BY <1>1, <1>2, <1>4, <1>5, <1>6, <1>7, ReadTyped, Chains

\* An answer to a request that has none is its only one.
LEMMA RepliesOnce ==
  ASSUME TypeInv, NEW r \in SipRequests, NEW status \in Statuses, replies[r] = <<>>, Replies(r, status)
  PROVE  /\ replies' \in [SipRequests -> Replied] /\ replies'[r] = <<status>>
         /\ \A x \in SipRequests : x # r => replies'[x] = replies[x]
<1>1. Append(<<>>, status) = <<status>>
  OBVIOUS
<1> QED
  BY <1>1 DEF TypeInv, RunTyped, Replies, Replied

----------------------------------------------------------------------------
(* What a step of one actor leaves as it was.                              *)

\* A request that a step leaves alone is where it was.
LEMMA RunStays ==
  ASSUME NEW x \in SipRequests, RunOK(x), place'[x] = place[x], index'[x] = index[x],
         replies'[x] = replies[x], ran'[x] = ran[x],
         request'[x].method = request[x].method, request'[x].cmd = request[x].cmd
  PROVE  RunOK(x)'
  BY DEF RunOK, IsThrough, JobOf

\* A handler goes on with its work.
LEMMA RunMoves ==
  ASSUME TypeInv, RunInv, NEW r \in SipRequests, NEW p \in Handled, place[r] \in Handled,
         place' = [place EXCEPT ![r] = p], UNCHANGED <<index, replies, ran>>,
         request' \in [SipRequests -> Request], request'[r].method = request[r].method,
         \A x \in SipRequests : x # r => request'[x] = request[x]
  PROVE  RunTyped' /\ RunInv'
<1>1. RunTyped'
  BY DEF TypeInv, RunTyped
<1>2. place'[r] = p /\ \A a \in SipActors : a # r => place'[a] = place[a]
  BY DEF TypeInv, SipActors
<1>3. RunOK(r)'
  BY <1>2 DEF RunInv, RunOK, Handled, Unbusy
<1>4. \A x \in SipRequests : x # r => RunOK(x)'
  BY <1>2, RunStays DEF RunInv, SipActors
<1> QED
  BY <1>1, <1>2, <1>3, <1>4, ActorsApart DEF RunInv, SipActors

\* It ends, with an answer or without.
LEMMA RunEnds ==
  ASSUME TypeInv, RunInv, NEW r \in SipRequests, place[r] \in Handled,
         NEW i \in 0..64, i >= Len(Chain(request[r].method)), RunNext(r, i, request[r]),
         \/ UNCHANGED replies /\ JobOf(r) \in {"ack", "config", "alarm"}
         \/ \E status \in Statuses :
              Replies(r, status) /\ (status \notin {401, 403} \/ ~HasBody(request[r].method))
  PROVE  RunTyped' /\ RunInv' /\ place' = [place EXCEPT ![r] = "through"]
<1> DEFINE q == request[r]
<1>1. q \in Request
  BY DEF TypeInv, RunTyped
<1>2. /\ index' = [index EXCEPT ![r] = i] /\ index' \in [SipRequests -> 0..64]
      /\ ran' \in [SipRequests -> 0..1] /\ request' \in [SipRequests -> Request]
      /\ \A x \in SipRequests : x # r => ran'[x] = ran[x] /\ request'[x] = request[x]
      /\ request'[r].method = q.method /\ request'[r].cmd = q.cmd
      /\ place' = [place EXCEPT ![r] = "through"] /\ ran'[r] = ran[r]
  BY <1>1, RunsNext
<1>3. replies[r] = <<>> /\ ran[r] = 1
  BY DEF RunInv, RunOK
<1>4. /\ replies' \in [SipRequests -> Replied]
      /\ \A x \in SipRequests : x # r => replies'[x] = replies[x]
      /\ \/ replies'[r] = <<>> /\ JobOf(r) \in {"ack", "config", "alarm"}
         \/ \E status \in Statuses : replies'[r] = <<status>> /\ (status \notin {401, 403} \/ ~HasBody(q.method))
  <2>1. CASE UNCHANGED replies /\ JobOf(r) \in {"ack", "config", "alarm"}
    BY <1>3, <2>1 DEF TypeInv, RunTyped
  <2>2. CASE \E status \in Statuses :
                Replies(r, status) /\ (status \notin {401, 403} \/ ~HasBody(request[r].method))
    BY <1>3, <2>2, RepliesOnce
  <2> QED
    BY <2>1, <2>2
<1>5. place'[r] = "through" /\ \A a \in SipActors : a # r => place'[a] = place[a]
  BY <1>2 DEF TypeInv, SipActors
<1>6. RunOK(r)'
  <2>1. JobOf(r)' = JobOf(r)
    BY <1>2 DEF JobOf
  <2>2. ran'[r] = 1 /\ request'[r].method = q.method
    BY <1>2, <1>3
  <2>3. IsThrough(r)'
    <3>1. CASE replies'[r] = <<>> /\ JobOf(r) \in {"ack", "config", "alarm"}
      BY <2>1, <2>2, <3>1 DEF IsThrough
    <3>2. ASSUME NEW status \in Statuses, replies'[r] = <<status>>, status \notin {401, 403} \/ ~HasBody(q.method)
          PROVE  IsThrough(r)'
      <4>1. replies'[r] # <<>> /\ (status \notin {401, 403} => replies'[r] \notin {<<401>>, <<403>>})
        BY <3>2
      <4> QED
        BY <2>2, <3>2, <4>1 DEF IsThrough
    <3> QED
      BY <1>4, <3>1, <3>2
  <2> QED
    BY <1>5, <2>3 DEF RunOK, Unbusy, Handled
<1>7. \A x \in SipRequests : x # r => RunOK(x)'
  BY <1>2, <1>4, <1>5, RunStays DEF RunInv, SipActors
<1> QED
  BY <1>2, <1>4, <1>5, <1>6, <1>7, ActorsApart DEF RunInv, RunTyped, SipActors

\* The user goes on.
LEMMA UserMoves ==
  ASSUME TypeInv, RunInv, NEW p \in {"check", "repair", "memory", "forget", "end"},
         place' = [place EXCEPT ![User] = p], UNCHANGED <<index, replies, ran>>, request' = request
  PROVE  RunTyped' /\ RunInv'
<1>1. place'[User] = p /\ \A x \in SipRequests : place'[x] = place[x]
  BY ActorsApart DEF TypeInv, SipActors
<1>2. \A x \in SipRequests : RunOK(x)'
  BY <1>1, RunStays DEF RunInv
<1> QED
  BY <1>1, <1>2 DEF TypeInv, RunTyped, RunInv

----------------------------------------------------------------------------
(* Who changes the credentials.                                            *)

ChangePlaces == {"object", "store", "row", "memory", "check", "repair", "forget"}

\* A step that has nothing to do with them.
LEMMA ChangeStays ==
  ASSUME TypeInv, ChangeInv, NEW a \in SipActors, NEW p, p \notin ChangePlaces, ~Changing(a),
         place' = [place EXCEPT ![a] = p], UNCHANGED <<stored, cached, seenRow, changer>>
  PROVE  ChangeInv'
<1>1. \A b \in SipActors : Changing(b)' <=> Changing(b)
  BY DEF TypeInv, Changing, ChangePlaces
<1>2. changer \in SipActors => place'[changer] = place[changer]
  BY DEF TypeInv, ChangeInv
<1> QED
  BY <1>1, <1>2 DEF ChangeInv

\* A change of either.
LEMMA ChangeGoesOn ==
  ASSUME TypeInv, ChangeInv, NEW a \in SipActors, NEW p \in ChangePlaces,
         place' = [place EXCEPT ![a] = p], Changes(a),
         p = "memory" => seenRow'[a] = stored',
         p = "forget" => stored' = Absent
  PROVE  ChangeInv'
<1>1. place'[a] = p /\ \A b \in SipActors : b # a => place'[b] = place[b]
  BY DEF TypeInv
<1>2. changer' = "several" \/ (changer' = a /\ \A b \in SipActors : b # a => ~Changing(b))
  BY DEF Changes, ChangeInv
<1>3. CASE changer' = "several"
  BY <1>3, ActorsApart DEF ChangeInv
<1>4. CASE changer' = a /\ \A b \in SipActors : b # a => ~Changing(b)
  <2>1. \A b \in SipActors : Changing(b)' <=> b = a
    BY <1>1, <1>4 DEF Changing, ChangePlaces
  <2> QED
    BY <1>1, <1>4, <2>1, ActorsApart DEF ChangeInv
<1> QED
  BY <1>2, <1>3, <1>4

\* The end of one.
LEMMA ChangeEnds ==
  ASSUME TypeInv, ChangeInv, NEW a \in SipActors, NEW p, p \notin ChangePlaces,
         place' = [place EXCEPT ![a] = p],
         Spoils \/ (Completes(a) /\ (changer = a => cached' \in {Absent, stored'}))
  PROVE  ChangeInv'
<1>1. place'[a] = p /\ \A b \in SipActors : b # a => place'[b] = place[b]
  BY DEF TypeInv
<1>2. CASE changer' = "several"
  BY <1>2, ActorsApart DEF ChangeInv
<1>3. CASE changer' = "none" /\ changer = a
  <2>1. \A b \in SipActors : ~Changing(b)'
    BY <1>1, <1>3 DEF ChangeInv, Changing, ChangePlaces
  <2>2. cached' \in {Absent, stored'}
    BY <1>3 DEF Spoils
  <2> QED
    BY <1>3, <2>1, <2>2, ActorsApart DEF ChangeInv
<1> QED
  BY <1>2, <1>3 DEF Spoils, Completes

\* Which requests are being checked, when an actor that is not being checked does a step.
LEMMA SteadyStays ==
  ASSUME TypeInv, SteadyInv, NEW a \in SipActors, NEW p, place[a] \notin {"access", "digest"},
         place' = [place EXCEPT ![a] = p], Steady \/ UNCHANGED <<changer, steady>>
  PROVE  SteadyInv' /\ steady' \subseteq SipRequests
  BY DEF TypeInv, SteadyInv, Steady, SipActors

\* A step that answers no steady request refuses none.
LEMMA AcceptsOthers ==
  ASSUME TypeInv, RunInv, SteadyInv, NEW a \in SipActors, place[a] \notin {"access", "digest"},
         \A x \in SipRequests : x # a => replies'[x] = replies[x]
  PROVE  Accepts
<1>1. \A r \in steady : replies'[r] = <<>>
  BY DEF TypeInv, RunInv, RunOK, SteadyInv
<1> QED
  BY <1>1 DEF Accepts

----------------------------------------------------------------------------
(* The initial states, the listener and the access control.                *)

\* Nothing has arrived, and nothing was changed.
LEMMA InvInit == HandlersInit => IInv
<1> SUFFICES ASSUME HandlersInit
             PROVE  IInv
  OBVIOUS
<1>1. RunTyped
  <2>1. <<>> \in Replied
    BY DEF Replied
  <2>2. request \in [SipRequests -> Request]
    BY RequestsTyped DEF HandlersInit
  <2>3. replies \in [SipRequests -> Replied]
    BY <2>1 DEF HandlersInit
  <2>4. index = [r \in SipRequests |-> 0] /\ ran = [r \in SipRequests |-> 0]
    BY DEF HandlersInit
  <2>5. index \in [SipRequests -> 0..64] /\ ran \in [SipRequests -> 0..1]
    BY <2>4
  <2> QED
    BY <2>2, <2>3, <2>5 DEF RunTyped
<1>2. [password : OwnPasswords \cup {"", Ignore}, ip : {""}] \subseteq Credential /\ NoCredential \in Credential
  BY DEF Credential, NoCredential
<1>3. TypeInv
  <2>1. stored \in Credential \cup {Absent} /\ cached \in Credential \cup {Absent}
    BY <1>2 DEF HandlersInit
  <2>2. place \in [SipActors -> Places] /\ seenRow \in [SipActors -> Credential]
    BY <1>2 DEF HandlersInit, Places
  <2>3. mishaps = 0 /\ changer = "none" /\ steady = {}
    BY DEF HandlersInit
  <2>4. mishaps \in 0..MaxMishaps
    BY <2>3, BoundNat
  <2> QED
    BY <1>1, <2>1, <2>2, <2>3, <2>4 DEF TypeInv
<1>4. RunInv
  BY ActorsApart DEF HandlersInit, RunInv, RunOK, Unbusy, Handled, SipActors
<1>5. ChangeInv /\ SteadyInv
  BY ActorsApart DEF HandlersInit, ChangeInv, SteadyInv, Changing
<1> QED
  BY <1>3, <1>4, <1>5 DEF IInv

\* A request arrives and is routed.
LEMMA ArriveKeeps ==
  ASSUME IInv, NEW r \in SipRequests, Arrive(r)
  PROVE  IInv' /\ Accepts
<1> USE DEF IInv
<1>1. /\ place[r] = "new" /\ r \in SipActors /\ replies[r] = <<>> /\ ran[r] = 0
      /\ UNCHANGED <<checked, stored, cached, seenRow, mishaps, changer>>
  BY DEF Arrive, RunInv, RunOK, SipActors, storeVars, Unbusy
<1>2. PICK q \in Arrivals(r) :
        LET empty == HasBody(q.method) /\ q.body \in {"none", "bad"}
            routed == Route(q.method, q.cmd) # ""
        IN  \/ empty /\ Replies(r, 400) /\ RunNext(r, 64, q)
            \/ ~empty /\ ~routed /\ Replies(r, 405) /\ RunNext(r, 64, q)
            \/ ~empty /\ routed /\ RunNext(r, 0, q) /\ UNCHANGED replies
  BY DEF Arrive
<1>3. q \in Request
  BY RequestsTyped
<1> DEFINE Arrived(i, p) ==
        /\ place' = [place EXCEPT ![r] = p] /\ RunTyped'
        /\ index' = [index EXCEPT ![r] = i]
        /\ \A x \in SipRequests : x # r => replies'[x] = replies[x] /\ ran'[x] = ran[x] /\ request'[x] = request[x]
        /\ request'[r].method = q.method /\ ran'[r] = (IF p = "handle" THEN 1 ELSE 0)
        /\ p = "access" => i = 0 /\ HasBody(q.method)
        /\ p = "handle" => i = 0 /\ ~HasBody(q.method)
        /\ IF p = "through" THEN replies'[r] \in {<<400>>, <<405>>} ELSE replies'[r] = <<>>
<1>4. \E i \in {0, 64}, p \in {"access", "handle", "through"} : Arrived(i, p)
  <2>1. CASE RunNext(r, 64, q) /\ \E status \in {400, 405} : Replies(r, status)
    <3>1. 64 >= Len(Chain(q.method))
      BY PastTheChain
    <3>2. /\ index' = [index EXCEPT ![r] = 64] /\ index' \in [SipRequests -> 0..64]
          /\ ran' \in [SipRequests -> 0..1] /\ request' \in [SipRequests -> Request]
          /\ \A x \in SipRequests : x # r => ran'[x] = ran[x] /\ request'[x] = request[x]
          /\ request'[r].method = q.method
          /\ place' = [place EXCEPT ![r] = "through"] /\ ran'[r] = ran[r]
      BY <1>1, <1>3, <2>1, <3>1, RunsNext
    <3>3. /\ replies' \in [SipRequests -> Replied] /\ replies'[r] \in {<<400>>, <<405>>}
          /\ \A x \in SipRequests : x # r => replies'[x] = replies[x]
      <4>1. PICK status \in {400, 405} : Replies(r, status)
        BY <2>1
      <4>2. status \in Statuses
        BY DEF Statuses
      <4>3. /\ replies' \in [SipRequests -> Replied] /\ replies'[r] = <<status>>
            /\ \A x \in SipRequests : x # r => replies'[x] = replies[x]
        BY <1>1, <4>1, <4>2, RepliesOnce
      <4>4. <<status>> \in {<<400>>, <<405>>}
        OBVIOUS
      <4> QED
        BY <4>3, <4>4
    <3>4. RunTyped'
      BY <3>2, <3>3 DEF RunTyped
    <3>5. Arrived(64, "through")
      BY <1>1, <3>2, <3>3, <3>4
    <3> QED
      BY <3>5
  <2>2. CASE RunNext(r, 0, q) /\ UNCHANGED replies
    <3>1. /\ index' = [index EXCEPT ![r] = 0] /\ index' \in [SipRequests -> 0..64]
          /\ ran' \in [SipRequests -> 0..1] /\ request' \in [SipRequests -> Request]
          /\ \A x \in SipRequests : x # r => ran'[x] = ran[x] /\ request'[x] = request[x]
          /\ request'[r].method = q.method
          /\ HasBody(q.method) => place' = [place EXCEPT ![r] = "access"] /\ ran'[r] = ran[r]
          /\ ~HasBody(q.method) => place' = [place EXCEPT ![r] = "handle"] /\ ran'[r] = ran[r] + 1
      BY <1>1, <1>3, <2>2, Chains, RunsNext
    <3>2. replies' \in [SipRequests -> Replied] /\ replies'[r] = <<>>
      BY <1>1, <2>2 DEF RunTyped, TypeInv
    <3>3. RunTyped'
      BY <3>1, <3>2 DEF RunTyped
    <3>4. CASE HasBody(q.method)
      <4>1. Arrived(0, "access")
        BY <1>1, <2>2, <3>1, <3>2, <3>3, <3>4
      <4> QED
        BY <4>1
    <3>5. CASE ~HasBody(q.method)
      <4>1. ran'[r] = 1
        BY <1>1, <3>1, <3>5
      <4>2. Arrived(0, "handle")
        BY <2>2, <3>1, <3>2, <3>3, <3>5, <4>1
      <4> QED
        BY <4>2
    <3> QED
      BY <3>4, <3>5
  <2> QED
    BY <1>2, <2>1, <2>2
<1>5. PICK i \in {0, 64}, p \in {"access", "handle", "through"} : Arrived(i, p)
  BY <1>4
<1>6. /\ place'[r] = p /\ \A a \in SipActors : a # r => place'[a] = place[a]
      /\ index'[r] = i /\ \A x \in SipRequests : x # r => index'[x] = index[x]
  BY <1>1, <1>5 DEF TypeInv, RunTyped
<1>7. steady' = IF changer = "none" /\ p = "access" THEN steady \cup {r} ELSE steady
  BY <1>6 DEF Arrive
<1>8. TypeInv'
  BY <1>1, <1>5, <1>7 DEF TypeInv, Places
<1>9. RunInv'
  <2>1. IsThrough(r)' \/ p # "through"
    <3>1. <<400>> \notin {<<>>, <<401>>, <<403>>} /\ <<405>> \notin {<<>>, <<401>>, <<403>>}
      OBVIOUS
    <3>2. p = "through" => replies'[r] \notin {<<>>, <<401>>, <<403>>}
      BY <1>5, <3>1
    <3> QED
      BY <3>2 DEF IsThrough
  <2>2. RunOK(r)'
    <3>1. CASE p = "access"
      BY <1>5, <1>6, <3>1 DEF RunOK, Unbusy, Handled
    <3>2. CASE p = "handle"
      <4>1. Len(Chain(request'[r].method)) = 1
        BY <1>5, <3>2, Chains
      <4> QED
        BY <1>5, <1>6, <3>2, <4>1 DEF RunOK, Unbusy, Handled
    <3>3. CASE p = "through"
      BY <1>6, <2>1, <3>3 DEF RunOK, Unbusy, Handled
    <3> QED
      BY <3>1, <3>2, <3>3
  <2>3. \A x \in SipRequests : x # r => RunOK(x)'
    BY <1>5, <1>6, RunStays DEF RunInv, SipActors
  <2> QED
    BY <1>6, <2>2, <2>3, ActorsApart DEF RunInv, SipActors
<1>10. ChangeInv'
  BY <1>1, <1>5, ChangeStays DEF ChangePlaces, Changing
<1>11. SteadyInv'
  BY <1>1, <1>6, <1>7 DEF SteadyInv, TypeInv, SipActors
<1> QED
  BY <1>1, <1>5, <1>8, <1>9, <1>10, <1>11, AcceptsOthers

\* The access control refuses a request.
LEMMA RunAborts ==
  ASSUME TypeInv, RunInv, NEW r \in SipRequests, place[r] \in {"access", "digest"},
         NEW status \in {401, 403}, Aborts(r, status)
  PROVE  /\ RunTyped' /\ RunInv' /\ place' = [place EXCEPT ![r] = "through"]
         /\ \A x \in SipRequests : x # r => replies'[x] = replies[x]
<1> DEFINE q == request[r]
<1>1. q \in Request /\ replies[r] = <<>> /\ ran[r] = 0 /\ status \in Statuses
  BY DEF TypeInv, RunTyped, RunInv, RunOK, Statuses
<1>2. RunNext(r, 64, q) /\ Replies(r, status)
  BY DEF Aborts, Aborted
<1>3. 64 >= Len(Chain(q.method))
  BY PastTheChain
<1>4. /\ index' = [index EXCEPT ![r] = 64] /\ index' \in [SipRequests -> 0..64]
      /\ ran' \in [SipRequests -> 0..1] /\ request' \in [SipRequests -> Request]
      /\ \A x \in SipRequests : x # r => ran'[x] = ran[x] /\ request'[x] = request[x]
      /\ place' = [place EXCEPT ![r] = "through"] /\ ran'[r] = 0
  <2>1. 64 \in 0..64 /\ (ran[r] = 0 \/ 64 >= Len(Chain(q.method)))
    BY <1>1
  <2> HIDE DEF q
  <2> QED
    BY <1>1, <1>2, <1>3, <2>1, RunsNext
<1>5. /\ replies' \in [SipRequests -> Replied] /\ replies'[r] = <<status>>
      /\ \A x \in SipRequests : x # r => replies'[x] = replies[x]
  BY <1>1, <1>2, RepliesOnce
<1>6. /\ place'[r] = "through" /\ \A a \in SipActors : a # r => place'[a] = place[a]
      /\ \A x \in SipRequests : x # r => index'[x] = index[x]
  BY <1>4 DEF TypeInv, RunTyped, SipActors
<1>7. RunOK(r)'
  <2>1. replies'[r] # <<>>
    BY <1>5
  <2> QED
    BY <1>4, <1>6, <2>1 DEF RunOK, IsThrough, Unbusy, Handled
<1>8. \A x \in SipRequests : x # r => RunOK(x)'
  BY <1>4, <1>5, <1>6, RunStays DEF RunInv, SipActors
<1>9. RunTyped'
  BY <1>4, <1>5 DEF RunTyped
<1>10. RunInv'
  BY <1>6, <1>7, <1>8, ActorsApart DEF RunInv, SipActors
<1> QED
  BY <1>4, <1>5, <1>9, <1>10

\* It lets one through to its handler.
LEMMA RunPasses ==
  ASSUME TypeInv, RunInv, NEW r \in SipRequests, place[r] = "digest", Returns(r), UNCHANGED replies
  PROVE  RunTyped' /\ RunInv' /\ place' = [place EXCEPT ![r] = "handle"]
<1> DEFINE q == request[r]
<1>1. q \in Request /\ replies[r] = <<>> /\ ran[r] = 0 /\ index[r] = 0 /\ HasBody(q.method)
  BY DEF TypeInv, RunTyped, RunInv, RunOK
<1>2. RunNext(r, 1, q)
  BY <1>1 DEF Returns
<1>3. Len(Chain(q.method)) = 2
  BY <1>1, Chains
<1>4. /\ index' = [index EXCEPT ![r] = 1] /\ index' \in [SipRequests -> 0..64]
      /\ ran' \in [SipRequests -> 0..1] /\ request' \in [SipRequests -> Request]
      /\ \A x \in SipRequests : x # r => ran'[x] = ran[x] /\ request'[x] = request[x]
      /\ request'[r].method = q.method
      /\ place' = [place EXCEPT ![r] = "handle"] /\ ran'[r] = 1
  BY <1>1, <1>2, <1>3, RunsNext
<1>5. /\ place'[r] = "handle" /\ \A a \in SipActors : a # r => place'[a] = place[a]
      /\ index'[r] = 1 /\ \A x \in SipRequests : x # r => index'[x] = index[x]
  BY <1>4 DEF TypeInv, RunTyped, SipActors
<1>6. RunOK(r)'
  BY <1>1, <1>3, <1>4, <1>5 DEF RunOK, Unbusy, Handled
<1>7. \A x \in SipRequests : x # r => RunOK(x)'
  BY <1>4, <1>5, RunStays DEF RunInv, SipActors
<1> QED
  BY <1>4, <1>5, <1>6, <1>7, ActorsApart DEF RunInv, RunTyped, TypeInv, SipActors

\* While nobody changes the credentials, a device is checked against its row.
LEMMA TakenIsStored ==
  ASSUME ChangeInv, changer = "none", NEW r, NEW cred, TakenFor(r, cred)
  PROVE  cred = stored
  BY DEF ChangeInv, TakenFor

\* A fault is counted.
LEMMA Mishaps == ASSUME TypeInv, Fault \/ NoFault PROVE mishaps' \in 0..MaxMishaps
  BY BoundNat DEF TypeInv, Fault, NoFault

\* The source and the digest are checked, and a device that is in order passes.
LEMMA CheckKeeps ==
  ASSUME IInv, NEW r \in SipRequests, CheckSource(r) \/ CheckDigest(r)
  PROVE  IInv' /\ Accepts
<1> USE DEF IInv
<1>1. /\ place[r] \in {"access", "digest"} /\ r \in SipActors
      /\ UNCHANGED <<checked, stored, cached, seenRow, changer>>
      /\ steady' \in {steady, steady \ {r}} /\ (Fault \/ NoFault)
  BY DEF CheckSource, CheckDigest, LookupFails, storeVars, SipActors
<1>2. mishaps' \in 0..MaxMishaps
  BY <1>1, Mishaps
<1>3. \E p \in {"digest", "handle", "through"} :
        /\ RunTyped' /\ RunInv' /\ place' = [place EXCEPT ![r] = p]
        /\ \A x \in SipRequests : x # r => replies'[x] = replies[x]
        /\ p = "digest" \/ steady' = steady \ {r}
  <2>1. CASE place[r] = "access" /\ MoveTo(r, "digest") /\ StaysWithin
    <3>1. /\ place' = [place EXCEPT ![r] = "digest"] /\ place'[r] = "digest"
          /\ \A a \in SipActors : a # r => place'[a] = place[a]
      BY <1>1, <2>1 DEF MoveTo, TypeInv
    <3>2. RunTyped' /\ UNCHANGED <<request, index, ran, replies>>
      BY <2>1 DEF StaysWithin, TypeInv, RunTyped
    <3>3. RunOK(r)'
      BY <2>1, <3>1, <3>2 DEF RunInv, RunOK, Unbusy, Handled
    <3>4. \A x \in SipRequests : x # r => RunOK(x)'
      BY <3>1, <3>2, RunStays DEF RunInv, SipActors
    <3> QED
      BY <3>1, <3>2, <3>3, <3>4, ActorsApart DEF RunInv, SipActors
  <2>2. CASE steady' = steady \ {r} /\ \E status \in {401, 403} : Aborts(r, status)
    BY <1>1, <2>2, RunAborts
  <2>3. CASE place[r] = "digest" /\ steady' = steady \ {r} /\ Returns(r) /\ UNCHANGED replies
    BY <2>3, RunPasses
  <2> QED
    BY <2>1, <2>2, <2>3 DEF CheckSource, CheckDigest
<1>4. PICK p \in {"digest", "handle", "through"} :
        /\ RunTyped' /\ RunInv' /\ place' = [place EXCEPT ![r] = p]
        /\ \A x \in SipRequests : x # r => replies'[x] = replies[x]
        /\ p = "digest" \/ steady' = steady \ {r}
  BY <1>3
<1>5. TypeInv'
  BY <1>1, <1>2, <1>4 DEF TypeInv, Places
<1>6. ChangeInv'
  BY <1>1, <1>4, ChangeStays DEF ChangePlaces, Changing
<1>7. SteadyInv'
  BY <1>1, <1>4 DEF SteadyInv, TypeInv
<1>8. ASSUME NEW x \in steady, mishaps' = mishaps, stored # Absent, Signed(x, stored),
             SourceFits(x, stored), request[x].known
      PROVE  replies'[x] \notin {<<401>>, <<403>>}
  <2>1. changer = "none" /\ x \in SipRequests /\ replies[x] = <<>>
    BY DEF SteadyInv, TypeInv, RunInv, RunOK
  <2>2. <<>> \notin {<<401>>, <<403>>}
    OBVIOUS
  <2>3. CASE x # r
    <3>1. replies'[x] = replies[x]
      BY <1>4, <2>1, <2>3
    <3> QED
      BY <2>1, <2>2, <3>1
  <2>4. CASE x = r
    <3>1. ~Fault
      BY <1>8 DEF Fault, TypeInv
    <3>2. ~TakenFor(r, Absent)
      BY <1>8, <2>1, TakenIsStored
    <3>3. ~\E cred \in Credential : TakenFor(r, cred) /\ ~(Signed(r, cred) /\ SourceFits(r, cred))
      BY <1>8, <2>1, <2>4, TakenIsStored
    <3>4. UNCHANGED replies
      <4>1. CASE CheckSource(r)
        BY <1>8, <2>4, <3>1, <3>2, <3>3, <4>1 DEF CheckSource, LookupFails, StaysWithin
      <4>2. CASE CheckDigest(r)
        BY <1>8, <2>4, <3>1, <3>2, <3>3, <4>2 DEF CheckDigest, LookupFails
      <4> QED
        BY <4>1, <4>2
    <3> QED
      BY <2>1, <2>2, <2>4, <3>4
  <2> QED
    BY <2>3, <2>4
<1>9. Accepts
  BY <1>8 DEF Accepts
<1> QED
  BY <1>4, <1>5, <1>6, <1>7, <1>9

----------------------------------------------------------------------------
(* The handlers, by what their steps have in common.                       *)

\* A handler ends.
LEMMA HandlerEnds ==
  ASSUME IInv, NEW r \in SipRequests, place[r] \in {"handle", "create", "answer"},
         \/ Returns(r) \/ RunNext(r, 64, request[r]),
         \/ UNCHANGED replies /\ JobOf(r) \in {"ack", "config", "alarm"}
         \/ \E status \in Statuses :
              Replies(r, status) /\ (status \notin {401, 403} \/ ~HasBody(request[r].method)),
         UNCHANGED <<stored, cached, seenRow, changer>>, UNCHANGED steady \/ Steady, Fault \/ NoFault
  PROVE  IInv' /\ Accepts
<1> USE DEF IInv
<1>1. r \in SipActors /\ place[r] \in Handled /\ place[r] \notin {"access", "digest"} /\ ~Changing(r)
  BY DEF SipActors, Handled, Changing
<1>2. /\ \E i \in 0..64 : i >= Len(Chain(request[r].method)) /\ RunNext(r, i, request[r])
  <2>1. CASE RunNext(r, 64, request[r])
    <3>1. 64 >= Len(Chain(request[r].method)) /\ 64 \in 0..64
      BY PastTheChain
    <3> QED
      BY <2>1, <3>1
  <2>2. CASE Returns(r)
    <3>1. Len(Chain(request[r].method)) = 2 \/ Len(Chain(request[r].method)) = 1
      BY Chains
    <3>2. index[r] = Len(Chain(request[r].method)) - 1
      BY <1>1 DEF RunInv, RunOK
    <3>3. index[r] + 1 \in 0..64 /\ index[r] + 1 >= Len(Chain(request[r].method))
      BY <3>1, <3>2
    <3> QED
      BY <2>2, <3>3 DEF Returns
  <2> QED
    BY <2>1, <2>2
<1>3. RunTyped' /\ RunInv' /\ place' = [place EXCEPT ![r] = "through"]
  <2>1. PICK i \in 0..64 : i >= Len(Chain(request[r].method)) /\ RunNext(r, i, request[r])
    BY <1>2
  <2> QED
    BY <1>1, <2>1, RunEnds
<1>4. ChangeInv'
  BY <1>1, <1>3, ChangeStays DEF ChangePlaces
<1>5. SteadyInv' /\ steady' \subseteq SipRequests
  BY <1>1, <1>3, SteadyStays
<1>6. TypeInv'
  BY <1>3, <1>5, Mishaps DEF TypeInv, Places
<1>7. Accepts
  <2>1. \A x \in SipRequests : x # r => replies'[x] = replies[x]
    BY DEF Replies, TypeInv, RunTyped
  <2> QED
    BY <1>1, <2>1, AcceptsOthers
<1> QED
  BY <1>3, <1>4, <1>5, <1>6, <1>7

\* It goes on.
LEMMA HandlerMoves ==
  ASSUME IInv, NEW r \in SipRequests, NEW p \in Handled, place[r] \in Handled,
         place' = [place EXCEPT ![r] = p], UNCHANGED <<index, replies, ran>>,
         request' \in [SipRequests -> Request], request'[r].method = request[r].method,
         \A x \in SipRequests : x # r => request'[x] = request[x],
         Steady, Fault \/ NoFault, ChangeInv',
         stored' \in Credential \cup {Absent}, cached' \in Credential \cup {Absent},
         seenRow' \in [SipActors -> Credential], changer' \in {r, "none", "several", changer}
  PROVE  IInv' /\ Accepts
<1> USE DEF IInv
<1>1. r \in SipActors /\ place[r] \notin {"access", "digest"}
  BY DEF SipActors, Handled
<1>2. RunTyped' /\ RunInv'
  BY RunMoves
<1>3. SteadyInv' /\ steady' \subseteq SipRequests
  BY <1>1, SteadyStays
<1>4. TypeInv'
  BY <1>1, <1>2, <1>3, Mishaps DEF TypeInv, Places, Handled
<1>5. Accepts
  BY <1>1, AcceptsOthers
<1> QED
  BY <1>2, <1>3, <1>4, <1>5

\* A step of the user.
LEMMA UserKeeps ==
  ASSUME IInv, NEW p \in {"check", "repair", "memory", "forget", "end"},
         place' = [place EXCEPT ![User] = p], UNCHANGED <<index, replies, ran>>, request' = request,
         Steady, Fault \/ NoFault, ChangeInv',
         stored' \in Credential \cup {Absent}, cached' \in Credential \cup {Absent},
         seenRow' \in [SipActors -> Credential], changer' \in {User, "none", "several"}
  PROVE  IInv' /\ Accepts
<1> USE DEF IInv
<1>1. User \in SipActors /\ place[User] \notin {"access", "digest"}
  BY DEF SipActors, RunInv
<1>2. RunTyped' /\ RunInv'
  BY UserMoves
<1>3. SteadyInv' /\ steady' \subseteq SipRequests
  BY <1>1, SteadyStays
<1>4. TypeInv'
  BY <1>1, <1>2, <1>3, Mishaps DEF TypeInv, Places
<1>5. Accepts
  BY <1>1, AcceptsOthers
<1> QED
  BY <1>2, <1>3, <1>4, <1>5

\* What the handlers write into a request leaves its method, and what it is for, alone.
LEMMA Rewritten ==
  ASSUME TypeInv, NEW r \in SipRequests,
         Proven(r) \/ request' = [x \in SipRequests |-> IF x = r THEN Read(request[x]) ELSE request[x]]
  PROVE  /\ request' \in [SipRequests -> Request] /\ request'[r].method = request[r].method
         /\ \A x \in SipRequests : x # r => request'[x] = request[x]
<1>1. request \in [SipRequests -> Request]
  BY DEF TypeInv, RunTyped
<1>2. CASE Proven(r)
  <2>1. request' = [request EXCEPT ![r] = [request[r] EXCEPT !.secret = "", !.way = ""]]
    BY <1>1, <1>2 DEF Proven
  <2>2. [request[r] EXCEPT !.secret = "", !.way = ""] \in Request
        /\ [request[r] EXCEPT !.secret = "", !.way = ""].method = request[r].method
    BY <1>1, ProvenTyped
  <2> QED
    BY <1>1, <2>1, <2>2
<1>3. CASE request' = [x \in SipRequests |-> IF x = r THEN Read(request[x]) ELSE request[x]]
  BY <1>1, <1>3, ReadTyped
<1> QED
  BY <1>2, <1>3

----------------------------------------------------------------------------
(* The handlers and the user, one by one.                                  *)

\* A report is handled.
LEMMA ReportKeeps ==
  ASSUME IInv, NEW r \in SipRequests, Report(r) \/ Alarm(r) \/ Answer200(r)
  PROVE  IInv' /\ Accepts
<1>1. /\ place[r] \in {"handle", "create", "answer"} /\ NoFault
      /\ UNCHANGED <<stored, cached, seenRow, changer>> /\ UNCHANGED steady
  BY DEF Report, Alarm, Answer200, storeVars, NoFault
<1>2. Returns(r) \/ RunNext(r, 64, request[r])
  BY DEF Report, Alarm, Answer200, Answers
<1>3. \/ UNCHANGED replies /\ JobOf(r) \in {"ack", "config", "alarm"}
      \/ \E status \in {200, 400, 481} : Replies(r, status)
  BY DEF Report, Alarm, Answer200, Answers, Answerless
<1>4. {200, 400, 481} \subseteq Statuses \ {401, 403}
  BY DEF Statuses
<1> QED
  BY <1>1, <1>2, <1>3, <1>4, HandlerEnds

\* A REGISTER is refused.
LEMMA RefusedKeeps ==
  ASSUME IInv, NEW r \in SipRequests, RegisterRefused(r)
  PROVE  IInv' /\ Accepts
<1>1. /\ place[r] \in {"handle", "create", "answer"} /\ (Fault \/ NoFault)
      /\ UNCHANGED <<stored, cached, seenRow, changer>> /\ UNCHANGED steady
      /\ Answers(r, 302) \/ Answers(r, 400) \/ Answers(r, 401) \/ Answers(r, 500)
  BY DEF RegisterRefused, storeVars
<1>2. ~HasBody(request[r].method)
  BY RegistersHaveNoBody DEF RegisterRefused
<1>3. {302, 400, 401, 500} \subseteq Statuses
  BY DEF Statuses
<1> QED
  BY <1>1, <1>2, <1>3, HandlerEnds DEF Answers

\* A REGISTER passes.
LEMMA PassesKeeps ==
  ASSUME IInv, NEW r \in SipRequests, RegisterPasses(r)
  PROVE  IInv' /\ Accepts
<1>1. /\ place[r] \in Handled /\ ~Changing(r) /\ r \in SipActors /\ Proven(r) /\ Steady /\ NoFault
      /\ UNCHANGED <<stored, cached, index, replies, ran, seenRow>>
  BY DEF RegisterPasses, Handled, Changing, SipActors, storeVars, NoFault
<1>2. TypeInv /\ ChangeInv
  BY DEF IInv
<1>3. /\ request' \in [SipRequests -> Request] /\ request'[r].method = request[r].method
      /\ \A x \in SipRequests : x # r => request'[x] = request[x]
  BY <1>1, <1>2, Rewritten
<1>4. CASE MoveTo(r, "create") /\ UNCHANGED changer
  <2>1. ChangeInv'
    BY <1>1, <1>2, <1>4, ChangeStays DEF MoveTo, ChangePlaces
  <2> QED
    BY <1>1, <1>2, <1>3, <1>4, <2>1, HandlerMoves DEF MoveTo, Handled, TypeInv
<1>5. CASE MoveTo(r, "store") /\ Changes(r)
  <2>1. ChangeInv'
    BY <1>1, <1>2, <1>5, ChangeGoesOn DEF MoveTo, ChangePlaces
  <2>2. changer' \in {r, "none", "several", changer}
    BY <1>5 DEF Changes
  <2> QED
    BY <1>1, <1>2, <1>3, <1>5, <2>1, <2>2, HandlerMoves DEF MoveTo, Handled, TypeInv
<1> QED
  BY <1>4, <1>5 DEF RegisterPasses

\* A row is added for a device that has none.
LEMMA CreateKeeps ==
  ASSUME IInv, NEW r \in SipRequests, CreateRow(r)
  PROVE  IInv' /\ Accepts
<1>1. /\ place[r] = "create" /\ r \in SipActors /\ Steady
      /\ UNCHANGED <<checked, cached, seenRow>>
  BY DEF CreateRow, SipActors
<1>2. TypeInv /\ ChangeInv /\ request \in [SipRequests -> Request]
  BY DEF IInv, TypeInv, RunTyped
<1>3. CASE Fault /\ Answers(r, 500) /\ UNCHANGED <<stored, changer>>
  <2>1. /\ Returns(r) \/ RunNext(r, 64, request[r])
        /\ \E status \in Statuses :
             Replies(r, status) /\ (status \notin {401, 403} \/ ~HasBody(request[r].method))
    BY <1>3 DEF Answers, Statuses
  <2> QED
    BY <1>1, <1>3, <2>1, HandlerEnds
<1>4. CASE /\ Changes(r) /\ NoFault /\ StaysWithin /\ stored' \in {stored, NoCredential}
           /\ \E p \in {"object", "store"} : MoveTo(r, p)
  <2>1. PICK p \in {"object", "store"} : place' = [place EXCEPT ![r] = p]
    BY <1>4 DEF MoveTo
  <2>2. ChangeInv'
    BY <1>1, <1>2, <1>4, <2>1, ChangeGoesOn DEF ChangePlaces
  <2>3. /\ p \in Handled /\ place[r] \in Handled /\ changer' \in {r, "none", "several", changer}
        /\ NoCredential \in Credential /\ UNCHANGED <<request, index, replies, ran>>
    BY <1>1, <1>4 DEF Handled, Changes, NoCredential, Credential, StaysWithin
  <2>4. stored' \in Credential \cup {Absent} /\ cached' \in Credential \cup {Absent} /\ seenRow' \in [SipActors -> Credential]
    BY <1>1, <1>2, <1>4, <2>3 DEF TypeInv
  <2> QED
    BY <1>1, <1>2, <1>4, <2>1, <2>2, <2>3, <2>4, HandlerMoves
<1> QED
  BY <1>3, <1>4 DEF CreateRow

\* An object without credentials is stored where there is none.
LEMMA BlankKeeps ==
  ASSUME IInv, NEW a \in SipActors, StoreBlank(a)
  PROVE  IInv' /\ Accepts
<1>1. /\ place[a] \in {"object", "store"} /\ Changes(a) /\ Steady /\ NoFault
      /\ UNCHANGED <<stored, request, index, replies, ran, seenRow>>
      /\ cached' \in {cached, NoCredential}
  BY DEF StoreBlank, runVars, NoFault
<1>2. TypeInv /\ ChangeInv /\ request \in [SipRequests -> Request]
  BY DEF IInv, TypeInv, RunTyped
<1>3. a \in SipRequests
  BY <1>1 DEF IInv, RunInv, SipActors
<1>4. PICK p \in {"store", "row"} : place' = [place EXCEPT ![a] = p]
  BY DEF StoreBlank, MoveTo
<1>5. ChangeInv'
  BY <1>1, <1>2, <1>4, ChangeGoesOn DEF ChangePlaces
<1>6. /\ p \in Handled /\ place[a] \in Handled /\ changer' \in {a, "none", "several", changer}
      /\ NoCredential \in Credential
  BY <1>1, <1>4 DEF Handled, Changes, NoCredential, Credential
<1>7. stored' \in Credential \cup {Absent} /\ cached' \in Credential \cup {Absent} /\ seenRow' \in [SipActors -> Credential]
  BY <1>1, <1>2, <1>6 DEF TypeInv
<1> QED
  BY <1>1, <1>2, <1>3, <1>4, <1>5, <1>6, <1>7, HandlerMoves

\* A step of whoever is past the access control.
LEMMA ActorMoves ==
  ASSUME IInv, NEW a \in SipActors, NEW p,
         \/ a \in SipRequests /\ p \in Handled /\ place[a] \in Handled
         \/ a = User /\ p \in {"check", "repair", "memory", "forget", "end"},
         place' = [place EXCEPT ![a] = p], UNCHANGED <<index, replies, ran>>,
         request' \in [SipRequests -> Request],
         a \in SipRequests => request'[a].method = request[a].method,
         \A x \in SipRequests : x # a => request'[x] = request[x],
         Steady, Fault \/ NoFault, ChangeInv',
         stored' \in Credential \cup {Absent}, cached' \in Credential \cup {Absent},
         seenRow' \in [SipActors -> Credential], changer' \in {a, "none", "several"}
  PROVE  IInv' /\ Accepts
<1>1. CASE a \in SipRequests
  BY <1>1, ActorsApart, HandlerMoves
<1>2. CASE a = User
  <2>1. request' = request
    BY <1>2, ActorsApart DEF IInv, TypeInv, RunTyped
  <2> QED
    BY <1>2, <2>1, ActorsApart, UserKeeps
<1> QED
  BY <1>1, <1>2 DEF SipActors

\* A credential that was edited is one.
LEMMA Edited ==
  ASSUME NEW cred \in Credential
  PROVE  /\ \A i \in HostAddresses \cup {""} : [cred EXCEPT !.ip = i] \in Credential
         /\ \A w \in OwnPasswords \cup {"", Ignore} : [cred EXCEPT !.password = w] \in Credential
         /\ cred.password \in OwnPasswords \cup {"", Ignore}
  BY DEF Credential

\* A credential with nothing in it is one.
LEMMA Blank == NoCredential \in Credential
  BY DEF NoCredential, Credential

\* The first half of a change writes the row.
LEMMA ChangeRowKeeps ==
  ASSUME IInv, NEW a \in SipActors, ChangeRow(a)
  PROVE  IInv' /\ Accepts
<1>1. /\ place[a] \in {"row", "repair"} /\ Steady /\ (Fault \/ NoFault)
      /\ UNCHANGED <<cached, index, replies, ran>>
  BY DEF ChangeRow
<1>2. TypeInv /\ ChangeInv /\ request \in [SipRequests -> Request]
  BY DEF IInv, TypeInv, RunTyped
<1>3. \/ a \in SipRequests /\ a # User /\ place[a] \in Handled
      \/ a = User /\ a \notin SipRequests /\ place[a] = "repair"
  BY <1>1, ActorsApart DEF IInv, RunInv, SipActors, Handled
<1>4. /\ request' \in [SipRequests -> Request]
      /\ a \in SipRequests => request'[a].method = request[a].method
      /\ \A x \in SipRequests : x # a => request'[x] = request[x]
  <2>1. request' = [x \in SipRequests |-> IF x = a THEN Read(request[x]) ELSE request[x]]
    BY DEF ChangeRow
  <2> QED
    BY <1>2, <2>1, ReadTyped
<1>5. CASE /\ stored # Absent /\ NoFault
           /\ stored' = IF place[a] = "row" THEN [stored EXCEPT !.ip = request[a].ip]
                                            ELSE [stored EXCEPT !.password = seenRow[a].password]
           /\ seenRow' = [seenRow EXCEPT ![a] = stored']
           /\ MoveTo(a, "memory") /\ Changes(a)
  <2>1. stored \in Credential /\ seenRow[a] \in Credential
    BY <1>2, <1>5 DEF TypeInv
  <2>2. stored' \in Credential
    <3>1. CASE place[a] = "row"
      <4>1. request[a].ip \in HostAddresses \cup {""}
        BY <1>2, <1>3, <3>1 DEF Request
      <4> QED
        BY <1>5, <2>1, <3>1, <4>1, Edited
    <3>2. CASE place[a] # "row"
      BY <1>5, <2>1, <3>2, Edited
    <3> QED
      BY <3>1, <3>2
  <2>3. seenRow' \in [SipActors -> Credential] /\ seenRow'[a] = stored'
    BY <1>2, <1>5, <2>2 DEF TypeInv
  <2>4. place' = [place EXCEPT ![a] = "memory"] /\ changer' \in {a, "none", "several"}
    BY <1>5 DEF MoveTo, Changes
  <2>5. ChangeInv'
    BY <1>2, <1>5, <2>3, <2>4, ChangeGoesOn DEF ChangePlaces
  <2>6. cached' \in Credential \cup {Absent} /\ "memory" \in Handled
    BY <1>1, <1>2 DEF TypeInv, Handled
  <2> QED
    BY <1>1, <1>3, <1>4, <2>2, <2>3, <2>4, <2>5, <2>6, ActorMoves
<1>6. CASE MoveTo(a, After(a)) /\ Spoils /\ Unseen(a) /\ UNCHANGED stored
  <2>1. place' = [place EXCEPT ![a] = After(a)] /\ After(a) \in {"answer", "end"}
        /\ (a = User => After(a) = "end") /\ (a # User => After(a) = "answer")
        /\ changer' \in {a, "none", "several"}
    BY <1>6 DEF MoveTo, After, Spoils
  <2>2. ChangeInv'
    BY <1>2, <1>6, <2>1, ChangeEnds DEF ChangePlaces
  <2>3. seenRow' \in [SipActors -> Credential]
    BY <1>2, <1>6, Blank DEF TypeInv, Unseen
  <2>4. stored' \in Credential \cup {Absent} /\ cached' \in Credential \cup {Absent} /\ "answer" \in Handled
    BY <1>1, <1>2, <1>6 DEF TypeInv, Handled
  <2> QED
    BY <1>1, <1>3, <1>4, <2>1, <2>2, <2>3, <2>4, ActorMoves
<1> QED
  BY <1>5, <1>6 DEF ChangeRow

\* The second half writes the object.
LEMMA ChangeObjectKeeps ==
  ASSUME IInv, NEW a \in SipActors, ChangeObject(a)
  PROVE  IInv' /\ Accepts
<1>1. /\ place[a] = "memory" /\ Steady /\ NoFault /\ Completes(a)
      /\ UNCHANGED <<stored, request, index, replies, ran>>
      /\ cached' \in {Absent, seenRow[a]}
  BY DEF ChangeObject, runVars, NoFault, Copies
<1>2. TypeInv /\ ChangeInv /\ request \in [SipRequests -> Request]
  BY DEF IInv, TypeInv, RunTyped
<1>3. \/ a \in SipRequests /\ a # User /\ place[a] \in Handled
      \/ a = User /\ a \notin SipRequests
  BY <1>1, ActorsApart DEF SipActors, Handled
<1>4. place' = [place EXCEPT ![a] = After(a)] /\ After(a) \in {"answer", "end"}
      /\ (a = User => After(a) = "end") /\ (a # User => After(a) = "answer")
  BY DEF ChangeObject, MoveTo, After
<1>5. changer = a => cached' \in {Absent, stored'}
  BY <1>1, <1>2 DEF ChangeInv
<1>6. ChangeInv'
  BY <1>1, <1>2, <1>4, <1>5, ChangeEnds DEF ChangePlaces
<1>7. seenRow' \in [SipActors -> Credential] /\ changer' \in {a, "none", "several"}
  BY <1>1, <1>2, Blank DEF ChangeObject, TypeInv, Unseen, Completes
<1>8. stored' \in Credential \cup {Absent} /\ cached' \in Credential \cup {Absent} /\ "answer" \in Handled
  BY <1>1, <1>2 DEF TypeInv, Handled
<1> QED
  BY <1>1, <1>2, <1>3, <1>4, <1>6, <1>7, <1>8, ActorMoves

\* An edit by a user compares the two passwords.
LEMMA ComparePasswordKeeps ==
  ASSUME IInv, NEW a \in SipActors, ComparePassword(a)
  PROVE  IInv' /\ Accepts
<1>1. /\ place[a] = "check" /\ Steady /\ NoFault
      /\ UNCHANGED <<stored, cached, request, index, replies, ran>>
  BY DEF ComparePassword, runVars, storeVars, NoFault
<1>2. TypeInv /\ ChangeInv /\ request \in [SipRequests -> Request]
  BY DEF IInv, TypeInv, RunTyped
<1>3. \/ a \in SipRequests /\ a # User /\ place[a] \in Handled
      \/ a = User /\ a \notin SipRequests
  BY <1>1, ActorsApart DEF SipActors, Handled
<1>4. stored' \in Credential \cup {Absent} /\ cached' \in Credential \cup {Absent}
      /\ "answer" \in Handled /\ "repair" \in Handled
  BY <1>1, <1>2 DEF TypeInv, Handled
<1>5. CASE MoveTo(a, "repair") /\ Changes(a) /\ UNCHANGED seenRow
  <2>1. place' = [place EXCEPT ![a] = "repair"] /\ changer' \in {a, "none", "several"}
        /\ seenRow' \in [SipActors -> Credential]
    BY <1>2, <1>5 DEF MoveTo, Changes, TypeInv
  <2>2. ChangeInv'
    BY <1>2, <1>5, <2>1, ChangeGoesOn DEF ChangePlaces
  <2> QED
    BY <1>1, <1>2, <1>3, <1>4, <2>1, <2>2, ActorMoves
<1>6. CASE /\ MoveTo(a, After(a)) /\ Unseen(a)
           /\ IF cached \notin {Absent, stored} THEN Spoils ELSE Completes(a)
  <2>1. place' = [place EXCEPT ![a] = After(a)] /\ After(a) \in {"answer", "end"}
        /\ (a = User => After(a) = "end") /\ (a # User => After(a) = "answer")
        /\ changer' \in {a, "none", "several"}
    BY <1>6 DEF MoveTo, After, Spoils, Completes
  <2>2. ChangeInv'
    <3>1. CASE Spoils
      BY <1>2, <2>1, <3>1, ChangeEnds DEF ChangePlaces
    <3>2. CASE cached \in {Absent, stored} /\ Completes(a)
      BY <1>1, <1>2, <2>1, <3>2, ChangeEnds DEF ChangePlaces
    <3> QED
      BY <1>6, <3>1, <3>2
  <2>3. seenRow' \in [SipActors -> Credential]
    BY <1>2, <1>6, Blank DEF TypeInv, Unseen
  <2> QED
    BY <1>1, <1>2, <1>3, <1>4, <2>1, <2>2, <2>3, ActorMoves
<1> QED
  BY <1>5, <1>6 DEF ComparePassword

\* A heartbeat is handled, which may begin a change of the address.
LEMMA KeepaliveKeeps ==
  ASSUME IInv, NEW r \in SipRequests, HandleKeepalive(r)
  PROVE  IInv' /\ Accepts
<1>1. /\ place[r] = "handle" /\ r \in SipActors /\ Steady /\ NoFault
      /\ UNCHANGED <<stored, cached, seenRow>>
  BY DEF HandleKeepalive, SipActors, storeVars, NoFault
<1>2. TypeInv /\ ChangeInv
  BY DEF IInv
<1>3. CASE Answers(r, 400) /\ UNCHANGED changer
  <2>1. /\ Returns(r) \/ RunNext(r, 64, request[r])
        /\ \E status \in Statuses :
             Replies(r, status) /\ (status \notin {401, 403} \/ ~HasBody(request[r].method))
    BY <1>3 DEF Answers, Statuses
  <2> QED
    BY <1>1, <1>3, <2>1, HandlerEnds
<1>4. CASE /\ Proven(r) /\ UNCHANGED <<index, ran, replies>>
           /\ \/ MoveTo(r, "store") /\ Changes(r)
              \/ MoveTo(r, "answer") /\ UNCHANGED changer
  <2>1. /\ request' \in [SipRequests -> Request] /\ request'[r].method = request[r].method
        /\ \A x \in SipRequests : x # r => request'[x] = request[x]
    BY <1>2, <1>4, Rewritten
  <2>2. PICK p \in {"store", "answer"} :
          place' = [place EXCEPT ![r] = p] /\ IF p = "store" THEN Changes(r) ELSE UNCHANGED changer
    BY <1>4 DEF MoveTo
  <2>3. ChangeInv' /\ changer' \in {r, "none", "several", changer}
    <3>1. CASE p = "store"
      BY <1>1, <1>2, <2>2, <3>1, ChangeGoesOn DEF ChangePlaces, Changes
    <3>2. CASE p = "answer"
      BY <1>1, <1>2, <2>2, <3>2, ChangeStays DEF ChangePlaces, Changing
    <3> QED
      BY <3>1, <3>2
  <2>4. p \in Handled /\ place[r] \in Handled
    BY <1>1 DEF Handled
  <2> QED
    BY <1>1, <1>2, <1>4, <2>1, <2>2, <2>3, <2>4, HandlerMoves DEF TypeInv
<1> QED
  BY <1>3, <1>4 DEF HandleKeepalive

\* Device information changes the row alone.
LEMMA DeviceInfoKeeps ==
  ASSUME IInv, NEW r \in SipRequests, DeviceInfo(r)
  PROVE  IInv' /\ Accepts
<1>1. place[r] = "handle" /\ r \in SipActors /\ Steady /\ UNCHANGED cached
  BY DEF DeviceInfo, SipActors
<1>2. TypeInv /\ ChangeInv /\ request \in [SipRequests -> Request]
  BY DEF IInv, TypeInv, RunTyped
<1>3. CASE /\ Answers(r, 400) \/ Answers(r, 500)
           /\ Fault \/ NoFault
           /\ UNCHANGED <<stored, seenRow, changer>>
  <2>1. /\ Returns(r) \/ RunNext(r, 64, request[r])
        /\ \E status \in Statuses :
             Replies(r, status) /\ (status \notin {401, 403} \/ ~HasBody(request[r].method))
    BY <1>3 DEF Answers, Statuses
  <2> QED
    BY <1>1, <1>3, <2>1, HandlerEnds
<1>4. CASE /\ stored # Absent /\ NoFault /\ stored' = [stored EXCEPT !.ip = request[r].ip]
           /\ seenRow' = [seenRow EXCEPT ![r].password = stored'.password]
           /\ MoveTo(r, "check") /\ Changes(r) /\ StaysWithin
  <2>1. stored \in Credential /\ seenRow[r] \in Credential /\ request[r].ip \in HostAddresses \cup {""}
    BY <1>1, <1>2, <1>4 DEF TypeInv, Request
  <2>2. stored' \in Credential
    BY <1>4, <2>1, Edited
  <2>3. seenRow' \in [SipActors -> Credential]
    <3>1. [seenRow[r] EXCEPT !.password = stored'.password] \in Credential
      BY <2>1, <2>2, Edited
    <3>2. seenRow' = [seenRow EXCEPT ![r] = [seenRow[r] EXCEPT !.password = stored'.password]]
      BY <1>1, <1>2, <1>4 DEF TypeInv
    <3> QED
      BY <1>2, <3>1, <3>2 DEF TypeInv
  <2>4. /\ place' = [place EXCEPT ![r] = "check"] /\ changer' \in {r, "none", "several", changer}
        /\ "check" \in Handled /\ "handle" \in Handled /\ UNCHANGED <<request, index, replies, ran>>
    BY <1>4 DEF MoveTo, Changes, Handled, StaysWithin
  <2>5. ChangeInv'
    BY <1>1, <1>2, <1>4, <2>4, ChangeGoesOn DEF ChangePlaces
  <2> QED
    BY <1>1, <1>2, <1>4, <2>2, <2>3, <2>4, <2>5, HandlerMoves DEF TypeInv
<1> QED
  BY <1>3, <1>4 DEF DeviceInfo

\* A user edits a device.
LEMMA EditKeeps ==
  ASSUME IInv, EditDevice
  PROVE  IInv' /\ Accepts
<1>1. /\ stored # Absent /\ Steady /\ NoFault /\ User \in SipActors
      /\ UNCHANGED <<cached, request, index, replies, ran>> /\ Changes(User)
      /\ place' = [place EXCEPT ![User] = "check"]
  BY DEF EditDevice, MoveTo, SipActors, runVars, NoFault
<1>2. TypeInv /\ ChangeInv /\ stored \in Credential /\ seenRow[User] \in Credential
  BY <1>1 DEF IInv, TypeInv
<1>3. stored' \in Credential
  <2>1. PICK w \in OwnPasswords \cup {"", Ignore} : stored' = [stored EXCEPT !.password = w]
    BY DEF EditDevice
  <2> QED
    BY <1>2, <2>1, Edited
<1>4. seenRow' \in [SipActors -> Credential]
  <2>1. [seenRow[User] EXCEPT !.password = stored'.password] \in Credential
    BY <1>2, <1>3, Edited
  <2>2. seenRow' = [seenRow EXCEPT ![User] = [seenRow[User] EXCEPT !.password = stored'.password]]
    BY <1>1, <1>2 DEF TypeInv, EditDevice
  <2> QED
    BY <1>2, <2>1, <2>2 DEF TypeInv
<1>5. ChangeInv' /\ changer' \in {User, "none", "several"}
  BY <1>1, <1>2, ChangeGoesOn DEF ChangePlaces, Changes
<1> QED
  BY <1>1, <1>2, <1>3, <1>4, <1>5, UserKeeps DEF TypeInv

\* A user deletes the row.
LEMMA DeleteKeeps ==
  ASSUME IInv, DeleteDeviceRow
  PROVE  IInv' /\ Accepts
<1>1. /\ stored' = Absent /\ Steady /\ NoFault /\ User \in SipActors
      /\ UNCHANGED <<cached, request, index, replies, ran, seenRow>> /\ Changes(User)
      /\ place' = [place EXCEPT ![User] = "forget"]
  BY DEF DeleteDeviceRow, MoveTo, SipActors, runVars, NoFault
<1>2. TypeInv /\ ChangeInv
  BY DEF IInv
<1>3. ChangeInv' /\ changer' \in {User, "none", "several"}
  BY <1>1, <1>2, ChangeGoesOn DEF ChangePlaces, Changes
<1> QED
  BY <1>1, <1>2, <1>3, UserKeeps DEF TypeInv

\* The object goes after the row.
LEMMA ForgetKeeps ==
  ASSUME IInv, ForgetObject
  PROVE  IInv' /\ Accepts
<1>1. /\ cached' = Absent /\ Steady /\ NoFault /\ User \in SipActors
      /\ UNCHANGED <<stored, request, index, replies, ran, seenRow>> /\ Completes(User)
      /\ place' = [place EXCEPT ![User] = "end"]
  BY DEF ForgetObject, MoveTo, SipActors, runVars, NoFault
<1>2. TypeInv /\ ChangeInv
  BY DEF IInv
<1>3. ChangeInv' /\ changer' \in {User, "none", "several"}
  BY <1>1, <1>2, ChangeEnds DEF ChangePlaces, Completes
<1> QED
  BY <1>1, <1>2, <1>3, UserKeeps DEF TypeInv

\* The goroutine of a request that is through ends.
LEMMA LeavesKeeps ==
  ASSUME IInv, NEW r \in SipRequests, Leaves(r)
  PROVE  IInv' /\ Accepts
<1>1. /\ place[r] = "through" /\ r \in SipActors /\ place' = [place EXCEPT ![r] = "end"]
      /\ UNCHANGED <<stored, cached, seenRow, mishaps, changer, steady>>
      /\ request' = [request EXCEPT ![r] = NoRequest] /\ index' = [index EXCEPT ![r] = 0]
      /\ replies' = [replies EXCEPT ![r] = <<>>] /\ ran' = [ran EXCEPT ![r] = 0]
  BY DEF Leaves, MoveTo, SipActors, storeVars
<1>2. TypeInv /\ RunInv /\ ChangeInv /\ SteadyInv
  BY DEF IInv
<1>3. RunTyped'
  <2>1. <<>> \in Replied /\ NoRequest \in Request
    BY RequestsTyped DEF Replied
  <2> QED
    BY <1>1, <1>2, <2>1 DEF TypeInv, RunTyped
<1>4. /\ place'[r] = "end" /\ \A a \in SipActors : a # r => place'[a] = place[a]
      /\ replies'[r] = <<>> /\ ran'[r] = 0
      /\ \A x \in SipRequests : x # r => /\ request'[x] = request[x] /\ index'[x] = index[x]
                                        /\ replies'[x] = replies[x] /\ ran'[x] = ran[x]
  BY <1>1, <1>2 DEF TypeInv, RunTyped
<1>5. RunInv'
  <2>1. RunOK(r)'
    BY <1>4 DEF RunOK, Unbusy, Handled
  <2>2. \A x \in SipRequests : x # r => RunOK(x)'
    BY <1>2, <1>4, RunStays DEF RunInv, SipActors
  <2> QED
    BY <1>2, <1>4, <2>1, <2>2, ActorsApart DEF RunInv, SipActors
<1>6. ChangeInv'
  BY <1>1, <1>2, ChangeStays DEF ChangePlaces, Changing
<1>7. SteadyInv' /\ TypeInv'
  <2>1. SteadyInv' /\ steady' \subseteq SipRequests
    BY <1>1, <1>2, SteadyStays
  <2> QED
    BY <1>1, <1>2, <1>3, <2>1 DEF TypeInv, Places
<1>8. Accepts
  BY <1>1, <1>2, <1>4, AcceptsOthers
<1> QED
  BY <1>3, <1>5, <1>6, <1>7, <1>8 DEF IInv

\* The process ends, and may load the row again.
LEMMA RebootKeeps ==
  ASSUME IInv, Reboot
  PROVE  IInv' /\ Accepts
<1>1. /\ Fault /\ cached' \in {Absent, stored} /\ stored' = stored
      /\ place' = [a \in SipActors |-> IF place[a] = "new" THEN "new" ELSE "gone"]
      /\ request' = [r \in SipRequests |-> NoRequest] /\ index' = [r \in SipRequests |-> 0]
      /\ replies' = [r \in SipRequests |-> <<>>] /\ ran' = [r \in SipRequests |-> 0]
      /\ seenRow' = [a \in SipActors |-> NoCredential]
      /\ changer' = "none" /\ steady' = {}
  BY DEF Reboot
<1>2. TypeInv
  BY DEF IInv
<1>3. RunTyped'
  <2>1. <<>> \in Replied /\ NoRequest \in Request
    BY RequestsTyped DEF Replied
  <2> QED
    BY <1>1, <2>1 DEF RunTyped
<1>4. TypeInv'
  BY <1>1, <1>2, <1>3, Blank, Mishaps DEF TypeInv, Places
<1>5. RunInv'
  BY <1>1, ActorsApart DEF RunInv, RunOK, Unbusy, Handled, SipActors
<1>6. ChangeInv' /\ SteadyInv'
  BY <1>1, ActorsApart DEF ChangeInv, SteadyInv, Changing
<1>7. Accepts
  BY <1>1, <1>2 DEF Accepts, Fault, TypeInv
<1> QED
  BY <1>4, <1>5, <1>6, <1>7 DEF IInv

----------------------------------------------------------------------------
(* The theorems.                                                           *)

\* Every step keeps the invariant, and refuses no request that it may not refuse.
LEMMA NextKeeps == IInv /\ [HandlersNext]_handlerVars => IInv' /\ [Accepts]_handlerVars
<1> SUFFICES ASSUME IInv, [HandlersNext]_handlerVars
             PROVE  IInv' /\ [Accepts]_handlerVars
  OBVIOUS
<1>1. ASSUME NEW r \in SipRequests, Leaves(r)
      PROVE  IInv' /\ Accepts
  BY <1>1, LeavesKeeps
<1>2. ASSUME NEW r \in SipRequests,
             \/ Arrive(r) \/ CheckSource(r) \/ CheckDigest(r) \/ Report(r)
             \/ RegisterRefused(r) \/ RegisterPasses(r) \/ CreateRow(r)
             \/ HandleKeepalive(r) \/ DeviceInfo(r) \/ Answer200(r) \/ Alarm(r)
      PROVE  IInv' /\ Accepts
  BY <1>2, ArriveKeeps, CheckKeeps, ReportKeeps, RefusedKeeps, PassesKeeps, CreateKeeps, KeepaliveKeeps,
     DeviceInfoKeeps
<1>3. ASSUME NEW a \in SipActors, StoreBlank(a) \/ ChangeRow(a) \/ ChangeObject(a) \/ ComparePassword(a)
      PROVE  IInv' /\ Accepts
  BY <1>3, BlankKeeps, ChangeRowKeeps, ChangeObjectKeeps, ComparePasswordKeeps
<1>4. CASE EditDevice \/ DeleteDeviceRow \/ ForgetObject \/ Reboot
  BY <1>4, EditKeeps, DeleteKeeps, ForgetKeeps, RebootKeeps
<1>5. CASE UNCHANGED handlerVars
  BY <1>5 DEF handlerVars, storeVars, runVars, IInv, TypeInv, RunTyped, RunInv, RunOK, IsThrough, JobOf,
     ChangeInv, Changing, SteadyInv
<1> QED
  BY <1>1, <1>2, <1>3, <1>4, <1>5 DEF HandlersNext, Goes

\* The invariant of the requests and the credentials holds in every state.
THEOREM InvHolds == HandlersSpec => []IInv
<1>1. IInv /\ [HandlersNext]_handlerVars => IInv'
  BY NextKeeps
<1> QED
  BY <1>1, InvInit, PTL DEF HandlersSpec

\* The invariant says what requests, credentials and answers are made of.
LEMMA InvTypes == IInv => HandlersTypeOK
<1> SUFFICES ASSUME IInv
             PROVE  HandlersTypeOK
  OBVIOUS
<1>1. TypeInv
  BY DEF IInv
<1>2. ASSUME NEW r \in SipRequests
      PROVE  /\ request[r].known \in BOOLEAN /\ request[r].ip \in HostAddresses \cup {""}
             /\ index[r] \in 0..65 /\ ran[r] \in 0..1 /\ replies[r] \in Replied
  <2>1. request[r] \in Request /\ index[r] \in 0..64 /\ ran[r] \in 0..1 /\ replies[r] \in Replied
    BY <1>1 DEF TypeInv, RunTyped
  <2>2. request[r].known \in BOOLEAN /\ request[r].ip \in HostAddresses \cup {""}
    BY <2>1 DEF Request
  <2>3. \A i \in 0..64 : i \in 0..65
    OBVIOUS
  <2> QED
    BY <2>1, <2>2, <2>3
<1> QED
  BY <1>1, <1>2 DEF TypeInv, HandlersTypeOK, Replied, Statuses

\* Requests, credentials and answers keep their types.
THEOREM TypeCorrect == HandlersSpec => []HandlersTypeOK
BY InvTypes, InvHolds, PTL

\* A request that is through was answered once, and its handler ran once or, when the
\* access control refused it, not at all.
THEOREM Answered == HandlersSpec => []AnsweredOnce
<1>1. IInv => AnsweredOnce
  <2> SUFFICES ASSUME IInv, NEW r \in SipRequests
               PROVE  /\ Len(replies[r]) <= 1 /\ ran[r] <= 1
                      /\ place[r] = "through" => IsThrough(r)
    BY DEF AnsweredOnce, IsThrough
  <2>1. replies[r] \in Replied /\ ran[r] \in 0..1
    BY DEF IInv, TypeInv, RunTyped
  <2>2. Len(replies[r]) <= 1
    <3>1. CASE replies[r] = <<>>
      BY <3>1
    <3>2. CASE \E status \in Statuses : replies[r] = <<status>>
      BY <3>2
    <3> QED
      BY <2>1, <3>1, <3>2 DEF Replied
  <2> QED
    BY <2>1, <2>2 DEF IInv, RunInv, RunOK
<1> QED
  BY <1>1, InvHolds, PTL

\* A device whose credentials are those of its row is not refused a report, however rows
\* and objects were changed before, once the last change is complete.
THEOREM Accepted == HandlersSpec => AcceptedAsRegistered
<1>1. IInv /\ [HandlersNext]_handlerVars => [Accepts]_handlerVars
  BY NextKeeps
<1> QED
  BY <1>1, InvHolds, PTL DEF HandlersSpec, AcceptedAsRegistered, Accepts
=============================================================================
