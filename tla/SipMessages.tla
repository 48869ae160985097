---------------------------- MODULE SipMessages ----------------------------
(***************************************************************************)
(* The messages that the server builds, and what they share.  A header is  *)
(* a pointer, and its parts (the hop or the name, the address, the         *)
(* parameters) are pointers too: a message that is built from another one  *)
(* gets clones of some parts and the very same objects for others, and an  *)
(* object that is written later changes every message that holds it and    *)
(* has not been printed yet.  Text is left out: a message reads as the     *)
(* contents of its headers, in their order.                                *)
(***************************************************************************)
EXTENDS Naturals, FiniteSets, SequencesExt, TLC

CONSTANTS
  Peers,            \* the devices and platforms
  Reached,          \* those of them whose address has a host
  MaxSipMessages,   \* bound on the messages
  MaxBegun          \* bound on those that neither answer nor follow another

VARIABLES
  sipMessages,      \* the messages, in the order in which they were made
  objects,          \* what the objects hold that the headers point to
  printed,          \* how each message of the server read when it was sent
  ours              \* the server's own address

sipVars == <<sipMessages, objects, printed, ours>>

----------------------------------------------------------------------------
(* The types of headers: their parts, those that Clone copies, and whether  *)
(* Equals looks into them.  Of a type that copies none, Clone is the same   *)
(* pointer.                                                                 *)

HeaderType(parts, copied, looks) == [parts |-> parts, copied |-> copied, looks |-> looks]
Word(copied) == HeaderType({"word"}, copied, TRUE)
Addressed == HeaderType({"name", "address", "params"}, {"address", "params"}, TRUE)

ContentLength == Word({})
ViaHeader == HeaderType({"hop", "params"}, {"hop", "params"}, TRUE)
CallID == Word({})
CSeq == Word({"word"})
ToHeader == Addressed
FromHeader == Addressed
ContactHeader == Addressed
ContentType == Word({})
MaxForwards == Word({})
UserAgentHeader == Word({})
RouteHeader == Word({"word"})
RecordRouteHeader == Word({"word"})
SupportedHeader == Word({"word"})
GenericHeader == Word({"word"})

\* Equals of these two asks for a value, and a message holds pointers.
AllowHeader == HeaderType({"word"}, {"word"}, FALSE)
XGBVer == HeaderType({"word"}, {"word"}, FALSE)

\* An address outside of a header: NewAddressFromFromHeader copies its parts too.
AddressType == Addressed

TypeOf(name) ==
  CASE name = "content-length" -> ContentLength [] name = "via" -> ViaHeader [] name = "call-id" -> CallID
    [] name = "cseq" -> CSeq [] name = "to" -> ToHeader [] name = "from" -> FromHeader
    [] name = "contact" -> ContactHeader [] name = "content-type" -> ContentType
    [] name = "max-forwards" -> MaxForwards [] name = "user-agent" -> UserAgentHeader
    [] name = "allow" -> AllowHeader [] name = "route" -> RouteHeader
    [] name = "record-route" -> RecordRouteHeader [] name = "supported" -> SupportedHeader
    [] name = "x-gb-ver" -> XGBVer [] name = "address" -> AddressType
    [] OTHER -> GenericHeader

----------------------------------------------------------------------------
(* A header is its name and the objects it points to; an object is known by *)
(* its owner, the header it was made for, a number, and the part it is.     *)

NoObjects == [k \in {} |-> 0]
ObjectsOf(owner, name, n, parts) == [p \in parts |-> <<owner, name, n, p>>]

\* A header with objects of its own.
AnewAs(owner, name, n, holds) ==
  [name |-> name, at |-> ObjectsOf(owner, name, n, DOMAIN holds),
   has |-> [k \in {<<owner, name, n, p>> : p \in DOMAIN holds} |-> holds[k[4]]]]
Anew(owner, name, holds) == AnewAs(owner, name, 1, holds)
OneWord(owner, name, word) == Anew(owner, name, [word |-> word])

\* A header that points to objects which are there.
Shared(h) == [name |-> h.name, at |-> h.at, has |-> NoObjects]

\* The n-th clone of an owner, of a header or of an address for a header; its params
\* are never nil.
Cloned(h, name, owner, n, copied) ==
  [name |-> name,
   at |-> [p \in DOMAIN h.at |-> IF p \in copied THEN <<owner, name, n, p>> ELSE h.at[p]],
   has |-> [k \in {<<owner, name, n, p>> : p \in copied} |->
              IF k[4] = "address" THEN [objects[h.at[k[4]]] EXCEPT !.nil = FALSE] ELSE objects[h.at[k[4]]]]]

Clone(h, name, owner, n) == Cloned(h, name, owner, n, TypeOf(h.name).copied \cap DOMAIN h.at)

\* headers: AppendHeader puts a header behind the last one of its name; String goes over
\* them in that order.
AppendHeader(hs, h) ==
  LET same == {i \in DOMAIN hs : hs[i].name = h.name}
  IN  IF same = {} THEN Append(hs, h) ELSE InsertAt(hs, 1 + CHOOSE i \in same : \A j \in same : j <= i, h)

GetHeaders(hs, name) == SelectSeq(hs, LAMBDA h : h.name = name)

\* Via, ViaHop, CallID, CSeq, From, To, Contact: the first one.
First(hs, name) == GetHeaders(hs, name)[1]

CopyHeaders(name, from, owner) ==
  [i \in DOMAIN GetHeaders(from, name) |-> Clone(GetHeaders(from, name)[i], name, owner, i)]

\* The headers of a new message, and the objects made for them.
HeadersOf(made) == FoldLeft(LAMBDA hs, h : AppendHeader(hs, [name |-> h.name, at |-> h.at]), <<>>, made)
Holding(made) == FoldLeft(LAMBDA os, h : h.has @@ os, objects, made)

\* Params.Add
Adding(params, key, value) == (key :> value) @@ params
Written(os, h, part, value) == [os EXCEPT ![h.at[part]] = value]

----------------------------------------------------------------------------
(* A message: what it is about (the request that it answers, or the answer  *)
(* that it follows), and how it reads when it is printed.                   *)

SipMessage(method, status, recipient, hs, body, by, about) ==
  [method |-> method, status |-> status, recipient |-> recipient, headers |-> hs, body |-> body, by |-> by,
   about |-> about]
NoRecipient == <<"none", "address", 1, "address">>

Reads(os, msg) ==
  [start |-> IF msg.status = 0 THEN <<msg.method, os[msg.recipient]>> ELSE <<"SIP/2.0", msg.status>>,
   headers |-> [i \in DOMAIN msg.headers |->
                  [name |-> msg.headers[i].name, holds |-> [p \in DOMAIN msg.headers[i].at |-> os[msg.headers[i].at[p]]]]],
   body |-> msg.body]

\* A message of the server is printed as soon as it is whole, and one that arrives
\* has objects of its own.
AddMessage(msg, os) ==
  /\ sipMessages' = Append(sipMessages, msg)
  /\ objects' = os
  /\ printed' = Append(printed, Reads(os, msg))
  /\ UNCHANGED ours

\* Equals of two headers: that of an address takes no parameters for any others.
SameURI(a, b) == a.user = b.user /\ a.host = b.host /\ (b.nil => a.nil)
Equals(a, b) ==
  /\ a.name = b.name /\ TypeOf(a.name).looks /\ DOMAIN a.holds = DOMAIN b.holds
  /\ \A p \in DOMAIN a.holds : IF p = "address" THEN SameURI(a.holds[p], b.holds[p]) ELSE a.holds[p] = b.holds[p]

Owner == ToString(Len(sipMessages) + 1)

Unanswered(q) == \A m \in DOMAIN sipMessages : ~(sipMessages[m].about = q /\ sipMessages[m].status # 0)
Followed(r, method) == \E m \in DOMAIN sipMessages : sipMessages[m].about = r /\ sipMessages[m].method = method

----------------------------------------------------------------------------
(* New requests *)

EmptyParams == [k \in {} |-> ""]
UriOf(user, host) == [user |-> user, host |-> host, nil |-> FALSE]
AddressParts == {"name", "address", "params"}
AddressOf(owner) == [name |-> "address", at |-> ObjectsOf(owner, "address", 1, AddressParts)]

\* The objects of the package: the methods of the Allow header, and the content types.
Constant(name, n) == Shared([name |-> name, at |-> ObjectsOf("package", name, n, {"word"})])
ContentTypeXML == Constant("content-type", 1)
ContentTypeSDP == Constant("content-type", 2)

\* SetBody: a Content-Length.
Length(body) == OneWord(Owner, "content-length", body)

\* SetTo leaves the parameters out.
SetTo(address) ==
  LET to == Clone(address, "to", Owner, 1)
      parts == {"name", "address"}
  IN  [to EXCEPT !.at = [p \in parts |-> @[p]], !.has = [k \in {k \in DOMAIN @ : k[4] \in parts} |-> @[k]]]

\* HeadersBuilder: what NewHeaderBuilder makes, and what the setters made, in the order of Build.
Build(to, from, contact, contentType, method, version) ==
  <<OneWord(Owner, "supported", <<>>), Constant("allow", 1),
    Anew(Owner, "via", [hop |-> [host |-> "localhost", port |-> 0], params |-> "branch" :> Owner]),
    OneWord(Owner, "cseq", [no |-> 1, method |-> method]), from, to, OneWord(Owner, "call-id", Owner)>>
  \o contact
  \o <<OneWord(Owner, "max-forwards", 70), OneWord(Owner, "user-agent", "GoWVP"), contentType,
       OneWord(Owner, "x-gb-ver", version)>>

\* SetTo, SetFrom and SetContact give an address a host that has none.
Hosted(os, h) ==
  Written(os, h, "address", [os[h.at["address"]] EXCEPT !.host = IF @ = "" THEN "localhost" ELSE @])

\* SetFrom: a tag, if there is none.
Tagged(os, h) ==
  Written(os, h, "params", IF "tag" \in DOMAIN os[h.at["params"]] THEN os[h.at["params"]]
                           ELSE Adding(os[h.at["params"]], "tag", Owner))

\* Server.Request: the hop says where the server is.
Routed(os, via) ==
  Written(Written(os, via, "hop", [host |-> "server", port |-> 5060]), via, "params",
          Adding(os[via.at["params"]], "rport", ""))

Sends(method, recipient, made, others, about) ==
  LET hs == HeadersOf(made)
      named == Hosted(Hosted(others @@ Holding(made), First(hs, "to")), First(hs, "from"))
  IN  AddMessage(SipMessage(method, 0, recipient, hs, 1, "server", about),
                 Routed(Tagged(named, First(hs, "from")), First(hs, "via")))

\* wrapRequest, to a device or to one of its channels.  The request line holds the
\* address object of the device; an INVITE says in an option what it is about.
WrapRequest(p, method) ==
  LET invites == method = "INVITE"
  IN  Sends(method, AddressOf(p).at["address"],
            Build(SetTo(AddressOf(p)), Clone(AddressOf(ours), "from", Owner, 1),
                  <<Clone(AddressOf(ours), "contact", Owner, 1)>>,
                  IF invites THEN ContentTypeSDP ELSE ContentTypeXML, method, "2.0")
              \o <<Length(1)>> \o (IF invites THEN <<OneWord(Owner, "subject", p)>> ELSE <<>>),
            NoObjects, 0)

\* Context.SendRequest: to the sender of a request, whose From is an address by now.
SendRequest(q) ==
  LET from == First(sipMessages[q].headers, "from")
      sender == Clone(from, "address", Owner, 1)
  IN  /\ sipMessages[q].method = "REGISTER" /\ ~Followed(q, "MESSAGE")
      /\ Sends("MESSAGE", sender.at["address"],
               Build(SetTo(from), Clone(AddressOf(ours), "from", Owner, 1), <<>>, ContentTypeXML, "MESSAGE", "3.0")
                 \o <<Length(1)>>,
               sender.has, q)

----------------------------------------------------------------------------
(* Answers to requests *)

\* NewResponseFromRequest: the request's own To gets a tag, and is the answer's too.
NewResponseFromRequest(q, status, body, extras) ==
  LET asked == sipMessages[q].headers
      to == First(asked, "to")
      made == CopyHeaders("record-route", asked, Owner) \o CopyHeaders("via", asked, Owner)
              \o CopyHeaders("from", asked, Owner) \o <<Shared(to)>>
              \o CopyHeaders("cseq", asked, Owner) \o CopyHeaders("call-id", asked, Owner)
              \o <<Length(body), OneWord(Owner, "user-agent", "GoWVP/1.0")>> \o extras
  IN  AddMessage(SipMessage("", status, NoRecipient, HeadersOf(made), body, "server", q), Tagged(Holding(made), to))

\* The handlers' own headers: of an INVITE, of a registration with and without a
\* proof, and none.
Respond(q) ==
  /\ sipMessages[q].by # "server" /\ sipMessages[q].status = 0 /\ Unanswered(q)
  /\ CASE sipMessages[q].method = "INVITE" ->
            NewResponseFromRequest(q, 200, 1, <<ContentTypeSDP, Clone(AddressOf(ours), "contact", Owner, 1)>>)
       [] sipMessages[q].method = "REGISTER" ->
            \/ NewResponseFromRequest(q, 401, 0, <<OneWord(Owner, "www-authenticate", Owner)>>)
            \/ NewResponseFromRequest(q, 200, 0, <<OneWord(Owner, "date", 0)>>)
       [] OTHER -> NewResponseFromRequest(q, 200, 0, <<>>)

----------------------------------------------------------------------------
(* Requests in a dialog of the server *)

\* sipPlayPush2, sipInviteHistory: an answer without a contact gets the server's address,
\* made from its ID and domain.
WithContact(r) ==
  IF GetHeaders(sipMessages[r].headers, "contact") # <<>> THEN [headers |-> sipMessages[r].headers, has |-> NoObjects]
  ELSE LET contact == Anew("fallback" \o ToString(r), "contact",
                            [name |-> "gowvp/owl", address |-> [UriOf("server", "domain") EXCEPT !.nil = TRUE],
                             params |-> EmptyParams])
       IN  [headers |-> AppendHeader(sipMessages[r].headers, [name |-> "contact", at |-> contact.at]),
            has |-> contact.has]

\* The route of the answer, or one for each of its recorded ones.
RouteOf(hs) ==
  IF GetHeaders(hs, "route") # <<>> THEN CopyHeaders("route", hs, Owner)
  ELSE [i \in DOMAIN GetHeaders(hs, "record-route") |->
          AnewAs(Owner, "route", i, [word |-> objects[GetHeaders(hs, "record-route")[i].at["word"]]])]

\* Mutant: the request keeps the branch of the INVITE.
MutNewBranch(os, via) == os

\* 2xx ACK is a separate transaction.
NewBranch(os, via) == Written(os, via, "params", Adding(os[via.at["params"]], "branch", Owner))

(* NewRequestFromResponse: the CSeq header is the answer's own.  An ACK leaves by tx.Request, *)
(* the others by Server.Request; an INFO gets a body.                                        *)
Follow(r, method) ==
  LET whole == WithContact(r)
      hs == whole.headers
      cseq == First(hs, "cseq")
      made == CopyHeaders("via", hs, Owner) \o RouteOf(hs) \o CopyHeaders("from", hs, Owner)
              \o CopyHeaders("to", hs, Owner) \o CopyHeaders("call-id", hs, Owner) \o <<Shared(cseq)>>
              \o IF method = "INFO" THEN <<Length(1), OneWord(Owner, "content-type", "Application/MANSRTSP")>> ELSE <<>>
      mine == HeadersOf(made)
      branched == NewBranch(whole.has @@ Holding(made), First(mine, "via"))
      numbered == Written(branched, cseq, "word",
                          [no |-> objects[cseq.at["word"]].no + (IF method = "ACK" THEN 0 ELSE 1), method |-> method])
      os == IF method = "ACK" THEN numbered ELSE Routed(numbered, First(mine, "via"))
      msg == SipMessage(method, 0, First(hs, "contact").at["address"], mine, IF method = "INFO" THEN 1 ELSE 0, "server", r)
  IN  /\ sipMessages' = Append([sipMessages EXCEPT ![r].headers = hs], msg)
      /\ objects' = os
      /\ printed' = Append([printed EXCEPT ![r] = Reads(whole.has @@ objects, [sipMessages[r] EXCEPT !.headers = hs])],
                           Reads(os, msg))
      /\ UNCHANGED ours

\* The ACK comes first, the BYE last.
InDialog(r, method) ==
  /\ sipMessages[r].status = 200 /\ sipMessages[r].by # "server"
  /\ sipMessages[sipMessages[r].about].method = "INVITE"
  /\ ~Followed(r, "BYE") /\ Followed(r, "ACK") = (method # "ACK")
  /\ Follow(r, method)

----------------------------------------------------------------------------
(* What arrives: objects of its own for each message *)

Routes == {<<>>, <<<<"proxy1">>, <<"proxy2", "proxy3">>>>}

Arrives(method, status, recipient, made, body, by, about) ==
  AddMessage(SipMessage(method, status, recipient, HeadersOf(made), body, by, about), Holding(made))

\* An object that the reader makes of what a header says.
Again(h, n) == AnewAs(Owner, h.name, n, h.holds)
Printed(m, name) == SelectSeq(printed[m].headers, LAMBDA h : h.name = name)
MyContact(p) == Anew(Owner, "contact", [name |-> "", address |-> UriOf(p, p), params |-> EmptyParams])

PeerAnswers(m, p, contact, routes) ==
  LET to == Printed(m, "to")[1]
  IN  /\ sipMessages[m].by = "server" /\ sipMessages[m].status = 0 /\ sipMessages[m].method # "ACK" /\ Unanswered(m)
      /\ objects[sipMessages[m].recipient].user \in {p, "server"}
      /\ Arrives("", 200, NoRecipient,
                 [i \in DOMAIN routes |-> AnewAs(Owner, "record-route", i, [word |-> routes[i]])]
                 \o <<Again(Printed(m, "via")[1], 1), Again(Printed(m, "from")[1], 1),
                      Anew(Owner, "to", [name |-> to.holds["name"], address |-> to.holds["address"],
                                          params |-> IF "params" \in DOMAIN to.holds THEN to.holds["params"]
                                                     ELSE "tag" :> Owner]),
                      Again(Printed(m, "call-id")[1], 1), Again(Printed(m, "cseq")[1], 1)>>
                 \o (IF contact THEN <<MyContact(p)>> ELSE <<>>) \o <<Length(0)>>, 0, p, m)

PeerAsks(p, method, tag, routes) ==
  Arrives(method, 0, AddressOf(ours).at["address"],
          [i \in DOMAIN routes |-> AnewAs(Owner, "record-route", i, [word |-> routes[i]])]
          \o <<Anew(Owner, "via", [hop |-> [host |-> p, port |-> 5060], params |-> "branch" :> Owner]),
               Anew(Owner, "from", [name |-> "", address |-> UriOf(p, p), params |-> "tag" :> p]),
               Anew(Owner, "to", [name |-> "", address |-> UriOf("server", "server"), params |-> tag]),
               OneWord(Owner, "call-id", Owner), OneWord(Owner, "cseq", [no |-> 20, method |-> method]),
               MyContact(p), Length(1)>>, 1, p, 0)

\* Server.SetConfig: a new address.
SetConfig ==
  /\ ours = "server"
  /\ LET from == Anew("server2", "address",
                       [name |-> "gowvp/owl", address |-> UriOf("server2", "server"), params |-> EmptyParams])
     IN  objects' = from.has @@ objects
  /\ ours' = "server2"
  /\ UNCHANGED <<sipMessages, printed>>

----------------------------------------------------------------------------
\* A registered device's address is the From of its request, tag included; one that
\* was loaded has no tag, and its row may hold no host.
FirstObjects ==
  LET parties == SetToSeq({<<"server", "server", EmptyParams>>}
                   \cup {<<p, IF p \in Reached THEN p ELSE "", IF p \in Reached THEN "tag" :> p ELSE EmptyParams>> : p \in Peers})
  IN  FoldLeft(LAMBDA os, x : Anew(x[1], "address", [name |-> IF x[1] = "server" THEN "gowvp/owl" ELSE "",
                                                      address |-> UriOf(x[1], x[2]), params |-> x[3]]).has @@ os,
               AnewAs("package", "allow", 1, [word |-> "methods"]).has
               @@ AnewAs("package", "content-type", 1, [word |-> "Application/MANSCDP+xml"]).has
               @@ AnewAs("package", "content-type", 2, [word |-> "application/sdp"]).has, parties)

SipMessagesInit ==
  /\ sipMessages = <<>>
  /\ objects = FirstObjects
  /\ printed = <<>>
  /\ ours = "server"

Asks ==
  \E p \in Peers, method \in {"REGISTER", "INVITE", "BYE"}, routes \in Routes :
    /\ (routes # <<>>) = (method = "INVITE")
    /\ PeerAsks(p, method, IF method = "BYE" THEN "tag" :> "theirs" ELSE EmptyParams, routes)
PeersAnswer ==
  \E m \in DOMAIN sipMessages, p \in Peers, routes \in Routes :
    /\ routes # <<>> => sipMessages[m].method = "INVITE"
    /\ PeerAnswers(m, p, routes # <<>>, routes)

SipMessagesNext ==
  \/ SetConfig
  \/ /\ Len(sipMessages) < MaxSipMessages
     /\ \/ /\ Cardinality({m \in DOMAIN sipMessages : sipMessages[m].about = 0}) < MaxBegun
           /\ Asks \/ \E p \in Peers, method \in {"MESSAGE", "INVITE"} : WrapRequest(p, method)
        \/ PeersAnswer
        \/ \E m \in DOMAIN sipMessages :
             \/ SendRequest(m)
             \/ Respond(m)
             \/ \E method \in {"ACK", "INFO", "BYE"} : InDialog(m, method)

SipMessagesSpec == SipMessagesInit /\ [][SipMessagesNext]_sipVars

----------------------------------------------------------------------------
\* Types.
SipMessagesTypeOK ==
  /\ Len(sipMessages) <= MaxSipMessages /\ DOMAIN printed = DOMAIN sipMessages
  /\ \A m \in DOMAIN sipMessages : \A i \in DOMAIN sipMessages[m].headers :
       LET h == sipMessages[m].headers[i]
       IN  DOMAIN h.at \subseteq TypeOf(h.name).parts /\ \A p \in DOMAIN h.at : h.at[p] \in DOMAIN objects

Mine == {m \in DOMAIN sipMessages : sipMessages[m].by = "server"}
DialogMine == {m \in Mine : sipMessages[m].about # 0 /\ sipMessages[m].status = 0 /\ sipMessages[sipMessages[m].about].status = 200}
New == {m \in Mine \ DialogMine : sipMessages[m].status = 0}
Headers(m, name) == {h \in Range(printed[m].headers) : h.name = name}
Said(m, name, part) == (CHOOSE h \in Headers(m, name) : TRUE).holds[part]
Repeat(m, q, name) ==
  /\ Len(Printed(m, name)) = Len(Printed(q, name))
  /\ \A i \in DOMAIN Printed(m, name) : Equals(Printed(m, name)[i], Printed(q, name)[i])
LeavingOut(reads, names) == [reads EXCEPT !.headers = SelectSeq(@, LAMBDA h : h.name \notin names)]

(* A message that was printed does not change any more, except for the number that the   *)
(* requests of a dialog share with the answer they follow, and the To that a request     *)
(* shares with its own answer; and neither a device's address nor the server's ever does, *)
(* whatever is built from them.                                                           *)
MessagesApart ==
  /\ \A m \in DOMAIN sipMessages :
       LET shared == IF sipMessages[m].by = "server" THEN IF m \in DialogMine THEN {"cseq"} ELSE {}
                     ELSE IF sipMessages[m].status = 0 THEN {"to"} ELSE {"cseq"}
       IN  LeavingOut(Reads(objects, sipMessages[m]), shared) = LeavingOut(printed[m], shared)
  /\ \A k \in DOMAIN FirstObjects : objects[k] = FirstObjects[k]

(* A message belongs where it says: a new request has a dialog and a transaction of its   *)
(* own, names a host, and claims no tag of its receiver; an answer repeats the request's  *)
(* way, parties and number; a request in a dialog repeats the answer's parties and goes   *)
(* its way, as a transaction of its own.  The length is said once.                        *)
MessagesBelong ==
  /\ \A m \in New :
       /\ "params" \notin DOMAIN (CHOOSE h \in Headers(m, "to") : TRUE).holds
       /\ Said(m, "to", "address").host # "" /\ "tag" \in DOMAIN Said(m, "from", "params")
       /\ \A n \in New \ {m} : /\ Said(m, "call-id", "word") # Said(n, "call-id", "word")
                               /\ Said(m, "from", "params")["tag"] # Said(n, "from", "params")["tag"]
  /\ \A m, n \in New \cup DialogMine : m # n => Said(m, "via", "params")["branch"] # Said(n, "via", "params")["branch"]
  /\ \A m \in Mine : sipMessages[m].status # 0 =>
       LET q == sipMessages[m].about
       IN  /\ \A name \in {"via", "from", "cseq", "call-id", "record-route"} : Repeat(m, q, name)
           /\ "tag" \in DOMAIN Said(m, "to", "params")
           /\ "tag" \in DOMAIN Said(q, "to", "params") => Repeat(m, q, "to")
  /\ \A m \in DialogMine :
       LET r == sipMessages[m].about
       IN  /\ \A name \in {"from", "to", "call-id"} : Repeat(m, r, name)
           /\ [i \in DOMAIN Printed(m, "route") |-> Printed(m, "route")[i].holds]
              = [i \in DOMAIN Printed(r, "record-route") |-> Printed(r, "record-route")[i].holds]
           /\ printed[m].start[2] = Said(r, "contact", "address")
  /\ \A m \in Mine : Cardinality(Headers(m, "content-length")) <= 1

(* Messages that share objects stay as they were printed, and each belongs to the         *)
(* transaction and the dialog that it says (wrapRequest, NewResponseFromRequest,          *)
(* NewRequestFromResponse, and Clone of the headers).                                     *)
MessagesSound == MessagesApart /\ MessagesBelong
=============================================================================
