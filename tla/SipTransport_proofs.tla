----------------------- MODULE SipTransport_proofs -----------------------
(***************************************************************************)
(* Proofs about the sip package.  SipReceive: the framed messages of a     *)
(* connection are delivered in their order, whole and with their own       *)
(* bodies, for any messages, bodies and lengths given.  SipTransactions:   *)
(* the table never names a transaction whose Close has begun, and a        *)
(* caller alone on its Call-ID stays reachable, for any callers, Call-IDs, *)
(* channel capacity and number of messages.                                *)
(***************************************************************************)
EXTENDS SipTransactions, SipReceive, SequenceTheorems, WellFoundedInduction, TLAPS

-----------------------------------------------------------------------------
(* SipReceive: what holds at every step of a connection.                   *)

(* The lines of a message, and which line comes after which. *)

Kinds == {"start", "blank", "body", "full", "other", "bad"}
LineType == [msg : Nat, kind : Kinds, n : Nat]
SentType == [form : Forms, body : Nat, len : Nat]
DeliveredType == [msg : Nat, body : Seq(LineType)]

Headed(s, m) == s[m].form \notin {"none", "alive"}

IsLine(s, l) ==
  /\ l \in LineType /\ l.msg \in DOMAIN s
  /\ \/ l = Line(l.msg, "start", 0) /\ s[l.msg].form # "alive"
     \/ l = Line(l.msg, s[l.msg].form, s[l.msg].len) /\ Headed(s, l.msg)
     \/ l = Line(l.msg, "blank", 0)
     \/ l = Line(l.msg, "body", l.n) /\ l.n \in 1..s[l.msg].body

\* The last line of a message.
Ends(s, l) == (l.kind = "blank" /\ s[l.msg].body = 0) \/ (l.kind = "body" /\ l.n = s[l.msg].body)

FirstOf(s, m) == IF s[m].form = "alive" THEN Line(m, "blank", 0) ELSE Line(m, "start", 0)

NextOf(s, l) ==
  CASE l.kind = "start" -> IF Headed(s, l.msg) THEN Line(l.msg, s[l.msg].form, s[l.msg].len)
                                               ELSE Line(l.msg, "blank", 0)
    [] l.kind \in {"blank", "body"} -> Line(l.msg, "body", l.n + 1)
    [] OTHER -> Line(l.msg, "blank", 0)

Follows(s, a, b) ==
  IF Ends(s, a) THEN a.msg + 1 \in DOMAIN s /\ b = FirstOf(s, a.msg + 1) ELSE b = NextOf(s, a)

Chained(s, u) ==
  /\ \A i \in DOMAIN u : IsLine(s, u[i])
  /\ \A i \in DOMAIN u : i + 1 \in DOMAIN u => Follows(s, u[i], u[i + 1])
  /\ \A i, j \in DOMAIN u : i < j => u[i].msg <= u[j].msg

\* Where the rows of lines stop: after a whole message, unless the rest was lost.
Complete(m, t) == t = 0 \/ m < t
StopsAt(s, l, ended, t) == /\ ~ended => l.msg = Len(s)
                           /\ Complete(l.msg, t) => Ends(s, l)
                           /\ t # 0 => l.msg <= t

\* The line before those unread, as far as the reader has it.
Newest == reader.buffer[Len(reader.buffer)]
Holds == reader.buffer # <<>> /\ Newest # Zero

\* The newest line that was read and those that were not are one row of the device's.
StreamInv ==
  /\ Chained(sent, unread)
  /\ unread # <<>> => StopsAt(sent, unread[Len(unread)], cut, torn)
  /\ Holds =>
       /\ IsLine(sent, Newest)
       /\ \A i \in DOMAIN unread : Newest.msg <= unread[i].msg
       /\ IF unread = <<>> THEN StopsAt(sent, Newest, cut, torn) ELSE Follows(sent, Newest, unread[1])
  /\ ~Holds /\ reader.buffer # <<>> => unread = <<>> /\ cut /\ reader.pc = "packet"

\* What was read are lines of messages, or stand in for what did not come.
KnownInv ==
  /\ \A i \in DOMAIN reader.buffer : IsLine(sent, reader.buffer[i]) \/ reader.buffer[i] = Zero
  /\ \A i \in DOMAIN parser.packet : IsLine(sent, parser.packet[i]) \/ parser.packet[i] = Zero

\* A message that gives its own length, and has lost no line to another's body.
Intact(s, e, m) == Measured(s[m]) /\ m \notin e
\* Of such a message only the start is read outside of its packet.
Aligned(s, e, l) == Intact(s, e, l.msg) => l.kind = "start"
\* A row of lines that begins with a start, and is the head of its message so far.
HeadOf(s, m) == IF Headed(s, m) THEN <<Line(m, "start", 0), Line(m, s[m].form, s[m].len)>>
                                ELSE <<Line(m, "start", 0)>>
Starts(p) == p # <<>> /\ p[1].kind = "start"

\* The reader's length is that of the header it has just read, of a message that says it.
LineInv ==
  reader.pc = "line" =>
    /\ reader.bodyLen = IF Holds /\ Newest.kind = "full" THEN Newest.n ELSE 0
    /\ Holds => /\ Newest.kind \notin {"blank", "bad"}
                /\ Newest.kind = "body" => ~Intact(sent, eaten, Newest.msg)
    /\ Starts(reader.buffer) /\ Exact(sent[reader.buffer[1].msg]) =>
         \/ reader.buffer = <<reader.buffer[1]>>
         \/ reader.buffer = HeadOf(sent, reader.buffer[1].msg)

\* A body is awaited after the empty line of a message that says its length.
BodyInv ==
  reader.pc = "body" =>
    /\ Holds /\ Newest = Line(Newest.msg, "blank", 0)
    /\ sent[Newest.msg].form = "full" /\ sent[Newest.msg].len = reader.bodyLen /\ reader.bodyLen # 0
    /\ Starts(reader.buffer) /\ Exact(sent[reader.buffer[1].msg]) =>
         reader.buffer = HeadOf(sent, Newest.msg) \o <<Newest>>

\* A packet that begins with a start is its message, if that says its length.
IsPacket(s, p, t) ==
  /\ p # <<>>
  /\ Starts(p) /\ Exact(s[p[1].msg]) =>
       LET m == p[1].msg
       IN \E b \in Seq(LineType) : /\ p = (HeadOf(s, m) \o <<Line(m, "blank", 0)>>) \o b
                                   /\ Len(b) = s[m].body
                                   /\ m # t => b = BodyOf(m, s[m].body)

\* Packets are messages, and the first line after one begins another if that says its length.
PacketInv ==
  /\ reader.pc = "packet" => IsPacket(sent, reader.buffer, torn)
  /\ parser.pc = "parses" => IsPacket(sent, parser.packet, torn)
  /\ reader.buffer = <<>> \/ reader.pc = "packet" =>
       \A i \in DOMAIN unread : i = 1 => Aligned(sent, eaten, unread[1])

\* The starts are read, parsed and delivered in the order they were written in.
OrderInv ==
  /\ \A i, j \in DOMAIN delivered : i < j => delivered[i].msg < delivered[j].msg
  /\ \A i, j \in DOMAIN unread : i < j /\ unread[j].kind = "start" => unread[i].msg < unread[j].msg
  /\ \A i \in DOMAIN delivered : delivered[i].msg \in DOMAIN sent
  /\ Starts(parser.packet) => \A i \in DOMAIN delivered : delivered[i].msg < parser.packet[1].msg
  /\ Starts(reader.buffer) =>
       /\ \A i \in DOMAIN delivered : delivered[i].msg < reader.buffer[1].msg
       /\ Starts(parser.packet) => parser.packet[1].msg < reader.buffer[1].msg
  /\ \A k \in DOMAIN unread : unread[k].kind = "start" =>
       /\ \A i \in DOMAIN delivered : delivered[i].msg < unread[k].msg
       /\ Starts(parser.packet) => parser.packet[1].msg < unread[k].msg
       /\ Starts(reader.buffer) => reader.buffer[1].msg < unread[k].msg

\* A framed message of which no line was lost is somewhere on its way.
StartOf(p, m) == p # <<>> /\ p[1] = Line(m, "start", 0)
PresentInv ==
  \A m \in DOMAIN sent : Framed(m) /\ Complete(m, torn) =>
    \/ Delivered(m)
    \/ parser.pc = "parses" /\ StartOf(parser.packet, m)
    \/ StartOf(reader.buffer, m)
    \/ \E i \in DOMAIN unread : unread[i] = Line(m, "start", 0)

\* Of every message that says its length as the reader expects it, the body is its own.
OwnBodies ==
  \A i \in DOMAIN delivered :
    LET m == delivered[i].msg
    IN Exact(sent[m]) /\ m # torn => delivered[i].body = BodyOf(m, sent[m].body)

\* The types, with what the forms say of the bodies and the places of the rows.
ReceiveTypes ==
  /\ sent \in Seq(SentType) /\ \A i \in DOMAIN sent : sent[i].form \in {"none", "alive"} => sent[i].body = 0
  /\ \A i \in DOMAIN sent : sent[i].form = "bad" => sent[i].body # 0
  /\ cut \in BOOLEAN /\ torn \in Nat /\ (~cut => torn = 0)
  /\ unread \in Seq(LineType)
  /\ reader \in [pc : {"line", "body", "packet", "over"}, buffer : Seq(LineType), bodyLen : Nat]
  /\ parser \in [pc : {"waits", "parses", "over"}, packet : Seq(LineType), stop : BOOLEAN]
  /\ delivered \in Seq(DeliveredType)
  /\ reader.pc = "over" => unread = <<>> /\ reader.buffer = <<>> /\ cut
  /\ reader.pc \in {"body", "packet"} => reader.buffer # <<>>
  /\ parser.pc # "parses" => parser.packet = <<>>

\* FramedDelivered is of the end of the row; this is what keeps it true on the way.
ReceiveInv ==
  /\ ReceiveTypes /\ StreamInv /\ KnownInv /\ LineInv /\ BodyInv
  /\ PacketInv /\ OrderInv /\ PresentInv /\ OwnBodies

-----------------------------------------------------------------------------
(* The lines of messages, and rows of them. *)

\* Numbers have a least one.
LEMMA LeastNumber ==
  ASSUME NEW T \in SUBSET Nat, T # {}
  PROVE  \E n \in T : \A k \in T : n <= k
<1>1. PICK x \in T : \A y \in T : ~ (<<y, x>> \in OpToRel(<, Nat))
  BY NatLessThanWellFounded, WFMin
<1>2. \A y \in T : ~(y < x)
  BY <1>1 DEF OpToRel
<1> QED
  BY <1>2

\* What a row of messages says of one does not change when it grows.
LEMMA Grown ==
  ASSUME NEW s \in Seq(SentType), NEW x \in SentType
  PROVE  LET t == Append(s, x) IN
         /\ t \in Seq(SentType) /\ Len(t) = Len(s) + 1 /\ t[Len(s) + 1] = x
         /\ DOMAIN s = 1..Len(s) /\ DOMAIN t = 1..Len(t)
         /\ \A m \in DOMAIN s : m \in DOMAIN t /\ t[m] = s[m]
BY AppendProperties

\* What is said of a line stays when a message is written after it.
LEMMA LinesStay ==
  ASSUME NEW s \in Seq(SentType), NEW x \in SentType, NEW a, IsLine(s, a)
  PROVE  LET t == Append(s, x) IN
         /\ IsLine(t, a) /\ (Ends(t, a) <=> Ends(s, a))
         /\ \A b : Follows(s, a, b) => Follows(t, a, b)
<1> DEFINE t == Append(s, x)
<1>1. a.msg \in DOMAIN s /\ a.msg \in DOMAIN t /\ t[a.msg] = s[a.msg]
  BY Grown DEF IsLine
<1>2. a.msg \in Nat
  BY DEF IsLine, LineType
<1>3. a.msg + 1 \in DOMAIN s => a.msg + 1 \in DOMAIN t /\ t[a.msg + 1] = s[a.msg + 1]
  BY <1>2, Grown
<1> HIDE DEF t
<1>4. IsLine(t, a) /\ (Ends(t, a) <=> Ends(s, a))
  BY <1>1 DEF IsLine, Ends, Headed
<1>5. \A b : Follows(s, a, b) => Follows(t, a, b)
  BY <1>1, <1>3, <1>4 DEF Follows, FirstOf, NextOf, Headed
<1> QED
  BY <1>4, <1>5 DEF t

\* So does what is said of a row of lines.
LEMMA ChainStays ==
  ASSUME NEW s \in Seq(SentType), NEW x \in SentType, NEW u, Chained(s, u)
  PROVE  Chained(Append(s, x), u)
BY LinesStay DEF Chained

\* The lines of a message.
LEMMA LinesAre ==
  ASSUME NEW m \in Nat, NEW x \in SentType, x.form \in {"none", "alive"} => x.body = 0
  PROVE  LET u == LinesOf(m, x) IN
         /\ u \in Seq(LineType) /\ Len(u) \in Nat /\ Len(u) >= 1
         /\ Len(u) = (IF x.form = "alive" THEN 1 ELSE IF x.form = "none" THEN 2 ELSE 3) + x.body
         /\ x.form = "alive" => u[1] = Line(m, "blank", 0)
         /\ x.form = "none" => u[1] = Line(m, "start", 0) /\ u[2] = Line(m, "blank", 0)
         /\ x.form \notin {"alive", "none"} =>
              /\ u[1] = Line(m, "start", 0) /\ u[2] = Line(m, x.form, x.len) /\ u[3] = Line(m, "blank", 0)
              /\ \A k \in 1..x.body : u[k + 3] = Line(m, "body", k)
<1> DEFINE b == BodyOf(m, x.body)
<1>1. x.body \in Nat /\ x.len \in Nat /\ x.form \in Forms
  BY DEF SentType
<1>2. b \in [1..x.body -> LineType]
  BY <1>1 DEF BodyOf, Line, LineType, Kinds
<1>3. b \in Seq(LineType) /\ Len(b) = x.body /\ \A k \in 1..x.body : b[k] = Line(m, "body", k)
  BY <1>1, <1>2, IsASeq DEF BodyOf
<1>4. /\ Line(m, "start", 0) \in LineType /\ Line(m, "blank", 0) \in LineType
      /\ x.form \notin {"alive", "none"} => Line(m, x.form, x.len) \in LineType
  BY <1>1 DEF Line, LineType, Kinds, Forms
<1> HIDE DEF b
<1>5. CASE x.form = "alive"
  <2>1. LinesOf(m, x) = ((<<>> \o <<>>) \o <<Line(m, "blank", 0)>>) \o b
    BY <1>5 DEF LinesOf, b
  <2>2. LinesOf(m, x) = <<Line(m, "blank", 0)>> \o b
    BY <2>1, <1>4
  <2> HIDE DEF LinesOf
  <2> QED
    BY <1>5, <1>1, <1>3, <1>4, <2>2
<1>6. CASE x.form = "none"
  <2>1. LinesOf(m, x) = ((<<Line(m, "start", 0)>> \o <<>>) \o <<Line(m, "blank", 0)>>) \o b
    BY <1>6 DEF LinesOf, b
  <2>2. LinesOf(m, x) = <<Line(m, "start", 0), Line(m, "blank", 0)>> \o b
    BY <2>1, <1>4
  <2> QED
    BY <1>6, <1>1, <1>3, <1>4, <2>2
<1>7. CASE x.form \notin {"alive", "none"}
  <2>1. LinesOf(m, x) = ((<<Line(m, "start", 0)>> \o <<Line(m, x.form, x.len)>>) \o <<Line(m, "blank", 0)>>) \o b
    BY <1>7 DEF LinesOf, b
  <2>2. LinesOf(m, x) = <<Line(m, "start", 0), Line(m, x.form, x.len), Line(m, "blank", 0)>> \o b
    BY <2>1, <1>4, <1>7
  <2> QED
    BY <1>7, <1>1, <1>3, <1>4, <2>2
<1> QED
  BY <1>5, <1>6, <1>7

\* The lines of one message are chained, from its first to its last.
LEMMA MessageChained ==
  ASSUME NEW s \in Seq(SentType), NEW m \in DOMAIN s, s[m].form \in {"none", "alive"} => s[m].body = 0
  PROVE  LET u == LinesOf(m, s[m]) IN
         /\ u \in Seq(LineType) /\ Len(u) \in Nat /\ Len(u) >= 1
         /\ Chained(s, u) /\ u[1] = FirstOf(s, m) /\ Ends(s, u[Len(u)])
         /\ \A i \in DOMAIN u : u[i].msg = m /\ (u[i].kind = "start" => i = 1)
         /\ s[m].form = "full" => u[1] = Line(m, "start", 0)
<1> DEFINE x == s[m]
           u == LinesOf(m, x)
           h == IF x.form = "alive" THEN 1 ELSE IF x.form = "none" THEN 2 ELSE 3
<1>1. m \in Nat /\ x \in SentType /\ x.form \in Forms /\ x.body \in Nat /\ x.len \in Nat
  <2>1. m \in Nat /\ x \in SentType
    BY ElementOfSeq
  <2> QED
    BY <2>1 DEF SentType
<1>2. /\ u \in Seq(LineType) /\ Len(u) \in Nat /\ Len(u) >= 1 /\ Len(u) = h + x.body
      /\ x.form = "alive" => u[1] = Line(m, "blank", 0)
      /\ x.form = "none" => u[1] = Line(m, "start", 0) /\ u[2] = Line(m, "blank", 0)
      /\ x.form \notin {"alive", "none"} =>
           /\ u[1] = Line(m, "start", 0) /\ u[2] = Line(m, x.form, x.len) /\ u[3] = Line(m, "blank", 0)
           /\ \A k \in 1..x.body : u[k + 3] = Line(m, "body", k)
  BY <1>1, LinesAre
<1>3. DOMAIN u = 1..Len(u)
  BY <1>2
<1> HIDE DEF u
<1>4. ASSUME NEW i \in DOMAIN u PROVE
        \/ i = 1 /\ u[i] = Line(m, "start", 0) /\ x.form # "alive"
        \/ i = 2 /\ x.form \notin {"alive", "none"} /\ u[i] = Line(m, x.form, x.len)
        \/ i = h /\ u[i] = Line(m, "blank", 0)
        \/ i > 3 /\ h = 3 /\ i - 3 \in 1..x.body /\ u[i] = Line(m, "body", i - 3)
  <2>1. CASE i > h
    <3>1. h = 3 /\ x.form \notin {"alive", "none"}
      BY <2>1, <1>1, <1>2, <1>3
    <3>2. i - 3 \in 1..x.body
      BY <2>1, <3>1, <1>1, <1>2, <1>3
    <3>3. u[(i - 3) + 3] = Line(m, "body", i - 3) /\ (i - 3) + 3 = i
      BY <3>1, <3>2, <1>2, <1>3
    <3> QED
      BY <3>1, <3>2, <3>3
  <2>2. CASE i <= h
    BY <2>2, <1>1, <1>2, <1>3
  <2> QED
    BY <2>1, <2>2, <1>3, <1>1
<1>5. \A i \in DOMAIN u : u[i].msg = m /\ u[i].n \in Nat /\ u[i] \in LineType
  BY <1>4, <1>1 DEF Line, LineType, Kinds, Forms
<1>6. \A i \in DOMAIN u : IsLine(s, u[i])
  <2> TAKE i \in DOMAIN u
  <2>0. u[i].msg = m /\ u[i] \in LineType
    BY <1>5
  <2>1. CASE i > 3 /\ h = 3 /\ i - 3 \in 1..x.body /\ u[i] = Line(m, "body", i - 3)
    <3>1. u[i].n = i - 3
      BY <2>1 DEF Line
    <3> QED
      BY <2>0, <2>1, <3>1 DEF IsLine
  <2>2. CASE ~(i > 3 /\ h = 3 /\ i - 3 \in 1..x.body /\ u[i] = Line(m, "body", i - 3))
    BY <2>0, <2>2, <1>4 DEF IsLine, Headed
  <2> QED
    BY <2>1, <2>2
<1>7. \A i \in DOMAIN u : i + 1 \in DOMAIN u => Follows(s, u[i], u[i + 1])
  <2> SUFFICES ASSUME NEW i \in DOMAIN u, i + 1 \in DOMAIN u PROVE Follows(s, u[i], u[i + 1])
    OBVIOUS
  <2>0. i \in Nat /\ u[i].msg = m /\ i >= 1 /\ i + 1 <= h + x.body /\ h \in 1..3
    BY <1>1, <1>2, <1>3, <1>5
  <2>1. CASE i > 3 /\ h = 3 /\ i - 3 \in 1..x.body /\ u[i] = Line(m, "body", i - 3)
    <3>1. u[i + 1] = Line(m, "body", i - 2)
      BY <2>0, <2>1, <1>4
    <3>2. i - 3 < x.body /\ u[i].n = i - 3 /\ u[i].kind = "body" /\ (i - 3) + 1 = i - 2
      BY <2>0, <2>1, <1>1 DEF Line
    <3> QED
      BY <2>0, <3>1, <3>2 DEF Follows, Ends, NextOf
  <2>2. CASE i = h /\ u[i] = Line(m, "blank", 0)
    <3>1. x.body # 0 /\ x.form \notin {"alive", "none"} /\ h = 3
      BY <2>0, <2>2, <1>1
    <3>2. u[i + 1] = Line(m, "body", 1)
      <4>1. 1 \in 1..x.body
        BY <3>1, <1>1
      <4>2. u[1 + 3] = Line(m, "body", 1)
        BY <4>1, <3>1, <1>2
      <4> QED
        BY <4>2, <2>2, <3>1
    <3>3. u[i].kind = "blank" /\ u[i].n = 0
      BY <2>2 DEF Line
    <3> QED
      BY <2>0, <3>1, <3>2, <3>3 DEF Follows, Ends, NextOf
  <2>3. CASE i = 2 /\ x.form \notin {"alive", "none"} /\ u[i] = Line(m, x.form, x.len)
    <3>1. u[3] = Line(m, "blank", 0) /\ i + 1 = 3 /\ u[i].kind = x.form
      BY <2>3, <1>2 DEF Line
    <3> QED
      BY <2>0, <2>3, <3>1, <1>1 DEF Follows, Ends, NextOf, Forms
  <2>4. CASE i = 1 /\ u[i] = Line(m, "start", 0) /\ x.form # "alive"
    <3>1. u[i].kind = "start" /\ i + 1 = 2
      BY <2>4 DEF Line
    <3>2. u[2] = IF x.form = "none" THEN Line(m, "blank", 0) ELSE Line(m, x.form, x.len)
      BY <2>4, <1>2
    <3> QED
      BY <2>0, <2>4, <3>1, <3>2 DEF Follows, Ends, NextOf, Headed
  <2> QED
    BY <2>1, <2>2, <2>3, <2>4, <1>4
<1>8. \A i \in DOMAIN u : u[i].kind = "start" => i = 1
  BY <1>4, <1>1 DEF Line, Forms
<1>9. Ends(s, u[Len(u)])
  <2>1. Len(u) \in DOMAIN u /\ h \in 1..3
    BY <1>2, <1>3
  <2>2. CASE x.body = 0
    <3>1. Len(u) = h /\ u[h] = Line(m, "blank", 0)
      BY <2>2, <1>1, <1>2, <2>1
    <3> QED
      BY <2>2, <3>1 DEF Ends, Line
  <2>3. CASE x.body # 0
    <3>1. x.form \notin {"alive", "none"} /\ x.body \in 1..x.body /\ Len(u) = x.body + 3
      BY <2>3, <1>1, <1>2
    <3>2. u[Len(u)] = Line(m, "body", x.body)
      BY <3>1, <1>2
    <3> QED
      BY <3>2 DEF Ends, Line
  <2> QED
    BY <2>2, <2>3
<1>10. u[1] = FirstOf(s, m)
  BY <1>1, <1>2 DEF FirstOf, Forms
<1>11. Chained(s, u)
  <2>1. \A i, j \in DOMAIN u : i < j => u[i].msg <= u[j].msg
    BY <1>5, <1>1
  <2> QED
    BY <2>1, <1>6, <1>7 DEF Chained
<1>12. s[m].form = "full" => u[1] = Line(m, "start", 0)
  BY <1>2
<1> QED
  BY <1>2, <1>5, <1>8, <1>9, <1>10, <1>11, <1>12 DEF u

\* Two rows make one when the second begins with what follows the first.
LEMMA ChainJoins ==
  ASSUME NEW s, NEW u \in Seq(LineType), NEW v \in Seq(LineType), Chained(s, u), Chained(s, v), v # <<>>,
         u # <<>> => Follows(s, u[Len(u)], v[1]),
         \A i \in DOMAIN u, j \in DOMAIN v : u[i].msg <= v[j].msg
  PROVE  Chained(s, u \o v)
<1> DEFINE w == u \o v
<1>1. /\ DOMAIN u = 1..Len(u) /\ DOMAIN v = 1..Len(v) /\ DOMAIN w = 1..Len(w)
      /\ Len(u) \in Nat /\ Len(v) \in Nat /\ Len(w) = Len(u) + Len(v) /\ Len(v) >= 1
      /\ u # <<>> <=> Len(u) # 0
  BY ConcatProperties, EmptySeq
<1>2. \A i \in DOMAIN w : w[i] = IF i <= Len(u) THEN u[i] ELSE v[i - Len(u)]
  BY ConcatProperties
<1>3. \A i \in DOMAIN w : IF i <= Len(u) THEN i \in DOMAIN u ELSE i - Len(u) \in DOMAIN v
  BY <1>1
<1> HIDE DEF w
<1>4. \A i \in DOMAIN w : IsLine(s, w[i])
  BY <1>2, <1>3 DEF Chained
<1>5. \A i \in DOMAIN w : i + 1 \in DOMAIN w => Follows(s, w[i], w[i + 1])
  <2> SUFFICES ASSUME NEW i \in DOMAIN w, i + 1 \in DOMAIN w PROVE Follows(s, w[i], w[i + 1])
    OBVIOUS
  <2>0. i \in Nat
    BY <1>1
  <2>1. CASE i + 1 <= Len(u)
    <3>1. i \in DOMAIN u /\ i + 1 \in DOMAIN u /\ w[i] = u[i] /\ w[i + 1] = u[i + 1]
      BY <2>0, <2>1, <1>1, <1>2
    <3> QED
      BY <3>1 DEF Chained
  <2>2. CASE i = Len(u)
    <3>1. w[i] = u[Len(u)] /\ (i + 1) - Len(u) = 1 /\ ~(i + 1 <= Len(u)) /\ u # <<>>
      BY <2>0, <2>2, <1>1, <1>2
    <3>2. w[i + 1] = v[1]
      BY <3>1, <1>2
    <3> QED
      BY <3>1, <3>2
  <2>3. CASE i > Len(u)
    <3>1. (i + 1) - Len(u) = (i - Len(u)) + 1 /\ ~(i <= Len(u)) /\ ~(i + 1 <= Len(u))
      BY <2>0, <2>3, <1>1
    <3>2. i - Len(u) \in DOMAIN v /\ (i - Len(u)) + 1 \in DOMAIN v
      BY <3>1, <1>3
    <3>3. w[i] = v[i - Len(u)] /\ w[i + 1] = v[(i - Len(u)) + 1]
      BY <3>1, <1>2
    <3> QED
      BY <3>2, <3>3 DEF Chained
  <2> QED
    BY <2>0, <2>1, <2>2, <2>3, <1>1
<1>6. \A i, j \in DOMAIN w : i < j => w[i].msg <= w[j].msg
  <2> SUFFICES ASSUME NEW i \in DOMAIN w, NEW j \in DOMAIN w, i < j PROVE w[i].msg <= w[j].msg
    OBVIOUS
  <2>1. CASE j <= Len(u)
    <3>1. i \in DOMAIN u /\ j \in DOMAIN u /\ w[i] = u[i] /\ w[j] = u[j]
      BY <2>1, <1>1, <1>2
    <3> QED
      BY <3>1 DEF Chained
  <2>2. CASE i <= Len(u) /\ ~(j <= Len(u))
    <3>1. i \in DOMAIN u /\ j - Len(u) \in DOMAIN v /\ w[i] = u[i] /\ w[j] = v[j - Len(u)]
      BY <2>2, <1>2, <1>3
    <3> QED
      BY <3>1
  <2>3. CASE ~(i <= Len(u))
    <3>1. ~(j <= Len(u)) /\ i - Len(u) < j - Len(u)
      BY <2>3, <1>1
    <3>2. i - Len(u) \in DOMAIN v /\ j - Len(u) \in DOMAIN v /\ w[i] = v[i - Len(u)] /\ w[j] = v[j - Len(u)]
      BY <2>3, <3>1, <1>2, <1>3
    <3> QED
      BY <3>1, <3>2 DEF Chained
  <2> QED
    BY <2>1, <2>2, <2>3
<1> QED
  BY <1>4, <1>5, <1>6 DEF Chained, w

\* A part of a row without gaps.
LEMMA ChainPart ==
  ASSUME NEW s, NEW u \in Seq(LineType), Chained(s, u), NEW d \in Nat, NEW k \in Nat, d + k <= Len(u),
         NEW v \in Seq(LineType), Len(v) = k, \A i \in 1..k : v[i] = u[i + d]
  PROVE  Chained(s, v)
<1>1. DOMAIN v = 1..k /\ DOMAIN u = 1..Len(u) /\ Len(u) \in Nat
  OBVIOUS
<1>2. \A i \in DOMAIN v : i \in Nat /\ i + d \in DOMAIN u /\ v[i] = u[i + d]
  BY <1>1
<1>3. \A i \in DOMAIN v : i + 1 \in DOMAIN v => (i + d) + 1 \in DOMAIN u /\ v[i + 1] = u[(i + d) + 1]
  <2> SUFFICES ASSUME NEW i \in DOMAIN v, i + 1 \in DOMAIN v
               PROVE  (i + d) + 1 \in DOMAIN u /\ v[i + 1] = u[(i + d) + 1]
    OBVIOUS
  <2>1. (i + 1) + d = (i + d) + 1
    BY <1>2
  <2> QED
    BY <2>1, <1>2
<1>4. \A i, j \in DOMAIN v : i < j => i + d < j + d
  BY <1>2
<1> QED
  BY <1>2, <1>3, <1>4 DEF Chained

\* What is left when the first line is read.
LEMMA TailChained ==
  ASSUME NEW s, NEW u \in Seq(LineType), Chained(s, u), u # <<>>
  PROVE  /\ Chained(s, Tail(u)) /\ Tail(u) \in Seq(LineType) /\ Len(Tail(u)) = Len(u) - 1 /\ Len(u) \in Nat /\ Len(u) >= 1
         /\ DOMAIN Tail(u) = 1..(Len(u) - 1) /\ \A i \in 1..(Len(u) - 1) : Tail(u)[i] = u[i + 1]
         /\ Head(u) = u[1] /\ 1 \in DOMAIN u
<1>1. /\ Tail(u) \in Seq(LineType) /\ Len(Tail(u)) = Len(u) - 1 /\ Len(u) \in Nat /\ Len(u) >= 1
      /\ \A i \in 1..(Len(u) - 1) : Tail(u)[i] = u[i + 1]
      /\ Head(u) = u[1] /\ 1 \in DOMAIN u
  BY HeadTailProperties, EmptySeq
<1>2. Chained(s, Tail(u))
  <2> DEFINE v == Tail(u)
             k == Len(u) - 1
  <2>1. 1 \in Nat /\ k \in Nat /\ 1 + k <= Len(u) /\ v \in Seq(LineType) /\ Len(v) = k /\ \A i \in 1..k : v[i] = u[i + 1]
    BY <1>1
  <2> HIDE DEF v, k
  <2>2. Chained(s, v)
    BY <2>1, ChainPart
  <2> QED
    BY <2>2 DEF v
<1> QED
  BY <1>1, <1>2

\* A part of a row of lines.
LEMMA SubSeqIs ==
  ASSUME NEW u \in Seq(LineType), NEW a \in 1..(Len(u) + 1), NEW b \in 0..Len(u), a <= b + 1
  PROVE  LET v == SubSeq(u, a, b) IN
         /\ v \in Seq(LineType) /\ Len(v) = b + 1 - a /\ DOMAIN v = 1..(b + 1 - a)
         /\ \A i \in 1..(b + 1 - a) : v[i] = u[a + i - 1]
<1>1. Len(u) \in Nat /\ a \in Nat /\ b \in Nat
  OBVIOUS
<1>2. SubSeq(u, a, b) \in Seq(LineType)
  <2>1. \A i \in a..b : i \in DOMAIN u
    BY <1>1
  <2> QED
    BY <2>1, SubSeqProperties
<1>3. Len(SubSeq(u, a, b)) = b + 1 - a
  BY <1>1, SubSeqProperties
<1>4. \A i \in 1..(b + 1 - a) : SubSeq(u, a, b)[i] = u[a + i - 1]
  BY <1>1, SubSeqProperties
<1> QED
  BY <1>2, <1>3, <1>4

\* After the blank line come the lines of the body.
LEMMA BodyFollows ==
  ASSUME NEW s \in Seq(SentType), NEW u \in Seq(LineType), Chained(s, u), NEW a, IsLine(s, a), a.kind = "blank", a.n = 0,
         u # <<>> => Follows(s, a, u[1])
  PROVE  \A k \in 1..s[a.msg].body : k \in DOMAIN u => u[k] = Line(a.msg, "body", k)
<1> DEFINE m == a.msg
           n == s[m].body
           Wrong == {k \in 1..n : k \in DOMAIN u /\ u[k] # Line(m, "body", k)}
<1>1. m \in DOMAIN s /\ n \in Nat
  <2>1. m \in DOMAIN s
    BY DEF IsLine
  <2>2. s[m] \in SentType
    BY <2>1, ElementOfSeq
  <2> QED
    BY <2>1, <2>2 DEF SentType
<1>2. SUFFICES ASSUME Wrong # {} PROVE FALSE
  OBVIOUS
<1>3. PICK k \in Wrong : \A j \in Wrong : k <= j
  <2>1. Wrong \in SUBSET Nat
    BY <1>1
  <2> QED
    BY <2>1, <1>2, LeastNumber
<1>4. k \in 1..n /\ k \in DOMAIN u /\ u[k] # Line(m, "body", k) /\ DOMAIN u = 1..Len(u) /\ Len(u) \in Nat /\ k \in Nat
  BY <1>1, <1>3
<1>5. CASE k = 1
  <2>1. u # <<>> /\ Follows(s, a, u[1]) /\ n # 0 /\ a.n + 1 = 1
    BY <1>4, <1>5, EmptySeq, <1>1
  <2>2. u[1] = Line(m, "body", 1)
    BY <2>1 DEF Follows, Ends, NextOf
  <2> QED
    BY <2>2, <1>4, <1>5
<1>6. CASE k # 1
  <2>1. k - 1 \in 1..n /\ k - 1 \in DOMAIN u /\ (k - 1) + 1 = k /\ k - 1 # n
    BY <1>1, <1>4, <1>6
  <2>2. k - 1 \notin Wrong
    BY <1>3, <2>1, <1>4
  <2>3. u[k - 1] = Line(m, "body", k - 1)
    BY <2>1, <2>2
  <2>4. Follows(s, u[k - 1], u[k])
    BY <2>1, <1>4 DEF Chained
  <2>5. u[k - 1].msg = m /\ u[k - 1].kind = "body" /\ u[k - 1].n = k - 1
    BY <2>3 DEF Line
  <2>6. u[k] = Line(m, "body", k)
    BY <2>1, <2>4, <2>5 DEF Follows, Ends, NextOf
  <2> QED
    BY <2>6, <1>4
<1> QED
  BY <1>5, <1>6

-----------------------------------------------------------------------------
(* The start, and what the actions do to the rows. *)

\* The empty row, and lengths.
LEMMA EmptyIs ==
  /\ \A S : <<>> \in Seq(S)
  /\ \A S : \A u \in Seq(S) : DOMAIN u = 1..Len(u) /\ Len(u) \in Nat /\ (u = <<>> <=> Len(u) = 0)
  /\ DOMAIN <<>> = {} /\ Len(<<>>) = 0
BY EmptySeq, LenProperties

\* All of it holds before anything was written.
LEMMA ReceiveStart == ReceiveInit => ReceiveInv
<1> SUFFICES ASSUME ReceiveInit PROVE ReceiveInv
  OBVIOUS
<1> USE DEF ReceiveInit
<1> USE EmptyIs
<1>1. ReceiveTypes
  BY DEF ReceiveTypes
<1>2. StreamInv
  BY DEF StreamInv, Chained, Holds
<1>3. LineInv /\ KnownInv
  BY DEF LineInv, Holds, Starts, KnownInv
<1>4. BodyInv /\ PacketInv
  BY DEF BodyInv, PacketInv
<1>5. OrderInv
  BY DEF OrderInv, Starts
<1>6. PresentInv /\ OwnBodies
  BY DEF PresentInv, OwnBodies
<1> QED
  BY <1>1, <1>2, <1>3, <1>4, <1>5, <1>6 DEF ReceiveInv

\* What the device may write.
LEMMA MessagesAre ==
  ASSUME NEW form \in Forms, NEW k \in Bodies(form), NEW len \in Given(form)
  PROVE  LET s == [form |-> form, body |-> k, len |-> len] IN
         s \in SentType /\ (s.form \in {"none", "alive"} => s.body = 0) /\ (s.form = "bad" => s.body # 0)
BY ReceiveAssumption DEF Forms, Bodies, Given, SentType

\* The lines that ReadFull takes.
BodyRead == [i \in 1..reader.bodyLen |-> IF i <= Len(unread) THEN unread[i] ELSE Zero]

\* They are as many as the length says, the last ones zero if they did not come.
LEMMA BodyReadIs ==
  ASSUME ReceiveTypes
  PROVE  /\ BodyRead \in Seq(LineType) /\ Len(BodyRead) = reader.bodyLen /\ reader.bodyLen \in Nat
         /\ DOMAIN BodyRead = 1..reader.bodyLen
         /\ \A i \in 1..reader.bodyLen : BodyRead[i] = IF i <= Len(unread) THEN unread[i] ELSE Zero
<1>1. reader.bodyLen \in Nat /\ Zero \in LineType
  BY DEF ReceiveTypes, Zero, Line, LineType, Kinds
<1>2. BodyRead \in [1..reader.bodyLen -> LineType]
  <2>1. \A i \in 1..reader.bodyLen : i <= Len(unread) => unread[i] \in LineType
    <3> TAKE i \in 1..reader.bodyLen
    <3> HAVE i <= Len(unread)
    <3>1. i \in 1..Len(unread) /\ unread \in Seq(LineType)
      BY <1>1, EmptyIs DEF ReceiveTypes
    <3> QED
      BY <3>1, ElementOfSeq
  <2> QED
    BY <1>1, <2>1 DEF BodyRead
<1>3. BodyRead \in Seq(LineType)
  BY <1>1, <1>2, IsASeq
<1>4. DOMAIN BodyRead = 1..reader.bodyLen
  BY DEF BodyRead
<1>5. Len(BodyRead) = reader.bodyLen
  BY <1>1, <1>3, <1>4, EmptyIs
<1>6. \A i \in 1..reader.bodyLen : BodyRead[i] = IF i <= Len(unread) THEN unread[i] ELSE Zero
  BY DEF BodyRead
<1> QED
  BY <1>1, <1>3, <1>4, <1>5, <1>6

\* What is left unread after a body.
LEMMA UnreadAfterBody ==
  ASSUME ReceiveTypes, NEW v, v = SubSeq(unread, reader.bodyLen + 1, Len(unread))
  PROVE  /\ v \in Seq(LineType)
         /\ IF reader.bodyLen <= Len(unread)
              THEN /\ Len(v) = Len(unread) - reader.bodyLen /\ DOMAIN v = 1..(Len(unread) - reader.bodyLen)
                   /\ \A i \in 1..(Len(unread) - reader.bodyLen) : v[i] = unread[i + reader.bodyLen]
              ELSE v = <<>>
<1>1. unread \in Seq(LineType) /\ Len(unread) \in Nat /\ reader.bodyLen \in Nat
  BY EmptyIs DEF ReceiveTypes
<1>2. CASE reader.bodyLen <= Len(unread)
  <2>1. reader.bodyLen + 1 \in 1..(Len(unread) + 1) /\ Len(unread) \in 0..Len(unread) /\ reader.bodyLen + 1 <= Len(unread) + 1
    BY <1>1, <1>2
  <2>2. /\ v \in Seq(LineType) /\ Len(v) = Len(unread) + 1 - (reader.bodyLen + 1)
        /\ DOMAIN v = 1..(Len(unread) + 1 - (reader.bodyLen + 1))
        /\ \A i \in 1..(Len(unread) + 1 - (reader.bodyLen + 1)) : v[i] = unread[(reader.bodyLen + 1) + i - 1]
    BY <1>1, <2>1, SubSeqIs
  <2>3. Len(unread) + 1 - (reader.bodyLen + 1) = Len(unread) - reader.bodyLen
    BY <1>1
  <2>4. \A i \in 1..(Len(unread) - reader.bodyLen) : (reader.bodyLen + 1) + i - 1 = i + reader.bodyLen
    BY <1>1
  <2> QED
    BY <1>2, <2>2, <2>3, <2>4
<1>3. CASE ~(reader.bodyLen <= Len(unread))
  <2>1. SubSeq(unread, reader.bodyLen + 1, Len(unread)) = <<>>
    BY <1>1, <1>3, SubSeqEmpty
  <2> QED
    BY <1>3, <2>1, EmptyIs
<1> QED
  BY <1>2, <1>3

\* What is left when the connection ends.
LEMMA CutIs ==
  ASSUME ReceiveTypes, Cut
  PROVE  \E k \in Nat :
           /\ k <= Len(unread) /\ unread' \in Seq(LineType) /\ Len(unread') = k /\ DOMAIN unread' = 1..k
           /\ \A i \in 1..k : i \in DOMAIN unread /\ unread'[i] = unread[i]
           /\ k = Len(unread) => torn' = 0
           /\ k # Len(unread) => k + 1 \in DOMAIN unread /\ torn' = unread[k + 1].msg
<1>1. unread \in Seq(LineType) /\ Len(unread) \in Nat /\ DOMAIN unread = 1..Len(unread)
  BY EmptyIs DEF ReceiveTypes
<1>2. PICK k \in 0..Len(unread) : unread' = SubSeq(unread, 1, k) /\ torn' = IF k = Len(unread) THEN 0 ELSE unread[k + 1].msg
  BY DEF Cut
<1> DEFINE n == Len(unread)
<1>3. n \in Nat /\ k \in 0..n
  BY <1>1, <1>2
<1> HIDE DEF n
<1>4. k \in Nat /\ k <= n /\ 1 \in 1..(n + 1) /\ 1 <= k + 1 /\ k + 1 - 1 = k /\ (k # n => k + 1 \in 1..n)
      /\ \A i \in 1..k : 1 + i - 1 = i /\ i \in 1..n
  BY <1>3
<1>5. /\ unread' \in Seq(LineType) /\ Len(unread') = k + 1 - 1 /\ DOMAIN unread' = 1..(k + 1 - 1)
      /\ \A i \in 1..(k + 1 - 1) : unread'[i] = unread[1 + i - 1]
  BY <1>1, <1>2, <1>3, <1>4, SubSeqIs DEF n
<1>6. \A i \in 1..k : i \in DOMAIN unread /\ unread'[i] = unread[i]
  BY <1>1, <1>4, <1>5 DEF n
<1> QED
  BY <1>1, <1>2, <1>4, <1>5, <1>6 DEF n

\* The parser drops a packet, or makes the message that its first line names.
LEMMA ParsedIs ==
  ASSUME NEW p \in Seq(LineType), p # <<>>
  PROVE  \/ Parsed(p) = <<>>
         \/ /\ Starts(p) /\ ParsedBody(p) \in Seq(LineType)
            /\ Parsed(p) = <<[msg |-> p[1].msg, body |-> ParsedBody(p)]>>
            /\ [msg |-> p[1].msg, body |-> ParsedBody(p)] \in DeliveredType
<1>1. DOMAIN p = 1..Len(p) /\ Len(p) \in Nat /\ Len(p) # 0
  BY EmptyIs
<1>2. p[1] \in LineType
  BY <1>1, ElementOfSeq
<1>3. ParsedBody(p) \in Seq(LineType)
  <2>1. CASE BlankAt(p) = 0
    BY <2>1, EmptyIs DEF ParsedBody
  <2>2. CASE BlankAt(p) # 0
    <3> DEFINE I == {i \in 1..Len(p) : p[i].kind = "blank"}
    <3>1. BlankAt(p) = Min(I) /\ I # {}
      BY <2>2 DEF BlankAt, SelectInSeq
    <3>2. BlankAt(p) \in I
      <4>1. \E x \in I : \A y \in I : x <= y
        <5>1. I \in SUBSET Nat /\ I # {}
          BY <1>1, <3>1
        <5> HIDE DEF I
        <5> QED
          BY <5>1, LeastNumber
      <4> QED
        BY <3>1, <4>1 DEF Min
    <3>3. BlankAt(p) + 1 \in 1..(Len(p) + 1) /\ Len(p) \in 0..Len(p) /\ BlankAt(p) + 1 <= Len(p) + 1
      BY <1>1, <3>2
    <3>4. SubSeq(p, BlankAt(p) + 1, Len(p)) \in Seq(LineType)
      BY <3>3, SubSeqIs
    <3> QED
      BY <2>2, <3>4 DEF ParsedBody
  <2> QED
    BY <2>1, <2>2
<1>4. p[1].msg \in Nat
  BY <1>2 DEF LineType
<1> QED
  BY <1>3, <1>4 DEF Parsed, Starts, DeliveredType

\* Every step keeps the types.
LEMMA ReceiveTypesStep == ReceiveTypes /\ PacketInv /\ [ReceiveNext]_receiveVars => ReceiveTypes'
<1> SUFFICES ASSUME ReceiveTypes, PacketInv, [ReceiveNext]_receiveVars PROVE ReceiveTypes'
  OBVIOUS
<1>t. /\ sent \in Seq(SentType) /\ \A i \in DOMAIN sent : sent[i].form \in {"none", "alive"} => sent[i].body = 0
      /\ \A i \in DOMAIN sent : sent[i].form = "bad" => sent[i].body # 0
      /\ cut \in BOOLEAN /\ torn \in Nat /\ (~cut => torn = 0)
      /\ unread \in Seq(LineType)
      /\ reader \in [pc : {"line", "body", "packet", "over"}, buffer : Seq(LineType), bodyLen : Nat]
      /\ parser \in [pc : {"waits", "parses", "over"}, packet : Seq(LineType), stop : BOOLEAN]
      /\ delivered \in Seq(DeliveredType)
      /\ reader.pc = "over" => unread = <<>> /\ reader.buffer = <<>> /\ cut
      /\ reader.pc \in {"body", "packet"} => reader.buffer # <<>>
      /\ parser.pc # "parses" => parser.packet = <<>>
  BY DEF ReceiveTypes
<1>1. ASSUME NEW form \in Forms, NEW k \in Bodies(form), NEW len \in Given(form), DeviceSends([form |-> form, body |-> k, len |-> len]) PROVE ReceiveTypes'
  <2> DEFINE x == [form |-> form, body |-> k, len |-> len]
  <2>1. x \in SentType /\ (x.form \in {"none", "alive"} => x.body = 0) /\ (x.form = "bad" => x.body # 0)
    BY MessagesAre
  <2> HIDE DEF x
  <2>2. sent' = Append(sent, x) /\ ~cut /\ unread' = unread \o LinesOf(Len(sent) + 1, x) /\ UNCHANGED <<cut, reader, parser, delivered, torn, eaten>>
    BY <1>1 DEF DeviceSends, x
  <2>3. Len(sent) + 1 \in Nat
    BY <1>t, EmptyIs
  <2>4. LinesOf(Len(sent) + 1, x) \in Seq(LineType)
    BY <2>1, <2>3, LinesAre
  <2>5. unread' \in Seq(LineType)
    BY <1>t, <2>2, <2>4, ConcatProperties
  <2>6. sent' \in Seq(SentType)
    BY <1>t, <2>1, <2>2, Grown
  <2>7. \A i \in DOMAIN sent' : (i \in DOMAIN sent /\ sent'[i] = sent[i]) \/ sent'[i] = x
    BY <1>t, <2>1, <2>2, Grown
  <2>8. \A i \in DOMAIN sent' : (sent'[i].form \in {"none", "alive"} => sent'[i].body = 0) /\ (sent'[i].form = "bad" => sent'[i].body # 0)
    BY <1>t, <2>1, <2>7
  <2> QED
    BY <1>t, <2>2, <2>5, <2>6, <2>8 DEF ReceiveTypes
<1>2. CASE Cut
  <2>1. ~cut /\ cut' = TRUE /\ UNCHANGED <<sent, reader, parser, delivered, eaten>>
    BY <1>2 DEF Cut
  <2>2. PICK k \in Nat :
           /\ unread' \in Seq(LineType)
           /\ k = Len(unread) => torn' = 0
           /\ k # Len(unread) => k + 1 \in DOMAIN unread /\ torn' = unread[k + 1].msg
    BY <1>2, CutIs
  <2>4. unread' \in Seq(LineType)
    BY <2>2
  <2>5. torn' \in Nat
    <3>1. CASE k # Len(unread)
      <4>1. k + 1 \in 1..Len(unread)
        BY <1>t, <2>2, <3>1, EmptyIs
      <4>2. unread[k + 1] \in LineType
        BY <1>t, <4>1, ElementOfSeq
      <4> QED
        BY <2>2, <3>1, <4>2 DEF LineType
    <3> QED
      BY <2>2, <3>1
  <2>6. reader.pc = "over" => FALSE
    BY <1>t, <2>1
  <2> QED
    BY <1>t, <2>1, <2>4, <2>5, <2>6 DEF ReceiveTypes
<1>3. CASE ReadLine
  <2>1. reader.pc = "line" /\ unread # <<>> /\ unread' = Tail(unread) /\ UNCHANGED <<sent, cut, parser, delivered, torn, eaten>>
    BY <1>3 DEF ReadLine
  <2>2. Tail(unread) \in Seq(LineType) /\ Head(unread) \in LineType
    BY <1>t, <2>1, HeadTailProperties, EmptyIs
  <2>3. Append(reader.buffer, Head(unread)) \in Seq(LineType) /\ Append(reader.buffer, Head(unread)) # <<>>
    <3>1. reader.buffer \in Seq(LineType)
      BY <1>t
    <3>2. /\ Append(reader.buffer, Head(unread)) \in Seq(LineType)
          /\ Len(Append(reader.buffer, Head(unread))) = Len(reader.buffer) + 1 /\ Len(reader.buffer) \in Nat
      BY <3>1, <2>2, AppendProperties
    <3> QED
      BY <3>2, EmptyIs
  <2>4. reader'.pc \in {"line", "body", "packet"} /\ reader'.bodyLen \in Nat /\ reader'.buffer = Append(reader.buffer, Head(unread))
        /\ reader' = [pc |-> reader'.pc, buffer |-> reader'.buffer, bodyLen |-> reader'.bodyLen]
    BY <1>3, <1>t, <2>2 DEF ReadLine, NextPc, LineType
  <2>5. reader' \in [pc : {"line", "body", "packet", "over"}, buffer : Seq(LineType), bodyLen : Nat]
    BY <2>3, <2>4
  <2> QED
    BY <1>t, <2>1, <2>2, <2>3, <2>4, <2>5 DEF ReceiveTypes
<1>4. CASE ReadBody
  <2>1. reader.pc = "body" /\ reader' = [reader EXCEPT !.pc = "packet", !.buffer = @ \o BodyRead]
        /\ unread' = SubSeq(unread, reader.bodyLen + 1, Len(unread)) /\ UNCHANGED <<sent, cut, parser, delivered, torn>>
    BY <1>4 DEF ReadBody, BodyRead
  <2>2. BodyRead \in Seq(LineType) /\ unread' \in Seq(LineType)
    BY <2>1, BodyReadIs, UnreadAfterBody
  <2>3. reader.buffer \o BodyRead \in Seq(LineType) /\ reader.buffer \o BodyRead # <<>>
    <3>1. reader.buffer \in Seq(LineType) /\ reader.buffer # <<>>
      BY <1>t, <2>1
    <3>2. /\ reader.buffer \o BodyRead \in Seq(LineType)
          /\ Len(reader.buffer \o BodyRead) = Len(reader.buffer) + Len(BodyRead)
          /\ Len(reader.buffer) \in Nat /\ Len(BodyRead) \in Nat /\ Len(reader.buffer) # 0
      BY <3>1, <2>2, ConcatProperties, EmptyIs
    <3> QED
      BY <3>2, EmptyIs
  <2> QED
    BY <1>t, <2>1, <2>2, <2>3 DEF ReceiveTypes
<1>5. CASE HandOver
  <2>1. /\ reader.pc = "packet" /\ parser.pc = "waits"
        /\ parser' = [parser EXCEPT !.pc = "parses", !.packet = reader.buffer]
        /\ reader' = [pc |-> "line", buffer |-> <<>>, bodyLen |-> 0]
        /\ UNCHANGED <<sent, unread, cut, delivered, torn, eaten>>
    BY <1>5 DEF HandOver, NextBuffer
  <2>2. reader.buffer \in Seq(LineType) /\ <<>> \in Seq(LineType)
    BY <1>t, EmptyIs
  <2> QED
    BY <1>t, <2>1, <2>2 DEF ReceiveTypes
<1>6. CASE ReaderEnds
  <2>1. <<>> \in Seq(LineType)
    BY EmptyIs
  <2> QED
    BY <1>6, <1>t, <2>1 DEF ReaderEnds, ReceiveTypes
<1>7. CASE ParsePacket
  <2>1. parser.pc = "parses" /\ delivered' = delivered \o Parsed(parser.packet) /\ UNCHANGED <<sent, unread, cut, reader, torn, eaten>>
    BY <1>7 DEF ParsePacket
  <2>2. PICK q \in {"waits", "over"} : parser' = [parser EXCEPT !.pc = q, !.packet = <<>>]
    BY <1>7 DEF ParsePacket
  <2>3. parser.packet \in Seq(LineType) /\ parser.packet # <<>>
    BY <1>t, <2>1 DEF PacketInv, IsPacket
  <2>4. Parsed(parser.packet) \in Seq(DeliveredType)
    <3> DEFINE d == [msg |-> parser.packet[1].msg, body |-> ParsedBody(parser.packet)]
    <3>1. Parsed(parser.packet) = <<>> \/ (Parsed(parser.packet) = <<d>> /\ d \in DeliveredType)
      BY <2>3, ParsedIs
    <3> HIDE DEF d
    <3>2. d \in DeliveredType => <<d>> \in Seq(DeliveredType)
      OBVIOUS
    <3> QED
      BY <3>1, <3>2, EmptyIs
  <2>5. delivered' \in Seq(DeliveredType)
    BY <1>t, <2>1, <2>4, ConcatProperties
  <2> QED
    BY <1>t, <2>1, <2>2, <2>5, EmptyIs DEF ReceiveTypes
<1>8. CASE UNCHANGED receiveVars
  BY <1>8 DEF receiveVars, ReceiveTypes
<1> QED
  BY <1>1, <1>2, <1>3, <1>4, <1>5, <1>6, <1>7, <1>8 DEF ReceiveNext

\* The rows, their lengths and their domains.
LEMMA Shapes ==
  ASSUME ReceiveTypes
  PROVE  /\ sent \in Seq(SentType) /\ DOMAIN sent = 1..Len(sent) /\ Len(sent) \in Nat
         /\ unread \in Seq(LineType) /\ DOMAIN unread = 1..Len(unread) /\ Len(unread) \in Nat /\ (unread = <<>> <=> Len(unread) = 0)
         /\ reader.buffer \in Seq(LineType) /\ DOMAIN reader.buffer = 1..Len(reader.buffer) /\ Len(reader.buffer) \in Nat
         /\ (reader.buffer = <<>> <=> Len(reader.buffer) = 0)
         /\ parser.packet \in Seq(LineType) /\ DOMAIN parser.packet = 1..Len(parser.packet) /\ Len(parser.packet) \in Nat
         /\ delivered \in Seq(DeliveredType) /\ DOMAIN delivered = 1..Len(delivered) /\ Len(delivered) \in Nat
         /\ reader.bodyLen \in Nat /\ torn \in Nat /\ (~cut => torn = 0) /\ cut \in BOOLEAN
<1>1. reader.buffer \in Seq(LineType) /\ parser.packet \in Seq(LineType) /\ reader.bodyLen \in Nat
  BY DEF ReceiveTypes
<1> QED
  BY <1>1, EmptyIs DEF ReceiveTypes

\* A line belongs to a message that was written, and is not what a body is filled up with.
LEMMA LineIs ==
  ASSUME ReceiveTypes, NEW l, IsLine(sent, l)
  PROVE  l.msg \in DOMAIN sent /\ l.msg \in Nat /\ l.msg # 0 /\ l.msg <= Len(sent) /\ l # Zero /\ l \in LineType
<1>1. l.msg \in DOMAIN sent /\ l \in LineType
  BY DEF IsLine
<1>2. Zero.msg = 0
  BY DEF Zero, Line
<1> QED
  BY <1>1, <1>2, Shapes

\* What the device adds to the messages and to the lines.
LEMMA SendStep ==
  ASSUME NEW form \in Forms, NEW k \in Bodies(form), NEW len \in Given(form), DeviceSends([form |-> form, body |-> k, len |-> len]), ReceiveTypes
  PROVE  \E x \in SentType, v \in Seq(LineType) :
           /\ sent' = Append(sent, x) /\ unread' = unread \o v /\ ~cut /\ UNCHANGED <<cut, reader, parser, delivered, torn, eaten>>
           /\ v # <<>> /\ DOMAIN v = 1..Len(v) /\ Len(v) \in Nat /\ Len(v) >= 1
           /\ Chained(sent', v) /\ v[1] = FirstOf(sent', Len(sent) + 1) /\ Ends(sent', v[Len(v)])
           /\ \A i \in DOMAIN v : v[i].msg = Len(sent) + 1 /\ (v[i].kind = "start" => i = 1)
           /\ x.form = "full" => v[1] = Line(Len(sent) + 1, "start", 0)
           /\ sent'[Len(sent) + 1] = x
<1> DEFINE x == [form |-> form, body |-> k, len |-> len]
           m == Len(sent) + 1
           t == Append(sent, x)
           v == LinesOf(m, x)
<1>1. x \in SentType /\ (x.form \in {"none", "alive"} => x.body = 0)
  BY MessagesAre
<1>2. sent' = t /\ ~cut /\ unread' = unread \o v /\ UNCHANGED <<cut, reader, parser, delivered, torn, eaten>>
  BY DEF DeviceSends
<1> HIDE DEF x
<1>3. t \in Seq(SentType) /\ m \in DOMAIN t /\ t[m] = x
  BY <1>1, Grown, Shapes
<1> HIDE DEF t, m
<1>4. LET u == LinesOf(m, t[m]) IN
         /\ u \in Seq(LineType) /\ Len(u) \in Nat /\ Len(u) >= 1
         /\ Chained(t, u) /\ u[1] = FirstOf(t, m) /\ Ends(t, u[Len(u)])
         /\ \A i \in DOMAIN u : u[i].msg = m /\ (u[i].kind = "start" => i = 1)
         /\ t[m].form = "full" => u[1] = Line(m, "start", 0)
  BY <1>1, <1>3, MessageChained
<1>5. /\ v \in Seq(LineType) /\ Len(v) \in Nat /\ Len(v) >= 1
      /\ Chained(t, v) /\ v[1] = FirstOf(t, m) /\ Ends(t, v[Len(v)])
      /\ \A i \in DOMAIN v : v[i].msg = m /\ (v[i].kind = "start" => i = 1)
      /\ x.form = "full" => v[1] = Line(m, "start", 0)
  BY <1>3, <1>4
<1> HIDE DEF v
<1>6. v # <<>> /\ DOMAIN v = 1..Len(v)
  BY <1>5, EmptyIs
<1>7. /\ sent' = Append(sent, x) /\ unread' = unread \o v /\ ~cut /\ UNCHANGED <<cut, reader, parser, delivered, torn, eaten>>
      /\ v # <<>> /\ DOMAIN v = 1..Len(v) /\ Len(v) \in Nat /\ Len(v) >= 1
      /\ Chained(sent', v) /\ v[1] = FirstOf(sent', Len(sent) + 1) /\ Ends(sent', v[Len(v)])
      /\ \A i \in DOMAIN v : v[i].msg = Len(sent) + 1 /\ (v[i].kind = "start" => i = 1)
      /\ x.form = "full" => v[1] = Line(Len(sent) + 1, "start", 0)
      /\ sent'[Len(sent) + 1] = x
  BY <1>2, <1>3, <1>5, <1>6 DEF m, t
<1>8. x \in SentType /\ v \in Seq(LineType)
  BY <1>1, <1>5
<1> QED
  BY <1>7, <1>8, Zenon

\* The lines that were there stay where they are, and the new ones come after them.
LEMMA SendGrows ==
  ASSUME ReceiveTypes, NEW v \in Seq(LineType), unread' = unread \o v, v # <<>>
  PROVE  /\ Len(unread') = Len(unread) + Len(v) /\ DOMAIN unread' = 1..(Len(unread) + Len(v))
         /\ Len(v) \in Nat /\ Len(v) >= 1 /\ unread' # <<>> /\ unread' \in Seq(LineType)
         /\ \A i \in DOMAIN unread : unread'[i] = unread[i] /\ i \in DOMAIN unread'
         /\ \A i \in DOMAIN v : unread'[Len(unread) + i] = v[i] /\ Len(unread) + i \in DOMAIN unread'
         /\ \A i \in DOMAIN unread' : i \in DOMAIN unread \/ (i - Len(unread) \in DOMAIN v /\ Len(unread) + (i - Len(unread)) = i)
         /\ unread'[1] = IF unread = <<>> THEN v[1] ELSE unread[1]
<1>1. unread \in Seq(LineType) /\ DOMAIN unread = 1..Len(unread) /\ Len(unread) \in Nat /\ (unread = <<>> <=> Len(unread) = 0)
  BY Shapes
<1>2. DOMAIN v = 1..Len(v) /\ Len(v) \in Nat /\ Len(v) >= 1
  BY EmptyIs
<1>3. /\ unread' \in Seq(LineType) /\ Len(unread') = Len(unread) + Len(v)
      /\ \A i \in 1..(Len(unread) + Len(v)) : unread'[i] = IF i <= Len(unread) THEN unread[i] ELSE v[i - Len(unread)]
  BY <1>1, ConcatProperties
<1>4. DOMAIN unread' = 1..(Len(unread) + Len(v)) /\ unread' # <<>>
  BY <1>1, <1>2, <1>3, EmptyIs
<1>5. \A i \in DOMAIN unread : unread'[i] = unread[i] /\ i \in DOMAIN unread'
  BY <1>1, <1>2, <1>3, <1>4
<1>6. \A i \in DOMAIN v : Len(unread) + i \in DOMAIN unread' /\ ~(Len(unread) + i <= Len(unread)) /\ (Len(unread) + i) - Len(unread) = i
  BY <1>1, <1>2, <1>4
<1>7. \A i \in DOMAIN v : unread'[Len(unread) + i] = v[i]
  BY <1>3, <1>4, <1>6
<1>8. \A i \in DOMAIN unread' : i \in DOMAIN unread \/ (i - Len(unread) \in DOMAIN v /\ Len(unread) + (i - Len(unread)) = i)
  BY <1>1, <1>2, <1>4
<1>9. unread'[1] = IF unread = <<>> THEN v[1] ELSE unread[1]
  BY <1>1, <1>2, <1>5, <1>7
<1> QED
  BY <1>2, <1>3, <1>4, <1>5, <1>6, <1>7, <1>8, <1>9

\* A message that is written prolongs the row of lines.
LEMMA StreamSend ==
  ASSUME NEW form \in Forms, NEW k \in Bodies(form), NEW len \in Given(form), DeviceSends([form |-> form, body |-> k, len |-> len]), ReceiveTypes, StreamInv
  PROVE  StreamInv'
<1>1. PICK x \in SentType, v \in Seq(LineType) :
           /\ sent' = Append(sent, x) /\ unread' = unread \o v /\ ~cut /\ UNCHANGED <<cut, reader, parser, delivered, torn, eaten>>
           /\ v # <<>> /\ DOMAIN v = 1..Len(v) /\ Len(v) \in Nat /\ Len(v) >= 1
           /\ Chained(sent', v) /\ v[1] = FirstOf(sent', Len(sent) + 1) /\ Ends(sent', v[Len(v)])
           /\ \A i \in DOMAIN v : v[i].msg = Len(sent) + 1 /\ (v[i].kind = "start" => i = 1)
  BY SendStep
<1>2. /\ Len(unread') = Len(unread) + Len(v) /\ DOMAIN unread' = 1..(Len(unread) + Len(v))
      /\ unread' # <<>>
      /\ \A i \in DOMAIN unread : unread'[i] = unread[i] /\ i \in DOMAIN unread'
      /\ \A i \in DOMAIN v : unread'[Len(unread) + i] = v[i] /\ Len(unread) + i \in DOMAIN unread'
      /\ \A i \in DOMAIN unread' : i \in DOMAIN unread \/ (i - Len(unread) \in DOMAIN v /\ Len(unread) + (i - Len(unread)) = i)
      /\ unread'[1] = IF unread = <<>> THEN v[1] ELSE unread[1]
  BY <1>1, SendGrows
<1>3. torn = 0 /\ sent \in Seq(SentType) /\ Len(sent) \in Nat /\ unread \in Seq(LineType)
  BY <1>1, Shapes
<1>4. Len(sent') = Len(sent) + 1 /\ DOMAIN sent' = 1..Len(sent')
  BY <1>1, <1>3, Grown
<1>5. ASSUME NEW a, IsLine(sent, a), StopsAt(sent, a, cut, torn) PROVE Follows(sent', a, v[1])
  <2>1. a.msg = Len(sent) /\ Ends(sent, a)
    BY <1>1, <1>3, <1>5 DEF StopsAt, Complete
  <2>2. Ends(sent', a) /\ a.msg + 1 \in DOMAIN sent'
    BY <1>1, <1>3, <1>4, <1>5, <2>1, LinesStay
  <2> QED
    BY <1>1, <2>1, <2>2 DEF Follows
<1>6. \A a : IsLine(sent, a) => \A j \in DOMAIN v : a.msg <= v[j].msg
  BY <1>1, <1>3, LineIs
<1>7. Chained(sent', unread')
  <2>1. Chained(sent', unread)
    BY <1>1, <1>3, ChainStays DEF StreamInv
  <2>2. unread # <<>> => Follows(sent', unread[Len(unread)], v[1])
    <3> HAVE unread # <<>>
    <3>1. Len(unread) \in DOMAIN unread
      BY Shapes
    <3>2. IsLine(sent, unread[Len(unread)]) /\ StopsAt(sent, unread[Len(unread)], cut, torn)
      BY <3>1 DEF StreamInv, Chained
    <3> QED
      BY <3>2, <1>5
  <2>3. \A i \in DOMAIN unread, j \in DOMAIN v : unread[i].msg <= v[j].msg
    BY <1>6 DEF StreamInv, Chained
  <2> QED
    BY <1>1, <1>3, <2>1, <2>2, <2>3, ChainJoins
<1>8. StopsAt(sent', unread'[Len(unread')], cut', torn')
  <2>1. Len(v) \in DOMAIN v
    BY <1>1
  <2>2. unread'[Len(unread')] = v[Len(v)]
    BY <1>2, <2>1
  <2> QED
    BY <1>1, <1>3, <1>4, <2>1, <2>2 DEF StopsAt
<1>9. Holds => /\ IsLine(sent', Newest)
               /\ \A i \in DOMAIN unread' : Newest.msg <= unread'[i].msg
               /\ Follows(sent', Newest, unread'[1])
  <2> HAVE Holds
  <2>1. IsLine(sent, Newest)
    BY DEF StreamInv
  <2>2. IsLine(sent', Newest) /\ \A b : Follows(sent, Newest, b) => Follows(sent', Newest, b)
    BY <1>1, <1>3, <2>1, LinesStay
  <2>3. \A i \in DOMAIN unread' : Newest.msg <= unread'[i].msg
    <3> TAKE i \in DOMAIN unread'
    <3>1. CASE i \in DOMAIN unread
      BY <3>1, <1>2 DEF StreamInv
    <3>2. CASE i - Len(unread) \in DOMAIN v /\ Len(unread) + (i - Len(unread)) = i
      <4>1. unread'[i] = v[i - Len(unread)]
        BY <3>2, <1>2
      <4> QED
        BY <4>1, <3>2, <2>1, <1>6
    <3> QED
      BY <3>1, <3>2, <1>2
  <2>4. Follows(sent', Newest, unread'[1])
    <3>1. CASE unread = <<>>
      BY <3>1, <2>1, <1>2, <1>5 DEF StreamInv
    <3>2. CASE unread # <<>>
      BY <3>2, <2>2, <1>2 DEF StreamInv
    <3> QED
      BY <3>1, <3>2
  <2> QED
    BY <2>2, <2>3, <2>4
<1>10. ~(~Holds /\ reader.buffer # <<>>)
  BY <1>1 DEF StreamInv
<1>11. (Holds' <=> Holds) /\ Newest' = Newest /\ reader' = reader
  BY <1>1 DEF Holds, Newest
<1> QED
  BY <1>2, <1>7, <1>8, <1>9, <1>10, <1>11 DEF StreamInv

\* Where a line is followed by one of another message, its own message is over.
LEMMA Changes ==
  ASSUME NEW s, NEW a, NEW b, Follows(s, a, b), a.msg # b.msg
  PROVE  Ends(s, a)
<1> SUFFICES ASSUME ~Ends(s, a) PROVE FALSE
  OBVIOUS
<1>1. b = NextOf(s, a)
  BY DEF Follows
<1> QED
  BY <1>1 DEF NextOf, Line

\* A row that is cut ends in the message that lost lines, or after a whole one.
LEMMA StreamCut ==
  ASSUME Cut, ReceiveTypes, StreamInv
  PROVE  StreamInv'
<1>1. PICK k \in Nat :
           /\ k <= Len(unread) /\ unread' \in Seq(LineType) /\ Len(unread') = k /\ DOMAIN unread' = 1..k
           /\ \A i \in 1..k : i \in DOMAIN unread /\ unread'[i] = unread[i]
           /\ k = Len(unread) => torn' = 0
           /\ k # Len(unread) => k + 1 \in DOMAIN unread /\ torn' = unread[k + 1].msg
  BY CutIs
<1>2. ~cut /\ cut' = TRUE /\ UNCHANGED <<sent, reader, parser, delivered, eaten>> /\ torn = 0
  BY Shapes DEF Cut
<1>3. unread \in Seq(LineType) /\ DOMAIN unread = 1..Len(unread) /\ Len(unread) \in Nat
  BY Shapes
<1>4. Chained(sent, unread) /\ (unread # <<>> => StopsAt(sent, unread[Len(unread)], cut, torn))
  BY DEF StreamInv
<1>5. Chained(sent', unread')
  <2> DEFINE v == unread'
  <2>1. 0 \in Nat /\ 0 + k <= Len(unread) /\ v \in Seq(LineType) /\ Len(v) = k /\ \A i \in 1..k : v[i] = unread[i + 0]
    BY <1>1
  <2> HIDE DEF v
  <2>2. Chained(sent, v)
    BY <2>1, <1>3, <1>4, ChainPart
  <2> QED
    BY <2>2, <1>2 DEF v
<1>6. ASSUME NEW a, IsLine(sent, a), \A i \in DOMAIN unread : i = k + 1 => Follows(sent, a, unread[k + 1]) /\ a.msg <= unread[k + 1].msg,
             k = Len(unread) => StopsAt(sent, a, cut, torn)
      PROVE  StopsAt(sent', a, cut', torn')
  <2>1. CASE k = Len(unread)
    BY <1>1, <1>2, <1>6, <2>1 DEF StopsAt, Complete
  <2>2. CASE k # Len(unread)
    <3>1. k + 1 \in DOMAIN unread /\ torn' = unread[k + 1].msg
      BY <2>2, <1>1
    <3>2. Follows(sent, a, unread[k + 1]) /\ a.msg <= torn' /\ IsLine(sent, unread[k + 1])
      BY <3>1, <1>4, <1>6 DEF Chained
    <3>3. torn' # 0
      BY <3>1, <3>2, LineIs
    <3>4. Complete(a.msg, torn') => Ends(sent, a)
      <4>1. a.msg \in Nat /\ torn' \in Nat
        BY <1>6, <3>1, <3>2, LineIs
      <4> QED
        BY <4>1, <3>1, <3>2, <3>3, Changes DEF Complete
    <3> QED
      BY <1>2, <3>2, <3>4 DEF StopsAt
  <2> QED
    BY <2>1, <2>2
<1>7. unread' # <<>> => StopsAt(sent', unread'[Len(unread')], cut', torn')
  <2> HAVE unread' # <<>>
  <2>1. k # 0 /\ k \in DOMAIN unread /\ unread'[k] = unread[k]
    BY <1>1, EmptyIs
  <2>2. IsLine(sent, unread[k]) /\ \A i \in DOMAIN unread : i = k + 1 => Follows(sent, unread[k], unread[k + 1]) /\ unread[k].msg <= unread[k + 1].msg
    <3>1. IsLine(sent, unread[k])
      BY <2>1, <1>4 DEF Chained
    <3>2. k + 1 \in DOMAIN unread => Follows(sent, unread[k], unread[k + 1]) /\ unread[k].msg <= unread[k + 1].msg
      <4>1. k < k + 1
        OBVIOUS
      <4> QED
        BY <2>1, <4>1, <1>4 DEF Chained
    <3> QED
      BY <3>1, <3>2
  <2>3. k = Len(unread) => StopsAt(sent, unread[k], cut, torn)
    BY <1>3, <1>4, <2>1, EmptyIs
  <2> QED
    BY <1>1, <1>6, <2>1, <2>2, <2>3
<1>8. Holds => /\ IsLine(sent', Newest)
               /\ \A i \in DOMAIN unread' : Newest.msg <= unread'[i].msg
               /\ IF unread' = <<>> THEN StopsAt(sent', Newest, cut', torn') ELSE Follows(sent', Newest, unread'[1])
  <2> HAVE Holds
  <2>1. /\ IsLine(sent, Newest) /\ \A i \in DOMAIN unread : Newest.msg <= unread[i].msg
        /\ IF unread = <<>> THEN StopsAt(sent, Newest, cut, torn) ELSE Follows(sent, Newest, unread[1])
    BY DEF StreamInv
  <2>2. \A i \in DOMAIN unread' : Newest.msg <= unread'[i].msg
    BY <2>1, <1>1
  <2>3. CASE unread' = <<>>
    <3>1. k = 0
      BY <2>3, <1>1, EmptyIs
    <3>2. k = Len(unread) => unread = <<>>
      BY <3>1, <1>3, EmptyIs
    <3>3. \A i \in DOMAIN unread : i = k + 1 => unread # <<>> /\ i = 1
      BY <3>1, EmptyIs
    <3>4. StopsAt(sent', Newest, cut', torn')
      BY <1>6, <2>1, <3>1, <3>2, <3>3
    <3> QED
      BY <1>2, <2>1, <2>2, <2>3, <3>4
  <2>4. CASE unread' # <<>>
    <3>1. 1 \in 1..k /\ unread # <<>>
      <4>1. k # 0
        BY <2>4, <1>1, EmptyIs
      <4>2. 1 \in 1..k
        BY <4>1
      <4>3. 1 \in DOMAIN unread
        BY <4>2, <1>1
      <4> QED
        BY <4>2, <4>3, EmptyIs
    <3>2. unread'[1] = unread[1]
      BY <3>1, <1>1
    <3> QED
      BY <1>2, <2>1, <2>2, <2>4, <3>1, <3>2
  <2> QED
    BY <2>3, <2>4
<1>9. ~(~Holds /\ reader.buffer # <<>>)
  BY <1>2 DEF StreamInv
<1>10. (Holds' <=> Holds) /\ Newest' = Newest /\ reader' = reader
  BY <1>2 DEF Holds, Newest
<1> QED
  BY <1>5, <1>7, <1>8, <1>9, <1>10 DEF StreamInv

-----------------------------------------------------------------------------
(* The lines are read in their order. *)

\* A row made of two.
LEMMA JoinIs ==
  ASSUME NEW u \in Seq(LineType), NEW v \in Seq(LineType), NEW w, w = u \o v
  PROVE  /\ w \in Seq(LineType) /\ Len(w) = Len(u) + Len(v) /\ DOMAIN w = 1..(Len(u) + Len(v))
         /\ \A i \in 1..(Len(u) + Len(v)) : w[i] = IF i <= Len(u) THEN u[i] ELSE v[i - Len(u)]
BY ConcatProperties, EmptyIs

\* A row and one line more.
LEMMA AddIs ==
  ASSUME NEW u \in Seq(LineType), NEW a \in LineType, NEW w, w = Append(u, a)
  PROVE  /\ w \in Seq(LineType) /\ Len(w) = Len(u) + 1 /\ DOMAIN w = 1..(Len(u) + 1) /\ w # <<>> /\ Len(u) \in Nat
         /\ \A i \in DOMAIN u : w[i] = u[i]
         /\ w[Len(u) + 1] = a
<1>1. /\ w \in Seq(LineType) /\ Len(w) = Len(u) + 1 /\ Len(u) \in Nat /\ DOMAIN u = 1..Len(u)
      /\ \A i \in 1..Len(u) : w[i] = u[i]
      /\ w[Len(u) + 1] = a
  BY AppendProperties, EmptyIs
<1> QED
  BY <1>1, EmptyIs

\* What is read: the first unread line goes to the end of the buffer.
LEMMA LineRead ==
  ASSUME ReadLine, ReceiveTypes, StreamInv
  PROVE  LET line == unread[1] IN
         /\ reader.pc = "line" /\ unread # <<>> /\ unread' = Tail(unread) /\ UNCHANGED <<sent, cut, parser, delivered, torn, eaten>>
         /\ 1 \in DOMAIN unread /\ IsLine(sent, line)
         /\ reader'.buffer = Append(reader.buffer, line) /\ reader'.pc = NextPc(line)
         /\ reader'.bodyLen = (CASE line.kind = "full" -> line.n [] line.kind = "bad" -> 0 [] OTHER -> reader.bodyLen)
         /\ Len(reader'.buffer) = Len(reader.buffer) + 1 /\ reader'.buffer # <<>> /\ Newest' = line /\ Holds'
         /\ \A i \in DOMAIN reader.buffer : reader'.buffer[i] = reader.buffer[i]
         /\ DOMAIN reader'.buffer = 1..(Len(reader.buffer) + 1) /\ reader'.buffer[Len(reader.buffer) + 1] = line
<1>1. /\ reader.pc = "line" /\ unread # <<>> /\ unread' = Tail(unread) /\ UNCHANGED <<sent, cut, parser, delivered, torn, eaten>>
      /\ LET line == Head(unread)
         IN reader' = [pc |-> NextPc(line), buffer |-> Append(reader.buffer, line),
                   bodyLen |-> CASE line.kind = "full" -> line.n
                                 [] line.kind = "bad" -> 0
                                 [] OTHER -> reader.bodyLen]
  BY DEF ReadLine
<1>2. Head(unread) = unread[1] /\ 1 \in DOMAIN unread
  BY <1>1, Shapes, TailChained DEF StreamInv
<1> DEFINE line == unread[1]
<1>3. IsLine(sent, line)
  BY <1>2 DEF StreamInv, Chained
<1>4. line \in LineType /\ line # Zero
  BY <1>3, LineIs
<1>5. reader'.buffer = Append(reader.buffer, line) /\ reader'.pc = NextPc(line)
      /\ reader'.bodyLen = (CASE line.kind = "full" -> line.n [] line.kind = "bad" -> 0 [] OTHER -> reader.bodyLen)
  BY <1>1, <1>2
<1> HIDE DEF line
<1>7. /\ Len(reader'.buffer) = Len(reader.buffer) + 1 /\ reader'.buffer # <<>>
      /\ \A i \in DOMAIN reader.buffer : reader'.buffer[i] = reader.buffer[i]
      /\ DOMAIN reader'.buffer = 1..(Len(reader.buffer) + 1) /\ reader'.buffer[Len(reader.buffer) + 1] = line
  <2>1. reader.buffer \in Seq(LineType)
    BY Shapes
  <2> QED
    BY <2>1, <1>4, <1>5, AddIs
<1>8. Newest' = line /\ Holds'
  BY <1>4, <1>7 DEF Newest, Holds
<1> QED
  BY <1>1, <1>2, <1>3, <1>5, <1>7, <1>8 DEF line

\* The line that is read becomes the newest.
LEMMA StreamReadLine ==
  ASSUME ReadLine, ReceiveTypes, StreamInv
  PROVE  StreamInv'
<1>1. LET line == unread[1] IN
      /\ unread # <<>> /\ unread' = Tail(unread) /\ UNCHANGED <<sent, cut, parser, delivered, torn, eaten>>
      /\ 1 \in DOMAIN unread /\ IsLine(sent, line) /\ Newest' = line /\ Holds'
  BY LineRead
<1>2. Chained(sent, unread) /\ StopsAt(sent, unread[Len(unread)], cut, torn)
  BY <1>1 DEF StreamInv
<1>3. unread \in Seq(LineType) /\ DOMAIN unread = 1..Len(unread) /\ Len(unread) \in Nat
  BY Shapes
<1>4. /\ Chained(sent, unread') /\ unread' \in Seq(LineType) /\ Len(unread') = Len(unread) - 1
      /\ DOMAIN unread' = 1..(Len(unread) - 1) /\ \A i \in 1..(Len(unread) - 1) : unread'[i] = unread[i + 1]
  BY <1>1, <1>2, <1>3, TailChained
<1>5. unread' # <<>> => StopsAt(sent, unread'[Len(unread')], cut, torn)
  <2> HAVE unread' # <<>>
  <2>1. Len(unread) - 1 # 0
    BY <1>4, EmptyIs
  <2>2. Len(unread) - 1 \in 1..(Len(unread) - 1) /\ (Len(unread) - 1) + 1 = Len(unread)
    BY <1>1, <1>3, <2>1
  <2> QED
    BY <1>2, <1>4, <2>2
<1>6. \A i \in DOMAIN unread' : unread[1].msg <= unread'[i].msg
  <2> TAKE i \in DOMAIN unread'
  <2>1. i + 1 \in DOMAIN unread /\ 1 < i + 1 /\ unread'[i] = unread[i + 1]
    BY <1>3, <1>4
  <2> QED
    BY <1>1, <1>2, <2>1 DEF Chained
<1>7. IF unread' = <<>> THEN StopsAt(sent, unread[1], cut, torn) ELSE Follows(sent, unread[1], unread'[1])
  <2>1. CASE unread' = <<>>
    <3>1. Len(unread) - 1 = 0
      BY <2>1, <1>4, EmptyIs
    <3>2. Len(unread) = 1
      BY <3>1, <1>3
    <3> QED
      BY <2>1, <3>2, <1>2
  <2>2. CASE unread' # <<>>
    <3>1. Len(unread) - 1 # 0
      BY <2>2, <1>4, EmptyIs
    <3>2. 1 + 1 \in DOMAIN unread /\ 1 \in 1..(Len(unread) - 1)
      BY <3>1, <1>1, <1>3
    <3>3. Follows(sent, unread[1], unread[1 + 1]) /\ unread'[1] = unread[1 + 1]
      BY <3>2, <1>1, <1>2, <1>4 DEF Chained
    <3> QED
      BY <2>2, <3>3
  <2> QED
    BY <2>1, <2>2
<1> QED
  BY <1>1, <1>4, <1>5, <1>6, <1>7 DEF StreamInv

\* What ReadFull leaves: the lines go to the end of the buffer.
LEMMA BodyTaken ==
  ASSUME ReadBody, ReceiveTypes, BodyInv
  PROVE  LET n == reader.bodyLen IN
         /\ reader.pc = "body" /\ reader'.pc = "packet" /\ reader'.buffer = reader.buffer \o BodyRead
         /\ UNCHANGED <<sent, cut, parser, delivered, torn>> /\ (n <= Len(unread) \/ cut)
         /\ n \in Nat /\ n >= 1 /\ reader'.buffer # <<>> /\ unread' \in Seq(LineType)
         /\ Newest' = IF n <= Len(unread) THEN unread[n] ELSE Zero
         /\ IF n <= Len(unread)
              THEN /\ Len(unread') = Len(unread) - n /\ DOMAIN unread' = 1..(Len(unread) - n)
                   /\ \A i \in 1..(Len(unread) - n) : unread'[i] = unread[i + n]
              ELSE unread' = <<>>
         /\ \A i \in DOMAIN reader.buffer : reader'.buffer[i] = reader.buffer[i]
         /\ DOMAIN reader'.buffer = 1..(Len(reader.buffer) + n)
         /\ \A i \in 1..n : reader'.buffer[Len(reader.buffer) + i] = BodyRead[i]
<1> DEFINE n == reader.bodyLen
<1>1. reader.pc = "body" /\ reader' = [reader EXCEPT !.pc = "packet", !.buffer = @ \o BodyRead]
        /\ unread' = SubSeq(unread, n + 1, Len(unread)) /\ UNCHANGED <<sent, cut, parser, delivered, torn>>
        /\ (Len(unread) >= n \/ cut)
  BY DEF ReadBody, BodyRead
<1>2. reader'.pc = "packet" /\ reader'.buffer = reader.buffer \o BodyRead
  BY <1>1 DEF ReceiveTypes
<1>3. n \in Nat /\ n # 0 /\ reader.buffer # <<>>
  BY <1>1, Shapes DEF BodyInv, ReceiveTypes
<1>4. /\ BodyRead \in Seq(LineType) /\ Len(BodyRead) = n /\ DOMAIN BodyRead = 1..n
      /\ \A i \in 1..n : BodyRead[i] = IF i <= Len(unread) THEN unread[i] ELSE Zero
  BY BodyReadIs
<1>5. /\ unread' \in Seq(LineType)
      /\ IF n <= Len(unread)
              THEN /\ Len(unread') = Len(unread) - n /\ DOMAIN unread' = 1..(Len(unread) - n)
                   /\ \A i \in 1..(Len(unread) - n) : unread'[i] = unread[i + n]
              ELSE unread' = <<>>
  BY <1>1, UnreadAfterBody
<1>6. reader.buffer \in Seq(LineType) /\ Len(reader.buffer) \in Nat /\ DOMAIN reader.buffer = 1..Len(reader.buffer) /\ Len(unread) \in Nat
  BY Shapes
<1> HIDE DEF n
<1>7. /\ reader'.buffer \in Seq(LineType) /\ Len(reader'.buffer) = Len(reader.buffer) + n
      /\ \A i \in 1..(Len(reader.buffer) + n) :
           reader'.buffer[i] = IF i <= Len(reader.buffer) THEN reader.buffer[i] ELSE BodyRead[i - Len(reader.buffer)]
  <2> DEFINE u == reader.buffer
             v == BodyRead
             w == reader'.buffer
  <2>1. u \in Seq(LineType) /\ v \in Seq(LineType) /\ Len(v) = n
    BY <1>4, <1>6
  <2>2. w = u \o v
    BY <1>2
  <2> HIDE DEF u, v, w
  <2>3. /\ w \in Seq(LineType) /\ Len(w) = Len(u) + Len(v) /\ DOMAIN w = 1..(Len(u) + Len(v))
        /\ \A i \in 1..(Len(u) + Len(v)) : w[i] = IF i <= Len(u) THEN u[i] ELSE v[i - Len(u)]
    <3>1. /\ u \in Seq(LineType) /\ v \in Seq(LineType)
      BY <2>1
    <3> QED
      BY ONLY <2>2, <3>1, JoinIs
  <2>4. /\ w \in Seq(LineType) /\ Len(w) = Len(u) + n
        /\ \A i \in 1..(Len(u) + n) : w[i] = IF i <= Len(u) THEN u[i] ELSE v[i - Len(u)]
    BY <2>1, <2>3
  <2> QED
    BY <2>4 DEF u, v, w
<1>8. DOMAIN reader'.buffer = 1..(Len(reader.buffer) + n) /\ reader'.buffer # <<>>
  BY <1>3, <1>6, <1>7, EmptyIs
<1>9. \A i \in 1..n : reader'.buffer[Len(reader.buffer) + i] = BodyRead[i]
  <2> TAKE i \in 1..n
  <2>1. Len(reader.buffer) + i \in 1..(Len(reader.buffer) + n) /\ ~(Len(reader.buffer) + i <= Len(reader.buffer))
        /\ (Len(reader.buffer) + i) - Len(reader.buffer) = i
    BY <1>3, <1>6
  <2> QED
    BY <1>7, <2>1
<1>10. \A i \in DOMAIN reader.buffer : reader'.buffer[i] = reader.buffer[i]
  BY <1>3, <1>6, <1>7
<1>11. Newest' = IF n <= Len(unread) THEN unread[n] ELSE Zero
  <2>1. n \in 1..n
    BY <1>3
  <2> QED
    BY <2>1, <1>4, <1>7, <1>9 DEF Newest
<1>12. n >= 1 /\ (n <= Len(unread) \/ cut)
  BY <1>1, <1>3, <1>6
<1> QED
  BY <1>1, <1>2, <1>3, <1>5, <1>8, <1>9, <1>10, <1>11, <1>12 DEF n

\* So does the last line of a body, if it came.
LEMMA StreamReadBody ==
  ASSUME ReadBody, ReceiveTypes, BodyInv, StreamInv
  PROVE  StreamInv'
<1> DEFINE n == reader.bodyLen
<1>1. /\ reader'.pc = "packet"
      /\ UNCHANGED <<sent, cut, parser, delivered, torn>> /\ (n <= Len(unread) \/ cut)
      /\ n \in Nat /\ n >= 1 /\ reader'.buffer # <<>> /\ unread' \in Seq(LineType)
      /\ Newest' = IF n <= Len(unread) THEN unread[n] ELSE Zero
      /\ IF n <= Len(unread)
           THEN /\ Len(unread') = Len(unread) - n /\ DOMAIN unread' = 1..(Len(unread) - n)
                /\ \A i \in 1..(Len(unread) - n) : unread'[i] = unread[i + n]
           ELSE unread' = <<>>
  BY BodyTaken
<1>2. unread \in Seq(LineType) /\ DOMAIN unread = 1..Len(unread) /\ Len(unread) \in Nat
  BY Shapes
<1> HIDE DEF n
<1>3. Chained(sent, unread) /\ (unread # <<>> => StopsAt(sent, unread[Len(unread)], cut, torn))
  BY DEF StreamInv
<1>4. CASE ~(n <= Len(unread))
  <2>1. ~Holds' /\ unread' = <<>> /\ cut' /\ reader'.pc = "packet"
    BY <1>1, <1>4 DEF Holds
  <2>2. Chained(sent', unread')
    BY <2>1, EmptyIs DEF Chained
  <2> QED
    BY <2>1, <2>2 DEF StreamInv
<1>5. CASE n <= Len(unread)
  <2>0. n \in DOMAIN unread /\ Newest' = unread[n]
    BY <1>1, <1>2, <1>5
  <2>1. IsLine(sent, unread[n])
    BY <2>0, <1>3 DEF Chained
  <2>2. Holds'
    BY <1>1, <2>0, <2>1, LineIs DEF Holds
  <2>3. Chained(sent, unread')
    <3> DEFINE v == unread'
               k == Len(unread) - n
    <3>1. k \in Nat /\ n + k <= Len(unread) /\ v \in Seq(LineType) /\ Len(v) = k /\ \A i \in 1..k : v[i] = unread[i + n]
      BY <1>1, <1>2, <1>5
    <3> HIDE DEF v, k
    <3>2. Chained(sent, v)
      BY <3>1, <1>1, <1>2, <1>3, ChainPart
    <3> QED
      BY <3>2 DEF v
  <2>4. unread' # <<>> => StopsAt(sent, unread'[Len(unread')], cut, torn)
    <3> HAVE unread' # <<>>
    <3>1. Len(unread) - n # 0
      BY <1>1, <1>5, EmptyIs
    <3>2. Len(unread) - n \in 1..(Len(unread) - n) /\ (Len(unread) - n) + n = Len(unread) /\ Len(unread) # 0
      BY <1>1, <1>2, <1>5, <3>1
    <3>3. unread # <<>>
      BY <3>2, EmptyIs
    <3> QED
      BY <1>1, <1>3, <1>5, <3>2, <3>3
  <2>5. \A i \in DOMAIN unread' : unread[n].msg <= unread'[i].msg
    <3> TAKE i \in DOMAIN unread'
    <3>1. i + n \in DOMAIN unread /\ n < i + n /\ unread'[i] = unread[i + n]
      BY <1>1, <1>2, <1>5
    <3> QED
      BY <1>3, <2>0, <3>1 DEF Chained
  <2>6. IF unread' = <<>> THEN StopsAt(sent, unread[n], cut, torn) ELSE Follows(sent, unread[n], unread'[1])
    <3>1. CASE unread' = <<>>
      <4>1. Len(unread) - n = 0
        BY <3>1, <1>1, <1>5, EmptyIs
      <4>2. Len(unread) = n /\ unread # <<>>
        BY <4>1, <1>1, <1>2, EmptyIs
      <4> QED
        BY <3>1, <4>2, <1>3
    <3>2. CASE unread' # <<>>
      <4>1. Len(unread) - n # 0
        BY <3>2, <1>1, <1>5, EmptyIs
      <4>2. n + 1 \in DOMAIN unread /\ 1 \in 1..(Len(unread) - n) /\ 1 + n = n + 1
        BY <4>1, <1>1, <1>2, <1>5
      <4>3. Follows(sent, unread[n], unread[n + 1])
        BY <4>2, <2>0, <1>3 DEF Chained
      <4>4. unread'[1] = unread[n + 1]
        BY <4>2, <1>1, <1>5
      <4> QED
        BY <3>2, <4>3, <4>4
    <3> QED
      BY <3>1, <3>2
  <2> QED
    BY <1>1, <2>0, <2>1, <2>2, <2>3, <2>4, <2>5, <2>6 DEF StreamInv
<1> QED
  BY <1>4, <1>5

\* Every step keeps the row of lines chained.
LEMMA StreamStep == ReceiveInv /\ [ReceiveNext]_receiveVars => StreamInv'
<1> SUFFICES ASSUME ReceiveInv, [ReceiveNext]_receiveVars PROVE StreamInv'
  OBVIOUS
<1>0. ReceiveTypes /\ StreamInv /\ BodyInv
  BY DEF ReceiveInv
<1>1. ASSUME NEW form \in Forms, NEW k \in Bodies(form), NEW len \in Given(form), DeviceSends([form |-> form, body |-> k, len |-> len]) PROVE StreamInv'
  BY <1>0, <1>1, StreamSend
<1>2. CASE Cut
  BY <1>0, <1>2, StreamCut
<1>3. CASE ReadLine
  BY <1>0, <1>3, StreamReadLine
<1>4. CASE ReadBody
  BY <1>0, <1>4, StreamReadBody
<1>5. CASE HandOver
  <2>1. UNCHANGED <<sent, unread, cut, torn>> /\ reader'.buffer = <<>>
    BY <1>5 DEF HandOver, NextBuffer
  <2> QED
    BY <1>0, <2>1 DEF StreamInv, Holds
<1>6. CASE ReaderEnds
  <2>1. UNCHANGED <<sent, unread, cut, torn>> /\ reader'.buffer = <<>>
    BY <1>0, <1>6 DEF ReaderEnds, ReceiveTypes
  <2> QED
    BY <1>0, <2>1 DEF StreamInv, Holds
<1>7. CASE ParsePacket \/ UNCHANGED receiveVars
  <2>1. UNCHANGED <<sent, unread, cut, torn, reader>>
    BY <1>7 DEF ParsePacket, receiveVars
  <2> QED
    BY <1>0, <2>1 DEF StreamInv, Holds, Newest
<1> QED
  BY <1>1, <1>2, <1>3, <1>4, <1>5, <1>6, <1>7 DEF ReceiveNext

-----------------------------------------------------------------------------
(* What the reader knows of the next line. *)

\* A start, a header or a body line of a message, by its kind.
LEMMA ByKind ==
  ASSUME ReceiveTypes, NEW l, IsLine(sent, l)
  PROVE  /\ l.kind = "start" => l = Line(l.msg, "start", 0) /\ sent[l.msg].form # "alive"
         /\ l.kind = "blank" => l = Line(l.msg, "blank", 0) /\ l.n = 0
         /\ l.kind = "body" => l = Line(l.msg, "body", l.n) /\ l.n \in 1..sent[l.msg].body
         /\ l.kind \in {"full", "other", "bad"} => /\ l = Line(l.msg, sent[l.msg].form, sent[l.msg].len) /\ Headed(sent, l.msg)
                                                   /\ l.kind = sent[l.msg].form /\ l.n = sent[l.msg].len
         /\ l.kind \in Kinds /\ sent[l.msg] \in SentType /\ sent[l.msg].form \in Forms /\ sent[l.msg].body \in Nat
         /\ sent[l.msg].form \in {"none", "alive"} => sent[l.msg].body = 0
<1>1. l.msg \in DOMAIN sent /\ l.kind \in Kinds
  BY DEF IsLine, LineType
<1>2. sent[l.msg] \in SentType /\ (sent[l.msg].form \in {"none", "alive"} => sent[l.msg].body = 0)
  BY <1>1, ElementOfSeq DEF ReceiveTypes
<1>3. sent[l.msg].form \in Forms /\ sent[l.msg].body \in Nat
  BY <1>2 DEF SentType
<1>4. CASE l = Line(l.msg, "start", 0) /\ sent[l.msg].form # "alive"
  BY <1>1, <1>2, <1>3, <1>4 DEF Line
<1>5. CASE l = Line(l.msg, sent[l.msg].form, sent[l.msg].len) /\ Headed(sent, l.msg)
  BY <1>1, <1>2, <1>3, <1>5 DEF Line, Headed, Forms
<1>6. CASE l = Line(l.msg, "blank", 0)
  BY <1>1, <1>2, <1>3, <1>6 DEF Line
<1>7. CASE l = Line(l.msg, "body", l.n) /\ l.n \in 1..sent[l.msg].body
  BY <1>1, <1>2, <1>3, <1>7 DEF Line
<1> QED
  BY <1>4, <1>5, <1>6, <1>7 DEF IsLine

\* What the line before says of a line.
LEMMA AfterKind ==
  ASSUME ReceiveTypes, NEW a, NEW b, IsLine(sent, a), IsLine(sent, b), Follows(sent, a, b)
  PROVE  /\ a.kind = "start" => b.msg = a.msg /\ b = IF Headed(sent, a.msg) THEN Line(a.msg, sent[a.msg].form, sent[a.msg].len)
                                                                          ELSE Line(a.msg, "blank", 0)
         /\ a.kind \in {"full", "other", "bad"} => b = Line(a.msg, "blank", 0)
         /\ b.kind = "body" => a.kind \in {"blank", "body"} /\ a.msg = b.msg
         /\ b.kind = "blank" /\ sent[b.msg].form = "full" => a.kind = "full" /\ a.msg = b.msg
         /\ Ends(sent, a) => (\A e : Aligned(sent, e, b)) /\ b.kind \in {"start", "blank"} /\ b.msg = a.msg + 1
         /\ b.kind = "start" => Ends(sent, a)
<1>1. a.kind \in Kinds /\ sent[a.msg].form \in Forms
  BY ByKind
<1>2. CASE Ends(sent, a)
  <2>1. b = FirstOf(sent, a.msg + 1)
    BY <1>2 DEF Follows
  <2>2. a.kind \in {"blank", "body"}
    BY <1>2 DEF Ends
  <2>3. b.msg = a.msg + 1
    BY <2>1 DEF FirstOf, Line
  <2>4. b.kind \in {"start", "blank"} /\ (b.kind = "blank" => sent[b.msg].form = "alive")
    BY <2>1, <2>3 DEF FirstOf, Line
  <2> QED
    BY <1>2, <2>2, <2>3, <2>4 DEF Aligned, Intact, Measured
<1>3. CASE ~Ends(sent, a)
  <2>1. b = NextOf(sent, a)
    BY <1>3 DEF Follows
  <2>2. CASE a.kind = "start"
    <3>1. b = IF Headed(sent, a.msg) THEN Line(a.msg, sent[a.msg].form, sent[a.msg].len) ELSE Line(a.msg, "blank", 0)
      BY <2>1, <2>2 DEF NextOf
    <3>2. b.msg = a.msg
      BY <3>1 DEF Line
    <3>3. b.kind \in {"full", "other", "bad", "blank"} /\ (b.kind = "blank" => sent[a.msg].form # "full")
      BY <3>1, <1>1 DEF Line, Headed, Forms
    <3> QED
      BY <1>3, <2>2, <3>1, <3>2, <3>3
  <2>3. CASE a.kind \in {"blank", "body"}
    <3>1. b.kind = "body" /\ b.msg = a.msg
      BY <2>1, <2>3 DEF NextOf, Line
    <3> QED
      BY <1>3, <2>3, <3>1
  <2>4. CASE a.kind \in {"full", "other", "bad"}
    <3>1. b = Line(a.msg, "blank", 0)
      BY <2>1, <2>4 DEF NextOf
    <3>2. b.msg = a.msg /\ b.kind = "blank"
      BY <3>1 DEF Line
    <3>3. a.kind = sent[a.msg].form
      BY <2>4, ByKind
    <3> QED
      BY <1>3, <2>4, <3>1, <3>2, <3>3
  <2> QED
    BY <1>1, <2>2, <2>3, <2>4 DEF Kinds
<1> QED
  BY <1>2, <1>3

\* The head of a message: its start, and the header of its length if it has one.
LEMMA HeadIs ==
  ASSUME ReceiveTypes, NEW m \in DOMAIN sent
  PROVE  LET h == HeadOf(sent, m) IN
         /\ h \in Seq(LineType) /\ Len(h) = (IF Headed(sent, m) THEN 2 ELSE 1) /\ h[1] = Line(m, "start", 0)
         /\ h[Len(h)] = IF Headed(sent, m) THEN Line(m, sent[m].form, sent[m].len) ELSE Line(m, "start", 0)
         /\ h # <<>> /\ sent[m].form \in Forms /\ sent[m].body \in Nat /\ m \in Nat
<1>1. sent[m] \in SentType /\ m \in Nat
  BY ElementOfSeq, Shapes DEF ReceiveTypes
<1>2. sent[m].form \in Forms /\ sent[m].body \in Nat /\ sent[m].len \in Nat
  BY <1>1 DEF SentType
<1>3. Line(m, "start", 0) \in LineType /\ (Headed(sent, m) => Line(m, sent[m].form, sent[m].len) \in LineType)
  BY <1>1, <1>2 DEF Line, LineType, Kinds, Forms, Headed
<1> QED
  BY <1>1, <1>2, <1>3 DEF HeadOf

\* What the reader has while it reads lines, and what comes next.
LEMMA NextLine ==
  ASSUME ReceiveTypes, StreamInv, KnownInv, LineInv, PacketInv, reader.pc = "line", unread # <<>>
  PROVE  LET line == unread[1]
             m == reader.buffer[1].msg IN
         /\ line.kind # "blank" => reader.bodyLen = 0
         /\ reader.bodyLen # 0 => Holds /\ line.kind = "blank" /\ sent[line.msg].form = "full" /\ reader.bodyLen = sent[line.msg].len
         /\ line.kind = "blank" /\ Intact(sent, eaten, line.msg) => reader.bodyLen = sent[line.msg].body
         /\ line.kind = "body" => ~Intact(sent, eaten, line.msg)
         /\ Starts(reader.buffer) /\ Exact(sent[m]) =>
              \/ reader.buffer = <<Line(m, "start", 0)>> /\ sent[m].form = "full" /\ line = Line(m, "full", sent[m].len)
              \/ reader.buffer = HeadOf(sent, m) /\ line = Line(m, "blank", 0)
                 /\ (sent[m].form = "full" => reader.bodyLen = sent[m].len) /\ (sent[m].form = "none" => reader.bodyLen = 0)
         /\ Starts(reader.buffer) => m \in DOMAIN sent
<1> DEFINE line == unread[1]
           m == reader.buffer[1].msg
<1>1. 1 \in DOMAIN unread
  BY Shapes
<1>2. IsLine(sent, line)
  BY <1>1 DEF StreamInv, Chained
<1>3. Holds => IsLine(sent, Newest) /\ Follows(sent, Newest, line)
  BY DEF StreamInv
<1>4. ~Holds => reader.buffer = <<>>
  BY DEF StreamInv
<1>5. ~Holds => Aligned(sent, eaten, line)
  BY <1>1, <1>4 DEF PacketInv
<1>6. /\ reader.bodyLen = IF Holds /\ Newest.kind = "full" THEN Newest.n ELSE 0
      /\ Holds => /\ Newest.kind \notin {"blank", "bad"}
                  /\ Newest.kind = "body" => ~Intact(sent, eaten, Newest.msg)
  BY DEF LineInv
<1> HIDE DEF line
<1>7. line.kind # "blank" => reader.bodyLen = 0
  <2> SUFFICES ASSUME Holds, Newest.kind = "full" PROVE line.kind = "blank"
    BY <1>6
  <2>1. line = Line(Newest.msg, "blank", 0)
    BY <1>2, <1>3, AfterKind
  <2> QED
    BY <2>1 DEF Line
<1>8. reader.bodyLen # 0 => Holds /\ line.kind = "blank" /\ sent[line.msg].form = "full" /\ reader.bodyLen = sent[line.msg].len
  <2> HAVE reader.bodyLen # 0
  <2>1. Holds /\ Newest.kind = "full" /\ reader.bodyLen = Newest.n
    BY <1>6
  <2>2. line = Line(Newest.msg, "blank", 0)
    BY <2>1, <1>2, <1>3, AfterKind
  <2>3. line.kind = "blank" /\ line.msg = Newest.msg
    BY <2>2 DEF Line
  <2>4. sent[Newest.msg].form = "full" /\ Newest.n = sent[Newest.msg].len
    BY <2>1, <1>3, ByKind
  <2> QED
    BY <2>1, <2>3, <2>4
<1>9. line.kind = "blank" /\ Intact(sent, eaten, line.msg) => reader.bodyLen = sent[line.msg].body
  <2> HAVE line.kind = "blank" /\ Intact(sent, eaten, line.msg)
  <2>0. sent[line.msg].form = "full" /\ sent[line.msg].len = sent[line.msg].body
    BY DEF Intact, Measured
  <2>1. Holds
    BY <1>5 DEF Aligned
  <2>2. Newest.kind = "full" /\ Newest.msg = line.msg
    BY <2>0, <2>1, <1>2, <1>3, AfterKind
  <2>3. Newest.n = sent[Newest.msg].len
    BY <2>1, <2>2, <1>3, ByKind
  <2> QED
    BY <2>0, <2>1, <2>2, <2>3, <1>6
<1>10. line.kind = "body" => ~Intact(sent, eaten, line.msg)
  <2> SUFFICES ASSUME line.kind = "body", Intact(sent, eaten, line.msg) PROVE FALSE
    OBVIOUS
  <2>1. Holds
    BY <1>5 DEF Aligned
  <2>2. Newest.kind \in {"blank", "body"} /\ Newest.msg = line.msg
    BY <2>1, <1>2, <1>3, AfterKind
  <2> QED
    BY <2>1, <2>2, <1>6
<1>11. Starts(reader.buffer) => /\ m \in DOMAIN sent /\ reader.buffer[1] = Line(m, "start", 0) /\ sent[m].form # "alive" /\ reader.buffer # <<>>
                                /\ IsLine(sent, reader.buffer[1])
  <2> HAVE Starts(reader.buffer)
  <2>1. 1 \in DOMAIN reader.buffer /\ reader.buffer[1].kind = "start"
    BY Shapes DEF Starts
  <2>2. reader.buffer[1] # Zero
    BY <2>1 DEF Zero, Line
  <2>3. IsLine(sent, reader.buffer[1])
    BY <2>1, <2>2 DEF KnownInv
  <2> QED
    BY <2>1, <2>3, ByKind, LineIs DEF Starts
<1>12. ASSUME Starts(reader.buffer), Exact(sent[m])
       PROVE  \/ reader.buffer = <<Line(m, "start", 0)>> /\ sent[m].form = "full" /\ line = Line(m, "full", sent[m].len)
              \/ reader.buffer = HeadOf(sent, m) /\ line = Line(m, "blank", 0)
                 /\ (sent[m].form = "full" => reader.bodyLen = sent[m].len) /\ (sent[m].form = "none" => reader.bodyLen = 0)
  <2>1. m \in DOMAIN sent /\ reader.buffer[1] = Line(m, "start", 0)
    BY <1>11, <1>12
  <2>2. Holds
    BY <1>4, <1>12 DEF Starts
  <2>3. CASE reader.buffer = <<reader.buffer[1]>>
    <3>1. Newest = Line(m, "start", 0) /\ reader.buffer = <<Line(m, "start", 0)>>
      BY <2>1, <2>3 DEF Newest
    <3>2. Newest.kind = "start" /\ Newest.msg = m
      BY <3>1 DEF Line
    <3>3. line = IF Headed(sent, m) THEN Line(m, sent[m].form, sent[m].len) ELSE Line(m, "blank", 0)
      BY <3>2, <2>2, <1>2, <1>3, AfterKind
    <3>4. CASE sent[m].form = "full"
      BY <3>1, <3>3, <3>4 DEF Headed
    <3>5. CASE sent[m].form = "none"
      <4>1. ~Headed(sent, m) /\ sent[m].form # "full"
        BY <3>5 DEF Headed
      <4>2. reader.buffer = HeadOf(sent, m)
        BY <3>1, <4>1 DEF HeadOf
      <4>3. reader.bodyLen = 0
        BY <3>2, <1>6
      <4> QED
        BY <4>1, <4>2, <4>3, <3>3
    <3> QED
      BY <3>4, <3>5, <1>12 DEF Exact, Measured
  <2>4. CASE reader.buffer = HeadOf(sent, m) /\ Headed(sent, m)
    <3>1. sent[m].form = "full"
      BY <1>12, <2>4 DEF Headed, Exact, Measured
    <3>2. Newest = Line(m, "full", sent[m].len)
      BY <2>1, <2>4, <3>1, HeadIs DEF Newest
    <3>3. Newest.kind = "full" /\ Newest.msg = m /\ Newest.n = sent[m].len
      BY <3>2 DEF Line
    <3>4. line = Line(m, "blank", 0)
      BY <3>3, <2>2, <1>2, <1>3, AfterKind
    <3> QED
      BY <2>2, <2>4, <3>1, <3>3, <3>4, <1>6
  <2>5. CASE reader.buffer = HeadOf(sent, m) /\ ~Headed(sent, m)
    BY <2>1, <2>3, <2>5 DEF HeadOf
  <2>6. reader.buffer = <<reader.buffer[1]>> \/ reader.buffer = HeadOf(sent, m)
    BY <1>12 DEF LineInv
  <2> QED
    BY <2>3, <2>4, <2>5, <2>6
<1> QED
  BY <1>7, <1>8, <1>9, <1>10, <1>11, <1>12 DEF line

\* A row of one line, and one line more.
LEMMA PairIs ==
  ASSUME NEW a \in LineType, NEW b \in LineType
  PROVE  Append(<<a>>, b) = <<a, b>>
<1>1. <<a>> \in Seq(LineType) /\ Len(<<a>>) = 1 /\ <<a, b>> \in Seq(LineType) /\ Len(<<a, b>>) = 2
  OBVIOUS
<1>2. /\ Append(<<a>>, b) \in Seq(LineType) /\ Len(Append(<<a>>, b)) = 2
      /\ Append(<<a>>, b)[1] = a /\ Append(<<a>>, b)[2] = b
  BY <1>1, AppendProperties
<1>3. \A i \in 1..2 : Append(<<a>>, b)[i] = <<a, b>>[i]
  BY <1>2
<1> QED
  BY <1>1, <1>2, <1>3, SeqEqual

\* Every step keeps the lines that were read lines of messages.
LEMMA KnownStep == ReceiveInv /\ [ReceiveNext]_receiveVars => KnownInv'
<1> SUFFICES ASSUME ReceiveInv, [ReceiveNext]_receiveVars PROVE KnownInv'
  OBVIOUS
<1>0. ReceiveTypes /\ StreamInv /\ BodyInv /\ KnownInv
  BY DEF ReceiveInv
<1>1. ASSUME NEW form \in Forms, NEW k \in Bodies(form), NEW len \in Given(form), DeviceSends([form |-> form, body |-> k, len |-> len]) PROVE KnownInv'
  <2>1. PICK x \in SentType, v \in Seq(LineType) : sent' = Append(sent, x) /\ UNCHANGED <<reader, parser>>
    BY <1>0, <1>1, SendStep
  <2>2. \A l : IsLine(sent, l) => IsLine(sent', l)
    BY <1>0, <2>1, Shapes, LinesStay
  <2> QED
    BY <1>0, <2>1, <2>2 DEF KnownInv
<1>2. CASE Cut \/ UNCHANGED receiveVars
  <2>1. UNCHANGED <<sent, reader, parser>>
    BY <1>2 DEF Cut, receiveVars
  <2> QED
    BY <1>0, <2>1 DEF KnownInv
<1>3. CASE ReadLine
  <2>1. LET line == unread[1] IN
        /\ UNCHANGED <<sent, cut, parser, delivered, torn, eaten>> /\ IsLine(sent, line)
        /\ \A i \in DOMAIN reader.buffer : reader'.buffer[i] = reader.buffer[i]
        /\ DOMAIN reader'.buffer = 1..(Len(reader.buffer) + 1) /\ reader'.buffer[Len(reader.buffer) + 1] = line
    BY <1>0, <1>3, LineRead
  <2>2. \A i \in DOMAIN reader'.buffer : i \in DOMAIN reader.buffer \/ i = Len(reader.buffer) + 1
    BY <1>0, <2>1, Shapes
  <2> QED
    BY <1>0, <2>1, <2>2 DEF KnownInv
<1>4. CASE ReadBody
  <2> DEFINE n == reader.bodyLen
  <2>1. /\ UNCHANGED <<sent, cut, parser, delivered, torn>>
        /\ \A i \in DOMAIN reader.buffer : reader'.buffer[i] = reader.buffer[i]
        /\ DOMAIN reader'.buffer = 1..(Len(reader.buffer) + n)
        /\ \A i \in 1..n : reader'.buffer[Len(reader.buffer) + i] = BodyRead[i]
    BY <1>0, <1>4, BodyTaken
  <2>2. \A i \in 1..n : BodyRead[i] = Zero \/ IsLine(sent, BodyRead[i])
    <3> TAKE i \in 1..n
    <3>1. BodyRead[i] = IF i <= Len(unread) THEN unread[i] ELSE Zero
      BY <1>0, BodyReadIs
    <3>2. i <= Len(unread) => i \in DOMAIN unread
      BY <1>0, Shapes
    <3> QED
      BY <1>0, <3>1, <3>2 DEF StreamInv, Chained
  <2>3. \A i \in DOMAIN reader'.buffer : i \in DOMAIN reader.buffer \/ (i - Len(reader.buffer) \in 1..n /\ Len(reader.buffer) + (i - Len(reader.buffer)) = i)
    BY <1>0, <2>1, Shapes
  <2> HIDE DEF n
  <2>4. \A i \in DOMAIN reader'.buffer : IsLine(sent', reader'.buffer[i]) \/ reader'.buffer[i] = Zero
    <3> TAKE i \in DOMAIN reader'.buffer
    <3>1. CASE i \in DOMAIN reader.buffer
      BY <1>0, <2>1, <3>1 DEF KnownInv
    <3>2. CASE i - Len(reader.buffer) \in 1..n /\ Len(reader.buffer) + (i - Len(reader.buffer)) = i
      <4>1. reader'.buffer[i] = BodyRead[i - Len(reader.buffer)]
        BY <2>1, <3>2
      <4> QED
        BY <2>1, <2>2, <3>2, <4>1
    <3> QED
      BY <2>3, <3>1, <3>2
  <2> QED
    BY <1>0, <2>1, <2>4 DEF KnownInv
<1>5. CASE HandOver
  <2>1. reader'.buffer = <<>> /\ parser'.packet = reader.buffer /\ sent' = sent
    BY <1>0, <1>5 DEF HandOver, NextBuffer, ReceiveTypes
  <2> QED
    BY <1>0, <2>1, EmptyIs DEF KnownInv
<1>6. CASE ReaderEnds
  <2>1. reader'.buffer = <<>> /\ parser'.packet = parser.packet /\ sent' = sent
    BY <1>0, <1>6 DEF ReaderEnds, ReceiveTypes
  <2> QED
    BY <1>0, <2>1, EmptyIs DEF KnownInv
<1>7. CASE ParsePacket
  <2>1. reader' = reader /\ parser'.packet = <<>> /\ sent' = sent
    BY <1>0, <1>7 DEF ParsePacket, ReceiveTypes
  <2> QED
    BY <1>0, <2>1, EmptyIs DEF KnownInv
<1> QED
  BY <1>1, <1>2, <1>3, <1>4, <1>5, <1>6, <1>7 DEF ReceiveNext

\* A row of lines that begins with a start names the message.
LEMMA StartsIs ==
  ASSUME ReceiveTypes, KnownInv
  PROVE  /\ Starts(reader.buffer) => reader.buffer[1].msg \in DOMAIN sent /\ IsLine(sent, reader.buffer[1])
                                     /\ reader.buffer[1] = Line(reader.buffer[1].msg, "start", 0)
         /\ Starts(parser.packet) => parser.packet[1].msg \in DOMAIN sent /\ IsLine(sent, parser.packet[1])
                                     /\ parser.packet[1] = Line(parser.packet[1].msg, "start", 0)
<1>1. Zero.kind # "start"
  BY DEF Zero, Line
<1>2. Starts(reader.buffer) => IsLine(sent, reader.buffer[1]) /\ reader.buffer[1].kind = "start"
  <2>1. reader.buffer # <<>> => 1 \in DOMAIN reader.buffer
    BY Shapes
  <2> QED
    BY <1>1, <2>1 DEF KnownInv, Starts
<1>3. Starts(parser.packet) => IsLine(sent, parser.packet[1]) /\ parser.packet[1].kind = "start"
  <2>1. parser.packet # <<>> => 1 \in DOMAIN parser.packet
    BY Shapes, EmptyIs
  <2> QED
    BY <1>1, <2>1 DEF KnownInv, Starts
<1> QED
  BY <1>2, <1>3, ByKind, LineIs

\* A line is read: the length is that of the newest header, and of its own message.
LEMMA LineInvReads ==
  ASSUME ReceiveInv, ReadLine
  PROVE  LineInv' /\ BodyInv'
<1> DEFINE line == unread[1]
           m == reader.buffer[1].msg
<1>0. ReceiveTypes /\ StreamInv /\ KnownInv /\ LineInv /\ PacketInv
  BY DEF ReceiveInv
<1>1. /\ reader.pc = "line" /\ unread # <<>> /\ UNCHANGED <<sent, cut, parser, delivered, torn, eaten>>
      /\ IsLine(sent, line)
      /\ reader'.buffer = Append(reader.buffer, line) /\ reader'.pc = NextPc(line)
      /\ reader'.bodyLen = (CASE line.kind = "full" -> line.n [] line.kind = "bad" -> 0 [] OTHER -> reader.bodyLen)
      /\ reader'.buffer # <<>> /\ Newest' = line /\ Holds'
      /\ \A i \in DOMAIN reader.buffer : reader'.buffer[i] = reader.buffer[i]
      /\ reader'.buffer[Len(reader.buffer) + 1] = line
  BY <1>0, LineRead
<1>2. /\ line.kind # "blank" => reader.bodyLen = 0
      /\ reader.bodyLen # 0 => Holds /\ line.kind = "blank" /\ sent[line.msg].form = "full" /\ reader.bodyLen = sent[line.msg].len
      /\ line.kind = "body" => ~Intact(sent, eaten, line.msg)
      /\ Starts(reader.buffer) /\ Exact(sent[m]) =>
              \/ reader.buffer = <<Line(m, "start", 0)>> /\ sent[m].form = "full" /\ line = Line(m, "full", sent[m].len)
              \/ reader.buffer = HeadOf(sent, m) /\ line = Line(m, "blank", 0)
                 /\ (sent[m].form = "none" => reader.bodyLen = 0)
  BY <1>0, <1>1, NextLine
<1>3. line \in LineType /\ line.kind \in Kinds
  BY <1>0, <1>1, LineIs DEF LineType
<1>4. reader.buffer # <<>> => 1 \in DOMAIN reader.buffer /\ reader'.buffer[1] = reader.buffer[1] /\ (Starts(reader'.buffer) => Starts(reader.buffer))
  <2> HAVE reader.buffer # <<>>
  <2>1. 1 \in DOMAIN reader.buffer
    BY <1>0, Shapes
  <2> QED
    BY <1>1, <2>1 DEF Starts
<1>5. reader.buffer = <<>> => reader'.buffer[1] = line /\ reader'.buffer = <<line>>
  BY <1>1, EmptyIs
<1> HIDE DEF line
<1>6. LineInv'
  <2> SUFFICES ASSUME reader'.pc = "line" PROVE LineInv'
    BY DEF LineInv
  <2>1. line.kind \notin {"blank", "bad"}
    BY <1>1 DEF NextPc
  <2>2. reader'.bodyLen = IF Newest'.kind = "full" THEN Newest'.n ELSE 0
    BY <1>1, <1>2, <2>1
  <2>3. Newest'.kind \notin {"blank", "bad"} /\ (Newest'.kind = "body" => ~Intact(sent', eaten', Newest'.msg))
    BY <1>1, <1>2, <2>1
  <2>4. ASSUME Starts(reader'.buffer), Exact(sent'[reader'.buffer[1].msg])
        PROVE  reader'.buffer = <<reader'.buffer[1]>> \/ reader'.buffer = HeadOf(sent', reader'.buffer[1].msg)
    <3>1. CASE reader.buffer = <<>>
      BY <3>1, <1>5
    <3>2. CASE reader.buffer # <<>>
      <4>1. Starts(reader.buffer) /\ reader'.buffer[1].msg = m /\ Exact(sent[m])
        BY <2>4, <3>2, <1>1, <1>4
      <4>2. line # Line(m, "blank", 0)
        BY <2>1 DEF Line
      <4>3. reader.buffer = <<Line(m, "start", 0)>> /\ sent[m].form = "full" /\ line = Line(m, "full", sent[m].len)
        BY <1>2, <4>1, <4>2
      <4>4. reader'.buffer = <<Line(m, "start", 0), Line(m, "full", sent[m].len)>>
        <5> DEFINE a == Line(m, "start", 0)
                   b == Line(m, "full", sent[m].len)
        <5>1. reader'.buffer = Append(<<a>>, b)
          BY <1>1, <4>3
        <5>2. a \in LineType /\ b \in LineType
          <6>1. reader.buffer \in Seq(LineType) /\ reader.buffer = <<a>>
            BY <1>0, <4>3, Shapes
          <6>2. b \in LineType
            BY <1>3, <4>3
          <6> HIDE DEF a
          <6>3. a \in LineType
            BY <6>1
          <6> QED
            BY <6>2, <6>3
        <5> HIDE DEF a, b
        <5>3. Append(<<a>>, b) = <<a, b>>
          BY <5>2, PairIs
        <5> QED
          BY <5>1, <5>3 DEF a, b
      <4>5. HeadOf(sent, m) = <<Line(m, "start", 0), Line(m, "full", sent[m].len)>>
        BY <4>3 DEF HeadOf, Headed
      <4> QED
        BY <1>1, <4>1, <4>4, <4>5
    <3> QED
      BY <3>1, <3>2
  <2> QED
    BY <1>1, <2>2, <2>3, <2>4 DEF LineInv, Intact
<1>7. BodyInv'
  <2> SUFFICES ASSUME reader'.pc = "body" PROVE BodyInv'
    BY DEF BodyInv
  <2>1. line.kind = "blank" /\ reader.bodyLen # 0
    BY <1>1 DEF NextPc
  <2>2. Holds /\ sent[line.msg].form = "full" /\ reader.bodyLen = sent[line.msg].len
    BY <1>2, <2>1
  <2>3. reader'.bodyLen = reader.bodyLen
    BY <1>1, <2>1
  <2>4. line = Line(line.msg, "blank", 0)
    BY <1>0, <1>1, <2>1, ByKind
  <2>5. ASSUME Starts(reader'.buffer), Exact(sent'[reader'.buffer[1].msg])
        PROVE  reader'.buffer = HeadOf(sent', line.msg) \o <<line>>
    <3>1. reader.buffer # <<>>
      BY <2>2 DEF Holds
    <3>2. Starts(reader.buffer) /\ reader'.buffer[1].msg = m /\ Exact(sent[m])
      BY <2>5, <3>1, <1>1, <1>4
    <3>3. line # Line(m, "full", sent[m].len)
      BY <2>1 DEF Line
    <3>4. reader.buffer = HeadOf(sent, m) /\ line = Line(m, "blank", 0)
      BY <1>2, <3>2, <3>3
    <3>5. line.msg = m
      BY <3>4 DEF Line
    <3>6. reader.buffer \in Seq(LineType)
      BY <1>0, Shapes
    <3>7. Append(reader.buffer, line) = reader.buffer \o <<line>>
      BY <3>6, <1>3, AppendIsConcat
    <3> QED
      BY <1>1, <3>4, <3>5, <3>7
  <2> QED
    BY <1>1, <2>1, <2>2, <2>3, <2>4, <2>5 DEF BodyInv
<1> QED
  BY <1>6, <1>7

\* Every step keeps what the reader knows of the length.
LEMMA LineInvStep == ReceiveInv /\ [ReceiveNext]_receiveVars => LineInv' /\ BodyInv'
<1> SUFFICES ASSUME ReceiveInv, [ReceiveNext]_receiveVars PROVE LineInv' /\ BodyInv'
  OBVIOUS
<1>0. ReceiveTypes /\ StreamInv /\ KnownInv /\ LineInv /\ BodyInv
  BY DEF ReceiveInv
<1>1. ASSUME NEW form \in Forms, NEW k \in Bodies(form), NEW len \in Given(form), DeviceSends([form |-> form, body |-> k, len |-> len]) PROVE LineInv' /\ BodyInv'
  <2>1. PICK x \in SentType, v \in Seq(LineType) : sent' = Append(sent, x) /\ UNCHANGED <<reader, parser, eaten>>
    BY <1>0, <1>1, SendStep
  <2>2. \A m \in DOMAIN sent : sent'[m] = sent[m]
    BY <1>0, <2>1, Shapes, Grown
  <2>3. (Holds' <=> Holds) /\ Newest' = Newest
    BY <2>1 DEF Holds, Newest
  <2>4. Holds => Newest.msg \in DOMAIN sent
    BY <1>0, LineIs DEF StreamInv
  <2>5. Starts(reader.buffer) => reader.buffer[1].msg \in DOMAIN sent
    BY <1>0, StartsIs
  <2>6. \A m \in DOMAIN sent : HeadOf(sent', m) = HeadOf(sent, m)
    BY <2>2 DEF HeadOf, Headed
  <2>7. LineInv'
    <3> USE <1>0, <2>1, <2>2, <2>3, <2>4, <2>5, <2>6
    <3>1. Holds' => (Newest.kind = "body" => ~Intact(sent', eaten', Newest.msg)) \/ reader.pc # "line"
      BY DEF LineInv, Intact
    <3> QED
      BY <3>1 DEF LineInv
  <2>8. BodyInv'
    BY <1>0, <2>1, <2>2, <2>3, <2>4, <2>5, <2>6 DEF BodyInv
  <2> QED
    BY <2>7, <2>8
<1>2. CASE Cut \/ ParsePacket \/ UNCHANGED receiveVars
  <2>1. UNCHANGED <<sent, reader, eaten>>
    BY <1>2 DEF Cut, ParsePacket, receiveVars
  <2> QED
    BY <1>0, <2>1 DEF LineInv, BodyInv, Holds, Newest, Intact
<1>3. CASE ReadLine
  BY <1>3, LineInvReads
<1>4. CASE ReadBody
  <2>1. reader'.pc = "packet"
    BY <1>0, <1>4, BodyTaken
  <2> QED
    BY <2>1 DEF LineInv, BodyInv
<1>5. CASE HandOver
  <2>1. reader'.pc = "line" /\ reader'.buffer = <<>> /\ reader'.bodyLen = 0
    BY <1>5 DEF HandOver, NextBuffer
  <2> QED
    BY <2>1 DEF LineInv, BodyInv, Holds, Starts
<1>6. CASE ReaderEnds
  <2>1. reader'.pc = "over"
    BY <1>0, <1>6 DEF ReaderEnds, ReceiveTypes
  <2> QED
    BY <2>1 DEF LineInv, BodyInv
<1> QED
  BY <1>1, <1>2, <1>3, <1>4, <1>5, <1>6 DEF ReceiveNext

-----------------------------------------------------------------------------
(* The packets are messages. *)

\* A packet stays its message when another is written.
LEMMA PacketStays ==
  ASSUME ReceiveTypes, NEW x \in SentType, NEW p, NEW t, IsPacket(sent, p, t), Starts(p) => p[1].msg \in DOMAIN sent
  PROVE  IsPacket(Append(sent, x), p, t)
<1>1. Starts(p) => Append(sent, x)[p[1].msg] = sent[p[1].msg]
  BY Shapes, Grown
<1> QED
  BY <1>1 DEF IsPacket, HeadOf, Headed

\* A message that is written is aligned with the packets.
LEMMA PacketSend ==
  ASSUME NEW form \in Forms, NEW k \in Bodies(form), NEW len \in Given(form), DeviceSends([form |-> form, body |-> k, len |-> len]), ReceiveInv
  PROVE  PacketInv'
<1>0. ReceiveTypes /\ StreamInv /\ KnownInv /\ PacketInv
  BY DEF ReceiveInv
<1>1. PICK x \in SentType, v \in Seq(LineType) :
           /\ sent' = Append(sent, x) /\ unread' = unread \o v /\ ~cut /\ UNCHANGED <<cut, reader, parser, delivered, torn, eaten>>
           /\ v # <<>> /\ v[1] = FirstOf(sent', Len(sent) + 1)
  BY <1>0, SendStep
<1>2. unread' # <<>> /\ unread'[1] = IF unread = <<>> THEN v[1] ELSE unread[1]
  BY <1>0, <1>1, SendGrows
<1>3. \A e : Aligned(sent', e, FirstOf(sent', Len(sent) + 1))
  BY DEF Aligned, FirstOf, Line, Intact, Measured
<1>4. (reader.buffer = <<>> \/ reader.pc = "packet") /\ unread # <<>> => Aligned(sent', eaten', unread[1])
  <2> HAVE (reader.buffer = <<>> \/ reader.pc = "packet") /\ unread # <<>>
  <2>1. 1 \in DOMAIN unread
    BY <1>0, Shapes
  <2>2. Aligned(sent, eaten, unread[1]) /\ IsLine(sent, unread[1])
    BY <1>0, <2>1 DEF PacketInv, StreamInv, Chained
  <2>3. sent'[unread[1].msg] = sent[unread[1].msg]
    BY <1>0, <1>1, <2>2, Shapes, Grown, LineIs
  <2> QED
    BY <1>1, <2>2, <2>3 DEF Aligned, Intact
<1>5. Starts(reader.buffer) => reader.buffer[1].msg \in DOMAIN sent
  BY <1>0, StartsIs
<1>6. Starts(parser.packet) => parser.packet[1].msg \in DOMAIN sent
  BY <1>0, StartsIs
<1>7. reader.pc = "packet" => IsPacket(sent', reader.buffer, torn)
  BY <1>0, <1>1, <1>5, PacketStays DEF PacketInv
<1>8. parser.pc = "parses" => IsPacket(sent', parser.packet, torn)
  BY <1>0, <1>1, <1>6, PacketStays DEF PacketInv
<1> QED
  BY <1>1, <1>2, <1>3, <1>4, <1>7, <1>8 DEF PacketInv

\* The end of the connection spoils no packet that was read.
LEMMA PacketCut ==
  ASSUME Cut, ReceiveInv
  PROVE  PacketInv'
<1>0. ReceiveTypes /\ StreamInv /\ KnownInv /\ PacketInv
  BY DEF ReceiveInv
<1>1. PICK k \in Nat : /\ DOMAIN unread' = 1..k
                       /\ \A i \in 1..k : i \in DOMAIN unread /\ unread'[i] = unread[i]
  BY <1>0, CutIs
<1>2. torn = 0 /\ UNCHANGED <<sent, reader, parser, eaten>>
  BY <1>0, Shapes DEF Cut
<1>3. \A p : (Starts(p) => p[1].msg \in DOMAIN sent) /\ IsPacket(sent, p, torn) => IsPacket(sent, p, torn')
  <2> SUFFICES ASSUME NEW p, Starts(p) => p[1].msg \in DOMAIN sent, IsPacket(sent, p, torn) PROVE IsPacket(sent, p, torn')
    OBVIOUS
  <2>1. Starts(p) => p[1].msg # torn
    BY <1>0, <1>2, Shapes
  <2> QED
    BY <2>1 DEF IsPacket
<1>4. (Starts(reader.buffer) => reader.buffer[1].msg \in DOMAIN sent) /\ (Starts(parser.packet) => parser.packet[1].msg \in DOMAIN sent)
  BY <1>0, StartsIs
<1> QED
  BY <1>0, <1>1, <1>2, <1>3, <1>4 DEF PacketInv

\* A packet without a body is whole with its empty line, or is of a message whose length is no number.
LEMMA PacketReadLine ==
  ASSUME ReadLine, ReceiveInv
  PROVE  PacketInv'
<1> DEFINE line == unread[1]
           m == reader.buffer[1].msg
<1>0. ReceiveTypes /\ StreamInv /\ KnownInv /\ LineInv /\ PacketInv
  BY DEF ReceiveInv
<1>1. /\ reader.pc = "line" /\ unread # <<>> /\ UNCHANGED <<sent, cut, parser, delivered, torn, eaten>>
      /\ IsLine(sent, line)
      /\ reader'.buffer = Append(reader.buffer, line) /\ reader'.pc = NextPc(line)
      /\ reader'.buffer # <<>> /\ Newest' = line /\ Holds'
      /\ \A i \in DOMAIN reader.buffer : reader'.buffer[i] = reader.buffer[i]
  BY <1>0, LineRead
<1>2. /\ line.kind = "blank" /\ Intact(sent, eaten, line.msg) => reader.bodyLen = sent[line.msg].body
      /\ Starts(reader.buffer) /\ Exact(sent[m]) =>
              \/ reader.buffer = <<Line(m, "start", 0)>> /\ sent[m].form = "full" /\ line = Line(m, "full", sent[m].len)
              \/ reader.buffer = HeadOf(sent, m) /\ line = Line(m, "blank", 0)
                 /\ (sent[m].form = "full" => reader.bodyLen = sent[m].len) /\ (sent[m].form = "none" => reader.bodyLen = 0)
  BY <1>0, <1>1, NextLine
<1>3. line \in LineType
  BY <1>0, <1>1, LineIs
<1>4. StreamInv'
  BY <1>0, StreamReadLine
<1>5. unread' # <<>> => Follows(sent, line, unread'[1]) /\ IsLine(sent, unread'[1])
  <2> HAVE unread' # <<>>
  <2>1. unread' = Tail(unread) /\ unread \in Seq(LineType) /\ Chained(sent, unread)
    BY <1>0, LineRead, Shapes DEF StreamInv
  <2>2. unread' \in Seq(LineType)
    BY <1>1, <2>1, TailChained
  <2>3. 1 \in DOMAIN unread'
    BY <2>2, EmptyIs
  <2>4. IsLine(sent', unread'[1])
    BY <1>4, <2>3 DEF StreamInv, Chained
  <2>5. Follows(sent', Newest', unread'[1])
    BY <1>1, <1>4 DEF StreamInv
  <2> QED
    BY <1>1, <2>4, <2>5
<1> HIDE DEF line
<1>6. SUFFICES ASSUME reader'.pc = "packet" \/ reader'.buffer = <<>>
               PROVE  IsPacket(sent, reader'.buffer, torn) /\ (unread' # <<>> => Aligned(sent, eaten, unread'[1]))
  <2>1. \A i \in DOMAIN unread' : i = 1 => unread' # <<>>
    BY EmptyIs
  <2> QED
    BY <1>0, <1>1, <2>1 DEF PacketInv
<1>7. line.kind = "bad" \/ (line.kind = "blank" /\ reader.bodyLen = 0)
  BY <1>1, <1>6 DEF NextPc
<1>8. unread' # <<>> => Aligned(sent, eaten, unread'[1])
  <2> HAVE unread' # <<>>
  <2>1. Follows(sent, line, unread'[1]) /\ IsLine(sent, unread'[1])
    BY <1>5
  <2>2. CASE Ends(sent, line)
    BY <1>0, <1>1, <2>1, <2>2, AfterKind
  <2>3. CASE ~Ends(sent, line) /\ line.kind = "bad"
    <3>1. unread'[1] = Line(line.msg, "blank", 0) /\ sent[line.msg].form = "bad"
      BY <1>0, <1>1, <2>1, <2>3, AfterKind, ByKind
    <3> QED
      BY <3>1 DEF Aligned, Intact, Measured, Line
  <2>4. CASE ~Ends(sent, line) /\ line.kind = "blank" /\ reader.bodyLen = 0
    <3>1. sent[line.msg].body # 0
      BY <2>4 DEF Ends
    <3>2. ~Intact(sent, eaten, line.msg)
      BY <1>2, <2>4, <3>1
    <3>3. unread'[1].msg = line.msg
      BY <2>1, <2>4 DEF Follows, NextOf, Line
    <3> QED
      BY <3>2, <3>3 DEF Aligned
  <2> QED
    BY <2>2, <2>3, <2>4, <1>7
<1>9. IsPacket(sent, reader'.buffer, torn)
  <2> SUFFICES ASSUME Starts(reader'.buffer), Exact(sent[reader'.buffer[1].msg])
               PROVE  LET m1 == reader'.buffer[1].msg
                      IN \E b \in Seq(LineType) : /\ reader'.buffer = (HeadOf(sent, m1) \o <<Line(m1, "blank", 0)>>) \o b
                                                  /\ Len(b) = sent[m1].body
                                                  /\ m1 # torn => b = BodyOf(m1, sent[m1].body)
    BY <1>1 DEF IsPacket
  <2>1. reader.buffer # <<>>
    <3> SUFFICES ASSUME reader.buffer = <<>> PROVE FALSE
      OBVIOUS
    <3>1. reader'.buffer[1] = line
      BY <1>1
    <3> QED
      BY <3>1, <1>7 DEF Starts
  <2>2. Starts(reader.buffer) /\ reader'.buffer[1].msg = m /\ Exact(sent[m])
    <3>1. 1 \in DOMAIN reader.buffer
      BY <1>0, <2>1, Shapes
    <3> QED
      BY <2>1, <3>1, <1>1 DEF Starts
  <2>3. line # Line(m, "full", sent[m].len)
    BY <1>7 DEF Line
  <2>4. reader.buffer = HeadOf(sent, m) /\ line = Line(m, "blank", 0)
                 /\ (sent[m].form = "full" => reader.bodyLen = sent[m].len) /\ (sent[m].form = "none" => reader.bodyLen = 0)
    BY <1>2, <2>2, <2>3
  <2>5. m \in DOMAIN sent /\ IsLine(sent, reader.buffer[1])
    BY <1>0, <2>2, StartsIs
  <2>6. sent[m].body = 0
    <3>1. line.kind = "blank" /\ line.kind # "bad"
      BY <2>4 DEF Line
    <3>2. reader.bodyLen = 0
      BY <3>1, <1>7
    <3>3. sent[m].form = "none" => sent[m].body = 0
      BY <1>0, <2>5, ByKind
    <3> QED
      BY <2>2, <2>4, <3>2, <3>3 DEF Exact, Measured
  <2>7. BodyOf(m, 0) = <<>>
    BY DEF BodyOf
  <2>8. reader.buffer \in Seq(LineType)
    BY <1>0, Shapes
  <2>9. reader'.buffer = reader.buffer \o <<line>>
    BY <1>1, <1>3, <2>8, AppendIsConcat
  <2>10. reader.buffer \o <<line>> = (reader.buffer \o <<line>>) \o <<>>
    <3>1. reader.buffer \o <<line>> \in Seq(LineType)
      BY <1>3, <2>8, ConcatProperties
    <3> QED
      BY <3>1, ConcatEmptySeq
  <2>11. reader'.buffer = (HeadOf(sent, m) \o <<Line(m, "blank", 0)>>) \o <<>>
    BY <2>4, <2>9, <2>10
  <2>12. <<>> \in Seq(LineType) /\ Len(<<>>) = sent[m].body /\ <<>> = BodyOf(m, sent[m].body)
    BY <2>6, <2>7, EmptyIs
  <2> QED
    BY <2>2, <2>11, <2>12
<1> QED
  BY <1>8, <1>9

\* The message that the reader awaits the body of.
LEMMA BodyOwner ==
  ASSUME ReceiveTypes, StreamInv, BodyInv, reader.pc = "body"
  PROVE  LET m == Newest.msg
             n == reader.bodyLen IN
         /\ Holds /\ Newest = Line(m, "blank", 0) /\ sent[m].form = "full" /\ sent[m].len = n /\ n # 0 /\ n \in Nat
         /\ m \in DOMAIN sent /\ m \in Nat /\ IsLine(sent, Newest)
         /\ \A i \in DOMAIN unread : m <= unread[i].msg
         /\ unread # <<>> => Follows(sent, Newest, unread[1])
<1>1. Holds /\ IsLine(sent, Newest)
  BY DEF BodyInv, StreamInv
<1> QED
  BY <1>1, LineIs, Shapes DEF BodyInv, StreamInv

\* What ReadFull finds after an empty line, if the number is right: the body, whole unless
\* lines of it were lost.
LEMMA BodyIsRead ==
  ASSUME ReceiveTypes, StreamInv, BodyInv, reader.pc = "body", Measured(sent[Newest.msg])
  PROVE  LET m == Newest.msg
             n == reader.bodyLen IN
         /\ m \in DOMAIN sent /\ IsLine(sent, Newest) /\ n = sent[m].body /\ n # 0
         /\ \A i \in 1..n : i \in DOMAIN unread => unread[i] = Line(m, "body", i)
         /\ m # torn => n <= Len(unread) /\ BodyRead = BodyOf(m, n)
<1> DEFINE m == Newest.msg
           n == reader.bodyLen
<1>1. Holds /\ Newest = Line(m, "blank", 0) /\ sent[m].form = "full" /\ sent[m].body = n /\ n # 0 /\ n \in Nat
  BY BodyOwner DEF Measured
<1>2. /\ IsLine(sent, Newest) /\ Chained(sent, unread)
      /\ IF unread = <<>> THEN StopsAt(sent, Newest, cut, torn) ELSE Follows(sent, Newest, unread[1])
      /\ unread # <<>> => StopsAt(sent, unread[Len(unread)], cut, torn)
  BY <1>1 DEF StreamInv
<1>3. Newest.kind = "blank" /\ Newest.n = 0 /\ m \in DOMAIN sent /\ m \in Nat
  BY <1>1, <1>2, LineIs DEF Line
<1>4. sent \in Seq(SentType) /\ unread \in Seq(LineType) /\ DOMAIN unread = 1..Len(unread) /\ Len(unread) \in Nat /\ torn \in Nat
      /\ (unread = <<>> <=> Len(unread) = 0)
  BY Shapes
<1>5. \A i \in 1..n : i \in DOMAIN unread => unread[i] = Line(m, "body", i)
  <2>1. \A i \in 1..sent[Newest.msg].body : i \in DOMAIN unread => unread[i] = Line(Newest.msg, "body", i)
    BY <1>2, <1>3, <1>4, BodyFollows
  <2> QED
    BY <1>1, <2>1
<1> HIDE DEF m, n
<1>6. ASSUME m # torn PROVE n <= Len(unread)
  <2> SUFFICES ASSUME ~(n <= Len(unread)) PROVE FALSE
    OBVIOUS
  <2>0. \A l : StopsAt(sent, l, cut, torn) /\ l.msg = m => Ends(sent, l)
    BY <1>3, <1>4, <1>6 DEF StopsAt, Complete
  <2>1. CASE unread = <<>>
    <3>1. Ends(sent, Newest)
      BY <2>0, <2>1, <1>2 DEF m
    <3> QED
      BY <3>1, <1>1, <1>3 DEF Ends, m
  <2>2. CASE unread # <<>>
    <3>0. ASSUME NEW L \in Nat, L # 0, ~(n <= L) PROVE L \in 1..n /\ L \in 1..L /\ L # n
      BY <3>0, <1>1
    <3>1. Len(unread) \in 1..n /\ Len(unread) \in DOMAIN unread /\ Len(unread) # n
      BY <2>2, <1>4, <3>0
    <3>2. unread[Len(unread)] = Line(m, "body", Len(unread))
      BY <3>1, <1>5
    <3>3. unread[Len(unread)].msg = m /\ unread[Len(unread)].kind = "body" /\ unread[Len(unread)].n = Len(unread)
      BY <3>2 DEF Line
    <3>4. Ends(sent, unread[Len(unread)])
      BY <2>0, <2>2, <3>3, <1>2
    <3> QED
      BY <3>1, <3>3, <3>4, <1>1 DEF Ends
  <2> QED
    BY <2>1, <2>2
<1>7. ASSUME m # torn PROVE BodyRead = BodyOf(m, n)
  <2>1. /\ DOMAIN BodyRead = 1..n
        /\ \A i \in 1..n : BodyRead[i] = IF i <= Len(unread) THEN unread[i] ELSE Zero
    BY BodyReadIs DEF n
  <2>2. \A i \in 1..n : i <= Len(unread) /\ i \in DOMAIN unread
    BY <1>1, <1>4, <1>6, <1>7
  <2>3. \A i \in 1..n : BodyRead[i] = Line(m, "body", i)
    BY <2>1, <2>2, <1>5
  <2>4. BodyRead = [i \in 1..n |-> BodyRead[i]]
    BY <2>1 DEF BodyRead, n
  <2> QED
    BY <2>3, <2>4 DEF BodyOf
<1> QED
  BY <1>1, <1>2, <1>3, <1>5, <1>6, <1>7 DEF m, n

\* The messages of which lines are read as another's body.
LEMMA BodyEats ==
  ASSUME ReadBody
  PROVE  /\ \A i \in DOMAIN unread : i <= reader.bodyLen /\ unread[i].msg # Newest.msg => unread[i].msg \in eaten'
         /\ eaten \subseteq eaten'
BY DEF ReadBody, Others, Last, Newest

\* A packet with a body has it whole, and the next line begins a message.
LEMMA PacketReadBody ==
  ASSUME ReadBody, ReceiveInv
  PROVE  PacketInv'
<1> DEFINE n == reader.bodyLen
           m == Newest.msg
<1>0. ReceiveTypes /\ StreamInv /\ KnownInv /\ BodyInv /\ PacketInv
  BY DEF ReceiveInv
<1>1. /\ reader.pc = "body" /\ reader'.pc = "packet" /\ reader'.buffer = reader.buffer \o BodyRead
      /\ UNCHANGED <<sent, cut, parser, delivered, torn>>
      /\ n \in Nat /\ n >= 1 /\ reader'.buffer # <<>> /\ unread' \in Seq(LineType)
      /\ IF n <= Len(unread)
           THEN /\ Len(unread') = Len(unread) - n /\ DOMAIN unread' = 1..(Len(unread) - n)
                /\ \A i \in 1..(Len(unread) - n) : unread'[i] = unread[i + n]
           ELSE unread' = <<>>
      /\ \A i \in DOMAIN reader.buffer : reader'.buffer[i] = reader.buffer[i]
  BY <1>0, BodyTaken
<1>2. Measured(sent[m]) =>
        /\ m \in DOMAIN sent /\ IsLine(sent, Newest) /\ n = sent[m].body /\ n # 0
        /\ \A i \in 1..n : i \in DOMAIN unread => unread[i] = Line(m, "body", i)
        /\ m # torn => BodyRead = BodyOf(m, n)
  BY <1>0, <1>1, BodyIsRead
<1>o. m \in DOMAIN sent /\ IsLine(sent, Newest) /\ sent[m].form = "full"
  BY <1>0, <1>1, BodyOwner
<1>3. /\ Holds /\ Newest = Line(m, "blank", 0)
      /\ Starts(reader.buffer) /\ Exact(sent[reader.buffer[1].msg]) =>
           reader.buffer = HeadOf(sent, m) \o <<Newest>>
  BY <1>0, <1>1 DEF BodyInv
<1>4. IsPacket(sent, reader'.buffer, torn)
  <2> SUFFICES ASSUME Starts(reader'.buffer), Exact(sent[reader'.buffer[1].msg])
               PROVE  LET m1 == reader'.buffer[1].msg
                      IN \E b \in Seq(LineType) : /\ reader'.buffer = (HeadOf(sent, m1) \o <<Line(m1, "blank", 0)>>) \o b
                                                  /\ Len(b) = sent[m1].body
                                                  /\ m1 # torn => b = BodyOf(m1, sent[m1].body)
    BY <1>1 DEF IsPacket
  <2>1. 1 \in DOMAIN reader.buffer /\ reader.buffer # <<>>
    BY <1>0, <1>3, Shapes DEF Holds
  <2>2. Starts(reader.buffer) /\ reader'.buffer[1] = reader.buffer[1]
    BY <2>1, <1>1 DEF Starts
  <2>3. reader.buffer = HeadOf(sent, m) \o <<Newest>>
    BY <2>2, <1>1, <1>3
  <2>4. reader.buffer[1] = Line(m, "start", 0)
    <3>1. HeadOf(sent, m) \in Seq(LineType) /\ HeadOf(sent, m)[1] = Line(m, "start", 0) /\ HeadOf(sent, m) # <<>>
      BY <1>0, <1>o, HeadIs
    <3>2. <<Newest>> \in Seq(LineType)
      BY <1>0, <1>o, LineIs
    <3>3. Len(HeadOf(sent, m)) # 0 /\ Len(HeadOf(sent, m)) \in Nat
      BY <3>1, EmptyIs
    <3> QED
      BY <2>3, <3>1, <3>2, <3>3, ConcatProperties
  <2>5. reader'.buffer[1].msg = m
    BY <2>2, <2>4 DEF Line
  <2>6. BodyRead \in Seq(LineType) /\ Len(BodyRead) = n
    BY <1>0, BodyReadIs
  <2>7. reader'.buffer = (HeadOf(sent, m) \o <<Line(m, "blank", 0)>>) \o BodyRead
    BY <1>1, <1>3, <2>3
  <2>8. Measured(sent[m])
    BY <2>5, <1>o DEF Exact
  <2> QED
    BY <1>2, <2>5, <2>6, <2>7, <2>8
<1>5. unread' # <<>> => Aligned(sent, eaten', unread'[1])
  <2> HAVE unread' # <<>>
  <2>1. n <= Len(unread) /\ Len(unread') = Len(unread) - n
    BY <1>1
  <2>2. Len(unread) - n # 0 /\ Len(unread) \in Nat
    BY <2>1, <1>0, <1>1, EmptyIs, Shapes
  <2>3. DOMAIN unread = 1..Len(unread)
    BY <1>0, Shapes
  <2>4. n \in 1..n /\ n <= n /\ n \in DOMAIN unread /\ n + 1 \in DOMAIN unread /\ 1 \in 1..(Len(unread) - n) /\ 1 + n = n + 1
    BY <2>1, <2>2, <2>3, <1>1
  <2>5. unread'[1] = unread[n + 1]
    BY <2>1, <2>4, <1>1
  <2>6. Follows(sent, unread[n], unread[n + 1]) /\ IsLine(sent, unread[n]) /\ IsLine(sent, unread[n + 1])
    BY <2>4, <1>0 DEF StreamInv, Chained
  <2>7. CASE Ends(sent, unread[n])
    BY <1>0, <2>5, <2>6, <2>7, AfterKind
  <2>8. CASE ~Ends(sent, unread[n])
    <3>1. unread[n + 1].msg = unread[n].msg
      BY <2>6, <2>8 DEF Follows, NextOf, Line
    <3>2. unread[n].msg # m => unread[n].msg \in eaten'
      BY <2>4, BodyEats
    <3>3. unread[n].msg = m /\ Measured(sent[m]) => FALSE
      <4> SUFFICES ASSUME Measured(sent[m]) PROVE Ends(sent, unread[n])
        BY <2>8
      <4>1. unread[n] = Line(m, "body", n) /\ n = sent[m].body
        BY <2>4, <1>2
      <4> QED
        BY <4>1 DEF Ends, Line
    <3> QED
      BY <2>5, <3>1, <3>2, <3>3 DEF Aligned, Intact
  <2> QED
    BY <2>7, <2>8
<1>6. \A i \in DOMAIN unread' : unread' # <<>>
  BY EmptyIs
<1> QED
  BY <1>0, <1>1, <1>4, <1>5, <1>6 DEF PacketInv

\* Every step keeps the packets aligned with their messages.
LEMMA PacketStep == ReceiveInv /\ [ReceiveNext]_receiveVars => PacketInv'
<1> SUFFICES ASSUME ReceiveInv, [ReceiveNext]_receiveVars PROVE PacketInv'
  OBVIOUS
<1>0. ReceiveTypes /\ PacketInv
  BY DEF ReceiveInv
<1>1. ASSUME NEW form \in Forms, NEW k \in Bodies(form), NEW len \in Given(form), DeviceSends([form |-> form, body |-> k, len |-> len]) PROVE PacketInv'
  BY <1>1, PacketSend
<1>2. CASE Cut
  BY <1>2, PacketCut
<1>3. CASE ReadLine
  BY <1>3, PacketReadLine
<1>4. CASE ReadBody
  BY <1>4, PacketReadBody
<1>5. CASE HandOver
  <2>1. /\ reader.pc = "packet" /\ parser'.packet = reader.buffer /\ reader'.pc = "line"
        /\ UNCHANGED <<sent, unread, torn, eaten>>
    BY <1>0, <1>5 DEF HandOver, NextBuffer, ReceiveTypes
  <2> QED
    BY <1>0, <2>1 DEF PacketInv
<1>6. CASE ReaderEnds
  <2>1. /\ parser'.packet = parser.packet /\ parser'.pc = parser.pc /\ reader'.pc = "over" /\ unread' = <<>>
        /\ UNCHANGED <<sent, torn, eaten>>
    BY <1>0, <1>6 DEF ReaderEnds, ReceiveTypes
  <2> QED
    BY <1>0, <2>1, EmptyIs DEF PacketInv
<1>7. CASE ParsePacket
  <2>1. parser'.pc # "parses" /\ UNCHANGED <<sent, unread, reader, torn, eaten>>
    BY <1>0, <1>7 DEF ParsePacket, ReceiveTypes
  <2> QED
    BY <1>0, <2>1 DEF PacketInv
<1>8. CASE UNCHANGED receiveVars
  BY <1>0, <1>8 DEF PacketInv, receiveVars
<1> QED
  BY <1>1, <1>2, <1>3, <1>4, <1>5, <1>6, <1>7, <1>8 DEF ReceiveNext

\* The least of some numbers.
LEMMA FirstSuch ==
  ASSUME NEW I \in SUBSET Nat, NEW k \in I, \A j \in I : k <= j
  PROVE  Min(I) = k
<1>1. \A x \in I : (\A y \in I : x <= y) => x = k
  BY ONLY I \in SUBSET Nat, k \in I, \A j \in I : k <= j
<1> QED
  BY <1>1 DEF Min

\* The parser makes a packet of its own message that message.
LEMMA ParsedOwn ==
  ASSUME ReceiveTypes, NEW p \in Seq(LineType), NEW t, IsPacket(sent, p, t), Starts(p),
         p[1].msg \in DOMAIN sent, p[1] = Line(p[1].msg, "start", 0), Exact(sent[p[1].msg])
  PROVE  LET m == p[1].msg IN
         /\ Parsed(p) = <<[msg |-> m, body |-> ParsedBody(p)]>>
         /\ m # t => ParsedBody(p) = BodyOf(m, sent[m].body)
<1> DEFINE m == p[1].msg
           h == HeadOf(sent, m)
           x == Line(m, "blank", 0)
<1>1. PICK b \in Seq(LineType) : /\ p = (h \o <<x>>) \o b /\ Len(b) = sent[m].body
                                 /\ m # t => b = BodyOf(m, sent[m].body)
  BY DEF IsPacket
<1>2. /\ h \in Seq(LineType) /\ Len(h) = (IF Headed(sent, m) THEN 2 ELSE 1) /\ h[1] = Line(m, "start", 0)
      /\ h[Len(h)] = IF Headed(sent, m) THEN Line(m, sent[m].form, sent[m].len) ELSE Line(m, "start", 0)
      /\ sent[m].body \in Nat /\ m \in Nat
  BY HeadIs
<1>3. x \in LineType
  BY <1>2 DEF Line, LineType, Kinds
<1>4. /\ Headed(sent, m) <=> sent[m].form = "full"
      /\ sent[m].form = "full" => sent[m].len = sent[m].body
  BY DEF Headed, Exact, Measured
<1>5. sent[m].form = "none" => sent[m].body = 0
  BY DEF ReceiveTypes
<1> DEFINE c == Len(h)
<1>6. c \in Nat /\ c \in 1..2 /\ c = (IF sent[m].form = "full" THEN 2 ELSE 1)
  BY <1>2, <1>4
<1>7. h \o <<x>> \in Seq(LineType) /\ Len(h \o <<x>>) = c + 1
      /\ (\A i \in 1..c : (h \o <<x>>)[i] = h[i]) /\ (h \o <<x>>)[c + 1] = x
  <2>1. <<x>> \in Seq(LineType) /\ Len(<<x>>) = 1
    BY <1>3
  <2>2. \A i \in 1..(c + 1) : (h \o <<x>>)[i] = IF i <= c THEN h[i] ELSE <<x>>[i - c]
    BY <1>2, <2>1, ConcatProperties
  <2> HIDE DEF h, x
  <2>3. (h \o <<x>>)[c + 1] = <<x>>[1]
    BY <1>6, <2>2
  <2>4. h \o <<x>> \in Seq(LineType) /\ Len(h \o <<x>>) = c + 1
    BY <1>2, <2>1, ConcatProperties
  <2> QED
    BY <1>6, <2>2, <2>3, <2>4
<1> DEFINE hx == h \o <<x>>
<1> HIDE DEF hx
<1>8. p = hx \o b /\ hx \in Seq(LineType) /\ Len(hx) = c + 1 /\ (\A i \in 1..c : hx[i] = h[i]) /\ hx[c + 1] = x
  BY <1>1, <1>7 DEF hx
<1>9. Len(p) = c + 1 + Len(b) /\ Len(b) \in Nat /\ b \in Seq(LineType)
      /\ \A i \in 1..(c + 1 + Len(b)) : p[i] = IF i <= c + 1 THEN hx[i] ELSE b[i - (c + 1)]
  <2>1. b \in Seq(LineType) /\ Len(b) \in Nat
    BY <1>1, EmptyIs
  <2>2. hx \in Seq(LineType) /\ p = hx \o b
    BY <1>8
  <2>3. Len(p) = Len(hx) + Len(b) /\ \A i \in 1..(Len(hx) + Len(b)) : p[i] = IF i <= Len(hx) THEN hx[i] ELSE b[i - Len(hx)]
    BY ONLY b \in Seq(LineType), <2>2, ConcatProperties
  <2> QED
    BY <2>1, <2>3, <1>8
<1> HIDE DEF h, x, c
<1>10. (\A i \in 1..c : p[i] = h[i]) /\ p[c + 1] = x /\ c + 1 \in 1..Len(p)
  BY <1>6, <1>8, <1>9
<1>11. p[c + 1].kind = "blank" /\ p[1].kind = "start" /\ (c = 2 => p[2].kind = "full" /\ p[2].n = sent[m].body)
  BY <1>2, <1>4, <1>6, <1>10 DEF c, x, Line
<1>12. BlankAt(p) = c + 1
  <2> DEFINE I == {i \in 1..Len(p) : p[i].kind = "blank"}
  <2>1. c + 1 \in I /\ I \in SUBSET Nat
    BY <1>6, <1>9, <1>10, <1>11
  <2>2. \A j \in I : c + 1 <= j
    <3> TAKE j \in I
    <3>1. j \in Nat /\ j >= 1 /\ p[j].kind = "blank"
      BY <1>6, <1>9
    <3>2. j # 1 /\ (c = 2 => j # 2)
      BY <3>1, <1>11
    <3> QED
      BY <3>1, <3>2, <1>6
  <2>3. Min(I) = c + 1
    <3> HIDE DEF I
    <3> QED
      BY <2>1, <2>2, FirstSuch
  <2>4. I # {}
    BY <2>1
  <2> QED
    BY <2>3, <2>4 DEF BlankAt, SelectInSeq
<1>13. ParsedBody(p) = b
  <2>1. c + 2 \in 1..(Len(p) + 1) /\ Len(p) \in 0..Len(p) /\ c + 2 <= Len(p) + 1 /\ (c + 1) + 1 = c + 2
    BY <1>6, <1>9
  <2>2. /\ SubSeq(p, c + 2, Len(p)) \in Seq(LineType) /\ Len(SubSeq(p, c + 2, Len(p))) = Len(p) + 1 - (c + 2)
        /\ \A i \in 1..(Len(p) + 1 - (c + 2)) : SubSeq(p, c + 2, Len(p))[i] = p[(c + 2) + i - 1]
    BY <2>1, SubSeqIs
  <2>3. Len(p) + 1 - (c + 2) = Len(b)
    BY <1>6, <1>9
  <2>4. \A i \in 1..Len(b) : SubSeq(p, c + 2, Len(p))[i] = b[i]
    <3> TAKE i \in 1..Len(b)
    <3>1. (c + 2) + i - 1 \in 1..(c + 1 + Len(b)) /\ ~((c + 2) + i - 1 <= c + 1) /\ ((c + 2) + i - 1) - (c + 1) = i
      BY <1>6, <1>9
    <3>2. p[(c + 2) + i - 1] = b[i]
      BY <3>1, <1>9
    <3> QED
      BY <2>2, <2>3, <3>2
  <2>5. SubSeq(p, c + 2, Len(p)) = b
    BY <2>2, <2>3, <2>4, <1>9, SeqEqual
  <2> QED
    BY <1>6, <1>12, <2>1, <2>5 DEF ParsedBody
<1>14. ~(HeaderLength(p) > 0 /\ ParsedBody(p) = <<>>)
  <2> SUFFICES ASSUME b = <<>> PROVE ~(HeaderLength(p) > 0)
    BY <1>13
  <2>1. Len(b) = 0 /\ sent[m].body = 0
    BY <1>1, EmptyIs
  <2> DEFINE I == {i \in 1..Len(p) : p[i].kind \in {"full", "other"}}
  <2>2. Len(p) = c + 1
    BY <2>1, <1>6, <1>9
  <2>3. CASE c = 2
    <3>1. 2 \in I /\ I \in SUBSET Nat
      BY <2>2, <2>3, <1>11
    <3>2. \A j \in I : 2 <= j
      <4> TAKE j \in I
      <4>1. j # 1 /\ j \in 1..3
        BY <2>2, <2>3, <1>11
      <4> QED
        BY <4>1
    <3>3. Min(I) = 2 /\ I # {}
      <4>1. I # {}
        BY <3>1
      <4> HIDE DEF I
      <4> QED
        BY <3>1, <3>2, <4>1, FirstSuch
    <3>4. SelectInSeq(p, LAMBDA line : line.kind \in {"full", "other"}) = 2
      BY <3>3 DEF SelectInSeq
    <3>5. HeaderLength(p) = p[2].n
      BY <3>4 DEF HeaderLength
    <3> QED
      BY <2>1, <2>3, <3>5, <1>11
  <2>4. CASE c = 1
    <3>1. I = {}
      <4> SUFFICES ASSUME NEW j \in I PROVE FALSE
        OBVIOUS
      <4>1. j \in {1, 2}
        BY <2>2, <2>4
      <4> QED
        BY <2>4, <4>1, <1>11
    <3>2. SelectInSeq(p, LAMBDA line : line.kind \in {"full", "other"}) = 0
      BY <3>1 DEF SelectInSeq
    <3> QED
      BY <3>2 DEF HeaderLength
  <2> QED
    BY <2>3, <2>4, <1>6
<1>15. Parsed(p) = <<[msg |-> m, body |-> ParsedBody(p)]>>
  BY <1>11, <1>14 DEF Parsed
<1> QED
  BY <1>1, <1>13, <1>15

-----------------------------------------------------------------------------
(* Every step, and the theorem. *)

\* What the parser makes of a packet, and that of its own message.
LEMMA PacketParsed ==
  ASSUME ReceiveInv, ParsePacket
  PROVE  LET p == parser.packet
             m == p[1].msg IN
         /\ parser.pc = "parses" /\ parser'.pc # "parses" /\ parser'.packet = <<>>
         /\ UNCHANGED <<sent, unread, cut, reader, torn, eaten>>
         /\ \A i \in DOMAIN delivered : i \in DOMAIN delivered' /\ delivered'[i] = delivered[i]
         /\ \A i \in DOMAIN delivered' : i \notin DOMAIN delivered =>
              /\ i = Len(delivered) + 1 /\ Starts(p) /\ m \in DOMAIN sent /\ delivered'[i].msg = m
              /\ Exact(sent[m]) /\ m # torn => delivered'[i].body = BodyOf(m, sent[m].body)
         /\ Starts(p) /\ Exact(sent[m]) => \E i \in DOMAIN delivered' : delivered'[i].msg = m
<1> DEFINE p == parser.packet
           m == p[1].msg
           e == [msg |-> m, body |-> ParsedBody(p)]
<1>0. ReceiveTypes /\ KnownInv /\ PacketInv
  BY DEF ReceiveInv
<1>1. /\ parser.pc = "parses" /\ parser'.pc # "parses" /\ parser'.packet = <<>>
      /\ UNCHANGED <<sent, unread, cut, reader, torn, eaten>> /\ delivered' = delivered \o Parsed(p)
  BY <1>0 DEF ParsePacket, ReceiveTypes
<1>2. p \in Seq(LineType) /\ p # <<>> /\ IsPacket(sent, p, torn) /\ delivered \in Seq(DeliveredType)
      /\ DOMAIN delivered = 1..Len(delivered) /\ Len(delivered) \in Nat
  BY <1>0, <1>1, Shapes DEF PacketInv, IsPacket
<1>3. Starts(p) => m \in DOMAIN sent /\ p[1] = Line(m, "start", 0)
  BY <1>0, StartsIs
<1>4. Starts(p) /\ Exact(sent[m]) =>
        Parsed(p) = <<e>> /\ (m # torn => ParsedBody(p) = BodyOf(m, sent[m].body))
  BY <1>0, <1>2, <1>3, ParsedOwn
<1>5. Parsed(p) = <<>> \/ (Starts(p) /\ Parsed(p) = <<e>> /\ e \in DeliveredType)
  BY <1>2, ParsedIs
<1>6. e.msg = m /\ e.body = ParsedBody(p) /\ <<e>> # <<>>
  OBVIOUS
<1> HIDE DEF p, e
<1>7. CASE Parsed(p) = <<>>
  <2>1. delivered' = delivered
    BY <1>1, <1>2, <1>7, ConcatEmptySeq
  <2>2. ~(Starts(p) /\ Exact(sent[m]))
    BY <1>4, <1>6, <1>7
  <2> QED
    BY <1>1, <2>1, <2>2 DEF p
<1>8. CASE Starts(p) /\ Parsed(p) = <<e>> /\ e \in DeliveredType
  <2>1. delivered' = Append(delivered, e)
    BY <1>1, <1>2, <1>8, AppendIsConcat
  <2>2. /\ DOMAIN delivered' = 1..(Len(delivered) + 1) /\ delivered'[Len(delivered) + 1] = e
        /\ \A i \in 1..Len(delivered) : delivered'[i] = delivered[i]
    BY <1>2, <1>8, <2>1, AppendProperties
  <2>3. /\ \A i \in DOMAIN delivered : i \in DOMAIN delivered' /\ delivered'[i] = delivered[i]
        /\ \A i \in DOMAIN delivered' : i \notin DOMAIN delivered => i = Len(delivered) + 1
        /\ Len(delivered) + 1 \in DOMAIN delivered'
    BY <1>2, <2>2
  <2> QED
    BY <1>1, <1>3, <1>4, <1>6, <1>8, <2>2, <2>3 DEF p
<1> QED
  BY <1>5, <1>7, <1>8

-----------------------------------------------------------------------------
(* The order. *)

\* It stays when only the first lines are read, or the last ones lost.
LEMMA OrderKept ==
  ASSUME OrderInv, NEW d \in Nat, DOMAIN unread' \subseteq Nat,
         \A k \in DOMAIN unread' : k + d \in DOMAIN unread /\ unread'[k] = unread[k + d],
         sent' = sent, delivered' = delivered, parser'.packet = parser.packet,
         Starts(reader'.buffer) => Starts(reader.buffer) /\ reader'.buffer[1] = reader.buffer[1]
  PROVE  OrderInv'
<1>1. \A i, j \in DOMAIN unread' : i < j => i + d < j + d
  OBVIOUS
<1>2. \A i, j \in DOMAIN unread' : i < j /\ unread'[j].kind = "start" => unread'[i].msg < unread'[j].msg
  BY <1>1 DEF OrderInv
<1>3. \A k \in DOMAIN unread' : unread'[k].kind = "start" =>
       /\ \A i \in DOMAIN delivered : delivered[i].msg < unread'[k].msg
       /\ Starts(parser.packet) => parser.packet[1].msg < unread'[k].msg
       /\ Starts(reader.buffer) => reader.buffer[1].msg < unread'[k].msg
  BY DEF OrderInv
<1> QED
  BY <1>2, <1>3 DEF OrderInv

\* A message that is written comes after all that is known of the others.
LEMMA OrderSend ==
  ASSUME NEW form \in Forms, NEW k \in Bodies(form), NEW len \in Given(form), DeviceSends([form |-> form, body |-> k, len |-> len]), ReceiveInv
  PROVE  OrderInv'
<1> DEFINE c == Len(sent)
           g == Len(unread)
<1>0. ReceiveTypes /\ StreamInv /\ KnownInv /\ OrderInv
  BY DEF ReceiveInv
<1>1. PICK x \in SentType, v \in Seq(LineType) :
           /\ sent' = Append(sent, x) /\ unread' = unread \o v /\ UNCHANGED <<cut, reader, parser, delivered, torn, eaten>>
           /\ v # <<>> /\ DOMAIN v = 1..Len(v) /\ Len(v) \in Nat
           /\ \A i \in DOMAIN v : v[i].msg = c + 1 /\ (v[i].kind = "start" => i = 1)
  BY <1>0, SendStep
<1>2. /\ DOMAIN unread' = 1..(g + Len(v))
      /\ \A i \in DOMAIN unread : unread'[i] = unread[i] /\ i \in DOMAIN unread'
      /\ \A i \in DOMAIN v : unread'[g + i] = v[i]
      /\ \A i \in DOMAIN unread' : i \in DOMAIN unread \/ (i - g \in DOMAIN v /\ g + (i - g) = i)
  BY <1>0, <1>1, SendGrows
<1>3. c \in Nat /\ g \in Nat /\ DOMAIN sent = 1..c /\ DOMAIN unread = 1..g
  BY <1>0, Shapes
<1>4. \A i \in DOMAIN sent : i \in DOMAIN sent' /\ i < c + 1
  BY <1>0, <1>1, <1>3, Shapes, Grown
<1>5. \A i \in DOMAIN unread : unread[i].msg \in DOMAIN sent
  BY <1>0, LineIs DEF StreamInv, Chained
<1>6. (Starts(reader.buffer) => reader.buffer[1].msg \in DOMAIN sent) /\ (Starts(parser.packet) => parser.packet[1].msg \in DOMAIN sent)
  BY <1>0, StartsIs
<1>7. \A i \in DOMAIN delivered : delivered[i].msg \in DOMAIN sent
  BY <1>0 DEF OrderInv
<1> HIDE DEF c, g
<1>8. \A i \in DOMAIN unread' : i \notin DOMAIN unread => unread'[i].msg = c + 1 /\ (unread'[i].kind = "start" => i = g + 1)
  <2> TAKE i \in DOMAIN unread'
  <2> HAVE i \notin DOMAIN unread
  <2>1. i - g \in DOMAIN v /\ g + (i - g) = i /\ i \in Nat
    BY <1>2, <1>3
  <2>2. unread'[i] = v[i - g]
    BY <1>2, <2>1
  <2> QED
    BY <1>1, <1>3, <2>1, <2>2
<1>9. \A i, j \in DOMAIN unread' : i < j /\ unread'[j].kind = "start" => unread'[i].msg < unread'[j].msg
  <2> TAKE i, j \in DOMAIN unread'
  <2> HAVE i < j /\ unread'[j].kind = "start"
  <2>1. i \in Nat /\ j \in Nat /\ i >= 1
    BY <1>1, <1>2, <1>3
  <2>2. CASE j \in DOMAIN unread
    <3>1. i \in DOMAIN unread
      BY <2>1, <2>2, <1>3
    <3> QED
      BY <1>0, <1>2, <2>2, <3>1 DEF OrderInv
  <2>3. CASE j \notin DOMAIN unread
    <3>1. unread'[j].msg = c + 1 /\ j = g + 1
      BY <1>8, <2>3
    <3>2. i \in DOMAIN unread
      BY <2>1, <3>1, <1>3
    <3> QED
      BY <1>2, <1>4, <1>5, <3>1, <3>2
  <2> QED
    BY <2>2, <2>3
<1>10. \A i \in DOMAIN unread' : unread'[i].kind = "start" =>
       /\ \A j \in DOMAIN delivered : delivered[j].msg < unread'[i].msg
       /\ Starts(parser.packet) => parser.packet[1].msg < unread'[i].msg
       /\ Starts(reader.buffer) => reader.buffer[1].msg < unread'[i].msg
  <2> TAKE i \in DOMAIN unread'
  <2>1. CASE i \in DOMAIN unread
    BY <1>0, <1>2, <2>1 DEF OrderInv
  <2>2. CASE i \notin DOMAIN unread
    BY <1>4, <1>6, <1>7, <1>8, <2>2
  <2> QED
    BY <2>1, <2>2
<1> QED
  BY <1>0, <1>1, <1>4, <1>9, <1>10 DEF OrderInv

\* A line that begins a packet comes after all that was delivered and handed over.
LEMMA OrderReadLine ==
  ASSUME ReadLine, ReceiveInv
  PROVE  OrderInv'
<1> DEFINE line == unread[1]
<1>0. ReceiveTypes /\ StreamInv /\ OrderInv
  BY DEF ReceiveInv
<1>1. /\ unread' = Tail(unread) /\ UNCHANGED <<sent, cut, parser, delivered, torn, eaten>>
      /\ 1 \in DOMAIN unread /\ unread # <<>>
      /\ \A i \in DOMAIN reader.buffer : reader'.buffer[i] = reader.buffer[i]
      /\ reader'.buffer[Len(reader.buffer) + 1] = line /\ reader'.buffer # <<>>
  BY <1>0, LineRead
<1>2. DOMAIN unread' \subseteq Nat /\ \A k \in DOMAIN unread' : k + 1 \in DOMAIN unread /\ unread'[k] = unread[k + 1]
  <2>1. unread \in Seq(LineType) /\ DOMAIN unread = 1..Len(unread) /\ Len(unread) \in Nat
    BY <1>0, Shapes
  <2> QED
    BY <1>0, <1>1, <2>1, TailChained DEF StreamInv
<1> HIDE DEF line
<1>3. CASE reader.buffer # <<>>
  <2>1. 1 \in DOMAIN reader.buffer
    BY <1>0, <1>3, Shapes
  <2>2. Starts(reader'.buffer) => Starts(reader.buffer) /\ reader'.buffer[1] = reader.buffer[1]
    BY <1>1, <1>3, <2>1 DEF Starts
  <2> QED
    BY <1>0, <1>1, <1>2, <2>2, OrderKept
<1>4. CASE reader.buffer = <<>>
  <2>1. reader'.buffer[1] = line
    BY <1>1, <1>4
  <2>2. Starts(reader'.buffer) => line.kind = "start"
    BY <2>1 DEF Starts
  <2>3. \A i, j \in DOMAIN unread' : i < j => i + 1 < j + 1
    BY <1>2
  <2>4. \A i, j \in DOMAIN unread' : i < j /\ unread'[j].kind = "start" => unread'[i].msg < unread'[j].msg
    BY <1>0, <1>2, <2>3 DEF OrderInv
  <2>5. \A k \in DOMAIN unread' : 1 < k + 1
    <3>1. unread \in Seq(LineType) /\ DOMAIN unread = 1..Len(unread) /\ Len(unread) \in Nat
      BY <1>0, Shapes
    <3>2. DOMAIN unread' = 1..(Len(unread) - 1)
      BY <1>0, <1>1, <3>1, TailChained DEF StreamInv
    <3> QED
      BY <3>1, <3>2
  <2>6. \A k \in DOMAIN unread' : unread'[k].kind = "start" =>
       /\ \A i \in DOMAIN delivered : delivered[i].msg < unread'[k].msg
       /\ Starts(parser.packet) => parser.packet[1].msg < unread'[k].msg
       /\ line.msg < unread'[k].msg
    BY <1>0, <1>1, <1>2, <2>5 DEF OrderInv, line
  <2>7. line.kind = "start" =>
       /\ \A i \in DOMAIN delivered : delivered[i].msg < line.msg
       /\ Starts(parser.packet) => parser.packet[1].msg < line.msg
    BY <1>0, <1>1 DEF OrderInv, line
  <2> QED
    BY <1>0, <1>1, <2>1, <2>2, <2>4, <2>6, <2>7 DEF OrderInv
<1> QED
  BY <1>3, <1>4

\* Every step keeps the order.
LEMMA OrderStep == ReceiveInv /\ [ReceiveNext]_receiveVars => OrderInv'
<1> SUFFICES ASSUME ReceiveInv, [ReceiveNext]_receiveVars PROVE OrderInv'
  OBVIOUS
<1>0. ReceiveTypes /\ StreamInv /\ KnownInv /\ BodyInv /\ OrderInv
  BY DEF ReceiveInv
<1>d. DOMAIN unread \subseteq Nat /\ 0 \in Nat /\ \A i \in DOMAIN unread : i + 0 = i
  BY <1>0, Shapes
<1>1. ASSUME NEW form \in Forms, NEW k \in Bodies(form), NEW len \in Given(form), DeviceSends([form |-> form, body |-> k, len |-> len]) PROVE OrderInv'
  BY <1>1, OrderSend
<1>2. CASE Cut
  <2>1. PICK k \in Nat : DOMAIN unread' = 1..k /\ \A i \in 1..k : i \in DOMAIN unread /\ unread'[i] = unread[i]
    BY <1>0, <1>2, CutIs
  <2>2. UNCHANGED <<sent, reader, parser, delivered>>
    BY <1>2 DEF Cut
  <2>3. DOMAIN unread' \subseteq Nat /\ \A i \in DOMAIN unread' : i + 0 \in DOMAIN unread /\ unread'[i] = unread[i + 0]
    BY <1>d, <2>1
  <2> QED
    BY <1>0, <1>d, <2>2, <2>3, OrderKept
<1>3. CASE ReadLine
  BY <1>3, OrderReadLine
<1>4. CASE ReadBody
  <2> DEFINE n == reader.bodyLen
  <2>1. /\ UNCHANGED <<sent, cut, parser, delivered, torn>> /\ n \in Nat /\ reader.pc = "body"
        /\ IF n <= Len(unread)
              THEN /\ DOMAIN unread' = 1..(Len(unread) - n)
                   /\ \A i \in 1..(Len(unread) - n) : unread'[i] = unread[i + n]
              ELSE unread' = <<>>
        /\ \A i \in DOMAIN reader.buffer : reader'.buffer[i] = reader.buffer[i]
    BY <1>0, <1>4, BodyTaken
  <2>2. Len(unread) \in Nat /\ DOMAIN unread = 1..Len(unread)
    BY <1>0, Shapes
  <2>3. DOMAIN unread' \subseteq Nat /\ \A k \in DOMAIN unread' : k + n \in DOMAIN unread /\ unread'[k] = unread[k + n]
    <3> DEFINE g == Len(unread)
    <3> HIDE DEF n
    <3>1. \A k \in 1..(g - n) : k \in Nat /\ k + n \in DOMAIN unread
      <4>1. n \in Nat /\ g \in Nat /\ DOMAIN unread = 1..g
        BY <2>1, <2>2
      <4> HIDE DEF g
      <4> QED
        BY <4>1
    <3>2. \/ DOMAIN unread' = 1..(g - n) /\ \A k \in 1..(g - n) : unread'[k] = unread[k + n]
          \/ unread' = <<>>
      BY <2>1
    <3>3. CASE unread' = <<>>
      BY <3>3, EmptyIs
    <3>4. CASE DOMAIN unread' = 1..(g - n) /\ \A k \in 1..(g - n) : unread'[k] = unread[k + n]
      BY <3>1, <3>4
    <3> QED
      BY <3>2, <3>3, <3>4
  <2>4. reader.buffer # <<>> /\ 1 \in DOMAIN reader.buffer
    BY <1>0, <2>1, Shapes DEF ReceiveTypes
  <2>5. Starts(reader'.buffer) => Starts(reader.buffer) /\ reader'.buffer[1] = reader.buffer[1]
    BY <2>1, <2>4 DEF Starts
  <2> HIDE DEF n
  <2> QED
    BY <1>0, <2>1, <2>3, <2>5, OrderKept
<1>5. CASE HandOver
  <2>1. reader'.buffer = <<>> /\ parser'.packet = reader.buffer /\ UNCHANGED <<sent, unread, delivered>>
    BY <1>0, <1>5 DEF HandOver, NextBuffer, ReceiveTypes
  <2>2. ~Starts(reader'.buffer)
    BY <2>1 DEF Starts
  <2> QED
    BY <1>0, <2>1, <2>2 DEF OrderInv
<1>6. CASE ReaderEnds
  <2>1. reader'.buffer = <<>> /\ parser'.packet = parser.packet /\ UNCHANGED <<sent, unread, delivered>>
    BY <1>0, <1>6 DEF ReaderEnds, ReceiveTypes
  <2>2. ~Starts(reader'.buffer)
    BY <2>1 DEF Starts
  <2> QED
    BY <1>0, <2>1, <2>2 DEF OrderInv
<1>7. CASE ParsePacket
  <2> DEFINE p == parser.packet
  <2>1. /\ parser'.packet = <<>> /\ UNCHANGED <<sent, unread, reader>>
        /\ \A i \in DOMAIN delivered : i \in DOMAIN delivered' /\ delivered'[i] = delivered[i]
        /\ \A i \in DOMAIN delivered' : i \notin DOMAIN delivered =>
              i = Len(delivered) + 1 /\ Starts(p) /\ p[1].msg \in DOMAIN sent /\ delivered'[i].msg = p[1].msg
    BY <1>7, PacketParsed
  <2>2. DOMAIN delivered = 1..Len(delivered) /\ Len(delivered) \in Nat
    BY <1>0, Shapes
  <2>3. ~Starts(parser'.packet)
    BY <2>1 DEF Starts
  <2>4. \A i, j \in DOMAIN delivered' : i < j => delivered'[i].msg < delivered'[j].msg
    <3> TAKE i, j \in DOMAIN delivered'
    <3> HAVE i < j
    <3>1. CASE i \in DOMAIN delivered /\ j \in DOMAIN delivered
      BY <1>0, <2>1, <3>1 DEF OrderInv
    <3>2. CASE i \in DOMAIN delivered /\ j \notin DOMAIN delivered
      BY <1>0, <2>1, <3>2 DEF OrderInv
    <3>3. CASE i \notin DOMAIN delivered
      <4>1. i = Len(delivered) + 1
        BY <2>1, <3>3
      <4>2. j \in DOMAIN delivered \/ j = Len(delivered) + 1
        BY <2>1
      <4> QED
        BY <2>2, <4>1, <4>2
    <3> QED
      BY <3>1, <3>2, <3>3
  <2>5. \A i \in DOMAIN delivered' : delivered'[i].msg \in DOMAIN sent
    BY <1>0, <2>1 DEF OrderInv
  <2>6. Starts(reader.buffer) => \A i \in DOMAIN delivered' : delivered'[i].msg < reader.buffer[1].msg
    BY <1>0, <2>1 DEF OrderInv
  <2>7. \A k \in DOMAIN unread : unread[k].kind = "start" => \A i \in DOMAIN delivered' : delivered'[i].msg < unread[k].msg
    BY <1>0, <2>1 DEF OrderInv
  <2> QED
    BY <1>0, <2>1, <2>3, <2>4, <2>5, <2>6, <2>7 DEF OrderInv
<1>8. CASE UNCHANGED receiveVars
  BY <1>0, <1>8 DEF OrderInv, receiveVars
<1> QED
  BY <1>1, <1>2, <1>3, <1>4, <1>5, <1>6, <1>7, <1>8 DEF ReceiveNext

-----------------------------------------------------------------------------
(* No message is missed. *)

\* The start of a framed message is read into an empty buffer.
LEMMA StartReadFirst ==
  ASSUME ReceiveInv, reader.pc = "line", NEW m \in DOMAIN sent, Framed(m), unread # <<>>, unread[1] = Line(m, "start", 0)
  PROVE  reader.buffer = <<>>
<1> SUFFICES ASSUME reader.buffer # <<>> PROVE FALSE
  OBVIOUS
<1> DEFINE line == unread[1]
<1>0. ReceiveTypes /\ StreamInv /\ LineInv
  BY DEF ReceiveInv
<1>1. 1 \in DOMAIN unread
  BY <1>0, Shapes
<1>2. IsLine(sent, line) /\ line.kind = "start" /\ line.msg = m
  BY <1>0, <1>1 DEF StreamInv, Chained, Line
<1>3. Holds
  BY <1>0 DEF StreamInv
<1>4. IsLine(sent, Newest) /\ Follows(sent, Newest, line)
  BY <1>0, <1>3 DEF StreamInv
<1> HIDE DEF line
<1>5. Ends(sent, Newest) /\ m = Newest.msg + 1
  BY <1>0, <1>2, <1>4, AfterKind
<1>6. Newest.kind # "blank" /\ (Newest.kind = "body" => ~Intact(sent, eaten, Newest.msg))
  BY <1>0, <1>3 DEF LineInv
<1>7. Newest.kind = "body" /\ ~Intact(sent, eaten, Newest.msg)
  BY <1>5, <1>6 DEF Ends
<1>8. Newest.msg \in Nat /\ Newest.msg # 0 /\ Newest.n \in 1..sent[Newest.msg].body
  BY <1>0, <1>4, <1>7, LineIs, ByKind
<1>9. m > 1 /\ m - 1 = Newest.msg /\ sent[Newest.msg].body # 0
  BY <1>5, <1>8
<1> QED
  BY <1>7, <1>9 DEF Framed, Intact

\* What is on its way stays when what was read stays, and the unread lines but the first.
LEMMA PresentKept ==
  ASSUME PresentInv, NEW d \in Nat, \A k \in DOMAIN unread : k \in Nat /\ k > d => k - d \in DOMAIN unread' /\ unread'[k - d] = unread[k],
         \A k \in DOMAIN unread : k \in Nat,
         \A k \in DOMAIN unread, m \in DOMAIN sent : k <= d /\ Framed(m)' /\ unread[k] = Line(m, "start", 0) => StartOf(reader'.buffer, m),
         \A m : Framed(m)' => Framed(m),
         UNCHANGED <<sent, delivered, parser, torn>>,
         \A m : StartOf(reader.buffer, m) => StartOf(reader'.buffer, m)
  PROVE  PresentInv'
<1> SUFFICES ASSUME NEW m \in DOMAIN sent, Framed(m)', Complete(m, torn)
             PROVE  \/ Delivered(m)
                    \/ parser.pc = "parses" /\ StartOf(parser.packet, m)
                    \/ StartOf(reader'.buffer, m)
                    \/ \E i \in DOMAIN unread' : unread'[i] = Line(m, "start", 0)
  BY DEF PresentInv, Delivered
<1>1. CASE \E i \in DOMAIN unread : unread[i] = Line(m, "start", 0)
  <2>1. PICK i \in DOMAIN unread : unread[i] = Line(m, "start", 0)
    BY <1>1
  <2>2. CASE i <= d
    BY <2>1, <2>2
  <2>3. CASE i > d
    BY <2>1, <2>3
  <2> QED
    BY <2>2, <2>3
<1>2. Framed(m)
  OBVIOUS
<1> QED
  BY <1>1, <1>2 DEF PresentInv

\* The start of a message that is written is unread.
LEMMA PresentSend ==
  ASSUME NEW form \in Forms, NEW k \in Bodies(form), NEW len \in Given(form), DeviceSends([form |-> form, body |-> k, len |-> len]), ReceiveInv
  PROVE  PresentInv'
<1> DEFINE c == Len(sent)
           g == Len(unread)
<1>0. ReceiveTypes /\ PresentInv
  BY DEF ReceiveInv
<1>1. PICK x \in SentType, v \in Seq(LineType) :
           /\ sent' = Append(sent, x) /\ unread' = unread \o v /\ UNCHANGED <<cut, reader, parser, delivered, torn, eaten>>
           /\ v # <<>> /\ DOMAIN v = 1..Len(v) /\ Len(v) \in Nat /\ Len(v) >= 1
           /\ v[1] = FirstOf(sent', c + 1)
  BY <1>0, SendStep
<1>2. /\ \A i \in DOMAIN unread : unread'[i] = unread[i] /\ i \in DOMAIN unread'
      /\ \A i \in DOMAIN v : unread'[g + i] = v[i] /\ g + i \in DOMAIN unread'
  BY <1>0, <1>1, SendGrows
<1>3. c \in Nat /\ DOMAIN sent = 1..c /\ sent' \in Seq(SentType) /\ DOMAIN sent' = 1..(c + 1)
      /\ \A m \in DOMAIN sent : sent'[m] = sent[m]
  BY <1>0, <1>1, Shapes, Grown
<1> HIDE DEF c
<1> SUFFICES ASSUME NEW m \in DOMAIN sent', Framed(m)', Complete(m, torn)
             PROVE  \/ Delivered(m)
                    \/ parser.pc = "parses" /\ StartOf(parser.packet, m)
                    \/ StartOf(reader.buffer, m)
                    \/ \E i \in DOMAIN unread' : unread'[i] = Line(m, "start", 0)
  BY <1>1 DEF PresentInv, Delivered
<1>4. CASE m \in DOMAIN sent
  <2>1. m > 1 => m - 1 \in DOMAIN sent
    BY <1>3, <1>4
  <2>2. Framed(m)
    BY <1>1, <1>3, <1>4, <2>1 DEF Framed
  <2> QED
    BY <1>0, <1>2, <1>4, <2>2 DEF PresentInv
<1>5. CASE m = c + 1
  <2>1. sent'[m].form # "alive"
    BY DEF Framed, Exact, Measured
  <2>2. v[1] = Line(m, "start", 0) /\ 1 \in DOMAIN v
    BY <1>1, <1>5, <2>1 DEF FirstOf
  <2> QED
    BY <1>2, <2>2
<1> QED
  BY <1>3, <1>4, <1>5

\* A message whose start is lost with the connection is not complete.
LEMMA PresentCut ==
  ASSUME Cut, ReceiveInv
  PROVE  PresentInv'
<1>0. ReceiveTypes /\ StreamInv /\ PresentInv
  BY DEF ReceiveInv
<1>1. PICK k \in Nat :
           /\ k <= Len(unread) /\ DOMAIN unread' = 1..k
           /\ \A i \in 1..k : i \in DOMAIN unread /\ unread'[i] = unread[i]
           /\ k = Len(unread) => torn' = 0
           /\ k # Len(unread) => k + 1 \in DOMAIN unread /\ torn' = unread[k + 1].msg
  BY <1>0, CutIs
<1>2. UNCHANGED <<sent, reader, parser, delivered, eaten>> /\ torn = 0
  BY <1>0, Shapes DEF Cut
<1>3. DOMAIN unread = 1..Len(unread) /\ Len(unread) \in Nat
  BY <1>0, Shapes
<1> SUFFICES ASSUME NEW m \in DOMAIN sent, Framed(m), Complete(m, torn')
             PROVE  \/ Delivered(m)
                    \/ parser.pc = "parses" /\ StartOf(parser.packet, m)
                    \/ StartOf(reader.buffer, m)
                    \/ \E i \in DOMAIN unread' : unread'[i] = Line(m, "start", 0)
  BY <1>2 DEF PresentInv, Delivered, Framed
<1>4. Complete(m, torn)
  BY <1>2 DEF Complete
<1>5. ASSUME NEW i \in DOMAIN unread, unread[i] = Line(m, "start", 0) PROVE i \in 1..k
  <2> SUFFICES ASSUME i \notin 1..k PROVE FALSE
    OBVIOUS
  <2>1. k # Len(unread) /\ (i = k + 1 \/ k + 1 < i)
    <3>1. \A g \in Nat : k <= g /\ i \in 1..g => k # g /\ (i = k + 1 \/ k + 1 < i)
      OBVIOUS
    <3> QED
      BY <1>1, <1>3, <3>1
  <2>2. k + 1 \in DOMAIN unread /\ torn' = unread[k + 1].msg
    BY <1>1, <2>1
  <2>3. IsLine(sent, unread[k + 1]) /\ IsLine(sent, unread[i])
    BY <1>0, <2>2 DEF StreamInv, Chained
  <2>4. torn' \in Nat /\ torn' # 0 /\ unread[i].msg \in Nat
    BY <1>0, <2>2, <2>3, LineIs
  <2>5. unread[k + 1].msg <= unread[i].msg
    <3>1. CASE i = k + 1
      BY <2>2, <2>4, <3>1
    <3>2. CASE k + 1 < i
      BY <1>0, <2>2, <3>2 DEF StreamInv, Chained
    <3> QED
      BY <2>1, <3>1, <3>2
  <2>6. unread[i].msg = m
    BY <1>5 DEF Line
  <2> QED
    BY <2>2, <2>4, <2>5, <2>6 DEF Complete
<1> QED
  BY <1>0, <1>1, <1>4, <1>5 DEF PresentInv

\* A start that is read begins the buffer.
LEMMA PresentReadLine ==
  ASSUME ReadLine, ReceiveInv
  PROVE  PresentInv'
<1> DEFINE line == unread[1]
<1>0. ReceiveTypes /\ StreamInv /\ PresentInv
  BY DEF ReceiveInv
<1>1. /\ reader.pc = "line" /\ unread # <<>> /\ unread' = Tail(unread) /\ UNCHANGED <<sent, cut, parser, delivered, torn, eaten>>
      /\ 1 \in DOMAIN unread
      /\ \A i \in DOMAIN reader.buffer : reader'.buffer[i] = reader.buffer[i]
      /\ reader'.buffer[Len(reader.buffer) + 1] = line /\ reader'.buffer # <<>>
  BY <1>0, LineRead
<1>2. unread \in Seq(LineType) /\ DOMAIN unread = 1..Len(unread) /\ Len(unread) \in Nat
  BY <1>0, Shapes
<1>3. DOMAIN unread' = 1..(Len(unread) - 1) /\ \A i \in 1..(Len(unread) - 1) : unread'[i] = unread[i + 1]
  BY <1>0, <1>1, <1>2, TailChained DEF StreamInv
<1>4. \A i \in DOMAIN unread : i \in Nat /\ (i > 1 => i - 1 \in 1..(Len(unread) - 1) /\ (i - 1) + 1 = i) /\ (i <= 1 => i = 1)
  BY <1>2
<1>5. \A i \in DOMAIN unread : i > 1 => i - 1 \in DOMAIN unread' /\ unread'[i - 1] = unread[i]
  BY <1>3, <1>4
<1>6. ASSUME NEW m \in DOMAIN sent, Framed(m), unread[1] = Line(m, "start", 0) PROVE StartOf(reader'.buffer, m)
  <2>1. reader.buffer = <<>>
    BY <1>1, <1>6, StartReadFirst
  <2>2. Len(reader.buffer) + 1 = 1
    BY <2>1
  <2> QED
    BY <1>1, <1>6, <2>2 DEF StartOf
<1>7. ASSUME NEW m, StartOf(reader.buffer, m) PROVE StartOf(reader'.buffer, m)
  <2>1. 1 \in DOMAIN reader.buffer
    BY <1>0, <1>7, Shapes DEF StartOf
  <2> QED
    BY <1>1, <1>7, <2>1 DEF StartOf
<1>f. \A m : Framed(m)' <=> Framed(m)
  BY <1>1 DEF Framed
<1>8. \A k \in DOMAIN unread, m \in DOMAIN sent : k <= 1 /\ Framed(m)' /\ unread[k] = Line(m, "start", 0) => StartOf(reader'.buffer, m)
  BY <1>4, <1>6, <1>f
<1> QED
  BY <1>0, <1>1, <1>4, <1>5, <1>7, <1>8, <1>f, PresentKept

\* No start is read as a line of a body.
LEMMA PresentReadBody ==
  ASSUME ReadBody, ReceiveInv
  PROVE  PresentInv'
<1> DEFINE n == reader.bodyLen
           g == Len(unread)
<1>0. ReceiveTypes /\ StreamInv /\ BodyInv /\ OrderInv /\ PresentInv
  BY DEF ReceiveInv
<1>1. /\ UNCHANGED <<sent, cut, parser, delivered, torn>> /\ n \in Nat /\ reader.pc = "body" /\ reader'.buffer # <<>>
      /\ IF n <= g
              THEN /\ DOMAIN unread' = 1..(g - n)
                   /\ \A i \in 1..(g - n) : unread'[i] = unread[i + n]
              ELSE unread' = <<>>
      /\ \A i \in DOMAIN reader.buffer : reader'.buffer[i] = reader.buffer[i]
  BY <1>0, BodyTaken
<1>2. /\ \A i \in DOMAIN unread : Newest.msg <= unread[i].msg
      /\ unread # <<>> => Follows(sent, Newest, unread[1])
      /\ IsLine(sent, Newest) /\ Newest.msg \in Nat
  BY <1>0, <1>1, BodyOwner
<1>e. /\ \A i \in DOMAIN unread : i <= n /\ unread[i].msg # Newest.msg => unread[i].msg \in eaten'
      /\ eaten \subseteq eaten'
  BY BodyEats
<1>f. \A m : Framed(m)' => Framed(m) /\ m \notin eaten'
  BY <1>1, <1>e DEF Framed
<1>3. DOMAIN unread = 1..g /\ g \in Nat
  BY <1>0, Shapes
<1> HIDE DEF n, g
<1>4. \A i \in DOMAIN unread : i \in Nat /\ (i <= n => i \in 1..n)
         /\ (i > n => n <= g /\ i - n \in 1..(g - n) /\ (i - n) + n = i)
  BY <1>1, <1>3
<1>5. \A i \in DOMAIN unread : i > n => i - n \in DOMAIN unread' /\ unread'[i - n] = unread[i]
  BY <1>1, <1>4
<1>6. \A k \in DOMAIN unread, m \in DOMAIN sent : k <= n /\ Framed(m)' /\ unread[k] = Line(m, "start", 0) => StartOf(reader'.buffer, m)
  <2> TAKE k \in DOMAIN unread, m \in DOMAIN sent
  <2> HAVE k <= n /\ Framed(m)' /\ unread[k] = Line(m, "start", 0)
  <2>1. unread[k].msg = m /\ unread[k].kind = "start"
    BY DEF Line
  <2>2. m = Newest.msg
    BY <2>1, <1>e, <1>f
  <2>3. CASE k = 1
    <3>1. unread # <<>> /\ IsLine(sent, unread[1])
      BY <2>3, <1>0, EmptyIs DEF StreamInv, Chained
    <3>2. m = Newest.msg + 1
      BY <2>1, <2>3, <3>1, <1>0, <1>2, AfterKind
    <3> QED
      BY <2>2, <3>2, <1>2
  <2>4. CASE k # 1
    <3>1. 1 \in DOMAIN unread /\ 1 < k
      BY <2>4, <1>3
    <3>2. unread[1].msg < unread[k].msg /\ unread[1].msg \in Nat
      BY <1>0, <2>1, <3>1, LineIs DEF OrderInv, StreamInv, Chained
    <3> QED
      BY <2>1, <2>2, <3>1, <3>2, <1>2
  <2> QED
    BY <2>3, <2>4
<1>7. ASSUME NEW m, StartOf(reader.buffer, m) PROVE StartOf(reader'.buffer, m)
  <2>1. 1 \in DOMAIN reader.buffer
    BY <1>0, <1>7, Shapes DEF StartOf
  <2> QED
    BY <1>1, <1>7, <2>1 DEF StartOf
<1> QED
  BY <1>0, <1>1, <1>4, <1>5, <1>6, <1>7, <1>f, PresentKept

\* When the reader ends, it holds no message that came whole.
LEMMA PresentReaderEnds ==
  ASSUME ReaderEnds, ReceiveInv
  PROVE  PresentInv'
<1>0. ReceiveTypes /\ StreamInv /\ KnownInv /\ LineInv /\ PresentInv
  BY DEF ReceiveInv
<1>1. /\ reader.pc = "line" /\ unread = <<>> /\ cut /\ parser'.packet = parser.packet /\ parser'.pc = parser.pc
      /\ UNCHANGED <<sent, unread, cut, delivered, torn, eaten>>
  BY <1>0 DEF ReaderEnds, ReceiveTypes
<1>2. ASSUME NEW m \in DOMAIN sent, Framed(m), Complete(m, torn), StartOf(reader.buffer, m) PROVE FALSE
  <2>1. Starts(reader.buffer) /\ reader.buffer[1] = Line(m, "start", 0) /\ reader.buffer[1].msg = m /\ Exact(sent[m])
    BY <1>2 DEF StartOf, Starts, Line, Framed
  <2>2. reader.buffer = <<Line(m, "start", 0)>> \/ reader.buffer = HeadOf(sent, m)
    BY <1>0, <1>1, <2>1 DEF LineInv
  <2>3. Newest = Line(m, "start", 0) \/ Newest = Line(m, "full", sent[m].len)
    <3>1. CASE reader.buffer = <<Line(m, "start", 0)>>
      <4>1. Line(m, "start", 0) \in LineType
        BY <1>0, <2>1, StartsIs, LineIs
      <4>2. Len(reader.buffer) = 1
        BY <3>1, <4>1
      <4> QED
        BY <2>1, <4>2 DEF Newest
    <3>2. CASE reader.buffer = HeadOf(sent, m)
      <4>1. reader.buffer[Len(reader.buffer)] = IF Headed(sent, m) THEN Line(m, sent[m].form, sent[m].len) ELSE Line(m, "start", 0)
        BY <1>0, <3>2, HeadIs
      <4> QED
        BY <2>1, <4>1 DEF Newest, Headed, Exact, Measured
    <3> QED
      BY <2>2, <3>1, <3>2
  <2>4. Newest.msg = m /\ ~Ends(sent, Newest)
    BY <2>3 DEF Ends, Line
  <2>5. Holds
    BY <1>0, <1>1, <2>1 DEF StreamInv, Starts
  <2>6. StopsAt(sent, Newest, cut, torn)
    BY <1>0, <1>1, <2>5 DEF StreamInv
  <2> QED
    BY <1>2, <2>4, <2>6 DEF StopsAt
<1>3. \A i \in DOMAIN unread : FALSE
  BY <1>1, EmptyIs
<1> SUFFICES ASSUME NEW m \in DOMAIN sent, Framed(m), Complete(m, torn)
             PROVE  Delivered(m) \/ (parser.pc = "parses" /\ StartOf(parser.packet, m))
  BY <1>1 DEF PresentInv, Delivered, Framed
<1> QED
  BY <1>0, <1>2, <1>3 DEF PresentInv

\* Every step keeps the framed messages on their way.
LEMMA PresentStep == ReceiveInv /\ [ReceiveNext]_receiveVars => PresentInv'
<1> SUFFICES ASSUME ReceiveInv, [ReceiveNext]_receiveVars PROVE PresentInv'
  OBVIOUS
<1>0. ReceiveTypes /\ PresentInv
  BY DEF ReceiveInv
<1>1. ASSUME NEW form \in Forms, NEW k \in Bodies(form), NEW len \in Given(form), DeviceSends([form |-> form, body |-> k, len |-> len]) PROVE PresentInv'
  BY <1>1, PresentSend
<1>2. CASE Cut
  BY <1>2, PresentCut
<1>3. CASE ReadLine
  BY <1>3, PresentReadLine
<1>4. CASE ReadBody
  BY <1>4, PresentReadBody
<1>5. CASE HandOver
  <2>1. /\ parser.pc = "waits" /\ parser'.pc = "parses" /\ parser'.packet = reader.buffer
        /\ UNCHANGED <<sent, unread, delivered, torn, eaten>>
    BY <1>0, <1>5 DEF HandOver, ReceiveTypes
  <2> QED
    BY <1>0, <2>1 DEF PresentInv, Framed, Delivered
<1>6. CASE ReaderEnds
  BY <1>6, PresentReaderEnds
<1>7. CASE ParsePacket
  <2> DEFINE p == parser.packet
  <2>1. /\ UNCHANGED <<sent, unread, reader, torn, eaten>>
        /\ \A i \in DOMAIN delivered : i \in DOMAIN delivered' /\ delivered'[i] = delivered[i]
        /\ Starts(p) /\ Exact(sent[p[1].msg]) => \E i \in DOMAIN delivered' : delivered'[i].msg = p[1].msg
    BY <1>7, PacketParsed
  <2>2. ASSUME NEW m \in DOMAIN sent, Framed(m), Delivered(m) \/ StartOf(p, m) PROVE \E i \in DOMAIN delivered' : delivered'[i].msg = m
    <3>1. CASE Delivered(m)
      BY <2>1, <3>1 DEF Delivered
    <3>2. CASE StartOf(p, m)
      <4>1. Starts(p) /\ p[1].msg = m /\ Exact(sent[m])
        BY <2>2, <3>2 DEF StartOf, Starts, Line, Framed
      <4> QED
        BY <2>1, <4>1
    <3> QED
      BY <2>2, <3>1, <3>2
  <2> SUFFICES ASSUME NEW m \in DOMAIN sent, Framed(m), Complete(m, torn)
               PROVE  \/ \E i \in DOMAIN delivered' : delivered'[i].msg = m
                      \/ StartOf(reader.buffer, m)
                      \/ \E i \in DOMAIN unread : unread[i] = Line(m, "start", 0)
    BY <2>1 DEF PresentInv, Delivered, Framed
  <2> QED
    BY <1>0, <2>2 DEF PresentInv
<1>8. CASE UNCHANGED receiveVars
  BY <1>0, <1>8 DEF PresentInv, receiveVars, Framed, Delivered
<1> QED
  BY <1>1, <1>2, <1>3, <1>4, <1>5, <1>6, <1>7, <1>8 DEF ReceiveNext

\* Every step keeps to the messages their own bodies.
LEMMA OwnBodiesStep == ReceiveInv /\ [ReceiveNext]_receiveVars => OwnBodies'
<1> SUFFICES ASSUME ReceiveInv, [ReceiveNext]_receiveVars PROVE OwnBodies'
  OBVIOUS
<1>0. ReceiveTypes /\ OrderInv /\ OwnBodies
  BY DEF ReceiveInv
<1>d. \A i \in DOMAIN delivered : delivered[i].msg \in DOMAIN sent
  BY <1>0 DEF OrderInv
<1>1. ASSUME NEW form \in Forms, NEW k \in Bodies(form), NEW len \in Given(form), DeviceSends([form |-> form, body |-> k, len |-> len]) PROVE OwnBodies'
  <2>1. PICK x \in SentType, v \in Seq(LineType) : sent' = Append(sent, x) /\ UNCHANGED <<delivered, torn, eaten>>
    BY <1>0, <1>1, SendStep
  <2>2. \A m \in DOMAIN sent : sent'[m] = sent[m]
    BY <1>0, <2>1, Shapes, Grown
  <2> QED
    BY <1>0, <1>d, <2>1, <2>2 DEF OwnBodies
<1>2. CASE Cut
  <2>1. torn = 0 /\ UNCHANGED <<sent, delivered>>
    BY <1>0, <1>2, Shapes DEF Cut
  <2>2. \A m \in DOMAIN sent : m # 0
    BY <1>0, Shapes
  <2> QED
    BY <1>0, <1>d, <2>1, <2>2 DEF OwnBodies
<1>3. CASE ReadLine \/ ReadBody \/ HandOver \/ ReaderEnds \/ UNCHANGED receiveVars
  <2>1. UNCHANGED <<sent, delivered, torn>>
    BY <1>3 DEF ReadLine, ReadBody, HandOver, ReaderEnds, receiveVars
  <2> QED
    BY <1>0, <2>1 DEF OwnBodies
<1>4. CASE ParsePacket
  <2>1. /\ UNCHANGED <<sent, torn>>
        /\ \A i \in DOMAIN delivered : i \in DOMAIN delivered' /\ delivered'[i] = delivered[i]
        /\ \A i \in DOMAIN delivered' : i \notin DOMAIN delivered =>
              LET m == parser.packet[1].msg
              IN /\ delivered'[i].msg = m
                 /\ Exact(sent[m]) /\ m # torn => delivered'[i].body = BodyOf(m, sent[m].body)
    BY <1>4, PacketParsed
  <2> QED
    BY <1>0, <2>1 DEF OwnBodies
<1> QED
  BY <1>1, <1>2, <1>3, <1>4 DEF ReceiveNext

\* The strengthening is an invariant of the connection.
LEMMA ReceiveInvHolds == ReceiveSpec => []ReceiveInv
<1>1. ReceiveInit => ReceiveInv
  BY ReceiveStart
<1>2. ReceiveInv /\ [ReceiveNext]_receiveVars => ReceiveInv'
  <2>1. ReceiveInv => ReceiveTypes /\ PacketInv
    BY DEF ReceiveInv
  <2> QED
    BY <2>1, ReceiveTypesStep, StreamStep, KnownStep, LineInvStep, PacketStep, OrderStep, PresentStep, OwnBodiesStep DEF ReceiveInv
<1> QED
  BY <1>1, <1>2, PTL DEF ReceiveSpec

\* For any number of messages, any bodies and any numbers given for their lengths: messages
\* are delivered in the order they were written in, each once; one that gives its own length
\* and was read to its end has its own body; and it is delivered, unless lines of it were read
\* as the body of another, or the message before it has a body and no such length or lost
\* lines to another's body itself (ProcessTcpConn, start).
THEOREM MessagesDelivered == ReceiveSpec => []FramedDelivered
<1>1. ReceiveInv => FramedDelivered
  <2> SUFFICES ASSUME ReceiveInv PROVE FramedDelivered
    OBVIOUS
  <2>1. OrderInv /\ PresentInv /\ OwnBodies
    BY DEF ReceiveInv
  <2>2. \A i, j \in DOMAIN delivered : i < j => delivered[i].msg < delivered[j].msg
    BY <2>1 DEF OrderInv
  <2>3. \A i \in DOMAIN delivered :
          LET m == delivered[i].msg
          IN Exact(sent[m]) /\ m # torn => delivered[i].body = BodyOf(m, sent[m].body)
    BY <2>1 DEF OwnBodies
  <2>4. unread = <<>> /\ reader.buffer = <<>> /\ parser.pc # "parses" =>
          \A m \in DOMAIN sent : Framed(m) /\ (torn = 0 \/ m < torn) => Delivered(m)
    BY <2>1, EmptyIs DEF PresentInv, Complete, StartOf
  <2> QED
    BY <2>2, <2>3, <2>4 DEF FramedDelivered
<1> QED
  BY <1>1, ReceiveInvHolds, PTL

-----------------------------------------------------------------------------
(* SipTransactions. *)

USE DEF Goto, txVars, boundVars, callerVars, listenerVars

-----------------------------------------------------------------------------
(* Type correctness.                                                       *)

LEMMA TypeInit == Init => TypeOK
<1> SUFFICES ASSUME Init PROVE TypeOK
  OBVIOUS
<1> USE SipAssumption DEF Init, Txs
<1>1. TxType
  BY DEF TxType, Stages
<1>2. CountType
  BY DEF CountType
<1>3. CallerType
  BY DEF CallerType, Labels, Codes
<1>4. ListenerType
  BY DEF ListenerType, ListenLabels, Codes
<1> QED
  BY <1>1, <1>2, <1>3, <1>4 DEF TypeOK

\* What the operations on the table and on the channels leave well typed.
LEMMA NewType ==
  ASSUME TxType, NEW k \in Keys, NewTX(k) PROVE TxType' /\ created + 1 \in Txs
BY SipAssumption DEF TxType, NewTX, Txs, Stages

LEMMA ReturnType ==
  ASSUME CallerType, NEW c \in Callers, Return(c) PROVE CallerType'
BY SipAssumption DEF CallerType, Return, Labels, Codes

LEMMA ListenAgainType ==
  ASSUME ListenerType, ListenAgain PROVE ListenerType'
BY SipAssumption DEF ListenerType, ListenAgain, ListenLabels, Codes

LEMMA ActivateType ==
  ASSUME TxType, NEW t \in Txs, Activate(t) PROVE tokens' \in [Txs -> 0..1]
<1>1. tokens[t] \in 0..1 /\ tokens[t] < 1
  BY DEF TxType, Activate
<1>2. tokens[t] + 1 \in 0..1
  BY <1>1
<1>3. tokens' = [tokens EXCEPT ![t] = tokens[t] + 1]
  BY DEF Activate
<1> QED
  BY <1>2, <1>3 DEF TxType

LEMMA CallType ==
  ASSUME TypeOK, InUse, NEW c \in Callers, Call(c) PROVE TypeOK'
<1> USE SipAssumption DEF TypeOK
<1>k. /\ CallID[c] \in Keys
      /\ pc[c] \in {"send", "receive", "signal"} => tx[c] \in Txs
  BY DEF CallerType, TxType, InUse, Txs
<1>1. CASE LookupTX(c)
  <2>1. CallerType'
    BY <1>1, <1>k DEF LookupTX, CallerType, TxType, Labels
  <2> QED
    BY <1>1, <2>1 DEF LookupTX, TxType, CountType, ListenerType
<1>2. CASE CreateTX(c)
  <2>1. TxType' /\ created + 1 \in Txs
    BY <1>2, <1>k, NewType DEF CreateTX
  <2>2. CallerType'
    BY <1>2, <2>1 DEF CreateTX, CallerType, Labels, Txs
  <2> QED
    BY <1>2, <2>1, <2>2 DEF CreateTX, CountType, ListenerType
<1>3. CASE SendRequest(c)
  <2>1. CallerType'
    BY <1>3, ReturnType DEF SendRequest, CallerType, Labels
  <2> QED
    BY <1>3, <1>k, <2>1 DEF SendRequest, TxType, CountType, ListenerType
<1>4. CASE TakeResponse(c)
  <2> DEFINE q == queue[tx[c]]
  <2>1. q \in Seq(Codes) /\ q # <<>>
    BY <1>4, <1>k DEF TakeResponse, TxType
  <2>2. Head(q) \in Codes /\ Tail(q) \in Seq(Codes)
    BY <2>1
  <2>3. queue' \in [Txs -> Seq(Codes)]
    BY <1>4, <2>2 DEF TakeResponse, TxType
  <2>4. CallerType'
    BY <1>4, <2>2 DEF TakeResponse, CallerType, Labels
  <2> QED
    BY <1>4, <2>3, <2>4 DEF TakeResponse, TxType, CountType, ListenerType
<1>5. CASE ResponseTimeout(c) \/ SignalPanics(c)
  <2>1. CallerType'
    BY <1>5, ReturnType DEF ResponseTimeout, SignalPanics
  <2> QED
    BY <1>5, <2>1 DEF ResponseTimeout, SignalPanics, TxType, CountType, ListenerType
<1>6. CASE SignalWatch(c)
  <2>1. CallerType'
    BY <1>6, ReturnType DEF SignalWatch, CallerType, Labels
  <2>3. tokens' \in [Txs -> 0..1]
    BY <1>6, <1>k, ActivateType DEF SignalWatch
  <2> QED
    BY <1>6, <2>1, <2>3 DEF SignalWatch, TxType, CountType, ListenerType
<1> QED
  BY <1>1, <1>2, <1>3, <1>4, <1>5, <1>6 DEF Call

LEMMA WatchType ==
  ASSUME TypeOK, NEW t \in Txs, Watch(t) PROVE TypeOK'
<1> USE SipAssumption DEF TypeOK
<1>1. TxType'
  <2>1. CASE WatchActive(t)
    <3>1. tokens[t] - 1 \in 0..1
      BY <2>1 DEF WatchActive, TxType
    <3>2. tokens' \in [Txs -> 0..1]
      BY <2>1, <3>1 DEF WatchActive, TxType
    <3> QED
      BY <2>1, <3>2 DEF WatchActive, TxType
  <2>2. CASE WatchTimeout(t)
    BY <2>2 DEF WatchTimeout, RmTX, TxType, Stages
  <2>3. CASE CloseResp(t) \/ CloseActive(t)
    BY <2>3 DEF CloseResp, CloseActive, TxType, Stages
  <2> QED
    BY <2>1, <2>2, <2>3 DEF Watch
<1>2. CountType' /\ CallerType' /\ ListenerType'
  BY DEF Watch, WatchActive, WatchTimeout, CloseResp, CloseActive, CountType, CallerType,
         ListenerType
<1> QED
  BY <1>1, <1>2

LEMMA ListenType ==
  ASSUME TypeOK, InUse, Listen PROVE TypeOK'
<1> USE SipAssumption DEF TypeOK
<1>k. lpc \in {"deliver", "signal"} => ltx \in Txs
  BY DEF TxType, InUse, Txs
<1>1. CASE Deliver
  <2>1. Append(queue[ltx], lcode) \in Seq(Codes)
    BY <1>1, <1>k DEF Deliver, TxType, ListenerType
  <2>2. queue' \in [Txs -> Seq(Codes)]
    BY <1>1, <2>1 DEF Deliver, Enqueue, TxType
  <2>3. ListenerType'
    BY <1>1 DEF Deliver, ListenerType, ListenLabels
  <2> QED
    BY <1>1, <2>2, <2>3 DEF Deliver, TxType, CountType, CallerType
<1>2. CASE DeliverSignal
  <2>2. tokens' \in [Txs -> 0..1]
    BY <1>2, <1>k, ActivateType DEF DeliverSignal
  <2>3. ListenerType'
    BY <1>2, ListenAgainType DEF DeliverSignal
  <2> QED
    BY <1>2, <2>2, <2>3 DEF DeliverSignal, TxType, CountType, CallerType
<1>3. CASE DeliverPanics
  <2>1. ListenerType'
    BY <1>3, ListenAgainType DEF DeliverPanics
  <2> QED
    BY <1>3, <2>1 DEF DeliverPanics, TxType, CountType, CallerType
<1>4. CASE PeerCreateTX
  <2>1. ListenerType' /\ TxType'
    BY <1>4, ListenAgainType, NewType DEF PeerCreateTX, ListenerType
  <2> QED
    BY <1>4, <2>1 DEF PeerCreateTX, CountType, CallerType
<1> QED
  BY <1>1, <1>2, <1>3, <1>4 DEF Listen

LEMMA ArriveType ==
  ASSUME TypeOK, NEW k \in Keys,
         RequestArrives(k) \/ \E r \in Codes : ResponseArrives(k, r)
  PROVE  TypeOK'
<1> USE SipAssumption DEF TypeOK
<1>1. CASE RequestArrives(k)
  <2>1. ListenerType'
    BY <1>1 DEF RequestArrives, ListenerType, ListenLabels
  <2> QED
    BY <1>1, <2>1 DEF RequestArrives, TxType, CountType, CallerType
<1>2. ASSUME NEW r \in Codes, ResponseArrives(k, r) PROVE TypeOK'
  <2>1. ListenerType'
    BY <1>2 DEF ResponseArrives, ListenerType, ListenLabels, TxType
  <2> QED
    BY <1>2, <2>1 DEF ResponseArrives, TxType, CountType, CallerType
<1> QED
  BY <1>1, <1>2

LEMMA BeginType ==
  ASSUME TypeOK, NEW c \in Callers, BeginRequest(c) PROVE TypeOK'
<1>1. CallerType' /\ CountType'
  BY SipAssumption DEF BeginRequest, TypeOK, CallerType, CountType, Labels
<1> QED
  BY <1>1 DEF BeginRequest, TypeOK, TxType, ListenerType

LEMMA TypeStep == TypeOK /\ InUse /\ [Next]_vars => TypeOK'
<1> SUFFICES ASSUME TypeOK, InUse, [Next]_vars PROVE TypeOK'
  OBVIOUS
<1>1. CASE UNCHANGED vars
  BY <1>1 DEF vars, TypeOK, TxType, CountType, CallerType, ListenerType
<1> QED
  BY <1>1, BeginType, CallType, WatchType, ListenType, ArriveType DEF Next

-----------------------------------------------------------------------------
(* The invariant of the table.                                             *)

TableInv == InUse /\ TableOpen /\ SoleTransaction

\* A step that leaves the table, the stages and the keys alone, and takes every
\* transaction a caller or the listener goes on to use from what it used before.
Quiet ==
  /\ UNCHANGED <<table, key, stage, created>>
  /\ \A c \in Callers :
       /\ pc'[c] \in {"send", "receive", "signal"}
            => pc[c] \in {"send", "receive", "signal"} /\ tx'[c] = tx[c]
       /\ pc'[c] = "create" => pc[c] = "create"
  /\ lpc' \in {"deliver", "signal"} => lpc \in {"deliver", "signal"} /\ ltx' = ltx
  /\ lpc' = "create" => lpc = "create" /\ lkey' = lkey

LEMMA QuietKeeps == TableInv /\ Quiet => TableInv'
<1> SUFFICES ASSUME TableInv, Quiet PROVE TableInv'
  OBVIOUS
<1> USE DEF TableInv, Quiet
<1>1. InUse'
  BY DEF InUse
<1>2. TableOpen'
  BY DEF TableOpen
<1>3. SoleTransaction'
  BY DEF SoleTransaction, SoleUser
<1> QED
  BY <1>1, <1>2, <1>3

LEMMA QuietSteps ==
  ASSUME TypeOK,
         \/ \E c \in Callers : BeginRequest(c) \/ SendRequest(c) \/ TakeResponse(c)
                               \/ ResponseTimeout(c) \/ SignalWatch(c) \/ SignalPanics(c)
         \/ \E t \in Txs : WatchActive(t)
         \/ Deliver \/ DeliverSignal \/ DeliverPanics
         \/ UNCHANGED vars
  PROVE  Quiet
<1> USE DEF TypeOK, CallerType, Quiet
<1>1. ASSUME NEW c \in Callers, BeginRequest(c) PROVE Quiet
  BY <1>1 DEF BeginRequest
<1>2. ASSUME NEW c \in Callers, SendRequest(c) PROVE Quiet
  BY <1>2 DEF SendRequest, Return
<1>3. ASSUME NEW c \in Callers, TakeResponse(c) PROVE Quiet
  BY <1>3 DEF TakeResponse
<1>4. ASSUME NEW c \in Callers, ResponseTimeout(c) \/ SignalPanics(c) PROVE Quiet
  BY <1>4 DEF ResponseTimeout, SignalPanics, Return
<1>5. ASSUME NEW c \in Callers, SignalWatch(c) PROVE Quiet
  BY <1>5 DEF SignalWatch, Return
<1>6. ASSUME NEW t \in Txs, WatchActive(t) PROVE Quiet
  BY <1>6 DEF WatchActive
<1>7. CASE Deliver \/ DeliverSignal \/ DeliverPanics
  BY <1>7 DEF Deliver, DeliverSignal, DeliverPanics, ListenAgain
<1>8. CASE UNCHANGED vars
  BY <1>8 DEF vars
<1> QED
  BY <1>1, <1>2, <1>3, <1>4, <1>5, <1>6, <1>7, <1>8

LEMMA LookupKeeps ==
  ASSUME TypeOK, TableInv, NEW c \in Callers, LookupTX(c) PROVE TableInv'
<1> USE DEF TypeOK, CallerType, TxType, TableInv, LookupTX
<1>1. CallID[c] \in Keys
  BY SipAssumption
<1>2. InUse'
  BY <1>1, SipAssumption DEF InUse, TableOpen
<1>3. TableOpen'
  BY DEF TableOpen
<1>4. SoleTransaction'
  BY <1>1 DEF SoleTransaction, SoleUser
<1> QED
  BY <1>2, <1>3, <1>4

\* A new transaction is open, filed under its key, and no other of a sole user's
\* Call-ID is open.
LEMMA NewKeeps ==
  ASSUME TypeOK, TableInv, NEW k \in Keys, NewTX(k), UNCHANGED lkey,
         \A c \in Callers : SoleUser(c) /\ CallID[c] = k => table[k] = 0,
         \A c \in Callers : /\ pc'[c] \in {"send", "receive", "signal"}
                                 => \/ /\ pc[c] \in {"send", "receive", "signal"}
                                       /\ tx'[c] = tx[c]
                                    \/ tx'[c] = created + 1 /\ CallID[c] = k
                            /\ pc'[c] = "create" => pc[c] = "create"
                            /\ SoleUser(c) /\ CallID[c] = k => pc'[c] # "create",
         lpc' \in {"deliver", "signal"} => lpc \in {"deliver", "signal"} /\ ltx' = ltx,
         lpc' = "create" => lpc = "create"
  PROVE  TableInv'
<1> DEFINE n == created + 1
<1>1. /\ n \in Txs /\ created \in Nat /\ created' = n
      /\ key' = [key EXCEPT ![n] = k] /\ stage' = [stage EXCEPT ![n] = "open"]
      /\ table' = [table EXCEPT ![k] = n]
  <2>1. TxType
    BY DEF TypeOK
  <2>2. n \in Txs /\ created \in Nat
    BY <2>1, NewType DEF TxType
  <2> QED
    BY <2>2 DEF NewTX
<1>2. /\ table \in [Keys -> Nat] /\ key \in [Txs -> Keys] /\ stage \in [Txs -> Stages]
      /\ \A t \in 1..created : t \in Txs /\ t # n
      /\ CallID \in [Callers -> Keys] /\ lkey \in Keys
  <2>1. table \in [Keys -> Nat]
    BY SipAssumption DEF TypeOK, TxType
  <2>2. key \in [Txs -> Keys] /\ stage \in [Txs -> Stages]
    BY DEF TypeOK, TxType
  <2>3. \A t \in 1..created : t \in Txs /\ t # n
    BY <1>1, SipAssumption DEF Txs
  <2>4. CallID \in [Callers -> Keys] /\ lkey \in Keys
    BY SipAssumption DEF TypeOK, ListenerType
  <2> QED
    BY <2>1, <2>2, <2>3, <2>4
<1>n. n = created + 1
  OBVIOUS
<1> HIDE DEF n
<1> USE DEF TableInv
<1>3. InUse'
  <2>1. \A j \in Keys : table'[j] <= created'
    BY <1>1, <1>2, <1>n DEF InUse
  <2>2. ASSUME NEW c \in Callers, pc'[c] \in {"send", "receive", "signal"}
        PROVE  tx'[c] \in 1..created' /\ key'[tx'[c]] = CallID[c]
    <3>1. CASE pc[c] \in {"send", "receive", "signal"} /\ tx'[c] = tx[c]
      BY <1>1, <1>2, <1>n, <3>1 DEF InUse
    <3>2. CASE tx'[c] = n /\ CallID[c] = k
      BY <1>1, <1>2, <1>n, <3>2
    <3> QED
      BY <1>n, <2>2, <3>1, <3>2
  <2>4. \A t \in Txs : stage'[t] # "none" => t <= created'
    BY <1>1, <1>2, <1>n DEF InUse
  <2>3. /\ lpc' \in {"deliver", "signal"} => ltx' \in 1..created'
        /\ lpc' = "create" => lkey' \in PeerKeys
    BY <1>1, <1>n DEF InUse
  <2> QED
    BY <2>1, <2>2, <2>3, <2>4 DEF InUse
<1>4. TableOpen'
  <2> SUFFICES ASSUME NEW j \in Keys, table'[j] # 0
               PROVE  stage'[table'[j]] = "open" /\ key'[table'[j]] = j
    BY DEF TableOpen
  <2>1. CASE j = k
    BY <1>1, <1>2, <2>1
  <2>2. CASE j # k
    <3>1. table'[j] = table[j] /\ table[j] # n /\ table[j] \in 1..created
      BY <1>1, <1>2, <1>n, <2>2 DEF InUse
    <3>2. stage[table[j]] = "open" /\ key[table[j]] = j
      BY <3>1 DEF TableOpen
    <3> QED
      BY <1>1, <1>2, <3>1, <3>2
  <2> QED
    BY <2>1, <2>2
<1>5. SoleTransaction'
  <2> SUFFICES ASSUME NEW c \in Callers, SoleUser(c)
               PROVE  /\ pc'[c] = "create" => table'[CallID[c]] = 0
                      /\ \A t \in 1..created' : stage'[t] = "open" /\ key'[t] = CallID[c]
                                                  => table'[CallID[c]] = t
    BY DEF SoleTransaction, SoleUser
  <2>1. CASE CallID[c] = k
    <3>1. \A t \in 1..created : ~(stage[t] = "open" /\ key[t] = k)
      BY <1>2, <2>1 DEF SoleTransaction
    <3> QED
      BY <1>1, <1>2, <1>n, <2>1, <3>1
  <2>2. CASE CallID[c] # k
    <3>1. table'[CallID[c]] = table[CallID[c]]
      BY <1>1, <1>2, <2>2
    <3>2. ASSUME NEW t \in 1..created', stage'[t] = "open", key'[t] = CallID[c]
          PROVE  table'[CallID[c]] = t
      <4>1. t # n /\ t \in 1..created
        BY <1>1, <1>2, <1>n, <2>2, <3>2
      <4>2. stage[t] = "open" /\ key[t] = CallID[c]
        BY <1>1, <1>2, <3>2, <4>1
      <4> QED
        BY <3>1, <4>1, <4>2 DEF SoleTransaction
    <3> QED
      BY <3>1, <3>2 DEF SoleTransaction
  <2> QED
    BY <2>1, <2>2
<1> QED
  BY <1>3, <1>4, <1>5

LEMMA CreateKeeps ==
  ASSUME TypeOK, TableInv, NEW c \in Callers, CreateTX(c) PROVE TableInv'
<1>1. /\ CallID[c] \in Keys /\ NewTX(CallID[c]) /\ UNCHANGED <<lkey, ltx, lpc>>
      /\ pc[c] = "create" /\ pc'[c] = "send" /\ tx'[c] = created + 1
      /\ \A e \in Callers \ {c} : pc'[e] = pc[e] /\ tx'[e] = tx[e]
  BY SipAssumption DEF CreateTX, TypeOK, CallerType
<1>2. ASSUME NEW e \in Callers, SoleUser(e), CallID[e] = CallID[c]
      PROVE  e = c /\ table[CallID[c]] = 0
  BY <1>1, <1>2 DEF SoleUser, TableInv, SoleTransaction
<1> HIDE DEF CreateTX
<1> QED
  BY <1>1, <1>2, NewKeeps

LEMMA PeerCreateKeeps ==
  ASSUME TypeOK, TableInv, PeerCreateTX PROVE TableInv'
<1>1. /\ lkey \in Keys /\ lkey \in PeerKeys /\ NewTX(lkey)
      /\ UNCHANGED <<lkey, pc, tx>> /\ lpc' = "idle"
  BY DEF PeerCreateTX, ListenAgain, TypeOK, ListenerType, TableInv, InUse
<1>2. ASSUME NEW e \in Callers, SoleUser(e) PROVE CallID[e] # lkey
  BY <1>1, <1>2 DEF SoleUser
<1> QED
  BY <1>1, <1>2, NewKeeps

\* Close takes only its own transaction's entry for the stages to fall behind.
LEMMA CloseKeeps ==
  ASSUME TypeOK, TableInv, NEW t \in Txs,
         WatchTimeout(t) \/ CloseResp(t) \/ CloseActive(t)
  PROVE  TableInv'
<1>1. /\ UNCHANGED <<key, created, pc, tx, lpc, lkey, ltx>>
      /\ \A u \in Txs \ {t} : stage'[u] = stage[u]
      /\ stage'[t] # "open"
      /\ \/ table' = [table EXCEPT ![key[t]] = 0]
         \/ table' = table /\ stage[t] # "open"
  BY DEF WatchTimeout, RmTX, CloseResp, CloseActive, TypeOK, TxType
<1>2. /\ table \in [Keys -> Nat] /\ key[t] \in Keys /\ 1..created \subseteq Txs
      /\ created \in Nat /\ CallID \in [Callers -> Keys]
  BY SipAssumption DEF TypeOK, TxType, Txs
<1>3. \A k \in Keys : table'[k] = table[k] \/ table'[k] = 0
  BY <1>1, <1>2
<1>7. table' = table \/ stage[t] = "open"
  BY DEF WatchTimeout, CloseResp, CloseActive
<1>8. stage[t] # "none"
  BY DEF WatchTimeout, CloseResp, CloseActive
<1> USE DEF TableInv
<1>4. InUse'
  BY <1>1, <1>2, <1>3, <1>8 DEF InUse
<1>5. TableOpen'
  <2> SUFFICES ASSUME NEW k \in Keys, table'[k] # 0
               PROVE  stage'[table'[k]] = "open" /\ key'[table'[k]] = k
    BY DEF TableOpen
  <2>1. table'[k] = table[k] /\ stage[table[k]] = "open" /\ key[table[k]] = k
    BY <1>3 DEF TableOpen
  <2>2. table[k] \in Txs
    BY <1>2, <2>1 DEF InUse
  <2>3. table[k] # t
    BY <1>1, <1>2, <2>1
  <2> QED
    BY <1>1, <2>1, <2>2, <2>3
<1>6. SoleTransaction'
  <2> SUFFICES ASSUME NEW c \in Callers, SoleUser(c)
               PROVE  /\ pc'[c] = "create" => table'[CallID[c]] = 0
                      /\ \A u \in 1..created' : stage'[u] = "open" /\ key'[u] = CallID[c]
                                                  => table'[CallID[c]] = u
    BY DEF SoleTransaction, SoleUser
  <2>1. pc'[c] = "create" => table'[CallID[c]] = 0
    BY <1>1, <1>2, <1>3 DEF SoleTransaction
  <2>2. ASSUME NEW u \in 1..created', stage'[u] = "open", key'[u] = CallID[c]
        PROVE  table'[CallID[c]] = u
    <3>1. u # t /\ u \in 1..created /\ stage[u] = "open" /\ key[u] = CallID[c]
      BY <1>1, <1>2, <2>2
    <3>2. table[CallID[c]] = u
      BY <3>1 DEF SoleTransaction
    <3>3. stage[t] = "open" => t \in 1..created
      BY SipAssumption DEF InUse, Txs
    <3>4. stage[t] = "open" => key[t] # CallID[c]
      BY <3>1, <3>2, <3>3 DEF SoleTransaction
    <3>5. table'[CallID[c]] = table[CallID[c]]
      BY <1>1, <1>2, <1>7, <3>4
    <3> QED
      BY <3>2, <3>5
  <2> QED
    BY <2>1, <2>2
<1> QED
  BY <1>4, <1>5, <1>6

LEMMA ArriveKeeps ==
  ASSUME TypeOK, TableInv, NEW k \in Keys,
         RequestArrives(k) \/ \E r \in Codes : ResponseArrives(k, r)
  PROVE  TableInv'
<1>1. UNCHANGED <<table, key, stage, created, pc, tx>>
  BY DEF RequestArrives, ResponseArrives
<1> USE DEF TableInv
<1>2. InUse'
  <2>1. lpc' \in {"deliver", "signal"} => ltx' \in 1..created'
    <3>1. CASE RequestArrives(k)
      BY <3>1 DEF RequestArrives, InUse
    <3>2. ASSUME NEW r \in Codes, ResponseArrives(k, r), table[k] # 0
          PROVE  ltx' \in 1..created'
      BY <1>1, <3>2 DEF ResponseArrives, InUse, TypeOK, TxType
    <3>3. ASSUME NEW r \in Codes, ResponseArrives(k, r), table[k] = 0
          PROVE  lpc' = "idle"
      BY <3>3 DEF ResponseArrives
    <3> QED
      BY <3>1, <3>2, <3>3
  <2>2. lpc' = "create" => lkey' \in PeerKeys
    BY DEF RequestArrives, ResponseArrives, InUse
  <2> QED
    BY <1>1, <2>1, <2>2 DEF InUse
<1>3. TableOpen'
  BY <1>1 DEF TableOpen
<1>4. SoleTransaction'
  BY <1>1 DEF SoleTransaction, SoleUser
<1> QED
  BY <1>2, <1>3, <1>4

LEMMA TableStep == TypeOK /\ TableInv /\ [Next]_vars => TableInv'
<1> SUFFICES ASSUME TypeOK, TableInv, [Next]_vars PROVE TableInv'
  OBVIOUS
<1>1. ASSUME NEW c \in Callers, BeginRequest(c) \/ Call(c) PROVE TableInv'
  BY <1>1, QuietSteps, QuietKeeps, LookupKeeps, CreateKeeps DEF Call
<1>2. ASSUME NEW t \in Txs, Watch(t) PROVE TableInv'
  BY <1>2, QuietSteps, QuietKeeps, CloseKeeps DEF Watch
<1>3. CASE Listen
  BY <1>3, QuietSteps, QuietKeeps, PeerCreateKeeps DEF Listen
<1>4. CASE UNCHANGED vars
  BY <1>4, QuietSteps, QuietKeeps
<1> QED
  BY <1>1, <1>2, <1>3, <1>4, ArriveKeeps DEF Next

THEOREM InvHolds == Spec => []IInv
<1>1. Init => IInv
  <2>1. Init => TableInv
    BY SipAssumption DEF Init, TableInv, InUse, TableOpen, SoleTransaction
  <2> QED
    BY <2>1, TypeInit DEF IInv, TableInv
<1>2. IInv /\ [Next]_vars => IInv'
  BY TypeStep, TableStep DEF IInv, TableInv
<1> QED
  BY <1>1, <1>2, PTL DEF Spec

\* Type correctness of the table, the transactions, the callers and the listener.
THEOREM TypeCorrect == Spec => []TypeOK
<1>1. IInv => TypeOK
  BY DEF IInv
<1> QED
  BY <1>1, InvHolds, PTL

\* No transaction whose Close has begun is in the table, though Close removes by key
\* what may by then be another transaction's entry.
THEOREM TableStaysOpen == Spec => []TableOpen
<1>1. IInv => TableOpen
  BY DEF IInv
<1> QED
  BY <1>1, InvHolds, PTL

\* A caller alone on its Call-ID waits on the transaction in the table.
THEOREM SoleWaiterReachable == Spec => []WaiterReachable
<1>1. IInv => WaiterReachable
  <2> SUFFICES ASSUME IInv, NEW c \in Callers, SoleUser(c), pc[c] \in {"receive", "signal"},
                      stage[tx[c]] = "open"
               PROVE  table[CallID[c]] = tx[c]
    BY DEF WaiterReachable
  <2>1. tx[c] \in 1..created /\ key[tx[c]] = CallID[c]
    BY DEF IInv, InUse
  <2> QED
    BY <2>1 DEF IInv, SoleTransaction
<1> QED
  BY <1>1, InvHolds, PTL
=============================================================================
