----------------------------- MODULE SipReceive -----------------------------
(***************************************************************************)
(* One TCP connection of a device: what it writes is a row of lines, which *)
(* a reader cuts into packets, from which a parser of the connection makes *)
(* the messages that the listener dispatches in their order.  The reader   *)
(* knows a message's length by a line that says "Content-Length", spelled  *)
(* so; the parser, by any spelling of the header.                          *)
(*                                                                         *)
(* Text is abstract: a line is a record, a body is a row of lines, and     *)
(* lengths count whole lines.  The number that a message gives need not be *)
(* that of its body.                                                       *)
(***************************************************************************)
EXTENDS Naturals, Sequences, SequencesExt

CONSTANTS
  MaxSent,        \* bound on the messages that the device writes
  MaxBody,        \* bound on the lines of a body
  Lengths         \* the lengths that messages give, right or wrong

ASSUME ReceiveAssumption == MaxSent \in Nat /\ MaxBody \in Nat /\ Lengths \subseteq Nat

\* How a message gives its length: as the reader expects it, in the compact form or
\* another case, as no number, or not at all, which needs an empty body; or it is an
\* empty line, which keeps the connection open.
Forms == {"full", "other", "bad", "none", "alive"}

\* The number it says; of one in another spelling it only matters whether it is zero.
Given(form) == CASE form = "full" -> Lengths [] form = "other" -> {0, 1} [] OTHER -> {0}
Bodies(form) == CASE form \in {"full", "other"} -> 0..MaxBody
                  [] form = "bad" -> 1..MaxBody
                  [] OTHER -> {0}

VARIABLES
  sent,           \* the messages the device wrote: [form, body, len], the number of
                  \* lines of the body and the one given
  unread,           \* lines written and not yet read
  cut,            \* the connection has ended
  reader,         \* ProcessTcpConn: [pc, buffer, bodyLen]
  parser,         \* start: [pc, packet, stop]
  delivered,      \* messages handed to the listener: [msg, body]
  torn,           \* history: the message that lost lines with the connection, or 0
  eaten           \* history: the messages of which lines were read as another's body

receiveVars == <<sent, unread, cut, reader, parser, delivered, torn, eaten>>

Line(m, kind, n) == [msg |-> m, kind |-> kind, n |-> n]
\* What a body is filled up with whose rest did not come.
Zero == Line(0, "body", 0)
BodyOf(m, k) == [i \in 1..k |-> Line(m, "body", i)]
LinesOf(m, s) ==
  (IF s.form = "alive" THEN <<>> ELSE <<Line(m, "start", 0)>>)
    \o (IF s.form \in {"none", "alive"} THEN <<>> ELSE <<Line(m, s.form, s.len)>>)
    \o <<Line(m, "blank", 0)>> \o BodyOf(m, s.body)

ReceiveInit ==
  /\ sent = <<>> /\ unread = <<>> /\ cut = FALSE
  /\ reader = [pc |-> "line", buffer |-> <<>>, bodyLen |-> 0]
  /\ parser = [pc |-> "waits", packet |-> <<>>, stop |-> FALSE]
  /\ delivered = <<>> /\ torn = 0 /\ eaten = {}

----------------------------------------------------------------------------
(* The device. *)

DeviceSends(s) ==
  /\ ~cut /\ Len(sent) < MaxSent
  /\ sent' = Append(sent, s)
  /\ unread' = unread \o LinesOf(Len(sent) + 1, s)
  /\ UNCHANGED <<cut, reader, parser, delivered, torn, eaten>>

\* The end of the connection takes lines with it that have not been read, or none.
Cut ==
  /\ ~cut /\ cut' = TRUE
  /\ \E k \in 0..Len(unread) :
       /\ unread' = SubSeq(unread, 1, k)
       /\ torn' = IF k = Len(unread) THEN 0 ELSE unread[k + 1].msg
  /\ UNCHANGED <<sent, reader, parser, delivered, eaten>>

----------------------------------------------------------------------------
(* ProcessTcpConn *)

\* Mutant: the length of the last message stays.
MutNextBuffer(len) == [pc |-> "line", buffer |-> <<>>, bodyLen |-> len]

\* Every message begins with an empty buffer and no length.
NextBuffer(len) == [pc |-> "line", buffer |-> <<>>, bodyLen |-> 0]

\* After an empty line comes the body, or nothing; no number at all ends the packet at once.
NextPc(line) ==
  CASE line.kind = "blank" -> IF reader.bodyLen = 0 THEN "packet" ELSE "body"
    [] line.kind = "bad" -> "packet"
    [] OTHER -> "line"

ReadLine ==
  /\ reader.pc = "line" /\ unread # <<>>
  /\ LET line == Head(unread)
     IN reader' = [pc |-> NextPc(line), buffer |-> Append(reader.buffer, line),
                   bodyLen |-> CASE line.kind = "full" -> line.n
                                 [] line.kind = "bad" -> 0
                                 [] OTHER -> reader.bodyLen]
  /\ unread' = Tail(unread)
  /\ UNCHANGED <<sent, cut, parser, delivered, torn, eaten>>

\* The messages, but for the last that was read a line of, among the next k lines.
Others(k) ==
  {unread[i].msg : i \in {j \in DOMAIN unread : j <= k}} \ {Last(reader.buffer).msg}

\* ReadFull, of as many lines as the number says, the next messages' too; its error
\* is logged, and what did not come is left zero.
ReadBody ==
  /\ reader.pc = "body"
  /\ Len(unread) >= reader.bodyLen \/ cut
  /\ LET body == [i \in 1..reader.bodyLen |-> IF i <= Len(unread) THEN unread[i] ELSE Zero]
     IN reader' = [reader EXCEPT !.pc = "packet", !.buffer = @ \o body]
  /\ unread' = SubSeq(unread, reader.bodyLen + 1, Len(unread))
  /\ eaten' = eaten \cup Others(reader.bodyLen)
  /\ UNCHANGED <<sent, cut, parser, delivered, torn>>

\* parser.in takes the packet when the parser is free.
HandOver ==
  /\ reader.pc = "packet" /\ parser.pc = "waits"
  /\ parser' = [parser EXCEPT !.pc = "parses", !.packet = reader.buffer]
  /\ reader' = NextBuffer(reader.bodyLen)
  /\ UNCHANGED <<sent, unread, cut, delivered, torn, eaten>>

\* The reader returns with what it has read; the parser is told, but not woken.
ReaderEnds ==
  /\ reader.pc = "line" /\ unread = <<>> /\ cut
  /\ reader' = [reader EXCEPT !.pc = "over", !.buffer = <<>>]
  /\ parser' = [parser EXCEPT !.stop = TRUE]
  /\ UNCHANGED <<sent, unread, cut, delivered, torn, eaten>>

----------------------------------------------------------------------------
(* start, of the parser *)

BlankAt(packet) == SelectInSeq(packet, LAMBDA line : line.kind = "blank")

\* The lines of the body, by the length of the header or the rest of the packet,
\* whichever is more, as far as they are there.
ParsedBody(packet) ==
  IF BlankAt(packet) = 0 THEN <<>> ELSE SubSeq(packet, BlankAt(packet) + 1, Len(packet))

\* The length that the parser reads from the header, in any spelling.
HeaderLength(packet) ==
  LET at == SelectInSeq(packet, LAMBDA line : line.kind \in {"full", "other"})
  IN IF at = 0 THEN 0 ELSE packet[at].n

\* A packet that begins with no request or status line is dropped, as is one
\* whose header promises a body when nothing follows.
Parsed(packet) ==
  IF packet[1].kind # "start" \/ (HeaderLength(packet) > 0 /\ ParsedBody(packet) = <<>>)
    THEN <<>>
    ELSE <<[msg |-> packet[1].msg, body |-> ParsedBody(packet)]>>

\* The listener takes the message from parser.out, and dispatches it.
ParsePacket ==
  /\ parser.pc = "parses"
  /\ delivered' = delivered \o Parsed(parser.packet)
  /\ \E pc \in {"waits"} \cup (IF parser.stop THEN {"over"} ELSE {}) :
       parser' = [parser EXCEPT !.pc = pc, !.packet = <<>>]
  /\ UNCHANGED <<sent, unread, cut, reader, torn, eaten>>

ReceiveNext ==
  \/ \E form \in Forms : \E k \in Bodies(form), len \in Given(form) :
       DeviceSends([form |-> form, body |-> k, len |-> len])
  \/ Cut \/ ReadLine \/ ReadBody \/ HandOver \/ ReaderEnds \/ ParsePacket

ReceiveSpec == ReceiveInit /\ [][ReceiveNext]_receiveVars

----------------------------------------------------------------------------
\* The connection, the reader and the parser keep their types.
ReceiveTypeOK ==
  LET lines == {Zero} \cup {Line(m, kind, n) : m \in 1..MaxSent, n \in {0, 1} \cup 0..MaxBody \cup Lengths,
                              kind \in {"start", "blank", "body", "full", "other", "bad"}}
  IN /\ \A i \in DOMAIN sent : sent[i].form \in Forms /\ sent[i].body \in Bodies(sent[i].form)
                               /\ sent[i].len \in Given(sent[i].form)
     /\ \A seq \in {unread, reader.buffer, parser.packet} : ToSet(seq) \subseteq lines
     /\ cut \in BOOLEAN /\ torn \in 0..MaxSent /\ eaten \subseteq 1..MaxSent
     /\ reader.pc \in {"line", "body", "packet", "over"} /\ reader.bodyLen \in {0} \cup Lengths
     /\ parser.pc \in {"waits", "parses", "over"} /\ parser.stop \in BOOLEAN
     /\ \A i \in DOMAIN delivered :
          delivered[i].msg \in 1..MaxSent /\ ToSet(delivered[i].body) \subseteq lines

\* The message gives its length as the reader expects it, and the number is right.
Measured(s) == s.form = "full" /\ s.len = s.body
\* So it does, or it needs none.
Exact(s) == Measured(s) \/ s.form = "none"

\* The message is exact, and so is the one before whenever that has a body; neither
\* has lost lines to a body whose number was too large.
Framed(m) ==
  /\ Exact(sent[m]) /\ m \notin eaten
  /\ m > 1 => (Measured(sent[m - 1]) /\ m - 1 \notin eaten) \/ sent[m - 1].body = 0

Delivered(m) == \E i \in DOMAIN delivered : delivered[i].msg = m

\* Messages are delivered in the order they were written in, each once, and an exact
\* one that was read to its end has its own body.  Each framed one is delivered: a
\* length that is missing, misspelled or too small spoils the next message alone;
\* one that is too large takes as many lines as it says, of any number of messages,
\* and spoils those, and the one after the last of them if that had a body; behind
\* them the reader finds its place again (ProcessTcpConn, start).
FramedDelivered ==
  /\ \A i, j \in DOMAIN delivered : i < j => delivered[i].msg < delivered[j].msg
  /\ \A i \in DOMAIN delivered :
       LET m == delivered[i].msg
       IN Exact(sent[m]) /\ m # torn => delivered[i].body = BodyOf(m, sent[m].body)
  /\ unread = <<>> /\ reader.buffer = <<>> /\ parser.pc # "parses" =>
       \A m \in DOMAIN sent : Framed(m) /\ (torn = 0 \/ m < torn) => Delivered(m)
=============================================================================
