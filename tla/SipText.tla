------------------------------ MODULE SipText ------------------------------
(***************************************************************************)
(* The text of a start line and of the headers: addresses (To, From,       *)
(* Contact, Route), the hops of a Via, CSeq, Call-ID, numbers, lists and   *)
(* words.  The server reads them from a message and prints what it has     *)
(* read into its answers and into later requests of the dialog.  A text is *)
(* a sequence of tokens: separators, blanks, and words, whose letters do   *)
(* not matter.                                                             *)
(***************************************************************************)
EXTENDS Naturals, Sequences, FiniteSets, SequencesExt, TLC

CONSTANTS
  ValueOf,        \* the value of each word that is a number
  MaxPort,        \* 2^16 - 1: the largest port, or code of an answer
  MaxCSeq,        \* 2^31 - 1
  MaxUint,        \* 2^32 - 1
  SipWords,       \* the words that begin with SIP
  ShortAt,        \* an '@' before this token saves an address that is malformed
  Pieces          \* the texts received: for a kind of header, a sequence of sets of texts

VARIABLES
  headerKind,     \* what the text is: a start line, or a header of a kind
  text,           \* what has arrived of the header
  piece,          \* how many pieces that is
  kept            \* what the server keeps of it: addresses, hops or one value

textVars == <<headerKind, text, piece, kept>>

\* A number is printed as the word of its value.
ASSUME NumbersAssumption ==
  \A w \in DOMAIN ValueOf : ToString(ValueOf[w]) \in DOMAIN ValueOf /\ ValueOf[ToString(ValueOf[w])] = ValueOf[w]

HeaderKinds == {"address", "party", "via", "route", "cseq", "call", "number", "word", "list", "start"}
NoPort == "none"     \* no separator
Single == "single" \* MaybeString nil: a key without a value

----------------------------------------------------------------------------
(* Places in a text; 0 is nowhere. *)

Place(s, c) == SelectInSeq(s, LAMBDA x : x = c)
Upto(s, i) == SubSeq(s, 1, i)
After(s, i) == SubSeq(s, i + 1, Len(s))
Has(s, c) == Place(s, c) # 0

Trimmed(s) ==
  LET words == {i \in DOMAIN s : s[i] # " "}
  IN  IF words = {} THEN <<>>
      ELSE SubSeq(s, CHOOSE i \in words : \A j \in words : i <= j,
                     CHOOSE i \in words : \A j \in words : i >= j)

\* The parts of s between the tokens at the places of cuts.
Parts(s, cuts) ==
  LET ends == SetToSortSeq(cuts \cup {Len(s) + 1}, <)
  IN  [k \in DOMAIN ends |-> SubSeq(s, IF k = 1 THEN 1 ELSE ends[k - 1] + 1, ends[k] - 1)]

Split(s, c) == Parts(s, {i \in DOMAIN s : s[i] = c})

\* Every text of parts with sep between them.
Joined(parts, sep) ==
  FlattenSeq([k \in DOMAIN parts |-> IF k = 1 THEN parts[1] ELSE sep \o parts[k]])

Failed == [ok |-> FALSE]

\* strconv.ParseUint, with a width, and %d.
IsNumber(s, max) == Len(s) = 1 /\ s[1] \in DOMAIN ValueOf /\ ValueOf[s[1]] <= max
NumberText(n) == <<ToString(n)>>

----------------------------------------------------------------------------
(* headerParams: keys in the order they came, the last value of each. *)

Put(params, key, val) ==
  IF \E k \in DOMAIN params : params[k].key = key
  THEN [k \in DOMAIN params |-> IF params[k].key = key THEN [key |-> key, val |-> val] ELSE params[k]]
  ELSE Append(params, [key |-> key, val |-> val])

Quoted(val) == Has(val, " ")

ParamText(p) ==
  p.key \o (IF p.val = Single THEN <<>>
            ELSE IF Quoted(p.val) THEN <<"=", "\"">> \o p.val \o <<"\"">>
            ELSE <<"=">> \o p.val)

ParamsText(params, start, sep) ==
  IF params = <<>> THEN <<>>
  ELSE <<start>> \o Joined([k \in DOMAIN params |-> ParamText(params[k])], <<sep>>)

(* ParseParams: one token after the other, until an unquoted `end`. *)
ParamAt(s, i, sep, end, singles, st) ==
  LET c == s[i]
      Literal == [st EXCEPT !.buf = Append(@, c)]
      Bad == [st EXCEPT !.at = "bad"]
      Fresh == [st EXCEPT !.buf = <<>>, !.inKey = TRUE]
  IN  CASE st.at # "reading" -> st
        [] st.at = "reading" /\ c \in {sep, end} /\ st.inQuotes -> Literal
        [] st.at = "reading" /\ c = end /\ ~st.inQuotes -> [st EXCEPT !.at = "end", !.used = i - 1]
        [] st.at = "reading" /\ c = sep /\ c # end /\ ~st.inQuotes ->
             IF ~st.inKey THEN [Fresh EXCEPT !.params = Put(@, st.key, st.buf)]
             ELSE IF singles THEN [Fresh EXCEPT !.params = Put(@, st.buf, Single)] ELSE Bad
        [] st.at = "reading" /\ c = "\"" ->
             IF \/ st.inKey
                \/ ~st.inQuotes /\ st.buf # <<>>
                \/ (st.inQuotes /\ i # Len(s) /\ s[i + 1] # sep)
             THEN Bad ELSE [st EXCEPT !.inQuotes = ~@]
        [] st.at = "reading" /\ c = "=" ->
             IF st.buf = <<>> \/ ~st.inKey THEN Bad
             ELSE [st EXCEPT !.key = st.buf, !.buf = <<>>, !.inKey = FALSE]
        [] OTHER -> IF c = " " /\ ~st.inQuotes THEN st ELSE Literal

ParamsRead(s, start, singles, last) ==
  IF s[1] # start \/ last.at = "bad" \/ last.inQuotes \/ (last.inKey /\ ~singles) THEN Failed
  ELSE [ok |-> TRUE, used |-> last.used,
        params |-> IF last.inKey THEN Put(last.params, last.buf, Single)
                   ELSE Put(last.params, last.key, last.buf)]

NoParams == [ok |-> TRUE, params |-> <<>>, used |-> 0]

Params(s, start, sep, end, singles) ==
  LET step(st, i) == ParamAt(s, i, sep, end, singles, st)
      begin == [params |-> <<>>, buf |-> <<>>, key |-> <<>>, inKey |-> TRUE,
                inQuotes |-> FALSE, at |-> "reading", used |-> Len(s)]
  IN  IF s = <<>> THEN NoParams
      ELSE ParamsRead(s, start, singles, FoldLeft(step, begin, [i \in 1..Len(s) - 1 |-> i + 1]))

----------------------------------------------------------------------------
(* ParseHostPort, ParseURI and ParseSipURI; URI.String *)

HostPort(s) ==
  LET c == Place(s, ":")
  IN  IF c = 0 THEN [ok |-> TRUE, host |-> s, port |-> {}]
      ELSE IF IsNumber(After(s, c), MaxPort)
      THEN [ok |-> TRUE, host |-> Upto(s, c - 1), port |-> {ValueOf[s[c + 1]]}]
      ELSE Failed

\* The port is a set: of none (nil), or of one.
HostPortText(host, port) ==
  host \o IF port = {} THEN <<>> ELSE <<":">> \o NumberText(CHOOSE n \in port : TRUE)

\* Mutant: the first ':' ends the user's name, also one that is behind the '@'.
MutNameEnd(s) == Place(s, ":")

\* Where the user's name ends and a password begins.
NameEnd(s) == LET c == Place(s, ":") IN IF c > Place(s, "@") THEN 0 ELSE c

UserInfo(s) ==
  LET at == Place(s, "@")
      colon == NameEnd(s)
  IN  IF at = 0 THEN [user |-> <<>>, password |-> <<>>]
      ELSE IF colon = 0 THEN [user |-> Upto(s, at - 1), password |-> <<>>]
      ELSE [user |-> Upto(s, colon - 1), password |-> SubSeq(s, colon + 1, at - 1)]

\* The place before the first ';', or else before the first '?'.
HostEnd(s) ==
  LET end == IF Has(s, ";") THEN Place(s, ";") ELSE Place(s, "?")
  IN  IF end = 0 THEN Len(s) ELSE end - 1

URIRead(scheme, info, place, params, headers) ==
  IF ~place.ok \/ ~params.ok \/ ~headers.ok THEN Failed
  ELSE [ok |-> TRUE, scheme |-> scheme, info |-> info, host |-> place.host,
        port |-> place.port, params |-> params.params, headers |-> headers.params]

URI(s) ==
  LET scheme == Place(s, ":")
      tail == After(s, scheme)
      rest == After(tail, Place(tail, "@"))
      more == After(rest, HostEnd(rest))
      params == IF more # <<>> /\ more[1] = ";" THEN Params(more, ";", ";", "?", TRUE) ELSE NoParams
  IN  IF scheme # 2 \/ s[1] \notin {"sip", "sips"} THEN Failed
      ELSE URIRead(s[1], UserInfo(tail), HostPort(Upto(rest, HostEnd(rest))), params,
                   Params(After(more, params.used), "?", "&", NoPort, FALSE))

URIText(u) ==
  <<u.scheme, ":">>
    \o (IF u.info.user = <<>> THEN <<>>
        ELSE u.info.user \o (IF u.info.password = <<>> THEN <<>> ELSE <<":">> \o u.info.password) \o <<"@">>)
    \o HostPortText(u.host, u.port)
    \o ParamsText(u.params, ";", ";") \o ParamsText(u.headers, "?", "&")

----------------------------------------------------------------------------
(* ParseAddressValue(s), parseAddressHeader; the String of To, From and Contact *)

\* The places of c that no quotes enclose.
Unquoted(s, c) ==
  {i \in DOMAIN s : s[i] = c /\ Cardinality({j \in 1..i - 1 : s[j] = "\""}) % 2 = 0}

AddressRead(name, uri, params) ==
  IF ~uri.ok \/ ~params.ok THEN Failed
  ELSE [ok |-> TRUE, name |-> name, uri |-> uri, params |-> params.params]

\* Every '<' is closed (the code slices up to the '>', which it takes to be there).
Address(addressText) ==
  LET s == Trimmed(addressText)
      open == SelectInSeq([i \in DOMAIN s |-> i], LAMBDA i : i \in Unquoted(s, "<"))
      close == Place(After(s, 1), "\"") + 1
      name == IF open <= 1 THEN <<>>
              ELSE IF s[1] = "\"" THEN SubSeq(s, 2, close - 1) ELSE Trimmed(Upto(s, open - 1))
      rest == Trimmed(IF open > 1 THEN After(s, IF s[1] = "\"" THEN close ELSE open - 1) ELSE s)
      end == Place(rest, ">")
  IN  IF rest = <<>> \/ end <= 2 THEN Failed
      ELSE IF rest[1] # "<" THEN Failed       \* displayName is never nil
      ELSE AddressRead(name, URI(SubSeq(rest, 2, end - 1)), Params(After(rest, end), ";", ";", ",", TRUE))

\* A ',' in quotes, or between '<' and '>', ends no address.
Commas(s) ==
  {i \in Unquoted(s, ",") :
     ~ \E j \in Unquoted(s, "<") : j < i /\ ~ \E k \in Unquoted(s, ">") : j < k /\ k < i}

\* A malformed address drops the header, or the rest of it: those before stay when
\* the text looks like a bare address.
AddressesRead(s, all) ==
  LET bad == SelectInSeq(all, LAMBDA a : ~a.ok)
  IN  IF bad = 0 THEN all
      ELSE IF Len(Split(s, "@")) = 2 /\ Place(s, "@") < ShortAt THEN Upto(all, bad - 1)
      ELSE <<>>

Addresses(s) ==
  LET parts == Parts(s, Commas(s)) IN AddressesRead(s, [k \in DOMAIN parts |-> Address(parts[k])])

AddressText(a) ==
  (IF a.name = <<>> THEN <<>> ELSE <<"\"">> \o a.name \o <<"\"", " ">>)
    \o <<"<">> \o URIText(a.uri) \o <<">">> \o ParamsText(a.params, ";", ";")

----------------------------------------------------------------------------
(* parseViaHeader; ViaHeader.String *)

\* The transport ends at the first blank behind its first word.
TransportEnd(s) ==
  LET word == SelectInSeq(s, LAMBDA x : x # " ")
  IN  SelectInSubSeq(s, IF word = 0 THEN Len(s) + 1 ELSE word, Len(s), LAMBDA x : x = " ")

\* Malformed parameters fail the last hop; a hop before it keeps those read before (the
\* next ParseHostPort resets err).  No text of Pieces has them.
HopRead(head, place, params) ==
  IF ~place.ok \/ ~params.ok THEN Failed
  ELSE [ok |-> TRUE, head |-> head, host |-> place.host, port |-> place.port, params |-> params.params]

Hop(section) ==
  LET parts == Split(section, "/")
      third == Joined(SubSeq(parts, 3, Len(parts)), <<"/">>)
      end == TransportEnd(third)
      body == After(third, end)
      semi == Place(body, ";")
      head == <<Trimmed(parts[1]), Trimmed(parts[2]), Trimmed(Upto(third, end - 1))>>
  IN  IF Len(parts) < 3 THEN Failed
      ELSE IF end = 0 \/ <<>> \in {head[1], head[2], head[3]} THEN Failed
      ELSE HopRead(head, HostPort(IF semi = 0 THEN body ELSE Upto(body, semi - 1)),
                   IF semi = 0 THEN NoParams ELSE Params(After(body, semi - 1), ";", ";", NoPort, TRUE))

ViaRead(hops) == IF \E k \in DOMAIN hops : ~hops[k].ok THEN <<>> ELSE hops

Via(s) == LET sections == Split(s, ",") IN ViaRead([k \in DOMAIN sections |-> Hop(sections[k])])

HopText(h) ==
  Joined(h.head, <<"/">>) \o <<" ">> \o HostPortText(h.host, h.port) \o ParamsText(h.params, ";", ";")

ViaText(hops) == Joined([k \in DOMAIN hops |-> HopText(hops[k])], <<",", " ">>)

----------------------------------------------------------------------------
(* Route and Record-Route: addresses without names or parameters, and one   *)
(* that is left without any counts as absent; To and From: one address.     *)

ParseRoute(s) == [k \in DOMAIN Addresses(s) |-> Addresses(s)[k].uri]
RouteText(uris) == Joined([k \in DOMAIN uris |-> <<"<">> \o URIText(uris[k]) \o <<">">>], <<",", " ">>)

ParseParty(s) == IF Len(Addresses(s)) > 1 THEN <<>> ELSE Addresses(s)

----------------------------------------------------------------------------
(* Headers of one value.  A text that is malformed drops the header.        *)

\* ParseHeader has cut off the blanks at both ends.
SplitByWhitespace(s) == SelectSeq(Split(s, " "), LAMBDA part : part # <<>>)

ParseCSeq(s) ==
  LET parts == SplitByWhitespace(s)
  IN  IF Len(parts) # 2 THEN <<>>
      ELSE IF ~IsNumber(parts[1], MaxCSeq) \/ Has(parts[2], ";") THEN <<>>
      ELSE <<[seqNo |-> ValueOf[parts[1][1]], method |-> parts[2]]>>

CSeqText(c) == NumberText(c.seqNo) \o <<" ">> \o c.method

ParseCallID(s) == IF s = <<>> \/ Has(s, " ") \/ Has(s, ";") THEN <<>> ELSE <<s>>

\* Max-Forwards, Content-Length, Expires.
ParseNumber(s) == IF IsNumber(s, MaxUint) THEN <<ValueOf[s[1]]>> ELSE <<>>

\* User-Agent, Content-Type, Accept, and headers without a parser.
ParseWord(s) == <<s>>

\* Allow, Supported.
ParseList(s) == <<[k \in DOMAIN Split(s, ",") |-> Trimmed(Split(s, ",")[k])]>>
ListText(list) == Joined(list, <<",", " ">>)

----------------------------------------------------------------------------
(* The start line: of a request when its third and last part begins with    *)
(* SIP, else of an answer when its first part does.                         *)

BeginsWithSIP(part) == part # <<>> /\ part[1] \in SipWords

IsRequest(s) == LET parts == Split(s, " ") IN Len(parts) = 3 /\ BeginsWithSIP(parts[3])
IsResponse(s) == LET parts == Split(s, " ") IN Len(parts) >= 3 /\ BeginsWithSIP(parts[1])

ParseRequestLine(s) ==
  LET parts == Split(s, " ")
  IN  IF Trimmed(parts[2]) = <<"*">> \/ ~URI(parts[2]).ok THEN <<>>
      ELSE <<[method |-> parts[1], recipient |-> URI(parts[2]), version |-> parts[3]]>>

ParseStatusLine(s) ==
  LET parts == Split(s, " ")
  IN  IF ~IsNumber(parts[2], MaxPort) THEN <<>>
      ELSE <<[version |-> parts[1], status |-> ValueOf[parts[2][1]],
              reason |-> Joined(SubSeq(parts, 3, Len(parts)), <<" ">>)]>>

ParseStartLine(s) ==
  IF IsRequest(s) THEN ParseRequestLine(s) ELSE IF IsResponse(s) THEN ParseStatusLine(s) ELSE <<>>

RequestLine(r) == r.method \o <<" ">> \o URIText(r.recipient) \o <<" ">> \o r.version
StatusLine(r) == r.version \o <<" ">> \o NumberText(r.status) \o <<" ">> \o r.reason
StartLine(r) == IF "recipient" \in DOMAIN r THEN RequestLine(r) ELSE StatusLine(r)

----------------------------------------------------------------------------
(* The parser of each kind of header, and how what is kept is printed.      *)

HeaderRead(kind, s) ==
  CASE kind = "address" -> Addresses(s)
    [] kind = "party" -> ParseParty(s)
    [] kind = "via" -> Via(s)
    [] kind = "route" -> ParseRoute(s)
    [] kind = "cseq" -> ParseCSeq(s)
    [] kind = "call" -> ParseCallID(s)
    [] kind = "number" -> ParseNumber(s)
    [] kind = "word" -> ParseWord(s)
    [] kind = "list" -> ParseList(s)

HeaderText(kind, all) ==
  CASE kind = "via" -> ViaText(all)
    [] kind = "route" -> RouteText(all)
    [] kind = "cseq" -> CSeqText(all[1])
    [] kind = "number" -> NumberText(all[1])
    [] kind = "list" -> ListText(all[1])
    [] kind \in {"call", "word"} -> all[1]

LineText(kind, all) == IF kind = "start" THEN StartLine(all[1]) ELSE HeaderText(kind, all)

\* ParseHeader, and the reader of the first line of a packet.
ParseLine(kind, s) == IF kind = "start" THEN ParseStartLine(s) ELSE HeaderRead(kind, Trimmed(s))

----------------------------------------------------------------------------
TextInit ==
  /\ headerKind \in HeaderKinds
  /\ text = <<>>
  /\ piece = 0
  /\ kept = <<>>

\* A device adds a piece to the line.
WriteText ==
  /\ piece < Len(Pieces[headerKind])
  /\ \E p \in Pieces[headerKind][piece + 1] : text' = text \o p
  /\ piece' = piece + 1
  /\ UNCHANGED <<headerKind, kept>>

\* The whole line is there.
ReadHeader ==
  /\ piece = Len(Pieces[headerKind])
  /\ kept = <<>>
  /\ kept' = ParseLine(headerKind, text)
  /\ UNCHANGED <<headerKind, text, piece>>

TextNext == WriteText \/ ReadHeader

TextSpec == TextInit /\ [][TextNext]_textVars

----------------------------------------------------------------------------
TextTypeOK == headerKind \in HeaderKinds /\ piece \in 0..Len(Pieces[headerKind]) /\ text \in Seq(STRING)

\* Values that came in quotes for the sake of a separator are printed without them
\* when they hold no blank (headerParams.ToString leaves that to its callers).
Separators == {";", ",", "?", "&", "=", "<", ">", "\""}
Plain(params) ==
  \A k \in DOMAIN params : LET val == params[k].val
                           IN  val = Single \/ Quoted(val) \/ ToSet(val) \cap Separators = {}

\* What a device's line says is what the server says of it later: the text it
\* prints of what it has read is read as the same, with every name, password, port,
\* parameter, hop, number and method (header.go, message.go, request.go, response.go
\* and parser.go).
TextKept ==
  IF headerKind \in {"address", "party"}
  THEN \A k \in DOMAIN kept :
         Plain(kept[k].params) => ParseLine(headerKind, AddressText(kept[k])) = <<kept[k]>>
  ELSE kept # <<>> => ParseLine(headerKind, LineText(headerKind, kept)) = kept
=============================================================================
