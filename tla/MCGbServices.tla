---------------------------- MODULE MCGbServices ----------------------------
(***************************************************************************)
(* Eleven services of the GB28181 server that share no state, one at a     *)
(* time: `part` says which one runs.  Those that wait have one initial state. *)
(***************************************************************************)
EXTENDS CatalogCollector, EventSubscriptions, InboundDialogs, RecordQuery, QueryStates,
  SipReceive, DialogRequests, SipText, PtzCommands, DeviceCommands, SipMessages

VARIABLE part

gbVars == <<catVars, subVars, dlgVars, recVars, stateVars, receiveVars, requestVars, textVars, ptzVars,
            commandVars, sipVars, part>>

\* One device; both subscribers want its catalog, one of them that of every device.
MCDeviceOf == [c \in Channels |-> "d1"]
MCWants == [k \in SubKeys |-> [type |-> "Catalog", dev |-> IF k = "k2" THEN AnyDevice ELSE "d1"]]
MCEvents == {[type |-> "Catalog", dev |-> "d1"]}

Span(s, e) == [start |-> s, end |-> e]

\* The newest first: one that goes past midnight, one that overlaps with it, and one that touches that.
MCRecorded == <<Span(4, 9), Span(2, 5), Span(1, 2)>>

\* All of them, and one that ends at midnight.
MCWindows == {Span(1, 9), Span(2, 8)}

\* An alarm with an object that may be read as one of two types; presets with one
\* of those, or a heartbeat; a heartbeat.
Beat == [section |-> "status", body |-> {}]
Presets == [section |-> "preset", body |-> {{"x"}}]
Alarm == [section |-> NoSection, body |-> {{"x", "y"}}]
MCContents == <<{Alarm}, {Beat, Presets}, {Beat}>>

\* Numbers at each bound and above it, and one with zeros before it.
MCValueOf == [w \in {"7", "007", "200", "5060", "5061", "7000", "7001", "8000", "8001"} |->
                CASE w = "7" -> 7 [] w = "007" -> 7 [] w = "200" -> 200 [] w = "5060" -> 5060 [] w = "5061" -> 5061
                  [] w = "7000" -> 7000 [] w = "7001" -> 7001 [] w = "8000" -> 8000 [] w = "8001" -> 8001]

\* Addresses of a user or of none, with a password, a port, parameters with and
\* without quotes, a header, and a second address; words that are no port.  Vias of
\* one and two hops, with blanks.  Lines with a part too many, or one that is missing;
\* answers whose reason begins with SIP.
MCPieces ==
  [address |->
     <<{<<>>, <<"u", " ">>, <<"\"", "u", ",", "<", "\"">>},
       {<<"<", "sip", ":">>, <<"<", "sips", ":">>, <<"sip", ":">>},
       {<<>>, <<"u", "@">>, <<"u", ":", "w", "@">>},
       {<<"h">>, <<"h", ":", "5060">>, <<"h", ":", "x">>},
       {<<>>, <<";", "lr">>, <<";", "x", "=", "\"", "a", " ", "b", "\"">>},
       {<<>>, <<"?", "k", "=", "\"", "a", " ", "b", "\"", "&", "j", "=", "v">>},
       {<<">">>},
       {<<>>, <<";", "tag", "=", "t">>, <<";", "tag", "=", "\"", "a", " ", ";", "\"", ";", "tag">>,
        <<";", "tag", "=", "\"", "a", ";", "b", "\"">>},
       {<<>>, <<",", " ", "<", "sip", ":", "h", ">">>}>>,
   via |->
     <<{<<"SIP", "/", "2", "/", "UDP">>, <<" ", "SIP", "/", "2", "/", " ", "UDP", "/", "x">>},
       {<<" ", "h">>, <<" ", " ", "h", ":", "5060">>, <<"h">>},
       {<<>>, <<";", "rport">>, <<";", "rport", "=", "5060", ";", "rport">>},
       {<<>>, <<";", "branch", "=", "\"", "a", " ", "b", "\"">>},
       {<<>>, <<",", "SIP", "/", "2", "/", "TCP", " ", "h", ";", "branch", "=", "z">>}>>,
   party |->
     <<{<<" ", "<", "sip", ":", "u", "@", "h", ">">>, <<"u", " ", "<", "sip", ":", "h", ">">>},
       {<<>>, <<";", "tag", "=", "t">>},
       {<<>>, <<",", "<", "sip", ":", "h", ">">>}>>,
   route |->
     <<{<<"<", "sip", ":", "h", ";", "lr", ">">>, <<"u", "<", "sip", ":", "u", "@", "h", ">">>, <<"sip", ":", "u", "@", "h">>},
       {<<>>, <<";", "x">>},
       {<<>>, <<",", "<", "sip", ":", "h", ":", "5060", ">">>, <<",", "<", "sip", ":", "h", ":", "5061", ">">>}>>,
   cseq |->
     <<{<<"007">>, <<"7000">>, <<"7001">>, <<"x">>},
       {<<" ">>, <<" ", " ">>, <<>>},
       {<<"INVITE">>, <<"INVITE", ";">>, <<"INVITE", " ", "x">>}>>,
   call |-> <<{<<"x", "@", "h">>, <<>>}, {<<>>, <<" ">>, <<";">>}, {<<>>, <<"y">>}>>,
   number |-> <<{<<" ">>, <<>>}, {<<"007">>, <<"8000">>, <<"8001">>, <<"x">>, <<>>}, {<<>>, <<" ">>, <<"7">>}>>,
   word |-> <<{<<" ">>, <<>>}, {<<"text", "/", "xml">>, <<>>}, {<<>>, <<" ", ";", "x">>}>>,
   list |-> <<{<<"INVITE">>, <<>>, <<" ">>}, {<<>>, <<",">>, <<" ", ",", " ">>}, {<<"BYE">>, <<>>, <<",", "BYE", " ", "x">>}>>,
   start |->
     <<{<<"SIP/2.0", " ">>, <<"BYE", " ">>, <<"Siphon", " ">>},
       {<<"200">>, <<"5061">>, <<"sip", ":", "u", "@", "h", ":", "5060">>, <<"sip", ":", "h", ";", "lr">>, <<"*">>, <<"tel", ":", "7">>},
       {<<" ">>, <<" ", " ">>, <<>>},
       {<<"OK">>, <<"Not", " ", "Found">>, <<"Siphon">>, <<"SIP/2.0">>, <<>>}>>]

NoCommand ==
  [op |-> "sync", by |-> "id", name |-> NoName, target |-> "", given |-> Empty]

NoMove == CHOOSE i \in Inputs : i.does = <<"move", {}>>

GbInit ==
  /\ part \in {"catalog", "subscriptions", "dialogs", "records", "states", "connection",
              "history", "texts", "ptz", "commands", "messages"}
  /\ asked \in IF part = "ptz" THEN Inputs ELSE {NoMove}
  /\ command \in IF part = "commands" THEN Commands ELSE {NoCommand}
  /\ world \in IF part = "commands" THEN Worlds ELSE {Good}
  /\ headerKind \in IF part = "texts" THEN HeaderKinds ELSE {"via"}
  /\ CatInit /\ SubInit /\ DlgInit /\ RecInit /\ QsInit /\ ReceiveInit
  /\ HistoryInit /\ TextInit /\ PtzInit /\ CommandInit /\ SipMessagesInit
  /\ part = "records" \/ \A q \in Queries : window[q] = Span(1, 9)

\* One service makes a step, the others stay as they are.
InCatalog(A) ==
  /\ part = "catalog" /\ A
  /\ UNCHANGED <<subVars, dlgVars, recVars, stateVars, receiveVars, requestVars, textVars, ptzVars, commandVars, sipVars, part>>
InSubscriptions(A) ==
  /\ part = "subscriptions" /\ A
  /\ UNCHANGED <<catVars, dlgVars, recVars, stateVars, receiveVars, requestVars, textVars, ptzVars, commandVars, sipVars, part>>
InDialogs(A) ==
  /\ part = "dialogs" /\ A
  /\ UNCHANGED <<catVars, subVars, recVars, stateVars, receiveVars, requestVars, textVars, ptzVars, commandVars, sipVars, part>>
InRecords(A) ==
  /\ part = "records" /\ A
  /\ UNCHANGED <<catVars, subVars, dlgVars, stateVars, receiveVars, requestVars, textVars, ptzVars, commandVars, sipVars, part>>
InStates(A) ==
  /\ part = "states" /\ A
  /\ UNCHANGED <<catVars, subVars, dlgVars, recVars, receiveVars, requestVars, textVars, ptzVars, commandVars, sipVars, part>>
InConnection(A) ==
  /\ part = "connection" /\ A
  /\ UNCHANGED <<catVars, subVars, dlgVars, recVars, stateVars, requestVars, textVars, ptzVars, commandVars, sipVars, part>>
InHistory(A) ==
  /\ part = "history" /\ A
  /\ UNCHANGED <<catVars, subVars, dlgVars, recVars, stateVars, receiveVars, textVars, ptzVars, commandVars, sipVars, part>>
InTexts(A) ==
  /\ part = "texts" /\ A
  /\ UNCHANGED <<catVars, subVars, dlgVars, recVars, stateVars, receiveVars, requestVars, ptzVars, commandVars, sipVars, part>>
InPtz(A) ==
  /\ part = "ptz" /\ A
  /\ UNCHANGED <<catVars, subVars, dlgVars, recVars, stateVars, receiveVars, requestVars, textVars, commandVars, sipVars, part>>

InCommands(A) ==
  /\ part = "commands" /\ A
  /\ UNCHANGED <<catVars, subVars, dlgVars, recVars, stateVars, receiveVars, requestVars, textVars, ptzVars, sipVars, part>>

InMessages(A) ==
  /\ part = "messages" /\ A
  /\ UNCHANGED <<catVars, subVars, dlgVars, recVars, stateVars, receiveVars, requestVars, textVars, ptzVars, commandVars, part>>

GbNext ==
  \/ InCatalog(CatNext)
  \/ InSubscriptions(SubNext)
  \/ InDialogs(DlgNext)
  \/ InRecords(RecNext)
  \/ InStates(QsNext)
  \/ InConnection(ReceiveNext)
  \/ InHistory(HistoryNext)
  \/ InTexts(TextNext)
  \/ InPtz(PtzNext)
  \/ InCommands(CommandNext)
  \/ InMessages(SipMessagesNext)

\* The collector, its ticker and the timers of the waiters go on; so do the cleaner
\* of the dialogs and the handlers.  A step of one part leaves the variables of the
\* others alone, so that fairness speaks of its own.
GbSpec ==
  /\ GbInit /\ [][GbNext]_gbVars
  /\ WF_catVars(part = "catalog" /\ ~crashed /\ Collect)
  /\ \A d \in CatDevices : /\ WF_catVars(part = "catalog" /\ ~crashed /\ Tick(d))
                           /\ WF_catVars(part = "catalog" /\ ~crashed /\ TimePasses(d))
  /\ WF_dlgVars(part = "dialogs" /\ Sweep)
  /\ \A o \in Objects : WF_dlgVars(part = "dialogs" /\ DialogAges(o))
  /\ \A r \in Requests : WF_dlgVars(part = "dialogs" /\ Handle(r))

\* The state of the service that runs keeps its types.
GbTypeOK ==
  /\ part = "catalog" => CatTypeOK
  /\ part = "subscriptions" => SubTypeOK
  /\ part = "dialogs" => DlgTypeOK
  /\ part = "records" => RecTypeOK
  /\ part = "states" => QsTypeOK
  /\ part = "connection" => ReceiveTypeOK
  /\ part = "history" => HistoryTypeOK
  /\ part = "texts" => TextTypeOK
  /\ part = "ptz" => PtzTypeOK
  /\ part = "commands" => CommandTypeOK
  /\ part = "messages" => SipMessagesTypeOK
=============================================================================
