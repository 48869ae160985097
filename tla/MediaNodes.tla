----------------------------- MODULE MediaNodes -----------------------------
(***************************************************************************)
(* The media servers and what the server believes of them: a webhook       *)
(* heartbeat refreshes a node; every 3 s one goroutine walks over the      *)
(* nodes, takes a fresh one as online, asks one that is not through the    *)
(* driver of its type, which may take 2 s, and writes what came out to the *)
(* object it began with.  A node is connected at the start and when it is  *)
(* edited, which stores a new object for it, maybe of another type.        *)
(*                                                                         *)
(* `fresh` says that less than 30 s have passed since LastUpdatedAt.       *)
(***************************************************************************)
EXTENDS Naturals, FiniteSets

CONSTANTS
  Servers,        \* the rows of media servers
  Default,        \* DefaultMediaServerID, whom every heartbeat refreshes
  MaxConnects     \* bound on the connections, the edits among them

NoServer == "noserver"

\* The type of a row: each driver registered, or none of them.
Drivers == {"zlm", "lalmax", "other"}

ASSUME NodeAssumption ==
  /\ Default \in Servers /\ NoServer \notin Servers
  /\ MaxConnects \in Nat \ {0}

VARIABLES
  node,           \* n.cacheServers: [known, online, fresh, driver]
  alive,          \* servers that answer now
  beats,          \* heartbeats on their way
  connect,        \* each server's connection: "no", "begun", "ports", "set", "failed"
  hooked,         \* servers that have been given the webhooks
  connects,       \* connections begun
  nodeCheck       \* tickCheck: [pc, left, at]

nodeVars == <<node, alive, beats, connect, hooked, connects, nodeCheck>>

Unknown == [known |-> FALSE, online |-> FALSE, fresh |-> FALSE, driver |-> "zlm"]
Stored(driver) == [known |-> TRUE, online |-> FALSE, fresh |-> TRUE, driver |-> driver]
Waiting == [pc |-> "wait", left |-> {}, at |-> NoServer]
Known == {s \in Servers : node[s].known}

NodeInit ==
  /\ node = [s \in Servers |-> Unknown]
  /\ alive \in SUBSET Servers
  /\ beats = {} /\ hooked = {} /\ connects = 0
  /\ connect = [s \in Servers |-> "no"]
  /\ nodeCheck = Waiting

----------------------------------------------------------------------------
(* The media servers. *)

ServerDies(s) ==
  /\ s \in alive /\ alive' = alive \ {s}
  /\ UNCHANGED <<node, beats, connect, hooked, connects, nodeCheck>>

ServerRises(s) ==
  /\ s \notin alive /\ alive' = alive \cup {s}
  /\ UNCHANGED <<node, beats, connect, hooked, connects, nodeCheck>>

SendBeat(s) ==
  /\ s \in alive \cap hooked
  /\ beats' = beats \cup {s}
  /\ UNCHANGED <<node, alive, connect, hooked, connects, nodeCheck>>

----------------------------------------------------------------------------
(* connection, called by Run and by EditMediaServer *)

\* The new object: a check that holds the old one writes to that.
Begin(s, driver) ==
  /\ connect[s] \in {"no", "set", "failed"}
  /\ connects < MaxConnects /\ connects' = connects + 1
  /\ node' = [node EXCEPT ![s] = Stored(driver)]
  /\ connect' = [connect EXCEPT ![s] = "begun"]
  /\ nodeCheck' = IF nodeCheck.at = s THEN [nodeCheck EXCEPT !.at = NoServer] ELSE nodeCheck
  /\ UNCHANGED <<alive, beats, hooked>>

\* A driver is there, and its call is answered.
Reached(s) == s \in alive /\ node[s].driver # "other"

\* The calls of the driver follow one another; without an answer nothing is tried again.
Gets(s, stage) == connect' = [connect EXCEPT ![s] = IF Reached(s) THEN stage ELSE "failed"]

\* driver.Connect reads the ports.
ReadPorts(s) ==
  /\ connect[s] = "begun" /\ Gets(s, "ports")
  /\ UNCHANGED <<node, alive, beats, hooked, connects, nodeCheck>>

\* driver.Setup gives the server the addresses of the webhooks.
Setup(s) ==
  /\ connect[s] = "ports" /\ Gets(s, "set")
  /\ hooked' = IF Reached(s) THEN hooked \cup {s} ELSE hooked
  /\ UNCHANGED <<node, alive, beats, connects, nodeCheck>>

----------------------------------------------------------------------------
(* The heartbeat and the ticker. *)

Refreshed(s) == IF node[s].known THEN [node EXCEPT ![s].fresh = TRUE] ELSE node

Keepalive ==
  /\ \E s \in beats : beats' = beats \ {s}
  /\ node' = Refreshed(Default)
  /\ UNCHANGED <<alive, connect, hooked, connects, nodeCheck>>

\* Thirty seconds without a heartbeat or an answered ping.
GetsOld(s) ==
  /\ node[s].fresh
  /\ node' = [node EXCEPT ![s].fresh = FALSE]
  /\ UNCHANGED <<alive, beats, connect, hooked, connects, nodeCheck>>

CheckBegins ==
  /\ nodeCheck.pc = "wait"
  /\ nodeCheck' = [Waiting EXCEPT !.pc = "range", !.left = Known]
  /\ UNCHANGED <<node, alive, beats, connect, hooked, connects>>

Passed(s) == [nodeCheck EXCEPT !.left = @ \ {s}]

TakesFresh(s) ==
  /\ nodeCheck.pc = "range" /\ s \in nodeCheck.left /\ node[s].fresh
  /\ node' = [node EXCEPT ![s].online = TRUE]
  /\ nodeCheck' = Passed(s)
  /\ UNCHANGED <<alive, beats, connect, hooked, connects>>

\* driver.Ping: that of lalmax asks nobody, and has no error.
PingAnswered(s) == node[s].driver = "lalmax" \/ (node[s].driver = "zlm" /\ s \in alive)

\* The answer is that of now; it is written up to 2 s later.
Pings(s) ==
  /\ nodeCheck.pc = "range" /\ s \in nodeCheck.left /\ ~node[s].fresh
  /\ nodeCheck' = [Passed(s) EXCEPT !.pc = IF PingAnswered(s) THEN "answered" ELSE "silent",
                                      !.at = s]
  /\ UNCHANGED <<node, alive, beats, connect, hooked, connects>>

\* Mutant: silence is taken for an error of the ping, and changes nothing.
MutPinged(n, up) == IF up THEN [n EXCEPT !.online = TRUE, !.fresh = TRUE] ELSE n

Pinged(n, up) == [n EXCEPT !.online = up, !.fresh = @ \/ up]

PingEnds ==
  /\ nodeCheck.pc \in {"answered", "silent"}
  /\ node' = IF nodeCheck.at = NoServer THEN node
             ELSE [node EXCEPT ![nodeCheck.at] = Pinged(@, nodeCheck.pc = "answered")]
  /\ nodeCheck' = [nodeCheck EXCEPT !.pc = "range", !.at = NoServer]
  /\ UNCHANGED <<alive, beats, connect, hooked, connects>>

CheckEnds ==
  /\ nodeCheck.pc = "range" /\ nodeCheck.left = {}
  /\ nodeCheck' = Waiting
  /\ UNCHANGED <<node, alive, beats, connect, hooked, connects>>

Check ==
  CheckBegins \/ (\E s \in Servers : TakesFresh(s) \/ Pings(s)) \/ PingEnds \/ CheckEnds

----------------------------------------------------------------------------
NodeNext ==
  \/ \E s \in Servers :
       \/ ServerDies(s) \/ ServerRises(s) \/ SendBeat(s)
       \/ \E driver \in Drivers : Begin(s, driver)
       \/ ReadPorts(s) \/ Setup(s) \/ GetsOld(s)
  \/ Keepalive
  \/ Check

NodeSpec == NodeInit /\ [][NodeNext]_nodeVars

----------------------------------------------------------------------------
\* The nodes and the check keep their types.
NodeTypeOK ==
  /\ node \in [Servers -> [known : BOOLEAN, online : BOOLEAN, fresh : BOOLEAN, driver : Drivers]]
  /\ alive \subseteq Servers /\ beats \subseteq Servers /\ hooked \subseteq Servers
  /\ connect \in [Servers -> {"no", "begun", "ports", "set", "failed"}]
  /\ connects \in 0..MaxConnects
  /\ nodeCheck \in [pc : {"wait", "range", "answered", "silent"}, left : SUBSET Servers,
                at : Servers \cup {NoServer}]

\* A node that answers again is shown online for good, unless its type has no
\* driver, and one that has fallen silent offline for good, unless its driver is
\* that of lalmax, whose ping cannot fail; whatever late heartbeat, late answer to a
\* ping, edit or new connection crossed the check.  It speaks of an installation
\* with the configured server alone: a heartbeat refreshes that one, whoever sent
\* it, so that another server's would keep it online (tickCheck, Keepalive,
\* connection, Ping of the drivers).
NodeShown ==
  Servers = {Default} =>
    LET n == node[Default] IN
      /\ <>[](Default \in alive /\ n.known /\ n.driver # "other") => <>[](n.online)
      /\ <>[](Default \notin alive /\ n.driver # "lalmax") => <>[](~n.online)
=============================================================================
