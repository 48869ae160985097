---------------------------- MODULE ChannelCounts ---------------------------
(***************************************************************************)
(* The channels that users add by hand, and the number of channels that a  *)
(* device's row shows.  A channel's row and the number of its device are   *)
(* changed by separate statements, and a device and its channels are       *)
(* deleted by separate ones; calls of several users overlap.  A change of  *)
(* the number that fails is logged, and not tried again.                   *)
(***************************************************************************)
EXTENDS Naturals, FiniteSets

CONSTANTS
  Adders,         \* calls of AddChannel; each names the channel, and the device, it makes
  Deleters,       \* calls of DelChannel
  Removers,       \* calls of DelDevice
  OldDevices      \* devices that are there already, without channels

NoDevice == "nodevice"

ASSUME CountAssumption ==
  /\ Adders \cap OldDevices = {} /\ NoDevice \notin Adders \cup OldDevices
  /\ IsFiniteSet(Adders) /\ IsFiniteSet(Deleters)
  /\ Adders \cap Deleters = {} /\ Adders \cap Removers = {} /\ Deleters \cap Removers = {}

VARIABLES
  number,         \* rows of devices: device -> Channels
  parent,         \* rows of channels: channel -> did
  user,           \* each call: [pc, dev]
  miscounted      \* history: devices whose number went wrong for a reason named below

countVars == <<number, parent, user, miscounted>>

AllDevices == OldDevices \cup Adders
Users == Adders \cup Deleters \cup Removers

CountInit ==
  /\ number = [d \in OldDevices |-> 0]
  /\ parent = [c \in {} |-> NoDevice]
  /\ user = [u \in Users |-> [pc |-> "new", dev |-> NoDevice]]
  /\ miscounted = {}

IsAt(u, pc) == user[u].pc = pc
Moves(u, pc, d) == user' = [user EXCEPT ![u] = [pc |-> pc, dev |-> d]]
Without(f, keys) == [x \in DOMAIN f \ keys |-> f[x]]
ChildrenOf(d) == {c \in DOMAIN parent : parent[c] = d}

----------------------------------------------------------------------------
(* AddChannel *)

\* To a device that is there.
FindDevice(a, d) ==
  /\ IsAt(a, "new") /\ d \in DOMAIN number
  /\ Moves(a, "row", d)
  /\ UNCHANGED <<number, parent, miscounted>>

\* To a new device, which counts the channel at once.
MakeDevice(a) ==
  /\ IsAt(a, "new")
  /\ number' = [d \in DOMAIN number \cup {a} |-> IF d = a THEN 1 ELSE number[d]]
  /\ Moves(a, "row", a)
  /\ UNCHANGED <<parent, miscounted>>

AddChannelRow(a) ==
  /\ IsAt(a, "row")
  /\ parent' = [c \in DOMAIN parent \cup {a} |-> IF c = a THEN user[a].dev ELSE parent[c]]
  /\ Moves(a, IF user[a].dev = a THEN "done" ELSE "count", user[a].dev)
  /\ UNCHANGED <<number, miscounted>>

\* The new device stays, and shows a channel that it does not have.
AddChannelRowFails(a) ==
  /\ IsAt(a, "row")
  /\ Moves(a, "done", user[a].dev)
  /\ miscounted' = miscounted \cup ({user[a].dev} \cap {a})
  /\ UNCHANGED <<number, parent>>

Count(a) ==
  /\ IsAt(a, "count")
  /\ number' = [d \in DOMAIN number |-> IF d = user[a].dev THEN number[d] + 1 ELSE number[d]]
  /\ Moves(a, "done", user[a].dev)
  /\ UNCHANGED <<parent, miscounted>>

\* The edit of the device fails, and the call with its channel succeeds.
NumberStays(u, pc) ==
  /\ IsAt(u, pc)
  /\ Moves(u, "done", user[u].dev)
  /\ miscounted' = miscounted \cup ({user[u].dev} \cap DOMAIN number)
  /\ UNCHANGED <<number, parent>>

CountFails(a) == NumberStays(a, "count")

----------------------------------------------------------------------------
(* DelChannel *)

\* Mutant: the number is corrected for a channel found before it was deleted.
MutDeleted(c, d) == d \in DOMAIN number

\* The row that the statement deleted names the device.
Deleted(c, d) == c \in DOMAIN parent /\ parent[c] = d

DeleteChannelRow(u, c) ==
  /\ IsAt(u, "new")
  /\ \E d \in AllDevices : Deleted(c, d) /\ Moves(u, "uncount", d)
  /\ parent' = Without(parent, {c})
  /\ UNCHANGED <<number, miscounted>>

\* Nothing to subtract yet: the call that added the channel counts it afterwards.
Uncount(u) ==
  LET d == user[u].dev
  IN /\ IsAt(u, "uncount")
     /\ number' = [x \in DOMAIN number |->
          IF x = d /\ number[x] > 0 THEN number[x] - 1 ELSE number[x]]
     /\ miscounted' = miscounted \cup {x \in DOMAIN number : x = d /\ number[x] = 0}
     /\ Moves(u, "done", d)
     /\ UNCHANGED parent

UncountFails(u) == NumberStays(u, "uncount")

----------------------------------------------------------------------------
(* DelDevice: the device's row, then in one transaction its channels. *)

RemoveDevice(r, d) ==
  /\ IsAt(r, "new") /\ d \in DOMAIN number
  /\ number' = Without(number, {d})
  /\ Moves(r, "channels", d)
  /\ UNCHANGED <<parent, miscounted>>

RemoveChannels(r) ==
  /\ IsAt(r, "channels")
  /\ parent' = Without(parent, ChildrenOf(user[r].dev))
  /\ Moves(r, "done", user[r].dev)
  /\ UNCHANGED <<number, miscounted>>

RemoveFails(r) ==
  /\ IsAt(r, "channels")
  /\ Moves(r, "done", user[r].dev)
  /\ UNCHANGED <<number, parent, miscounted>>

CountNext ==
  \/ \E a \in Adders : \/ \E d \in AllDevices : FindDevice(a, d)
                       \/ MakeDevice(a) \/ AddChannelRow(a) \/ AddChannelRowFails(a)
                       \/ Count(a) \/ CountFails(a)
  \/ \E u \in Deleters : Uncount(u) \/ UncountFails(u) \/ \E c \in Adders : DeleteChannelRow(u, c)
  \/ \E r \in Removers : \/ \E d \in AllDevices : RemoveDevice(r, d)
                         \/ RemoveChannels(r) \/ RemoveFails(r)

CountSpec == CountInit /\ [][CountNext]_countVars

----------------------------------------------------------------------------
\* The rows and the calls keep their types.
CountTypeOK ==
  /\ DOMAIN number \subseteq AllDevices
  /\ \A d \in DOMAIN number : number[d] \in 0..Cardinality(Adders)
  /\ DOMAIN parent \subseteq Adders /\ \A c \in DOMAIN parent : parent[c] \in AllDevices
  /\ \A u \in Users : /\ user[u].pc \in {"new", "row", "count", "uncount", "channels", "done"}
                      /\ user[u].dev \in AllDevices \cup {NoDevice}
  /\ miscounted \subseteq AllDevices

\* When no call is at work a device shows the number of its channels, however
\* additions and deletions overlapped; unless a new device did not get its
\* channel, a deletion came before its addition was counted, or the change of the
\* number failed (AddChannel, DelChannel).
ChannelsCounted ==
  (\A u \in Users : user[u].pc \in {"new", "done"}) =>
     \A d \in DOMAIN number \ miscounted : number[d] = Cardinality(ChildrenOf(d))
=============================================================================
