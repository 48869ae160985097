------------------------- MODULE EventSubscriptions -------------------------
(***************************************************************************)
(* The server as a source of events: SUBSCRIBE adds, renews or ends a      *)
(* subscription; an event walks over all of them, sends a NOTIFY to those  *)
(* that match and waits for its answer; a cleaner walks over them every    *)
(* minute.  Both walks delete what they found expired.  A walk reads an    *)
(* entry and deletes its key in two steps, and sync.Map.Range only         *)
(* promises to visit what is there from its beginning to its end.          *)
(***************************************************************************)
EXTENDS Naturals, FiniteSets

CONSTANTS
  SubKeys,        \* keys of subscriptions: dialog, tag, type and device
  Wants,          \* [SubKeys -> [type, dev]]; dev is AnyDevice for "*"
  Events,         \* the events that happen: records [type, dev]
  Walkers,        \* goroutines that publish an event
  Cleaner,        \* the goroutine of startEventSubscriberCleaner
  Lifetimes,      \* the values of Expires asked for, 0 excluded
  MaxSubTime      \* bound on the clock

AnyDevice == "*"
NoKey == "nokey"

ASSUME SubscriptionAssumption ==
  /\ Cleaner \notin Walkers
  /\ Lifetimes \subseteq Nat \ {0} /\ MaxSubTime \in Nat
  /\ NoKey \notin SubKeys

VARIABLES
  clock,          \* the time, in units of the lifetimes
  subs,           \* g.eventSubscribers: key -> ExpiresAt
  walk,           \* each walk: [pc, at, left, key, event]
  told            \* what a subscriber was told last: [until, state]

subVars == <<clock, subs, walk, told>>

NoEvent == [type |-> NoKey, dev |-> NoKey]
Resting == [pc |-> "rest", at |-> 0, left |-> {}, kept |-> {}, key |-> NoKey, event |-> NoEvent]
Fresh == [until |-> 0, state |-> "none"]
Walks == Walkers \cup {Cleaner}

SubInit ==
  /\ clock = 0
  /\ subs = [k \in {} |-> 0]
  /\ walk = [w \in Walks |-> Resting]
  /\ told = [k \in SubKeys |-> Fresh]

----------------------------------------------------------------------------
(* Sets of subscriptions. *)

ExpiredAt(k, t) == t > subs[k]
Granted(k, until) == [j \in DOMAIN subs \cup {k} |-> IF j = k THEN until ELSE subs[j]]
Dropped(k) == [j \in DOMAIN subs \ {k} |-> subs[j]]

Matches(k, event) ==
  /\ Wants[k].type = event.type
  /\ Wants[k].dev \in {AnyDevice, event.dev}

\* A subscriber that never let its subscription lapse relies on the last time
\* it was told; one that did may meet a walk that still holds the old entry.
InTime(k) == told[k].state = "none" \/ (told[k].state = "held" /\ told[k].until >= clock)
Tell(k, until, state) ==
  told' = [told EXCEPT ![k] = IF InTime(k) THEN [until |-> until, state |-> state]
                              ELSE [until |-> 0, state |-> "late"]]

----------------------------------------------------------------------------
(* sipSubscribeEvent *)

Subscribe(k) ==
  /\ \E life \in Lifetimes :
       /\ subs' = Granted(k, clock + life)
       /\ Tell(k, clock + life, "held")
  /\ UNCHANGED <<clock, walk>>

\* Expires: 0
Unsubscribe(k) ==
  /\ k \in DOMAIN subs
  /\ subs' = Dropped(k)
  /\ Tell(k, 0, "none")
  /\ walk' = [w \in Walks |-> [walk[w] EXCEPT !.kept = @ \ {k}]]
  /\ UNCHANGED clock

----------------------------------------------------------------------------
(* publishEventNotify and startEventSubscriberCleaner *)

Walking(w, pc) == walk[w].pc = pc
Relied == {k \in SubKeys : told[k].state = "held" /\ InTime(k)}

\* `at` is the time read before the walk, `left` what Range must still visit,
\* `kept` who is owed a NOTIFY if it matches.
BeginWalk(w, event) ==
  /\ Walking(w, "rest")
  /\ walk' = [walk EXCEPT ![w] = [pc |-> "range", at |-> clock, left |-> DOMAIN subs,
                                  kept |-> Relied, key |-> NoKey, event |-> event]]
  /\ UNCHANGED <<clock, subs, told>>

Publish(w) == w \in Walkers /\ \E event \in Events : BeginWalk(w, event)
CleanerTicks == BeginWalk(Cleaner, NoEvent)

\* Mutant: the function returns false for an entry that is expired, and Range ends.
MutVisit(w, k) ==
  walk' = [walk EXCEPT ![w].left = IF ExpiredAt(k, walk[w].at) THEN {} ELSE @ \ {k},
                       ![w].key = k,
                       ![w].pc = IF ExpiredAt(k, walk[w].at) THEN "drop"
                                 ELSE IF Matches(k, walk[w].event) THEN "send" ELSE "range"]

\* What the function given to Range does with the entry it is called with.
Visit(w, k) ==
  walk' = [walk EXCEPT ![w].left = @ \ {k},
                       ![w].key = k,
                       ![w].pc = IF ExpiredAt(k, walk[w].at) THEN "drop"
                                 ELSE IF Matches(k, walk[w].event) THEN "send" ELSE "range"]

\* Range visits what was stored when it began and is still there.
VisitNext(w) ==
  /\ Walking(w, "range")
  /\ \E k \in walk[w].left \cap DOMAIN subs : Visit(w, k)
  /\ UNCHANGED <<clock, subs, told>>

DropExpired(w) ==
  /\ Walking(w, "drop")
  /\ subs' = Dropped(walk[w].key)
  /\ walk' = [walk EXCEPT ![w].pc = "range"]
  /\ UNCHANGED <<clock, told>>

\* sendEventNotify; an error is logged and the walk goes on.
SendNotify(w) ==
  /\ Walking(w, "send")
  /\ walk' = [walk EXCEPT ![w].pc = "range", ![w].kept = @ \ {walk[w].key}]
  /\ UNCHANGED <<clock, subs, told>>

EndsNext(w) == Walking(w, "range") /\ walk[w].left \cap DOMAIN subs = {}

EndWalk(w) ==
  /\ EndsNext(w)
  /\ walk' = [walk EXCEPT ![w] = Resting]
  /\ UNCHANGED <<clock, subs, told>>

\* A promise that runs out during a walk is no longer owed by it.
SubTick ==
  /\ clock < MaxSubTime /\ clock' = clock + 1
  /\ walk' = [w \in Walks |->
       [walk[w] EXCEPT !.kept = {k \in @ : told[k].until > clock}]]
  /\ UNCHANGED <<subs, told>>

Walk(w) == VisitNext(w) \/ DropExpired(w) \/ SendNotify(w) \/ EndWalk(w)

SubNext ==
  \/ \E k \in SubKeys : Subscribe(k) \/ Unsubscribe(k)
  \/ \E w \in Walkers : Publish(w)
  \/ CleanerTicks
  \/ \E w \in Walks : Walk(w)
  \/ SubTick

SubSpec == SubInit /\ [][SubNext]_subVars

----------------------------------------------------------------------------
\* The subscriptions and the walks keep their types.
SubTypeOK ==
  /\ clock \in 0..MaxSubTime
  /\ DOMAIN subs \subseteq SubKeys /\ \A k \in DOMAIN subs : subs[k] \in Nat
  /\ walk \in [Walks -> [pc : {"rest", "range", "drop", "send"}, at : Nat,
                         left : SUBSET SubKeys, kept : SUBSET SubKeys,
                         key : SubKeys \cup {NoKey}, event : Events \cup {NoEvent}]]
  /\ told \in [SubKeys -> [until : Nat, state : {"none", "held", "late"}]]

\* A subscriber that renews before its time is over stays subscribed until the
\* time it was last told, whatever walks found expired entries meanwhile
\* (subscribe_source.go, sipSubscribeEvent, publishEventNotify).
SubKept ==
  \A k \in Relied : k \in DOMAIN subs /\ subs[k] = told[k].until

\* An event is sent to every matching subscriber that could rely on its
\* subscription while the event was published: neither an expired entry nor a
\* subscriber that fails or ends keeps the others from it.
SubAllNotified ==
  \A w \in Walkers : EndsNext(w) => ~\E k \in walk[w].kept : Matches(k, walk[w].event)

\* A subscriber is served until the time it was told.
SubServed == SubKept /\ SubAllNotified
=============================================================================
