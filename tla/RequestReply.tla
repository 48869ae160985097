---------------------------- MODULE RequestReply ----------------------------
(***************************************************************************)
(* What a command sent to a device promises its caller: every call ends    *)
(* once, and it ends as answered only when the device has answered that    *)
(* very call, as long as no call number has been used twice.               *)
(***************************************************************************)
CONSTANT Calls

VARIABLES
  state,    \* of each call: "none", "open", "answered", "failed"
  replied,  \* calls the device has answered
  reused    \* call numbers have begun to repeat

vars == <<state, replied, reused>>

Init ==
  /\ state = [n \in Calls |-> "none"]
  /\ replied = {}
  /\ reused = FALSE

Ask(n) ==
  /\ state[n] = "none"
  /\ state' = [state EXCEPT ![n] = "open"]
  /\ UNCHANGED <<replied, reused>>

\* The device answers calls at any time, once or more, too late included.
Reply(n) ==
  /\ replied' = replied \cup {n}
  /\ UNCHANGED <<state, reused>>

Repeat == reused' = TRUE /\ UNCHANGED <<state, replied>>

Answered(n) ==
  /\ state[n] = "open"
  /\ n \in replied \/ reused
  /\ state' = [state EXCEPT ![n] = "answered"]
  /\ UNCHANGED <<replied, reused>>

Failed(n) ==
  /\ state[n] = "open"
  /\ state' = [state EXCEPT ![n] = "failed"]
  /\ UNCHANGED <<replied, reused>>

Finish(n) == Answered(n) \/ Failed(n)

Next == Repeat \/ \E n \in Calls : Ask(n) \/ Reply(n) \/ Finish(n)

Spec == Init /\ [][Next]_vars

FairSpec == Spec /\ \A n \in Calls : WF_vars(Finish(n))
=============================================================================
