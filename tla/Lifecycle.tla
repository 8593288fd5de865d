------------------------------ MODULE Lifecycle ------------------------------
(***************************************************************************)
(* What a channel, and the browsers, may rely on (the callbacks Connected  *)
(* and Disconnected, UserJoin and UserLeft), with nothing of how the       *)
(* server goes about it: the abstract specification of Handler.            *)
(*                                                                         *)
(* Every channel is asked once about a connection; one that is turned away *)
(* is never told of to anybody.  When a connection that was served leaves, *)
(* every channel is told once, and only then it is over.  A connection is  *)
(* told of others only while it is served itself.                          *)
(***************************************************************************)
CONSTANTS Client, Channel

VARIABLES
  phase,            \* "asking", "served", "leaving", "gone"
  accepted,         \* the channels that have accepted the connection
  dismissed,        \* those that have been told it is gone
  told              \* the presences it believes in: <<channel, connection>>

vars == <<phase, accepted, dismissed, told>>

Init ==
  /\ phase = [c \in Client |-> "asking"]
  /\ accepted = [c \in Client |-> {}]
  /\ dismissed = [c \in Client |-> {}]
  /\ told = [c \in Client |-> {}]

Accept(c, ch) ==
  /\ phase[c] = "asking"
  /\ ch \notin accepted[c]
  /\ accepted' = [accepted EXCEPT ![c] = @ \cup {ch}]
  /\ UNCHANGED <<phase, dismissed, told>>

Enter(c) ==
  /\ phase[c] = "asking"
  /\ Channel \subseteq accepted[c]
  /\ phase' = [phase EXCEPT ![c] = "served"]
  /\ UNCHANGED <<accepted, dismissed, told>>

TurnAway(c) ==
  /\ phase[c] = "asking"
  /\ phase' = [phase EXCEPT ![c] = "gone"]
  /\ told' = [told EXCEPT ![c] = {}]
  /\ UNCHANGED <<accepted, dismissed>>

Hear(c, ch, a) ==
  /\ phase[c] = "served"
  /\ phase[a] # "asking"
  /\ Channel \subseteq accepted[a]
  /\ told' = [told EXCEPT ![c] = @ \cup {<<ch, a>>}]
  /\ UNCHANGED <<phase, accepted, dismissed>>

Forget(c, ch, a) ==
  /\ phase[c] = "served"
  /\ phase[a] = "leaving"
  /\ told' = [told EXCEPT ![c] = @ \ {<<ch, a>>}]
  /\ UNCHANGED <<phase, accepted, dismissed>>

\* The browser has gone, and its picture of the others with it.
Lose(c) ==
  /\ told' = [told EXCEPT ![c] = {}]
  /\ UNCHANGED <<phase, accepted, dismissed>>

Leave(c) ==
  /\ phase[c] = "served"
  /\ phase' = [phase EXCEPT ![c] = "leaving"]
  /\ UNCHANGED <<accepted, dismissed, told>>

Dismiss(c, ch) ==
  /\ phase[c] = "leaving"
  /\ ch \notin dismissed[c]
  /\ dismissed' = [dismissed EXCEPT ![c] = @ \cup {ch}]
  /\ UNCHANGED <<phase, accepted, told>>

End(c) ==
  /\ phase[c] = "leaving"
  /\ Channel \subseteq dismissed[c]
  /\ phase' = [phase EXCEPT ![c] = "gone"]
  /\ UNCHANGED <<accepted, dismissed, told>>

Next == \E c \in Client :
  \/ Enter(c) \/ TurnAway(c) \/ Lose(c) \/ Leave(c) \/ End(c)
  \/ \E ch \in Channel : Accept(c, ch) \/ Dismiss(c, ch)
  \/ \E ch \in Channel, a \in Client : Hear(c, ch, a) \/ Forget(c, ch, a)

Spec == Init /\ [][Next]_vars

=============================================================================
