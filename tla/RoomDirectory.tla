---------------------------- MODULE RoomDirectory ----------------------------
(***************************************************************************)
(* What rooms promise to the browsers, with nothing of the locks, slices   *)
(* and loops that bring it about: the abstract specification of            *)
(* RoomManager.                                                            *)
(*                                                                         *)
(* A connection is in a room or is not: it enters or leaves in one step,   *)
(* for everyone at once, and one room at a time.  That step decides who    *)
(* is to be told: everybody in the room, the newcomer or leaver included,  *)
(* once each.  What they are told of it is still so when they are told.    *)
(* A newcomer is told of those it found, who may be gone when it is.       *)
(***************************************************************************)
CONSTANTS Client, Room, InitialRooms, NameOf, NoRoom

VARIABLES
  up,               \* the connections that have a browser at their end
  rooms,            \* the rooms that exist
  members,          \* who is in each
  change,           \* the room it has entered or left and not yet told all of
  telling,          \* whom it has still to tell
  hearing,          \* of whom a newcomer has still to be told
  roster            \* what each browser has been told: <<room, name>>

vars == <<up, rooms, members, change, telling, hearing, roster>>

Init ==
  /\ up = [c \in Client |-> FALSE]
  /\ rooms = InitialRooms
  /\ members = [r \in Room |-> {}]
  /\ change = [c \in Client |-> NoRoom]
  /\ telling = [c \in Client |-> {}]
  /\ hearing = [c \in Client |-> {}]
  /\ roster = [c \in Client |-> {}]

Arrive(c) ==
  /\ ~up[c]
  /\ \A r \in Room : c \notin members[r]
  /\ up' = [up EXCEPT ![c] = TRUE]
  /\ UNCHANGED <<rooms, members, change, telling, hearing, roster>>

\* The browser goes, and what it was told with it; its connection is still in its rooms.
Depart(c) ==
  /\ up[c]
  /\ up' = [up EXCEPT ![c] = FALSE]
  /\ roster' = [roster EXCEPT ![c] = {}]
  /\ UNCHANGED <<rooms, members, change, telling, hearing>>

Found(r) ==
  /\ r \notin rooms
  /\ rooms' = rooms \cup {r}
  /\ UNCHANGED <<up, members, change, telling, hearing, roster>>

Enter(c, r) ==
  /\ change[c] = NoRoom
  /\ r \in rooms
  /\ c \notin members[r]
  /\ members' = [members EXCEPT ![r] = @ \cup {c}]
  /\ change' = [change EXCEPT ![c] = r]
  /\ telling' = [telling EXCEPT ![c] = members[r] \cup {c}]
  /\ hearing' = [hearing EXCEPT ![c] = members[r]]
  /\ UNCHANGED <<up, rooms, roster>>

Exit(c, r) ==
  /\ change[c] = NoRoom
  /\ c \in members[r]
  /\ members' = [members EXCEPT ![r] = @ \ {c}]
  /\ change' = [change EXCEPT ![c] = r]
  /\ telling' = [telling EXCEPT ![c] = members[r]]
  /\ UNCHANGED <<up, rooms, hearing, roster>>

\* RoomJoin when c is in the room, RoomLeft when it is not.
Told(c, d) ==
  IF c \in members[change[c]] THEN roster[d] \cup {<<change[c], NameOf[c]>>}
                              ELSE roster[d] \ {<<change[c], NameOf[c]>>}

Tell(c, d) ==
  /\ d \in telling[c]
  /\ telling' = [telling EXCEPT ![c] = @ \ {d}]
  /\ roster' = IF up[d] THEN [roster EXCEPT ![d] = Told(c, d)] ELSE roster
  /\ UNCHANGED <<up, rooms, members, change, hearing>>

Hear(c, d) ==
  /\ d \in hearing[c]
  /\ c \in members[change[c]]
  /\ hearing' = [hearing EXCEPT ![c] = @ \ {d}]
  /\ roster' = IF up[c] THEN [roster EXCEPT ![c] = @ \cup {<<change[c], NameOf[d]>>}]
                        ELSE roster
  /\ UNCHANGED <<up, rooms, members, change, telling>>

Settle(c) ==
  /\ change[c] # NoRoom
  /\ telling[c] = {}
  /\ hearing[c] = {}
  /\ change' = [change EXCEPT ![c] = NoRoom]
  /\ UNCHANGED <<up, rooms, members, telling, hearing, roster>>

Next ==
  \/ \E c \in Client : Arrive(c) \/ Depart(c) \/ Settle(c)
  \/ \E c \in Client, r \in Room : Enter(c, r) \/ Exit(c, r)
  \/ \E c, d \in Client : Tell(c, d) \/ Hear(c, d)
  \/ \E r \in Room : Found(r)

Spec == Init /\ [][Next]_vars

=============================================================================
