--------------------------- MODULE MCRoomManager ---------------------------
(***************************************************************************)
(* Instances of RoomManager for TLC: rooms and connections are model       *)
(* values; the functions over them are defined here.                       *)
(***************************************************************************)
EXTENDS RoomManager, TLC

CONSTANTS c1, c2, c3, r1, r2, r3, r4, chA, chB

OneChannel == [r \in Room |-> chA]
RoomThreeOnB == [r \in Room |-> IF r = r3 THEN chB ELSE chA]

MultiRoom == [ch \in Channel |-> TRUE]
SingleRoomB == [ch \in Channel |-> ch # chB]

NoLimit == [ch \in Channel |-> 0]
LimitOneA == [ch \in Channel |-> IF ch = chA THEN 1 ELSE 0]

DistinctRoomIds == [r \in Room |-> r]
SameRoomId == [r \in Room |-> "lobby"]

OwnName == [c \in Client |-> c]

\* Bound: once a room has been created there is one connection at a time.
OneOnceCreated ==
  rooms = InitialRooms \/ Cardinality({c \in Client : pc[c] \notin {"new", "done"}}) <= 1

Symmetry == Permutations(Client)

=============================================================================
