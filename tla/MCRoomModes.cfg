\* Two rooms of a channel with a limit of one, one of a channel in single-room mode:
\* two connections move between them, create one more, and end.
SPECIFICATION Spec
CONSTANTS
  c1 = c1
  c2 = c2
  c3 = c3
  r1 = r1
  r2 = r2
  r3 = r3
  r4 = r4
  chA = chA
  chB = chB
  NoRoom = NoRoom
  Client = {c1, c2}
  Room = {r1, r2, r3, r4}
  Channel = {chA, chB}
  InitialRooms = {r1, r2, r3}
  InitialPublic = {}
  MultiRoomMode <- SingleRoomB
  RoomLimit <- LimitOneA
  ChannelOf <- RoomThreeOnB
  IdOf <- DistinctRoomIds
  NameOf <- OwnName
SYMMETRY Symmetry
CONSTRAINT OneOnceCreated
INVARIANTS
  QuitLeavesAllRooms
  RoomsPerUser
  JoinNeverRefused
