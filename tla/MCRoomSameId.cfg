\* Two channels each have a room of the same id.
SPECIFICATION Spec
CONSTANTS
  c1 = c1
  c2 = c2
  c3 = c3
  r1 = r1
  r2 = r2
  r3 = r3
  r4 = r4
  chA = chA
  chB = chB
  NoRoom = NoRoom
  Client = {c1, c2}
  Room = {r1, r3}
  Channel = {chA, chB}
  InitialRooms = {r1, r3}
  InitialPublic = {}
  MultiRoomMode <- MultiRoom
  RoomLimit <- NoLimit
  ChannelOf <- RoomThreeOnB
  IdOf <- SameRoomId
  NameOf <- OwnName
SYMMETRY Symmetry
INVARIANTS
  QuitLeavesAllRooms
