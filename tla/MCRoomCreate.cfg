\* Two connections race to create, list, join and leave one room, and wait for its lock.
SPECIFICATION Spec
CONSTANTS
  c1 = c1
  c2 = c2
  c3 = c3
  r1 = r1
  r2 = r2
  r3 = r3
  r4 = r4
  chA = chA
  chB = chB
  NoRoom = NoRoom
  Client = {c1, c2}
  Room = {r1}
  Channel = {chA}
  InitialRooms = {}
  InitialPublic = {}
  MultiRoomMode <- MultiRoom
  RoomLimit <- NoLimit
  ChannelOf <- OneChannel
  IdOf <- DistinctRoomIds
  NameOf <- OwnName
INVARIANTS
  TypeOK
  MembershipAgrees
  JoinNeverRefused
  QuitLeavesAllRooms
  MembersAcquainted
  PublicRoomsAnnounced
PROPERTIES
  KeepsDirectory
  EventuallyGone
