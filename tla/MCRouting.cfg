\* Two calls of send, over two sockets of one page.
SPECIFICATION Spec
CONSTANTS
  Name <- McName
  NoAlias = NoAlias
  StructText <- McStructText
  Channel <- McChannel
  RoomChannel <- McRoomChannel
  MaxStarts = 2
  MaxFrames = 2
INVARIANTS
  TypeOK
  ConnectedIsOpen
  HandledAsSent
  FieldsArrive
  OnlyOptionalLost
  TextInTurn
