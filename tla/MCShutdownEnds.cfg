\* Close with a timeout while two connections come and go.
SPECIFICATION ShutdownSpec
CONSTANTS
  NoChannel = NoChannel
  Client = {c1, c2}
  Channel = {chA}
  Announcing = {chA}
  HasTimeout = TRUE
INVARIANTS
  ShutdownTypeOK
  NoSenderStuck
PROPERTIES
  CloseTerminates
  EventuallyDone
