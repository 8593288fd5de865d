\* Three connections come and go on two channels, one of them announcing.
SPECIFICATION Spec
CONSTANTS
  NoChannel = NoChannel
  Client = {c1, c2, c3}
  Channel = {chA, chB}
  Announcing = {chA}
SYMMETRY Symmetry
INVARIANTS
  TypeOK
  PeersIntroduced
  LeaversForgotten
  CallbacksPaired
PROPERTIES
  KeepsContract
