\* Two connections of one user and one of another; a second channel with a ConnManager
\* asks nobody for credentials.
SPECIFICATION Spec
CONSTANTS
  c1 = c1
  c2 = c2
  c3 = c3
  u1 = u1
  u2 = u2
  u3 = u3
  chA = chA
  chB = chB
  NoUser = NoUser
  NoChannel = NoChannel
  Client = {c1, c2, c3}
  User = {u1, u2}
  Channel = {chA, chB}
  AuthChannel = {chA}
  Managed = {chA, chB}
  Announcing = {chA}
  Logins <- SharedUser
INVARIANTS
  TypeOK
  RegistersAgree
  UsersAcquainted
  RevokeFindsClient
