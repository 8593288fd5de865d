\* A login that fails after setAuth is never revoked.
SPECIFICATION Spec
CONSTANTS
  c1 = c1
  c2 = c2
  c3 = c3
  u1 = u1
  u2 = u2
  u3 = u3
  chA = chA
  chB = chB
  NoUser = NoUser
  NoChannel = NoChannel
  Client = {c1, c2}
  User = {u1, u2}
  Channel = {chA}
  AuthChannel = {chA}
  Managed = {chA}
  Announcing = {chA}
  Logins <- OwnUser
INVARIANTS
  ConnectedUsersAreConnected
