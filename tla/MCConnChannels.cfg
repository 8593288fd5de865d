\* Two connections log in to two channels with a ConnManager each, under the same two
\* accounts the other way round.
SPECIFICATION Spec
CONSTANTS
  c1 = c1
  c2 = c2
  c3 = c3
  u1 = u1
  u2 = u2
  u3 = u3
  chA = chA
  chB = chB
  NoUser = NoUser
  NoChannel = NoChannel
  Client = {c1, c2}
  User = {u1, u2}
  Channel = {chA, chB}
  AuthChannel = {chA, chB}
  Managed = {chA, chB}
  Announcing = {chA, chB}
  Logins <- CrossedAccounts
INVARIANTS
  LogoutUnregisters
PROPERTIES
  EventuallyDone
