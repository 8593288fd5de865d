\* A connection that registers while another leaves.
SPECIFICATION Spec
CONSTANTS
  NoChannel = NoChannel
  Client = {c1, c2}
  Channel = {chA}
  Announcing = {chA}
SYMMETRY Symmetry
INVARIANTS
  NoGhosts
