\* Two files: the events of the channels of the second.
SPECIFICATION Spec
CONSTANTS
  Name = {"a", "b"}
  Namespace = {n1, n2}
  NoAlias = NoAlias
  Primitive = {"int"}
  StructText <- McStructText
  TagText <- McTagText
  Reserved <- McReserved
  MaxFiles = 2
  MaxStructs = 2
  MaxChannels = 1
  Mode = {"gen", "skeleton"}
SYMMETRY Symmetry
INVARIANT
  KnownEventsAccepted
