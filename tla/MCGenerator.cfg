\* Two files of up to two structs and one channel; both modes of the command.
SPECIFICATION Spec
CONSTANTS
  Name = {"a", "b"}
  Namespace = {n1, n2}
  NoAlias = NoAlias
  Primitive = {"int"}
  StructText <- McStructText
  TagText <- McTagText
  Reserved <- McReserved
  MaxFiles = 2
  MaxStructs = 2
  MaxChannels = 1
  Mode = {"gen", "skeleton"}
SYMMETRY Symmetry
INVARIANTS
  TypeOK
  EventsHaveAWay
  AliasesDistinct
  AcceptedNamesResolve
  AcceptedAcyclic
  RefusedTouchesNothing
  ServerBeforeClient
  SuccessIsComplete
