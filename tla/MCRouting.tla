------------------------------ MODULE MCRouting ------------------------------
(***************************************************************************)
(* An instance of Routing for TLC: three channels, of which one takes the  *)
(* alias of another, and three events.                                     *)
(***************************************************************************)
EXTENDS Routing

Tag(k, v) == [key |-> k, value |-> v]
Field(path, tags, type) == [path |-> path, tags |-> tags, type |-> type]
IntType == <<[ref |-> FALSE, name |-> "int"]>>
Struct(n, tags, fields) == [decl |-> [name |-> n, tags |-> tags, fields |-> fields]]

\* The alias of each of the first two is the name of the other.
Move ==
  Struct("move", <<Tag("alias", "look")>>,
         <<Field(<<"id">>, <<Tag("alias", "i")>>, IntType),
           Field(<<"note">>, <<Tag("server", ""), Tag("alias", "n")>>, IntType)>>)

\* A direction and an alias in a nested struct.
Look ==
  Struct("look", <<Tag("alias", "move")>>,
         <<Field(<<"pos">>, <<>>, <<>>),
           Field(<<"pos", "z">>, <<Tag("server", ""), Tag("alias", "i")>>, IntType)>>)

Enter == Struct("enter", <<Tag("alias", "edd:room:join_request")>>, <<>>)

McName == {"move", "look", "enter", "edd:room:join_request", "id", "note", "i", "n",
           "pos", "z", "a", "b", "c"}

McStructText == {Move.decl, Look.decl, Enter.decl}

Ch(n, alias, enabled, s2cOnly, c2sOnly) ==
  [name |-> n, alias |-> alias, enabled |-> enabled,
   directions |-> [d \in Direction |-> IF d = ServerToClient THEN s2cOnly ELSE c2sOnly]]

A == Ch("a", NoAlias, {Move, Look}, {}, {})
B == Ch("b", "c", {Enter}, {}, {"enter"})
C == Ch("c", "a", {Enter}, {}, {"enter"})

McChannel == {A, B, C}
McRoomChannel == {B}

=============================================================================
