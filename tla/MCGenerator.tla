----------------------------- MODULE MCGenerator -----------------------------
(***************************************************************************)
(* An instance of Generator for TLC: a document of the structs a and b.    *)
(***************************************************************************)
EXTENDS Generator, TLC

Type(n) == [ref |-> FALSE, name |-> n]
Ref(n) == [ref |-> TRUE, name |-> n]
Tag(k, v) == [key |-> k, value |-> v]

Decl(n, tags, types) ==
  [name |-> n, tags |-> tags,
   fields |-> [i \in 1..Len(types) |-> [path |-> <<i>>, tags |-> <<>>, type |-> types[i]]]]

(***************************************************************************)
(* Plain structs, references that make a cycle when both are there, an     *)
(* alias that is the name of the other, a key that is a reference.         *)
(***************************************************************************)
McStructText ==
  {Decl("a", <<>>, <<<<Type("int")>>>>),
   Decl("a", <<Tag("alias", "x"), Tag("alias", "b")>>, <<>>),
   Decl("a", <<>>, <<<<Ref("b")>>>>),
   Decl("b", <<>>, <<>>),
   Decl("b", <<>>, <<<<Type("int"), Ref("a")>>>>),
   Decl("b", <<>>, <<<<Ref("a"), Type("int")>>>>),
   Decl("b", <<>>, <<<<Type("nope")>>>>)}

McTagText == {<<>>, <<Tag("client", ""), Tag("server", "")>>, <<Tag("client", "")>>}

\* A struct b is reserved where there is a channel a.
McReserved == [n \in {"a", "b"} |-> IF n = "a" THEN {"b"} ELSE {}]

Symmetry == Permutations(Namespace)

=============================================================================
