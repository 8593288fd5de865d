----------------------------- MODULE DesignTypes -----------------------------
(***************************************************************************)
(* Structs, channels, tags and fields of a design, and what the templates  *)
(* ask of them (internal/eddgen/structs.go).                               *)
(*                                                                         *)
(* A declaration of a struct has a name, tags and fields, in order; a      *)
(* field has a path, longer than one when it is in a nested struct, tags,  *)
(* and a type: the list of its leaves, the keys of its maps first.         *)
(***************************************************************************)
EXTENDS Naturals, FiniteSets, Sequences

CONSTANTS
  Name,             \* names and aliases of structs and channels
  NoAlias,          \* ""
  StructText        \* the declarations of structs

ASSUME DesignTypesAssumption ==
  /\ NoAlias \notin Name
  /\ \A st \in StructText : st.name \in Name

AnyDirection == "Any"
ServerToClient == "ServerToClient"
ClientToServer == "ClientToServer"
Direction == {ServerToClient, ClientToServer}

(***************************************************************************)
(* Tags are a list; the last alias and the last direction count.           *)
(***************************************************************************)
LastOf(tags, keys) ==
  {i \in DOMAIN tags : /\ tags[i].key \in keys
                       /\ \A j \in DOMAIN tags : tags[j].key \in keys => j <= i}

Alias(tags) ==
  IF LastOf(tags, {"alias"}) = {} THEN NoAlias
  ELSE tags[CHOOSE i \in LastOf(tags, {"alias"}) : TRUE].value

TagDirection(tags) ==
  LET last == LastOf(tags, {"client", "server"}) IN
  IF last = {} THEN AnyDirection
  ELSE IF \E i \in last : tags[i].key = "client" THEN ClientToServer ELSE ServerToClient

StructAlias(st) == IF Alias(st.tags) = NoAlias THEN st.name ELSE Alias(st.tags)

ChannelAlias(ch) == IF ch.alias = NoAlias THEN ch.name ELSE ch.alias

(***************************************************************************)
(* ParseStruct: a key comes once in its mapping, and the keys of a map     *)
(* type are not references.                                                *)
(***************************************************************************)
UniqueKeys(fields) == \A i, j \in DOMAIN fields : fields[i].path = fields[j].path => i = j

PrimitiveKeys(type) == \A k \in DOMAIN type : type[k].ref => k = Len(type)

WellFormed(st) ==
  /\ UniqueKeys(st.fields)
  /\ \A i \in DOMAIN st.fields : PrimitiveKeys(st.fields[i].type)

Leaves(st) == UNION {{st.fields[i].type[k] : k \in DOMAIN st.fields[i].type} : i \in DOMAIN st.fields}

References(st) == {l.name : l \in {m \in Leaves(st) : m.ref}}

EnabledNames(ch) == {s.decl.name : s \in ch.enabled}

(***************************************************************************)
(* The events that go in a direction: all that are not kept to the other.  *)
(***************************************************************************)
Opposite(direction) == IF direction = ClientToServer THEN ServerToClient ELSE ClientToServer

DirectionEvents(ch, direction) ==
  {s \in ch.enabled : s.decl.name \notin ch.directions[Opposite(direction)]}

=============================================================================
