-------------------------------- MODULE Design --------------------------------
(***************************************************************************)
(* Reading a design (internal/eddgen): ParseYamls reads the files one by   *)
(* one, merges each into the design of the first, and Validate decides     *)
(* whether code is generated from it.                                      *)
(*                                                                         *)
(* The document is what the environment chooses: an action reads one entry *)
(* of it.  A struct, once read, is <<file, decl>> as a record; the fields  *)
(* of nested structs are written with their path, and a type is the list   *)
(* of its leaves, the keys of its maps first.                              *)
(***************************************************************************)
EXTENDS DesignTypes

CONSTANTS
  Namespace,
  Primitive,        \* the type names of ValidateType
  TagText,          \* the tags a channel or an event of a dual list may have
  Reserved,         \* Reserved[n]: n followed by Context, DefaultContext, Recv
  MaxFiles, MaxStructs, MaxChannels   \* bounds: files, entries of one file

ASSUME DesignAssumption ==
  /\ Reserved \in [Name -> SUBSET Name]
  /\ \A tags \in TagText : Alias(tags) \in Name \cup {NoAlias}
  /\ MaxFiles \in Nat \ {0}
  /\ MaxStructs \in Nat
  /\ MaxChannels \in Nat

Struct == [file : 1..MaxFiles, decl : StructText]
Channel == [name : Name, alias : Name \cup {NoAlias}, enabled : SUBSET Struct,
            directions : [Direction -> SUBSET Name]]

VARIABLES
  phase,            \* where ParseAndValidateYamls is
  err,              \* why it has failed
  file,             \* the number of the file at hand
  (* the Design of the file at hand *)
  ns2, structs2, channels2,
  chan,             \* the channel being read
  list,             \* the list of its events being read
  (* the Design of the files before it *)
  ns, structs, channels,
  cache, built      \* structMap, and whether it has been made

fileVars == <<ns2, structs2, channels2, chan, list>>
designVars == <<ns, structs, channels, cache, built>>
designState == <<phase, err, file, fileVars, designVars>>

Phase ==
  {"open", "structs", "channels", "events", "merge", "next",
   "directions", "enabled", "types", "reserved", "accepted", "failed", "crashed"}

-----------------------------------------------------------------------------
At(p) == phase = p
Goto(p) == phase' = p /\ UNCHANGED err
Fail(e) == phase' = "failed" /\ err' = e /\ UNCHANGED <<file, fileVars, designVars>>
Crash == phase' = "crashed" /\ UNCHANGED <<err, file, fileVars, designVars>>

NoChannel ==
  [name |-> NoAlias, alias |-> NoAlias, enabled |-> {}, directions |-> [d \in Direction |-> {}]]

(***************************************************************************)
(* ParseYaml.  The file may not be read, or not be YAML of the expected    *)
(* shape; when it has no "structs" at all, the pointer to them is nil.     *)
(***************************************************************************)
OpenFile(n) ==
  /\ At("open")
  /\ ns2' = n
  /\ structs2' = {}
  /\ channels2' = {}
  /\ Goto("structs")
  /\ UNCHANGED <<file, chan, list, designVars>>

ReadFails == At("open") /\ Fail("file")

NoStructs == At("open") /\ Crash

UsableMutant(st) ==
  /\ WellFormed(st)
  /\ \A s \in structs2 : s.decl.name # st.name
Usable(st) ==
  /\ WellFormed(st)
  /\ \A s \in structs2 : s.decl.name # st.name /\ StructAlias(s.decl) # StructAlias(st)

ParseStruct(st) ==
  /\ At("structs")
  /\ Cardinality(structs2) < MaxStructs
  /\ Usable(st)
  /\ structs2' = structs2 \cup {[file |-> file, decl |-> st]}
  /\ UNCHANGED <<phase, err, file, ns2, channels2, chan, list, designVars>>

ParseStructFails(st) == At("structs") /\ ~Usable(st) /\ Fail("struct")

EndStructs ==
  /\ At("structs")
  /\ Goto("channels")
  /\ UNCHANGED <<file, fileVars, designVars>>

OpenChannel(n, tags) ==
  /\ At("channels")
  /\ Cardinality(channels2) < MaxChannels
  /\ \A ch \in channels2 : ch.name # n
  /\ chan' = [NoChannel EXCEPT !.name = n, !.alias = Alias(tags)]
  /\ list' = "dual"
  /\ Goto("events")
  /\ UNCHANGED <<file, ns2, structs2, channels2, designVars>>

DuplicateChannel(n) == At("channels") /\ (\E ch \in channels2 : ch.name = n) /\ Fail("channel")

(***************************************************************************)
(* The lists of a channel are read one after the other: dual, whose events *)
(* may have a direction of their own, server and client.                   *)
(***************************************************************************)
NextList(l) ==
  /\ At("events")
  /\ <<list, l>> \in {<<"dual", "server">>, <<"server", "client">>}
  /\ list' = l
  /\ UNCHANGED <<phase, err, file, ns2, structs2, channels2, chan, designVars>>

EventDirection(tags) ==
  CASE list = "dual" -> TagDirection(tags)
    [] list = "server" -> ServerToClient
    [] list = "client" -> ClientToServer

EnableEventMutant(s, tags) ==
  /\ At("events")
  /\ s \in structs2
  /\ chan' = [chan EXCEPT
       !.enabled = @ \cup {s},
       !.directions = [d \in Direction |->
          @[d] \cup IF d = EventDirection(tags) THEN {s.decl.name} ELSE {}]]
  /\ UNCHANGED <<phase, err, file, ns2, structs2, channels2, list, designVars>>
EnableEvent(s, tags) ==
  /\ At("events")
  /\ s \in structs2
  /\ s.decl.name \notin EnabledNames(chan)
  /\ chan' = [chan EXCEPT
       !.enabled = @ \cup {s},
       !.directions = [d \in Direction |->
          @[d] \cup IF d = EventDirection(tags) THEN {s.decl.name} ELSE {}]]
  /\ UNCHANGED <<phase, err, file, ns2, structs2, channels2, list, designVars>>

EnableEventFails(n) ==
  /\ At("events")
  /\ n \in EnabledNames(chan) \/ n \notin {s.decl.name : s \in structs2}
  /\ Fail("event")

CloseChannelMutant ==
  /\ At("events")
  /\ list = "client"
  /\ channels2' = channels2 \cup {chan}
  /\ Goto("channels")
  /\ UNCHANGED <<file, ns2, structs2, chan, list, designVars>>
CloseChannel ==
  /\ At("events")
  /\ list = "client"
  /\ channels2' = channels2 \cup {chan}
  /\ chan' = NoChannel
  /\ Goto("channels")
  /\ UNCHANGED <<file, ns2, structs2, list, designVars>>

-----------------------------------------------------------------------------
(***************************************************************************)
(* ParseYamls: the first file is the design itself.                        *)
(***************************************************************************)
FirstFile ==
  /\ At("channels")
  /\ file = 1
  /\ ns' = ns2
  /\ structs' = structs2
  /\ channels' = channels2
  /\ Goto("next")
  /\ UNCHANGED <<file, fileVars, cache, built>>

LaterFile ==
  /\ At("channels")
  /\ file > 1
  /\ Goto("merge")
  /\ UNCHANGED <<file, fileVars, designVars>>

\* The map is made when it is first asked for, and kept.
StructsMap == IF built THEN cache ELSE structs

MakeMap == cache' = StructsMap /\ built' = TRUE

MergeableMutant ==
  /\ ns = ns2
  /\ \A ch \in channels, ch2 \in channels2 : ch.name # ch2.name
Mergeable ==
  /\ ns = ns2
  /\ \A s \in StructsMap, t \in structs2 : s.decl.name # t.decl.name
  /\ \A ch \in channels, ch2 \in channels2 : ch.name # ch2.name

Merge ==
  /\ At("merge")
  /\ Mergeable
  /\ MakeMap
  /\ structs' = structs \cup structs2
  /\ channels' = channels \cup channels2
  /\ Goto("next")
  /\ UNCHANGED <<file, fileVars, ns>>

MergeFails == At("merge") /\ ~Mergeable /\ Fail("merge")

NextFile ==
  /\ At("next")
  /\ file < MaxFiles
  /\ file' = file + 1
  /\ Goto("open")
  /\ UNCHANGED <<fileVars, designVars>>

EndFiles ==
  /\ At("next")
  /\ Goto("directions")
  /\ UNCHANGED <<file, fileVars, designVars>>

-----------------------------------------------------------------------------
(***************************************************************************)
(* Validate.  The map of the structs is the one that Merge has made, when  *)
(* there was a merge.                                                      *)
(***************************************************************************)
Check(p, ok, next, e) ==
  /\ At(p)
  /\ \/ /\ ok
        /\ MakeMap
        /\ Goto(next)
        /\ UNCHANGED <<file, fileVars, ns, structs, channels>>
     \/ ~ok /\ Fail(e)

ValidateDirections ==
  Check("directions",
        \A ch \in channels : \A d \in Direction : ch.directions[d] \subseteq EnabledNames(ch),
        "enabled", "direction")

KnownNames == {s.decl.name : s \in StructsMap}

ValidateEnabled ==
  Check("enabled", \A ch \in channels : EnabledNames(ch) \subseteq KnownNames,
        "types", "unknown event")

(***************************************************************************)
(* ValidateStruct descends into every reference: it comes back when the    *)
(* references make no cycle.  With a cycle it may find a wrong type first, *)
(* or exhaust the stack.                                                   *)
(***************************************************************************)
TypesKnown ==
  \A s \in structs : \A l \in Leaves(s.decl) :
    IF l.ref THEN l.name \in KnownNames ELSE l.name \in Primitive

Cyclic(S) ==
  \E T \in SUBSET S : /\ T # {}
                      /\ \A s \in T : \E t \in T : t.decl.name \in References(s.decl)

ValidateTypesMutant == Check("types", TypesKnown, "reserved", "type")
ValidateTypes ==
  \/ At("types") /\ ~Cyclic(StructsMap) /\ Check("types", TypesKnown, "reserved", "type")
  \/ At("types") /\ Cyclic(StructsMap) /\ ~TypesKnown /\ Fail("type")
  \/ At("types") /\ Cyclic(StructsMap) /\ Crash

ValidateReserved ==
  Check("reserved", \A ch \in channels : Reserved[ch.name] \cap KnownNames = {},
        "accepted", "reserved")

-----------------------------------------------------------------------------
DesignInit ==
  /\ phase = "open"
  /\ err = ""
  /\ file = 1
  /\ ns2 = NoAlias
  /\ structs2 = {}
  /\ channels2 = {}
  /\ chan = NoChannel
  /\ list = "dual"
  /\ ns = ns2
  /\ structs = {}
  /\ channels = {}
  /\ cache = {}
  /\ built = FALSE

ParseYaml ==
  \/ \E n \in Namespace : OpenFile(n)
  \/ ReadFails
  \/ NoStructs
  \/ \E st \in StructText : ParseStruct(st) \/ ParseStructFails(st)
  \/ EndStructs
  \/ \E n \in Name, tags \in TagText : OpenChannel(n, tags)
  \/ \E n \in Name : DuplicateChannel(n) \/ EnableEventFails(n)
  \/ \E l \in {"server", "client"} : NextList(l)
  \/ \E s \in structs2, tags \in TagText : EnableEvent(s, tags)
  \/ CloseChannel

ParseYamls ==
  ParseYaml \/ FirstFile \/ LaterFile \/ Merge \/ MergeFails \/ NextFile \/ EndFiles

Validate ==
  ValidateDirections \/ ValidateEnabled \/ ValidateTypes \/ ValidateReserved

DesignNext == ParseYamls \/ Validate

DesignSpec == DesignInit /\ [][DesignNext]_designState

-----------------------------------------------------------------------------
(***************************************************************************)
(* Types; the channel at hand is one only while its events are read.       *)
(***************************************************************************)
DesignTypeOK ==
  /\ phase \in Phase
  /\ file \in 1..MaxFiles
  /\ structs2 \subseteq Struct
  /\ structs \subseteq Struct
  /\ cache \subseteq Struct
  /\ built \in BOOLEAN
  /\ channels2 \subseteq Channel
  /\ channels \subseteq Channel
  /\ list \in {"dual", "server", "client"}
  /\ IF At("events") THEN chan \in Channel ELSE chan = NoChannel \/ At("failed")

(***************************************************************************)
(* An event that a channel enables goes in one direction at least: no      *)
(* order of the lists and of the tags in the file makes one that the       *)
(* browser may not send and the server may not send either.                *)
(***************************************************************************)
EventsHaveAWay ==
  \A ch \in channels \cup channels2 \cup {chan} : \A s \in ch.enabled :
    \E d \in Direction : s \in DirectionEvents(ch, d)

(***************************************************************************)
(* The name on the wire tells the events of a channel apart, whichever     *)
(* files they come from: no two cases of the generated Route are equal.    *)
(***************************************************************************)
AliasesDistinct ==
  \A ch \in channels \cup channels2 \cup {chan} : \A s, t \in ch.enabled :
    StructAlias(s.decl) = StructAlias(t.decl) => s = t

(***************************************************************************)
(* In a design that is accepted, the name of an event of a channel or of a *)
(* type is the name of one struct of the design, though the map that       *)
(* Validate looks in is not that of the merged design.                     *)
(***************************************************************************)
UsedNames ==
  (UNION {EnabledNames(ch) : ch \in channels}) \cup (UNION {References(s.decl) : s \in structs})

AcceptedNamesResolve ==
  At("accepted") => \A n \in UsedNames :
    /\ \E s \in structs : s.decl.name = n
    /\ \A s, t \in structs : s.decl.name = n /\ t.decl.name = n => s = t

(***************************************************************************)
(* The generators follow the references of an accepted design to their     *)
(* end (FieldsWithStrictDirection): there is no cycle in them.             *)
(***************************************************************************)
AcceptedAcyclic == At("accepted") => ~Cyclic(structs)

(***************************************************************************)
(* "validate if enabled type exists" (eddgen.go:79): an event is unknown   *)
(* only when no struct of the design has its name.                         *)
(***************************************************************************)
KnownEventsAccepted ==
  err = "unknown event" =>
    ~ UNION {EnabledNames(ch) : ch \in channels} \subseteq {s.decl.name : s \in structs}

=============================================================================
