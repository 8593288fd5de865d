---------------------------- MODULE DesignProofs ----------------------------
(***************************************************************************)
(* Proofs about the reading of a design, for any documents: what is true   *)
(* of a design that code is generated from.                                *)
(***************************************************************************)
EXTENDS Design, TLAPS

(***************************************************************************)
(* A channel, at any moment: what has a direction is enabled, in one       *)
(* direction at most, and the aliases tell its events apart.               *)
(***************************************************************************)
ChannelOK(ch) ==
  /\ \A d \in Direction : \A n \in ch.directions[d] : \E s \in ch.enabled : s.decl.name = n
  /\ \A n \in ch.directions[ServerToClient] : n \notin ch.directions[ClientToServer]
  /\ \A s, t \in ch.enabled : StructAlias(s.decl) = StructAlias(t.decl) => s = t

ChannelsInv ==
  /\ \A ch \in channels : ChannelOK(ch)
  /\ \A ch \in channels2 : ChannelOK(ch)
  /\ ChannelOK(chan)
  /\ At("events") => \A s \in chan.enabled : s \in structs2
  /\ \A s, t \in structs2 : StructAlias(s.decl) = StructAlias(t.decl) => s = t

(***************************************************************************)
(* The map of the structs, once made, holds structs of the design, and no  *)
(* other struct of the design has the name of one of them: Merge compares  *)
(* with the map alone.  Until then the structs are those of one file.      *)
(***************************************************************************)
NamesApart(S, T) == \A s \in S, t \in T : s.decl.name = t.decl.name => s = t

InMap(n) == \E s \in cache : s.decl.name = n

NamesInv ==
  /\ NamesApart(structs2, structs2)
  /\ ~built => NamesApart(structs, structs)
  /\ built => cache \subseteq structs /\ NamesApart(cache, structs)
  /\ phase \in {"open", "structs", "channels", "events"} /\ file = 1 => ~built
  /\ phase \in {"enabled", "types", "reserved", "accepted"} => built
  /\ phase \in {"types", "reserved", "accepted"} =>
       \A ch \in channels : \A s \in ch.enabled : InMap(s.decl.name)
  /\ phase \in {"reserved", "accepted"} =>
       /\ \A s \in structs : \A l \in Leaves(s.decl) : l.ref => InMap(l.name)
       /\ ~Cyclic(cache)

-----------------------------------------------------------------------------
\* Every step keeps the types.
LEMMA DesignTypeStep == DesignTypeOK /\ [DesignNext]_designState => DesignTypeOK'
<1> SUFFICES ASSUME DesignTypeOK, [DesignNext]_designState PROVE DesignTypeOK'
  OBVIOUS
<1> USE DesignAssumption, DesignTypesAssumption
<1>1. CASE ParseYaml
  <2> USE DEF DesignTypeOK, Phase, Struct, Channel, At, Goto, Fail, Crash, fileVars, designVars,
       NoChannel, Direction
  <2>1. ASSUME NEW n \in Namespace, OpenFile(n) PROVE DesignTypeOK'
    BY <2>1 DEF OpenFile
  <2>2. CASE ReadFails \/ NoStructs
    BY <2>2 DEF ReadFails, NoStructs
  <2>3. ASSUME NEW st \in StructText, ParseStruct(st) PROVE DesignTypeOK'
    <3>1. [file |-> file, decl |-> st] \in [file : 1..MaxFiles, decl : StructText]
      BY DEF DesignTypeOK
    <3>2. structs2' \subseteq Struct
      BY <2>3, <3>1 DEF ParseStruct
    <3>3. UNCHANGED <<phase, err, file, ns2, channels2, chan, list, designVars>>
      BY <2>3 DEF ParseStruct
    <3> QED
      BY <3>2, <3>3
  <2>4. ASSUME NEW st \in StructText, ParseStructFails(st) PROVE DesignTypeOK'
    BY <2>4 DEF ParseStructFails
  <2>5. CASE EndStructs
    BY <2>5 DEF EndStructs
  <2>6. ASSUME NEW n \in Name, NEW tags \in TagText, OpenChannel(n, tags) PROVE DesignTypeOK'
    <3>1. chan' = [name |-> n, alias |-> Alias(tags), enabled |-> {},
                   directions |-> [d \in Direction |-> {}]]
      BY <2>6 DEF OpenChannel
    <3>2. Alias(tags) \in Name \cup {NoAlias} /\ [d \in Direction |-> {}] \in [Direction -> SUBSET Name]
      OBVIOUS
    <3>3. chan' \in Channel
      BY <3>1, <3>2
    <3> QED
      BY <2>6, <3>3 DEF OpenChannel
  <2>7. ASSUME NEW n \in Name, DuplicateChannel(n) \/ EnableEventFails(n) PROVE DesignTypeOK'
    BY <2>7 DEF DuplicateChannel, EnableEventFails
  <2>8. ASSUME NEW l \in {"server", "client"}, NextList(l) PROVE DesignTypeOK'
    BY <2>8 DEF NextList
  <2>9. ASSUME NEW s \in structs2, NEW tags \in TagText, EnableEvent(s, tags) PROVE DesignTypeOK'
    <3>1. chan \in Channel /\ s \in Struct /\ s.decl.name \in Name
      BY <2>9 DEF EnableEvent
    <3> DEFINE more == [d \in Direction |->
          chan.directions[d] \cup IF d = EventDirection(tags) THEN {s.decl.name} ELSE {}]
    <3>2. chan' = [chan EXCEPT !.enabled = chan.enabled \cup {s}, !.directions = more]
      BY <2>9 DEF EnableEvent
    <3>3. \A d \in Direction : more[d] \in SUBSET Name
      BY <3>1
    <3>4. more \in [Direction -> SUBSET Name]
      BY <3>3
    <3> HIDE DEF more
    <3>5. chan' \in Channel
      BY <3>1, <3>2, <3>4
    <3>6. UNCHANGED <<phase, err, file, ns2, structs2, channels2, list, designVars>> /\ At("events")
      BY <2>9 DEF EnableEvent
    <3> QED
      BY <3>5, <3>6
  <2>10. CASE CloseChannel
    BY <2>10 DEF CloseChannel
  <2> HIDE DEF DesignTypeOK
  <2> QED
    BY <1>1, <2>1, <2>2, <2>3, <2>4, <2>5, <2>6, <2>7, <2>8, <2>9, <2>10 DEF ParseYaml
<1>2. CASE FirstFile \/ LaterFile \/ Merge \/ MergeFails \/ NextFile \/ EndFiles
  <2> USE DEF DesignTypeOK, Phase, At, Goto, Fail, fileVars, designVars
  <2>1. CASE FirstFile
    BY <2>1 DEF FirstFile
  <2>2. CASE LaterFile
    BY <2>2 DEF LaterFile
  <2>3. CASE Merge
    <3>1. StructsMap \subseteq Struct
      BY DEF StructsMap
    <3> QED
      BY <2>3, <3>1 DEF Merge, MakeMap
  <2>4. CASE MergeFails
    BY <2>4 DEF MergeFails
  <2>5. CASE NextFile
    BY <2>5 DEF NextFile
  <2>6. CASE EndFiles
    BY <2>6 DEF EndFiles
  <2> HIDE DEF DesignTypeOK
  <2> QED
    BY <1>2, <2>1, <2>2, <2>3, <2>4, <2>5, <2>6
<1>3. CASE Validate
  BY <1>3 DEF Validate, ValidateDirections, ValidateEnabled, ValidateTypes, ValidateReserved, Check,
     MakeMap, StructsMap, DesignTypeOK, Phase, At, Goto, Fail, Crash, fileVars, designVars
<1>4. CASE UNCHANGED designState
  BY <1>4 DEF designState, fileVars, designVars, DesignTypeOK, At
<1> QED
  BY <1>1, <1>2, <1>3, <1>4 DEF DesignNext, ParseYamls

LEMMA NoChannelOK == ChannelOK(NoChannel)
BY DEF ChannelOK, NoChannel, Direction

\* An event that is enabled gets the direction of its list or of its tags, and
\* has had none before.
LEMMA EnableEventOK ==
  ASSUME DesignTypeOK, ChannelsInv, NEW s \in structs2, NEW tags \in TagText, EnableEvent(s, tags)
  PROVE  ChannelOK(chan') /\ \A t \in chan'.enabled : t \in structs2
<1>1. chan \in Channel /\ ChannelOK(chan) /\ \A t \in chan.enabled : t \in structs2
  BY DEF EnableEvent, ChannelsInv, DesignTypeOK, At
<1> DEFINE more == [d \in Direction |->
      chan.directions[d] \cup IF d = EventDirection(tags) THEN {s.decl.name} ELSE {}]
<1>2. chan' = [chan EXCEPT !.enabled = chan.enabled \cup {s}, !.directions = more]
  BY DEF EnableEvent
<1>3. \A d \in Direction : \A n : n \in more[d] =>
        n \in chan.directions[d] \/ (n = s.decl.name /\ d = EventDirection(tags))
  OBVIOUS
<1> HIDE DEF more
<1>4. chan'.enabled = chan.enabled \cup {s} /\ chan'.directions = more
  BY <1>1, <1>2 DEF Channel
<1>5. \A t \in chan.enabled : t.decl.name # s.decl.name
  BY DEF EnableEvent, EnabledNames
<1>6. \A d \in Direction : s.decl.name \notin chan.directions[d]
  BY <1>1, <1>5 DEF ChannelOK
<1>7. \A d \in Direction : \A n \in more[d] : \E t \in chan'.enabled : t.decl.name = n
  BY <1>1, <1>3, <1>4 DEF ChannelOK
<1>8. \A n \in more[ServerToClient] : n \notin more[ClientToServer]
  <2>1. ServerToClient \in Direction /\ ClientToServer \in Direction
        /\ ServerToClient # ClientToServer
    BY DEF Direction, ServerToClient, ClientToServer
  <2> QED
    BY <1>1, <1>3, <1>6, <2>1 DEF ChannelOK
<1>9. \A t, u \in chan'.enabled : StructAlias(t.decl) = StructAlias(u.decl) => t = u
  BY <1>1, <1>4 DEF ChannelsInv
<1> QED
  BY <1>1, <1>4, <1>7, <1>8, <1>9 DEF ChannelOK

LEMMA ChannelsStep == DesignTypeOK /\ ChannelsInv /\ [DesignNext]_designState => ChannelsInv'
<1> SUFFICES ASSUME DesignTypeOK, ChannelsInv, [DesignNext]_designState PROVE ChannelsInv'
  OBVIOUS
<1>1. CASE ParseYaml
  <2> USE DEF ChannelsInv, At, Goto, Fail, Crash, fileVars, designVars
  <2>1. ASSUME NEW n \in Namespace, OpenFile(n) PROVE ChannelsInv'
    BY <2>1 DEF OpenFile
  <2>2. CASE ReadFails \/ NoStructs
    BY <2>2 DEF ReadFails, NoStructs
  <2>3. ASSUME NEW st \in StructText, ParseStruct(st) PROVE ChannelsInv'
    BY <2>3 DEF ParseStruct, Usable
  <2>4. ASSUME NEW st \in StructText, ParseStructFails(st) PROVE ChannelsInv'
    BY <2>4 DEF ParseStructFails
  <2>5. CASE EndStructs
    BY <2>5 DEF EndStructs
  <2>6. ASSUME NEW n \in Name, NEW tags \in TagText, OpenChannel(n, tags) PROVE ChannelsInv'
    <3>1. chan' = [name |-> n, alias |-> Alias(tags), enabled |-> {},
                   directions |-> [d \in Direction |-> {}]]
      BY <2>6 DEF OpenChannel, NoChannel
    <3>2. ChannelOK(chan') /\ chan'.enabled = {}
      BY <3>1 DEF ChannelOK, Direction
    <3> QED
      BY <2>6, <3>2 DEF OpenChannel
  <2>7. ASSUME NEW n \in Name, DuplicateChannel(n) \/ EnableEventFails(n) PROVE ChannelsInv'
    BY <2>7 DEF DuplicateChannel, EnableEventFails
  <2>8. ASSUME NEW l \in {"server", "client"}, NextList(l) PROVE ChannelsInv'
    BY <2>8 DEF NextList
  <2>9. ASSUME NEW s \in structs2, NEW tags \in TagText, EnableEvent(s, tags) PROVE ChannelsInv'
    BY <2>9, EnableEventOK DEF EnableEvent
  <2>10. CASE CloseChannel
    BY <2>10, NoChannelOK DEF CloseChannel
  <2> HIDE DEF ChannelsInv
  <2> QED
    BY <1>1, <2>1, <2>2, <2>3, <2>4, <2>5, <2>6, <2>7, <2>8, <2>9, <2>10 DEF ParseYaml
<1>2. CASE FirstFile \/ LaterFile \/ Merge \/ MergeFails \/ NextFile \/ EndFiles
  BY <1>2 DEF FirstFile, LaterFile, Merge, MergeFails, NextFile, EndFiles,
     ChannelsInv, At, Goto, Fail, fileVars, designVars
<1>3. CASE Validate
  BY <1>3 DEF Validate, ValidateDirections, ValidateEnabled, ValidateTypes, ValidateReserved, Check,
     ChannelsInv, At, Goto, Fail, Crash, fileVars, designVars
<1>4. CASE UNCHANGED designState
  BY <1>4 DEF designState, fileVars, designVars, ChannelsInv, At
<1> QED
  BY <1>1, <1>2, <1>3, <1>4 DEF DesignNext, ParseYamls

\* The directions of an event never exclude each other.
LEMMA ChannelHasWays ==
  ASSUME NEW ch, ChannelOK(ch), NEW s \in ch.enabled
  PROVE  \E d \in Direction : s \in DirectionEvents(ch, d)
<1>1. CASE s.decl.name \in ch.directions[ServerToClient]
  <2>1. s \in DirectionEvents(ch, ServerToClient)
    BY <1>1 DEF ChannelOK, DirectionEvents, Opposite, Direction, ServerToClient, ClientToServer
  <2> QED
    BY <2>1 DEF Direction
<1>2. CASE s.decl.name \notin ch.directions[ServerToClient]
  <2>1. s \in DirectionEvents(ch, ClientToServer)
    BY <1>2 DEF DirectionEvents, Opposite, Direction, ServerToClient, ClientToServer
  <2> QED
    BY <2>1 DEF Direction
<1> QED
  BY <1>1, <1>2

LEMMA ChannelsEstablish ==
  ChannelsInv => EventsHaveAWay /\ AliasesDistinct
<1>1. ChannelsInv => EventsHaveAWay
  BY ChannelHasWays DEF ChannelsInv, EventsHaveAWay
<1>2. ChannelsInv => AliasesDistinct
  BY DEF ChannelsInv, ChannelOK, AliasesDistinct
<1> QED
  BY <1>1, <1>2

-----------------------------------------------------------------------------
LEMMA MapInv ==
  ASSUME NamesInv PROVE StructsMap \subseteq structs /\ NamesApart(StructsMap, structs)
BY DEF NamesInv, StructsMap

LEMMA NamesStep == DesignTypeOK /\ NamesInv /\ [DesignNext]_designState => NamesInv'
<1> SUFFICES ASSUME DesignTypeOK, NamesInv, [DesignNext]_designState PROVE NamesInv'
  OBVIOUS
<1> USE DesignAssumption
<1>1. CASE ParseYaml
  <2> USE DEF NamesInv, NamesApart, InMap, At, Goto, Fail, Crash, fileVars, designVars
  <2>1. ASSUME NEW n \in Namespace, OpenFile(n) PROVE NamesInv'
    BY <2>1 DEF OpenFile
  <2>2. CASE ReadFails \/ NoStructs
    BY <2>2 DEF ReadFails, NoStructs
  <2>3. ASSUME NEW st \in StructText, ParseStruct(st) PROVE NamesInv'
    BY <2>3 DEF ParseStruct, Usable
  <2>4. ASSUME NEW st \in StructText, ParseStructFails(st) PROVE NamesInv'
    BY <2>4 DEF ParseStructFails
  <2>5. CASE EndStructs
    BY <2>5 DEF EndStructs
  <2>6. ASSUME NEW n \in Name, NEW tags \in TagText, OpenChannel(n, tags) PROVE NamesInv'
    BY <2>6 DEF OpenChannel
  <2>7. ASSUME NEW n \in Name, DuplicateChannel(n) \/ EnableEventFails(n) PROVE NamesInv'
    BY <2>7 DEF DuplicateChannel, EnableEventFails
  <2>8. ASSUME NEW l \in {"server", "client"}, NextList(l) PROVE NamesInv'
    BY <2>8 DEF NextList
  <2>9. ASSUME NEW s \in structs2, NEW tags \in TagText, EnableEvent(s, tags) PROVE NamesInv'
    BY <2>9 DEF EnableEvent
  <2>10. CASE CloseChannel
    BY <2>10 DEF CloseChannel
  <2> HIDE DEF NamesInv
  <2> QED
    BY <1>1, <2>1, <2>2, <2>3, <2>4, <2>5, <2>6, <2>7, <2>8, <2>9, <2>10 DEF ParseYaml
<1>2. CASE FirstFile \/ LaterFile \/ Merge \/ MergeFails \/ NextFile \/ EndFiles
  <2> USE DEF NamesInv, NamesApart, InMap, At, Goto, Fail, fileVars, designVars
  <2>1. CASE FirstFile
    BY <2>1 DEF FirstFile
  <2>2. CASE LaterFile \/ MergeFails \/ EndFiles
    BY <2>2 DEF LaterFile, MergeFails, EndFiles
  <2>3. CASE Merge
    BY <2>3 DEF Merge, Mergeable, MakeMap, StructsMap
  <2>4. CASE NextFile
    BY <2>4 DEF NextFile, DesignTypeOK
  <2> HIDE DEF NamesInv
  <2> QED
    BY <1>2, <2>1, <2>2, <2>3, <2>4
<1>3. ASSUME phase' \in {"failed", "crashed"}, UNCHANGED <<structs2, structs, cache, built>>
      PROVE  NamesInv'
  BY <1>3 DEF NamesInv, NamesApart
<1>4. CASE ValidateDirections
  <2>1. CASE phase' = "failed"
    BY <1>3, <1>4, <2>1 DEF ValidateDirections, Check, Fail, Goto, fileVars, designVars
  <2>2. CASE phase' # "failed"
    BY <1>4, <2>2, MapInv DEF ValidateDirections, Check, Fail, Goto, At, MakeMap, fileVars, NamesInv
  <2> QED
    BY <2>1, <2>2
<1>5. CASE ValidateEnabled
  <2>1. CASE phase' = "failed"
    BY <1>3, <1>5, <2>1 DEF ValidateEnabled, Check, Fail, Goto, fileVars, designVars
  <2>2. CASE phase' # "failed"
    <3>1. /\ \A ch \in channels : \A s \in ch.enabled : \E t \in StructsMap : t.decl.name = s.decl.name
          /\ phase' = "types" /\ built' /\ cache' = StructsMap
          /\ UNCHANGED <<structs2, channels, structs, file>>
      BY <1>5, <2>2 DEF ValidateEnabled, Check, Fail, Goto, At, MakeMap, fileVars, EnabledNames,
         KnownNames
    <3> QED
      BY <3>1, MapInv DEF NamesInv, InMap, NamesApart
  <2> QED
    BY <2>1, <2>2
<1>6. CASE ValidateTypes
  <2>1. CASE phase' \in {"failed", "crashed"}
    BY <1>3, <1>6, <2>1 DEF ValidateTypes, Check, Fail, Crash, Goto, fileVars, designVars
  <2>2. CASE phase' \notin {"failed", "crashed"}
    <3>1. /\ ~Cyclic(StructsMap) /\ TypesKnown
          /\ phase = "types" /\ phase' = "reserved" /\ built' /\ cache' = StructsMap
          /\ UNCHANGED <<structs2, channels, structs, file>>
      BY <1>6, <2>2 DEF ValidateTypes, Check, Fail, Crash, Goto, At, MakeMap, fileVars
    <3>2. StructsMap = cache
      BY <3>1 DEF NamesInv, StructsMap
    <3>3. \A s \in structs : \A l \in Leaves(s.decl) : l.ref => InMap(l.name)
      BY <3>1, <3>2 DEF TypesKnown, KnownNames, InMap
    <3> QED
      BY <3>1, <3>2, <3>3, MapInv DEF NamesInv, InMap, NamesApart
  <2> QED
    BY <2>1, <2>2
<1>7. CASE ValidateReserved
  <2>1. CASE phase' = "failed"
    BY <1>3, <1>7, <2>1 DEF ValidateReserved, Check, Fail, Goto, fileVars, designVars
  <2>2. CASE phase' # "failed"
    <3>1. /\ phase = "reserved" /\ phase' = "accepted" /\ built' /\ cache' = StructsMap
          /\ UNCHANGED <<structs2, channels, structs, file>>
      BY <1>7, <2>2 DEF ValidateReserved, Check, Fail, Goto, At, MakeMap, fileVars
    <3>2. StructsMap = cache
      BY <3>1 DEF NamesInv, StructsMap
    <3> QED
      BY <3>1, <3>2, MapInv DEF NamesInv, InMap, NamesApart
  <2> QED
    BY <2>1, <2>2
<1>8. CASE UNCHANGED designState
  BY <1>8 DEF designState, fileVars, designVars, NamesInv, NamesApart, InMap
<1> QED
  BY <1>1, <1>2, <1>4, <1>5, <1>6, <1>7, <1>8 DEF DesignNext, ParseYamls, Validate

\* A cycle among the structs of the design is one among those in the map.
LEMMA CycleInMap ==
  ASSUME NamesInv, phase = "accepted", Cyclic(structs)
  PROVE  Cyclic(cache)
<1>1. PICK T \in SUBSET structs :
        T # {} /\ \A s \in T : \E t \in T : t.decl.name \in References(s.decl)
  BY DEF Cyclic
<1>2. \A s \in T : \A n \in References(s.decl) : InMap(n)
  BY <1>1 DEF NamesInv, References
<1> DEFINE U == {t \in T : t \in cache}
<1>3. \A s \in T : \E t \in U : t.decl.name \in References(s.decl)
  <2> SUFFICES ASSUME NEW s \in T PROVE \E t \in U : t.decl.name \in References(s.decl)
    OBVIOUS
  <2>1. PICK t \in T : t.decl.name \in References(s.decl)
    BY <1>1
  <2>2. PICK u \in cache : u.decl.name = t.decl.name
    BY <1>2, <2>1 DEF InMap
  <2>3. u = t
    BY <1>1, <2>1, <2>2 DEF NamesInv, NamesApart
  <2> QED
    BY <2>1, <2>2, <2>3
<1>4. U # {}
  BY <1>1, <1>3
<1>5. U \in SUBSET cache
  OBVIOUS
<1> QED
  BY <1>3, <1>4, <1>5 DEF Cyclic

LEMMA NamesEstablish == NamesInv => AcceptedNamesResolve /\ AcceptedAcyclic
<1> SUFFICES ASSUME NamesInv, At("accepted")
             PROVE  /\ \A n \in UsedNames :
                         /\ \E s \in structs : s.decl.name = n
                         /\ \A s, t \in structs : s.decl.name = n /\ t.decl.name = n => s = t
                    /\ ~Cyclic(structs)
  BY DEF AcceptedNamesResolve, AcceptedAcyclic
<1>1. \A n \in UsedNames : InMap(n)
  <2>1. ASSUME NEW ch \in channels, NEW s \in ch.enabled PROVE InMap(s.decl.name)
    BY DEF NamesInv, At
  <2>2. ASSUME NEW s \in structs, NEW n \in References(s.decl) PROVE InMap(n)
    <3>1. PICK l \in Leaves(s.decl) : l.ref /\ n = l.name
      BY DEF References
    <3> QED
      BY <3>1 DEF NamesInv, At
  <2>3. \A n : n \in UsedNames =>
          \/ \E ch \in channels : \E s \in ch.enabled : n = s.decl.name
          \/ \E s \in structs : n \in References(s.decl)
    <3>1. \A n : n \in UsedNames =>
            \/ n \in UNION {EnabledNames(ch) : ch \in channels}
            \/ n \in UNION {References(s.decl) : s \in structs}
      BY Zenon DEF UsedNames
    <3>2. \A n : n \in UNION {EnabledNames(ch) : ch \in channels} =>
            \E ch \in channels : n \in EnabledNames(ch)
      BY Zenon
    <3>3. \A n : n \in UNION {References(s.decl) : s \in structs} =>
            \E s \in structs : n \in References(s.decl)
      BY Zenon
    <3>4. \A ch \in channels : \A n \in EnabledNames(ch) : \E s \in ch.enabled : n = s.decl.name
      BY DEF EnabledNames
    <3> QED
      BY <3>1, <3>2, <3>3, <3>4
  <2> QED
    BY <2>1, <2>2, <2>3
<1>2. cache \subseteq structs /\ NamesApart(cache, structs)
  BY DEF NamesInv, At
<1>3. \A n \in UsedNames : \A s, t \in structs : s.decl.name = n /\ t.decl.name = n => s = t
  BY <1>1, <1>2 DEF InMap, NamesApart
<1>4. ~Cyclic(structs)
  BY CycleInMap DEF NamesInv, At
<1> QED
  BY <1>1, <1>2, <1>3, <1>4 DEF InMap

=============================================================================
