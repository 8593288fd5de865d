------------------------------- MODULE Routing -------------------------------
(***************************************************************************)
(* An event on its way: from the browser's generated channel to the        *)
(* handler of the server's, and back (ProcessEvent, ClientSocket.Send, and *)
(* the Route, send and on...Fn that internal/eddgen generates).            *)
(*                                                                         *)
(* The structs are those of an accepted design, their references followed: *)
(* the fields of a struct, in order, are all that can be in it, each with  *)
(* its path.  A body is a set of entries; the value of one is the path of  *)
(* the field that the sender has set, which shows where it ends up.        *)
(***************************************************************************)
EXTENDS EddClient, SequencesExt

CONSTANTS
  RoomChannel,      \* the channels that embed a RoomManager
  MaxFrames         \* bound: calls of send by the page or the application

(***************************************************************************)
(* What ParseStruct leaves of a struct, its references followed: the path  *)
(* of a field is its own, and what it is in has a path too.                *)
(***************************************************************************)
FieldsOK(fs) ==
  /\ Len(fs) \in Nat
  /\ DOMAIN fs = 1..Len(fs)
  /\ UniqueKeys(fs)
  /\ \A i \in DOMAIN fs :
       /\ fs[i].path \in Seq(Name) \ {<<>>}
       /\ Alias(fs[i].tags) \in Name \cup {NoAlias}
       /\ \A k \in 1..Len(fs[i].path) : \E j \in DOMAIN fs : fs[j].path = SubSeq(fs[i].path, 1, k)

\* The aliases of a channel's events differ: AliasesDistinct of Design.
ASSUME RoutingAssumption ==
  /\ \A ch \in Channel : \A s, t \in ch.enabled : StructAlias(s.decl) = StructAlias(t.decl) => s = t
  /\ \A ch \in Channel : \A s \in ch.enabled : FieldsOK(s.decl.fields)
  /\ RoomChannel \subseteq Channel
  /\ MaxFrames \in Nat

VARIABLES
  binary,           \* the codec is msgpack: events are binary frames
  served,           \* RegisteredChannels
  c2s, s2c,         \* the frames on their way on each socket
  awaited,          \* binary frames whose arrayBuffer() is awaited
  sent,             \* the number of these calls
  kept,             \* the object that the page has passed to send last
  last              \* what the last step has done with an event

wireVars == <<binary, served, c2s, s2c, awaited, sent, kept, last>>
vars == <<clientVars, wireVars>>

ClientRoomEvent == {"edd:room:create_request", "edd:room:join_request", "edd:room:left_request"}

ServerRoomEvent == {"edd:room:create", "edd:room:join", "edd:room:left"}

EddEvent == ServerRoomEvent \cup
  {"edd:user:join", "edd:user:left", "edd:auth:challenge", "edd:auth:pass"}

-----------------------------------------------------------------------------
(***************************************************************************)
(* Fields.                                                                 *)
(***************************************************************************)
FieldAliasMutant(f) == Alias(f.tags)
FieldAlias(f) == IF Alias(f.tags) = NoAlias THEN f.path[Len(f.path)] ELSE Alias(f.tags)

Above(fs, i) == {j \in DOMAIN fs : IsStrictPrefix(fs[j].path, fs[i].path)}

IsMap(f) == Len(f.type) > 1

StrictFields(st, direction) ==
  {i \in DOMAIN st.fields :
     /\ TagDirection(st.fields[i].tags) = direction
     /\ \A j \in Above(st.fields, i) :
          TagDirection(st.fields[j].tags) = AnyDirection /\ ~IsMap(st.fields[j])}

\* What a page may set, as it likes; nothing makes it set every field.
Settings(st) ==
  {I \in SUBSET DOMAIN st.fields : \A i \in I : Above(st.fields, i) \subseteq I}

(***************************************************************************)
(* The server's encoder writes every field of a struct, but for an empty   *)
(* one that has a direction (omitempty) and what a map has not got.        *)
(***************************************************************************)
Optional(fs, i) ==
  \/ TagDirection(fs[i].tags) # AnyDirection
  \/ \E j \in Above(fs, i) : IsMap(fs[j])

Contents(st) ==
  {I \in Settings(st) : \A i \in DOMAIN st.fields :
     Above(st.fields, i) \subseteq I /\ ~Optional(st.fields, i) => i \in I}

(***************************************************************************)
(* The tags of the Go struct name every step of a path by its alias; the   *)
(* browser's code renames the first one only, field after field, and       *)
(* throws when there is no property to be renamed.                         *)
(***************************************************************************)
GoKey(fs, i) ==
  [k \in DOMAIN fs[i].path |->
     FieldAlias(fs[CHOOSE j \in DOMAIN fs : fs[j].path = SubSeq(fs[i].path, 1, k)])]

Entry(key, field) == [key |-> key, field |-> field]

GoBodyMutant(st, I) ==
  {Entry(GoKey(st.fields, i), st.fields[i].path) :
     i \in {j \in I : TagDirection(st.fields[j].tags) # AnyDirection}}
GoBody(st, I) == {Entry(GoKey(st.fields, i), st.fields[i].path) : i \in I}

JsBody(st, I) == {Entry(st.fields[i].path, st.fields[i].path) : i \in I}

Decode(st, body) ==
  UNION {{Entry(st.fields[i].path, b.field) : b \in {c \in body : c.key = GoKey(st.fields, i)}} :
           i \in DOMAIN st.fields}

Rename(message, from, to) ==
  LET moved == {b \in message.body : b.key[1] = from} IN
  IF message.thrown \/ moved = {} THEN [message EXCEPT !.thrown = TRUE]
  ELSE [message EXCEPT !.body =
          {b \in @ : b.key[1] \notin {from, to}} \cup {[b EXCEPT !.key[1] = to] : b \in moved}]

IsRenamed(f) == Len(f.path) = 1 /\ FieldAlias(f) # f.path[1]

RenameField(message, f, toAliases) ==
  IF ~IsRenamed(f) THEN message
  ELSE IF toAliases THEN Rename(message, f.path[1], FieldAlias(f))
  ELSE Rename(message, FieldAlias(f), f.path[1])

Renaming(fs, body, toAliases) ==
  LET renaming[k \in 0..Len(fs)] ==
        IF k = 0 THEN [body |-> body, thrown |-> FALSE]
        ELSE RenameField(renaming[k - 1], fs[k], toAliases)
  IN renaming

ToAliases(st, body) == Renaming(st.fields, body, TRUE)[Len(st.fields)]

ToNamesMutant(st, body) == [body |-> body, thrown |-> FALSE]
ToNames(st, body) == Renaming(st.fields, body, FALSE)[Len(st.fields)]

-----------------------------------------------------------------------------
(***************************************************************************)
(* Frames; origin is the event they stand for.                             *)
(***************************************************************************)
Event(ch, s, I) == [channel |-> ch, struct |-> s.decl, content |-> I, no |-> sent + 1]

FrameMutant(ch, s, I, body) ==
  [channel |-> ChannelAlias(ch), name |-> s.decl.name, body |-> body,
   origin |-> Event(ch, s, I)]
Frame(ch, s, I, body) ==
  [channel |-> ChannelAlias(ch), name |-> StructAlias(s.decl), body |-> body,
   origin |-> Event(ch, s, I)]

ErrorFrame(frame) == [frame EXCEPT !.channel = "errors", !.name = "error", !.body = {}]

Nothing == [what |-> "nothing"]

Handled(side, socketNo, frame, ch, s, body) ==
  [what |-> side, socket |-> socketNo, origin |-> frame.origin,
   channel |-> ch, struct |-> s.decl, body |-> body]

Thrown(s, origin) == [what |-> "thrown", struct |-> s.decl, origin |-> origin]

(***************************************************************************)
(* send<event> of the browser's channel, then EddClient.send: nothing is   *)
(* written to a socket that is not open.  The page passes a new object, or *)
(* again the one it has passed last: send renames the fields of the page's *)
(* own object, before it knows whether the message can go, and leaves the  *)
(* object as it is by then, also when it throws.                           *)
(***************************************************************************)
Object(st, I) == [struct |-> st, content |-> I, body |-> JsBody(st, I)]

Objects(st) == {Object(st, I) : I \in Settings(st)} \cup {m \in kept : m.struct = st}

Send(ch, s, m) ==
  LET renamed == ToAliases(s.decl, m.body) IN
  /\ s \in DirectionEvents(ch, ClientToServer)
  /\ sent < MaxFrames
  /\ IF ~renamed.thrown /\ ch \in bound /\ isConnected /\ socket[conn] = "open"
     THEN c2s' = [c2s EXCEPT ![conn] = Append(@, Frame(ch, s, m.content, renamed.body))]
     ELSE UNCHANGED c2s
  /\ sent' = sent + 1
  /\ kept' = {[m EXCEPT !.body = renamed.body]}
  /\ last' = Nothing
  /\ UNCHANGED <<clientVars, binary, served, s2c, awaited>>

-----------------------------------------------------------------------------
(***************************************************************************)
(* The server: Register refuses an alias that is taken.  All channels are  *)
(* registered before StartWS.                                              *)
(***************************************************************************)
Register(ch) ==
  /\ conn = 0
  /\ \A c \in served : ChannelAlias(c) # ChannelAlias(ch)
  /\ served' = served \cup {ch}
  /\ last' = Nothing
  /\ UNCHANGED <<clientVars, binary, c2s, s2c, awaited, sent, kept>>

\* SendJSON, in a text frame whatever the codec is.
Answer(s, frame) ==
  IF socket[s] = "open" THEN s2c' = [s2c EXCEPT ![s] = Append(@, ErrorFrame(frame))]
  ELSE UNCHANGED s2c

\* ProcessEvent, then Route: whether the frame is an event st of the channel.
Routed(ch, st, frame) ==
  /\ ChannelAlias(ch) = frame.channel
  /\ frame.name \notin ClientRoomEvent
  /\ st \in DirectionEvents(ch, ClientToServer)
  /\ StructAlias(st.decl) = frame.name

ReceivedFieldsOK(st, body) ==
  \A i \in StrictFields(st, ServerToClient) :
    \A b \in Decode(st, body) : b.key # st.fields[i].path

\* The handler is the application's, and may return an error.
Handle(s) ==
  /\ c2s[s] # <<>>
  /\ \E ch \in served : \E st \in ch.enabled : LET frame == Head(c2s[s]) IN
       /\ Routed(ch, st, frame)
       /\ ReceivedFieldsOK(st.decl, frame.body)
       /\ last' = Handled("server", s, frame, ch, st, Decode(st.decl, frame.body))
       /\ UNCHANGED s2c \/ Answer(s, frame)
  /\ c2s' = [c2s EXCEPT ![s] = Tail(@)]
  /\ UNCHANGED <<clientVars, binary, served, awaited, sent, kept>>

\* An alias of an event may be the name of a request for a room.
ForRooms(frame) ==
  /\ frame.name \in ClientRoomEvent
  /\ \E ch \in served \cap RoomChannel : ChannelAlias(ch) = frame.channel

HandleRoomEvent(s) ==
  /\ c2s[s] # <<>>
  /\ ForRooms(Head(c2s[s]))
  /\ UNCHANGED s2c \/ Answer(s, Head(c2s[s]))
  /\ c2s' = [c2s EXCEPT ![s] = Tail(@)]
  /\ last' = Nothing
  /\ UNCHANGED <<clientVars, binary, served, awaited, sent, kept>>

Refuse(s) ==
  /\ c2s[s] # <<>>
  /\ ~ForRooms(Head(c2s[s]))
  /\ \A ch \in served : \A st \in ch.enabled :
       Routed(ch, st, Head(c2s[s])) => ~ReceivedFieldsOK(st.decl, Head(c2s[s]).body)
  /\ Answer(s, Head(c2s[s]))
  /\ c2s' = [c2s EXCEPT ![s] = Tail(@)]
  /\ last' = Nothing
  /\ UNCHANGED <<clientVars, binary, served, awaited, sent, kept>>

(***************************************************************************)
(* Send<event> of the server's channel, by a handler or by any goroutine   *)
(* of the application: a field of the other direction is refused.          *)
(***************************************************************************)
ServerSend(s, ch, st, I) ==
  /\ socket[s] = "open"
  /\ ch \in served
  /\ st \in DirectionEvents(ch, ServerToClient)
  /\ I \cap StrictFields(st.decl, ClientToServer) = {}
  /\ sent < MaxFrames
  /\ s2c' = [s2c EXCEPT ![s] = Append(@, Frame(ch, st, I, GoBody(st.decl, I)))]
  /\ sent' = sent + 1
  /\ last' = Nothing
  /\ UNCHANGED <<clientVars, binary, served, c2s, awaited, kept>>

-----------------------------------------------------------------------------
(***************************************************************************)
(* onmessage.  A frame that is binary is awaited, and goes on whatever has *)
(* become of its socket and in whatever order.  The page need not have set *)
(* a handler for the event.                                                *)
(***************************************************************************)
IsError(frame) == frame.channel = "errors"

Target(ch, st, frame) ==
  /\ ~IsError(frame)
  /\ ChannelAlias(ch) = frame.channel
  /\ frame.name \notin EddEvent
  /\ st \in DirectionEvents(ch, ServerToClient)
  /\ StructAlias(st.decl) = frame.name

Dispatch(s, frame) ==
  \/ last' = Nothing
  \/ \E ch \in registered : \E st \in ch.enabled : LET message == ToNames(st.decl, frame.body) IN
       /\ Target(ch, st, frame)
       /\ last' = IF message.thrown THEN Thrown(st, frame.origin)
                  ELSE Handled("browser", s, frame, ch, st, message.body)

OnMessageMutant(s) ==
  /\ socket[s] = "open"
  /\ s2c[s] # <<>>
  /\ LET frame == Head(s2c[s]) IN
       IF ~IsError(frame)
       THEN /\ awaited' = awaited \cup {<<s, frame>>}
            /\ last' = Nothing
       ELSE /\ Dispatch(s, frame)
            /\ UNCHANGED awaited
  /\ s2c' = [s2c EXCEPT ![s] = Tail(@)]
  /\ UNCHANGED <<clientVars, binary, served, c2s, sent, kept>>
OnMessage(s) ==
  /\ socket[s] = "open"
  /\ s2c[s] # <<>>
  /\ LET frame == Head(s2c[s]) IN
       IF binary /\ ~IsError(frame)
       THEN /\ awaited' = awaited \cup {<<s, frame>>}
            /\ last' = Nothing
       ELSE /\ Dispatch(s, frame)
            /\ UNCHANGED awaited
  /\ s2c' = [s2c EXCEPT ![s] = Tail(@)]
  /\ UNCHANGED <<clientVars, binary, served, c2s, sent, kept>>

OnArrayBuffer(s, frame) ==
  /\ <<s, frame>> \in awaited
  /\ awaited' = awaited \ {<<s, frame>>}
  /\ Dispatch(s, frame)
  /\ UNCHANGED <<clientVars, binary, served, c2s, s2c, sent, kept>>

(***************************************************************************)
(* The client's own steps.  With the connection goes what was to be read   *)
(* from it, and some of what was written to it last.                       *)
(***************************************************************************)
Quietly == last' = Nothing /\ UNCHANGED <<binary, served, c2s, s2c, awaited, sent, kept>>

Close(s) ==
  /\ OnClose(s)
  /\ s2c' = [s2c EXCEPT ![s] = <<>>]
  /\ \E k \in 0..Len(c2s[s]) : c2s' = [c2s EXCEPT ![s] = SubSeq(@, 1, k)]
  /\ last' = Nothing
  /\ UNCHANGED <<binary, served, awaited, sent, kept>>

\* To register a channel again changes nothing.
ClientStep ==
  \/ Start /\ Quietly
  \/ Stop /\ Quietly
  \/ \E ch \in Channel \ registered : RegisterChannel(ch) /\ Quietly
  \/ \E s \in Socket : OnOpen(s) /\ Quietly
  \/ \E s \in Socket : Close(s)

Init ==
  /\ ClientInit
  /\ binary \in BOOLEAN
  /\ served = {}
  /\ c2s = [s \in Socket |-> <<>>]
  /\ s2c = [s \in Socket |-> <<>>]
  /\ awaited = {}
  /\ sent = 0
  /\ kept = {}
  /\ last = Nothing

Next ==
  \/ ClientStep
  \/ \E ch \in Channel : Register(ch)
  \/ \E ch \in Channel : \E s \in ch.enabled : \E m \in Objects(s.decl) : Send(ch, s, m)
  \/ \E s \in Socket : Handle(s) \/ HandleRoomEvent(s) \/ Refuse(s) \/ OnMessage(s)
  \/ \E s \in Socket, ch \in Channel : \E st \in ch.enabled :
       \E I \in Contents(st.decl) : ServerSend(s, ch, st, I)
  \/ \E f \in awaited : OnArrayBuffer(f[1], f[2])

Spec == Init /\ [][Next]_vars

-----------------------------------------------------------------------------
\* Types.
Entries == [key : Seq(Name), field : Seq(Name)]

IsFrame(frame) ==
  /\ frame.body \in SUBSET Entries
  /\ frame.origin.channel \in Channel
  /\ frame.origin.no \in 1..MaxFrames

TypeOK ==
  /\ ClientTypeOK
  /\ binary \in BOOLEAN
  /\ served \subseteq Channel
  /\ sent \in 0..MaxFrames
  /\ \A m \in kept : m.body \in SUBSET Entries
  /\ last.what \in {"nothing", "thrown", "server", "browser"}
  /\ \A s \in Socket : \A k \in DOMAIN c2s[s] : IsFrame(c2s[s][k])
  /\ \A s \in Socket : \A k \in DOMAIN s2c[s] : IsFrame(s2c[s][k])
  /\ \A f \in awaited : f[1] \in Socket /\ IsFrame(f[2])

(***************************************************************************)
(* What a handler is called with is the event that the other side has      *)
(* sent, on the same channel, though only aliases go with it: provided the *)
(* page and the server mean the same channel by an alias.                  *)
(***************************************************************************)
AliasesAgree ==
  \A c, d \in bound \cup registered \cup served : ChannelAlias(c) = ChannelAlias(d) => c = d

HandledAsSent ==
  last.what \in {"server", "browser"} /\ AliasesAgree =>
    /\ last.channel = last.origin.channel
    /\ last.struct = last.origin.struct

(***************************************************************************)
(* Every field arrives where it was set, and nothing else does: provided   *)
(* that only fields at the top have aliases, which name no other field.    *)
(***************************************************************************)
Plain(st) ==
  /\ \A i \in DOMAIN st.fields :
       Len(st.fields[i].path) > 1 => FieldAlias(st.fields[i]) = st.fields[i].path[Len(st.fields[i].path)]
  /\ \A i, j \in DOMAIN st.fields :
       /\ Len(st.fields[i].path) = 1
       /\ Len(st.fields[j].path) = 1
       /\ i # j
       => FieldAlias(st.fields[i]) \notin {FieldAlias(st.fields[j]), st.fields[j].path[1]}

FieldsArrive ==
  last.what \in {"server", "browser"} /\ last.struct = last.origin.struct /\ Plain(last.struct) =>
    last.body = JsBody(last.struct, last.origin.content)

(***************************************************************************)
(* An event that a page receives is lost to renaming only for a field that *)
(* has an alias and a direction, and that the server has left out.  (What  *)
(* a page sends may be lost for more: send does not look at the object.)   *)
(***************************************************************************)
OnlyOptionalLost ==
  last.what = "thrown" /\ last.struct = last.origin.struct /\ Plain(last.struct) =>
    \E i \in DOMAIN last.struct.fields \ last.origin.content : LET f == last.struct.fields[i] IN
      TagDirection(f.tags) # AnyDirection /\ FieldAlias(f) # f.path[Len(f.path)]

(***************************************************************************)
(* With the JSON codec the page handles what a socket brings in the order  *)
(* the server has sent it, and nothing once the socket is being closed.    *)
(***************************************************************************)
TextInTurn ==
  last.what = "browser" /\ ~binary =>
    /\ socket[last.socket] = "open"
    /\ \A k \in DOMAIN s2c[last.socket] :
         IsError(s2c[last.socket][k]) \/ s2c[last.socket][k].origin.no > last.origin.no

=============================================================================
