----------------------------- MODULE RoomManager -----------------------------
(***************************************************************************)
(* Rooms (room.go): the RoomManager of each channel, its rooms, and the    *)
(* handler goroutines that list, create, join and leave them while other   *)
(* goroutines do the same.                                                 *)
(*                                                                         *)
(* Each action is one critical section, or one write to one socket: what   *)
(* the code does with a snapshot after it has released the lock is a step  *)
(* of its own, so every interleaving of the goroutines is explored.        *)
(*                                                                         *)
(* The browser is represented by the fold of the frames written to its     *)
(* socket: roster[d] holds <<r, n>> when the last of the RoomJoin and      *)
(* RoomLeft events about user n in room r that reached d was the RoomJoin, *)
(* and known[d] the rooms d has had a RoomCreate event for.                *)
(***************************************************************************)
EXTENDS ServerSocket

CONSTANTS
  Channel,          \* the registered channels that embed a RoomManager
  Room,             \* the Room objects that can come to exist
  ChannelOf,        \* [Room -> Channel]: whose rm.rooms holds the room
  IdOf,             \* the id a room is created with, unique in its channel only
  NameOf,           \* the id RoomJoin and RoomLeft carry for a connection
  InitialRooms,     \* rooms the application creates before it accepts anyone
  InitialPublic,    \* those of them that it creates as public
  MultiRoomMode,    \* [Channel -> BOOLEAN]: rm.multiRoomMode
  RoomLimit,        \* [Channel -> Nat]: rm.multiRoomLimitPerUser, 0 for none
  NoRoom            \* nil

ASSUME RoomAssumption ==
  /\ Channel # {}
  /\ ChannelOf \in [Room -> Channel]
  /\ DOMAIN IdOf = Room
  /\ \A r, s \in Room : ChannelOf[r] = ChannelOf[s] /\ IdOf[r] = IdOf[s] => r = s
  /\ DOMAIN NameOf = Client
  /\ InitialRooms \subseteq Room
  /\ InitialPublic \subseteq InitialRooms
  /\ MultiRoomMode \in [Channel -> BOOLEAN]
  /\ RoomLimit \in [Channel -> Nat]
  /\ NoRoom \notin Room

VARIABLES
  rooms,            \* the rooms that exist: rm.rooms of every channel
  public,           \* those created with public = true
  members,          \* members[r] = r.clientsMap
  joined,           \* joined[c] = values of c.rooms, a sync.Map keyed by room id
  readers,          \* readers[ch]: goroutines that hold rm.RLock while sending
  writer,           \* writer[ch]: the goroutine, if any, whose rm.Lock has been announced
  (* locals of the handler goroutine of each connection *)
  joining,          \* the room it is about to join or is joining
  leaving,          \* the room it is about to leave or is leaving
  return,           \* what follows room.Left: "read", "join" or "quit"
  snapshot,         \* the slice r.clients() taken inside the critical section
  todo,             \* recipients (or subjects) of the loop under way
  rest,             \* rooms still to announce, or still to leave
  chans,            \* channels whose public rooms are still to be listed
  (* what the browsers have been told *)
  roster,
  known

lockVars == <<readers, writer>>
roomVars == <<rooms, public, members, joined, lockVars>>
localVars == <<joining, leaving, return, snapshot, todo, rest, chans>>
toldVars == <<roster, known>>
vars == <<socketVars, roomVars, localVars, toldVars>>

Location ==
  {"new", "list", "announce", "read", "lock", "createSnap", "createCast",
   "leftAsk", "left", "leftDel", "leftCast", "joinAsk", "join", "joinAdd", "joinCast",
   "joinList", "quit", "remove", "done"}

-----------------------------------------------------------------------------
(***************************************************************************)
(* client.Send: an event reaches the browser when the socket is up.        *)
(***************************************************************************)
SendJoin(d, r, n) ==
  roster' = IF open[d] THEN [roster EXCEPT ![d] = @ \cup {<<r, n>>}] ELSE roster

SendLeft(d, r, n) ==
  roster' = IF open[d] THEN [roster EXCEPT ![d] = @ \ {<<r, n>>}] ELSE roster

SendCreate(d, r) ==
  known' = IF open[d] THEN [known EXCEPT ![d] = @ \cup {r}] ELSE known

(***************************************************************************)
(* ClientContextMap.rooms is a map keyed by the room id alone: storing a   *)
(* room replaces, and deleting one removes, the room of the same id        *)
(* whatever channel it belongs to.                                         *)
(***************************************************************************)
SameId(S, r) == {s \in S : IdOf[s] = IdOf[r]}
StoreRoom(S, r) == (S \ SameId(S, r)) \cup {r}
DeleteRoomMutant(S, r) == S
DeleteRoom(S, r) == S \ SameId(S, r)
GetRoomsMutant(c) == {r \in joined[c] : \A s \in members[r] : s = c}
GetRooms(c) == joined[c]

-----------------------------------------------------------------------------
(***************************************************************************)
(* eddwise.go registers the connection, then lists the public rooms of     *)
(* every channel to it, then starts reading.                               *)
(***************************************************************************)
Connect(c) ==
  /\ At(c, "new")
  /\ AddClient(c)
  /\ open' = [open EXCEPT ![c] = TRUE]
  /\ chans' = [chans EXCEPT ![c] = Channel]
  /\ Goto(c, "list")
  /\ UNCHANGED <<roomVars, toldVars, joining, leaving, return, snapshot, todo, rest>>

(***************************************************************************)
(* rm's sync.RWMutex.  RLock waits while a Lock has been announced, and a  *)
(* Lock that has been announced waits for the readers there are.           *)
(***************************************************************************)
MayRLock(ch) == writer[ch] = {}

HasLock(c, ch) == c \in writer[ch] /\ readers[ch] = {}

(***************************************************************************)
(* SendPublicRooms: rm.RLock is held from the first event to the last.     *)
(***************************************************************************)
PublicRoomsMutant(ch) == {r \in public : ChannelOf[r] = ch /\ members[r] # {}}
PublicRooms(ch) == {r \in public : ChannelOf[r] = ch}

ListChannel(c, ch) ==
  /\ At(c, "list")
  /\ ch \in chans[c]
  /\ MayRLock(ch)
  /\ chans' = [chans EXCEPT ![c] = @ \ {ch}]
  /\ readers' = [readers EXCEPT ![ch] = @ \cup {c}]
  /\ rest' = [rest EXCEPT ![c] = PublicRooms(ch)]
  /\ Goto(c, "announce")
  /\ UNCHANGED <<clients, open, rooms, public, members, joined, writer, toldVars,
                 joining, leaving, return, snapshot, todo>>

AnnounceRoom(c, r) ==
  /\ At(c, "announce")
  /\ r \in rest[c]
  /\ open[c]
  /\ SendCreate(c, r)
  /\ rest' = [rest EXCEPT ![c] = @ \ {r}]
  /\ UNCHANGED <<socketVars, roomVars, roster, joining, leaving, return, snapshot,
                 todo, chans>>

\* A send that failed is tried again, with the lock held.
EndAnnounceMutant(c) ==
  /\ At(c, "announce")
  /\ rest[c] = {} \/ ~open[c]
  /\ \/ /\ rest[c] # {}
        /\ UNCHANGED vars
     \/ /\ rest[c] = {}
        /\ readers' = [ch \in Channel |-> readers[ch] \ {c}]
        /\ Goto(c, "list")
        /\ UNCHANGED <<clients, open, rooms, public, members, joined, writer,
                       toldVars, localVars>>

\* All announced, or a send failed and the error was returned.
EndAnnounce(c) ==
  /\ At(c, "announce")
  /\ rest[c] = {} \/ ~open[c]
  /\ readers' = [ch \in Channel |-> readers[ch] \ {c}]
  /\ rest' = [rest EXCEPT ![c] = {}]
  /\ Goto(c, "list")
  /\ UNCHANGED <<clients, open, rooms, public, members, joined, writer, toldVars,
                 joining, leaving, return, snapshot, todo, chans>>

StartReading(c) ==
  /\ At(c, "list")
  /\ chans[c] = {}
  /\ Goto(c, "read")
  /\ UNCHANGED <<clients, open, roomVars, localVars, toldVars>>

-----------------------------------------------------------------------------
(***************************************************************************)
(* A request is received, for a room that may exist or not, and from there *)
(* on the handler waits for rm's lock: to look the room up (rm.Room), or   *)
(* to store a new one (rm.Create).                                         *)
(***************************************************************************)
AskJoin(c, r) ==
  /\ At(c, "read")
  /\ joining' = [joining EXCEPT ![c] = r]
  /\ Goto(c, "joinAsk")
  /\ UNCHANGED <<clients, open, roomVars, toldVars, leaving, return, snapshot,
                 todo, rest, chans>>

AskLeft(c, r) ==
  /\ At(c, "read")
  /\ leaving' = [leaving EXCEPT ![c] = r]
  /\ Goto(c, "leftAsk")
  /\ UNCHANGED <<clients, open, roomVars, toldVars, joining, return, snapshot,
                 todo, rest, chans>>

AskCreate(c, r) ==
  /\ At(c, "read")
  /\ joining' = [joining EXCEPT ![c] = r]
  /\ Goto(c, "lock")
  /\ UNCHANGED <<clients, open, roomVars, toldVars, leaving, return, snapshot,
                 todo, rest, chans>>

(***************************************************************************)
(* OnRoomEvent, RoomJoinRequest.  Apart from rm.rooms, which never loses a *)
(* room, the conditions read what only this goroutine changes (whether c   *)
(* is in the room, which rooms it holds), so they are one step.  The rooms *)
(* counted, or left, are those of every channel; the mode is that of the   *)
(* room's.                                                                 *)
(***************************************************************************)
LimitReached(c, ch) ==
  MultiRoomMode[ch] /\ RoomLimit[ch] > 0 /\ Cardinality(GetRooms(c)) >= RoomLimit[ch]

MustLeaveMutant(c, ch) == ~MultiRoomMode[ch] /\ Cardinality(GetRooms(c)) > 1
MustLeave(c, ch) == ~MultiRoomMode[ch] /\ GetRooms(c) # {}

MayJoinMutant(c, r) == r \in rooms /\ ~LimitReached(c, ChannelOf[r])

MayJoin(c, r) ==
  /\ r \in rooms
  /\ c \notin members[r]
  /\ ~LimitReached(c, ChannelOf[r])

JoinRequest(c) ==
  LET r == joining[c] IN
  /\ At(c, "joinAsk")
  /\ MayRLock(ChannelOf[r])
  /\ MayJoin(c, r)
  /\ ~MustLeave(c, ChannelOf[r])
  /\ Goto(c, "join")
  /\ UNCHANGED <<clients, open, roomVars, toldVars, localVars>>

\* s is activeRooms[0]: Range visits a sync.Map in no particular order.
SwitchRequest(c, s) ==
  LET r == joining[c] IN
  /\ At(c, "joinAsk")
  /\ MayRLock(ChannelOf[r])
  /\ MayJoin(c, r)
  /\ MustLeave(c, ChannelOf[r])
  /\ s \in GetRooms(c)
  /\ leaving' = [leaving EXCEPT ![c] = s]
  /\ return' = [return EXCEPT ![c] = "join"]
  /\ Goto(c, "left")
  /\ UNCHANGED <<clients, open, roomVars, toldVars, joining, snapshot, todo, rest, chans>>

LeftRequest(c) ==
  LET r == leaving[c] IN
  /\ At(c, "leftAsk")
  /\ MayRLock(ChannelOf[r])
  /\ r \in rooms
  /\ Goto(c, "left")
  /\ UNCHANGED <<clients, open, roomVars, toldVars, localVars>>

\* The error is answered, and the next request is read.
Refused(c) ==
  /\ joining' = [joining EXCEPT ![c] = NoRoom]
  /\ leaving' = [leaving EXCEPT ![c] = NoRoom]
  /\ Goto(c, "read")
  /\ UNCHANGED <<clients, open, rooms, public, members, joined, readers, toldVars,
                 return, snapshot, todo, rest, chans>>

RequestRefused(c) ==
  /\ \/ At(c, "joinAsk") /\ MayRLock(ChannelOf[joining[c]]) /\ ~MayJoin(c, joining[c])
     \/ At(c, "leftAsk") /\ MayRLock(ChannelOf[leaving[c]]) /\ leaving[c] \notin rooms
  /\ UNCHANGED writer
  /\ Refused(c)

(***************************************************************************)
(* RoomCreateRequest: rm.Create; then the RoomCreate event, to everyone    *)
(* registered or to the creator alone; then room.Join.  Which of the two   *)
(* was asked for is told apart when the room is stored.                    *)
(***************************************************************************)
CreateLock(c) ==
  LET ch == ChannelOf[joining[c]] IN
  /\ At(c, "lock")
  /\ writer[ch] = {}
  /\ writer' = [writer EXCEPT ![ch] = {c}]
  /\ UNCHANGED <<socketVars, rooms, public, members, joined, readers, localVars, toldVars>>

CreateUnlock(c) == writer' = [writer EXCEPT ![ChannelOf[joining[c]]] = {}]

CreateRoom(c) ==
  LET r == joining[c] IN
  /\ At(c, "lock")
  /\ HasLock(c, ChannelOf[r])
  /\ r \notin rooms
  /\ rooms' = rooms \cup {r}
  /\ CreateUnlock(c)
  /\ UNCHANGED <<clients, open, members, joined, readers, toldVars,
                 joining, leaving, return, snapshot, rest, chans>>

CreatePublic(c) ==
  /\ CreateRoom(c)
  /\ public' = public \cup {joining[c]}
  /\ Goto(c, "createSnap")
  /\ UNCHANGED todo

CreatePrivate(c) ==
  /\ CreateRoom(c)
  /\ todo' = [todo EXCEPT ![c] = {c}]
  /\ Goto(c, "createCast")
  /\ UNCHANGED public

CreateRefused(c) ==
  /\ At(c, "lock")
  /\ HasLock(c, ChannelOf[joining[c]])
  /\ joining[c] \in rooms
  /\ CreateUnlock(c)
  /\ Refused(c)

CreateSnapshot(c) ==
  /\ At(c, "createSnap")
  /\ todo' = [todo EXCEPT ![c] = GetClients({})]
  /\ Goto(c, "createCast")
  /\ UNCHANGED <<clients, open, roomVars, toldVars, joining, leaving, return,
                 snapshot, rest, chans>>

CreateCast(c, d) ==
  /\ At(c, "createCast")
  /\ d \in todo[c]
  /\ SendCreate(d, joining[c])
  /\ todo' = [todo EXCEPT ![c] = @ \ {d}]
  /\ UNCHANGED <<socketVars, roomVars, roster, joining, leaving, return,
                 snapshot, rest, chans>>

EndCreateCastMutant(c) ==
  /\ At(c, "createCast")
  /\ todo[c] = {}
  /\ joining' = [joining EXCEPT ![c] = NoRoom]
  /\ Goto(c, "join")
  /\ UNCHANGED <<clients, open, roomVars, toldVars, leaving, return, snapshot,
                 todo, rest, chans>>

EndCreateCast(c) ==
  /\ At(c, "createCast")
  /\ todo[c] = {}
  /\ Goto(c, "join")
  /\ UNCHANGED <<clients, open, roomVars, localVars, toldVars>>

-----------------------------------------------------------------------------
(***************************************************************************)
(* Room.Join: the critical section, client.addRoom, RoomJoin about the     *)
(* newcomer to the snapshot, and RoomJoin about the snapshot to the        *)
(* newcomer.                                                               *)
(***************************************************************************)
\* r.clients(), inside the critical section.
JoinClientsMutant(c, r) == members[r]
JoinClients(c, r) == members[r] \cup {c}

JoinLock(c) ==
  LET r == joining[c] IN
  /\ At(c, "join")
  /\ c \notin members[r]
  /\ members' = [members EXCEPT ![r] = @ \cup {c}]
  /\ snapshot' = [snapshot EXCEPT ![c] = JoinClients(c, r)]
  /\ Goto(c, "joinAdd")
  /\ UNCHANGED <<clients, open, rooms, public, joined, lockVars, toldVars,
                 joining, leaving, return, todo, rest, chans>>

\* The clients are read again, after the lock has been released.
JoinAddRoomMutant(c) ==
  /\ At(c, "joinAdd")
  /\ joined' = [joined EXCEPT ![c] = StoreRoom(@, joining[c])]
  /\ todo' = [todo EXCEPT ![c] = members[joining[c]]]
  /\ Goto(c, "joinCast")
  /\ UNCHANGED <<clients, open, rooms, public, members, lockVars, toldVars,
                 joining, leaving, return, snapshot, rest, chans>>

JoinAddRoom(c) ==
  /\ At(c, "joinAdd")
  /\ joined' = [joined EXCEPT ![c] = StoreRoom(@, joining[c])]
  /\ todo' = [todo EXCEPT ![c] = snapshot[c]]
  /\ Goto(c, "joinCast")
  /\ UNCHANGED <<clients, open, rooms, public, members, lockVars, toldVars,
                 joining, leaving, return, snapshot, rest, chans>>

JoinCast(c, d) ==
  /\ At(c, "joinCast")
  /\ d \in todo[c]
  /\ SendJoin(d, joining[c], NameOf[c])
  /\ todo' = [todo EXCEPT ![c] = @ \ {d}]
  /\ UNCHANGED <<socketVars, roomVars, known, joining, leaving, return,
                 snapshot, rest, chans>>

EndJoinCast(c) ==
  /\ At(c, "joinCast")
  /\ todo[c] = {}
  /\ todo' = [todo EXCEPT ![c] = snapshot[c] \ {c}]
  /\ Goto(c, "joinList")
  /\ UNCHANGED <<clients, open, roomVars, toldVars, joining, leaving, return,
                 snapshot, rest, chans>>

JoinList(c, d) ==
  /\ At(c, "joinList")
  /\ d \in todo[c]
  /\ SendJoin(c, joining[c], NameOf[d])
  /\ todo' = [todo EXCEPT ![c] = @ \ {d}]
  /\ UNCHANGED <<socketVars, roomVars, known, joining, leaving, return,
                 snapshot, rest, chans>>

EndJoin(c) ==
  /\ At(c, "joinList")
  /\ todo[c] = {}
  /\ joining' = [joining EXCEPT ![c] = NoRoom]
  /\ snapshot' = [snapshot EXCEPT ![c] = {}]
  /\ Goto(c, "read")
  /\ UNCHANGED <<clients, open, roomVars, toldVars, leaving, return, todo, rest, chans>>

-----------------------------------------------------------------------------
(***************************************************************************)
(* Room.Left: the critical section, client.delRoom, and RoomLeft to the    *)
(* snapshot, which still holds the client that leaves.  What follows       *)
(* depends on the caller: an error is returned by the request handlers and *)
(* ignored by RoomClientQuit.                                              *)
(***************************************************************************)
LeftLock(c) ==
  LET r == leaving[c] IN
  /\ At(c, "left")
  /\ c \in members[r]
  /\ todo' = [todo EXCEPT ![c] = members[r]]
  /\ members' = [members EXCEPT ![r] = @ \ {c}]
  /\ Goto(c, "leftDel")
  /\ UNCHANGED <<clients, open, rooms, public, joined, lockVars, toldVars,
                 joining, leaving, return, snapshot, rest, chans>>

LeftRefused(c) ==
  /\ At(c, "left")
  /\ c \notin members[leaving[c]]
  /\ leaving' = [leaving EXCEPT ![c] = NoRoom]
  /\ joining' = [joining EXCEPT ![c] = NoRoom]
  /\ return' = [return EXCEPT ![c] = "read"]
  /\ Goto(c, IF return[c] = "quit" THEN "quit" ELSE "read")
  /\ UNCHANGED <<clients, open, roomVars, toldVars, snapshot, todo, rest, chans>>

LeftDelRoom(c) ==
  /\ At(c, "leftDel")
  /\ joined' = [joined EXCEPT ![c] = DeleteRoom(@, leaving[c])]
  /\ Goto(c, "leftCast")
  /\ UNCHANGED <<clients, open, rooms, public, members, lockVars, toldVars, localVars>>

LeftCast(c, d) ==
  /\ At(c, "leftCast")
  /\ d \in todo[c]
  /\ SendLeft(d, leaving[c], NameOf[c])
  /\ todo' = [todo EXCEPT ![c] = @ \ {d}]
  /\ UNCHANGED <<socketVars, roomVars, known, joining, leaving, return,
                 snapshot, rest, chans>>

EndLeft(c) ==
  /\ At(c, "leftCast")
  /\ todo[c] = {}
  /\ leaving' = [leaving EXCEPT ![c] = NoRoom]
  /\ return' = [return EXCEPT ![c] = "read"]
  /\ Goto(c, return[c])
  /\ UNCHANGED <<clients, open, roomVars, toldVars, joining, snapshot,
                 todo, rest, chans>>

-----------------------------------------------------------------------------
(***************************************************************************)
(* ReadMessage fails; the deferred calls run.  RoomClientQuit leaves every *)
(* room of one GetRooms() snapshot: it is called once per channel, but the *)
(* first call leaves the rooms of all of them.                             *)
(***************************************************************************)
ReadError(c) ==
  /\ At(c, "read")
  /\ ~open[c]
  /\ rest' = [rest EXCEPT ![c] = GetRooms(c)]
  /\ Goto(c, "quit")
  /\ UNCHANGED <<clients, open, roomVars, toldVars, joining, leaving, return,
                 snapshot, todo, chans>>

QuitRoom(c, r) ==
  /\ At(c, "quit")
  /\ r \in rest[c]
  /\ rest' = [rest EXCEPT ![c] = @ \ {r}]
  /\ leaving' = [leaving EXCEPT ![c] = r]
  /\ return' = [return EXCEPT ![c] = "quit"]
  /\ Goto(c, "left")
  /\ UNCHANGED <<clients, open, roomVars, toldVars, joining, snapshot, todo, chans>>

EndQuit(c) ==
  /\ At(c, "quit")
  /\ rest[c] = {}
  /\ Goto(c, "remove")
  /\ UNCHANGED <<clients, open, roomVars, localVars, toldVars>>

Remove(c) ==
  /\ At(c, "remove")
  /\ RemoveClient(c)
  /\ Goto(c, "done")
  /\ UNCHANGED <<open, roomVars, localVars, toldVars>>

-----------------------------------------------------------------------------
Init ==
  /\ pc = [c \in Client |-> "new"]
  /\ clients = {}
  /\ open = [c \in Client |-> FALSE]
  /\ rooms = InitialRooms
  /\ public = InitialPublic
  /\ members = [r \in Room |-> {}]
  /\ joined = [c \in Client |-> {}]
  /\ readers = [ch \in Channel |-> {}]
  /\ writer = [ch \in Channel |-> {}]
  /\ joining = [c \in Client |-> NoRoom]
  /\ leaving = [c \in Client |-> NoRoom]
  /\ return = [c \in Client |-> "read"]
  /\ snapshot = [c \in Client |-> {}]
  /\ todo = [c \in Client |-> {}]
  /\ rest = [c \in Client |-> {}]
  /\ chans = [c \in Client |-> {}]
  /\ roster = [c \in Client |-> {}]
  /\ known = [c \in Client |-> {}]

\* What the browser may ask for.
Request(c) == \E r \in Room : AskJoin(c, r) \/ AskLeft(c, r) \/ AskCreate(c, r)

Looking(c) ==
  \/ JoinRequest(c)
  \/ \E s \in Room : SwitchRequest(c, s)
  \/ LeftRequest(c)
  \/ RequestRefused(c)

Listing(c) ==
  \/ \E ch \in Channel : ListChannel(c, ch)
  \/ \E r \in Room : AnnounceRoom(c, r)
  \/ EndAnnounce(c)
  \/ StartReading(c)

Creating(c) ==
  \/ CreateLock(c)
  \/ CreatePublic(c)
  \/ CreatePrivate(c)
  \/ CreateRefused(c)
  \/ CreateSnapshot(c)
  \/ \E d \in Client : CreateCast(c, d)
  \/ EndCreateCast(c)

Joining(c) ==
  \/ JoinLock(c)
  \/ JoinAddRoom(c)
  \/ \E d \in Client : JoinCast(c, d)
  \/ EndJoinCast(c)
  \/ \E d \in Client : JoinList(c, d)
  \/ EndJoin(c)

Leaving(c) ==
  \/ LeftLock(c)
  \/ LeftRefused(c)
  \/ LeftDelRoom(c)
  \/ \E d \in Client : LeftCast(c, d)
  \/ EndLeft(c)

Quitting(c) ==
  \/ \E r \in Room : QuitRoom(c, r)
  \/ EndQuit(c)
  \/ Remove(c)

\* What the handler goroutine does without waiting for its peer.
Run(c) ==
  Listing(c) \/ Looking(c) \/ Creating(c) \/ Joining(c) \/ Leaving(c) \/ Quitting(c)

\* The browser goes, and what it had been told goes with it.
Disconnect(c) ==
  /\ PeerClose(c)
  /\ roster' = [roster EXCEPT ![c] = {}]
  /\ known' = [known EXCEPT ![c] = {}]
  /\ UNCHANGED <<roomVars, localVars>>

\* Every connection of the run has ended.
Terminated == (\A c \in Client : At(c, "done")) /\ UNCHANGED vars

Next ==
  \/ \E c \in Client : Connect(c) \/ Request(c) \/ Run(c) \/ ReadError(c) \/ Disconnect(c)
  \/ Terminated

(***************************************************************************)
(* The Go scheduler runs every runnable goroutine.  Only the steps of Run  *)
(* that wait for rm's lock are disabled by other goroutines, for a time:   *)
(* an RWMutex lets in the readers that wait when a writer unlocks, and a   *)
(* writer that waits before later readers, so that each has its turn.      *)
(* ReadError is disabled while requests that were received before the      *)
(* failure are processed; there are finitely many of them.  Nothing forces *)
(* a browser to send a request or to go away.                              *)
(***************************************************************************)
Fairness == \A c \in Client : SF_vars(Run(c)) /\ SF_vars(ReadError(c))

Spec == Init /\ [][Next]_vars /\ Fairness

-----------------------------------------------------------------------------
(***************************************************************************)
(* Types, and what each location of the handler says of its locals: a room *)
(* is at hand wherever the code dereferences one.                          *)
(***************************************************************************)
AskLocation == {"joinAsk", "lock"}
JoinLocation == {"createSnap", "createCast", "join", "joinAdd", "joinCast", "joinList"}
LeftLocation == {"left", "leftDel", "leftCast"}

TypeOK ==
  /\ pc \in [Client -> Location]
  /\ clients \subseteq Client
  /\ open \in [Client -> BOOLEAN]
  /\ rooms \subseteq Room
  /\ public \subseteq rooms
  /\ members \in [Room -> SUBSET Client]
  /\ joined \in [Client -> SUBSET Room]
  /\ readers \in [Channel -> SUBSET Client]
  /\ writer \in [Channel -> SUBSET Client]
  /\ joining \in [Client -> Room \cup {NoRoom}]
  /\ leaving \in [Client -> Room \cup {NoRoom}]
  /\ return \in [Client -> {"read", "join", "quit"}]
  /\ snapshot \in [Client -> SUBSET Client]
  /\ todo \in [Client -> SUBSET Client]
  /\ rest \in [Client -> SUBSET Room]
  /\ chans \in [Client -> SUBSET Channel]
  /\ DOMAIN roster = Client
  /\ known \in [Client -> SUBSET Room]
  /\ \A c \in Client :
       /\ pc[c] \in AskLocation \cup JoinLocation => joining[c] \in Room
       /\ At(c, "leftAsk") => leaving[c] \in Room
       /\ pc[c] \notin LeftLocation => return[c] = "read"
       /\ pc[c] \in LeftLocation =>
            /\ leaving[c] \in Room
            /\ return[c] = "join" => joining[c] \in Room

(***************************************************************************)
(* The two records of membership, r.clientsMap and client.rooms, are       *)
(* updated in different critical sections, by every goroutine that joins   *)
(* or leaves.  They differ only between those sections, and only about the *)
(* room that the client itself is joining or leaving.                      *)
(***************************************************************************)
MembershipAgrees ==
  \A c \in Client : \A r \in Room :
    \/ c \in members[r] <=> r \in joined[c]
    \/ At(c, "joinAdd") /\ joining[c] = r /\ c \in members[r]
    \/ At(c, "leftDel") /\ leaving[c] = r /\ c \notin members[r]

(***************************************************************************)
(* OnRoomEvent asks room.Has before it calls room.Join, which takes the    *)
(* lock again: between the two no step of this or another goroutine puts   *)
(* the client in the room, so Join's own check never refuses it.           *)
(***************************************************************************)
JoinNeverRefused ==
  \A c \in Client : At(c, "join") => c \notin members[joining[c]]

(***************************************************************************)
(* "Auto broadcast RoomLeft" (eddwise.go:367): a connection that ends      *)
(* leaves every room it is in, whatever requests were under way when its   *)
(* peer went away.                                                         *)
(***************************************************************************)
QuitLeavesAllRooms ==
  \A c \in Client : pc[c] \in {"remove", "done"} => \A r \in Room : c \notin members[r]

(***************************************************************************)
(* Two clients that join at the same time each take their own snapshot and *)
(* broadcast it outside the lock.  Whatever the order, every member of a   *)
(* room has been told of every member, itself included, once no frame      *)
(* about the one to the other is still to be written.                      *)
(***************************************************************************)
TellingOthers(a, b, r) ==
  /\ joining[a] = r
  /\ b \in snapshot[a]
  /\ At(a, "joinAdd") \/ (At(a, "joinCast") /\ b \in todo[a])

BeingTold(a, b, r) ==
  /\ joining[b] = r
  /\ a \in snapshot[b] \ {b}
  /\ pc[b] \in {"joinAdd", "joinCast"} \/ (At(b, "joinList") /\ a \in todo[b])

MembersAcquainted ==
  \A r \in Room : \A a, b \in members[r] :
    \/ <<r, NameOf[a]>> \in roster[b]
    \/ ~open[b]
    \/ TellingOthers(a, b, r)
    \/ BeingTold(a, b, r)

(***************************************************************************)
(* Creating a public room races with connections that are being            *)
(* registered and listed to.  A client past its listing knows every public *)
(* room, but for those whose creator has still to take the snapshot of the *)
(* registry or to send to that client.                                     *)
(***************************************************************************)
BeingAnnounced(r, c) ==
  \E k \in Client :
    /\ joining[k] = r
    /\ At(k, "createSnap") \/ (At(k, "createCast") /\ c \in todo[k])

PublicRoomsAnnounced ==
  \A c \in clients : \A r \in public :
    \/ r \in known[c]
    \/ ~open[c]
    \/ pc[c] \in {"list", "announce"}
    \/ BeingAnnounced(r, c)

(***************************************************************************)
(* SetRoomsPerUserLimit (room.go:144) and single-room mode: how many rooms *)
(* a connection is in at any moment.  Both are asked when it joins, and    *)
(* count the rooms of every channel.  Where each channel has the one or    *)
(* the other, it is in one room, or in as many as some channel's limit.    *)
(* Neither is asked when it creates: a room created by a request is over   *)
(* the limit, and bounds nothing.  The initial rooms of a channel that has *)
(* a limit are within it in any case.                                      *)
(***************************************************************************)
IsLimited(ch) == MultiRoomMode[ch] /\ RoomLimit[ch] > 0

Within(n) == n <= 1 \/ \E ch \in Channel : IsLimited(ch) /\ n <= RoomLimit[ch]

RoomsIn(c) == {r \in Room : c \in members[r]}

LimitedRooms(c, ch) == {r \in RoomsIn(c) : r \in InitialRooms /\ ChannelOf[r] = ch}

RoomsPerUser ==
  \A c \in Client :
    /\ (\A ch \in Channel : MultiRoomMode[ch] => IsLimited(ch)) /\ rooms = InitialRooms =>
         Within(Cardinality(RoomsIn(c)))
    /\ \A ch \in Channel : IsLimited(ch) => Cardinality(LimitedRooms(c, ch)) <= RoomLimit[ch]

(***************************************************************************)
(* Every connection whose peer has gone leaves its rooms and the registry, *)
(* whatever the other goroutines do: no send and no lock holds it for ever.*)
(***************************************************************************)
EventuallyGone ==
  \A c \in Client : (~open[c] /\ ~At(c, "new")) ~> At(c, "done")

(***************************************************************************)
(* What RoomDirectory promises, of this code: the room a connection has    *)
(* entered or left without having told everyone, and whom it has still to  *)
(* tell and to be told of, are in the locals of its handler.               *)
(***************************************************************************)
ChangeOf(c) ==
  IF pc[c] \in {"joinAdd", "joinCast", "joinList"} THEN joining[c]
  ELSE IF pc[c] \in {"leftDel", "leftCast"} THEN leaving[c] ELSE NoRoom

ToTell(c) ==
  IF At(c, "joinAdd") THEN snapshot[c]
  ELSE IF pc[c] \in {"joinCast", "leftDel", "leftCast"} THEN todo[c] ELSE {}

ToHear(c) ==
  IF pc[c] \in {"joinAdd", "joinCast"} THEN snapshot[c] \ {c}
  ELSE IF At(c, "joinList") THEN todo[c] ELSE {}

Directory == INSTANCE RoomDirectory WITH
  up      <- open,
  change  <- [c \in Client |-> ChangeOf(c)],
  telling <- [c \in Client |-> ToTell(c)],
  hearing <- [c \in Client |-> ToHear(c)]

\* Room.Join and Room.Left tell each member once, and the truth: the snapshot is
\* that of the critical section which made the change (room.go:37-120).
KeepsDirectory == Directory!Spec

=============================================================================
