# A verification development for eddwise

eddwise is a Go library for applications that talk to browsers over one WebSocket per page. The
application declares *channels* and their events in design files, from which the `edd` command
generates code for both sides; the library accepts connections, logs them in, tells the users of a
channel of one another, keeps *rooms*, and routes events. The TLA+ modules here model the server's
concurrent core, the generator, and an event's way between the two sides as they are written in
`src/`; TLC checks them on small instances and TLAPS proves what matters most for instances of every
size.

    tlc -workers 2 -config MCRoomModes.cfg MCRoomManager.tla
    tlapm RoomManagerProofs.tla

## 1. Inventory

### Parts, their state and their operations

| part | code | state | operations |
|---|---|---|---|
| Connection handler | `eddwise.go` 281-404 | one goroutine per connection; its deferred calls | `CheckAuth`, `Connected`, `AddClient`, `onJoin`, `SendPublicRooms`, read loop, then `RoomClientQuit`, `onLeft`, `Disconnected`, `RemoveClient`, `RevokeAuth` in this order |
| Registry | `eddwise.go` 233-249, 506-520 | `s.Clients` under `ClientsMx` | `AddClient`, `RemoveClient`, `GetClients` (a copy) |
| Socket | `eddwise.go` 104-180 | `closed`, `WriteMx`, the connection | `Send`, `SendJSON`, `Close` |
| Broadcast | `eddwise.go` 526-564 | a goroutine per recipient, an error channel | `Broadcast`: sends to every member of a slice, waits for all, returns the errors |
| Shutdown | `eddwise.go` 416-444 | three goroutines and a channel of capacity one | `Close(timeout)` |
| Presence | `user_join.go` | none: recipients come from the registry or a ConnManager | `onJoin`, `onLeft`, `getOtherClientsIds`, `broadcast` |
| Authentication | `auth.go` 165-258 | `client.auth`, one per connection | `CheckAuth`, `ProcessEventAuth`, `RevokeAuth` |
| ConnManager | `auth.go` 65-150 | `clients`, `userConnections` under `mx` | `setAuth`, `removeAuth`, `GetAuthorized…`, `IsUserConnected` |
| Rooms | `room.go`, `room_events.go` | per channel `rm.rooms` under its lock; per room `clientsMap` under its lock; per connection `client.rooms`, a `sync.Map` keyed by room id | `Create`, `Join`, `Left`, `OnRoomEvent`, `SendPublicRooms`, `RoomClientQuit` |
| Routing | `eddwise.go` 446-504 | `RegisteredChannels`, a map without a lock | `Register`, `ProcessEvent`, the generated `Route` |
| Codec, serializer, context | `eddwise.go`, `serializer.go` | none shared | encode, decode, accessors |
| Browser client | `eddclient.js` | `is_connected`, `conn`, `channels`; the callbacks of every socket it has dialed | `start`, `stop`, `register`, `send`, `onmessage` |
| Design files | `internal/eddgen` | the `Design` at hand, that of the files before it, `structMap` | `ParseYaml`, `Merge`, `Validate` |
| Generated code | `internal/eddgen/eddgen.go` templates | none | `Route`, `CheckSendFields`, `CheckReceivedFields`; in the browser `route`, `send<event>`, `on<event>Fn` |
| Command line | `cmd/edd/main.go` | the files on disk | `gen`, `skeleton` |
| Mocks | `mock` | none of interest | |

### How they interact

Everything on the server happens in handler goroutines. They share `s.Clients`, the registers of the
ConnManagers and the rooms, each under a lock of its own, and they write to *each other's* sockets: a
handler takes a copy of a register under the lock, releases it, and sends to the copy. Between
the two, the others move on. `client.auth` and `client.rooms` belong to a connection and are read by the
handlers of others. No lock covers two of the registers.

### What is hard

* **Snapshots used after the unlock** — every list and broadcast. Two handlers that do so at the same
  time must still tell each other's clients the truth: does each learn of the other, and is a departure
  ever overtaken by a stale arrival?
* **Records kept twice** — `r.clientsMap` and `client.rooms`, `cm.clients` and `cm.userConnections`.
* **A handler that ends half-way** — a peer that goes away, a channel that refuses, a recipient whose
  socket is broken: what has been registered must be taken out again.
* **Order of the deferred calls** — the goodbye is broadcast before the connection is taken out.
* **Waiting** — sends under a read lock, a broadcast that waits for the slowest, `Close`.
* **Names and aliases** — a struct, a field and a channel have a name in the code and another on the
  wire; three places translate, and none of them sees all the names.
* **Objects that are changed in passing** — the browser's code renames the fields of the object it is given.
* **Several files, one design** — what is unique in one file, and what is looked up in a map made
  before the next was merged.
* **A page that starts and stops** — the callbacks of an old socket still speak for the client.

`PROJECT.json` lists each hazard at its line under `hazards`, with the property that would catch it
going wrong or the reason there is none.

### What makes each part correct

* Rooms: the two records agree; a connection that has ended is in no room; members know of each other;
  everybody knows of every public room; the limits hold.
* Login: both maps agree; what a login registers, logging out removes, on every channel; `removeAuth` finds
  what it dereferences; users know of each other.
* Handler and presence: whoever is served together has been introduced; whoever has left is forgotten;
  callbacks are paired; every handler ends.
* Shutdown: `Close` returns and leaves no goroutine stuck.
* Designs: what the generators take for granted holds of every design that is accepted — names
  resolve, references end, aliases tell events apart, an event may be sent by somebody.
* Command: a refused design touches nothing, no stop leaves a browser's file newer than the server's, and
  success means that everything has been written.
* Routing: an event arrives at the handler it was sent for, with the fields it was sent with, in
  order.

## 2. Modules

| module | models | builds on |
|---|---|---|
| `ServerSocket` | a connection's goroutine, `s.Clients`, whether its socket is up | |
| `Handler` | the handler of `initWS` from accept to `RemoveClient`; presence on plain channels | `ServerSocket` |
| `Shutdown` | `Close` together with running handlers | `Handler` |
| `ConnManager` | login, logout and the registers; presence on channels with a ConnManager | `ServerSocket` |
| `RoomManager` | rooms of several channels, the handlers that list, create, join, leave | `ServerSocket` |
| `Lifecycle` | abstract: what channels and browsers may rely on, nothing of how | |
| `RoomDirectory` | abstract: what rooms promise to the browsers, nothing of how | |
| `DesignTypes` | structs, channels, tags and fields of a design | |
| `Design` | reading, merging and validating design files | `DesignTypes` |
| `Generator` | the `edd` command: `Design`, then file after file | `Design` |
| `EddClient` | the browser's client and its sockets | `DesignTypes` |
| `Routing` | an event between the generated code of the two sides, and what carries it | `EddClient` |
| `RoomManagerProofs`, `ConnManagerProofs`, `HandlerProofs`, `ShutdownProofs`, `ContractProofs`, `DesignProofs`, `GeneratorProofs`, `RoutingProofs` | the theorems | the module they are about, `TLAPS` |
| `MC…` | values for TLC | the module they instantiate |

`ServerSocket` is the part that the others share; each of the others refines a different stretch of
the handler's life and abstracts the rest to single steps: `CheckAuth` is one step in `Handler` and
most of `ConnManager`; `AddClient` to `RemoveClient` is one location, `read`, in `ConnManager`. The
stretches do not share state but for `s.Clients`, which is why they can be studied apart.
`DesignTypes` is what the two halves of the generator have in common: `Design` says which designs are
accepted, and `Routing` takes an accepted one as its constant `Channel`.

### How state and actions correspond to the code

*Granularity.* An action is one critical section under one lock, or one write to one socket, or one
callback. What the code does between two of these touches only the goroutine's own locals and is merged
into the action before or after it. Nothing that another goroutine could observe in between is merged.
`Broadcast`'s goroutines are the set `todo`: one write per step in any order, and the caller goes on when
the set is empty (`wg.Wait`).

*pc.* Every handler has a location: `"join"` is before the critical section of `Room.Join`, `"joinAdd"`
between it and `client.addRoom`, `"joinCast"` during the broadcast, and so on. Locals that outlive a step
are variables by connection: the room at hand (`joining`, `leaving`), the slice taken under the lock
(`snapshot`), what a loop has still to do (`todo`, `rest`, `chans`, `ids`), and where a shared function
returns to (`return`).

*Connections.* A member of `Client` is one `ClientSocket`: ids come from an atomic counter and are
never used twice, so one that has ended never returns and a user who reconnects is another member.

*Sockets.* `open[c]` says whether a frame written to `c` can reach the browser. `Disconnect` may happen
at any moment. After it every write is lost: whether it also returns an error is left open where the
code looks at the error (`failed` in `ConnManager`), and the next read fails. `closed` is not a variable
of its own: a sender that sees it and one that does not both lose the frame.

*What browsers are told.* `roster`, `known` and `seen` fold the frames written to a socket, in the order
they are written, into what a client that believes them ends up with. TCP keeps that order, so no
channel of messages is needed. The properties about announcements are about these.

*Maps* iterated by the code (`RegisteredChannels`, `s.Clients`, `clientsMap`, `sync.Map.Range`) are
visited in any order.

*Inputs.* A browser may send any request at any time that its handler reads, right or wrong: one that the code
refuses is received, waits for the lock like any other, and is answered with an error. The application's callbacks
may accept or refuse, and a page may leave out any field of an event, or send an object again.

### Map of the actions

* `RoomManager`: `ListChannel`, `AnnounceRoom`, `EndAnnounce` are `SendPublicRooms`. A request is received by
  `AskJoin`, `AskLeft` or `AskCreate`, after which the handler can do nothing but wait for the lock; then
  `JoinRequest`, `SwitchRequest`, `LeftRequest`, `RequestRefused`, `CreatePublic`, `CreatePrivate`, `CreateRefused`
  are the branches of `OnRoomEvent` (`SwitchRequest` is a join in single-room mode from another room).
  `JoinLock` … `EndJoin` are `Room.Join`, `LeftLock` … `EndLeft` are `Room.Left`; `ReadError`, `QuitRoom`, `EndQuit`,
  `Remove` are the end of the handler. `readers` and `writer` are the channel's `RWMutex`, as Go has it:
  `CreateLock` announces the writer, who then waits for the readers inside (`HasLock`), while those that come later wait
  for it (`MayRLock`), until `CreateUnlock`. A look-up under `RLock` is one step and leaves no reader behind.
* `ConnManager`: `Challenge`, `Login`, `SetAuth`, `AuthPass` are the loop of `CheckAuth`;
  `ListUsers` … `EndJoinCast` are `onJoin`; `RemoveAuth` with `OthersConnected` or `LastConnection`,
  then `LeftRecipients` … `EndLeftCast`, are the loop of `RevokeAuth`. Each error path has an action. `RevokePanics` is
  `removeAuth` calling a method of an entry that is not there: the process ends, and with it every connection. Any
  channels may have a ConnManager, also those that ask for no credentials.
* `Handler`: `Connected` and `ConnectedFails` are the callbacks; `Register` is `AddClient`; `OnJoin` …
  `EndJoin` and `OnLeft` … `EndLeft` the presence events; `Disconnected`, `Remove` the deferred calls.
* `Shutdown`: `Close`, `CloseClients` (one step: the lock is held throughout), `StopListening` and
  `ShutdownReturns` (`App.Shutdown`), `TimerFires`, `CloseReturns`.
* `Design`: `phase` is where `ParseAndValidateYamls` is. The document is chosen as it is read:
  `ParseStruct`, `OpenChannel`, `NextList`, `EnableEvent`, `CloseChannel` are the loops of `ParseYaml`,
  each with its refusal (`ParseStructFails`, `DuplicateChannel`, `EnableEventFails`); `FirstFile`,
  `LaterFile`, `Merge`, `NextFile` are `ParseYamls`; `ValidateDirections`, `ValidateEnabled`,
  `ValidateTypes`, `ValidateReserved` are the passes of `Validate`. `cache` and `built` are
  `design.structMap`, which `StructsMap` makes when it is first asked for. Where a file is wrong in two ways, which
  of the two is reported is left open: the YAML package looks at duplicate keys first.
* `Generator`: `GenServer`, `GenClient`, `SkeletonServer`, `SkeletonClient` are what the two modes do to which file, in
  order; `CreateFile` truncates, `WriteFile` writes, `CloseFile` closes; `CreateFails`, `WriteFails` and `Interrupt` are the
  ways to stop between. Closing may still lose what has been written (`Closed`): the code drops that error, so that
  the command goes on, and `unsaved` remembers the file. The skeleton never closes its test; `Exit` is the system
  doing it.
* `EddClient`: `Start`, `Stop`, `RegisterChannel` are the methods, `OnOpen` and `OnClose` the callbacks of
  each socket, of which `conn` is the last.
* `Routing`: `Send` is the generated `send<event>` with `EddClient.send`; `Handle`, `HandleRoomEvent` and
  `Refuse` are `ProcessEvent` with the generated `Route`, and its error answer; `ServerSend` is the
  generated `Send<event>` with `ClientSocket.Send`; `OnMessage`, `OnArrayBuffer` and `Dispatch` are
  `onmessage` with the generated `route`. A body is a set of entries; the value of each
  is the path of the field the sender has set, so that a value that ends under another key shows. The page may fill in
  any fields of an object (`Settings`; the skeleton sends `{}`), or pass the one it has passed last: `kept` is that object
  as `send` has left it, renamed, even when nothing was sent or the renaming has thrown. What the server's encoder may
  leave out is `Contents`.
  `last` records what the last step has done with an event.

## 3. What is checked

`…Mutant` operators beside a definition are changes of the code that a property must notice; the
specifications do not use them.

### Runs that hold

| run | instance | what it shows |
|---|---|---|
| `room_create` | 2 connections, 1 channel, 1 room that does not exist yet | every race of registering, listing, creating, joining, leaving and going away; handlers wait for one another's locks, readers behind a waiting writer included, and every one ends; `RoomManager` implements `RoomDirectory` |
| `room_modes` | 2 connections, 2 rooms of a channel with a limit of one and 1 of a channel in single-room mode, and a room that can be created on the first (then with one connection at a time) | switching leaves first and joins afterwards, and the join is not refused; at most one room each; a created room is joined whatever the limit |
| `conn_shared` | 3 connections, two of them of the same user, 1 channel that asks for credentials, and 1 with a ConnManager that does not | first and last connections race; `removeAuth` finds the entry on the channel that has asked, and panics only on the other |
| `conn_channels` | 2 connections, 2 channels with a ConnManager each, two accounts that the connections use the other way round | both loops over channels, and what breaks them off; logging out undoes logging in; every handler ends |
| `handler_peers` | 3 connections, 2 channels, one announcing, symmetric | introductions and goodbyes; `Handler` implements `Lifecycle` |
| `shutdown_ends` | 2 connections, 1 channel, a timeout | `Close` returns and everything it started ends |
| `generate` | 1 or 2 files of up to 2 structs and 1 channel, names `a` and `b`, both modes | right and wrong documents read, merged, validated and turned into files, with a failure or an interruption anywhere, and losses at closing |
| `wire` | 3 channels, 3 events, 2 sockets of one page, 2 calls of send, text and binary | events sent either way, complete or not, anew or again, while the page starts, stops and loses its sockets |

Properties, by module:

* `RoomManager!MembershipAgrees` — the two records of membership differ only between two given lines
  of `Join` and of `Left`, and only about that room.
* `JoinNeverRefused` — `Has` is asked long before `Join` takes the lock; nothing invalidates the answer, and a switch
  that has left the old room (`room_modes`) is not stopped half-way.
* `QuitLeavesAllRooms` — whatever was under way when the peer went, no room keeps the connection.
* `MembersAcquainted` — each member knows of each other member, unless a frame saying so is still to
  be written. It spells out which frames those are.
* `PublicRoomsAnnounced` — creating races with registering: either the list or the broadcast reaches
  everyone. It depends on `Create` storing the room *before* the snapshot of the registry, and on
  `AddClient` coming *before* the listing.
* `RoomsPerUser` — the limit of `SetRoomsPerUserLimit` and single-room mode look at the rooms of all channels. Where every
  channel has one or the other, a connection is in one room, or in no more than some channel's limit, whatever requests
  and ends cross. A room created by a request is joined without either being asked (`room.go` 207): once there is one,
  only the initial rooms of each channel with a limit are still within it.
* `KeepsDirectory` — the refinement: under the mapping `Directory`, which forgets the locks, `client.rooms` and where
  the handler is, its steps are those of `RoomDirectory`. There a connection enters or leaves in one step for everyone,
  and one room at a time; that step fixes who is to be told, each once; and what is written about a connection is
  true of it when it is written, though the lock was released long before. Of the list for a newcomer only this is
  promised: it names those it found.
* `ConnManager!RegistersAgree` — the two maps are of the same connections, though the Auth that links them is outside
  of their lock; for connections that use one account (`OneIdentity`).
* `RevokeFindsClient` — on every channel that has asked a connection for credentials, `removeAuth` finds the entry that it
  dereferences without a look; a refusal half-way must not get there.
* `UsersAcquainted` — of two users who are logged in, each knows of the other, unless the frame is still to be written.
  It excuses a user one of whose connections has ended: that user's `UserLeft` may come late.
* `LogoutUnregisters` — who has got past `CheckAuth` is, when its handler has returned, in none of the managers that
  `RevokeAuth` came to, nor under the account of its last login; and managers are left out only when another
  connection has broken.
* `ConnectedUsersAreConnected` — `IsUserConnected` says what its name does. Refuted by `conn_leak`.
* `Handler!PeersIntroduced`, `LeaversForgotten`, `CallbacksPaired`. `witnesses[c]` remembers who was
  past its own `onJoin` when `c`'s read loop ended: to them the goodbye is final.
* `Shutdown!NoSenderStuck` — the capacity of one is what keeps the later of the timer and
  `App.Shutdown` from blocking for ever.
* `Handler!KeepsContract` — the refinement: under the mapping `Contract`, which forgets snapshots, loops and
  failed writes, a handler's steps are those of `Lifecycle`. There a channel is asked once and told
  once, a connection that is turned away is never heard of, and only who is served hears.
* `Design!EventsHaveAWay`, `AliasesDistinct`, `AcceptedNamesResolve`, `AcceptedAcyclic` — what the templates take
  for granted. The last two hold although `Validate` looks in a map that lacks the structs of later
  files, and the reason is just that what is not in it is refused.
* `Generator!RefusedTouchesNothing`, `ServerBeforeClient`, `SuccessIsComplete` — the last two but for the files that closing
  has cut short: neither the command nor its caller ever hears of those.
* `EddClient!ConnectedIsOpen` — `is_connected` is true exactly while the current socket is open, as long
  as the page does not start again while it is connecting. When it does (`start` asks `is_connected`, which
  only `onopen` sets), the end of the older socket marks the newer one as lost: `overlapped` remembers.
* `Routing!HandledAsSent` — only aliases travel: an event whose alias is the name of another, a channel whose
  alias is the name of another, and an event whose alias is the name of a request for a room end up in
  the right handler or in none. Under `AliasesAgree`: page and server mean the same channel by an alias.
* `FieldsArrive` — bodies are renamed field by field on the way; what was set arrives where it was set. Under
  `Plain`: only fields at the top have aliases (the browser's code renames no others) and none is
  the name or the alias of another.
* `OnlyOptionalLost` — the only events that a page receives and loses to renaming are those in which a field with a
  direction and an alias is missing: the generated code asks for its descriptor all the same. Nothing like it
  holds of what a page sends: an object without a field that has an alias, or one that has been passed to `send`
  before, throws whatever the field is. `FieldsArrive` is about what is sent all the same.
* `TextInTurn` — with the JSON codec, the page handles frames in the order of the socket and none after it
  has begun to close it. With msgpack each frame is awaited apart, and the property is not claimed.
* Liveness: `EventuallyGone` — no lock and no send holds a handler for ever whose peer has gone, with a writer between two
  readers and a lister that sends under the lock; `EventuallyDone`, `CloseTerminates`.

### Runs that find a disagreement

| run | what the code does |
|---|---|
| `room_same_id` | `client.rooms` is keyed by id alone: two rooms of the same id on two channels overwrite one another, and one of them keeps the dead connection |
| `conn_leak` | `RevokeAuth` is deferred after `CheckAuth`: a login that fails after `setAuth` is never undone |
| `handler_ghost` | a connection that registers while another is leaving is told of it and never told that it has left |
| `design_merge` | the events that a channel of a second design file enables are refused as unknown: `structMap` was made, and kept, by the merge that was adding them |

Also met, without a finding of their own. On the server: a *create* request joins the room whatever the limit of
rooms per user, and in single-room mode without leaving the other (`room.go` 207; the model does so in `room_modes`); a
ConnManager on a channel without `OnBasicAuth` makes `removeAuth` panic (`auth.go` 96; in `conn_shared`); a second account
on another channel overwrites `client.auth`, and `removeAuth` then looks for the connection under that one only, so that
the first has it for ever (`auth.go` 96), and the error of one recipient's socket makes `RevokeAuth` skip the remaining
ConnManagers (`auth.go` 206): both are steps of `conn_channels`, and what `LogoutUnregisters` leaves out is exactly these; the `UserLeft` of a
user's last connection is sent without the lock and can come after the `UserJoin` of the next one (`auth.go`
204); a connection accepted and not registered when `Close` runs is neither closed nor turned away
(`eddwise.go` 428); `Register` stores a channel before `SetReceiver` may refuse it (`eddwise.go` 461); the list `Room.Join` sends
a newcomer can be older than a `RoomLeft` already sent to it (`room.go` 66), the same race as `handler_ghost`; single-room
mode and the limit look at the rooms of *all* channels (`room.go` 186, 191); `Close` sets its timer to ten seconds whatever
timeout it is given (`eddwise.go` 419).

In the generator: a file without `structs` dereferences a nil pointer (`eddgen_yml.go` 359, `NoStructs`) and a cycle of
references exhausts the stack (`eddgen.go` 37), both before anything is written; the errors of closing a file are dropped
(`main.go` 124, 141, 161, 243, 244, 263), and the skeleton's test is not closed at all; names declared in
the second and the third of three files are not compared, though such a design is then refused if it uses them; two
channels may have one alias, which `Register` refuses when the server starts; reserved names are compared as they are
written, and the generated ones are capitalised (`eddgen.go` 96); fields with a direction inside a map, or below a field
with one, are not checked (`structs.go` 222); the `export` of two channels has no comma between them (`eddgen.go` 639). On
the wire: a field with a direction, which its type calls optional (`structs.go` 307), makes the page's code throw when it has
an alias too and is left out (`eddgen.go` 603, 628); `send` renames the page's own object (`eddgen.go` 628) before `client.send` asks whether it is connected, so that
the object cannot be sent again, not even after `send` has returned false, and the skeleton's `{}` (`eddgen.go` 262) throws
where a field has an alias, all of which is in the model (`kept`, `Settings`); error answers are JSON text whatever the
codec is (`eddwise.go` 165).

### Bounds, and why they are enough

In the server's modules the only bounds are the sizes of the constant sets: no action counts anything. Two connections give
every race between two handlers, and a third (`handler_peers`, `conn_shared`) is a bystander who must be told the truth
about both, or another connection of a user. A second room is needed for switching, a second channel where
loops over channels, ids or accounts matter. Connections come once and go once; a reconnection is
another connection. `room_create` has the whole life of a room with two connections, with no further bound and no
symmetry, since it has a liveness property: one lists, creates or joins while the other does, and a lock needs a writer and a
reader, each of which may be either. That a third adds nothing to its safety properties is what the theorems of section 4 say,
which hold for any number. `room_modes` has three more rooms and a second channel. There, `OneOnceCreated` lets
the second connection begin only after the first has ended once the fourth room exists: what creating does to limits and
modes is a matter of one connection's requests in a row, and its races are those of `room_create`. In `conn_shared` the
panic ends all handlers, whenever one that logs out comes to the second channel; it may come there as late as it likes, so
all the others can do is seen before it. Symmetry is over connections only, only where no constant
tells them apart, and never in a run with a liveness property (`KeepsContract` is of safety).

`MaxFiles`, `MaxStructs` and `MaxChannels` bound a document. A second file is where merging begins; the seven
structs of `McStructText` are chosen to collide: two names, an alias that is the other's
name, references one way and back, through the value of a map, in a key, an unknown type. One channel
takes part in every rule about channels but the one on duplicates, which the second file's meets.
A third file adds nothing that the map of the first merge does not show with two, and the theorems have no bound.
`MaxStarts` and `MaxFrames` bound a page's sockets and the calls of send, on either side and successful or not. Two sockets are needed for one to outlive its
successor's start, two events for one to overtake the other or to be taken for it, and two calls for one object to be
sent again. The three channels cross
their aliases, the three events theirs, and the fields have an alias, a direction, or both, at the top and
below.

### Fairness

Weak fairness of `Run(c)`: the Go scheduler runs a runnable goroutine; a critical section ends since
what it does is finite; and a write returns. Nothing is assumed of the environment: a browser may never
send, never log in and never go away. In `RoomManager` the fairness of `Run(c)` is strong: the steps that wait for the lock are
disabled, again and again, by others who have it or wait for it, and an `RWMutex` gives each its turn (a writer
who unlocks lets in the readers that wait, and one who waits goes before later readers). `ReadError` gets
strong fairness too, as requests received before the failure are read first and interrupt it. In `Shutdown`,
`App.Shutdown` is not fair (it waits for requests of other handlers), which is what the timeout is for. That a write returns is an assumption: a peer that
is up but reads nothing blocks `Broadcast`, and no deadline is set in the code.

`Generator` and `Routing` have no fairness and no liveness property: the command may be interrupted and a
page may do nothing.

Deadlock is checked everywhere: the specifications have an explicit step for the end of the run,
enabled only when all handlers are done (in `ConnManager`, or have crashed; in `Shutdown`, when `Close` has
returned; in `Generator`, when the command has ended and no file is open). In `Routing` a page can always register a channel in the place of the
one with the same alias, so there is no end.

## 4. What is proved

All for any sets of connections, rooms, channels, users, files and events.

**RoomManagerProofs.** `TypeCorrect`; then from the inductive invariant `MembershipInv` the theorems
`MembershipAgreement` and `QuitLeaves`; from `MembershipInv` and `CountInv` `RoomsLimited` (`RoomsPerUser`); from `PlaceInv`
`JoinsAreAccepted` and `DirectoryKept` (`KeepsDirectory`); from `RosterInv` `Acquaintance`; from `ListingInv` `Announcement`.
`MembershipAgrees` is not inductive: that the window closes well needs both records' exact state inside
it (`Agreement`); that `Join` is not refused needs the answer of `Has` carried across a `Left` of another
room (`ReadyToJoin`), and for a new room that nobody is in a room that does not exist (`RoomsExist`); that
nothing remains after the quit loop needs its snapshot to cover what is left (`QuitCovers`).
`RoomsPerUser` needs that between two requests `client.rooms` is what the connection is in (`RoomsAtRead`), and that
what was found then is kept until `Join`: place for one more, in all and in the channel (`TotalKept`, `LimitKept`), or
a room to leave first, and that a room at hand after a create is none of the initial ones (`CreatedIsNew`). `Quiet` says what all
the steps have in common that do not change a room; the critical sections of `Join` and `Left` change the count by one at most.
For the refinement, `PlaceInv`: who tells that it has joined is in the room (`JoinersAreIn`) and who tells that it has
left is not (`LeaversAreOut`), the room joined exists. `ViewOfOne` is that a handler's step changes what the directory sees
of its own connection alone; then `JoinLock` is `Enter`, `LeftLock` is `Exit`, a write is a `Tell` or a `Hear`, the end of
`Join` and of `Left` is `Settle`, and what is between them cannot be seen (`SilentStep`). It asks nothing of ids or names.
`MembersAcquainted` needs that whoever is sending a `RoomLeft` is out of the room
(`LeaversAreOut`). `PublicRoomsAnnounced` needs the stage of the listing: the room is still in the list
being read, or its channel is still to be listed (`ListingInv`).
Assumptions: `DistinctIds` (room ids distinct across channels) for what involves `client.rooms` —
`room_same_id` shows it is needed; `DistinctNames` (no two connections of one user) for the rosters, since
the `RoomLeft` of one connection takes the other off.

**ConnManagerProofs.** `TypeCorrect`, `LoginInvariant`, `RevokeIsSafe` (`RevokeFindsClient`), `Registers` (`RegistersAgree`),
`Logout` (`LogoutUnregisters`), `Acquaintance` (`UsersAcquainted`). For any channels, with a ConnManager, an `OnBasicAuth`, both
or neither. The invariant `RegisteredAfterLogin` follows a connection through both loops: it is in every ConnManager, of a
channel that asks for credentials, that `CheckAuth` has passed and that `RevokeAuth` has still to visit. `Logout` asks
nothing of the accounts or of the number of ConnManagers: `PassedInv` says that a connection being revoked is
in no manager but those ahead, and `FailureInv` that what breaks the loop off is another connection's socket.
`Registers` and `Acquaintance` assume `OneIdentity` (a connection logs in as the same user on every channel): with two
accounts, as in `conn_channels`, the maps do not agree.

**HandlerProofs.** `TypeCorrect`, `Introduction` (`PeersIntroduced`), `Pairing` (`CallbacksPaired`) and
`Farewell` (`LeaversForgotten`), with no assumption beyond the typing of the constants.
`PeersIntroduced` needs only that a handler past its read loop has lost its peer (`LeaversClosed`), so that
a goodbye cannot undo an introduction. `CallbacksPaired` needs which callbacks have been called at
each location (`PairingInv`). `LeaversForgotten` needs that a witness never goes back to a location where
something is listed to it (`WitnessesRead`), that a browser that has gone holds nothing
(`ClosedSeeNothing`), and what `onLeft` has told each witness so far (`Forgotten`).

**ShutdownProofs.** `ShutdownTypes`, and `SendersAreFree` (`NoSenderStuck`) from `Balance`: what `chClose`
holds is what has been written and not been read. What the handlers do is taken over from
`HandlerProofs` by the lemma that a handler's step under `Close` is one of `Handler`.

**ContractProofs.** `ContractKept`: `Handler` implements `Lifecycle` (`KeepsContract`), for any sets of
connections and channels. Initial states map to initial states, and `ContractStep` has a step for each
of the handler's actions: it is a `Hear`, a `Forget`, an `Accept`, a `Dismiss` and so on, or changes
nothing of the four variables. What the step needs to know of the state is `ContractInv`: only who
has been accepted by all channels gets into a list (`ListedEntered`, since lists are taken from the registry), the
callbacks are paired, and who leaves is closed.

**DesignProofs, GeneratorProofs.** For any documents of any size, and any number of files: `TypeCorrect`,
`HaveAWay` (`EventsHaveAWay`), `DistinctAliases` (`AliasesDistinct`), `NamesResolve` (`AcceptedNamesResolve`),
`NoCycle` (`AcceptedAcyclic`), `RefusalIsClean`, `ServerIsFirst`, `OkIsComplete`. `ChannelsInv` says what is true of
every channel read so far: each event was enabled once and has at most one direction, and the
structs of one file have different aliases, which is enough since a channel only enables structs of
its own file. `NamesInv` says which structs the map may hold, by phase: those of the design when it was made, with names of
their own; from there each pass of `Validate` adds what it has looked at. That a cycle among the structs of an accepted
design is one in the map (`CycleInMap`) is because every reference has been found in it.
For the files, `WriteInv`: every file asked for is new, has been cut short at closing, or has its write ahead, and
once a file of the browser is touched, nothing is ahead for the server; `ScriptProperties` shows that each of the
six scripts starts like this, and `DoStep` that taking its first step keeps it. `Ordered` says that a script creates
a file, writes it and closes it in this order, and `OpenInv` that what is open was asked for and created, and that what is in
`unsaved` is cut short: so nothing else is excused.

**RoutingProofs.** For any channels and structs, any number of sockets and of events: `WireTypes` (`TypeOK`), `SendsWhereOpen`
(`ConnectedIsOpen`), `HandlerIsRight` (`HandledAsSent`), `TextKeepsOrder` (`TextInTurn`), `NoFieldAstray` (`FieldsArrive`),
`LossIsOptional` (`OnlyOptionalLost`). What is assumed of the channels is
what `DistinctAliases` proves of a design, and of the fields what a parsed struct has: paths of their own, and no field
without those it is in (`FieldsOK`; `RoutingAssumption`). `ClientInv` adds to the first that sockets are dialed one
after the other, and that only the last is in use unless they overlap; `FramesInv` says of every frame under way that
it carries the aliases of the event it stands for, and that the events in a queue to the page have growing numbers. The
queues are sequences of whatever there is in them (`IsQueue`), since nothing is known of the bodies.
The fields of a message are renamed one after the other, and `Renaming` is the recursive function that does so. No
induction theorem of the library can be instantiated here, so the induction is made on sets: a set of numbers has a least one
(`LeastNumber`), and so a set that holds the first and with each the next holds them all (`CountUp`). It gives that the function exists
(`RenamingExists`), and what the body is after `n` fields (`RenamedBody`): the first `n` have their new keys and the others
their own, when no two can meet (`Plain`). The way there and back is then the same body (`Bodies`, `OverTheWire`), or it
stops at a field that was left out (`LeftOut`). An object that is sent again is one of two: it has been renamed as a whole, or up
to where it threw; in either case the field whose renaming comes first throws now (`SpentThrows`), unless nothing in it is renamed, and what
does go out is what was set (`ObjectSent`).

**Model-checked only.** `EventuallyGone`, `EventuallyDone` and `CloseTerminates`: liveness under fairness is out of the
prover's reach. Every invariant of a run that holds, and both refinements, are theorems, under the assumptions named above.

## 5. What is not modelled

* Static files, the HTTP start, contexts and the store of a client: no state, or the library's. Of the codec, only
  what keys a body has and which frames are binary.
* Everything the application does in its handlers. It may call `Room.Join`,
  `Left`, `Create` and `Broadcast` itself from any goroutine; the models have the calls the library makes.
* Memory-level data races on `closed`, `client.auth` and `RegisteredChannels`: reads and writes
  are atomic here. Every channel is registered before the first connection.
* Panics in the application's callbacks (that of `removeAuth` is modelled), and `OnBasicAuth` returning neither user nor error.
* The text the templates produce: types, comments, the contents of skeletons; and the YAML package,
  whose errors are one step that may happen. Included are the rules the text obeys: names, aliases, fields, order.
* In the browser, what the page does with `edd:*` events and errors, and the timer of `start`, which
  only reports. A browser may also dial from several pages: each is an instance of `EddClient`.
* The mocks only record calls.

## 6. Plan

1. Done: `ServerSocket`, `Handler`, `Shutdown`, `ConnManager`, `RoomManager`, with their proofs; `Lifecycle` and
   its refinement; `RoomDirectory` and its refinement; `Design` and `Generator` with theirs; `EddClient` and `Routing` with theirs.
2. An abstract register of users for `ConnManager`, as `RoomDirectory` is one for rooms, with its refinement.
3. `Transport`: sockets with a finite write buffer, for the sends made under a lock and the slow
   recipient of a broadcast.
4. The login of a page (`authChallenged`, `sendAuthBasic`) against `ConnManager`'s frames.
