------------------------- MODULE RoomManagerProofs -------------------------
(***************************************************************************)
(* Proofs of the safety properties of RoomManager, for any set of          *)
(* connections, rooms and channels.                                        *)
(***************************************************************************)
EXTENDS RoomManager, FiniteSetTheorems, TLAPS

(***************************************************************************)
(* client.rooms tells rooms apart by id alone: what is proved of it takes  *)
(* the ids to be distinct across the channels.  Run room_same_id shows     *)
(* that the code needs it.                                                 *)
(***************************************************************************)
DistinctIds == \A r, s \in Room : IdOf[r] = IdOf[s] => r = s

(***************************************************************************)
(* The inductive invariant.  Agreement is MembershipAgrees with the exact  *)
(* state of both records inside the two windows; RoomsExist and            *)
(* ReadyToJoin say that a room about to be joined exists and does not hold *)
(* the client, however long ago that was checked; QuitCovers that what is  *)
(* left of the snapshot taken by RoomClientQuit covers the rooms left.     *)
(***************************************************************************)
InJoinWindow(c, r) == At(c, "joinAdd") /\ joining[c] = r
InLeftWindow(c, r) == At(c, "leftDel") /\ leaving[c] = r

Agreement ==
  \A c \in Client : \A r \in Room :
    /\ InJoinWindow(c, r) => c \in members[r] /\ r \notin joined[c]
    /\ InLeftWindow(c, r) => c \notin members[r] /\ r \in joined[c]
    /\ \/ InJoinWindow(c, r)
       \/ InLeftWindow(c, r)
       \/ c \in members[r] <=> r \in joined[c]

RoomsExist == \A r \in Room \ rooms : members[r] = {}

ReadyToJoin ==
  \A c \in Client :
    \/ pc[c] \in {"createSnap", "createCast", "join"}
    \/ pc[c] \in LeftLocation /\ return[c] = "join"
    => joining[c] \in rooms /\ c \notin members[joining[c]]

QuitCovers ==
  \A c \in Client :
    /\ At(c, "quit") => joined[c] \subseteq rest[c]
    /\ pc[c] \in {"left", "leftDel"} /\ return[c] = "quit" =>
         joined[c] \subseteq rest[c] \cup {leaving[c]}
    /\ At(c, "leftCast") /\ return[c] = "quit" => joined[c] \subseteq rest[c]
    /\ pc[c] \in {"remove", "done"} => joined[c] = {}

MembershipInv == Agreement /\ RoomsExist /\ ReadyToJoin /\ QuitCovers

(***************************************************************************)
(* Two connections of one user carry the same name, and the RoomLeft of    *)
(* the one takes the other off the rosters: what is proved of the rosters  *)
(* takes the names to be distinct.                                         *)
(***************************************************************************)
DistinctNames == \A a, b \in Client : NameOf[a] = NameOf[b] => a = b

\* RoomLeft is sent by one that is out, and nobody is in before it connects.
LeaversAreOut ==
  \A c \in Client :
    /\ pc[c] \in {"leftDel", "leftCast"} => c \notin members[leaving[c]]
    /\ At(c, "new") => \A r \in Room : c \notin members[r]

RosterInv == LeaversAreOut /\ MembersAcquainted

\* The part of PublicRoomsAnnounced that the listing itself will make good.
BeingListed(r, c) ==
  \/ pc[c] \in {"list", "announce"} /\ ChannelOf[r] \in chans[c]
  \/ At(c, "announce") /\ r \in rest[c]

ListingInv ==
  \A c \in clients : \A r \in public :
    \/ r \in known[c]
    \/ ~open[c]
    \/ BeingListed(r, c)
    \/ BeingAnnounced(r, c)

(***************************************************************************)
(* How many rooms a connection is in.  A request that finds no room, or a  *)
(* number below the limit, is still right when it has joined: only the     *)
(* handler of the connection changes what rooms it is in.  A room created  *)
(* by a request is none of the initial ones, and is joined in any case.    *)
(***************************************************************************)
Switching(c) == pc[c] \in LeftLocation /\ return[c] = "join"

CreatedIsNew ==
  /\ InitialRooms \subseteq rooms
  /\ \A c \in Client : pc[c] \in {"createSnap", "createCast"} => joining[c] \in rooms \ InitialRooms

TotalKept ==
  (\A ch \in Channel : MultiRoomMode[ch] => IsLimited(ch)) /\ rooms = InitialRooms =>
    \A c \in Client :
      /\ Within(Cardinality(RoomsIn(c)))
      /\ At(c, "join") => Within(Cardinality(RoomsIn(c)) + 1)
      /\ Switching(c) => IF At(c, "left") THEN c \in members[leaving[c]]
                                          ELSE Within(Cardinality(RoomsIn(c)) + 1)

LimitKept ==
  \A c \in Client :
    /\ IsFiniteSet(RoomsIn(c))
    /\ Switching(c) => ~MultiRoomMode[ChannelOf[joining[c]]]
    /\ \A ch \in Channel : IsLimited(ch) =>
         /\ Cardinality(LimitedRooms(c, ch)) <= RoomLimit[ch]
         /\ At(c, "join") /\ joining[c] \in InitialRooms /\ ChannelOf[joining[c]] = ch =>
              Cardinality(LimitedRooms(c, ch)) < RoomLimit[ch]

CountInv == CreatedIsNew /\ TotalKept /\ LimitKept

\* A step of the handler of c that changes no room, and that is about to join
\* only what was already to be joined.
Quiet(c) ==
  /\ UNCHANGED members
  /\ UNCHANGED rooms
  /\ \A d \in Client \ {c} : UNCHANGED <<pc[d], joining[d], leaving[d], return[d]>>
  /\ pc'[c] = "join" =>
       /\ At(c, "join") \/ At(c, "createCast") \/ (At(c, "leftCast") /\ Switching(c))
       /\ UNCHANGED joining[c]
  /\ pc'[c] \in {"createSnap", "createCast"} =>
       pc[c] \in {"createSnap", "createCast"} /\ UNCHANGED joining[c]
  /\ Switching(c)' =>
       /\ Switching(c)
       /\ UNCHANGED <<joining[c], leaving[c]>>
       /\ pc'[c] = "left" <=> At(c, "left")

-----------------------------------------------------------------------------
\* Every step of a handler goroutine keeps the types.
LEMMA TypeStep == TypeOK /\ [Next]_vars => TypeOK'
<1> SUFFICES ASSUME TypeOK, [Next]_vars PROVE TypeOK'
  OBVIOUS
<1>1. ASSUME NEW c \in Client, Connect(c) PROVE TypeOK'
  BY <1>1, RoomAssumption DEF TypeOK, Location, AskLocation, JoinLocation, LeftLocation, At,
       Goto, socketVars, roomVars, lockVars, localVars, toldVars, Connect, AddClient
<1>2. ASSUME NEW c \in Client, Request(c) PROVE TypeOK'
  <2> USE RoomAssumption DEF TypeOK, Location, AskLocation, JoinLocation, LeftLocation, At,
       Goto, socketVars, roomVars, lockVars, localVars, toldVars
  <2>1. ASSUME NEW r \in Room, AskJoin(c, r) PROVE TypeOK'
    BY <2>1 DEF AskJoin
  <2>2. ASSUME NEW r \in Room, AskLeft(c, r) PROVE TypeOK'
    BY <2>2 DEF AskLeft
  <2>3. ASSUME NEW r \in Room, AskCreate(c, r) PROVE TypeOK'
    BY <2>3 DEF AskCreate
  <2> HIDE DEF TypeOK
  <2> QED
    BY <1>2, <2>1, <2>2, <2>3 DEF Request
<1>11. ASSUME NEW c \in Client, Looking(c) PROVE TypeOK'
  <2> USE RoomAssumption DEF TypeOK, Location, AskLocation, JoinLocation, LeftLocation, At,
       Goto, socketVars, roomVars, lockVars, localVars, toldVars
  <2>1. CASE JoinRequest(c)
    BY <2>1 DEF JoinRequest, MayJoin
  <2>2. ASSUME NEW s \in Room, SwitchRequest(c, s) PROVE TypeOK'
    BY <2>2 DEF SwitchRequest, MayJoin, GetRooms
  <2>3. CASE LeftRequest(c)
    BY <2>3 DEF LeftRequest
  <2>4. CASE RequestRefused(c)
    BY <2>4 DEF RequestRefused, Refused
  <2> HIDE DEF TypeOK
  <2> QED
    BY <1>11, <2>1, <2>2, <2>3, <2>4 DEF Looking
<1>3. ASSUME NEW c \in Client, Listing(c) PROVE TypeOK'
  <2> USE RoomAssumption DEF TypeOK, Location, AskLocation, JoinLocation, LeftLocation, At,
       Goto, socketVars, roomVars, lockVars, localVars, toldVars
  <2>1. ASSUME NEW ch \in Channel, ListChannel(c, ch) PROVE TypeOK'
    BY <2>1 DEF ListChannel, PublicRooms
  <2>2. ASSUME NEW r \in Room, AnnounceRoom(c, r) PROVE TypeOK'
    BY <2>2 DEF AnnounceRoom, SendCreate
  <2>3. CASE EndAnnounce(c)
    BY <2>3 DEF EndAnnounce
  <2>4. CASE StartReading(c)
    BY <2>4 DEF StartReading
  <2> HIDE DEF TypeOK
  <2> QED
    BY <1>3, <2>1, <2>2, <2>3, <2>4 DEF Listing
<1>4. ASSUME NEW c \in Client, Creating(c) PROVE TypeOK'
  <2> USE RoomAssumption DEF TypeOK, Location, AskLocation, JoinLocation, LeftLocation, At,
       Goto, socketVars, roomVars, lockVars, localVars, toldVars
  <2>1. CASE CreateSnapshot(c)
    BY <2>1 DEF CreateSnapshot, GetClients
  <2>2. ASSUME NEW d \in Client, CreateCast(c, d) PROVE TypeOK'
    BY <2>2 DEF CreateCast, SendCreate
  <2>3. CASE EndCreateCast(c)
    BY <2>3 DEF EndCreateCast
  <2>4. CASE CreateLock(c)
    BY <2>4 DEF CreateLock
  <2>5. CASE CreatePublic(c)
    BY <2>5 DEF CreatePublic, CreateRoom, CreateUnlock
  <2>6. CASE CreatePrivate(c)
    BY <2>6 DEF CreatePrivate, CreateRoom, CreateUnlock
  <2>7. CASE CreateRefused(c)
    BY <2>7 DEF CreateRefused, CreateUnlock, Refused
  <2> HIDE DEF TypeOK
  <2> QED
    BY <1>4, <2>1, <2>2, <2>3, <2>4, <2>5, <2>6, <2>7 DEF Creating
<1>5. ASSUME NEW c \in Client, Joining(c) PROVE TypeOK'
  <2> USE RoomAssumption DEF TypeOK, Location, AskLocation, JoinLocation, LeftLocation, At,
       Goto, socketVars, roomVars, lockVars, localVars, toldVars
  <2>1. CASE JoinLock(c)
    BY <2>1 DEF JoinLock, JoinClients
  <2>2. CASE JoinAddRoom(c)
    BY <2>2 DEF JoinAddRoom, StoreRoom, SameId
  <2>3. ASSUME NEW d \in Client, JoinCast(c, d) PROVE TypeOK'
    BY <2>3 DEF JoinCast, SendJoin
  <2>4. CASE EndJoinCast(c)
    BY <2>4 DEF EndJoinCast
  <2>5. ASSUME NEW d \in Client, JoinList(c, d) PROVE TypeOK'
    BY <2>5 DEF JoinList, SendJoin
  <2>6. CASE EndJoin(c)
    BY <2>6 DEF EndJoin
  <2> HIDE DEF TypeOK
  <2> QED
    BY <1>5, <2>1, <2>2, <2>3, <2>4, <2>5, <2>6 DEF Joining
<1>6. ASSUME NEW c \in Client, Leaving(c) PROVE TypeOK'
  <2> USE RoomAssumption DEF TypeOK, Location, AskLocation, JoinLocation, LeftLocation, At,
       Goto, socketVars, roomVars, lockVars, localVars, toldVars
  <2>1. CASE LeftLock(c)
    BY <2>1 DEF LeftLock
  <2>2. CASE LeftRefused(c)
    BY <2>2 DEF LeftRefused
  <2>3. CASE LeftDelRoom(c)
    BY <2>3 DEF LeftDelRoom, DeleteRoom, SameId
  <2>4. ASSUME NEW d \in Client, LeftCast(c, d) PROVE TypeOK'
    BY <2>4 DEF LeftCast, SendLeft
  <2>5. CASE EndLeft(c)
    BY <2>5 DEF EndLeft
  <2> HIDE DEF TypeOK
  <2> QED
    BY <1>6, <2>1, <2>2, <2>3, <2>4, <2>5 DEF Leaving
<1>7. ASSUME NEW c \in Client, Quitting(c) PROVE TypeOK'
  <2> USE RoomAssumption DEF TypeOK, Location, AskLocation, JoinLocation, LeftLocation, At,
       Goto, socketVars, roomVars, lockVars, localVars, toldVars
  <2>1. ASSUME NEW r \in Room, QuitRoom(c, r) PROVE TypeOK'
    BY <2>1 DEF QuitRoom
  <2>2. CASE EndQuit(c)
    BY <2>2 DEF EndQuit
  <2>3. CASE Remove(c)
    BY <2>3 DEF Remove, RemoveClient
  <2> HIDE DEF TypeOK
  <2> QED
    BY <1>7, <2>1, <2>2, <2>3 DEF Quitting
<1>8. ASSUME NEW c \in Client, ReadError(c) PROVE TypeOK'
  BY <1>8, RoomAssumption DEF TypeOK, Location, AskLocation, JoinLocation, LeftLocation, At,
       Goto, socketVars, roomVars, lockVars, localVars, toldVars, ReadError, GetRooms
<1>9. ASSUME NEW c \in Client, Disconnect(c) PROVE TypeOK'
  BY <1>9, RoomAssumption DEF TypeOK, Location, AskLocation, JoinLocation, LeftLocation, At,
       Goto, socketVars, roomVars, lockVars, localVars, toldVars, Disconnect, PeerClose
<1>10. CASE UNCHANGED vars
  BY <1>10, RoomAssumption DEF TypeOK, Location, AskLocation, JoinLocation, LeftLocation,
       At, Goto, socketVars, roomVars, lockVars, localVars, toldVars, vars
<1> QED
  BY <1>1, <1>2, <1>3, <1>4, <1>5, <1>6, <1>7, <1>8, <1>9, <1>10, <1>11 DEF Next, Run,
       Terminated

\* Every step keeps the two records of membership in agreement but for the
\* windows inside Room.Join and Room.Left, and keeps what OnRoomEvent and
\* RoomClientQuit checked true until they use it.
LEMMA MembershipStep ==
  ASSUME DistinctIds PROVE TypeOK /\ MembershipInv /\ [Next]_vars => MembershipInv'
<1> SUFFICES ASSUME TypeOK, MembershipInv, [Next]_vars PROVE MembershipInv'
  OBVIOUS
<1>1. ASSUME NEW c \in Client, Connect(c) PROVE MembershipInv'
  BY <1>1, RoomAssumption DEF MembershipInv, Agreement, RoomsExist,
       ReadyToJoin, QuitCovers, InJoinWindow, InLeftWindow, TypeOK, Location,
       LeftLocation, AskLocation, JoinLocation, At, Goto, socketVars, roomVars, lockVars, localVars,
       toldVars, Connect, AddClient
<1>2. ASSUME NEW c \in Client, Request(c) PROVE MembershipInv'
  <2> USE RoomAssumption DEF MembershipInv, Agreement, RoomsExist, ReadyToJoin,
       QuitCovers, InJoinWindow, InLeftWindow, TypeOK, Location, LeftLocation,
       AskLocation, JoinLocation, At, Goto, socketVars, roomVars, lockVars, localVars, toldVars
  <2>1. ASSUME NEW r \in Room, AskJoin(c, r) PROVE MembershipInv'
    BY <2>1 DEF AskJoin
  <2>2. ASSUME NEW r \in Room, AskLeft(c, r) PROVE MembershipInv'
    BY <2>2 DEF AskLeft
  <2>3. ASSUME NEW r \in Room, AskCreate(c, r) PROVE MembershipInv'
    BY <2>3 DEF AskCreate
  <2> HIDE DEF TypeOK, MembershipInv
  <2> QED
    BY <1>2, <2>1, <2>2, <2>3 DEF Request
<1>11. ASSUME NEW c \in Client, Looking(c) PROVE MembershipInv'
  <2> USE RoomAssumption DEF MembershipInv, Agreement, RoomsExist, ReadyToJoin,
       QuitCovers, InJoinWindow, InLeftWindow, TypeOK, Location, LeftLocation,
       AskLocation, JoinLocation, At, Goto, socketVars, roomVars, lockVars, localVars, toldVars
  <2>1. CASE JoinRequest(c)
    BY <2>1 DEF JoinRequest, MayJoin
  <2>2. ASSUME NEW s \in Room, SwitchRequest(c, s) PROVE MembershipInv'
    BY <2>2 DEF SwitchRequest, MayJoin, GetRooms
  <2>3. CASE LeftRequest(c)
    BY <2>3 DEF LeftRequest
  <2>4. CASE RequestRefused(c)
    BY <2>4 DEF RequestRefused, Refused
  <2> HIDE DEF TypeOK, MembershipInv
  <2> QED
    BY <1>11, <2>1, <2>2, <2>3, <2>4 DEF Looking
<1>3. ASSUME NEW c \in Client, Listing(c) PROVE MembershipInv'
  <2> USE RoomAssumption DEF MembershipInv, Agreement, RoomsExist, ReadyToJoin,
       QuitCovers, InJoinWindow, InLeftWindow, TypeOK, Location, LeftLocation,
       AskLocation, JoinLocation, At, Goto, socketVars, roomVars, lockVars, localVars, toldVars
  <2>1. ASSUME NEW ch \in Channel, ListChannel(c, ch) PROVE MembershipInv'
    BY <2>1 DEF ListChannel, PublicRooms
  <2>2. ASSUME NEW r \in Room, AnnounceRoom(c, r) PROVE MembershipInv'
    BY <2>2 DEF AnnounceRoom, SendCreate
  <2>3. CASE EndAnnounce(c)
    BY <2>3 DEF EndAnnounce
  <2>4. CASE StartReading(c)
    BY <2>4 DEF StartReading
  <2> HIDE DEF TypeOK, MembershipInv
  <2> QED
    BY <1>3, <2>1, <2>2, <2>3, <2>4 DEF Listing
<1>4. ASSUME NEW c \in Client, Creating(c) PROVE MembershipInv'
  <2> USE RoomAssumption DEF MembershipInv, Agreement, RoomsExist, ReadyToJoin,
       QuitCovers, InJoinWindow, InLeftWindow, TypeOK, Location, LeftLocation,
       AskLocation, JoinLocation, At, Goto, socketVars, roomVars, lockVars, localVars, toldVars
  <2>1. CASE CreateSnapshot(c)
    BY <2>1 DEF CreateSnapshot, GetClients
  <2>2. ASSUME NEW d \in Client, CreateCast(c, d) PROVE MembershipInv'
    BY <2>2 DEF CreateCast, SendCreate
  <2>3. CASE EndCreateCast(c)
    BY <2>3 DEF EndCreateCast
  <2>4. CASE CreateLock(c)
    BY <2>4 DEF CreateLock
  <2>5. CASE CreatePublic(c)
    BY <2>5 DEF CreatePublic, CreateRoom, CreateUnlock
  <2>6. CASE CreatePrivate(c)
    BY <2>6 DEF CreatePrivate, CreateRoom, CreateUnlock
  <2>7. CASE CreateRefused(c)
    BY <2>7 DEF CreateRefused, CreateUnlock, Refused
  <2> HIDE DEF TypeOK, MembershipInv
  <2> QED
    BY <1>4, <2>1, <2>2, <2>3, <2>4, <2>5, <2>6, <2>7 DEF Creating
<1>5. ASSUME NEW c \in Client, Joining(c) PROVE MembershipInv'
  <2> USE RoomAssumption DEF MembershipInv, Agreement, RoomsExist, ReadyToJoin,
       QuitCovers, InJoinWindow, InLeftWindow, TypeOK, Location, LeftLocation,
       AskLocation, JoinLocation, At, Goto, socketVars, roomVars, lockVars, localVars, toldVars
  <2>1. CASE JoinLock(c)
    BY <2>1 DEF JoinLock, JoinClients
  <2>2. CASE JoinAddRoom(c)
    <3>1. joining[c] \in Room /\ joined[c] \in SUBSET Room
      BY <2>2 DEF JoinAddRoom
    <3>2. StoreRoom(joined[c], joining[c]) = joined[c] \cup {joining[c]}
      BY <3>1 DEF DistinctIds, StoreRoom, SameId
    <3> QED
      BY <2>2, <3>1, <3>2 DEF JoinAddRoom
  <2>3. ASSUME NEW d \in Client, JoinCast(c, d) PROVE MembershipInv'
    BY <2>3 DEF JoinCast, SendJoin
  <2>4. CASE EndJoinCast(c)
    BY <2>4 DEF EndJoinCast
  <2>5. ASSUME NEW d \in Client, JoinList(c, d) PROVE MembershipInv'
    BY <2>5 DEF JoinList, SendJoin
  <2>6. CASE EndJoin(c)
    BY <2>6 DEF EndJoin
  <2> HIDE DEF TypeOK, MembershipInv
  <2> QED
    BY <1>5, <2>1, <2>2, <2>3, <2>4, <2>5, <2>6 DEF Joining
<1>6. ASSUME NEW c \in Client, Leaving(c) PROVE MembershipInv'
  <2> USE RoomAssumption DEF MembershipInv, Agreement, RoomsExist, ReadyToJoin,
       QuitCovers, InJoinWindow, InLeftWindow, TypeOK, Location, LeftLocation,
       AskLocation, JoinLocation, At, Goto, socketVars, roomVars, lockVars, localVars, toldVars
  <2>1. CASE LeftLock(c)
    BY <2>1 DEF LeftLock
  <2>2. CASE LeftRefused(c)
    BY <2>2 DEF LeftRefused
  <2>3. CASE LeftDelRoom(c)
    <3>1. leaving[c] \in Room /\ joined[c] \in SUBSET Room
      BY <2>3 DEF LeftDelRoom
    <3>2. DeleteRoom(joined[c], leaving[c]) = joined[c] \ {leaving[c]}
      BY <3>1 DEF DistinctIds, DeleteRoom, SameId
    <3> QED
      BY <2>3, <3>1, <3>2 DEF LeftDelRoom
  <2>4. ASSUME NEW d \in Client, LeftCast(c, d) PROVE MembershipInv'
    BY <2>4 DEF LeftCast, SendLeft
  <2>5. CASE EndLeft(c)
    BY <2>5 DEF EndLeft
  <2> HIDE DEF TypeOK, MembershipInv
  <2> QED
    BY <1>6, <2>1, <2>2, <2>3, <2>4, <2>5 DEF Leaving
<1>7. ASSUME NEW c \in Client, Quitting(c) PROVE MembershipInv'
  <2> USE RoomAssumption DEF MembershipInv, Agreement, RoomsExist, ReadyToJoin,
       QuitCovers, InJoinWindow, InLeftWindow, TypeOK, Location, LeftLocation,
       AskLocation, JoinLocation, At, Goto, socketVars, roomVars, lockVars, localVars, toldVars
  <2>1. ASSUME NEW r \in Room, QuitRoom(c, r) PROVE MembershipInv'
    BY <2>1 DEF QuitRoom
  <2>2. CASE EndQuit(c)
    BY <2>2 DEF EndQuit
  <2>3. CASE Remove(c)
    BY <2>3 DEF Remove, RemoveClient
  <2> HIDE DEF TypeOK, MembershipInv
  <2> QED
    BY <1>7, <2>1, <2>2, <2>3 DEF Quitting
<1>8. ASSUME NEW c \in Client, ReadError(c) PROVE MembershipInv'
  BY <1>8, RoomAssumption DEF MembershipInv, Agreement, RoomsExist,
       ReadyToJoin, QuitCovers, InJoinWindow, InLeftWindow, TypeOK, Location,
       LeftLocation, AskLocation, JoinLocation, At, Goto, socketVars, roomVars, lockVars, localVars,
       toldVars, ReadError, GetRooms
<1>9. ASSUME NEW c \in Client, Disconnect(c) PROVE MembershipInv'
  BY <1>9, RoomAssumption DEF MembershipInv, Agreement, RoomsExist,
       ReadyToJoin, QuitCovers, InJoinWindow, InLeftWindow, TypeOK, Location,
       LeftLocation, AskLocation, JoinLocation, At, Goto, socketVars, roomVars, lockVars, localVars,
       toldVars, Disconnect, PeerClose
<1>10. CASE UNCHANGED vars
  BY <1>10, RoomAssumption DEF MembershipInv, Agreement, RoomsExist,
       ReadyToJoin, QuitCovers, InJoinWindow, InLeftWindow, TypeOK, Location,
       LeftLocation, AskLocation, JoinLocation, At, Goto, socketVars, roomVars, lockVars, localVars,
       toldVars, vars
<1> QED
  BY <1>1, <1>2, <1>3, <1>4, <1>5, <1>6, <1>7, <1>8, <1>9, <1>10, <1>11 DEF Next, Run,
       Terminated

\* Every step keeps the members of a room acquainted: of two clients that join,
\* the one whose critical section is second tells and is told of the other.
LEMMA RosterStep ==
  ASSUME DistinctNames PROVE TypeOK /\ RosterInv /\ [Next]_vars => RosterInv'
<1> SUFFICES ASSUME TypeOK, RosterInv, [Next]_vars PROVE RosterInv'
  OBVIOUS
<1>1. ASSUME NEW c \in Client, Connect(c) PROVE RosterInv'
  BY <1>1, RoomAssumption DEF RosterInv, LeaversAreOut, MembersAcquainted,
       TellingOthers, BeingTold, TypeOK, Location, LeftLocation, AskLocation, JoinLocation,
       At, Goto, socketVars, roomVars, lockVars, localVars, toldVars, Connect, AddClient
<1>2. ASSUME NEW c \in Client, Request(c) PROVE RosterInv'
  <2> USE RoomAssumption DEF RosterInv, LeaversAreOut, MembersAcquainted,
       TellingOthers, BeingTold, TypeOK, Location, LeftLocation, AskLocation, JoinLocation,
       At, Goto, socketVars, roomVars, lockVars, localVars, toldVars
  <2>1. ASSUME NEW r \in Room, AskJoin(c, r) PROVE RosterInv'
    BY <2>1 DEF AskJoin
  <2>2. ASSUME NEW r \in Room, AskLeft(c, r) PROVE RosterInv'
    BY <2>2 DEF AskLeft
  <2>3. ASSUME NEW r \in Room, AskCreate(c, r) PROVE RosterInv'
    BY <2>3 DEF AskCreate
  <2> HIDE DEF TypeOK, RosterInv
  <2> QED
    BY <1>2, <2>1, <2>2, <2>3 DEF Request
<1>11. ASSUME NEW c \in Client, Looking(c) PROVE RosterInv'
  <2> USE RoomAssumption DEF RosterInv, LeaversAreOut, MembersAcquainted,
       TellingOthers, BeingTold, TypeOK, Location, LeftLocation, AskLocation, JoinLocation,
       At, Goto, socketVars, roomVars, lockVars, localVars, toldVars
  <2>1. CASE JoinRequest(c)
    BY <2>1 DEF JoinRequest, MayJoin
  <2>2. ASSUME NEW s \in Room, SwitchRequest(c, s) PROVE RosterInv'
    BY <2>2 DEF SwitchRequest, MayJoin, GetRooms
  <2>3. CASE LeftRequest(c)
    BY <2>3 DEF LeftRequest
  <2>4. CASE RequestRefused(c)
    BY <2>4 DEF RequestRefused, Refused
  <2> HIDE DEF TypeOK, RosterInv
  <2> QED
    BY <1>11, <2>1, <2>2, <2>3, <2>4 DEF Looking
<1>3. ASSUME NEW c \in Client, Listing(c) PROVE RosterInv'
  <2> USE RoomAssumption DEF RosterInv, LeaversAreOut, MembersAcquainted,
       TellingOthers, BeingTold, TypeOK, Location, LeftLocation, AskLocation, JoinLocation,
       At, Goto, socketVars, roomVars, lockVars, localVars, toldVars
  <2>1. ASSUME NEW ch \in Channel, ListChannel(c, ch) PROVE RosterInv'
    BY <2>1 DEF ListChannel, PublicRooms
  <2>2. ASSUME NEW r \in Room, AnnounceRoom(c, r) PROVE RosterInv'
    BY <2>2 DEF AnnounceRoom, SendCreate
  <2>3. CASE EndAnnounce(c)
    BY <2>3 DEF EndAnnounce
  <2>4. CASE StartReading(c)
    BY <2>4 DEF StartReading
  <2> HIDE DEF TypeOK, RosterInv
  <2> QED
    BY <1>3, <2>1, <2>2, <2>3, <2>4 DEF Listing
<1>4. ASSUME NEW c \in Client, Creating(c) PROVE RosterInv'
  <2> USE RoomAssumption DEF RosterInv, LeaversAreOut, MembersAcquainted,
       TellingOthers, BeingTold, TypeOK, Location, LeftLocation, AskLocation, JoinLocation,
       At, Goto, socketVars, roomVars, lockVars, localVars, toldVars
  <2>1. CASE CreateSnapshot(c)
    BY <2>1 DEF CreateSnapshot, GetClients
  <2>2. ASSUME NEW d \in Client, CreateCast(c, d) PROVE RosterInv'
    BY <2>2 DEF CreateCast, SendCreate
  <2>3. CASE EndCreateCast(c)
    BY <2>3 DEF EndCreateCast
  <2>4. CASE CreateLock(c)
    BY <2>4 DEF CreateLock
  <2>5. CASE CreatePublic(c)
    BY <2>5 DEF CreatePublic, CreateRoom, CreateUnlock
  <2>6. CASE CreatePrivate(c)
    BY <2>6 DEF CreatePrivate, CreateRoom, CreateUnlock
  <2>7. CASE CreateRefused(c)
    BY <2>7 DEF CreateRefused, CreateUnlock, Refused
  <2> HIDE DEF TypeOK, RosterInv
  <2> QED
    BY <1>4, <2>1, <2>2, <2>3, <2>4, <2>5, <2>6, <2>7 DEF Creating
<1>5. ASSUME NEW c \in Client, Joining(c) PROVE RosterInv'
  <2> USE RoomAssumption DEF RosterInv, LeaversAreOut, MembersAcquainted,
       TellingOthers, BeingTold, TypeOK, Location, LeftLocation, AskLocation, JoinLocation,
       At, Goto, socketVars, roomVars, lockVars, localVars, toldVars
  <2>1. CASE JoinLock(c)
    BY <2>1 DEF JoinLock, JoinClients
  <2>2. CASE JoinAddRoom(c)
    BY <2>2 DEF JoinAddRoom, StoreRoom, SameId
  <2>3. ASSUME NEW d \in Client, JoinCast(c, d) PROVE RosterInv'
    BY <2>3 DEF JoinCast, SendJoin
  <2>4. CASE EndJoinCast(c)
    BY <2>4 DEF EndJoinCast
  <2>5. ASSUME NEW d \in Client, JoinList(c, d) PROVE RosterInv'
    BY <2>5 DEF JoinList, SendJoin
  <2>6. CASE EndJoin(c)
    BY <2>6 DEF EndJoin
  <2> HIDE DEF TypeOK, RosterInv
  <2> QED
    BY <1>5, <2>1, <2>2, <2>3, <2>4, <2>5, <2>6 DEF Joining
<1>6. ASSUME NEW c \in Client, Leaving(c) PROVE RosterInv'
  <2> USE RoomAssumption DEF RosterInv, LeaversAreOut, MembersAcquainted,
       TellingOthers, BeingTold, TypeOK, Location, LeftLocation, AskLocation, JoinLocation,
       At, Goto, socketVars, roomVars, lockVars, localVars, toldVars
  <2>1. CASE LeftLock(c)
    BY <2>1 DEF LeftLock
  <2>2. CASE LeftRefused(c)
    BY <2>2 DEF LeftRefused
  <2>3. CASE LeftDelRoom(c)
    BY <2>3 DEF LeftDelRoom, DeleteRoom, SameId
  <2>4. ASSUME NEW d \in Client, LeftCast(c, d) PROVE RosterInv'
    BY <2>4 DEF LeftCast, SendLeft, DistinctNames
  <2>5. CASE EndLeft(c)
    BY <2>5 DEF EndLeft
  <2> HIDE DEF TypeOK, RosterInv
  <2> QED
    BY <1>6, <2>1, <2>2, <2>3, <2>4, <2>5 DEF Leaving
<1>7. ASSUME NEW c \in Client, Quitting(c) PROVE RosterInv'
  <2> USE RoomAssumption DEF RosterInv, LeaversAreOut, MembersAcquainted,
       TellingOthers, BeingTold, TypeOK, Location, LeftLocation, AskLocation, JoinLocation,
       At, Goto, socketVars, roomVars, lockVars, localVars, toldVars
  <2>1. ASSUME NEW r \in Room, QuitRoom(c, r) PROVE RosterInv'
    BY <2>1 DEF QuitRoom
  <2>2. CASE EndQuit(c)
    BY <2>2 DEF EndQuit
  <2>3. CASE Remove(c)
    BY <2>3 DEF Remove, RemoveClient
  <2> HIDE DEF TypeOK, RosterInv
  <2> QED
    BY <1>7, <2>1, <2>2, <2>3 DEF Quitting
<1>8. ASSUME NEW c \in Client, ReadError(c) PROVE RosterInv'
  BY <1>8, RoomAssumption DEF RosterInv, LeaversAreOut, MembersAcquainted,
       TellingOthers, BeingTold, TypeOK, Location, LeftLocation, AskLocation, JoinLocation,
       At, Goto, socketVars, roomVars, lockVars, localVars, toldVars, ReadError, GetRooms
<1>9. ASSUME NEW c \in Client, Disconnect(c) PROVE RosterInv'
  BY <1>9, RoomAssumption DEF RosterInv, LeaversAreOut, MembersAcquainted,
       TellingOthers, BeingTold, TypeOK, Location, LeftLocation, AskLocation, JoinLocation,
       At, Goto, socketVars, roomVars, lockVars, localVars, toldVars, Disconnect,
       PeerClose
<1>10. CASE UNCHANGED vars
  BY <1>10, RoomAssumption DEF RosterInv, LeaversAreOut, MembersAcquainted,
       TellingOthers, BeingTold, TypeOK, Location, LeftLocation, AskLocation, JoinLocation,
       At, Goto, socketVars, roomVars, lockVars, localVars, toldVars, vars
<1> QED
  BY <1>1, <1>2, <1>3, <1>4, <1>5, <1>6, <1>7, <1>8, <1>9, <1>10, <1>11 DEF Next, Run,
       Terminated

\* Every step keeps the public rooms announced or about to be: SendPublicRooms
\* reads the rooms after the connection is registered, and the broadcast of a
\* RoomCreate reads the registry after the room is stored.
LEMMA ListingStep == TypeOK /\ ListingInv /\ [Next]_vars => ListingInv'
<1> SUFFICES ASSUME TypeOK, ListingInv, [Next]_vars PROVE ListingInv'
  OBVIOUS
<1>0. \A r \in Room : ChannelOf[r] \in Channel
  BY RoomAssumption
<1>1. ASSUME NEW c \in Client, Connect(c) PROVE ListingInv'
  BY <1>1, <1>0 DEF ListingInv, BeingListed, BeingAnnounced, TypeOK,
       Location, LeftLocation, AskLocation, JoinLocation, At, Goto, socketVars, roomVars, lockVars,
       localVars, toldVars, Connect, AddClient
<1>2. ASSUME NEW c \in Client, Request(c) PROVE ListingInv'
  <2> USE <1>0 DEF ListingInv, BeingListed, BeingAnnounced, TypeOK,
       Location, LeftLocation, AskLocation, JoinLocation, At, Goto, socketVars, roomVars, lockVars,
       localVars, toldVars
  <2>1. ASSUME NEW r \in Room, AskJoin(c, r) PROVE ListingInv'
    BY <2>1 DEF AskJoin
  <2>2. ASSUME NEW r \in Room, AskLeft(c, r) PROVE ListingInv'
    BY <2>2 DEF AskLeft
  <2>3. ASSUME NEW r \in Room, AskCreate(c, r) PROVE ListingInv'
    BY <2>3 DEF AskCreate
  <2> HIDE DEF TypeOK, ListingInv
  <2> QED
    BY <1>2, <2>1, <2>2, <2>3 DEF Request
<1>11. ASSUME NEW c \in Client, Looking(c) PROVE ListingInv'
  <2> USE <1>0 DEF ListingInv, BeingListed, BeingAnnounced, TypeOK,
       Location, LeftLocation, AskLocation, JoinLocation, At, Goto, socketVars, roomVars, lockVars,
       localVars, toldVars
  <2>1. CASE JoinRequest(c)
    BY <2>1 DEF JoinRequest, MayJoin
  <2>2. ASSUME NEW s \in Room, SwitchRequest(c, s) PROVE ListingInv'
    BY <2>2 DEF SwitchRequest, MayJoin, GetRooms
  <2>3. CASE LeftRequest(c)
    BY <2>3 DEF LeftRequest
  <2>4. CASE RequestRefused(c)
    BY <2>4 DEF RequestRefused, Refused
  <2> HIDE DEF TypeOK, ListingInv
  <2> QED
    BY <1>11, <2>1, <2>2, <2>3, <2>4 DEF Looking
<1>3. ASSUME NEW c \in Client, Listing(c) PROVE ListingInv'
  <2> USE <1>0 DEF ListingInv, BeingListed, BeingAnnounced, TypeOK,
       Location, LeftLocation, AskLocation, JoinLocation, At, Goto, socketVars, roomVars, lockVars,
       localVars, toldVars
  <2>1. ASSUME NEW ch \in Channel, ListChannel(c, ch) PROVE ListingInv'
    BY <2>1 DEF ListChannel, PublicRooms
  <2>2. ASSUME NEW r \in Room, AnnounceRoom(c, r) PROVE ListingInv'
    BY <2>2 DEF AnnounceRoom, SendCreate
  <2>3. CASE EndAnnounce(c)
    BY <2>3 DEF EndAnnounce
  <2>4. CASE StartReading(c)
    BY <2>4 DEF StartReading
  <2> HIDE DEF TypeOK, ListingInv
  <2> QED
    BY <1>3, <2>1, <2>2, <2>3, <2>4 DEF Listing
<1>4. ASSUME NEW c \in Client, Creating(c) PROVE ListingInv'
  <2> USE <1>0 DEF ListingInv, BeingListed, BeingAnnounced, TypeOK,
       Location, LeftLocation, AskLocation, JoinLocation, At, Goto, socketVars, roomVars, lockVars,
       localVars, toldVars
  <2>1. CASE CreateSnapshot(c)
    BY <2>1 DEF CreateSnapshot, GetClients
  <2>2. ASSUME NEW d \in Client, CreateCast(c, d) PROVE ListingInv'
    BY <2>2 DEF CreateCast, SendCreate
  <2>3. CASE EndCreateCast(c)
    BY <2>3 DEF EndCreateCast
  <2>4. CASE CreateLock(c)
    BY <2>4 DEF CreateLock
  <2>5. CASE CreatePublic(c)
    BY <2>5 DEF CreatePublic, CreateRoom, CreateUnlock
  <2>6. CASE CreatePrivate(c)
    BY <2>6 DEF CreatePrivate, CreateRoom, CreateUnlock
  <2>7. CASE CreateRefused(c)
    BY <2>7 DEF CreateRefused, CreateUnlock, Refused
  <2> HIDE DEF TypeOK, ListingInv
  <2> QED
    BY <1>4, <2>1, <2>2, <2>3, <2>4, <2>5, <2>6, <2>7 DEF Creating
<1>5. ASSUME NEW c \in Client, Joining(c) PROVE ListingInv'
  <2> USE <1>0 DEF ListingInv, BeingListed, BeingAnnounced, TypeOK,
       Location, LeftLocation, AskLocation, JoinLocation, At, Goto, socketVars, roomVars, lockVars,
       localVars, toldVars
  <2>1. CASE JoinLock(c)
    BY <2>1 DEF JoinLock, JoinClients
  <2>2. CASE JoinAddRoom(c)
    BY <2>2 DEF JoinAddRoom, StoreRoom, SameId
  <2>3. ASSUME NEW d \in Client, JoinCast(c, d) PROVE ListingInv'
    BY <2>3 DEF JoinCast, SendJoin
  <2>4. CASE EndJoinCast(c)
    BY <2>4 DEF EndJoinCast
  <2>5. ASSUME NEW d \in Client, JoinList(c, d) PROVE ListingInv'
    BY <2>5 DEF JoinList, SendJoin
  <2>6. CASE EndJoin(c)
    BY <2>6 DEF EndJoin
  <2> HIDE DEF TypeOK, ListingInv
  <2> QED
    BY <1>5, <2>1, <2>2, <2>3, <2>4, <2>5, <2>6 DEF Joining
<1>6. ASSUME NEW c \in Client, Leaving(c) PROVE ListingInv'
  <2> USE <1>0 DEF ListingInv, BeingListed, BeingAnnounced, TypeOK,
       Location, LeftLocation, AskLocation, JoinLocation, At, Goto, socketVars, roomVars, lockVars,
       localVars, toldVars
  <2>1. CASE LeftLock(c)
    BY <2>1 DEF LeftLock
  <2>2. CASE LeftRefused(c)
    BY <2>2 DEF LeftRefused
  <2>3. CASE LeftDelRoom(c)
    BY <2>3 DEF LeftDelRoom, DeleteRoom, SameId
  <2>4. ASSUME NEW d \in Client, LeftCast(c, d) PROVE ListingInv'
    BY <2>4 DEF LeftCast, SendLeft
  <2>5. CASE EndLeft(c)
    BY <2>5 DEF EndLeft
  <2> HIDE DEF TypeOK, ListingInv
  <2> QED
    BY <1>6, <2>1, <2>2, <2>3, <2>4, <2>5 DEF Leaving
<1>7. ASSUME NEW c \in Client, Quitting(c) PROVE ListingInv'
  <2> USE <1>0 DEF ListingInv, BeingListed, BeingAnnounced, TypeOK,
       Location, LeftLocation, AskLocation, JoinLocation, At, Goto, socketVars, roomVars, lockVars,
       localVars, toldVars
  <2>1. ASSUME NEW r \in Room, QuitRoom(c, r) PROVE ListingInv'
    BY <2>1 DEF QuitRoom
  <2>2. CASE EndQuit(c)
    BY <2>2 DEF EndQuit
  <2>3. CASE Remove(c)
    BY <2>3 DEF Remove, RemoveClient
  <2> HIDE DEF TypeOK, ListingInv
  <2> QED
    BY <1>7, <2>1, <2>2, <2>3 DEF Quitting
<1>8. ASSUME NEW c \in Client, ReadError(c) PROVE ListingInv'
  BY <1>8, <1>0 DEF ListingInv, BeingListed, BeingAnnounced, TypeOK,
       Location, LeftLocation, AskLocation, JoinLocation, At, Goto, socketVars, roomVars, lockVars,
       localVars, toldVars, ReadError, GetRooms
<1>9. ASSUME NEW c \in Client, Disconnect(c) PROVE ListingInv'
  BY <1>9, <1>0 DEF ListingInv, BeingListed, BeingAnnounced, TypeOK,
       Location, LeftLocation, AskLocation, JoinLocation, At, Goto, socketVars, roomVars, lockVars,
       localVars, toldVars, Disconnect, PeerClose
<1>10. CASE UNCHANGED vars
  BY <1>10, <1>0 DEF ListingInv, BeingListed, BeingAnnounced, TypeOK,
       Location, LeftLocation, AskLocation, JoinLocation, At, Goto, socketVars, roomVars, lockVars,
       localVars, toldVars, vars
<1> QED
  BY <1>1, <1>2, <1>3, <1>4, <1>5, <1>6, <1>7, <1>8, <1>9, <1>10, <1>11 DEF Next, Run,
       Terminated

\* What is in few rooms is in as few of a channel.
LEMMA FewRooms ==
  ASSUME NEW c, IsFiniteSet(RoomsIn(c)), NEW ch
  PROVE  /\ IsFiniteSet(LimitedRooms(c, ch))
         /\ Cardinality(LimitedRooms(c, ch)) \in Nat
         /\ Cardinality(RoomsIn(c)) \in Nat
         /\ Cardinality(LimitedRooms(c, ch)) <= Cardinality(RoomsIn(c))
<1>1. LimitedRooms(c, ch) \in SUBSET RoomsIn(c)
  BY DEF LimitedRooms
<1> QED
  BY <1>1, FS_Subset, FS_CardinalityType

\* Whoever is within the limits stays so with fewer rooms.
LEMMA WithinFewer ==
  ASSUME NEW m \in Nat, NEW n \in Nat, n <= m, Within(m)
  PROVE  Within(n)
<1>1. \A ch \in Channel : RoomLimit[ch] \in Nat
  BY RoomAssumption
<1> QED
  BY <1>1 DEF Within

\* Such a step keeps the count.
LEMMA QuietCount ==
  ASSUME TypeOK, MembershipInv, CountInv, NEW c \in Client, Quiet(c)
  PROVE  CountInv'
<1> USE DEF CountInv, Quiet
<1>0. /\ UNCHANGED <<members, rooms>>
      /\ \A d \in Client \ {c} : UNCHANGED <<pc[d], joining[d], leaving[d], return[d]>>
  OBVIOUS
<1>1. CreatedIsNew'
  BY <1>0 DEF CreatedIsNew
<1>2. TotalKept'
  <2>1. \A d \in Client : RoomsIn(d)' = RoomsIn(d)
    BY <1>0 DEF RoomsIn
  <2> QED
    BY <1>0, <2>1 DEF TotalKept, CreatedIsNew, Switching, At, LeftLocation
<1>3. LimitKept'
  <2>1. ASSUME NEW d \in Client
        PROVE  RoomsIn(d)' = RoomsIn(d) /\ \A ch \in Channel : LimitedRooms(d, ch)' = LimitedRooms(d, ch)
    BY <1>0 DEF RoomsIn, LimitedRooms
  <2> USE DEF LimitKept, Switching, At
  <2>2. ASSUME NEW d \in Client PROVE IsFiniteSet(RoomsIn(d)')
    BY <2>1
  <2>3. ASSUME NEW d \in Client, Switching(d)' PROVE ~MultiRoomMode[ChannelOf[joining'[d]]]
    <3>1. Switching(d) /\ joining'[d] = joining[d]
      BY <2>3, <1>0
    <3> QED
      BY <3>1
  <2>4. ASSUME NEW d \in Client, NEW ch \in Channel, IsLimited(ch)
        PROVE  Cardinality(LimitedRooms(d, ch)') <= RoomLimit[ch]
    BY <2>1, <2>4
  <2>5. ASSUME NEW d \in Client, NEW ch \in Channel, IsLimited(ch),
               pc'[d] = "join", joining'[d] \in InitialRooms, ChannelOf[joining'[d]] = ch
        PROVE  Cardinality(LimitedRooms(d, ch)') < RoomLimit[ch]
    <3>1. joining'[d] = joining[d]
      BY <2>5, <1>0
    <3>2. At(d, "join")
      BY <2>5, <1>0, <3>1 DEF CreatedIsNew, IsLimited
    <3> QED
      BY <2>5, <3>1, <3>2, <2>1
  <2> QED
    BY <2>2, <2>3, <2>4, <2>5
<1> QED
  BY <1>1, <1>2, <1>3

\* What a handler does but for the critical sections changes no room it is in.
LEMMA RunIsQuiet ==
  ASSUME TypeOK, NEW c \in Client
  PROVE  Connect(c) \/ Request(c) \/ Listing(c) \/ Quitting(c) \/ ReadError(c) \/ Disconnect(c)
           => Quiet(c)
<1> USE DEF Quiet, Switching, TypeOK, LeftLocation, At, Goto, socketVars, roomVars, lockVars,
        localVars, toldVars
<1>1. Connect(c) => Quiet(c)
  BY DEF Connect
<1>2. Listing(c) => Quiet(c)
  BY DEF Listing, ListChannel, AnnounceRoom, EndAnnounce, StartReading
<1>3. Request(c) => Quiet(c)
  BY DEF Request, AskJoin, AskLeft, AskCreate
<1>4. Quitting(c) => Quiet(c)
  BY DEF Quitting, QuitRoom, EndQuit, Remove
<1>5. ReadError(c) => Quiet(c)
  BY DEF ReadError
<1>6. Disconnect(c) => Quiet(c)
  BY DEF Disconnect, PeerClose
<1> HIDE DEF Quiet
<1> QED
  BY <1>1, <1>2, <1>3, <1>4, <1>5, <1>6

\* While a room is created, only rm.Create changes what rooms there are.
LEMMA CreatingIsQuiet ==
  ASSUME TypeOK, NEW c \in Client, Creating(c)
  PROVE  CreatePublic(c) \/ CreatePrivate(c) \/ Quiet(c)
BY DEF Quiet, Switching, TypeOK, LeftLocation, At, Goto, socketVars, roomVars, lockVars, localVars,
       toldVars, Creating, CreateLock, CreateRefused, CreateUnlock, Refused, CreateSnapshot,
       CreateCast, EndCreateCast

\* Inside Room.Join, only the critical section changes a room.
LEMMA JoiningIsQuiet ==
  ASSUME TypeOK, NEW c \in Client, Joining(c)
  PROVE  JoinLock(c) \/ Quiet(c)
BY DEF Quiet, Switching, TypeOK, LeftLocation, At, Goto, socketVars, roomVars, lockVars, localVars,
       toldVars, Joining, JoinAddRoom, JoinCast, EndJoinCast, JoinList, EndJoin

\* So it is inside Room.Left.
LEMMA LeavingIsQuiet ==
  ASSUME TypeOK, NEW c \in Client, Leaving(c)
  PROVE  LeftLock(c) \/ Quiet(c)
BY DEF Quiet, Switching, TypeOK, LeftLocation, At, Goto, socketVars, roomVars, lockVars, localVars,
       toldVars, Leaving, LeftRefused, LeftDelRoom, LeftCast, EndLeft

\* When a request is looked at client.rooms holds the rooms the client is in.
LEMMA RoomsAtAsk ==
  ASSUME TypeOK, MembershipInv, NEW c \in Client, At(c, "joinAsk")
  PROVE  GetRooms(c) = RoomsIn(c)
BY DEF MembershipInv, Agreement, InJoinWindow, InLeftWindow, TypeOK, At, GetRooms, RoomsIn

\* The request itself: what it found of the rooms is what the next step needs.
LEMMA RequestCount ==
  ASSUME TypeOK, MembershipInv, CountInv, NEW c \in Client,
         Looking(c) \/ CreatePublic(c) \/ CreatePrivate(c)
  PROVE  CountInv'
<1> USE DEF CountInv, TypeOK, At, Goto, roomVars, lockVars, localVars, toldVars
<1>0. RoomLimit \in [Channel -> Nat] /\ ChannelOf \in [Room -> Channel] /\ InitialRooms \subseteq Room
  BY RoomAssumption
<1>1. /\ UNCHANGED members
      /\ \A d \in Client \ {c} : UNCHANGED <<pc[d], joining[d], leaving[d], return[d]>>
  BY DEF Looking, JoinRequest, SwitchRequest, LeftRequest, RequestRefused, Refused,
         CreatePublic, CreatePrivate, CreateRoom
<1>2. At(c, "joinAsk") => GetRooms(c) = RoomsIn(c)
  BY RoomsAtAsk
<1>3. ASSUME NEW d \in Client
      PROVE  RoomsIn(d)' = RoomsIn(d) /\ \A ch \in Channel : LimitedRooms(d, ch)' = LimitedRooms(d, ch)
  BY <1>1 DEF RoomsIn, LimitedRooms
<1>4. ASSUME JoinRequest(c) PROVE CountInv'
  <2> USE <1>4 DEF JoinRequest, MayJoin
  <2> DEFINE r == joining[c]
  <2>0. r \in Room
    BY DEF AskLocation
  <2>1. CreatedIsNew'
    BY DEF CreatedIsNew
  <2>2. /\ IsFiniteSet(RoomsIn(c)) /\ Cardinality(RoomsIn(c)) \in Nat
        /\ RoomLimit[ChannelOf[r]] \in Nat
    BY <1>0, FewRooms DEF LimitKept
  <2>3. ASSUME IsLimited(ChannelOf[r])
        PROVE  /\ Cardinality(RoomsIn(c)) < RoomLimit[ChannelOf[r]]
               /\ Cardinality(LimitedRooms(c, ChannelOf[r])) < RoomLimit[ChannelOf[r]]
    <3>1. ~(Cardinality(RoomsIn(c)) >= RoomLimit[ChannelOf[r]])
      BY <1>2, <2>3 DEF LimitReached, IsLimited
    <3> QED
      BY <2>2, <3>1, FewRooms
  <2>5. TotalKept'
    <3>1. ASSUME ~MultiRoomMode[ChannelOf[r]] PROVE Within(Cardinality(RoomsIn(c)) + 1)
      <4>1. Cardinality(RoomsIn(c)) = 0
        BY <1>2, <3>1, FS_EmptySet DEF MustLeave
      <4> QED
        BY <4>1 DEF Within
    <3>2. ASSUME IsLimited(ChannelOf[r]) PROVE Within(Cardinality(RoomsIn(c)) + 1)
      <4>1. Cardinality(RoomsIn(c)) + 1 <= RoomLimit[ChannelOf[r]]
        BY <2>2, <2>3, <3>2
      <4> QED
        BY <1>0, <3>2, <4>1 DEF Within
    <3> QED
      BY <1>0, <1>1, <1>3, <3>1, <3>2 DEF TotalKept, Switching, LeftLocation
  <2>4. LimitKept'
    BY <1>1, <1>3, <2>3 DEF LimitKept, Switching, LeftLocation
  <2> QED
    BY <2>1, <2>4, <2>5
<1>5. ASSUME NEW s \in Room, SwitchRequest(c, s) PROVE CountInv'
  <2> USE <1>5 DEF SwitchRequest, MayJoin
  <2>1. CreatedIsNew'
    BY DEF CreatedIsNew
  <2>2. TotalKept'
    <3>1. c \in members[s]
      BY <1>2 DEF RoomsIn
    <3> QED
      BY <1>1, <1>3, <3>1 DEF TotalKept, Switching, LeftLocation
  <2>3. LimitKept'
    BY <1>1, <1>3 DEF LimitKept, Switching, LeftLocation, MustLeave
  <2> QED
    BY <2>1, <2>2, <2>3
<1>6. ASSUME LeftRequest(c) \/ RequestRefused(c) PROVE CountInv'
  <2>1. Quiet(c)
    BY <1>6 DEF LeftRequest, RequestRefused, Refused, Quiet, Switching, LeftLocation
  <2> QED
    BY <2>1, QuietCount
<1>7. ASSUME CreatePublic(c) \/ CreatePrivate(c) PROVE CountInv'
  <2> USE <1>7 DEF CreatePublic, CreatePrivate, CreateRoom
  <2>1. CreatedIsNew'
    BY DEF CreatedIsNew, AskLocation
  <2>2. TotalKept'
    BY DEF TotalKept, CreatedIsNew
  <2>3. LimitKept'
    BY <1>1, <1>3 DEF LimitKept, Switching, LeftLocation
  <2> QED
    BY <2>1, <2>2, <2>3
<1> QED
  BY <1>4, <1>5, <1>6, <1>7 DEF Looking

\* The critical section of Room.Join: there was place for one more.
LEMMA JoinCount ==
  ASSUME TypeOK, CountInv, NEW c \in Client, JoinLock(c)
  PROVE  CountInv'
<1> USE DEF CountInv, TypeOK, At, Goto, JoinLock
<1>0. RoomLimit \in [Channel -> Nat] /\ ChannelOf \in [Room -> Channel] /\ InitialRooms \subseteq Room
  BY RoomAssumption
<1> DEFINE r == joining[c]
<1>1. /\ r \in Room
      /\ members' = [members EXCEPT ![r] = @ \cup {c}]
      /\ pc[c] = "join" /\ pc'[c] = "joinAdd"
      /\ UNCHANGED <<rooms, joining, leaving, return>>
      /\ \A d \in Client \ {c} : pc'[d] = pc[d]
  BY DEF AskLocation, JoinLocation
<1>2. CreatedIsNew'
  BY <1>1 DEF CreatedIsNew
<1>3. /\ RoomsIn(c)' = RoomsIn(c) \cup {r} /\ r \notin RoomsIn(c)
      /\ \A d \in Client \ {c} : RoomsIn(d)' = RoomsIn(d)
  BY <1>1 DEF RoomsIn
<1>5. TotalKept'
  <2>1. IsFiniteSet(RoomsIn(c))
    BY DEF LimitKept
  <2>2. Cardinality(RoomsIn(c) \cup {r}) = Cardinality(RoomsIn(c)) + 1
    <3> HIDE DEF r
    <3> QED
      BY <1>3, <2>1, FS_AddElement
  <2>3. Cardinality(RoomsIn(c)') = Cardinality(RoomsIn(c)) + 1
    BY <1>3, <2>2
  <2>4. ASSUME NEW d \in Client \ {c}
        PROVE  /\ pc'[d] = pc[d] /\ Cardinality(RoomsIn(d)') = Cardinality(RoomsIn(d))
               /\ d \in members'[leaving[d]] <=> d \in members[leaving[d]]
    BY <1>1, <1>3
  <2>5. pc'[c] \notin {"join", "left"} /\ ~Switching(c)'
    BY <1>1 DEF Switching, LeftLocation
  <2> QED
    BY <1>1, <2>3, <2>4, <2>5 DEF TotalKept, Switching
<1>4. LimitKept'
  <2>1. RoomsIn(c)' = RoomsIn(c) \cup {r}
    BY <1>3
  <2>2. ASSUME NEW ch \in Channel
        PROVE  LimitedRooms(c, ch)' = IF r \in InitialRooms /\ ChannelOf[r] = ch
                                        THEN LimitedRooms(c, ch) \cup {r} ELSE LimitedRooms(c, ch)
    BY <2>1 DEF LimitedRooms
  <2>3. IsFiniteSet(RoomsIn(c))
    BY DEF LimitKept
  <2>4. IsFiniteSet(RoomsIn(c)')
    <3>1. IsFiniteSet(RoomsIn(c) \cup {r})
      <4> HIDE DEF r
      <4> QED
        BY <2>3, FS_AddElement
    <3> QED
      BY <2>1, <3>1
  <2>5. ASSUME NEW ch \in Channel, IsLimited(ch)
        PROVE  Cardinality(LimitedRooms(c, ch)') <= RoomLimit[ch]
    <3>1. RoomLimit[ch] \in Nat
      BY <1>0
    <3>2. /\ IsFiniteSet(LimitedRooms(c, ch))
          /\ Cardinality(LimitedRooms(c, ch)) \in Nat
      BY <2>3, FewRooms
    <3>3. Cardinality(LimitedRooms(c, ch)) <= RoomLimit[ch]
      BY <2>5 DEF LimitKept
    <3>4. CASE r \in InitialRooms /\ ChannelOf[r] = ch
      <4>1. Cardinality(LimitedRooms(c, ch)) < RoomLimit[ch]
        BY <2>5, <3>4, <1>1 DEF LimitKept
      <4>2. /\ IsFiniteSet(LimitedRooms(c, ch) \cup {r})
            /\ Cardinality(LimitedRooms(c, ch) \cup {r}) =
                 IF r \in LimitedRooms(c, ch) THEN Cardinality(LimitedRooms(c, ch))
                                               ELSE Cardinality(LimitedRooms(c, ch)) + 1
        <5> HIDE DEF r
        <5> QED
          BY <3>2, FS_AddElement
      <4>3. LimitedRooms(c, ch)' = LimitedRooms(c, ch) \cup {r}
        BY <2>2, <3>4
      <4> QED
        BY <3>1, <3>2, <4>1, <4>2, <4>3
    <3>5. CASE ~(r \in InitialRooms /\ ChannelOf[r] = ch)
      BY <3>3, <3>5, <2>2
    <3> QED
      BY <3>4, <3>5
  <2>6. ASSUME NEW d \in Client \ {c}
        PROVE  RoomsIn(d)' = RoomsIn(d) /\ \A ch \in Channel : LimitedRooms(d, ch)' = LimitedRooms(d, ch)
    BY <1>1 DEF RoomsIn, LimitedRooms
  <2> QED
    BY <1>1, <2>4, <2>5, <2>6 DEF LimitKept, Switching, LeftLocation
<1> QED
  BY <1>2, <1>4, <1>5

\* The critical section of Room.Left: one room less.
LEMMA LeftCount ==
  ASSUME TypeOK, CountInv, NEW c \in Client, LeftLock(c)
  PROVE  CountInv'
<1> USE DEF CountInv, TypeOK, At, Goto, LeftLock
<1>0. RoomLimit \in [Channel -> Nat]
  BY RoomAssumption
<1> DEFINE r == leaving[c]
<1>1. /\ r \in Room
      /\ members' = [members EXCEPT ![r] = @ \ {c}]
      /\ pc[c] = "left" /\ pc'[c] = "leftDel"
      /\ UNCHANGED <<rooms, joining, leaving, return>>
      /\ \A d \in Client \ {c} : pc'[d] = pc[d]
  BY DEF LeftLocation
<1>2. CreatedIsNew'
  BY <1>1 DEF CreatedIsNew
<1>3. /\ RoomsIn(c)' = RoomsIn(c) \ {r} /\ r \in RoomsIn(c)
      /\ \A d \in Client \ {c} : RoomsIn(d)' = RoomsIn(d)
  BY <1>1 DEF RoomsIn
<1>5. TotalKept'
  <2>1. IsFiniteSet(RoomsIn(c)) /\ Cardinality(RoomsIn(c)) \in Nat
    BY FewRooms DEF LimitKept
  <2>2. Cardinality(RoomsIn(c) \ {r}) = Cardinality(RoomsIn(c)) - 1
    <3> HIDE DEF r
    <3> QED
      BY <1>3, <2>1, FS_RemoveElement
  <2>3. IsFiniteSet(RoomsIn(c) \ {r})
    <3> HIDE DEF r
    <3> QED
      BY <2>1, FS_RemoveElement
  <2>4. Cardinality(RoomsIn(c) \ {r}) \in Nat
    BY <2>3, FS_CardinalityType
  <2>5. /\ Cardinality(RoomsIn(c)') \in Nat
        /\ Cardinality(RoomsIn(c)') + 1 = Cardinality(RoomsIn(c))
    BY <1>3, <2>1, <2>2, <2>4
  <2>6. Within(Cardinality(RoomsIn(c))) => Within(Cardinality(RoomsIn(c)'))
    BY <2>1, <2>5, WithinFewer
  <2>7. ASSUME NEW d \in Client \ {c}
        PROVE  /\ pc'[d] = pc[d] /\ Cardinality(RoomsIn(d)') = Cardinality(RoomsIn(d))
               /\ d \in members'[leaving[d]] <=> d \in members[leaving[d]]
    BY <1>1, <1>3
  <2>8. pc'[c] \notin {"join", "left"} /\ (Switching(c)' => Switching(c))
    BY <1>1 DEF Switching, LeftLocation
  <2> QED
    BY <1>1, <2>5, <2>6, <2>7, <2>8 DEF TotalKept, Switching
<1>4. LimitKept'
  <2>1. RoomsIn(c)' \subseteq RoomsIn(c)
    BY <1>3
  <2>2. IsFiniteSet(RoomsIn(c)) /\ IsFiniteSet(RoomsIn(c)')
    BY <2>1, FS_Subset DEF LimitKept
  <2>3. ASSUME NEW ch \in Channel, IsLimited(ch)
        PROVE  Cardinality(LimitedRooms(c, ch)') <= RoomLimit[ch]
    <3>1. RoomLimit[ch] \in Nat
      BY <1>0
    <3>2. IsFiniteSet(LimitedRooms(c, ch)) /\ Cardinality(LimitedRooms(c, ch)) \in Nat
      BY <2>2, FewRooms
    <3>3. LimitedRooms(c, ch)' \in SUBSET LimitedRooms(c, ch)
      BY <2>1 DEF LimitedRooms
    <3>4. /\ Cardinality(LimitedRooms(c, ch)') <= Cardinality(LimitedRooms(c, ch))
          /\ Cardinality(LimitedRooms(c, ch)') \in Nat
      BY <3>2, <3>3, FS_Subset, FS_CardinalityType
    <3>5. Cardinality(LimitedRooms(c, ch)) <= RoomLimit[ch]
      BY <2>3 DEF LimitKept
    <3> QED
      BY <3>1, <3>2, <3>4, <3>5
  <2>4. ASSUME NEW d \in Client \ {c}
        PROVE  RoomsIn(d)' = RoomsIn(d) /\ \A ch \in Channel : LimitedRooms(d, ch)' = LimitedRooms(d, ch)
    BY <1>1 DEF RoomsIn, LimitedRooms
  <2> QED
    BY <1>1, <2>2, <2>3, <2>4 DEF LimitKept, Switching, LeftLocation
<1> QED
  BY <1>2, <1>4, <1>5

\* Every step keeps the count.
LEMMA CountStep == TypeOK /\ MembershipInv /\ CountInv /\ [Next]_vars => CountInv'
<1> SUFFICES ASSUME TypeOK, MembershipInv, CountInv, [Next]_vars PROVE CountInv'
  OBVIOUS
<1>1. CASE UNCHANGED vars
  BY <1>1 DEF CountInv, CreatedIsNew, TotalKept, LimitKept, RoomsIn, LimitedRooms, Switching,
       At, vars, socketVars, roomVars, lockVars, localVars
<1>2. ASSUME NEW c \in Client,
             Connect(c) \/ Request(c) \/ Run(c) \/ ReadError(c) \/ Disconnect(c)
      PROVE  CountInv'
  BY <1>2, RequestCount, JoinCount, LeftCount, QuietCount, RunIsQuiet, CreatingIsQuiet,
     JoiningIsQuiet, LeavingIsQuiet DEF Run
<1> QED
  BY <1>1, <1>2 DEF Next, Terminated

-----------------------------------------------------------------------------
\* Every location of the handler finds the room that the code there uses.
THEOREM TypeCorrect == Spec => []TypeOK
<1>1. Init => TypeOK
  BY RoomAssumption DEF Init, TypeOK, Location, AskLocation, JoinLocation, LeftLocation, At
<1> QED
  BY <1>1, TypeStep, PTL DEF Spec

\* The inductive invariant of the membership holds in every state.
THEOREM MembershipInvariant == ASSUME DistinctIds PROVE Spec => []MembershipInv
<1>1. Init => MembershipInv
  BY RoomAssumption DEF Init, MembershipInv, Agreement, RoomsExist, ReadyToJoin,
     QuitCovers, InJoinWindow, InLeftWindow, LeftLocation, At
<1> QED
  BY <1>1, MembershipStep, TypeCorrect, PTL DEF Spec

\* r.clientsMap and client.rooms (room.go:37-118, eddwise.go:96-102) agree but
\* inside the windows of Join and Left, for rooms of distinct ids.
THEOREM MembershipAgreement == ASSUME DistinctIds PROVE Spec => []MembershipAgrees
<1>1. MembershipInv => MembershipAgrees
  BY DEF MembershipInv, Agreement, InJoinWindow, InLeftWindow, MembershipAgrees
<1> QED
  BY <1>1, MembershipInvariant, PTL

\* RoomClientQuit leaves every room the connection is in (eddwise.go:367), for
\* rooms of distinct ids.
THEOREM QuitLeaves == ASSUME DistinctIds PROVE Spec => []QuitLeavesAllRooms
<1>1. MembershipInv => QuitLeavesAllRooms
  BY DEF MembershipInv, Agreement, InJoinWindow, InLeftWindow, QuitCovers,
     QuitLeavesAllRooms, At
<1> QED
  BY <1>1, MembershipInvariant, PTL

\* Members of a room know of each other (Room.Join, room.go:37-85), when no two
\* connections have the same name.
THEOREM Acquaintance == ASSUME DistinctNames PROVE Spec => []MembersAcquainted
<1>1. Init => RosterInv
  BY RoomAssumption DEF Init, RosterInv, LeaversAreOut, MembersAcquainted, At
<1>2. RosterInv => MembersAcquainted
  BY DEF RosterInv
<1> QED
  BY <1>1, <1>2, RosterStep, TypeCorrect, PTL DEF Spec

\* Every registered connection learns of every public room, created before or
\* after it was listed to (room.go:213, 242).
THEOREM Announcement == Spec => []PublicRoomsAnnounced
<1>1. Init => ListingInv
  BY DEF Init, ListingInv
<1>2. ListingInv => PublicRoomsAnnounced
  BY DEF ListingInv, BeingListed, PublicRoomsAnnounced, At
<1> QED
  BY <1>1, <1>2, ListingStep, TypeCorrect, PTL DEF Spec

\* The limit of SetRoomsPerUserLimit and single-room mode (room.go:142-191) bound
\* the rooms a connection is in: what a request found when it asked is still so
\* when it has joined.
THEOREM RoomsLimited == ASSUME DistinctIds PROVE Spec => []RoomsPerUser
<1>1. Init => CountInv
  <2> SUFFICES ASSUME Init PROVE CountInv
    OBVIOUS
  <2>1. \A c \in Client : RoomsIn(c) = {} /\ \A ch \in Channel : LimitedRooms(c, ch) = {}
    BY DEF Init, RoomsIn, LimitedRooms
  <2>2. RoomLimit \in [Channel -> Nat]
    BY RoomAssumption
  <2>3. CreatedIsNew
    BY DEF Init, CreatedIsNew
  <2>5. TotalKept
    <3>1. \A c \in Client : Cardinality(RoomsIn(c)) = 0
      BY <2>1, FS_EmptySet
    <3>2. \A c \in Client : ~At(c, "join") /\ ~Switching(c)
      BY DEF Init, Switching, LeftLocation, At
    <3> QED
      BY <3>1, <3>2 DEF TotalKept, Within
  <2>4. LimitKept
    <3>1. Cardinality({}) = 0 /\ IsFiniteSet({})
      BY FS_EmptySet
    <3>2. \A c \in Client : ~At(c, "join") /\ ~Switching(c)
      BY DEF Init, Switching, LeftLocation, At
    <3>3. ASSUME NEW c \in Client, NEW ch \in Channel
          PROVE  Cardinality(LimitedRooms(c, ch)) <= RoomLimit[ch]
      BY <2>1, <2>2, <3>1
    <3> QED
      BY <2>1, <3>1, <3>2, <3>3 DEF LimitKept
  <2> QED
    BY <2>3, <2>4, <2>5 DEF CountInv
<1>2. CountInv => RoomsPerUser
  BY DEF CountInv, TotalKept, LimitKept, RoomsPerUser
<1> QED
  BY <1>1, <1>2, CountStep, MembershipInvariant, TypeCorrect, PTL DEF Spec

-----------------------------------------------------------------------------
(***************************************************************************)
(* What a handler relies on between the critical sections of Room.Join and *)
(* Room.Left: the room it joins exists, and what it tells of itself stays  *)
(* true while it tells it.  It asks nothing of the ids and of the names.   *)
(***************************************************************************)
JoinersAreIn ==
  \A c \in Client : pc[c] \in {"joinAdd", "joinCast", "joinList"} => c \in members[joining[c]]

NewcomersAreDown == \A c \in Client : At(c, "new") => ~open[c]

PlaceInv == RoomsExist /\ ReadyToJoin /\ LeaversAreOut /\ JoinersAreIn /\ NewcomersAreDown

\* A room is looked up, joined and left by handlers that run at the same time.
LEMMA PlaceStep == TypeOK /\ PlaceInv /\ [Next]_vars => PlaceInv'
<1> SUFFICES ASSUME TypeOK, PlaceInv, [Next]_vars PROVE PlaceInv'
  OBVIOUS
<1> USE DEF PlaceInv, RoomsExist, ReadyToJoin, LeaversAreOut, JoinersAreIn,
        NewcomersAreDown, TypeOK, LeftLocation, AskLocation, JoinLocation, At, Goto, socketVars, roomVars, lockVars,
        localVars, toldVars
<1>1. ASSUME NEW c \in Client, Connect(c) \/ ReadError(c) \/ Disconnect(c) PROVE PlaceInv'
  <2>1. CASE Connect(c)
    BY <2>1 DEF Connect
  <2>2. CASE ReadError(c)
    BY <2>2 DEF ReadError
  <2>3. CASE Disconnect(c)
    BY <2>3 DEF Disconnect, PeerClose
  <2> HIDE DEF PlaceInv
  <2> QED
    BY <1>1, <2>1, <2>2, <2>3
<1>2. ASSUME NEW c \in Client, Request(c) \/ Looking(c) PROVE PlaceInv'
  <2>1. CASE Request(c)
    BY <2>1 DEF Request, AskJoin, AskLeft, AskCreate
  <2>2. CASE JoinRequest(c)
    BY <2>2 DEF JoinRequest, MayJoin
  <2>3. ASSUME NEW s \in Room, SwitchRequest(c, s) PROVE PlaceInv'
    BY <2>3 DEF SwitchRequest, MayJoin
  <2>4. CASE LeftRequest(c) \/ RequestRefused(c)
    BY <2>4 DEF LeftRequest, RequestRefused, Refused
  <2> HIDE DEF PlaceInv
  <2> QED
    BY <1>2, <2>1, <2>2, <2>3, <2>4 DEF Looking
<1>3. ASSUME NEW c \in Client, Listing(c) \/ Creating(c) \/ Quitting(c) PROVE PlaceInv'
  <2>1. CASE Listing(c)
    BY <2>1 DEF Listing, ListChannel, AnnounceRoom, EndAnnounce, StartReading
  <2>2. CASE CreatePublic(c) \/ CreatePrivate(c)
    BY <2>2 DEF CreatePublic, CreatePrivate, CreateRoom
  <2>3. CASE CreateLock(c) \/ CreateRefused(c)
    BY <2>3 DEF CreateLock, CreateRefused, Refused
  <2>4. CASE CreateSnapshot(c) \/ EndCreateCast(c)
    BY <2>4 DEF CreateSnapshot, EndCreateCast
  <2>5. ASSUME NEW d \in Client, CreateCast(c, d) PROVE PlaceInv'
    BY <2>5 DEF CreateCast
  <2>6. ASSUME NEW r \in Room, QuitRoom(c, r) PROVE PlaceInv'
    BY <2>6 DEF QuitRoom
  <2>7. CASE EndQuit(c) \/ Remove(c)
    BY <2>7 DEF EndQuit, Remove
  <2> HIDE DEF PlaceInv, TypeOK
  <2> QED
    BY <1>3, <2>1, <2>2, <2>3, <2>4, <2>5, <2>6, <2>7 DEF Creating, Quitting
<1>4. ASSUME NEW c \in Client, Joining(c) PROVE PlaceInv'
  <2>1. CASE JoinLock(c)
    BY <2>1 DEF JoinLock
  <2>2. CASE JoinAddRoom(c) \/ EndJoinCast(c) \/ EndJoin(c)
    BY <2>2 DEF JoinAddRoom, EndJoinCast, EndJoin
  <2>3. ASSUME NEW d \in Client, JoinCast(c, d) \/ JoinList(c, d) PROVE PlaceInv'
    BY <2>3 DEF JoinCast, JoinList
  <2> HIDE DEF PlaceInv
  <2> QED
    BY <1>4, <2>1, <2>2, <2>3 DEF Joining
<1>5. ASSUME NEW c \in Client, Leaving(c) PROVE PlaceInv'
  <2>1. CASE LeftLock(c)
    BY <2>1 DEF LeftLock
  <2>2. CASE LeftRefused(c) \/ LeftDelRoom(c) \/ EndLeft(c)
    BY <2>2 DEF LeftRefused, LeftDelRoom, EndLeft
  <2>3. ASSUME NEW d \in Client, LeftCast(c, d) PROVE PlaceInv'
    BY <2>3 DEF LeftCast
  <2> HIDE DEF PlaceInv
  <2> QED
    BY <1>5, <2>1, <2>2, <2>3 DEF Leaving
<1>6. CASE UNCHANGED vars
  BY <1>6 DEF vars
<1> HIDE DEF PlaceInv
<1> QED
  BY <1>1, <1>2, <1>3, <1>4, <1>5, <1>6 DEF Next, Run, Terminated

\* What a handler relies on between two critical sections holds in every state.
THEOREM PlaceInvariant == Spec => []PlaceInv
<1>1. Init => PlaceInv
  BY DEF Init, PlaceInv, RoomsExist, ReadyToJoin, LeaversAreOut, JoinersAreIn, NewcomersAreDown,
     LeftLocation, At
<1> QED
  BY <1>1, PlaceStep, TypeCorrect, PTL DEF Spec

\* room.Join never refuses a client that OnRoomEvent let through, although the
\* lock was released in between (room.go:178-194).
THEOREM JoinsAreAccepted == Spec => []JoinNeverRefused
<1>1. PlaceInv => JoinNeverRefused
  BY DEF PlaceInv, ReadyToJoin, JoinNeverRefused, At
<1> QED
  BY <1>1, PlaceInvariant, PTL

-----------------------------------------------------------------------------
(***************************************************************************)
(* The directory as RoomDirectory sees it.                                 *)
(***************************************************************************)
Changes == [c \in Client |-> ChangeOf(c)]
Tellings == [c \in Client |-> ToTell(c)]
Hearings == [c \in Client |-> ToHear(c)]

\* A step of the handler of c changes what is seen of c alone.
OfOne(c) ==
  \A d \in Client \ {c} : UNCHANGED <<pc[d], joining[d], leaving[d], snapshot[d], todo[d]>>

\* What is seen of c follows the locals of its handler.
LEMMA ViewOfOne ==
  ASSUME NEW c \in Client, OfOne(c)
  PROVE  /\ Changes' = [Changes EXCEPT ![c] = ChangeOf(c)']
         /\ Tellings' = [Tellings EXCEPT ![c] = ToTell(c)']
         /\ Hearings' = [Hearings EXCEPT ![c] = ToHear(c)']
         /\ Changes[c] = ChangeOf(c) /\ Tellings[c] = ToTell(c) /\ Hearings[c] = ToHear(c)
         /\ ChangeOf(c)' = ChangeOf(c) => Changes' = Changes
         /\ ToTell(c)' = ToTell(c) => Tellings' = Tellings
         /\ ToHear(c)' = ToHear(c) => Hearings' = Hearings
<1> USE DEF Changes, Tellings, Hearings
<1>1. \A d \in Client \ {c} : /\ ChangeOf(d)' = ChangeOf(d)
                             /\ ToTell(d)' = ToTell(d)
                             /\ ToHear(d)' = ToHear(d)
  BY DEF OfOne, ChangeOf, ToTell, ToHear, At
<1>2. /\ Changes' = [Changes EXCEPT ![c] = ChangeOf(c)']
      /\ Tellings' = [Tellings EXCEPT ![c] = ToTell(c)']
      /\ Hearings' = [Hearings EXCEPT ![c] = ToHear(c)']
  BY <1>1
<1>3. ASSUME ChangeOf(c)' = ChangeOf(c) PROVE Changes' = Changes
  BY <1>1, <1>3
<1>4. ASSUME ToTell(c)' = ToTell(c) PROVE Tellings' = Tellings
  BY <1>1, <1>4
<1>5. ASSUME ToHear(c)' = ToHear(c) PROVE Hearings' = Hearings
  BY <1>1, <1>5
<1> QED
  BY <1>2, <1>3, <1>4, <1>5

\* When that stays the same, so does the directory.
LEMMA SameView ==
  ASSUME NEW c \in Client, OfOne(c), UNCHANGED <<open, rooms, members, roster>>,
         ChangeOf(c)' = ChangeOf(c), ToTell(c)' = ToTell(c), ToHear(c)' = ToHear(c)
  PROVE  UNCHANGED Directory!vars
<1>1. UNCHANGED <<Changes, Tellings, Hearings>>
  BY ViewOfOne
<1> QED
  BY <1>1 DEF Directory!vars, Changes, Tellings, Hearings

\* What a handler does between two critical sections and two notices.
LEMMA SilentStep ==
  ASSUME TypeOK, NEW c \in Client,
         \/ Request(c) \/ Looking(c) \/ Listing(c) \/ Quitting(c) \/ ReadError(c)
         \/ Creating(c) /\ ~CreatePublic(c) /\ ~CreatePrivate(c)
         \/ JoinAddRoom(c) \/ EndJoinCast(c) \/ LeftRefused(c) \/ LeftDelRoom(c)
  PROVE  UNCHANGED Directory!vars
<1> DEFINE Kept == /\ OfOne(c)
                   /\ UNCHANGED <<open, rooms, members, roster>>
                   /\ ChangeOf(c)' = ChangeOf(c)
                   /\ ToTell(c)' = ToTell(c)
                   /\ ToHear(c)' = ToHear(c)
<1> USE DEF OfOne, ChangeOf, ToTell, ToHear, TypeOK, At, Goto, socketVars, roomVars, lockVars, localVars,
        toldVars
<1>1. ASSUME Listing(c) PROVE Kept
  BY <1>1 DEF Listing, ListChannel, AnnounceRoom, EndAnnounce, StartReading, SendCreate
<1>2. ASSUME Creating(c) /\ ~CreatePublic(c) /\ ~CreatePrivate(c) PROVE Kept
  BY <1>2 DEF Creating, CreateLock, CreateRefused, Refused, CreateSnapshot, CreateCast,
       EndCreateCast, SendCreate
<1>3. ASSUME Quitting(c) \/ ReadError(c) PROVE Kept
  BY <1>3 DEF Quitting, QuitRoom, EndQuit, Remove, ReadError
<1>4. ASSUME JoinAddRoom(c) \/ EndJoinCast(c) PROVE Kept
  BY <1>4 DEF JoinAddRoom, EndJoinCast
<1>5. ASSUME LeftRefused(c) \/ LeftDelRoom(c) PROVE Kept
  BY <1>5 DEF LeftRefused, LeftDelRoom
<1>6. ASSUME Request(c) PROVE Kept
  BY <1>6 DEF Request, AskJoin, AskLeft, AskCreate
<1>7. ASSUME Looking(c) PROVE Kept
  BY <1>7 DEF Looking, JoinRequest, SwitchRequest, LeftRequest, RequestRefused, Refused
<1> HIDE DEF Kept
<1>8. Kept
  BY <1>1, <1>2, <1>3, <1>4, <1>5, <1>6, <1>7
<1> HIDE DEF OfOne, ChangeOf, ToTell, ToHear
<1> QED
  BY <1>8, SameView DEF Kept

\* The critical sections: c enters a room, or leaves one.
LEMMA ChangeStep ==
  ASSUME TypeOK, PlaceInv, NEW c \in Client
  PROVE  /\ JoinLock(c) => Directory!Enter(c, joining[c])
         /\ LeftLock(c) => Directory!Exit(c, leaving[c])
<1> USE DEF At, Goto, TypeOK, PlaceInv
<1>1. ASSUME JoinLock(c) PROVE Directory!Enter(c, joining[c])
  <2>1. OfOne(c) /\ joining[c] \in rooms /\ joining[c] \in Room
    BY <1>1 DEF JoinLock, OfOne, ReadyToJoin
  <2>2. /\ ChangeOf(c) = NoRoom /\ ToTell(c) = {} /\ ToHear(c) = {}
        /\ ChangeOf(c)' = joining[c]
        /\ ToTell(c)' = members[joining[c]] \cup {c}
        /\ ToHear(c)' = members[joining[c]]
    BY <1>1, <2>1 DEF JoinLock, JoinClients, ChangeOf, ToTell, ToHear
  <2>3. /\ Changes' = [Changes EXCEPT ![c] = joining[c]]
        /\ Tellings' = [Tellings EXCEPT ![c] = members[joining[c]] \cup {c}]
        /\ Hearings' = [Hearings EXCEPT ![c] = members[joining[c]]]
    BY <2>1, <2>2, ViewOfOne
  <2>4. Changes[c] = NoRoom
    BY <2>2 DEF Changes
  <2> QED
    BY <1>1, <2>1, <2>3, <2>4 DEF JoinLock, toldVars, Directory!Enter, Changes, Tellings, Hearings
<1>2. ASSUME LeftLock(c) PROVE Directory!Exit(c, leaving[c])
  <2>1. OfOne(c) /\ leaving[c] \in Room
    BY <1>2 DEF LeftLock, OfOne, LeftLocation
  <2>2. /\ ChangeOf(c) = NoRoom /\ ToHear(c) = {}
        /\ ChangeOf(c)' = leaving[c]
        /\ ToTell(c)' = members[leaving[c]]
        /\ ToHear(c)' = {}
    BY <1>2, <2>1 DEF LeftLock, ChangeOf, ToTell, ToHear
  <2>3. /\ Changes' = [Changes EXCEPT ![c] = leaving[c]]
        /\ Tellings' = [Tellings EXCEPT ![c] = members[leaving[c]]]
        /\ Hearings' = Hearings
    BY <2>1, <2>2, ViewOfOne
  <2>4. Changes[c] = NoRoom
    BY <2>2 DEF Changes
  <2> QED
    BY <1>2, <2>1, <2>3, <2>4 DEF LeftLock, toldVars, Directory!Exit, Changes, Tellings, Hearings
<1> QED
  BY <1>1, <1>2

\* A notice about c says whether c is in the room.
LEMMA TellNotice ==
  ASSUME TypeOK, PlaceInv, NEW c \in Client, NEW d \in Client
  PROVE  JoinCast(c, d) \/ LeftCast(c, d) => Directory!Tell(c, d)
<1> USE DEF At, TypeOK, PlaceInv
<1> SUFFICES ASSUME JoinCast(c, d) \/ LeftCast(c, d) PROVE Directory!Tell(c, d)
  OBVIOUS
<1>1. OfOne(c)
  BY DEF JoinCast, LeftCast, OfOne, socketVars
<1>2. /\ d \in ToTell(c)
      /\ ChangeOf(c)' = ChangeOf(c) /\ ToTell(c)' = ToTell(c) \ {d} /\ ToHear(c)' = ToHear(c)
  BY DEF JoinCast, LeftCast, ChangeOf, ToTell, ToHear, socketVars
<1>3. /\ Changes' = Changes
      /\ Tellings' = [Tellings EXCEPT ![c] = @ \ {d}]
      /\ Hearings' = Hearings
      /\ d \in Tellings[c]
  BY <1>1, <1>2, ViewOfOne
<1>4. roster' = IF open[d] THEN [roster EXCEPT ![d] = Directory!Told(c, d)] ELSE roster
  <2>1. ASSUME JoinCast(c, d) PROVE c \in members[ChangeOf(c)] /\ ChangeOf(c) = joining[c]
    BY <2>1 DEF JoinCast, JoinersAreIn, ChangeOf
  <2>2. ASSUME LeftCast(c, d) PROVE c \notin members[ChangeOf(c)] /\ ChangeOf(c) = leaving[c]
    BY <2>2 DEF LeftCast, LeaversAreOut, ChangeOf
  <2>3. Changes[c] = ChangeOf(c)
    BY DEF Changes
  <2>4. CASE JoinCast(c, d)
    BY <2>1, <2>3, <2>4 DEF JoinCast, SendJoin, Directory!Told, Changes
  <2>5. CASE LeftCast(c, d)
    BY <2>2, <2>3, <2>5 DEF LeftCast, SendLeft, Directory!Told, Changes
  <2> QED
    BY <2>4, <2>5
<1> QED
  BY <1>3, <1>4 DEF JoinCast, LeftCast, socketVars, roomVars, lockVars, Directory!Tell, Changes, Tellings,
     Hearings

\* A newcomer hears of those it found.
LEMMA HearNotice ==
  ASSUME TypeOK, PlaceInv, NEW c \in Client, NEW d \in Client, JoinList(c, d)
  PROVE  Directory!Hear(c, d)
<1> USE DEF At, TypeOK, PlaceInv, JoinList
<1>1. OfOne(c)
  BY DEF OfOne, socketVars
<1>2. /\ d \in ToHear(c) /\ ChangeOf(c) = joining[c] /\ c \in members[joining[c]]
      /\ ChangeOf(c)' = ChangeOf(c) /\ ToTell(c)' = ToTell(c) /\ ToHear(c)' = ToHear(c) \ {d}
  BY DEF ChangeOf, ToTell, ToHear, JoinersAreIn, socketVars
<1>3. /\ Changes' = Changes /\ Changes[c] = joining[c]
      /\ Tellings' = Tellings
      /\ Hearings' = [Hearings EXCEPT ![c] = @ \ {d}]
      /\ d \in Hearings[c]
  BY <1>1, <1>2, ViewOfOne
<1> QED
  BY <1>2, <1>3 DEF SendJoin, socketVars, roomVars, lockVars, Directory!Hear, Changes, Tellings, Hearings

\* When all has been told, c may enter or leave another.
LEMMA SettleStep ==
  ASSUME TypeOK, NEW c \in Client, EndJoin(c) \/ EndLeft(c)
  PROVE  Directory!Settle(c)
<1> USE DEF At, Goto, TypeOK, EndJoin, EndLeft
<1>1. OfOne(c)
  BY DEF OfOne
<1>2. /\ ToTell(c) = {} /\ ToHear(c) = {} /\ ChangeOf(c) # NoRoom
      /\ ChangeOf(c)' = NoRoom /\ ToTell(c)' = {} /\ ToHear(c)' = {}
  <2>1. CASE EndJoin(c)
    BY <2>1, RoomAssumption DEF ChangeOf, ToTell, ToHear, JoinLocation
  <2>2. CASE EndLeft(c)
    <3>1. pc'[c] \in {"read", "join", "quit"}
      BY <2>2
    <3>2. leaving[c] \in Room
      BY <2>2 DEF LeftLocation
    <3> QED
      BY <2>2, <3>1, <3>2, RoomAssumption DEF ChangeOf, ToTell, ToHear
  <2> QED
    BY <2>1, <2>2
<1>3. /\ Changes' = [Changes EXCEPT ![c] = NoRoom] /\ Changes[c] # NoRoom
      /\ Tellings' = Tellings /\ Tellings[c] = {}
      /\ Hearings' = Hearings /\ Hearings[c] = {}
  BY <1>1, <1>2, ViewOfOne
<1> QED
  BY <1>3 DEF roomVars, lockVars, toldVars, Directory!Settle, Changes, Tellings, Hearings

\* The environment: browsers come and go, and ask for new rooms.
LEMMA ArrivalStep ==
  ASSUME TypeOK, PlaceInv, NEW c \in Client
  PROVE  /\ Connect(c) => Directory!Arrive(c)
         /\ Disconnect(c) => Directory!Depart(c)
         /\ CreatePublic(c) \/ CreatePrivate(c) => Directory!Found(joining[c])
<1> USE DEF At, Goto, TypeOK
<1>1. ASSUME OfOne(c), ChangeOf(c)' = ChangeOf(c), ToTell(c)' = ToTell(c), ToHear(c)' = ToHear(c)
      PROVE  UNCHANGED <<Changes, Tellings, Hearings>>
  BY <1>1, ViewOfOne
<1>2. ASSUME Connect(c) PROVE Directory!Arrive(c)
  <2>1. UNCHANGED <<Changes, Tellings, Hearings>>
    BY <1>1, <1>2 DEF Connect, OfOne, ChangeOf, ToTell, ToHear
  <2>2. ~open[c] /\ \A r \in Room : c \notin members[r]
    BY <1>2 DEF Connect, PlaceInv, NewcomersAreDown, LeaversAreOut
  <2> QED
    BY <1>2, <2>1, <2>2 DEF Connect, roomVars, lockVars, toldVars, Directory!Arrive, Changes, Tellings,
       Hearings
<1>3. ASSUME Disconnect(c) PROVE Directory!Depart(c)
  <2>1. UNCHANGED <<Changes, Tellings, Hearings>>
    BY <1>1, <1>3 DEF Disconnect, PeerClose, localVars, OfOne, ChangeOf, ToTell, ToHear
  <2> QED
    BY <1>3, <2>1 DEF Disconnect, PeerClose, roomVars, lockVars, Directory!Depart, Changes, Tellings,
       Hearings
<1>4. ASSUME CreatePublic(c) \/ CreatePrivate(c) PROVE Directory!Found(joining[c])
  <2>1. UNCHANGED <<Changes, Tellings, Hearings>>
    BY <1>1, <1>4 DEF CreatePublic, CreatePrivate, CreateRoom, OfOne, ChangeOf, ToTell, ToHear
  <2> QED
    BY <1>4, <2>1 DEF CreatePublic, CreatePrivate, CreateRoom, toldVars, Directory!Found, Changes,
       Tellings, Hearings
<1> QED
  BY <1>2, <1>3, <1>4

\* Every step of the code is a step of the directory, or none that it can tell.
LEMMA DirectoryStep == TypeOK /\ PlaceInv /\ [Next]_vars => [Directory!Next]_(Directory!vars)
<1> SUFFICES ASSUME TypeOK, PlaceInv, [Next]_vars
             PROVE  Directory!Next \/ UNCHANGED Directory!vars
  OBVIOUS
<1> USE DEF Directory!Next
<1>1. CASE UNCHANGED vars
  BY <1>1 DEF vars, socketVars, roomVars, lockVars, localVars, toldVars, Directory!vars, ChangeOf, ToTell,
     ToHear, At
<1>2. ASSUME NEW c \in Client, Connect(c) \/ Disconnect(c) \/ Request(c)
      PROVE  Directory!Next \/ UNCHANGED Directory!vars
  BY <1>2, ArrivalStep, SilentStep
<1>3. ASSUME NEW c \in Client, Joining(c)
      PROVE  Directory!Next \/ UNCHANGED Directory!vars
  <2>1. JoinLock(c) => joining[c] \in Room
    BY DEF JoinLock, At, PlaceInv, ReadyToJoin, TypeOK
  <2> QED
    BY <1>3, <2>1, ChangeStep, TellNotice, HearNotice, SettleStep, SilentStep DEF Joining
<1>4. ASSUME NEW c \in Client, Leaving(c)
      PROVE  Directory!Next \/ UNCHANGED Directory!vars
  <2>1. LeftLock(c) => leaving[c] \in Room
    BY DEF LeftLock, At, TypeOK, LeftLocation
  <2> QED
    BY <1>4, <2>1, ChangeStep, TellNotice, SettleStep, SilentStep DEF Leaving
<1>5. ASSUME NEW c \in Client, Looking(c) \/ Listing(c) \/ Quitting(c) \/ ReadError(c)
      PROVE  UNCHANGED Directory!vars
  BY <1>5, SilentStep
<1>6. ASSUME NEW c \in Client, Creating(c)
      PROVE  Directory!Next \/ UNCHANGED Directory!vars
  <2>1. CreatePublic(c) \/ CreatePrivate(c) => joining[c] \in Room
    BY DEF CreatePublic, CreatePrivate, CreateRoom, At, TypeOK, AskLocation
  <2> QED
    BY <1>6, <2>1, ArrivalStep, SilentStep
<1> QED
  BY <1>1, <1>2, <1>3, <1>4, <1>5, <1>6 DEF Next, Run, Terminated

\* Room.Join and Room.Left, their broadcasts and the list for the newcomer
\* (room.go:37-120) implement RoomDirectory, whatever the ids and the names.
THEOREM DirectoryKept == Spec => KeepsDirectory
<1>1. Init => Directory!Init
  BY DEF Init, Directory!Init, ChangeOf, ToTell, ToHear, At
<1> QED
  BY <1>1, PlaceInvariant, DirectoryStep, TypeCorrect, PTL DEF Spec, KeepsDirectory, Directory!Spec

=============================================================================
