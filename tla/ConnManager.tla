----------------------------- MODULE ConnManager -----------------------------
(***************************************************************************)
(* Logging in and out (auth.go, and user_join.go on the channels that      *)
(* embed a ConnManager): CheckAuth, which takes a new connection through   *)
(* every channel that asks for credentials before anything else is done    *)
(* with it, the registers of the ConnManagers, and RevokeAuth, deferred    *)
(* once CheckAuth has succeeded.                                           *)
(*                                                                         *)
(* An action is one critical section under cm.mx or one write to a socket. *)
(* seen[d] folds the frames written to the browser d: <<ch, u>> is in it   *)
(* when the last UserJoin or UserLeft about u on ch was the UserJoin.      *)
(***************************************************************************)
EXTENDS ServerSocket

CONSTANTS
  Channel,          \* the registered channels
  AuthChannel,      \* those with an OnBasicAuth handler
  Managed,          \* those that embed a ConnManager
  Announcing,       \* those that embed ChannelBroadcastUserJoinLeft
  User,             \* Auth.Id
  Logins,           \* Logins[c][ch]: who connection c can prove to be on ch
  NoUser, NoChannel \* nil

(***************************************************************************)
(* Nothing makes a channel with a ConnManager have an OnBasicAuth too.     *)
(***************************************************************************)
ASSUME ConnAssumption ==
  /\ AuthChannel \subseteq Channel
  /\ Announcing \subseteq Channel
  /\ Managed \subseteq Channel
  /\ Logins \in [Client -> [Channel -> SUBSET User]]
  /\ NoUser \notin User
  /\ NoChannel \notin Channel

VARIABLES
  auth,             \* auth[c]: c.auth, one field for all the channels
  cmClients,        \* cmClients[ch] = cm.clients
  userConns,        \* userConns[ch][u]: cm.userConnections[u], {} when absent
  (* locals of the handler goroutine of each connection *)
  chans,            \* channels the loop under way has still to visit
  cur,              \* the channel it is at
  first,            \* what setAuth returned
  ids,              \* users still to be named to the newcomer
  todo,             \* recipients of the broadcast under way
  failed,           \* has a send of that broadcast returned an error?
  (* history *)
  passed,           \* has CheckAuth succeeded?
  seen

cmVars == <<auth, cmClients, userConns>>
loopVars == <<chans, cur, first, ids, todo, failed>>
vars == <<socketVars, cmVars, loopVars, passed, seen>>

Location ==
  {"new", "auth", "challenged", "register", "listUsers", "list", "recipients",
   "cast", "pass", "connected", "read", "revoke", "leftRecipients", "leftCast",
   "done", "crashed"}

-----------------------------------------------------------------------------
(***************************************************************************)
(* A write to a connection whose peer has gone is lost, and may or may not *)
(* return an error.                                                        *)
(***************************************************************************)
SendFails(d) == ~open[d]

Tell(d, S) == seen' = IF open[d] THEN [seen EXCEPT ![d] = S] ELSE seen

(***************************************************************************)
(* The handler returns, and the connection is closed.                      *)
(***************************************************************************)
Close(c) ==
  /\ open' = [open EXCEPT ![c] = FALSE]
  /\ seen' = [seen EXCEPT ![c] = {}]
  /\ ids' = [ids EXCEPT ![c] = {}]
  /\ todo' = [todo EXCEPT ![c] = {}]
  /\ failed' = [failed EXCEPT ![c] = FALSE]
  /\ cur' = [cur EXCEPT ![c] = NoChannel]
  /\ first' = [first EXCEPT ![c] = FALSE]
  /\ Goto(c, "done")
  /\ UNCHANGED <<clients, cmVars, passed>>

\* CheckAuth returned an error: RevokeAuth is not deferred yet.
RefuseMutant(c) ==
  /\ chans' = [chans EXCEPT ![c] = Managed]
  /\ Goto(c, "revoke")
  /\ UNCHANGED <<clients, open, cmVars, cur, first, ids, todo, failed, passed, seen>>
Refuse(c) == Close(c) /\ chans' = [chans EXCEPT ![c] = {}]

-----------------------------------------------------------------------------
(***************************************************************************)
(* CheckAuth visits the channels in the order of a map.                    *)
(***************************************************************************)
Accept(c) ==
  /\ At(c, "new")
  /\ open' = [open EXCEPT ![c] = TRUE]
  /\ chans' = [chans EXCEPT ![c] = AuthChannel]
  /\ Goto(c, "auth")
  /\ UNCHANGED <<clients, cmVars, cur, first, ids, todo, failed, passed, seen>>

Challenge(c, ch) ==
  /\ At(c, "auth")
  /\ ch \in chans[c]
  /\ chans' = [chans EXCEPT ![c] = @ \ {ch}]
  /\ cur' = [cur EXCEPT ![c] = ch]
  /\ Goto(c, "challenged")
  /\ UNCHANGED <<clients, open, cmVars, first, ids, todo, failed, passed, seen>>

ChallengeFails(c) == At(c, "auth") /\ chans[c] # {} /\ SendFails(c) /\ Refuse(c)

(***************************************************************************)
(* OnBasicAuth, written by the application, returns the user that the      *)
(* credentials prove; c.auth is set before, and outside, the lock that     *)
(* setAuth takes.                                                          *)
(***************************************************************************)
Login(c, u) ==
  /\ At(c, "challenged")
  /\ u \in Logins[c][cur[c]]
  /\ auth' = [auth EXCEPT ![c] = u]
  /\ Goto(c, IF cur[c] \in Managed THEN "register" ELSE "pass")
  /\ UNCHANGED <<clients, open, cmClients, userConns, loopVars, passed, seen>>

\* Anything else the browser may answer.
BadLogin(c) == At(c, "challenged") /\ Refuse(c)

LoginReadErrorMutant(c) == At(c, "challenged") /\ ~open[c] /\ UNCHANGED vars
LoginReadError(c) == At(c, "challenged") /\ ~open[c] /\ Refuse(c)

FirstConnection(c, ch, u) == userConns[ch][u] \cup {c} = {c}

SetAuth(c) ==
  LET ch == cur[c]
      u  == auth[c]
  IN
  /\ At(c, "register")
  /\ cmClients' = [cmClients EXCEPT ![ch] = @ \cup {c}]
  /\ userConns' = [userConns EXCEPT ![ch][u] = @ \cup {c}]
  /\ first' = [first EXCEPT ![c] = FirstConnection(c, ch, u)]
  /\ Goto(c, IF ch \in Announcing THEN "listUsers" ELSE "pass")
  /\ UNCHANGED <<clients, open, auth, chans, cur, ids, todo, failed, passed, seen>>

-----------------------------------------------------------------------------
(***************************************************************************)
(* onJoin: the users connected already, named one by one to the newcomer;  *)
(* then, for the first connection of a user, UserJoin to everyone else.    *)
(***************************************************************************)
GetAuthorizedUserIds(ch, except) == {u \in User \ except : userConns[ch][u] # {}}
GetAuthorizedUserClientsMutant(ch, except) ==
  {d \in cmClients[ch] : auth[d] \notin except /\ pc[d] = "read"}
GetAuthorizedUserClients(ch, except) == {d \in cmClients[ch] : auth[d] \notin except}

ListUsers(c) ==
  /\ At(c, "listUsers")
  /\ ids' = [ids EXCEPT ![c] = GetAuthorizedUserIds(cur[c], {auth[c]})]
  /\ Goto(c, "list")
  /\ UNCHANGED <<clients, open, cmVars, chans, cur, first, todo, failed, passed, seen>>

ListUser(c, u) ==
  /\ At(c, "list")
  /\ u \in ids[c]
  /\ Tell(c, seen[c] \cup {<<cur[c], u>>})
  /\ ids' = [ids EXCEPT ![c] = @ \ {u}]
  /\ UNCHANGED <<socketVars, cmVars, chans, cur, first, todo, failed, passed>>

ListFails(c) == At(c, "list") /\ ids[c] # {} /\ SendFails(c) /\ Refuse(c)

EndList(c) ==
  /\ At(c, "list")
  /\ ids[c] = {}
  /\ Goto(c, IF first[c] THEN "recipients" ELSE "pass")
  /\ UNCHANGED <<clients, open, cmVars, loopVars, passed, seen>>

\* The recipients of a UserJoin or a UserLeft of c.
Recipients(c, from, to) ==
  /\ At(c, from)
  /\ todo' = [todo EXCEPT ![c] = GetAuthorizedUserClients(cur[c], {auth[c]})]
  /\ Goto(c, to)
  /\ UNCHANGED <<clients, open, cmVars, chans, cur, first, ids, failed, passed, seen>>

JoinRecipients(c) == Recipients(c, "recipients", "cast")

Sent(c, d) ==
  /\ d \in todo[c]
  /\ todo' = [todo EXCEPT ![c] = @ \ {d}]
  /\ \/ UNCHANGED failed
     \/ SendFails(d) /\ failed' = [failed EXCEPT ![c] = TRUE]
  /\ UNCHANGED <<socketVars, cmVars, chans, cur, first, ids, passed>>

JoinCast(c, d) == At(c, "cast") /\ Sent(c, d) /\ Tell(d, seen[d] \cup {<<cur[c], auth[c]>>})

EndJoinCastMutant(c) ==
  /\ At(c, "cast")
  /\ todo[c] = {}
  /\ cur' = [cur EXCEPT ![c] = NoChannel]
  /\ Goto(c, "pass")
  /\ UNCHANGED <<clients, open, cmVars, chans, first, ids, todo, failed, passed, seen>>

EndJoinCast(c) ==
  /\ At(c, "cast")
  /\ todo[c] = {}
  /\ ~failed[c]
  /\ Goto(c, "pass")
  /\ UNCHANGED <<clients, open, cmVars, loopVars, passed, seen>>

\* The error of one recipient's socket is returned as the newcomer's own.
JoinCastFails(c) == At(c, "cast") /\ todo[c] = {} /\ failed[c] /\ Refuse(c)

AuthPass(c) ==
  /\ At(c, "pass")
  /\ first' = [first EXCEPT ![c] = FALSE]
  /\ cur' = [cur EXCEPT ![c] = NoChannel]
  /\ Goto(c, "auth")
  /\ UNCHANGED <<clients, open, cmVars, chans, ids, todo, failed, passed, seen>>

AuthPassFails(c) == At(c, "pass") /\ SendFails(c) /\ Refuse(c)

EndCheckAuth(c) ==
  /\ At(c, "auth")
  /\ chans[c] = {}
  /\ passed' = [passed EXCEPT ![c] = TRUE]
  /\ Goto(c, "connected")
  /\ UNCHANGED <<clients, open, cmVars, loopVars, seen>>

-----------------------------------------------------------------------------
(***************************************************************************)
(* The rest of the handler: the Connected callbacks, one of which may turn *)
(* the connection away, the registry, and the read loop.  RevokeAuth runs  *)
(* in either case, after RemoveClient in the second.                       *)
(***************************************************************************)
Revoking(c) ==
  /\ chans' = [chans EXCEPT ![c] = Managed]
  /\ Goto(c, "revoke")
  /\ UNCHANGED <<open, cmVars, cur, first, ids, todo, failed, passed, seen>>

TurnedAway(c) == At(c, "connected") /\ Revoking(c) /\ UNCHANGED clients

Serve(c) ==
  /\ At(c, "connected")
  /\ AddClient(c)
  /\ Goto(c, "read")
  /\ UNCHANGED <<open, cmVars, loopVars, passed, seen>>

ReadError(c) == At(c, "read") /\ ~open[c] /\ RemoveClient(c) /\ Revoking(c)

(***************************************************************************)
(* RevokeAuth: removeAuth under the lock of each ConnManager in turn; when *)
(* it says that no connection of the user is left, UserLeft to those who   *)
(* are registered by then.                                                 *)
(***************************************************************************)
AnyConnected(c, ch, u) == userConns[ch][u] \ {c} # {}

UnregisterMutant(c, ch, u) ==
  /\ cmClients' = [cmClients EXCEPT ![ch] = @ \ {c}]
  /\ UNCHANGED userConns
Unregister(c, ch, u) ==
  /\ cmClients' = [cmClients EXCEPT ![ch] = @ \ {c}]
  /\ userConns' = [userConns EXCEPT ![ch][u] = @ \ {c}]

RemoveAuth(c, ch) ==
  /\ At(c, "revoke")
  /\ ch \in chans[c]
  /\ c \in cmClients[ch]
  /\ chans' = [chans EXCEPT ![c] = @ \ {ch}]
  /\ Unregister(c, ch, auth[c])
  /\ UNCHANGED <<clients, open, auth, first, ids, todo, failed, passed, seen>>

(***************************************************************************)
(* removeAuth calls a method of the entry without asking whether there is  *)
(* one: on a nil interface that panics.  Nothing in the handler recovers,  *)
(* and the process ends with all its connections.                          *)
(***************************************************************************)
RevokePanics(c, ch) ==
  /\ At(c, "revoke")
  /\ ch \in chans[c]
  /\ c \notin cmClients[ch]
  /\ pc' = [d \in Client |-> "crashed"]
  /\ open' = [d \in Client |-> FALSE]
  /\ seen' = [d \in Client |-> {}]
  /\ UNCHANGED <<clients, cmVars, loopVars, passed>>

OthersConnected(c, ch) ==
  /\ RemoveAuth(c, ch)
  /\ AnyConnected(c, ch, auth[c]) \/ ch \notin Announcing
  /\ UNCHANGED <<cur, pc>>

LastConnection(c, ch) ==
  /\ RemoveAuth(c, ch)
  /\ ~AnyConnected(c, ch, auth[c])
  /\ ch \in Announcing
  /\ cur' = [cur EXCEPT ![c] = ch]
  /\ Goto(c, "leftRecipients")

LeftRecipients(c) == Recipients(c, "leftRecipients", "leftCast")

LeftCast(c, d) == At(c, "leftCast") /\ Sent(c, d) /\ Tell(d, seen[d] \ {<<cur[c], auth[c]>>})

EndLeftCastMutant(c) ==
  At(c, "leftCast") /\ todo[c] = {} /\ ~failed[c] /\ Close(c) /\ UNCHANGED chans
EndLeftCast(c) ==
  /\ At(c, "leftCast")
  /\ todo[c] = {}
  /\ ~failed[c]
  /\ cur' = [cur EXCEPT ![c] = NoChannel]
  /\ Goto(c, "revoke")
  /\ UNCHANGED <<clients, open, cmVars, chans, first, ids, todo, failed, passed, seen>>

\* The error ends the loop over the channels: those in chans are not visited.
LeftCastFails(c) ==
  At(c, "leftCast") /\ todo[c] = {} /\ failed[c] /\ Close(c) /\ UNCHANGED chans

EndRevoke(c) == At(c, "revoke") /\ chans[c] = {} /\ Close(c) /\ UNCHANGED chans

-----------------------------------------------------------------------------
Init ==
  /\ pc = [c \in Client |-> "new"]
  /\ clients = {}
  /\ open = [c \in Client |-> FALSE]
  /\ auth = [c \in Client |-> NoUser]
  /\ cmClients = [ch \in Channel |-> {}]
  /\ userConns = [ch \in Channel |-> [u \in User |-> {}]]
  /\ chans = [c \in Client |-> {}]
  /\ cur = [c \in Client |-> NoChannel]
  /\ first = [c \in Client |-> FALSE]
  /\ ids = [c \in Client |-> {}]
  /\ todo = [c \in Client |-> {}]
  /\ failed = [c \in Client |-> FALSE]
  /\ passed = [c \in Client |-> FALSE]
  /\ seen = [c \in Client |-> {}]

CheckAuth(c) ==
  \/ \E ch \in Channel : Challenge(c, ch)
  \/ ChallengeFails(c)
  \/ LoginReadError(c)
  \/ SetAuth(c)
  \/ ListUsers(c)
  \/ \E u \in User : ListUser(c, u)
  \/ ListFails(c)
  \/ EndList(c)
  \/ JoinRecipients(c)
  \/ \E d \in Client : JoinCast(c, d)
  \/ EndJoinCast(c)
  \/ JoinCastFails(c)
  \/ AuthPass(c)
  \/ AuthPassFails(c)
  \/ EndCheckAuth(c)

RevokeAuth(c) ==
  \/ \E ch \in Channel : OthersConnected(c, ch) \/ LastConnection(c, ch) \/ RevokePanics(c, ch)
  \/ LeftRecipients(c)
  \/ \E d \in Client : LeftCast(c, d)
  \/ EndLeftCast(c)
  \/ LeftCastFails(c)
  \/ EndRevoke(c)

\* What the handler goroutine does without waiting for its peer.
Run(c) == CheckAuth(c) \/ RevokeAuth(c) \/ Serve(c) \/ ReadError(c)

Disconnect(c) ==
  /\ PeerClose(c)
  /\ seen' = [seen EXCEPT ![c] = {}]
  /\ UNCHANGED <<cmVars, loopVars, passed>>

\* What the browser, and the application's callbacks, may do.
Environment(c) ==
  \/ Accept(c)
  \/ \E u \in User : Login(c, u)
  \/ BadLogin(c)
  \/ TurnedAway(c)
  \/ Disconnect(c)

Terminated == (\A c \in Client : pc[c] \in {"done", "crashed"}) /\ UNCHANGED vars

Next == (\E c \in Client : Run(c) \/ Environment(c)) \/ Terminated

(***************************************************************************)
(* Every runnable goroutine runs.  Nothing forces a browser to log in or   *)
(* to go away.                                                             *)
(***************************************************************************)
Spec == Init /\ [][Next]_vars /\ \A c \in Client : WF_vars(Run(c))

-----------------------------------------------------------------------------
(***************************************************************************)
(* Types, and what the code dereferences at each location: a channel at    *)
(* hand in the loops, an Auth wherever one is read.                        *)
(***************************************************************************)
LoopLocation ==
  {"challenged", "register", "listUsers", "list", "recipients", "cast", "pass",
   "leftRecipients", "leftCast"}

TypeOK ==
  /\ pc \in [Client -> Location]
  /\ clients \subseteq Client
  /\ open \in [Client -> BOOLEAN]
  /\ auth \in [Client -> User \cup {NoUser}]
  /\ cmClients \in [Channel -> SUBSET Client]
  /\ userConns \in [Channel -> [User -> SUBSET Client]]
  /\ chans \in [Client -> SUBSET Channel]
  /\ cur \in [Client -> Channel \cup {NoChannel}]
  /\ first \in [Client -> BOOLEAN]
  /\ ids \in [Client -> SUBSET User]
  /\ todo \in [Client -> SUBSET Client]
  /\ failed \in [Client -> BOOLEAN]
  /\ passed \in [Client -> BOOLEAN]
  /\ seen \in [Client -> SUBSET (Channel \X User)]
  /\ \A c \in Client :
       /\ pc[c] \in LoopLocation => cur[c] \in Channel
       /\ pc[c] \in LoopLocation \ {"challenged"} => auth[c] \in User
       /\ \A ch \in Channel : c \in cmClients[ch] => auth[c] \in User

(***************************************************************************)
(* Both maps of a ConnManager describe the same connections: the           *)
(* connections of a user are the registered ones whose Auth is that user's.*)
(* The Auth is a field of the connection that the manager's lock does not  *)
(* protect.                                                                *)
(***************************************************************************)
RegistersAgree ==
  \A ch \in Channel : \A u \in User :
    userConns[ch][u] = {c \in cmClients[ch] : auth[c] = u}

(***************************************************************************)
(* removeAuth calls a method of cm.clients[clientId] without a look.  A    *)
(* connection that RevokeAuth is still to take out of the manager of a     *)
(* channel that asked it for credentials is in it, so the call can panic   *)
(* only on a channel with a ConnManager and no OnBasicAuth.                *)
(***************************************************************************)
RevokeFindsClient ==
  \A c \in Client : At(c, "revoke") =>
    \A ch \in chans[c] \cap AuthChannel : c \in cmClients[ch]

(***************************************************************************)
(* Two users who log in at the same time each list the other or are told   *)
(* of by the other, whatever the order of their critical sections; only    *)
(* the end of another connection of the same user can hide one.            *)
(***************************************************************************)
BeingAnnounced(u, ch, b) ==
  \E a \in cmClients[ch] :
    /\ auth[a] = u
    /\ first[a]
    /\ cur[a] = ch
    /\ pc[a] \in {"listUsers", "list", "recipients"} \/ (At(a, "cast") /\ b \in todo[a])

BeingListed(u, ch, b) ==
  /\ cur[b] = ch
  /\ At(b, "listUsers") \/ (At(b, "list") /\ u \in ids[b])

HasEnded(c) == pc[c] \in {"revoke", "leftRecipients", "leftCast", "done"}

UsersAcquainted ==
  \A ch \in Managed \cap Announcing : \A a, b \in cmClients[ch] :
    \/ auth[a] = auth[b]
    \/ ~open[b]
    \/ <<ch, auth[a]>> \in seen[b]
    \/ BeingAnnounced(auth[a], ch, b)
    \/ BeingListed(auth[a], ch, b)
    \/ \E d \in Client : auth[d] = auth[a] /\ HasEnded(d)

(***************************************************************************)
(* RevokeAuth undoes what CheckAuth did: once the handler of a connection  *)
(* that got past CheckAuth has returned, no manager that RevokeAuth came   *)
(* to has the connection, nor has it under the account it logged in to     *)
(* last.  Managers are left out only when somebody else's socket broke.    *)
(***************************************************************************)
Unvisited(c) == chans[c]

HasGone(d) == ~open[d] /\ ~At(d, "new")

Registered(c, ch) ==
  c \in cmClients[ch] \/ (auth[c] \in User /\ c \in userConns[ch][auth[c]])

LogoutUnregisters ==
  \A c \in Client : At(c, "done") /\ passed[c] =>
    /\ \A ch \in Channel \ Unvisited(c) : ~Registered(c, ch)
    /\ Unvisited(c) # {} => \E d \in Client \ {c} : HasGone(d)

(***************************************************************************)
(* IsUserConnected (auth.go:132) says what its name does: a user has an    *)
(* entry only while one of the user's connections has not ended.           *)
(***************************************************************************)
IsUserConnected(ch, u) == userConns[ch][u] # {}

ConnectedUsersAreConnected ==
  \A ch \in Channel : \A u \in User :
    IsUserConnected(ch, u) => \E c \in userConns[ch][u] : ~At(c, "done")

(***************************************************************************)
(* Every connection whose peer has gone comes to its end.                  *)
(***************************************************************************)
EventuallyDone ==
  \A c \in Client : (~open[c] /\ ~At(c, "new")) ~> At(c, "done")

=============================================================================
