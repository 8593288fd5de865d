------------------------------- MODULE Handler -------------------------------
(***************************************************************************)
(* The life of a connection in the server (the handler of initWS in        *)
(* eddwise.go) and the presence events of the channels that embed          *)
(* ChannelBroadcastUserJoinLeft without a ConnManager (user_join.go): the  *)
(* Connected and Disconnected callbacks, the registry, UserJoin to and     *)
(* about the newcomer, UserLeft when the read loop has ended.              *)
(*                                                                         *)
(* CheckAuth is one step here, and the rooms are left out: ConnManager and *)
(* RoomManager have them.  An action is one critical section under         *)
(* ClientsMx, one callback, or one write to a socket.  seen[d] folds the   *)
(* frames written to the browser d: <<ch, a>> is in it when the last       *)
(* UserJoin or UserLeft about connection a on ch was the UserJoin.         *)
(***************************************************************************)
EXTENDS ServerSocket

CONSTANTS
  Channel,          \* the registered channels
  Announcing,       \* those that broadcast UserJoin and UserLeft
  NoChannel         \* nil

ASSUME HandlerAssumption ==
  /\ Announcing \subseteq Channel
  /\ NoChannel \notin Channel

VARIABLES
  (* locals of the handler goroutine of each connection *)
  chans,            \* channels the loop under way has still to visit
  cur,              \* the channel onJoin or onLeft is at
  todo,             \* connections still to list, or still to send to
  (* history *)
  connected,        \* channels whose Connected(c) has succeeded
  disconnected,     \* channels whose Disconnected(c) has been called
  witnesses,        \* who was being served when c's read loop ended
  seen

loopVars == <<chans, cur, todo>>
historyVars == <<connected, disconnected, witnesses>>
vars == <<socketVars, loopVars, historyVars, seen>>

Location ==
  {"new", "auth", "connect", "join", "list", "recipients", "cast", "read",
   "left", "leftCast", "disconnect", "remove", "done"}

-----------------------------------------------------------------------------
Tell(d, S) == seen' = IF open[d] THEN [seen EXCEPT ![d] = S] ELSE seen

Accept(c) ==
  /\ At(c, "new")
  /\ open' = [open EXCEPT ![c] = TRUE]
  /\ Goto(c, "auth")
  /\ UNCHANGED <<clients, loopVars, historyVars, seen>>

\* CheckAuth waits for the browser; what it does is in ConnManager.
AuthPasses(c) ==
  /\ At(c, "auth")
  /\ chans' = [chans EXCEPT ![c] = Channel]
  /\ Goto(c, "connect")
  /\ UNCHANGED <<clients, open, cur, todo, historyVars, seen>>

\* The handler returns before it has registered the connection.
TurnAway(c) ==
  /\ open' = [open EXCEPT ![c] = FALSE]
  /\ seen' = [seen EXCEPT ![c] = {}]
  /\ chans' = [chans EXCEPT ![c] = {}]
  /\ Goto(c, "done")
  /\ UNCHANGED <<clients, cur, todo, historyVars>>

AuthFails(c) == At(c, "auth") /\ TurnAway(c)

AuthReadErrorMutant(c) == At(c, "auth") /\ ~open[c] /\ UNCHANGED vars
AuthReadError(c) == At(c, "auth") /\ ~open[c] /\ TurnAway(c)

(***************************************************************************)
(* Connected on every channel, in the order of a map.  The connection is   *)
(* registered when all have accepted it; those that have are not told when *)
(* a later one has not.                                                    *)
(***************************************************************************)
Connected(c, ch) ==
  /\ At(c, "connect")
  /\ ch \in chans[c]
  /\ chans' = [chans EXCEPT ![c] = @ \ {ch}]
  /\ connected' = [connected EXCEPT ![c] = @ \cup {ch}]
  /\ UNCHANGED <<socketVars, cur, todo, disconnected, witnesses, seen>>

ConnectedFails(c) == At(c, "connect") /\ chans[c] # {} /\ TurnAway(c)

RegisterMutant(c) ==
  /\ At(c, "connect")
  /\ AddClient(c)
  /\ chans' = [chans EXCEPT ![c] = Announcing]
  /\ Goto(c, "join")
  /\ UNCHANGED <<open, cur, todo, historyVars, seen>>
Register(c) ==
  /\ At(c, "connect")
  /\ chans[c] = {}
  /\ AddClient(c)
  /\ chans' = [chans EXCEPT ![c] = Announcing]
  /\ Goto(c, "join")
  /\ UNCHANGED <<open, cur, todo, historyVars, seen>>

-----------------------------------------------------------------------------
(***************************************************************************)
(* onJoin on every announcing channel: the connections registered already  *)
(* are named to the newcomer one by one; then UserJoin goes to those who   *)
(* are registered by then.  An error while listing ends onJoin without the *)
(* broadcast; errors are ignored by the handler.                           *)
(***************************************************************************)
OnJoin(c, ch) ==
  /\ At(c, "join")
  /\ ch \in chans[c]
  /\ chans' = [chans EXCEPT ![c] = @ \ {ch}]
  /\ cur' = [cur EXCEPT ![c] = ch]
  /\ todo' = [todo EXCEPT ![c] = GetClients({c})]
  /\ Goto(c, "list")
  /\ UNCHANGED <<clients, open, historyVars, seen>>

ListPeer(c, d) ==
  /\ At(c, "list")
  /\ d \in todo[c]
  /\ Tell(c, seen[c] \cup {<<cur[c], d>>})
  /\ todo' = [todo EXCEPT ![c] = @ \ {d}]
  /\ UNCHANGED <<socketVars, chans, cur, historyVars>>

ListFails(c) ==
  /\ At(c, "list")
  /\ todo[c] # {}
  /\ ~open[c]
  /\ todo' = [todo EXCEPT ![c] = {}]
  /\ cur' = [cur EXCEPT ![c] = NoChannel]
  /\ Goto(c, "join")
  /\ UNCHANGED <<clients, open, chans, historyVars, seen>>

EndListMutant(c) ==
  /\ At(c, "list")
  /\ cur' = [cur EXCEPT ![c] = NoChannel]
  /\ Goto(c, "recipients")
  /\ UNCHANGED <<clients, open, chans, todo, historyVars, seen>>
EndList(c) ==
  /\ At(c, "list")
  /\ todo[c] = {}
  /\ Goto(c, "recipients")
  /\ UNCHANGED <<clients, open, loopVars, historyVars, seen>>

RecipientsMutant(c) ==
  /\ At(c, "recipients")
  /\ todo' = [todo EXCEPT ![c] = {d \in clients \ {c} : At(d, "read")}]
  /\ Goto(c, "cast")
  /\ UNCHANGED <<clients, open, chans, cur, historyVars, seen>>
Recipients(c) ==
  /\ At(c, "recipients")
  /\ todo' = [todo EXCEPT ![c] = GetClients({c})]
  /\ Goto(c, "cast")
  /\ UNCHANGED <<clients, open, chans, cur, historyVars, seen>>

JoinCast(c, d) ==
  /\ At(c, "cast")
  /\ d \in todo[c]
  /\ Tell(d, seen[d] \cup {<<cur[c], c>>})
  /\ todo' = [todo EXCEPT ![c] = @ \ {d}]
  /\ UNCHANGED <<socketVars, chans, cur, historyVars>>

EndJoinCast(c) ==
  /\ At(c, "cast")
  /\ todo[c] = {}
  /\ cur' = [cur EXCEPT ![c] = NoChannel]
  /\ Goto(c, "join")
  /\ UNCHANGED <<clients, open, chans, todo, historyVars, seen>>

EndJoin(c) ==
  /\ At(c, "join")
  /\ chans[c] = {}
  /\ Goto(c, "read")
  /\ UNCHANGED <<clients, open, loopVars, historyVars, seen>>

-----------------------------------------------------------------------------
(***************************************************************************)
(* ReadMessage fails, and the deferred calls run: onLeft on every          *)
(* announcing channel, to those who are registered at that moment; then    *)
(* Disconnected on every channel; then RemoveClient.                       *)
(***************************************************************************)
ReadError(c) ==
  /\ At(c, "read")
  /\ ~open[c]
  /\ chans' = [chans EXCEPT ![c] = Announcing]
  /\ witnesses' = [witnesses EXCEPT ![c] = {d \in Client : At(d, "read")} \ {c}]
  /\ Goto(c, "left")
  /\ UNCHANGED <<clients, open, cur, todo, connected, disconnected, seen>>

OnLeft(c, ch) ==
  /\ At(c, "left")
  /\ ch \in chans[c]
  /\ chans' = [chans EXCEPT ![c] = @ \ {ch}]
  /\ cur' = [cur EXCEPT ![c] = ch]
  /\ todo' = [todo EXCEPT ![c] = GetClients({c})]
  /\ Goto(c, "leftCast")
  /\ UNCHANGED <<clients, open, historyVars, seen>>

LeftCastMutant(c, d) ==
  /\ At(c, "leftCast")
  /\ d \in todo[c]
  /\ Tell(d, seen[d] \ {<<cur[c], c>>})
  /\ todo' = [todo EXCEPT ![c] = IF open[d] THEN @ \ {d} ELSE {}]
  /\ UNCHANGED <<socketVars, chans, cur, historyVars>>
LeftCast(c, d) ==
  /\ At(c, "leftCast")
  /\ d \in todo[c]
  /\ Tell(d, seen[d] \ {<<cur[c], c>>})
  /\ todo' = [todo EXCEPT ![c] = @ \ {d}]
  /\ UNCHANGED <<socketVars, chans, cur, historyVars>>

EndLeftCast(c) ==
  /\ At(c, "leftCast")
  /\ todo[c] = {}
  /\ cur' = [cur EXCEPT ![c] = NoChannel]
  /\ Goto(c, "left")
  /\ UNCHANGED <<clients, open, chans, todo, historyVars, seen>>

EndLeft(c) ==
  /\ At(c, "left")
  /\ chans[c] = {}
  /\ chans' = [chans EXCEPT ![c] = Channel]
  /\ Goto(c, "disconnect")
  /\ UNCHANGED <<clients, open, cur, todo, historyVars, seen>>

\* The error of a callback is ignored.
Disconnected(c, ch) ==
  /\ At(c, "disconnect")
  /\ ch \in chans[c]
  /\ chans' = [chans EXCEPT ![c] = @ \ {ch}]
  /\ disconnected' = [disconnected EXCEPT ![c] = @ \cup {ch}]
  /\ UNCHANGED <<socketVars, cur, todo, connected, witnesses, seen>>

EndDisconnect(c) ==
  /\ At(c, "disconnect")
  /\ chans[c] = {}
  /\ Goto(c, "remove")
  /\ UNCHANGED <<clients, open, loopVars, historyVars, seen>>

\* RevokeAuth comes after: see ConnManager.
Remove(c) ==
  /\ At(c, "remove")
  /\ RemoveClient(c)
  /\ Goto(c, "done")
  /\ UNCHANGED <<open, loopVars, historyVars, seen>>

-----------------------------------------------------------------------------
Init ==
  /\ pc = [c \in Client |-> "new"]
  /\ clients = {}
  /\ open = [c \in Client |-> FALSE]
  /\ chans = [c \in Client |-> {}]
  /\ cur = [c \in Client |-> NoChannel]
  /\ todo = [c \in Client |-> {}]
  /\ connected = [c \in Client |-> {}]
  /\ disconnected = [c \in Client |-> {}]
  /\ witnesses = [c \in Client |-> {}]
  /\ seen = [c \in Client |-> {}]

Joining(c) ==
  \/ \E ch \in Channel : OnJoin(c, ch)
  \/ \E d \in Client : ListPeer(c, d)
  \/ ListFails(c)
  \/ EndList(c)
  \/ Recipients(c)
  \/ \E d \in Client : JoinCast(c, d)
  \/ EndJoinCast(c)
  \/ EndJoin(c)

Leaving(c) ==
  \/ \E ch \in Channel : OnLeft(c, ch)
  \/ \E d \in Client : LeftCast(c, d)
  \/ EndLeftCast(c)
  \/ EndLeft(c)
  \/ \E ch \in Channel : Disconnected(c, ch)
  \/ EndDisconnect(c)
  \/ Remove(c)

\* What the handler goroutine does without waiting for its peer.
Run(c) ==
  \/ AuthReadError(c)
  \/ \E ch \in Channel : Connected(c, ch)
  \/ Register(c)
  \/ Joining(c)
  \/ ReadError(c)
  \/ Leaving(c)

Disconnect(c) ==
  /\ PeerClose(c)
  /\ seen' = [seen EXCEPT ![c] = {}]
  /\ UNCHANGED <<loopVars, historyVars>>

\* What the browser, and the application's callbacks, may do.
Environment(c) ==
  Accept(c) \/ AuthPasses(c) \/ AuthFails(c) \/ ConnectedFails(c) \/ Disconnect(c)

Terminated == (\A c \in Client : At(c, "done")) /\ UNCHANGED vars

Next == (\E c \in Client : Run(c) \/ Environment(c)) \/ Terminated

(***************************************************************************)
(* Every runnable goroutine runs, and the callbacks return.  Nothing       *)
(* forces a browser to log in or to go away.                               *)
(***************************************************************************)
Fairness == \A c \in Client : WF_vars(Run(c))

Spec == Init /\ [][Next]_vars /\ Fairness

-----------------------------------------------------------------------------
(***************************************************************************)
(* Types; a channel is at hand wherever onJoin and onLeft use one, and the *)
(* registry holds the connections whose handler is between AddClient and   *)
(* RemoveClient.                                                           *)
(***************************************************************************)
Served(c) == pc[c] \in Location \ {"new", "auth", "connect", "done"}

TypeOK ==
  /\ pc \in [Client -> Location]
  /\ clients = {c \in Client : Served(c)}
  /\ open \in [Client -> BOOLEAN]
  /\ chans \in [Client -> SUBSET Channel]
  /\ cur \in [Client -> Channel \cup {NoChannel}]
  /\ todo \in [Client -> SUBSET Client]
  /\ connected \in [Client -> SUBSET Channel]
  /\ disconnected \in [Client -> SUBSET Channel]
  /\ witnesses \in [Client -> SUBSET Client]
  /\ seen \in [Client -> SUBSET (Channel \X Client)]
  /\ \A c \in Client :
       pc[c] \in {"list", "recipients", "cast", "leftCast"} => cur[c] \in Channel

(***************************************************************************)
(* The snapshots of the registry that onJoin takes, one to list and one to *)
(* broadcast to, miss nobody: of two connections that are served at the    *)
(* same time each is told of the other, however their onJoin overlap.      *)
(***************************************************************************)
JoinLocation == {"join", "list", "recipients", "cast"}

BeingAnnounced(a, ch, b) ==
  \/ pc[a] \in JoinLocation /\ ch \in chans[a]
  \/ cur[a] = ch /\ pc[a] \in {"list", "recipients"}
  \/ cur[a] = ch /\ At(a, "cast") /\ b \in todo[a]

BeingListed(a, ch, b) ==
  \/ pc[b] \in JoinLocation /\ ch \in chans[b]
  \/ cur[b] = ch /\ At(b, "list") /\ a \in todo[b]

PeersIntroduced ==
  \A ch \in Announcing : \A a, b \in clients :
    \/ a = b
    \/ <<ch, a>> \in seen[b]
    \/ ~open[a] \/ ~open[b]
    \/ BeingAnnounced(a, ch, b)
    \/ BeingListed(a, ch, b)

(***************************************************************************)
(* "Auto broadcast Left" (eddwise.go:349) for those the promise is kept    *)
(* to: whoever was past its own onJoin when the read loop of a connection  *)
(* ended is told on every channel, and nothing it is sent later undoes it. *)
(***************************************************************************)
LeaversForgotten ==
  \A a \in Client : pc[a] \in {"disconnect", "remove", "done"} =>
    \A b \in witnesses[a] : \A ch \in Announcing : <<ch, a>> \notin seen[b]

(***************************************************************************)
(* The same promise without the condition on who it is made to: with no    *)
(* handler in the middle of anything, nobody who is served believes a      *)
(* connection present that has ended.                                      *)
(***************************************************************************)
Settled == \A c \in Client : pc[c] \in {"new", "auth", "read", "done"}

NoGhosts ==
  Settled => \A a, b \in Client : \A ch \in Announcing :
    At(a, "done") /\ At(b, "read") => <<ch, a>> \notin seen[b]

(***************************************************************************)
(* A channel is asked to say good-bye to a connection only after every     *)
(* channel has accepted it, and by the end either all have been or none.   *)
(***************************************************************************)
CallbacksPaired ==
  \A c \in Client :
    /\ disconnected[c] # {} => connected[c] = Channel
    /\ At(c, "done") =>
         disconnected[c] = IF connected[c] = Channel THEN Channel ELSE {}

(***************************************************************************)
(* Every connection whose peer has gone comes to its end.                  *)
(***************************************************************************)
EventuallyDone ==
  \A c \in Client : (~open[c] /\ ~At(c, "new")) ~> At(c, "done")

(***************************************************************************)
(* The handler keeps the contract of Lifecycle: whatever the connections   *)
(* do to each other, a channel is asked and told once about each, and no   *)
(* browser hears of a connection that a channel has not accepted.          *)
(***************************************************************************)
PhaseOf(location) ==
  CASE location \in {"new", "auth", "connect"} -> "asking"
    [] location \in {"join", "list", "recipients", "cast", "read"} -> "served"
    [] location \in {"left", "leftCast", "disconnect", "remove"} -> "leaving"
    [] OTHER -> "gone"

Contract == INSTANCE Lifecycle WITH
  phase <- [c \in Client |-> PhaseOf(pc[c])],
  accepted <- connected,
  dismissed <- disconnected,
  told <- seen

KeepsContract == Contract!Spec

=============================================================================
