---------------------------- MODULE ServerSocket ----------------------------
(***************************************************************************)
(* The part of a ServerSocket (eddwise.go) that every feature of the       *)
(* server shares: the goroutine that serves one WebSocket connection, the  *)
(* registry s.Clients, and the socket itself.                              *)
(*                                                                         *)
(* A member of Client is one connection, that is one ClientSocket.  Ids    *)
(* come from an atomic counter (ClientAutoInc) and are never reused, so a  *)
(* connection that has ended never comes back: a user who reconnects is    *)
(* another member of Client.                                               *)
(***************************************************************************)
EXTENDS Naturals, FiniteSets

CONSTANT Client          \* connections, over the whole life of the server

VARIABLES
  pc,                    \* where the handler goroutine of a connection is
  clients,               \* s.Clients: the registered connections
  open                   \* can a frame written to the connection reach its peer?

socketVars == <<pc, clients, open>>

(***************************************************************************)
(* The handler goroutine moves from one location to the next.              *)
(***************************************************************************)
At(c, loc) == pc[c] = loc
Goto(c, loc) == pc' = [pc EXCEPT ![c] = loc]

(***************************************************************************)
(* The registry, under ClientsMx.  GetClients returns a fresh slice: what  *)
(* its caller does with it happens after the lock is released.             *)
(***************************************************************************)
AddClient(c) == clients' = clients \cup {c}
RemoveClient(c) == clients' = clients \ {c}
GetClients(exclude) == clients \ exclude

(***************************************************************************)
(* A transport failure or a peer that goes away.  From here on every write *)
(* to the connection is lost or fails, and its next read fails.            *)
(***************************************************************************)
PeerClose(c) ==
  /\ open[c]
  /\ open' = [open EXCEPT ![c] = FALSE]
  /\ UNCHANGED <<pc, clients>>

=============================================================================
