------------------------------ MODULE EddClient ------------------------------
(***************************************************************************)
(* The browser's client (eddclient.js): the channels of the page and the   *)
(* WebSockets that start() has dialed.  Every socket keeps its callbacks,  *)
(* so that the end of an old one is told like that of the current one.     *)
(***************************************************************************)
EXTENDS DesignTypes

CONSTANTS
  Channel,          \* the channels of an accepted design
  MaxStarts         \* bound: the sockets a page dials

ASSUME EddClientAssumption == MaxStarts \in Nat \ {0}

VARIABLES
  registered,       \* client.channels, each under its alias
  bound,            \* the channels whose client is set
  conn,             \* the last socket dialed, 0 before the first
  isConnected,
  socket,           \* the state of each socket
  overlapped        \* history: one has been dialed while another was in use

clientVars == <<registered, bound, conn, isConnected, socket, overlapped>>

Socket == 1..MaxStarts

InUse(s) == socket[s] \in {"connecting", "open", "closing"}

(***************************************************************************)
(* start.  A page that is connecting may start again: is_connected is set  *)
(* by onopen only.  The timer of 5 s reports to the page and does no more. *)
(***************************************************************************)
Start ==
  /\ ~isConnected
  /\ conn < MaxStarts
  /\ conn' = conn + 1
  /\ socket' = [socket EXCEPT ![conn + 1] = "connecting"]
  /\ bound' = bound \cup registered
  /\ overlapped' = (overlapped \/ \E s \in Socket : InUse(s))
  /\ UNCHANGED <<registered, isConnected>>

OnOpen(s) ==
  /\ socket[s] = "connecting"
  /\ socket' = [socket EXCEPT ![s] = "open"]
  /\ isConnected' = TRUE
  /\ UNCHANGED <<registered, bound, conn, overlapped>>

\* Dialing has failed, the connection is lost, or either side has closed it.
OnClose(s) ==
  /\ InUse(s)
  /\ socket' = [socket EXCEPT ![s] = "closed"]
  /\ isConnected' = FALSE
  /\ UNCHANGED <<registered, bound, conn, overlapped>>

StopMutant ==
  /\ isConnected
  /\ socket' = IF InUse(conn) THEN [socket EXCEPT ![conn] = "closing"] ELSE socket
  /\ UNCHANGED <<registered, bound, conn, isConnected, overlapped>>
Stop ==
  /\ isConnected
  /\ isConnected' = FALSE
  /\ socket' = IF InUse(conn) THEN [socket EXCEPT ![conn] = "closing"] ELSE socket
  /\ UNCHANGED <<registered, bound, conn, overlapped>>

RegisterChannel(ch) ==
  /\ registered' = {c \in registered : ChannelAlias(c) # ChannelAlias(ch)} \cup {ch}
  /\ bound' = IF conn # 0 THEN bound \cup {ch} ELSE bound
  /\ UNCHANGED <<conn, isConnected, socket, overlapped>>

-----------------------------------------------------------------------------
ClientInit ==
  /\ registered = {}
  /\ bound = {}
  /\ conn = 0
  /\ isConnected = FALSE
  /\ socket = [s \in Socket |-> "none"]
  /\ overlapped = FALSE

ClientTypeOK ==
  /\ registered \subseteq Channel
  /\ bound \subseteq Channel
  /\ conn \in 0..MaxStarts
  /\ isConnected \in BOOLEAN
  /\ socket \in [Socket -> {"none", "connecting", "open", "closing", "closed"}]
  /\ overlapped \in BOOLEAN

(***************************************************************************)
(* As long as a page waits for the end of a socket before it starts again, *)
(* is_connected says whether the socket that send writes to is open.       *)
(***************************************************************************)
ConnectedIsOpen ==
  ~overlapped => (isConnected <=> conn # 0 /\ socket[conn] = "open")

=============================================================================
