------------------------------ MODULE Shutdown ------------------------------
(***************************************************************************)
(* ServerSocket.Close (eddwise.go) while handlers run: one goroutine       *)
(* closes the registered connections under ClientsMx, another shuts the    *)
(* HTTP server down, a timer may fire, and the caller waits for the first  *)
(* of the two that write to chClose.                                       *)
(*                                                                         *)
(* The timer is set to ten seconds whatever the timeout asked for: only    *)
(* whether there is one matters here.                                      *)
(***************************************************************************)
EXTENDS Handler, Sequences

CONSTANT HasTimeout      \* is timeout > 0?

ASSUME ShutdownAssumption == HasTimeout \in BOOLEAN

VARIABLES
  caller,                \* "idle", "waiting" on chClose, "returned"
  closer,                \* the goroutine that closes the clients
  stopper,               \* the one in App.Shutdown
  timer,                 \* "off", "armed", "fired"
  chClose                \* the channel, as the sequence of what it holds

closeVars == <<caller, closer, stopper, timer, chClose>>
allVars == <<vars, closeVars>>

-----------------------------------------------------------------------------
CapacityMutant == 0
Capacity == 1

\* A send on a full channel waits, unless somebody is waiting to receive.
CanSend == Len(chClose) < Capacity \/ (caller = "waiting" /\ chClose = <<>>)

CloseMutant ==
  /\ caller = "idle"
  /\ caller' = "waiting"
  /\ closer' = "run"
  /\ stopper' = "run"
  /\ timer' = "off"
  /\ UNCHANGED <<vars, chClose>>
Close ==
  /\ caller = "idle"
  /\ caller' = "waiting"
  /\ closer' = "run"
  /\ stopper' = "run"
  /\ timer' = IF HasTimeout THEN "armed" ELSE "off"
  /\ UNCHANGED <<vars, chClose>>

\* The lock is held from the first client to the last.
CloseClients ==
  /\ closer = "run"
  /\ closer' = "done"
  /\ open' = [c \in Client |-> open[c] /\ c \notin clients]
  /\ seen' = [c \in Client |-> IF c \in clients THEN {} ELSE seen[c]]
  /\ UNCHANGED <<pc, clients, loopVars, historyVars, caller, stopper, timer, chClose>>

\* From here on the server accepts nobody.
StopListening ==
  /\ stopper = "run"
  /\ stopper' = "stopped"
  /\ UNCHANGED <<vars, caller, closer, timer, chClose>>

\* App.Shutdown may take as long as the requests in progress do.
ShutdownReturns ==
  /\ stopper = "stopped"
  /\ CanSend
  /\ chClose' = Append(chClose, "shutdown")
  /\ stopper' = "done"
  /\ UNCHANGED <<vars, caller, closer, timer>>

TimerFires ==
  /\ timer = "armed"
  /\ CanSend
  /\ chClose' = Append(chClose, "timeout")
  /\ timer' = "fired"
  /\ UNCHANGED <<vars, caller, closer, stopper>>

CloseReturns ==
  /\ caller = "waiting"
  /\ chClose # <<>>
  /\ caller' = "returned"
  /\ chClose' = Tail(chClose)
  /\ UNCHANGED <<vars, closer, stopper, timer>>

-----------------------------------------------------------------------------
ShutdownInit ==
  /\ Init
  /\ caller = "idle"
  /\ closer = "idle"
  /\ stopper = "idle"
  /\ timer = "off"
  /\ chClose = <<>>

Listening == stopper \in {"idle", "run"}

Serving(c) ==
  /\ \/ Accept(c) /\ Listening
     \/ Run(c)
     \/ AuthPasses(c) \/ AuthFails(c) \/ ConnectedFails(c) \/ Disconnect(c)
  /\ UNCHANGED closeVars

Closing == CloseClients \/ StopListening \/ TimerFires \/ CloseReturns

Ended == (\A c \in Client : pc[c] \in {"new", "done"}) /\ caller = "returned" /\ UNCHANGED allVars

ShutdownNext ==
  \/ \E c \in Client : Serving(c)
  \/ Close \/ Closing \/ ShutdownReturns
  \/ Ended

(***************************************************************************)
(* The goroutines and the timer run; App.Shutdown may never return.        *)
(***************************************************************************)
ShutdownSpec ==
  /\ ShutdownInit
  /\ [][ShutdownNext]_allVars
  /\ \A c \in Client : WF_allVars(Run(c) /\ UNCHANGED closeVars)
  /\ WF_allVars(CloseClients)
  /\ WF_allVars(StopListening)
  /\ WF_allVars(TimerFires)
  /\ WF_allVars(CloseReturns)

-----------------------------------------------------------------------------
ShutdownTypeOK ==
  /\ TypeOK
  /\ caller \in {"idle", "waiting", "returned"}
  /\ closer \in {"idle", "run", "done"}
  /\ stopper \in {"idle", "run", "stopped", "done"}
  /\ timer \in {"off", "armed", "fired"}
  /\ chClose \in Seq({"shutdown", "timeout"})

(***************************************************************************)
(* Close reads chClose once and both the timer and Shutdown write to it:   *)
(* the one that comes after Close has returned still finds room, so no     *)
(* goroutine is left behind blocked for ever.                              *)
(***************************************************************************)
NoSenderStuck ==
  caller = "returned" /\ (timer = "armed" \/ stopper \in {"run", "stopped"}) => CanSend

(***************************************************************************)
(* With a timeout, Close returns even if App.Shutdown never does.          *)
(***************************************************************************)
CloseTerminates == HasTimeout => (caller = "waiting" ~> caller = "returned")

=============================================================================
