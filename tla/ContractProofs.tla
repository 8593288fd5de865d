--------------------------- MODULE ContractProofs ---------------------------
(***************************************************************************)
(* Proof that Handler implements Lifecycle, for any set of connections and *)
(* channels: every step of the handler is a step of the contract, or       *)
(* changes nothing that the contract speaks of.                            *)
(***************************************************************************)
EXTENDS HandlerProofs

Phases == [c \in Client |-> PhaseOf(pc[c])]

(***************************************************************************)
(* Only connections that every channel has accepted get into a list.       *)
(***************************************************************************)
Entered(d) == pc[d] \notin {"new", "auth", "connect"} /\ Channel \subseteq connected[d]

ListedEntered == \A c \in Client : \A d \in todo[c] : Entered(d)

ContractInv == LeaversClosed /\ PairingInv /\ ListedEntered

\* A handler that is past its registration has been accepted by all channels.
LEMMA ServedEntered ==
  ASSUME TypeOK, PairingInv, NEW c \in Client, pc[c] \notin {"new", "auth", "connect", "done"}
  PROVE  Entered(c)
BY DEF TypeOK, PairingInv, Entered

\* Nobody who has entered is asked again.
LEMMA EnteredStays ==
  ASSUME TypeOK, [Next]_vars, NEW d \in Client, Entered(d)
  PROVE  Entered(d)'
<1> USE DEF Entered, At, Goto, TypeOK, socketVars, loopVars, historyVars
<1>1. ASSUME NEW c \in Client, Joining(c) PROVE Entered(d)'
  BY <1>1 DEF Joining, OnJoin, ListPeer, ListFails, EndList, Recipients, JoinCast, EndJoinCast, EndJoin
<1>2. ASSUME NEW c \in Client, Leaving(c) PROVE Entered(d)'
  BY <1>2 DEF Leaving, OnLeft, LeftCast, EndLeftCast, EndLeft, Disconnected, EndDisconnect, Remove
<1>3. ASSUME NEW c \in Client, Environment(c) PROVE Entered(d)'
  BY <1>3 DEF Environment, Accept, AuthPasses, AuthFails, TurnAway, ConnectedFails, Disconnect, PeerClose
<1>4. ASSUME NEW c \in Client, NEW ch \in Channel, Connected(c, ch) PROVE Entered(d)'
  BY <1>4 DEF Connected
<1>5. ASSUME NEW c \in Client, AuthReadError(c) \/ Register(c) \/ ReadError(c) PROVE Entered(d)'
  BY <1>5 DEF AuthReadError, TurnAway, Register, ReadError
<1>6. CASE UNCHANGED vars
  BY <1>6 DEF vars
<1> QED
  BY <1>1, <1>2, <1>3, <1>4, <1>5, <1>6 DEF Next, Run, Terminated

\* What is new in a list comes from the registry.
LEMMA ListedStep == TypeOK /\ PairingInv /\ ListedEntered /\ [Next]_vars => ListedEntered'
<1> SUFFICES ASSUME TypeOK, PairingInv, ListedEntered, [Next]_vars,
                    NEW c \in Client, NEW d \in todo'[c]
             PROVE  Entered(d)'
  BY DEF ListedEntered
<1>1. d \in Client
  BY TypeStep DEF TypeOK
<1>2. d \in todo[c] \/ d \in clients
  <2>1. todo \in [Client -> SUBSET Client]
    BY DEF TypeOK
  <2>2. ASSUME UNCHANGED todo PROVE d \in todo[c]
    BY <2>2
  <2>3. ASSUME NEW e \in Client, NEW S \in SUBSET todo[e], todo' = [todo EXCEPT ![e] = S]
        PROVE  d \in todo[c]
    BY <2>1, <2>3
  <2>4. ASSUME NEW e \in Client, todo' = [todo EXCEPT ![e] = GetClients({e})]
        PROVE  d \in todo[c] \/ d \in clients
    BY <2>1, <2>4 DEF GetClients
  <2>5. ASSUME NEW e \in Client, NEW x, todo' = [todo EXCEPT ![e] = @ \ {x}]
        PROVE  d \in todo[c]
    <3>1. todo[e] \ {x} \in SUBSET todo[e]
      OBVIOUS
    <3> QED
      BY <2>3, <2>5, <3>1
  <2>6. ASSUME NEW e \in Client, todo' = [todo EXCEPT ![e] = {}]
        PROVE  d \in todo[c]
    BY <2>3, <2>6
  <2>7. ASSUME NEW e \in Client, Joining(e) PROVE d \in todo[c] \/ d \in clients
    BY <2>2, <2>4, <2>5, <2>6, <2>7 DEF Joining, OnJoin, ListPeer, ListFails, EndList, Recipients,
         JoinCast, EndJoinCast, EndJoin, loopVars
  <2>8. ASSUME NEW e \in Client, Leaving(e) PROVE d \in todo[c] \/ d \in clients
    BY <2>2, <2>4, <2>5, <2>8 DEF Leaving, OnLeft, LeftCast, EndLeftCast, EndLeft, Disconnected,
         EndDisconnect, Remove, loopVars
  <2>9. ASSUME NEW e \in Client, Environment(e) PROVE d \in todo[c] \/ d \in clients
    BY <2>2, <2>9 DEF Environment, Accept, AuthPasses, AuthFails, TurnAway, ConnectedFails,
         Disconnect, loopVars
  <2>10. ASSUME NEW e \in Client, NEW ch \in Channel, Connected(e, ch)
         PROVE  d \in todo[c] \/ d \in clients
    BY <2>2, <2>10 DEF Connected
  <2>11. ASSUME NEW e \in Client, AuthReadError(e) \/ Register(e) \/ ReadError(e)
         PROVE  d \in todo[c] \/ d \in clients
    BY <2>2, <2>11 DEF AuthReadError, TurnAway, Register, ReadError
  <2>12. CASE UNCHANGED vars
    BY <2>2, <2>12 DEF vars, loopVars
  <2> QED
    BY <2>7, <2>8, <2>9, <2>10, <2>11, <2>12 DEF Next, Run, Terminated
<1>3. d \in clients => Entered(d)
  BY <1>1, ServedEntered DEF TypeOK, Served, Location
<1> QED
  BY <1>1, <1>2, <1>3, EnteredStays DEF ListedEntered

-----------------------------------------------------------------------------
\* The phase of a connection follows its location.
LEMMA GotoPhase ==
  ASSUME TypeOK, NEW c \in Client, NEW location, Goto(c, location)
  PROVE  Phases' = [Phases EXCEPT ![c] = PhaseOf(location)]
BY DEF TypeOK, Goto, Phases

\* Between two locations of one phase the contract sees nothing.
LEMMA SamePhase ==
  ASSUME TypeOK, NEW c \in Client, NEW location, Goto(c, location),
         PhaseOf(location) = PhaseOf(pc[c])
  PROVE  Phases' = Phases
BY GotoPhase DEF Phases

\* A write to a browser: the contract sees one to a connection that is served.
LEMMA TellStep ==
  ASSUME TypeOK, ContractInv, NEW c \in Client, NEW d \in todo[c], NEW x \in {c, d},
         open[x]
  PROVE  pc[c] \notin LeftLocation /\ pc[c] \notin {"new", "auth", "connect"} =>
         /\ Phases[x] = "served"
         /\ Entered(c)
BY ServedEntered DEF TypeOK, ContractInv, LeaversClosed, ListedEntered, Entered, LeftLocation,
     Location, Phases, PhaseOf

LEMMA JoiningStep ==
  ASSUME TypeOK, ContractInv, NEW c \in Client, Joining(c)
  PROVE  Contract!Next \/ UNCHANGED Contract!vars
<1> USE DEF Contract!vars, Contract!Next
<1>1. ASSUME NEW location, Goto(c, location), pc[c] \in {"join", "list", "recipients", "cast"},
             location \in {"join", "list", "recipients", "cast", "read"},
             UNCHANGED <<historyVars, seen>>
      PROVE  UNCHANGED Contract!vars
  BY <1>1, SamePhase DEF Phases, PhaseOf, historyVars
<1>2. ASSUME NEW ch \in Channel, OnJoin(c, ch) PROVE UNCHANGED Contract!vars
  BY <1>1, <1>2 DEF OnJoin, At
<1>3. ASSUME NEW d \in Client, ListPeer(c, d)
      PROVE  Contract!Next \/ UNCHANGED Contract!vars
  <2>1. CASE ~open[c]
    BY <1>3, <2>1 DEF ListPeer, Tell, socketVars, historyVars
  <2>2. CASE open[c]
    <3>1. Phases[c] = "served" /\ Entered(d) /\ cur[c] \in Channel
      BY <1>3, <2>2, TellStep DEF ListPeer, At, TypeOK, LeftLocation, ContractInv, ListedEntered
    <3>2. Phases[d] # "asking" /\ Channel \subseteq connected[d]
      BY <3>1 DEF Entered, Phases, PhaseOf, TypeOK, Location
    <3>3. Contract!Hear(c, cur[c], d)
      BY <1>3, <2>2, <3>1, <3>2 DEF ListPeer, Tell, Contract!Hear, Phases, socketVars, historyVars,
           TypeOK
    <3> QED
      BY <3>1, <3>3
  <2> QED
    BY <2>1, <2>2
<1>4. ASSUME ListFails(c) \/ EndList(c) \/ Recipients(c) \/ EndJoinCast(c) \/ EndJoin(c)
      PROVE  UNCHANGED Contract!vars
  BY <1>1, <1>4 DEF ListFails, EndList, Recipients, EndJoinCast, EndJoin, At
<1>5. ASSUME NEW d \in Client, JoinCast(c, d)
      PROVE  Contract!Next \/ UNCHANGED Contract!vars
  <2>1. CASE ~open[d]
    BY <1>5, <2>1 DEF JoinCast, Tell, socketVars, historyVars
  <2>2. CASE open[d]
    <3>1. Phases[d] = "served" /\ Entered(c) /\ cur[c] \in Channel
      BY <1>5, <2>2, TellStep DEF JoinCast, At, TypeOK, LeftLocation
    <3>2. Phases[c] # "asking" /\ Channel \subseteq connected[c]
      BY <3>1 DEF Entered, Phases, PhaseOf, TypeOK, Location
    <3>3. Contract!Hear(d, cur[c], c)
      BY <1>5, <2>2, <3>1, <3>2 DEF JoinCast, Tell, Contract!Hear, Phases, socketVars, historyVars,
           TypeOK
    <3> QED
      BY <3>1, <3>3
  <2> QED
    BY <2>1, <2>2
<1> QED
  BY <1>2, <1>3, <1>4, <1>5 DEF Joining

LEMMA LeavingStep ==
  ASSUME TypeOK, ContractInv, NEW c \in Client, Leaving(c)
  PROVE  Contract!Next \/ UNCHANGED Contract!vars
<1> USE DEF Contract!vars, Contract!Next
<1>1. ASSUME NEW location, Goto(c, location), pc[c] \in {"left", "leftCast", "disconnect"},
             location \in {"left", "leftCast", "disconnect", "remove"},
             UNCHANGED <<historyVars, seen>>
      PROVE  UNCHANGED Contract!vars
  BY <1>1, SamePhase DEF Phases, PhaseOf, historyVars
<1>2. ASSUME NEW ch \in Channel, OnLeft(c, ch) PROVE UNCHANGED Contract!vars
  BY <1>1, <1>2 DEF OnLeft, At
<1>3. ASSUME NEW d \in Client, LeftCast(c, d)
      PROVE  Contract!Next \/ UNCHANGED Contract!vars
  <2>1. CASE ~open[d]
    BY <1>3, <2>1 DEF LeftCast, Tell, socketVars, historyVars
  <2>2. CASE open[d]
    <3>1. cur[c] \in Channel /\ Phases[c] = "leaving"
      BY <1>3 DEF LeftCast, At, TypeOK, Phases, PhaseOf
    <3>2. Entered(d) /\ pc[d] \notin LeftLocation
      BY <1>3, <2>2 DEF LeftCast, ContractInv, ListedEntered, LeaversClosed
    <3>3. Phases[d] = "served"
      BY <3>2 DEF Entered, LeftLocation, Phases, PhaseOf, TypeOK, Location
    <3>4. Contract!Forget(d, cur[c], c)
      BY <1>3, <2>2, <3>1, <3>3 DEF LeftCast, Tell, Contract!Forget, Phases, socketVars,
           historyVars, TypeOK
    <3> QED
      BY <3>1, <3>4
  <2> QED
    BY <2>1, <2>2
<1>4. ASSUME EndLeftCast(c) \/ EndLeft(c) \/ EndDisconnect(c) PROVE UNCHANGED Contract!vars
  BY <1>1, <1>4 DEF EndLeftCast, EndLeft, EndDisconnect, At
<1>5. ASSUME NEW ch \in Channel, Disconnected(c, ch) PROVE Contract!Next
  <2>1. ch \notin disconnected[c] /\ Phases[c] = "leaving"
    BY <1>5 DEF Disconnected, ContractInv, PairingInv, At, Phases, PhaseOf
  <2>2. Contract!Dismiss(c, ch)
    BY <1>5, <2>1 DEF Disconnected, Contract!Dismiss, Phases, socketVars
  <2> QED
    BY <2>2
<1>6. ASSUME Remove(c) PROVE Contract!Next
  <2>1. Phases[c] = "leaving" /\ Channel \subseteq disconnected[c]
    BY <1>6 DEF Remove, At, ContractInv, PairingInv, Phases, PhaseOf
  <2>2. Phases' = [Phases EXCEPT ![c] = "gone"]
    BY <1>6, GotoPhase DEF Remove, PhaseOf
  <2>3. Contract!End(c)
    BY <1>6, <2>1, <2>2 DEF Remove, Contract!End, Phases, historyVars
  <2> QED
    BY <2>3
<1> QED
  BY <1>2, <1>3, <1>4, <1>5, <1>6 DEF Leaving

\* Before the registration: a connection is asked about, taken in or turned away.
LEMMA AskingStep ==
  ASSUME TypeOK, ContractInv, NEW c \in Client,
         \/ Environment(c) \/ AuthReadError(c) \/ Register(c) \/ ReadError(c)
         \/ \E ch \in Channel : Connected(c, ch)
  PROVE  Contract!Next \/ UNCHANGED Contract!vars
<1> USE DEF Contract!vars, Contract!Next
<1>1. CASE Accept(c) \/ AuthPasses(c)
  BY <1>1, SamePhase DEF Accept, AuthPasses, At, Phases, PhaseOf, historyVars
<1>2. ASSUME TurnAway(c), pc[c] \in {"auth", "connect"} PROVE Contract!Next
  <2>1. Phases' = [Phases EXCEPT ![c] = "gone"] /\ Phases[c] = "asking"
    BY <1>2, GotoPhase DEF TurnAway, Phases, PhaseOf
  <2>2. Contract!TurnAway(c)
    BY <1>2, <2>1 DEF TurnAway, Contract!TurnAway, Phases, historyVars
  <2> QED
    BY <2>2
<1>3. CASE AuthFails(c) \/ AuthReadError(c) \/ ConnectedFails(c)
  BY <1>2, <1>3 DEF AuthFails, AuthReadError, ConnectedFails, At
<1>4. CASE Disconnect(c)
  <2>1. Contract!Lose(c)
    BY <1>4 DEF Disconnect, PeerClose, Contract!Lose, historyVars
  <2> QED
    BY <2>1
<1>5. ASSUME NEW ch \in Channel, Connected(c, ch) PROVE Contract!Next
  <2>1. ch \notin connected[c] /\ Phases[c] = "asking"
    BY <1>5 DEF Connected, ContractInv, PairingInv, At, Phases, PhaseOf
  <2>2. Contract!Accept(c, ch)
    BY <1>5, <2>1 DEF Connected, Contract!Accept, Phases, socketVars
  <2> QED
    BY <2>2
<1>6. CASE Register(c)
  <2>1. Phases[c] = "asking" /\ Channel \subseteq connected[c]
    BY <1>6 DEF Register, ContractInv, PairingInv, At, Phases, PhaseOf
  <2>2. Phases' = [Phases EXCEPT ![c] = "served"]
    BY <1>6, GotoPhase DEF Register, PhaseOf
  <2>3. Contract!Enter(c)
    BY <1>6, <2>1, <2>2 DEF Register, Contract!Enter, Phases, historyVars
  <2> QED
    BY <2>3
<1>7. CASE ReadError(c)
  <2>1. Phases[c] = "served"
    BY <1>7 DEF ReadError, At, Phases, PhaseOf
  <2>2. Phases' = [Phases EXCEPT ![c] = "leaving"]
    BY <1>7, GotoPhase DEF ReadError, PhaseOf
  <2>3. Contract!Leave(c)
    BY <1>7, <2>1, <2>2 DEF ReadError, Contract!Leave, Phases
  <2> QED
    BY <2>3
<1> QED
  BY <1>1, <1>3, <1>4, <1>5, <1>6, <1>7 DEF Environment

LEMMA ContractStep ==
  TypeOK /\ ContractInv /\ [Next]_vars => [Contract!Next]_(Contract!vars)
<1> SUFFICES ASSUME TypeOK, ContractInv, [Next]_vars
             PROVE  Contract!Next \/ UNCHANGED Contract!vars
  OBVIOUS
<1>1. CASE UNCHANGED vars
  BY <1>1 DEF vars, socketVars, historyVars, Contract!vars
<1> QED
  BY <1>1, JoiningStep, LeavingStep, AskingStep DEF Next, Run, Terminated

\* The handler implements Lifecycle: Connected and Disconnected once for each
\* channel and connection, UserJoin never about one that was refused
\* (eddwise.go:281-401).
THEOREM ContractKept == Spec => KeepsContract
<1>1. Init => ContractInv /\ Contract!Init
  BY DEF Init, ContractInv, LeaversClosed, LeftLocation, PairingInv, At, ListedEntered,
       Contract!Init, PhaseOf
<1>2. TypeOK /\ ContractInv /\ FarewellInv /\ [Next]_vars => ContractInv'
  BY FarewellStep, PairingStep, ListedStep DEF ContractInv, FarewellInv
<1>3. Init => FarewellInv
  BY DEF Init, FarewellInv, LeaversClosed, LeftLocation, ClosedSeeNothing, WitnessesRead
<1> QED
  BY <1>1, <1>2, <1>3, FarewellStep, ContractStep, TypeCorrect, PTL
     DEF Spec, KeepsContract, Contract!Spec

=============================================================================
