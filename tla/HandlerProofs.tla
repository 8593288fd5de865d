--------------------------- MODULE HandlerProofs ---------------------------
(***************************************************************************)
(* Proofs of the safety properties of Handler, for any set of connections  *)
(* and channels.                                                           *)
(***************************************************************************)
EXTENDS Handler, TLAPS

LeftLocation == {"left", "leftCast", "disconnect", "remove", "done"}

(***************************************************************************)
(* A handler past its read loop has lost its peer, so nobody needs to have *)
(* been introduced to it any more: what takes a connection out of a        *)
(* browser's picture cannot break PeersIntroduced.                         *)
(***************************************************************************)
LeaversClosed == \A c \in Client : pc[c] \in LeftLocation => ~open[c]

IntroductionInv == LeaversClosed /\ PeersIntroduced

(***************************************************************************)
(* Which callbacks have been called is a function of where the handler is  *)
(* and of the channels its loop has still to visit.                        *)
(***************************************************************************)
PairingInv ==
  \A c \in Client : \A ch \in Channel :
    /\ ch \in connected[c] <=>
         \/ pc[c] \notin {"new", "auth", "connect", "done"}
         \/ At(c, "connect") /\ ch \notin chans[c]
         \/ At(c, "done") /\ ch \in connected[c]
    /\ ch \in disconnected[c] <=>
         \/ At(c, "remove")
         \/ At(c, "disconnect") /\ ch \notin chans[c]
         \/ At(c, "done") /\ \A k \in Channel : k \in connected[c]

(***************************************************************************)
(* A witness stays past its own onJoin, so nothing is listed to it again;  *)
(* the channels that onLeft has visited are forgotten, and on the one it   *)
(* is at only those still to be written to remember.                       *)
(***************************************************************************)
ClosedSeeNothing == \A c \in Client : ~open[c] => seen[c] = {}

WitnessesRead ==
  \A a \in Client :
    /\ pc[a] \notin LeftLocation => witnesses[a] = {}
    /\ \A b \in witnesses[a] : b # a /\ pc[b] \in LeftLocation \cup {"read"}

Forgotten(a, ch, b) ==
  \/ <<ch, a>> \notin seen[b]
  \/ At(a, "left") /\ ch \in chans[a]
  \/ At(a, "leftCast") /\ (ch \in chans[a] \/ (ch = cur[a] /\ b \in todo[a]))

FarewellInv ==
  /\ LeaversClosed
  /\ ClosedSeeNothing
  /\ WitnessesRead
  /\ \A a \in Client : \A b \in witnesses[a] : \A ch \in Announcing : Forgotten(a, ch, b)

-----------------------------------------------------------------------------
\* Every step keeps the types, and the registry in step with the locations.
LEMMA TypeStep == TypeOK /\ [Next]_vars => TypeOK'
<1> SUFFICES ASSUME TypeOK, [Next]_vars PROVE TypeOK'
  OBVIOUS
<1>1. ASSUME NEW c \in Client, Joining(c) PROVE TypeOK'
  <2> USE HandlerAssumption DEF TypeOK, Served, Location, At, Goto,
       socketVars, loopVars, historyVars
  <2>1. ASSUME NEW ch \in Channel, OnJoin(c, ch) PROVE TypeOK'
    BY <2>1 DEF OnJoin, GetClients
  <2>2. ASSUME NEW d \in Client, ListPeer(c, d) PROVE TypeOK'
    BY <2>2 DEF ListPeer, Tell
  <2>3. CASE ListFails(c)
    BY <2>3 DEF ListFails
  <2>4. CASE EndList(c)
    BY <2>4 DEF EndList
  <2>5. CASE Recipients(c)
    BY <2>5 DEF Recipients, GetClients
  <2>6. ASSUME NEW d \in Client, JoinCast(c, d) PROVE TypeOK'
    BY <2>6 DEF JoinCast, Tell
  <2>7. CASE EndJoinCast(c)
    BY <2>7 DEF EndJoinCast
  <2>8. CASE EndJoin(c)
    BY <2>8 DEF EndJoin
  <2> HIDE DEF TypeOK
  <2> QED
    BY <1>1, <2>1, <2>2, <2>3, <2>4, <2>5, <2>6, <2>7, <2>8 DEF Joining
<1>2. ASSUME NEW c \in Client, Leaving(c) PROVE TypeOK'
  <2> USE HandlerAssumption DEF TypeOK, Served, Location, At, Goto,
       socketVars, loopVars, historyVars
  <2>1. ASSUME NEW ch \in Channel, OnLeft(c, ch) PROVE TypeOK'
    BY <2>1 DEF OnLeft, GetClients
  <2>2. ASSUME NEW d \in Client, LeftCast(c, d) PROVE TypeOK'
    BY <2>2 DEF LeftCast, Tell
  <2>3. CASE EndLeftCast(c)
    BY <2>3 DEF EndLeftCast
  <2>4. CASE EndLeft(c)
    BY <2>4 DEF EndLeft
  <2>5. ASSUME NEW ch \in Channel, Disconnected(c, ch) PROVE TypeOK'
    BY <2>5 DEF Disconnected
  <2>6. CASE EndDisconnect(c)
    BY <2>6 DEF EndDisconnect
  <2>7. CASE Remove(c)
    BY <2>7 DEF Remove, RemoveClient
  <2> HIDE DEF TypeOK
  <2> QED
    BY <1>2, <2>1, <2>2, <2>3, <2>4, <2>5, <2>6, <2>7 DEF Leaving
<1>3. ASSUME NEW c \in Client, Accept(c) PROVE TypeOK'
  BY <1>3, HandlerAssumption DEF Accept, TypeOK, Served, Location, At, Goto,
       socketVars, loopVars, historyVars
<1>4. ASSUME NEW c \in Client, AuthPasses(c) PROVE TypeOK'
  BY <1>4, HandlerAssumption DEF AuthPasses, TypeOK, Served, Location, At,
       Goto, socketVars, loopVars, historyVars
<1>5. ASSUME NEW c \in Client, AuthFails(c) PROVE TypeOK'
  BY <1>5, HandlerAssumption DEF AuthFails, TurnAway, TypeOK, Served,
       Location, At, Goto, socketVars, loopVars, historyVars
<1>6. ASSUME NEW c \in Client, AuthReadError(c) PROVE TypeOK'
  BY <1>6, HandlerAssumption DEF AuthReadError, TurnAway, TypeOK, Served,
       Location, At, Goto, socketVars, loopVars, historyVars
<1>7. ASSUME NEW c \in Client, NEW ch \in Channel, Connected(c, ch) PROVE TypeOK'
  BY <1>7, HandlerAssumption DEF Connected, TypeOK, Served, Location, At,
       Goto, socketVars, loopVars, historyVars
<1>8. ASSUME NEW c \in Client, ConnectedFails(c) PROVE TypeOK'
  BY <1>8, HandlerAssumption DEF ConnectedFails, TurnAway, TypeOK, Served,
       Location, At, Goto, socketVars, loopVars, historyVars
<1>9. ASSUME NEW c \in Client, Register(c) PROVE TypeOK'
  BY <1>9, HandlerAssumption DEF Register, AddClient, TypeOK, Served,
       Location, At, Goto, socketVars, loopVars, historyVars
<1>10. ASSUME NEW c \in Client, ReadError(c) PROVE TypeOK'
  BY <1>10, HandlerAssumption DEF ReadError, TypeOK, Served, Location, At,
       Goto, socketVars, loopVars, historyVars
<1>11. ASSUME NEW c \in Client, Disconnect(c) PROVE TypeOK'
  BY <1>11, HandlerAssumption DEF Disconnect, PeerClose, TypeOK, Served,
       Location, At, Goto, socketVars, loopVars, historyVars
<1>12. CASE UNCHANGED vars
  BY <1>12, HandlerAssumption DEF vars, TypeOK, Served, Location, At, Goto,
       socketVars, loopVars, historyVars
<1> QED
  BY <1>1, <1>2, <1>3, <1>4, <1>5, <1>6, <1>7, <1>8, <1>9, <1>10, <1>11,
       <1>12 DEF Next, Run, Environment, Terminated

\* Every step keeps those who are served introduced: the one that registers
\* second lists the first and is broadcast to it.
LEMMA IntroductionStep == TypeOK /\ IntroductionInv /\ [Next]_vars => IntroductionInv'
<1> SUFFICES ASSUME TypeOK, IntroductionInv, [Next]_vars PROVE IntroductionInv'
  OBVIOUS
<1>1. ASSUME NEW c \in Client, Joining(c) PROVE IntroductionInv'
  <2> USE HandlerAssumption DEF IntroductionInv, LeaversClosed,
       PeersIntroduced, BeingAnnounced, BeingListed, JoinLocation,
       LeftLocation, TypeOK, Served, Location, At, Goto, socketVars,
       loopVars, historyVars
  <2>1. ASSUME NEW ch \in Channel, OnJoin(c, ch) PROVE IntroductionInv'
    BY <2>1 DEF OnJoin, GetClients
  <2>2. ASSUME NEW d \in Client, ListPeer(c, d) PROVE IntroductionInv'
    BY <2>2 DEF ListPeer, Tell
  <2>3. CASE ListFails(c)
    BY <2>3 DEF ListFails
  <2>4. CASE EndList(c)
    BY <2>4 DEF EndList
  <2>5. CASE Recipients(c)
    BY <2>5 DEF Recipients, GetClients
  <2>6. ASSUME NEW d \in Client, JoinCast(c, d) PROVE IntroductionInv'
    BY <2>6 DEF JoinCast, Tell
  <2>7. CASE EndJoinCast(c)
    BY <2>7 DEF EndJoinCast
  <2>8. CASE EndJoin(c)
    BY <2>8 DEF EndJoin
  <2> HIDE DEF TypeOK, IntroductionInv
  <2> QED
    BY <1>1, <2>1, <2>2, <2>3, <2>4, <2>5, <2>6, <2>7, <2>8 DEF Joining
<1>2. ASSUME NEW c \in Client, Leaving(c) PROVE IntroductionInv'
  <2> USE HandlerAssumption DEF IntroductionInv, LeaversClosed,
       PeersIntroduced, BeingAnnounced, BeingListed, JoinLocation,
       LeftLocation, TypeOK, Served, Location, At, Goto, socketVars,
       loopVars, historyVars
  <2>1. ASSUME NEW ch \in Channel, OnLeft(c, ch) PROVE IntroductionInv'
    BY <2>1 DEF OnLeft, GetClients
  <2>2. ASSUME NEW d \in Client, LeftCast(c, d) PROVE IntroductionInv'
    BY <2>2 DEF LeftCast, Tell
  <2>3. CASE EndLeftCast(c)
    BY <2>3 DEF EndLeftCast
  <2>4. CASE EndLeft(c)
    BY <2>4 DEF EndLeft
  <2>5. ASSUME NEW ch \in Channel, Disconnected(c, ch) PROVE IntroductionInv'
    BY <2>5 DEF Disconnected
  <2>6. CASE EndDisconnect(c)
    BY <2>6 DEF EndDisconnect
  <2>7. CASE Remove(c)
    BY <2>7 DEF Remove, RemoveClient
  <2> HIDE DEF TypeOK, IntroductionInv
  <2> QED
    BY <1>2, <2>1, <2>2, <2>3, <2>4, <2>5, <2>6, <2>7 DEF Leaving
<1>3. ASSUME NEW c \in Client, Accept(c) PROVE IntroductionInv'
  BY <1>3, HandlerAssumption DEF Accept, IntroductionInv, LeaversClosed,
       PeersIntroduced, BeingAnnounced, BeingListed, JoinLocation,
       LeftLocation, TypeOK, Served, Location, At, Goto, socketVars,
       loopVars, historyVars
<1>4. ASSUME NEW c \in Client, AuthPasses(c) PROVE IntroductionInv'
  BY <1>4, HandlerAssumption DEF AuthPasses, IntroductionInv, LeaversClosed,
       PeersIntroduced, BeingAnnounced, BeingListed, JoinLocation,
       LeftLocation, TypeOK, Served, Location, At, Goto, socketVars,
       loopVars, historyVars
<1>5. ASSUME NEW c \in Client, AuthFails(c) PROVE IntroductionInv'
  BY <1>5, HandlerAssumption DEF AuthFails, TurnAway, IntroductionInv,
       LeaversClosed, PeersIntroduced, BeingAnnounced, BeingListed,
       JoinLocation, LeftLocation, TypeOK, Served, Location, At, Goto,
       socketVars, loopVars, historyVars
<1>6. ASSUME NEW c \in Client, AuthReadError(c) PROVE IntroductionInv'
  BY <1>6, HandlerAssumption DEF AuthReadError, TurnAway, IntroductionInv,
       LeaversClosed, PeersIntroduced, BeingAnnounced, BeingListed,
       JoinLocation, LeftLocation, TypeOK, Served, Location, At, Goto,
       socketVars, loopVars, historyVars
<1>7. ASSUME NEW c \in Client, NEW ch \in Channel, Connected(c, ch) PROVE IntroductionInv'
  BY <1>7, HandlerAssumption DEF Connected, IntroductionInv, LeaversClosed,
       PeersIntroduced, BeingAnnounced, BeingListed, JoinLocation,
       LeftLocation, TypeOK, Served, Location, At, Goto, socketVars,
       loopVars, historyVars
<1>8. ASSUME NEW c \in Client, ConnectedFails(c) PROVE IntroductionInv'
  BY <1>8, HandlerAssumption DEF ConnectedFails, TurnAway, IntroductionInv,
       LeaversClosed, PeersIntroduced, BeingAnnounced, BeingListed,
       JoinLocation, LeftLocation, TypeOK, Served, Location, At, Goto,
       socketVars, loopVars, historyVars
<1>9. ASSUME NEW c \in Client, Register(c) PROVE IntroductionInv'
  BY <1>9, HandlerAssumption DEF Register, AddClient, IntroductionInv,
       LeaversClosed, PeersIntroduced, BeingAnnounced, BeingListed,
       JoinLocation, LeftLocation, TypeOK, Served, Location, At, Goto,
       socketVars, loopVars, historyVars
<1>10. ASSUME NEW c \in Client, ReadError(c) PROVE IntroductionInv'
  BY <1>10, HandlerAssumption DEF ReadError, IntroductionInv, LeaversClosed,
       PeersIntroduced, BeingAnnounced, BeingListed, JoinLocation,
       LeftLocation, TypeOK, Served, Location, At, Goto, socketVars,
       loopVars, historyVars
<1>11. ASSUME NEW c \in Client, Disconnect(c) PROVE IntroductionInv'
  BY <1>11, HandlerAssumption DEF Disconnect, PeerClose, IntroductionInv,
       LeaversClosed, PeersIntroduced, BeingAnnounced, BeingListed,
       JoinLocation, LeftLocation, TypeOK, Served, Location, At, Goto,
       socketVars, loopVars, historyVars
<1>12. CASE UNCHANGED vars
  BY <1>12, HandlerAssumption DEF vars, IntroductionInv, LeaversClosed,
       PeersIntroduced, BeingAnnounced, BeingListed, JoinLocation,
       LeftLocation, TypeOK, Served, Location, At, Goto, socketVars,
       loopVars, historyVars
<1> QED
  BY <1>1, <1>2, <1>3, <1>4, <1>5, <1>6, <1>7, <1>8, <1>9, <1>10, <1>11,
       <1>12 DEF Next, Run, Environment, Terminated

\* Every step keeps the record of the callbacks a function of the location.
LEMMA PairingStep == TypeOK /\ PairingInv /\ [Next]_vars => PairingInv'
<1> SUFFICES ASSUME TypeOK, PairingInv, [Next]_vars PROVE PairingInv'
  OBVIOUS
<1>1. ASSUME NEW c \in Client, Joining(c) PROVE PairingInv'
  <2> USE HandlerAssumption DEF PairingInv, TypeOK, Served, Location, At,
       Goto, socketVars, loopVars, historyVars
  <2>1. ASSUME NEW ch \in Channel, OnJoin(c, ch) PROVE PairingInv'
    BY <2>1 DEF OnJoin, GetClients
  <2>2. ASSUME NEW d \in Client, ListPeer(c, d) PROVE PairingInv'
    BY <2>2 DEF ListPeer, Tell
  <2>3. CASE ListFails(c)
    BY <2>3 DEF ListFails
  <2>4. CASE EndList(c)
    BY <2>4 DEF EndList
  <2>5. CASE Recipients(c)
    BY <2>5 DEF Recipients, GetClients
  <2>6. ASSUME NEW d \in Client, JoinCast(c, d) PROVE PairingInv'
    BY <2>6 DEF JoinCast, Tell
  <2>7. CASE EndJoinCast(c)
    BY <2>7 DEF EndJoinCast
  <2>8. CASE EndJoin(c)
    BY <2>8 DEF EndJoin
  <2> HIDE DEF TypeOK, PairingInv
  <2> QED
    BY <1>1, <2>1, <2>2, <2>3, <2>4, <2>5, <2>6, <2>7, <2>8 DEF Joining
<1>2. ASSUME NEW c \in Client, Leaving(c) PROVE PairingInv'
  <2> USE HandlerAssumption DEF PairingInv, TypeOK, Served, Location, At,
       Goto, socketVars, loopVars, historyVars
  <2>1. ASSUME NEW ch \in Channel, OnLeft(c, ch) PROVE PairingInv'
    BY <2>1 DEF OnLeft, GetClients
  <2>2. ASSUME NEW d \in Client, LeftCast(c, d) PROVE PairingInv'
    BY <2>2 DEF LeftCast, Tell
  <2>3. CASE EndLeftCast(c)
    BY <2>3 DEF EndLeftCast
  <2>4. CASE EndLeft(c)
    BY <2>4 DEF EndLeft
  <2>5. ASSUME NEW ch \in Channel, Disconnected(c, ch) PROVE PairingInv'
    BY <2>5 DEF Disconnected
  <2>6. CASE EndDisconnect(c)
    BY <2>6 DEF EndDisconnect
  <2>7. CASE Remove(c)
    BY <2>7 DEF Remove, RemoveClient
  <2> HIDE DEF TypeOK, PairingInv
  <2> QED
    BY <1>2, <2>1, <2>2, <2>3, <2>4, <2>5, <2>6, <2>7 DEF Leaving
<1>3. ASSUME NEW c \in Client, Accept(c) PROVE PairingInv'
  BY <1>3, HandlerAssumption DEF Accept, PairingInv, TypeOK, Served,
       Location, At, Goto, socketVars, loopVars, historyVars
<1>4. ASSUME NEW c \in Client, AuthPasses(c) PROVE PairingInv'
  BY <1>4, HandlerAssumption DEF AuthPasses, PairingInv, TypeOK, Served,
       Location, At, Goto, socketVars, loopVars, historyVars
<1>5. ASSUME NEW c \in Client, AuthFails(c) PROVE PairingInv'
  BY <1>5, HandlerAssumption DEF AuthFails, TurnAway, PairingInv, TypeOK,
       Served, Location, At, Goto, socketVars, loopVars, historyVars
<1>6. ASSUME NEW c \in Client, AuthReadError(c) PROVE PairingInv'
  BY <1>6, HandlerAssumption DEF AuthReadError, TurnAway, PairingInv, TypeOK,
       Served, Location, At, Goto, socketVars, loopVars, historyVars
<1>7. ASSUME NEW c \in Client, NEW ch \in Channel, Connected(c, ch) PROVE PairingInv'
  BY <1>7, HandlerAssumption DEF Connected, PairingInv, TypeOK, Served,
       Location, At, Goto, socketVars, loopVars, historyVars
<1>8. ASSUME NEW c \in Client, ConnectedFails(c) PROVE PairingInv'
  BY <1>8, HandlerAssumption DEF ConnectedFails, TurnAway, PairingInv,
       TypeOK, Served, Location, At, Goto, socketVars, loopVars,
       historyVars
<1>9. ASSUME NEW c \in Client, Register(c) PROVE PairingInv'
  BY <1>9, HandlerAssumption DEF Register, AddClient, PairingInv, TypeOK,
       Served, Location, At, Goto, socketVars, loopVars, historyVars
<1>10. ASSUME NEW c \in Client, ReadError(c) PROVE PairingInv'
  BY <1>10, HandlerAssumption DEF ReadError, PairingInv, TypeOK, Served,
       Location, At, Goto, socketVars, loopVars, historyVars
<1>11. ASSUME NEW c \in Client, Disconnect(c) PROVE PairingInv'
  BY <1>11, HandlerAssumption DEF Disconnect, PeerClose, PairingInv, TypeOK,
       Served, Location, At, Goto, socketVars, loopVars, historyVars
<1>12. CASE UNCHANGED vars
  BY <1>12, HandlerAssumption DEF vars, PairingInv, TypeOK, Served, Location,
       At, Goto, socketVars, loopVars, historyVars
<1> QED
  BY <1>1, <1>2, <1>3, <1>4, <1>5, <1>6, <1>7, <1>8, <1>9, <1>10, <1>11,
       <1>12 DEF Next, Run, Environment, Terminated

\* Every step keeps what onLeft has told the witnesses.
LEMMA FarewellStep == TypeOK /\ FarewellInv /\ [Next]_vars => FarewellInv'
<1> SUFFICES ASSUME TypeOK, FarewellInv, [Next]_vars PROVE FarewellInv'
  OBVIOUS
<1>1. ASSUME NEW c \in Client, Joining(c) PROVE FarewellInv'
  <2> USE HandlerAssumption DEF FarewellInv, LeaversClosed, ClosedSeeNothing,
       WitnessesRead, Forgotten, LeftLocation, TypeOK, Served, Location,
       At, Goto, socketVars, loopVars, historyVars
  <2>1. ASSUME NEW ch \in Channel, OnJoin(c, ch) PROVE FarewellInv'
    BY <2>1 DEF OnJoin, GetClients
  <2>2. ASSUME NEW d \in Client, ListPeer(c, d) PROVE FarewellInv'
    BY <2>2 DEF ListPeer, Tell
  <2>3. CASE ListFails(c)
    BY <2>3 DEF ListFails
  <2>4. CASE EndList(c)
    BY <2>4 DEF EndList
  <2>5. CASE Recipients(c)
    BY <2>5 DEF Recipients, GetClients
  <2>6. ASSUME NEW d \in Client, JoinCast(c, d) PROVE FarewellInv'
    BY <2>6 DEF JoinCast, Tell
  <2>7. CASE EndJoinCast(c)
    BY <2>7 DEF EndJoinCast
  <2>8. CASE EndJoin(c)
    BY <2>8 DEF EndJoin
  <2> HIDE DEF TypeOK, FarewellInv
  <2> QED
    BY <1>1, <2>1, <2>2, <2>3, <2>4, <2>5, <2>6, <2>7, <2>8 DEF Joining
<1>2. ASSUME NEW c \in Client, Leaving(c) PROVE FarewellInv'
  <2> USE HandlerAssumption DEF FarewellInv, LeaversClosed, ClosedSeeNothing,
       WitnessesRead, Forgotten, LeftLocation, TypeOK, Served, Location,
       At, Goto, socketVars, loopVars, historyVars
  <2>1. ASSUME NEW ch \in Channel, OnLeft(c, ch) PROVE FarewellInv'
    BY <2>1 DEF OnLeft, GetClients
  <2>2. ASSUME NEW d \in Client, LeftCast(c, d) PROVE FarewellInv'
    BY <2>2 DEF LeftCast, Tell
  <2>3. CASE EndLeftCast(c)
    BY <2>3 DEF EndLeftCast
  <2>4. CASE EndLeft(c)
    BY <2>4 DEF EndLeft
  <2>5. ASSUME NEW ch \in Channel, Disconnected(c, ch) PROVE FarewellInv'
    BY <2>5 DEF Disconnected
  <2>6. CASE EndDisconnect(c)
    BY <2>6 DEF EndDisconnect
  <2>7. CASE Remove(c)
    BY <2>7 DEF Remove, RemoveClient
  <2> HIDE DEF TypeOK, FarewellInv
  <2> QED
    BY <1>2, <2>1, <2>2, <2>3, <2>4, <2>5, <2>6, <2>7 DEF Leaving
<1>3. ASSUME NEW c \in Client, Accept(c) PROVE FarewellInv'
  BY <1>3, HandlerAssumption DEF Accept, FarewellInv, LeaversClosed,
       ClosedSeeNothing, WitnessesRead, Forgotten, LeftLocation, TypeOK,
       Served, Location, At, Goto, socketVars, loopVars, historyVars
<1>4. ASSUME NEW c \in Client, AuthPasses(c) PROVE FarewellInv'
  BY <1>4, HandlerAssumption DEF AuthPasses, FarewellInv, LeaversClosed,
       ClosedSeeNothing, WitnessesRead, Forgotten, LeftLocation, TypeOK,
       Served, Location, At, Goto, socketVars, loopVars, historyVars
<1>5. ASSUME NEW c \in Client, AuthFails(c) PROVE FarewellInv'
  BY <1>5, HandlerAssumption DEF AuthFails, TurnAway, FarewellInv,
       LeaversClosed, ClosedSeeNothing, WitnessesRead, Forgotten,
       LeftLocation, TypeOK, Served, Location, At, Goto, socketVars,
       loopVars, historyVars
<1>6. ASSUME NEW c \in Client, AuthReadError(c) PROVE FarewellInv'
  BY <1>6, HandlerAssumption DEF AuthReadError, TurnAway, FarewellInv,
       LeaversClosed, ClosedSeeNothing, WitnessesRead, Forgotten,
       LeftLocation, TypeOK, Served, Location, At, Goto, socketVars,
       loopVars, historyVars
<1>7. ASSUME NEW c \in Client, NEW ch \in Channel, Connected(c, ch) PROVE FarewellInv'
  BY <1>7, HandlerAssumption DEF Connected, FarewellInv, LeaversClosed,
       ClosedSeeNothing, WitnessesRead, Forgotten, LeftLocation, TypeOK,
       Served, Location, At, Goto, socketVars, loopVars, historyVars
<1>8. ASSUME NEW c \in Client, ConnectedFails(c) PROVE FarewellInv'
  BY <1>8, HandlerAssumption DEF ConnectedFails, TurnAway, FarewellInv,
       LeaversClosed, ClosedSeeNothing, WitnessesRead, Forgotten,
       LeftLocation, TypeOK, Served, Location, At, Goto, socketVars,
       loopVars, historyVars
<1>9. ASSUME NEW c \in Client, Register(c) PROVE FarewellInv'
  BY <1>9, HandlerAssumption DEF Register, AddClient, FarewellInv,
       LeaversClosed, ClosedSeeNothing, WitnessesRead, Forgotten,
       LeftLocation, TypeOK, Served, Location, At, Goto, socketVars,
       loopVars, historyVars
<1>10. ASSUME NEW c \in Client, ReadError(c) PROVE FarewellInv'
  BY <1>10, HandlerAssumption DEF ReadError, FarewellInv, LeaversClosed,
       ClosedSeeNothing, WitnessesRead, Forgotten, LeftLocation, TypeOK,
       Served, Location, At, Goto, socketVars, loopVars, historyVars
<1>11. ASSUME NEW c \in Client, Disconnect(c) PROVE FarewellInv'
  BY <1>11, HandlerAssumption DEF Disconnect, PeerClose, FarewellInv,
       LeaversClosed, ClosedSeeNothing, WitnessesRead, Forgotten,
       LeftLocation, TypeOK, Served, Location, At, Goto, socketVars,
       loopVars, historyVars
<1>12. CASE UNCHANGED vars
  BY <1>12, HandlerAssumption DEF vars, FarewellInv, LeaversClosed,
       ClosedSeeNothing, WitnessesRead, Forgotten, LeftLocation, TypeOK,
       Served, Location, At, Goto, socketVars, loopVars, historyVars
<1> QED
  BY <1>1, <1>2, <1>3, <1>4, <1>5, <1>6, <1>7, <1>8, <1>9, <1>10, <1>11,
       <1>12 DEF Next, Run, Environment, Terminated

-----------------------------------------------------------------------------
\* A channel is at hand wherever onJoin and onLeft use one, and s.Clients holds
\* exactly the connections between AddClient and RemoveClient (eddwise.go:327).
THEOREM TypeCorrect == Spec => []TypeOK
<1>1. Init => TypeOK
  BY HandlerAssumption DEF Init, TypeOK, Location, Served
<1> QED
  BY <1>1, TypeStep, PTL DEF Spec

\* Of two connections that are served together each is told of the other, or is
\* about to be (user_join.go:91).
THEOREM Introduction == Spec => []PeersIntroduced
<1>1. Init => IntroductionInv
  BY DEF Init, IntroductionInv, LeaversClosed, LeftLocation, PeersIntroduced
<1>2. IntroductionInv => PeersIntroduced
  BY DEF IntroductionInv
<1> QED
  BY <1>1, <1>2, IntroductionStep, TypeCorrect, PTL DEF Spec

\* Disconnected is called on every channel or on none, and only when all have
\* accepted the connection (eddwise.go:310, 333).
THEOREM Pairing == Spec => []CallbacksPaired
<1>1. Init => PairingInv
  BY DEF Init, PairingInv, At
<1>2. TypeOK /\ PairingInv => CallbacksPaired
  <2> SUFFICES ASSUME TypeOK, PairingInv, NEW c \in Client
      PROVE /\ disconnected[c] # {} => connected[c] = Channel
            /\ At(c, "done") =>
                 disconnected[c] = IF connected[c] = Channel THEN Channel ELSE {}
    BY DEF CallbacksPaired
  <2>1. connected[c] \subseteq Channel /\ disconnected[c] \subseteq Channel
    BY DEF TypeOK
  <2>2. connected[c] = Channel <=> \A ch \in Channel : ch \in connected[c]
    BY <2>1
  <2>3. ASSUME NEW ch \in disconnected[c] PROVE connected[c] = Channel
    BY <2>1, <2>2, <2>3 DEF PairingInv, At
  <2>4. ASSUME At(c, "done") PROVE
        disconnected[c] = IF connected[c] = Channel THEN Channel ELSE {}
    BY <2>1, <2>2, <2>4 DEF PairingInv, At
  <2> QED
    BY <2>3, <2>4
<1> QED
  BY <1>1, <1>2, PairingStep, TypeCorrect, PTL DEF Spec

\* Whoever was past its own onJoin when a connection's read loop ended has
\* forgotten that connection once onLeft has returned (eddwise.go:349).
THEOREM Farewell == Spec => []LeaversForgotten
<1>1. Init => FarewellInv
  BY DEF Init, FarewellInv, LeaversClosed, LeftLocation, ClosedSeeNothing, WitnessesRead
<1>2. FarewellInv => LeaversForgotten
  BY DEF FarewellInv, Forgotten, LeaversForgotten, At
<1> QED
  BY <1>1, <1>2, FarewellStep, TypeCorrect, PTL DEF Spec

=============================================================================
