------------------------- MODULE ConnManagerProofs -------------------------
(***************************************************************************)
(* Proofs of the safety properties of ConnManager, for any set of          *)
(* connections, users and channels.                                        *)
(***************************************************************************)
EXTENDS ConnManager, TLAPS

(***************************************************************************)
(* A connection is in every ConnManager, of a channel that asks for        *)
(* credentials, that CheckAuth has gone past, and in every such one that   *)
(* RevokeAuth has still to visit.                                          *)
(***************************************************************************)
EntryLocation == {"challenged", "register"}

RegisteredAfterLogin ==
  \A c \in Client :
    /\ At(c, "register") => cur[c] \in Managed
    /\ pc[c] \in {"revoke", "leftRecipients", "leftCast"} => chans[c] \subseteq Managed
    /\ \A ch \in Managed \cap AuthChannel :
         /\ pc[c] \in {"auth", "listUsers", "list", "recipients", "cast", "pass"} =>
              ch \in chans[c] \/ c \in cmClients[ch]
         /\ pc[c] \in EntryLocation =>
              ch \in chans[c] \/ ch = cur[c] \/ c \in cmClients[ch]
         /\ pc[c] \in {"connected", "read"} => c \in cmClients[ch]
         /\ pc[c] \in {"revoke", "leftRecipients", "leftCast"} =>
              (ch \in chans[c] => c \in cmClients[ch])

LoginInv == TypeOK /\ RegisteredAfterLogin

(***************************************************************************)
(* A connection has one Auth field, which every login overwrites.  What is *)
(* proved of the registers takes it to log in as one user on all the       *)
(* channels: otherwise removeAuth looks for it under the last user only.   *)
(***************************************************************************)
OneIdentity ==
  \A c \in Client : \A ch1, ch2 \in Channel :
    \A u \in Logins[c][ch1] : \A v \in Logins[c][ch2] : u = v

AuthIsLogin ==
  \A c \in Client : auth[c] # NoUser => \E ch \in Channel : auth[c] \in Logins[c][ch]

RegisterInv == AuthIsLogin /\ RegistersAgree

(***************************************************************************)
(* A connection that got past CheckAuth keeps its Auth, and is registered, *)
(* once it is being revoked, in no manager but those still to be visited.  *)
(* A send that failed was to another connection, whose peer had gone.      *)
(***************************************************************************)
RevokeLocation == {"revoke", "leftRecipients", "leftCast"}

OthersGone(c) == \E d \in Client \ {c} : HasGone(d)

PassedInv ==
  /\ \A c \in Client : passed[c] =>
       pc[c] \in RevokeLocation \cup {"connected", "read", "done", "crashed"}
  /\ \A ch \in Channel \ Managed :
       cmClients[ch] = {} /\ \A u \in User : userConns[ch][u] = {}
  /\ \A c \in Client : passed[c] /\ pc[c] \in RevokeLocation \cup {"done"} =>
       \A ch \in Channel \ chans[c] : ~Registered(c, ch)

FailureInv ==
  /\ \A c \in Client : At(c, "new") => \A ch \in Channel : c \notin cmClients[ch]
  /\ \A c \in Client : \A d \in todo[c] : d # c /\ ~At(d, "new")
  /\ \A c \in Client : failed[c] => OthersGone(c)
  /\ \A c \in Client : At(c, "done") /\ chans[c] # {} => OthersGone(c)

LogoutInv == PassedInv /\ FailureInv

\* What the steps of AcquaintanceStep need to know of the types.
Typing ==
  /\ \A f \in {pc, open, auth, first, cur, chans, ids, todo, seen} : DOMAIN f = Client
  /\ cmClients \in [Channel -> SUBSET Client]
  /\ Managed \subseteq Channel
  /\ \A c \in Client : \A ch \in Channel : c \in cmClients[ch] => auth[c] \in User

NewcomersAreOut ==
  \A c \in Client : At(c, "new") => \A ch \in Channel : c \notin cmClients[ch]

AcquaintanceInv == NewcomersAreOut /\ UsersAcquainted

-----------------------------------------------------------------------------
\* Every step keeps the types and the registration that its location implies.
LEMMA LoginStep == LoginInv /\ [Next]_vars => LoginInv'
<1> SUFFICES ASSUME LoginInv, [Next]_vars PROVE LoginInv'
  OBVIOUS
<1>1. ASSUME NEW c \in Client, CheckAuth(c) PROVE LoginInv'
  <2> USE ConnAssumption DEF LoginInv, RegisteredAfterLogin, EntryLocation,
       TypeOK, Location, LoopLocation, At, Goto, socketVars, cmVars, loopVars
  <2>1. ASSUME NEW ch \in Channel, Challenge(c, ch) PROVE LoginInv'
    BY <2>1 DEF Challenge
  <2>2. CASE ChallengeFails(c)
    BY <2>2 DEF ChallengeFails, Refuse, Close
  <2>3. CASE LoginReadError(c)
    BY <2>3 DEF LoginReadError, Refuse, Close
  <2>4. CASE SetAuth(c)
    BY <2>4 DEF SetAuth, FirstConnection
  <2>5. CASE ListUsers(c)
    BY <2>5 DEF ListUsers, GetAuthorizedUserIds
  <2>6. ASSUME NEW u \in User, ListUser(c, u) PROVE LoginInv'
    BY <2>6 DEF ListUser, Tell
  <2>7. CASE ListFails(c)
    BY <2>7 DEF ListFails, Refuse, Close
  <2>8. CASE EndList(c)
    BY <2>8 DEF EndList
  <2>9. CASE JoinRecipients(c)
    BY <2>9 DEF JoinRecipients, Recipients, GetAuthorizedUserClients
  <2>10. ASSUME NEW d \in Client, JoinCast(c, d) PROVE LoginInv'
    <3>1. <<cur[c], auth[c]>> \in Channel \X User
      BY <2>10 DEF JoinCast
    <3> QED
      BY <2>10, <3>1 DEF JoinCast, Sent, Tell
  <2>11. CASE EndJoinCast(c)
    BY <2>11 DEF EndJoinCast
  <2>12. CASE JoinCastFails(c)
    BY <2>12 DEF JoinCastFails, Refuse, Close
  <2>13. CASE AuthPass(c)
    BY <2>13 DEF AuthPass
  <2>14. CASE AuthPassFails(c)
    BY <2>14 DEF AuthPassFails, Refuse, Close
  <2>15. CASE EndCheckAuth(c)
    BY <2>15 DEF EndCheckAuth
  <2> HIDE DEF TypeOK, LoginInv
  <2> QED
    BY <1>1, <2>1, <2>2, <2>3, <2>4, <2>5, <2>6, <2>7, <2>8, <2>9, <2>10,
         <2>11, <2>12, <2>13, <2>14, <2>15 DEF CheckAuth
<1>2. ASSUME NEW c \in Client, RevokeAuth(c) PROVE LoginInv'
  <2> USE ConnAssumption DEF LoginInv, RegisteredAfterLogin, EntryLocation,
       TypeOK, Location, LoopLocation, At, Goto, socketVars, cmVars, loopVars
  <2>1. ASSUME NEW ch \in Channel, OthersConnected(c, ch) PROVE LoginInv'
    <3>1. ch \in Managed /\ auth[c] \in User
      BY <2>1 DEF OthersConnected, RemoveAuth
    <3>2. userConns' \in [Channel -> [User -> SUBSET Client]]
      BY <2>1, <3>1 DEF OthersConnected, RemoveAuth, Unregister
    <3>3. TypeOK'
      BY <2>1, <3>1, <3>2 DEF OthersConnected, RemoveAuth, Unregister
    <3>4. RegisteredAfterLogin'
      BY <2>1, <3>1 DEF OthersConnected, RemoveAuth, Unregister
    <3> QED
      BY <3>3, <3>4
  <2>2. ASSUME NEW ch \in Channel, LastConnection(c, ch) PROVE LoginInv'
    <3>1. ch \in Managed /\ auth[c] \in User
      BY <2>2 DEF LastConnection, RemoveAuth
    <3>2. userConns' \in [Channel -> [User -> SUBSET Client]]
      BY <2>2, <3>1 DEF LastConnection, RemoveAuth, Unregister
    <3>3. TypeOK'
      BY <2>2, <3>1, <3>2 DEF LastConnection, RemoveAuth, Unregister
    <3>4. RegisteredAfterLogin'
      BY <2>2, <3>1 DEF LastConnection, RemoveAuth, Unregister
    <3> QED
      BY <3>3, <3>4
  <2>3. CASE LeftRecipients(c)
    BY <2>3 DEF LeftRecipients, Recipients, GetAuthorizedUserClients
  <2>4. ASSUME NEW d \in Client, LeftCast(c, d) PROVE LoginInv'
    BY <2>4 DEF LeftCast, Sent, Tell
  <2>5. CASE EndLeftCast(c)
    BY <2>5 DEF EndLeftCast
  <2>6. CASE LeftCastFails(c)
    BY <2>6 DEF LeftCastFails, Close
  <2>7. CASE EndRevoke(c)
    BY <2>7 DEF EndRevoke, Close
  <2>8. ASSUME NEW ch \in Channel, RevokePanics(c, ch) PROVE LoginInv'
    BY <2>8 DEF RevokePanics
  <2> HIDE DEF TypeOK, LoginInv
  <2> QED
    BY <1>2, <2>1, <2>2, <2>3, <2>4, <2>5, <2>6, <2>7, <2>8 DEF RevokeAuth
<1>3. ASSUME NEW c \in Client, Serve(c) PROVE LoginInv'
  BY <1>3, ConnAssumption DEF LoginInv, RegisteredAfterLogin, EntryLocation,
       TypeOK, Location, LoopLocation, At, Goto, socketVars, cmVars, loopVars,
       Serve, AddClient
<1>4. ASSUME NEW c \in Client, ReadError(c) PROVE LoginInv'
  BY <1>4, ConnAssumption DEF LoginInv, RegisteredAfterLogin, EntryLocation,
       TypeOK, Location, LoopLocation, At, Goto, socketVars, cmVars, loopVars,
       ReadError, Revoking, RemoveClient
<1>5. ASSUME NEW c \in Client, Environment(c) PROVE LoginInv'
  <2> USE ConnAssumption DEF LoginInv, RegisteredAfterLogin, EntryLocation,
       TypeOK, Location, LoopLocation, At, Goto, socketVars, cmVars, loopVars
  <2>1. CASE Accept(c)
    BY <2>1 DEF Accept
  <2>2. ASSUME NEW u \in User, Login(c, u) PROVE LoginInv'
    BY <2>2 DEF Login
  <2>3. CASE BadLogin(c)
    BY <2>3 DEF BadLogin, Refuse, Close
  <2>4. CASE TurnedAway(c)
    BY <2>4 DEF TurnedAway, Revoking
  <2>5. CASE Disconnect(c)
    BY <2>5 DEF Disconnect, PeerClose
  <2> HIDE DEF TypeOK, LoginInv
  <2> QED
    BY <1>5, <2>1, <2>2, <2>3, <2>4, <2>5 DEF Environment
<1>6. CASE UNCHANGED vars
  BY <1>6, ConnAssumption DEF LoginInv, RegisteredAfterLogin, EntryLocation,
       TypeOK, Location, LoopLocation, At, Goto, socketVars, cmVars, loopVars,
       vars
<1> QED
  BY <1>1, <1>2, <1>3, <1>4, <1>5, <1>6 DEF Next, Run, Terminated

\* Every step keeps the two maps of a ConnManager in agreement: setAuth and
\* removeAuth change both under one lock.
LEMMA RegisterStep ==
  ASSUME OneIdentity PROVE LoginInv /\ RegisterInv /\ [Next]_vars => RegisterInv'
<1> SUFFICES ASSUME LoginInv, RegisterInv, [Next]_vars PROVE RegisterInv'
  OBVIOUS
<1>1. ASSUME NEW c \in Client, CheckAuth(c) PROVE RegisterInv'
  <2> USE ConnAssumption DEF LoginInv, RegisterInv, AuthIsLogin,
       RegistersAgree, RegisteredAfterLogin, EntryLocation, TypeOK, Location,
       LoopLocation, At, Goto, socketVars, cmVars, loopVars
  <2>1. ASSUME NEW ch \in Channel, Challenge(c, ch) PROVE RegisterInv'
    BY <2>1 DEF Challenge
  <2>2. CASE ChallengeFails(c)
    BY <2>2 DEF ChallengeFails, Refuse, Close
  <2>3. CASE LoginReadError(c)
    BY <2>3 DEF LoginReadError, Refuse, Close
  <2>4. CASE SetAuth(c)
    BY <2>4 DEF SetAuth, FirstConnection
  <2>5. CASE ListUsers(c)
    BY <2>5 DEF ListUsers, GetAuthorizedUserIds
  <2>6. ASSUME NEW u \in User, ListUser(c, u) PROVE RegisterInv'
    BY <2>6 DEF ListUser, Tell
  <2>7. CASE ListFails(c)
    BY <2>7 DEF ListFails, Refuse, Close
  <2>8. CASE EndList(c)
    BY <2>8 DEF EndList
  <2>9. CASE JoinRecipients(c)
    BY <2>9 DEF JoinRecipients, Recipients, GetAuthorizedUserClients
  <2>10. ASSUME NEW d \in Client, JoinCast(c, d) PROVE RegisterInv'
    BY <2>10 DEF JoinCast, Sent, Tell
  <2>11. CASE EndJoinCast(c)
    BY <2>11 DEF EndJoinCast
  <2>12. CASE JoinCastFails(c)
    BY <2>12 DEF JoinCastFails, Refuse, Close
  <2>13. CASE AuthPass(c)
    BY <2>13 DEF AuthPass
  <2>14. CASE AuthPassFails(c)
    BY <2>14 DEF AuthPassFails, Refuse, Close
  <2>15. CASE EndCheckAuth(c)
    BY <2>15 DEF EndCheckAuth
  <2> HIDE DEF TypeOK, LoginInv, RegisterInv
  <2> QED
    BY <1>1, <2>1, <2>2, <2>3, <2>4, <2>5, <2>6, <2>7, <2>8, <2>9, <2>10,
         <2>11, <2>12, <2>13, <2>14, <2>15 DEF CheckAuth
<1>2. ASSUME NEW c \in Client, RevokeAuth(c) PROVE RegisterInv'
  <2> USE ConnAssumption DEF LoginInv, RegisterInv, AuthIsLogin,
       RegistersAgree, RegisteredAfterLogin, EntryLocation, TypeOK, Location,
       LoopLocation, At, Goto, socketVars, cmVars, loopVars
  <2>1. ASSUME NEW ch \in Channel, OthersConnected(c, ch) PROVE RegisterInv'
    BY <2>1 DEF OthersConnected, RemoveAuth, Unregister, AnyConnected
  <2>2. ASSUME NEW ch \in Channel, LastConnection(c, ch) PROVE RegisterInv'
    BY <2>2 DEF LastConnection, RemoveAuth, Unregister, AnyConnected
  <2>3. CASE LeftRecipients(c)
    BY <2>3 DEF LeftRecipients, Recipients, GetAuthorizedUserClients
  <2>4. ASSUME NEW d \in Client, LeftCast(c, d) PROVE RegisterInv'
    BY <2>4 DEF LeftCast, Sent, Tell
  <2>5. CASE EndLeftCast(c)
    BY <2>5 DEF EndLeftCast
  <2>6. CASE LeftCastFails(c)
    BY <2>6 DEF LeftCastFails, Close
  <2>7. CASE EndRevoke(c)
    BY <2>7 DEF EndRevoke, Close
  <2>8. ASSUME NEW ch \in Channel, RevokePanics(c, ch) PROVE RegisterInv'
    BY <2>8 DEF RevokePanics
  <2> HIDE DEF TypeOK, LoginInv, RegisterInv
  <2> QED
    BY <1>2, <2>1, <2>2, <2>3, <2>4, <2>5, <2>6, <2>7, <2>8 DEF RevokeAuth
<1>3. ASSUME NEW c \in Client, Serve(c) PROVE RegisterInv'
  BY <1>3, ConnAssumption DEF LoginInv, RegisterInv, AuthIsLogin,
       RegistersAgree, RegisteredAfterLogin, EntryLocation, TypeOK, Location,
       LoopLocation, At, Goto, socketVars, cmVars, loopVars, Serve, AddClient
<1>4. ASSUME NEW c \in Client, ReadError(c) PROVE RegisterInv'
  BY <1>4, ConnAssumption DEF LoginInv, RegisterInv, AuthIsLogin,
       RegistersAgree, RegisteredAfterLogin, EntryLocation, TypeOK, Location,
       LoopLocation, At, Goto, socketVars, cmVars, loopVars, ReadError,
       Revoking, RemoveClient
<1>5. ASSUME NEW c \in Client, Environment(c) PROVE RegisterInv'
  <2> USE ConnAssumption DEF LoginInv, RegisterInv, AuthIsLogin,
       RegistersAgree, RegisteredAfterLogin, EntryLocation, TypeOK, Location,
       LoopLocation, At, Goto, socketVars, cmVars, loopVars
  <2>1. CASE Accept(c)
    BY <2>1 DEF Accept
  <2>2. ASSUME NEW u \in User, Login(c, u) PROVE RegisterInv'
    <3>1. auth[c] = NoUser \/ auth[c] = u
      BY <2>2 DEF Login, OneIdentity
    <3> QED
      BY <2>2, <3>1 DEF Login
  <2>3. CASE BadLogin(c)
    BY <2>3 DEF BadLogin, Refuse, Close
  <2>4. CASE TurnedAway(c)
    BY <2>4 DEF TurnedAway, Revoking
  <2>5. CASE Disconnect(c)
    BY <2>5 DEF Disconnect, PeerClose
  <2> HIDE DEF TypeOK, LoginInv, RegisterInv
  <2> QED
    BY <1>5, <2>1, <2>2, <2>3, <2>4, <2>5 DEF Environment
<1>6. CASE UNCHANGED vars
  BY <1>6, ConnAssumption DEF LoginInv, RegisterInv, AuthIsLogin,
       RegistersAgree, RegisteredAfterLogin, EntryLocation, TypeOK, Location,
       LoopLocation, At, Goto, socketVars, cmVars, loopVars, vars
<1> QED
  BY <1>1, <1>2, <1>3, <1>4, <1>5, <1>6 DEF Next, Run, Terminated

\* A connection that CheckAuth refused has not got past it.
LEMMA RefusedStep ==
  ASSUME NEW c \in Client, LoginInv, PassedInv, ~passed[c], Refuse(c)
  PROVE  PassedInv'
<1>1. /\ pc' = [pc EXCEPT ![c] = "done"]
      /\ chans' = [chans EXCEPT ![c] = {}]
      /\ UNCHANGED <<auth, cmClients, userConns, passed>>
  BY DEF Refuse, Close, Goto, cmVars
<1>2. pc \in [Client -> Location] /\ chans \in [Client -> SUBSET Channel]
  BY DEF LoginInv, TypeOK
<1>3. ASSUME NEW d \in Client, passed'[d]
      PROVE  d # c /\ passed[d] /\ pc'[d] = pc[d] /\ chans'[d] = chans[d]
  BY <1>1, <1>2, <1>3
<1>4. \A d \in Client : \A ch \in Channel : Registered(d, ch)' <=> Registered(d, ch)
  BY <1>1 DEF Registered
<1> QED
  BY <1>1, <1>3, <1>4 DEF PassedInv

\* Every step of a connection that got past CheckAuth leaves it registered only
\* where its RevokeAuth is still to come: its Auth is the one it is registered
\* under by then, and it is in none of the managers taken off chans.
LEMMA PassedStep == LoginInv /\ PassedInv /\ [Next]_vars => PassedInv'
<1> SUFFICES ASSUME LoginInv, PassedInv, [Next]_vars PROVE PassedInv'
  OBVIOUS
<1>1. ASSUME NEW c \in Client, CheckAuth(c) PROVE PassedInv'
  <2> USE ConnAssumption DEF LoginInv, PassedInv, Registered, RegisteredAfterLogin, EntryLocation, TypeOK,
       Location, LoopLocation, RevokeLocation, At, Goto, socketVars, cmVars, loopVars
  <2>1. ASSUME NEW ch \in Channel, Challenge(c, ch) PROVE PassedInv'
    BY <2>1 DEF Challenge
  <2>2. CASE ChallengeFails(c)
    <3>1. Refuse(c) /\ ~passed[c]
      BY <2>2 DEF ChallengeFails
    <3> QED
      BY <3>1, RefusedStep
  <2>3. CASE LoginReadError(c)
    <3>1. Refuse(c) /\ ~passed[c]
      BY <2>3 DEF LoginReadError
    <3> QED
      BY <3>1, RefusedStep
  <2>4. CASE SetAuth(c)
    BY <2>4 DEF SetAuth, FirstConnection
  <2>5. CASE ListUsers(c)
    BY <2>5 DEF ListUsers, GetAuthorizedUserIds
  <2>6. ASSUME NEW u \in User, ListUser(c, u) PROVE PassedInv'
    BY <2>6 DEF ListUser, Tell
  <2>7. CASE ListFails(c)
    <3>1. Refuse(c) /\ ~passed[c]
      BY <2>7 DEF ListFails
    <3> QED
      BY <3>1, RefusedStep
  <2>8. CASE EndList(c)
    BY <2>8 DEF EndList
  <2>9. CASE JoinRecipients(c)
    BY <2>9 DEF JoinRecipients, Recipients, GetAuthorizedUserClients
  <2>10. ASSUME NEW d \in Client, JoinCast(c, d) PROVE PassedInv'
    BY <2>10 DEF JoinCast, Sent, Tell
  <2>11. CASE EndJoinCast(c)
    BY <2>11 DEF EndJoinCast
  <2>12. CASE JoinCastFails(c)
    <3>1. Refuse(c) /\ ~passed[c]
      BY <2>12 DEF JoinCastFails
    <3> QED
      BY <3>1, RefusedStep
  <2>13. CASE AuthPass(c)
    BY <2>13 DEF AuthPass
  <2>14. CASE AuthPassFails(c)
    <3>1. Refuse(c) /\ ~passed[c]
      BY <2>14 DEF AuthPassFails
    <3> QED
      BY <3>1, RefusedStep
  <2>15. CASE EndCheckAuth(c)
    BY <2>15 DEF EndCheckAuth
  <2> HIDE DEF TypeOK, LoginInv, PassedInv
  <2> QED
    BY <1>1, <2>1, <2>2, <2>3, <2>4, <2>5, <2>6, <2>7, <2>8, <2>9, <2>10,
         <2>11, <2>12, <2>13, <2>14, <2>15 DEF CheckAuth
<1>2. ASSUME NEW c \in Client, RevokeAuth(c) PROVE PassedInv'
  <2> USE ConnAssumption DEF LoginInv, PassedInv, Registered, RegisteredAfterLogin, EntryLocation, TypeOK,
       Location, LoopLocation, RevokeLocation, At, Goto, socketVars, cmVars, loopVars
  <2>1. ASSUME NEW ch \in Channel, OthersConnected(c, ch) PROVE PassedInv'
    BY <2>1 DEF OthersConnected, RemoveAuth, Unregister, AnyConnected
  <2>2. ASSUME NEW ch \in Channel, LastConnection(c, ch) PROVE PassedInv'
    BY <2>2 DEF LastConnection, RemoveAuth, Unregister, AnyConnected
  <2>3. CASE LeftRecipients(c)
    BY <2>3 DEF LeftRecipients, Recipients, GetAuthorizedUserClients
  <2>4. ASSUME NEW d \in Client, LeftCast(c, d) PROVE PassedInv'
    BY <2>4 DEF LeftCast, Sent, Tell
  <2>5. CASE EndLeftCast(c)
    BY <2>5 DEF EndLeftCast
  <2>6. CASE LeftCastFails(c)
    BY <2>6 DEF LeftCastFails, Close
  <2>7. CASE EndRevoke(c)
    BY <2>7 DEF EndRevoke, Close
  <2>8. ASSUME NEW ch \in Channel, RevokePanics(c, ch) PROVE PassedInv'
    BY <2>8 DEF RevokePanics
  <2> HIDE DEF TypeOK, LoginInv, PassedInv
  <2> QED
    BY <1>2, <2>1, <2>2, <2>3, <2>4, <2>5, <2>6, <2>7, <2>8 DEF RevokeAuth
<1>3. ASSUME NEW c \in Client, Serve(c) PROVE PassedInv'
  BY <1>3, ConnAssumption DEF LoginInv, PassedInv, Registered, RegisteredAfterLogin, EntryLocation, TypeOK,
       Location, LoopLocation, RevokeLocation, At, Goto, socketVars, cmVars, loopVars,
       Serve, AddClient
<1>4. ASSUME NEW c \in Client, ReadError(c) PROVE PassedInv'
  BY <1>4, ConnAssumption DEF LoginInv, PassedInv, Registered, RegisteredAfterLogin, EntryLocation, TypeOK,
       Location, LoopLocation, RevokeLocation, At, Goto, socketVars, cmVars, loopVars,
       ReadError, Revoking, RemoveClient
<1>5. ASSUME NEW c \in Client, Environment(c) PROVE PassedInv'
  <2> USE ConnAssumption DEF LoginInv, PassedInv, Registered, RegisteredAfterLogin, EntryLocation, TypeOK,
       Location, LoopLocation, RevokeLocation, At, Goto, socketVars, cmVars, loopVars
  <2>1. CASE Accept(c)
    BY <2>1 DEF Accept
  <2>2. ASSUME NEW u \in User, Login(c, u) PROVE PassedInv'
    BY <2>2 DEF Login
  <2>3. CASE BadLogin(c)
    <3>1. Refuse(c) /\ ~passed[c]
      BY <2>3 DEF BadLogin
    <3> QED
      BY <3>1, RefusedStep
  <2>4. CASE TurnedAway(c)
    BY <2>4 DEF TurnedAway, Revoking
  <2>5. CASE Disconnect(c)
    BY <2>5 DEF Disconnect, PeerClose
  <2> HIDE DEF TypeOK, LoginInv, PassedInv
  <2> QED
    BY <1>5, <2>1, <2>2, <2>3, <2>4, <2>5 DEF Environment
<1>6. CASE UNCHANGED vars
  BY <1>6 DEF LoginInv, PassedInv, Registered, RegisteredAfterLogin, EntryLocation, TypeOK,
       Location, LoopLocation, RevokeLocation, At, Goto, socketVars, cmVars, loopVars, vars
<1> QED
  BY <1>1, <1>2, <1>3, <1>4, <1>5, <1>6 DEF Next, Run, Terminated

\* Every step keeps apart the connections whose sockets may fail a broadcast from
\* the one whose broadcast it is.
LEMMA FailureStep == TypeOK /\ FailureInv /\ [Next]_vars => FailureInv'
<1> SUFFICES ASSUME TypeOK, FailureInv, [Next]_vars PROVE FailureInv'
  OBVIOUS
<1>1. ASSUME NEW c \in Client, CheckAuth(c) PROVE FailureInv'
  <2> USE ConnAssumption DEF FailureInv, OthersGone, HasGone, TypeOK,
       Location, LoopLocation, RevokeLocation, At, Goto, socketVars, cmVars, loopVars
  <2>1. ASSUME NEW ch \in Channel, Challenge(c, ch) PROVE FailureInv'
    BY <2>1 DEF Challenge
  <2>2. CASE ChallengeFails(c)
    BY <2>2 DEF ChallengeFails, Refuse, Close
  <2>3. CASE LoginReadError(c)
    BY <2>3 DEF LoginReadError, Refuse, Close
  <2>4. CASE SetAuth(c)
    BY <2>4 DEF SetAuth, FirstConnection
  <2>5. CASE ListUsers(c)
    BY <2>5 DEF ListUsers, GetAuthorizedUserIds
  <2>6. ASSUME NEW u \in User, ListUser(c, u) PROVE FailureInv'
    BY <2>6 DEF ListUser, Tell
  <2>7. CASE ListFails(c)
    BY <2>7 DEF ListFails, Refuse, Close
  <2>8. CASE EndList(c)
    BY <2>8 DEF EndList
  <2>9. CASE JoinRecipients(c)
    BY <2>9 DEF JoinRecipients, Recipients, GetAuthorizedUserClients
  <2>10. ASSUME NEW d \in Client, JoinCast(c, d) PROVE FailureInv'
    <3>1. /\ d \in todo[c]
          /\ todo' = [todo EXCEPT ![c] = @ \ {d}]
          /\ UNCHANGED <<pc, open, chans, cmClients>>
          /\ failed' = failed \/ (~open[d] /\ failed' = [failed EXCEPT ![c] = TRUE])
      BY <2>10 DEF JoinCast, Sent, SendFails
    <3>2. d # c /\ ~At(d, "new")
      BY <3>1
    <3>3. \A e \in Client : failed'[e] => OthersGone(e)
      BY <3>1, <3>2
    <3> QED
      BY <3>1, <3>3
  <2>11. CASE EndJoinCast(c)
    BY <2>11 DEF EndJoinCast
  <2>12. CASE JoinCastFails(c)
    BY <2>12 DEF JoinCastFails, Refuse, Close
  <2>13. CASE AuthPass(c)
    BY <2>13 DEF AuthPass
  <2>14. CASE AuthPassFails(c)
    BY <2>14 DEF AuthPassFails, Refuse, Close
  <2>15. CASE EndCheckAuth(c)
    BY <2>15 DEF EndCheckAuth
  <2> HIDE DEF TypeOK, FailureInv
  <2> QED
    BY <1>1, <2>1, <2>2, <2>3, <2>4, <2>5, <2>6, <2>7, <2>8, <2>9, <2>10,
         <2>11, <2>12, <2>13, <2>14, <2>15 DEF CheckAuth
<1>2. ASSUME NEW c \in Client, RevokeAuth(c) PROVE FailureInv'
  <2> USE ConnAssumption DEF FailureInv, OthersGone, HasGone, TypeOK,
       Location, LoopLocation, RevokeLocation, At, Goto, socketVars, cmVars, loopVars
  <2>1. ASSUME NEW ch \in Channel, OthersConnected(c, ch) PROVE FailureInv'
    BY <2>1 DEF OthersConnected, RemoveAuth, Unregister, AnyConnected
  <2>2. ASSUME NEW ch \in Channel, LastConnection(c, ch) PROVE FailureInv'
    BY <2>2 DEF LastConnection, RemoveAuth, Unregister, AnyConnected
  <2>3. CASE LeftRecipients(c)
    BY <2>3 DEF LeftRecipients, Recipients, GetAuthorizedUserClients
  <2>4. ASSUME NEW d \in Client, LeftCast(c, d) PROVE FailureInv'
    <3>1. /\ d \in todo[c]
          /\ todo' = [todo EXCEPT ![c] = @ \ {d}]
          /\ UNCHANGED <<pc, open, chans, cmClients>>
          /\ failed' = failed \/ (~open[d] /\ failed' = [failed EXCEPT ![c] = TRUE])
      BY <2>4 DEF LeftCast, Sent, SendFails
    <3>2. d # c /\ ~At(d, "new")
      BY <3>1
    <3>3. \A e \in Client : failed'[e] => OthersGone(e)
      BY <3>1, <3>2
    <3> QED
      BY <3>1, <3>3
  <2>5. CASE EndLeftCast(c)
    BY <2>5 DEF EndLeftCast
  <2>6. CASE LeftCastFails(c)
    BY <2>6 DEF LeftCastFails, Close
  <2>7. CASE EndRevoke(c)
    BY <2>7 DEF EndRevoke, Close
  <2>8. ASSUME NEW ch \in Channel, RevokePanics(c, ch) PROVE FailureInv'
    BY <2>8 DEF RevokePanics
  <2> HIDE DEF TypeOK, FailureInv
  <2> QED
    BY <1>2, <2>1, <2>2, <2>3, <2>4, <2>5, <2>6, <2>7, <2>8 DEF RevokeAuth
<1>3. ASSUME NEW c \in Client, Serve(c) PROVE FailureInv'
  BY <1>3, ConnAssumption DEF FailureInv, OthersGone, HasGone, TypeOK,
       Location, LoopLocation, RevokeLocation, At, Goto, socketVars, cmVars, loopVars,
       Serve, AddClient
<1>4. ASSUME NEW c \in Client, ReadError(c) PROVE FailureInv'
  BY <1>4, ConnAssumption DEF FailureInv, OthersGone, HasGone, TypeOK,
       Location, LoopLocation, RevokeLocation, At, Goto, socketVars, cmVars, loopVars,
       ReadError, Revoking, RemoveClient
<1>5. ASSUME NEW c \in Client, Environment(c) PROVE FailureInv'
  <2> USE ConnAssumption DEF FailureInv, OthersGone, HasGone, TypeOK,
       Location, LoopLocation, RevokeLocation, At, Goto, socketVars, cmVars, loopVars
  <2>1. CASE Accept(c)
    BY <2>1 DEF Accept
  <2>2. ASSUME NEW u \in User, Login(c, u) PROVE FailureInv'
    BY <2>2 DEF Login
  <2>3. CASE BadLogin(c)
    BY <2>3 DEF BadLogin, Refuse, Close
  <2>4. CASE TurnedAway(c)
    BY <2>4 DEF TurnedAway, Revoking
  <2>5. CASE Disconnect(c)
    BY <2>5 DEF Disconnect, PeerClose
  <2> HIDE DEF TypeOK, FailureInv
  <2> QED
    BY <1>5, <2>1, <2>2, <2>3, <2>4, <2>5 DEF Environment
<1>6. CASE UNCHANGED vars
  BY <1>6 DEF FailureInv, OthersGone, HasGone, TypeOK,
       Location, LoopLocation, RevokeLocation, At, Goto, socketVars, cmVars, loopVars, vars
<1> QED
  BY <1>1, <1>2, <1>3, <1>4, <1>5, <1>6 DEF Next, Run, Terminated

\* The part of TypeOK that says the variables are functions on Client.
LEMMA Frames == TypeOK => Typing
BY ConnAssumption DEF TypeOK, Typing

\* Every step keeps the users of a channel acquainted: onJoin lists those who
\* registered before, and tells of the newcomer those who registered before the
\* recipients are collected.
LEMMA AcquaintanceStep ==
  ASSUME OneIdentity
  PROVE  LoginInv /\ RegisterInv /\ AcquaintanceInv /\ [Next]_vars => AcquaintanceInv'
<1> SUFFICES ASSUME LoginInv, Typing, RegisterInv, AcquaintanceInv, [Next]_vars
             PROVE  AcquaintanceInv'
  BY Frames DEF LoginInv
<1>1. ASSUME NEW c \in Client, CheckAuth(c) PROVE AcquaintanceInv'
  <2> USE Typing DEF Typing, AcquaintanceInv, NewcomersAreOut, UsersAcquainted,
       BeingAnnounced, BeingListed, HasEnded, At, Goto, socketVars, cmVars,
       loopVars
  <2>1. ASSUME NEW ch \in Channel, Challenge(c, ch) PROVE AcquaintanceInv'
    BY <2>1 DEF Challenge
  <2>2. CASE ChallengeFails(c)
    BY <2>2 DEF ChallengeFails, Refuse, Close
  <2>3. CASE LoginReadError(c)
    BY <2>3 DEF LoginReadError, Refuse, Close
  <2>4. CASE SetAuth(c)
    <3> DEFINE ch == cur[c]
               u  == auth[c]
    <3>1. /\ ch \in Channel
          /\ u \in User
          /\ At(c, "register")
          /\ first' = [first EXCEPT ![c] = FirstConnection(c, ch, u)]
          /\ cmClients' = [cmClients EXCEPT ![ch] = @ \cup {c}]
          /\ pc' = [pc EXCEPT ![c] = IF ch \in Announcing THEN "listUsers" ELSE "pass"]
          /\ UNCHANGED <<open, auth, chans, cur, ids, todo, seen>>
      BY <2>4 DEF SetAuth, LoginInv, TypeOK, LoopLocation
    <3>2. ASSUME ~FirstConnection(c, ch, u)
          PROVE  \E d \in cmClients[ch] : auth[d] = u
      <4>1. userConns[ch][u] = {d \in cmClients[ch] : auth[d] = u}
        BY <3>1 DEF RegisterInv, RegistersAgree
      <4>2. \E d \in userConns[ch][u] : d # c
        BY <3>2, <3>1 DEF FirstConnection
      <4> QED
        BY <4>1, <4>2
    <3>3. FirstConnection(c, ch, u) \in BOOLEAN
      BY DEF FirstConnection
    <3>4. NewcomersAreOut'
      BY <3>1
    <3> HIDE DEF ch, u
    <3>5. ASSUME NEW k \in Managed \cap Announcing,
                 NEW a \in cmClients[k], NEW b \in cmClients[k]
          PROVE  \/ auth[a] = auth[b]
                 \/ ~open[b]
                 \/ <<k, auth[a]>> \in seen[b]
                 \/ BeingAnnounced(auth[a], k, b)'
                 \/ BeingListed(auth[a], k, b)'
                 \/ \E d \in Client : auth[d] = auth[a] /\ HasEnded(d)'
      BY <3>1 DEF ch, u
    <3> QED
      BY <3>1, <3>2, <3>3, <3>4, <3>5 DEF ch, u
  <2>5. CASE ListUsers(c)
    <3>1. RegistersAgree
      BY DEF RegisterInv
    <3> QED
      BY <2>5, <3>1 DEF ListUsers, GetAuthorizedUserIds, RegistersAgree
  <2>6. ASSUME NEW u \in User, ListUser(c, u) PROVE AcquaintanceInv'
    BY <2>6 DEF ListUser, Tell
  <2>7. CASE ListFails(c)
    BY <2>7 DEF ListFails, Refuse, Close
  <2>8. CASE EndList(c)
    BY <2>8 DEF EndList
  <2>9. CASE JoinRecipients(c)
    BY <2>9 DEF JoinRecipients, Recipients, GetAuthorizedUserClients
  <2>10. ASSUME NEW d \in Client, JoinCast(c, d) PROVE AcquaintanceInv'
    BY <2>10 DEF JoinCast, Sent, Tell, SendFails
  <2>11. CASE EndJoinCast(c)
    BY <2>11 DEF EndJoinCast
  <2>12. CASE JoinCastFails(c)
    BY <2>12 DEF JoinCastFails, Refuse, Close
  <2>13. CASE AuthPass(c)
    BY <2>13 DEF AuthPass
  <2>14. CASE AuthPassFails(c)
    BY <2>14 DEF AuthPassFails, Refuse, Close
  <2>15. CASE EndCheckAuth(c)
    BY <2>15 DEF EndCheckAuth
  <2> HIDE DEF Typing, AcquaintanceInv
  <2> QED
    BY <1>1, <2>1, <2>2, <2>3, <2>4, <2>5, <2>6, <2>7, <2>8, <2>9, <2>10,
         <2>11, <2>12, <2>13, <2>14, <2>15 DEF CheckAuth
<1>2. ASSUME NEW c \in Client, RevokeAuth(c) PROVE AcquaintanceInv'
  <2> USE Typing DEF Typing, AcquaintanceInv, NewcomersAreOut, UsersAcquainted,
       BeingAnnounced, BeingListed, HasEnded, At, Goto, socketVars, cmVars,
       loopVars
  <2>1. ASSUME NEW ch \in Channel, OthersConnected(c, ch) PROVE
       AcquaintanceInv'
    BY <2>1 DEF OthersConnected, RemoveAuth, Unregister, AnyConnected
  <2>2. ASSUME NEW ch \in Channel, LastConnection(c, ch) PROVE AcquaintanceInv'
    BY <2>2 DEF LastConnection, RemoveAuth, Unregister, AnyConnected
  <2>3. CASE LeftRecipients(c)
    BY <2>3 DEF LeftRecipients, Recipients, GetAuthorizedUserClients
  <2>4. ASSUME NEW d \in Client, LeftCast(c, d) PROVE AcquaintanceInv'
    BY <2>4 DEF LeftCast, Sent, Tell, SendFails
  <2>5. CASE EndLeftCast(c)
    BY <2>5 DEF EndLeftCast
  <2>6. CASE LeftCastFails(c)
    BY <2>6 DEF LeftCastFails, Close
  <2>7. CASE EndRevoke(c)
    BY <2>7 DEF EndRevoke, Close
  <2>8. ASSUME NEW ch \in Channel, RevokePanics(c, ch) PROVE AcquaintanceInv'
    BY <2>8 DEF RevokePanics
  <2> HIDE DEF Typing, AcquaintanceInv
  <2> QED
    BY <1>2, <2>1, <2>2, <2>3, <2>4, <2>5, <2>6, <2>7, <2>8 DEF RevokeAuth
<1>3. ASSUME NEW c \in Client, Serve(c) PROVE AcquaintanceInv'
  BY <1>3, Typing DEF Typing, AcquaintanceInv, NewcomersAreOut,
       UsersAcquainted, BeingAnnounced, BeingListed, HasEnded, At, Goto,
       socketVars, cmVars, loopVars, Serve, AddClient
<1>4. ASSUME NEW c \in Client, ReadError(c) PROVE AcquaintanceInv'
  BY <1>4, Typing DEF Typing, AcquaintanceInv, NewcomersAreOut,
       UsersAcquainted, BeingAnnounced, BeingListed, HasEnded, At, Goto,
       socketVars, cmVars, loopVars, ReadError, Revoking, RemoveClient
<1>5. ASSUME NEW c \in Client, Environment(c) PROVE AcquaintanceInv'
  <2> USE Typing DEF Typing, AcquaintanceInv, NewcomersAreOut, UsersAcquainted,
       BeingAnnounced, BeingListed, HasEnded, At, Goto, socketVars, cmVars,
       loopVars
  <2>1. CASE Accept(c)
    BY <2>1 DEF Accept
  <2>2. ASSUME NEW u \in User, Login(c, u) PROVE AcquaintanceInv'
    <3>1. cur[c] \in Channel /\ u \in Logins[c][cur[c]]
      BY <2>2 DEF Login, LoginInv, TypeOK, LoopLocation
    <3>2. auth[c] # NoUser => auth[c] = u
      BY <3>1 DEF OneIdentity, RegisterInv, AuthIsLogin
    <3>3. /\ pc[c] = "challenged"
          /\ auth' = [auth EXCEPT ![c] = u]
          /\ pc' = [pc EXCEPT ![c] = IF cur[c] \in Managed THEN "register" ELSE "pass"]
          /\ UNCHANGED <<open, cmClients, chans, cur, first, ids, todo, seen>>
      BY <2>2 DEF Login
    <3>4. ASSUME NEW d \in Client, NEW ch \in Channel, d \in cmClients[ch]
          PROVE  auth'[d] = auth[d]
      BY <3>2, <3>3, <3>4, ConnAssumption
    <3> QED
      BY <3>2, <3>3, <3>4
  <2>3. CASE BadLogin(c)
    BY <2>3 DEF BadLogin, Refuse, Close
  <2>4. CASE TurnedAway(c)
    BY <2>4 DEF TurnedAway, Revoking
  <2>5. CASE Disconnect(c)
    BY <2>5 DEF Disconnect, PeerClose
  <2> HIDE DEF Typing, AcquaintanceInv
  <2> QED
    BY <1>5, <2>1, <2>2, <2>3, <2>4, <2>5 DEF Environment
<1>6. CASE UNCHANGED vars
  BY <1>6, Typing DEF Typing, AcquaintanceInv, NewcomersAreOut,
       UsersAcquainted, BeingAnnounced, BeingListed, HasEnded, At, Goto,
       socketVars, cmVars, loopVars, vars
<1> QED
  BY <1>1, <1>2, <1>3, <1>4, <1>5, <1>6 DEF Next, Run, Terminated

-----------------------------------------------------------------------------
\* Every location of CheckAuth and RevokeAuth finds the channel and the Auth
\* that the code there dereferences.
THEOREM TypeCorrect == Spec => []TypeOK
<1>1. Init => LoginInv
  BY ConnAssumption DEF Init, LoginInv, TypeOK, RegisteredAfterLogin,
     EntryLocation, Location, LoopLocation, At
<1>2. LoginInv => TypeOK
  BY DEF LoginInv
<1> QED
  BY <1>1, <1>2, LoginStep, PTL DEF Spec

\* The inductive invariant of the login itself: where a connection is tells
\* which ConnManagers it is registered in.
THEOREM LoginInvariant == Spec => []LoginInv
<1>1. Init => LoginInv
  BY ConnAssumption DEF Init, LoginInv, TypeOK, RegisteredAfterLogin,
     EntryLocation, Location, LoopLocation, At
<1> QED
  BY <1>1, LoginStep, PTL DEF Spec

\* removeAuth (auth.go:96) finds the entry whose method it calls on every channel
\* that asked the connection for credentials, whatever the accounts and the
\* channels: it can panic only where a ConnManager has no OnBasicAuth with it.
THEOREM RevokeIsSafe == Spec => []RevokeFindsClient
<1>1. LoginInv => RevokeFindsClient
  BY ConnAssumption DEF LoginInv, TypeOK, RegisteredAfterLogin,
     RevokeFindsClient, At
<1> QED
  BY <1>1, LoginInvariant, PTL

\* cm.clients and cm.userConnections (auth.go:66-112) describe the same
\* connections, when nobody logs in as two users.
THEOREM Registers == ASSUME OneIdentity PROVE Spec => []RegistersAgree
<1>1. Init => RegisterInv
  BY ConnAssumption DEF Init, RegisterInv, AuthIsLogin, RegistersAgree
<1>2. RegisterInv => RegistersAgree
  BY DEF RegisterInv
<1> QED
  BY <1>1, <1>2, RegisterStep, LoginInvariant, PTL DEF Spec

\* The deferred RevokeAuth (auth.go:202) undoes a login that succeeded in every
\* manager it comes to, under the account of the last login; it leaves managers
\* out only when the socket of another connection broke.  For any number of
\* managers and any accounts.
THEOREM Logout == Spec => []LogoutUnregisters
<1>1. Init => LogoutInv
  BY DEF Init, LogoutInv, PassedInv, FailureInv, At
<1>2. LogoutInv => LogoutUnregisters
  BY DEF LogoutInv, PassedInv, FailureInv, OthersGone, LogoutUnregisters,
     Unvisited, At
<1>3. LoginInv => TypeOK
  BY DEF LoginInv
<1>4. LoginInv /\ LogoutInv /\ [Next]_vars => LogoutInv'
  BY <1>3, PassedStep, FailureStep DEF LogoutInv
<1> QED
  BY <1>1, <1>2, <1>4, LoginInvariant, PTL DEF Spec

\* Users who log in at the same time learn of each other (onJoin,
\* user_join.go:91), whatever the order of the critical sections.
THEOREM Acquaintance ==
  ASSUME OneIdentity PROVE Spec => []UsersAcquainted
<1>1. Init => AcquaintanceInv /\ RegisterInv
  BY ConnAssumption DEF Init, AcquaintanceInv, NewcomersAreOut, UsersAcquainted,
     RegisterInv, AuthIsLogin, RegistersAgree, At
<1>2. AcquaintanceInv => UsersAcquainted
  BY DEF AcquaintanceInv
<1> QED
  BY <1>1, <1>2, RegisterStep, AcquaintanceStep, LoginInvariant, PTL DEF Spec

=============================================================================
