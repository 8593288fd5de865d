--------------------------- MODULE ShutdownProofs ---------------------------
(***************************************************************************)
(* Proofs of the safety properties of Shutdown, for any set of connections *)
(* and channels, with a timeout and without.                               *)
(***************************************************************************)
EXTENDS Shutdown, HandlerProofs

(***************************************************************************)
(* What chClose holds is what has been written and not been read: each of  *)
(* the timer and App.Shutdown writes once, and Close reads once.           *)
(***************************************************************************)
Count(b) == IF b THEN 1 ELSE 0

Balance ==
  Len(chClose) + Count(caller = "returned") = Count(timer = "fired") + Count(stopper = "done")

NotStarted == caller = "idle" => timer = "off" /\ stopper = "idle"

SenderInv == ShutdownTypeOK /\ Balance /\ NotStarted

-----------------------------------------------------------------------------
\* What the handlers do while Close runs is what they do without it.
LEMMA ServingIsNext ==
  ASSUME NEW c \in Client, Serving(c) PROVE Next /\ UNCHANGED closeVars
  BY DEF Serving, Next, Environment

\* Every step keeps the types and the balance of what is written and read.
LEMMA SenderStep == SenderInv /\ [ShutdownNext]_allVars => SenderInv'
<1> SUFFICES ASSUME SenderInv, [ShutdownNext]_allVars PROVE SenderInv'
  OBVIOUS
<1> USE DEF SenderInv, Balance, NotStarted, Count
<1>1. ASSUME NEW c \in Client, Serving(c) PROVE SenderInv'
  <2>1. TypeOK'
    BY <1>1, ServingIsNext, TypeStep DEF ShutdownTypeOK
  <2> QED
    BY <1>1, <2>1, ServingIsNext DEF ShutdownTypeOK, closeVars
<1>2. CASE UNCHANGED vars /\ (Close \/ StopListening \/ ShutdownReturns \/ TimerFires \/ CloseReturns)
  <2>1. TypeOK'
    BY <1>2, TypeStep DEF ShutdownTypeOK
  <2>2. CASE Close
    BY <2>1, <2>2 DEF Close, ShutdownTypeOK
  <2>3. CASE StopListening
    BY <2>1, <2>3 DEF StopListening, ShutdownTypeOK
  <2>4. CASE ShutdownReturns
    BY <2>1, <2>4 DEF ShutdownReturns, ShutdownTypeOK
  <2>5. CASE TimerFires
    BY <2>1, <2>5 DEF TimerFires, ShutdownTypeOK
  <2>6. CASE CloseReturns
    BY <2>1, <2>6 DEF CloseReturns, ShutdownTypeOK
  <2> QED
    BY <1>2, <2>2, <2>3, <2>4, <2>5, <2>6
<1>3. CASE CloseClients
  <2>1. TypeOK'
    BY <1>3 DEF CloseClients, ShutdownTypeOK, TypeOK, Served, loopVars, historyVars
  <2> QED
    BY <1>3, <2>1 DEF CloseClients, ShutdownTypeOK
<1>4. CASE UNCHANGED allVars
  <2>1. TypeOK'
    BY <1>4, TypeStep DEF ShutdownTypeOK, allVars
  <2> QED
    BY <1>4, <2>1 DEF ShutdownTypeOK, allVars, closeVars
<1>5. Close \/ StopListening \/ ShutdownReturns \/ TimerFires \/ CloseReturns => UNCHANGED vars
  BY DEF Close, StopListening, ShutdownReturns, TimerFires, CloseReturns
<1> HIDE DEF SenderInv
<1> QED
  BY <1>1, <1>2, <1>3, <1>4, <1>5 DEF ShutdownNext, Closing, Ended

-----------------------------------------------------------------------------
\* The types of Close's own state hold, and those of the handlers still do.
THEOREM ShutdownInvariant == ShutdownSpec => []SenderInv
<1>1. ShutdownInit => SenderInv
  <2> SUFFICES ASSUME ShutdownInit PROVE SenderInv
    OBVIOUS
  <2>1. TypeOK
    BY HandlerAssumption DEF ShutdownInit, Init, TypeOK, Location, Served
  <2> QED
    BY <2>1 DEF ShutdownInit, SenderInv, ShutdownTypeOK, Balance, NotStarted, Count
<1> QED
  BY <1>1, SenderStep, PTL DEF ShutdownSpec

\* The type invariant of Close and of the handlers that run with it.
THEOREM ShutdownTypes == ShutdownSpec => []ShutdownTypeOK
<1>1. SenderInv => ShutdownTypeOK
  BY DEF SenderInv
<1> QED
  BY <1>1, ShutdownInvariant, PTL

\* The channel of capacity one (eddwise.go:417) has room for whoever writes to
\* it after Close has read it.
THEOREM SendersAreFree == ShutdownSpec => []NoSenderStuck
<1>1. SenderInv => NoSenderStuck
  BY DEF SenderInv, ShutdownTypeOK, Balance, Count, NoSenderStuck, CanSend, Capacity
<1> QED
  BY <1>1, ShutdownInvariant, PTL

=============================================================================
