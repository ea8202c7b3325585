-------------------------- MODULE DebugService_proofs --------------------------
(***************************************************************************)
(* debug.Run never invents a Stop, for every handler and number of key     *)
(* presses.                                                                *)
(***************************************************************************)
EXTENDS DebugService, TLAPS

\* Every step keeps the types.
LEMMA TypingStep == TypeOK /\ [Next]_vars => TypeOK'
<1> SUFFICES ASSUME TypeOK, [Next]_vars PROVE TypeOK'
  OBVIOUS
<1>a. MaxSignals \in Nat /\ Reports \subseteq Status /\ ExitCodes \subseteq exitCode
  BY DebugAssumption, HandlerAssumption
<1> USE DEF TypeOK, HTypeOK
<1>1. CASE UNCHANGED vars
  BY <1>1 DEF vars, hVars, dVars
<1>2. CASE PumpSelect
  BY <1>2 DEF PumpSelect, hVars
<1>3. CASE CtrlC
  BY <1>a, <1>3 DEF CtrlC, hVars
<1>4. CASE PumpSend
  <2>1. [Cmd |-> "Stop", CurrentStatus |-> dstatus] \in ChangeRequest
    BY DEF ChangeRequest, Cmd
  <2>. QED BY <1>4, <2>1 DEF PumpSend, HReceive
<1>5. CASE PumpStatus
  BY <1>5 DEF PumpStatus, HSent
<1>6. CASE DebugReturn
  BY <1>6 DEF DebugReturn, HExit, dVars
<1>7. CASE HSend /\ UNCHANGED dVars
  <2>1. hreq.CurrentStatus \in Status
    BY DEF ChangeRequest
  <2>. QED BY <1>a, <1>7, <2>1 DEF HSend, dVars
<1>8. CASE (HWait \/ HOther \/ HReturn) /\ UNCHANGED dVars
  BY <1>a, <1>8 DEF HWait, HOther, HReturn, dVars
<1>. QED
  BY <1>1, <1>2, <1>3, <1>4, <1>5, <1>6, <1>7, <1>8 DEF Next, HandlerStep

\* A key press is used up once: what the pump has in hand becomes the Stop.
LEMMA OneStopStep == TypeOK /\ OneStopPerSignal /\ [Next]_vars => OneStopPerSignal'
<1> SUFFICES ASSUME TypeOK, OneStopPerSignal, [Next]_vars PROVE OneStopPerSignal'
  OBVIOUS
<1>a. signals \in Nat /\ stops \in Nat
  BY DebugAssumption DEF TypeOK
<1>1. CASE UNCHANGED dVars
  BY <1>1 DEF dVars, OneStopPerSignal
<1>2. CASE PumpSelect \/ PumpSend \/ PumpStatus
  BY <1>a, <1>2 DEF PumpSelect, PumpSend, PumpStatus, OneStopPerSignal
<1>3. CASE CtrlC
  BY <1>a, <1>3 DEF CtrlC, OneStopPerSignal
<1>. QED BY <1>1, <1>2, <1>3 DEF Next, DebugReturn, HandlerStep, vars

\* The types and the count of Stops hold in every reachable state.
LEMMA Invariance == Spec => [](TypeOK /\ OneStopPerSignal)
<1>1. Init => TypeOK /\ OneStopPerSignal
  <2>1. BareStatus("Stopped") \in Status /\ NoReq \in ChangeRequest /\ NoExit \in exitCode
    BY DEF BareStatus, Status, State, Accepted, NoReq, ChangeRequest, Cmd, NoExit, exitCode,
           NO_ERROR
  <2>. QED
    BY <2>1, DebugAssumption DEF Init, TypeOK, HTypeOK, OneStopPerSignal
<1>. QED BY <1>1, TypingStep, OneStopStep, PTL DEF Spec

\* The pump only ever hands the handler requests and statuses of svc's types.
THEOREM TypeCorrect == Spec => []TypeOK
  BY Invariance, PTL

\* However signals, statuses and requests interleave, the handler never gets
\* more Stops than Ctrl+C was pressed.
THEOREM StopsAreSignalled == Spec => []OneStopPerSignal
  BY Invariance, PTL

\* The pump sends a Stop and the handler a status, each to the other.
Locked == dpc = "send" /\ hpc = "send"

\* Pump and handler that have come to send to each other never get out of it: no
\* key press, no goroutine frees them, and the handler gets no Stop any more.
THEOREM LockedForEver ==
  Spec => [](Locked => []Locked) /\ [][Locked => UNCHANGED <<stops, hreq>>]_vars
<1>1. Locked /\ [Next]_vars => Locked' /\ UNCHANGED <<stops, hreq>>
  BY DEF Locked, Next, PumpSelect, CtrlC, PumpSend, PumpStatus, DebugReturn, HandlerStep,
     HReceive, HSent, HExit, HSend, HWait, HOther, HReturn, vars, hVars, dVars
<1>2. [Next]_vars => [Locked => UNCHANGED <<stops, hreq>>]_vars
  BY <1>1
<1>. QED BY <1>1, <1>2, PTL DEF Spec
===============================================================================
