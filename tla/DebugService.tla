----------------------------- MODULE DebugService -----------------------------
(***************************************************************************)
(* debug.Run: a handler on the console.  A goroutine, the pump, turns      *)
(* signals into Stop requests and receives the handler's statuses;         *)
(* Execute runs on the goroutine that called Run.                          *)
(*                                                                         *)
(* os/signal (external) never blocks to deliver a signal: sig has no       *)
(* buffer, so a signal is dropped unless the pump is waiting in its        *)
(* select.                                                                 *)
(***************************************************************************)
EXTENDS Handler

CONSTANT MaxSignals     \* bound: Ctrl+C key presses

ASSUME DebugAssumption == MaxSignals \in Nat

VARIABLES
  dpc,       \* pump: "ready" (about to select), "select", "send" (on cmds)
  dstatus,   \* its status
  signals,   \* Ctrl+C presses so far
  stops      \* history: Stop requests the handler has received

dVars == <<dpc, dstatus, signals, stops>>
vars == <<hVars, dVars>>

TypeOK ==
  /\ HTypeOK
  /\ dpc \in {"ready", "select", "send"} /\ dstatus \in Status
  /\ signals \in 0 .. MaxSignals /\ stops \in Nat

\* The pump goroutine has been started and Execute has been called.
Init ==
  /\ hpc = "run" /\ hst = BareStatus("Stopped") /\ hreq = NoReq /\ hret = NoExit
  /\ dpc = "ready" /\ dstatus = BareStatus("Stopped")
  /\ signals = 0 /\ stops = 0

PumpSelect == dpc = "ready" /\ dpc' = "select" /\ UNCHANGED <<hVars, dstatus, signals, stops>>

\* case <-sig, or the signal is dropped.
CtrlC ==
  /\ signals < MaxSignals /\ signals' = signals + 1
  /\ dpc' = IF dpc = "select" THEN "send" ELSE dpc
  /\ UNCHANGED <<hVars, dstatus, stops>>

\* Seeded defect: the Stop is sent over and over.
PumpSend_Repeats ==
  /\ dpc = "send" /\ UNCHANGED dpc
  /\ HReceive([Cmd |-> "Stop", CurrentStatus |-> dstatus])
  /\ stops' = stops + 1
  /\ UNCHANGED <<dstatus, signals>>

\* Seeded defect: the Stop waits until the service has reported Running.
PumpSend_OnlyRunning ==
  /\ dpc = "send" /\ dstatus.State = "Running" /\ dpc' = "ready"
  /\ HReceive([Cmd |-> "Stop", CurrentStatus |-> dstatus])
  /\ stops' = stops + 1
  /\ UNCHANGED <<dstatus, signals>>

\* cmds <- ChangeRequest{Stop, status}.
PumpSend ==
  /\ dpc = "send" /\ dpc' = "ready"
  /\ HReceive([Cmd |-> "Stop", CurrentStatus |-> dstatus])
  /\ stops' = stops + 1
  /\ UNCHANGED <<dstatus, signals>>

\* case status = <-changes.
PumpStatus ==
  /\ dpc = "select" /\ dpc' = "ready"
  /\ HSent(hst) /\ dstatus' = hst
  /\ UNCHANGED <<signals, stops>>

\* Run returns what Execute returned.
DebugReturn == HExit(hret) /\ UNCHANGED dVars

HandlerStep == (HSend \/ HWait \/ HOther \/ HReturn) /\ UNCHANGED dVars

\* When Run has returned the process exits.
Next ==
  /\ hpc # "done"
  /\ PumpSelect \/ CtrlC \/ PumpSend \/ PumpStatus \/ DebugReturn \/ HandlerStep

Spec == Init /\ [][Next]_vars

\* Goroutines run, and a channel operation that is ready again and again is
\* performed.  Nothing is assumed of the handler or of the keyboard.
Fairness ==
  /\ WF_vars(PumpSelect) /\ WF_vars(DebugReturn)
  /\ SF_vars(PumpSend) /\ SF_vars(PumpStatus)

FairSpec == Spec /\ Fairness

-------------------------------------------------------------------------------
\* The handler waits on r again and again, or waits for ever for a status it
\* sends to be received.
HandlerCooperates == []<>(hpc = "recv") \/ <>[](hpc = "send")

\* Once the pump has a signal in hand, the handler receives Stop, returns, or
\* both are blocked for good, each sending to the other.
SignalInHandStops ==
  HandlerCooperates =>
    (dpc = "send" ~> dpc # "send" \/ hpc = "done" \/ [](dpc = "send" /\ hpc = "send"))

\* Every Stop the handler receives is due to a key press of its own.
OneStopPerSignal == stops + (IF dpc = "send" THEN 1 ELSE 0) <= signals

\* "Use Ctrl+C to send "Stop" command to your service": after a Ctrl+C a
\* handler that keeps reading receives a Stop or has returned.
CtrlCStops == HandlerCooperates => (signals > 0 ~> stops > 0 \/ hpc = "done")
===============================================================================
