------------------------- MODULE ExampleService_proofs -------------------------
(***************************************************************************)
(* What holds throughout one life of the example service: the invariant    *)
(* LInv, which the state Windows launches the process in satisfies and     *)
(* every step of the service and every control sent to it preserve.  Who   *)
(* sends controls and starts the service again is left to Manage_proofs.   *)
(* At the end: each life implements ServiceContract.                       *)
(***************************************************************************)
EXTENDS ExampleService, TLAPS

\* A step of the process, or a control that arrives at it.
LifeStep == ServiceStep \/ (Alive /\ \E c \in Cmd : SendControl(c))

\* Types; that only proper commands reach Execute rests on what the callbacks
\* and the variable cmd hold.
CtlTyping ==
  /\ ctl \in [Threads -> ctlEvent]
  /\ \A t \in Threads : ctl[t] # NoCtl => ctl[t].cmd \in Cmd

LoopTyping == LoopTypeOK /\ (outch => cmd \in Cmd)

ProgTyping == rs \in {"open", "run", "end", "exit"} /\ elog \in {"none", "open", "closed"}

Typing ==
  /\ ScmTypeOK /\ CtlTyping /\ MainTypeOK /\ SmTypeOK /\ EvTypeOK
  /\ RunTypeOK /\ LoopTyping /\ MyTypeOK /\ ProgTyping

\* Which actors can have started: run() is released by servicemain, which the
\* dispatcher starts, through an event that is open before either exists, and
\* runService waits for Run with the log open.
PhaseInv ==
  /\ \/ main \notin {"newService", "failed"} \/ run # "off" \/ sm # "off"
     => events = {"cWaits", "goWaits"}
  /\ main \in {"newService", "newCallback"} => run = "off"
  /\ main \in {"newService", "newCallback", "connect", "failed"} => sm = "off"
  /\ sm = "off" => ~goWaits /\ run \in {"off", "wait"}
  /\ run \in {"off", "wait", "panic"} => epc = "off"
  /\ run = "panic" => main = "crashed"
  /\ rs = "open" => main = "newService"
  /\ rs = "run" => elog = "open"
  /\ rs = "end" => main \in {"returned", "failed"}
  /\ rs = "exit" => scm.CurrentState = "Stopped"

\* The SCM has not been shown a status yet, so it has sent nothing.
Quiet == pipe = <<>> /\ \A t \in Threads : ctl[t] = NoCtl

NotShownYet ==
  /\ scm = ServiceStatus(BareStatus("StartPending"), NoExit)
  /\ ~outch /\ Quiet

Shows(st) == st.State # "Stopped" /\ scm = ServiceStatus(st, NoExit)

\* Neither Execute nor a worker ever reports Stopped, not even when it sends
\* back the status of a request; so Stopped shows that run() is out of its loop.
StatusInv ==
  /\ est.State # "Stopped" /\ \A w \in Workers : wst[w].State = "StopPending"
  /\ run = "update" => chg.State # "Stopped"
  /\ rs # "exit" =>
       /\ run \in {"off", "wait"} => NotShownYet
       /\ run \in {"select", "update"} => ec = NoExit /\ (NotShownYet \/ Shows(status))
       /\ run = "final" => scm.CurrentState # "Stopped"

\* Run returns when run() has reported Stopped: with Execute through, or with
\* the errno that made run() give up on it.
ExitInv ==
  /\ run \in {"final", "setC", "done"} => epc = "done" \/ ec.errno # 0
  /\ rs # "exit" /\ run \in {"setC", "done"} /\ scm.CurrentState = "Stopped" =>
       scm = ServiceStatus(BareStatus("Stopped"), ec)
  /\ rs # "exit" /\ main = "returned" =>
       scm.CurrentState = "Stopped" /\ run \in {"setC", "done"}

\* The ticker suits a state shown as st.
Suits(st) == st \in {"Running", "Paused"} => (tick = "slow" <=> st = "Paused")

\* The ticker suits the state shown, the one being applied, and the one that
\* Execute is about to send back.  It changes only in a send that ends the
\* switch, when what is on its way to the SCM is the state it suits.
TickInv ==
  /\ epc \in {"off", "startPending"} => est.State = "StartPending" /\ tick = "fast"
  /\ epc = "running" => est.State = "Running" /\ tick = "fast"
  /\ epc = "pause" => est.State = "Paused"
  /\ epc = "continue" => est.State = "Running"
  /\ epc = "stopPending" => est.State = "StopPending"
  /\ epc \in {"echo", "sleep", "echoAgain"} => Suits(est.State)
  /\ run = "select" => Suits(scm.CurrentState)
  /\ run = "update" => Suits(chg.State)

\* Where the one PreShutdown can be: in the pipe, in a callback, with run(), or
\* turned into a worker.
InPipe(i) == i \in 1 .. Len(pipe) /\ pipe[i].cmd = "PreShutdown"
InCtl(t) == t \in Threads /\ ctl[t].cmd = "PreShutdown"
InRun == outch /\ cmd = "PreShutdown"
InWorker(w) == w \in Workers /\ wpc[w] # "off"

\* It is in one place at most, and in none before it is sent: so there is one
\* worker at most, and shutdown is closed only by that worker's last step.
TokenInv ==
  /\ \A i \in 1 .. Len(pipe) : InPipe(i) =>
       /\ "PreShutdown" \in notified /\ ~InRun
       /\ \A j \in 1 .. Len(pipe) : InPipe(j) => i = j
       /\ \A t \in Threads : ~InCtl(t)
       /\ \A w \in Workers : ~InWorker(w)
  /\ \A t \in Threads : InCtl(t) =>
       /\ "PreShutdown" \in notified /\ ~InRun
       /\ \A u \in Threads : InCtl(u) => t = u
       /\ \A w \in Workers : ~InWorker(w)
  /\ InRun => "PreShutdown" \in notified /\ \A w \in Workers : ~InWorker(w)
  /\ \A w \in Workers : InWorker(w) =>
       "PreShutdown" \in notified /\ \A v \in Workers : InWorker(v) => v = w
  /\ shutdown = "open" \/ \E w \in Workers : wpc[w] = "done"
  /\ ShutdownClosedOnce

LInv ==
  /\ Typing /\ PhaseInv /\ StatusInv /\ ExitInv /\ LogOpenWhenUsed /\ TickInv /\ TokenInv

\* The Status literals of the code, and what updateStatus builds from a Status
\* and an exitCode, have their types.
LEMMA StatusTypes ==
  /\ \A s \in State : BareStatus(s) \in Status /\ Up(s) \in Status
  /\ \A n \in Nat : Stopping(n) \in Status
  /\ \A st \in Status, x \in exitCode : ServiceStatus(st, x) \in SERVICE_STATUS
  /\ NoExit \in exitCode /\ ProcessAborted \in exitCode
BY DEF State, BareStatus, Up, Stopping, cmdsAccepted, Status, Accepted, KnownFlags, exitCode,
       ServiceStatus, SERVICE_STATUS, Win32ExitCode, ServiceSpecificExitCode,
       NO_ERROR, ERROR_SERVICE_SPECIFIC_ERROR, NoExit, ProcessAborted

\* The process as Windows launches it is well typed.
LEMMA TypingInit == Init => Typing
<1> SUFFICES ASSUME Init PROVE Typing
  OBVIOUS
<1> USE StatusTypes, SvcRunAssumption DEF Init, SvcInit, MyInit
<1>1. ScmTypeOK
  BY DEF ScmTypeOK, State
<1>2. CtlTyping
  BY DEF CtlTyping, ctlEvent, NoCtl
<1>3. MainTypeOK /\ SmTypeOK /\ EvTypeOK /\ RunTypeOK
  BY DEF MainTypeOK, SmTypeOK, EvTypeOK, RunTypeOK
<1>4. LoopTyping
  BY DEF LoopTyping, LoopTypeOK, State
<1>5. MyTypeOK /\ ProgTyping
  BY DEF MyTypeOK, ProgTyping, State
<1>. QED BY <1>1, <1>2, <1>3, <1>4, <1>5 DEF Typing

\* The type of a group of variables survives a step that leaves them alone.
LEMMA Frames ==
  /\ ScmTypeOK /\ UNCHANGED scmVars => ScmTypeOK'
  /\ CtlTyping /\ UNCHANGED ctl => CtlTyping'
  /\ MainTypeOK /\ UNCHANGED mainVars => MainTypeOK'
  /\ SmTypeOK /\ UNCHANGED smVars => SmTypeOK'
  /\ EvTypeOK /\ UNCHANGED evVars => EvTypeOK'
  /\ RunTypeOK /\ UNCHANGED run => RunTypeOK'
  /\ LoopTyping /\ UNCHANGED loopVars => LoopTyping'
  /\ MyTypeOK /\ UNCHANGED myVars => MyTypeOK'
  /\ ProgTyping /\ UNCHANGED progVars => ProgTyping'
BY DEF scmVars, mainVars, smVars, evVars, loopVars, myVars, progVars, ScmTypeOK, CtlTyping,
       MainTypeOK, SmTypeOK, EvTypeOK, RunTypeOK, LoopTyping, LoopTypeOK, MyTypeOK, ProgTyping

\* What ProcessEnds makes the SCM show.
LEMMA Ends ==
  ProcessEnds =>
    /\ rs' = "exit" /\ scm'.CurrentState = "Stopped"
    /\ scm.CurrentState # "Stopped" => scm'.Win32ExitCode # 0
    /\ scm.CurrentState = "Stopped" => scm' = scm
    /\ scm \in SERVICE_STATUS => scm' \in SERVICE_STATUS
BY StatusTypes DEF ProcessEnds, ServiceStatus, BareStatus, ProcessAborted, Win32ExitCode, State,
   SERVICE_STATUS

\* Every step of the process keeps the types.
LEMMA TypingStep == Typing /\ LifeStep => Typing'
<1> SUFFICES ASSUME Typing, LifeStep PROVE Typing'
  OBVIOUS
<1> USE Frames DEF Typing
<1>1. CASE RunServiceStep
  <2>1. CASE ProcessEnds
    <3>1. ScmTypeOK'
      BY <2>1, Ends DEF ProcessEnds, ScmTypeOK
    <3>2. ProgTyping'
      BY <1>1, <2>1, Ends DEF ProgTyping, RunServiceStep, RunServiceOpen, RunServiceOpenThen,
         RunServiceEnd, MainReturns
    <3>. QED BY <2>1, <3>1, <3>2 DEF ProcessEnds
  <2>2. CASE ~ProcessEnds
    <3>1. UNCHANGED <<svcVars, myVars>> /\ ProgTyping'
      BY <1>1, <2>2 DEF ProgTyping, RunServiceStep, RunServiceOpen, RunServiceOpenThen,
         RunServiceEnd, MainReturns
    <3>. QED BY <3>1 DEF svcVars
  <2>. QED BY <2>1, <2>2
<1>2. CASE MainStep
  <2>1. MainTypeOK' /\ RunTypeOK'
    BY <1>2 DEF MainStep, NewService, NewCallback, StartServiceCtrlDispatcher, RunReturn,
       RunReturnWith, MainTypeOK, RunTypeOK
  <2>. QED
    BY <1>2, <2>1 DEF MainStep, NewService, NewCallback, StartServiceCtrlDispatcher, RunReturn,
       RunReturnWith
<1>3. CASE ServiceMainStep
  <2>1. CASE ScmStartService
    BY <1>3, <2>1, SvcRunAssumption DEF ServiceMainStep, ScmStartService, SmTypeOK
  <2>2. CASE ServiceMainStoreArgs
    BY <1>3, <2>2, SvcRunAssumption DEF ServiceMainStep, ServiceMainStoreArgs, StoreArgs, SmTypeOK
  <2>3. CASE ServiceMainRegister
    BY <1>3, <2>3 DEF ServiceMainStep, ServiceMainRegister, RegisterThen, SmTypeOK, EvTypeOK
  <2>4. CASE ServiceMainSetEvent
    BY <1>3, <2>4 DEF ServiceMainStep, ServiceMainSetEvent, SmTypeOK, EvTypeOK, EventSet
  <2>5. CASE ServiceMainWait
    BY <1>3, <2>5 DEF ServiceMainStep, ServiceMainWait, SmTypeOK, EvTypeOK
  <2>. QED BY <1>3, <2>1, <2>2, <2>3, <2>4, <2>5 DEF ServiceMainStep
<1>4. CASE RunStep
  <2>1. CASE RunPanic
    <3>1. ScmTypeOK'
      BY <2>1, StatusTypes DEF RunPanic, ScmTypeOK, State
    <3>2. MainTypeOK' /\ EvTypeOK' /\ RunTypeOK'
      BY <2>1 DEF RunPanic, MainTypeOK, EvTypeOK, RunTypeOK
    <3>3. LoopTyping'
      BY <2>1 DEF RunPanic, LoopTyping, LoopTypeOK, SmTypeOK
    <3>. QED BY <1>4, <2>1, <3>1, <3>2, <3>3 DEF RunPanic, RunStep
  <2>2. CASE RunUpdate
    <3>1. ScmTypeOK'
      BY <2>2, StatusTypes DEF RunUpdate, RunUpdateThen, ScmTypeOK, LoopTyping, LoopTypeOK
    <3>2. ec' \in exitCode
      BY <2>2, SvcRunAssumption DEF RunUpdate, RunUpdateThen, SetServiceStatusResult, exitCode,
         NO_ERROR, sysErrSetServiceStatusFailed, APPLICATION_ERROR, LoopTyping, LoopTypeOK
    <3>3. LoopTyping' /\ RunTypeOK'
      BY <2>2, <3>2 DEF RunUpdate, RunUpdateThen, LoopTyping, LoopTypeOK, RunTypeOK
    <3>. QED BY <1>4, <2>2, <3>1, <3>3 DEF RunUpdate, RunUpdateThen, RunStep
  <2>3. CASE RunFinal
    <3>1. ScmTypeOK' /\ RunTypeOK'
      BY <2>3, StatusTypes DEF RunFinal, RunFinalThen, ScmTypeOK, State, LoopTyping, LoopTypeOK,
         RunTypeOK
    <3>. QED BY <1>4, <2>3, <3>1 DEF RunFinal, RunFinalThen, RunStep
  <2>4. CASE RunSetCWaits
    BY <1>4, <2>4 DEF RunSetCWaits, SetCWaits, RunStep, RunTypeOK, EvTypeOK, EventSet
  <2>. QED BY <1>4, <2>1, <2>2, <2>3, <2>4 DEF RunStep
<1>5. CASE ExecuteStep
  <2>1. MyTypeOK'
    BY <1>5, StatusTypes DEF ExecuteStep, ESleep, ELog, EShutdown, BreakLoop, MyTypeOK, Sending,
       Then
  <2>. QED BY <1>5, <2>1 DEF ExecuteStep, svcVars
<1>6. ASSUME NEW w \in Workers, WorkerStep(w) PROVE Typing'
  <2>1. MyTypeOK'
    BY <1>6, StatusTypes DEF WorkerStep, WGo, WWork, Close, MyTypeOK
  <2>. QED BY <1>6, <2>1 DEF WorkerStep, svcVars
<1>7. ASSUME NEW w \in Workers, TakeWorkerStatus(w) PROVE Typing'
  <2>1. MyTypeOK'
    BY <1>7 DEF TakeWorkerStatus, WSent, MyTypeOK
  <2>2. LoopTyping' /\ RunTypeOK'
    BY <1>7 DEF TakeWorkerStatus, SelChange, ReceiveChange, LoopTyping, LoopTypeOK, RunTypeOK,
       MyTypeOK
  <2>. QED BY <1>7, <2>1, <2>2 DEF TakeWorkerStatus, SelChange, ReceiveChange
<1>8. ASSUME NEW t \in Threads, CallbackStep(t) PROVE Typing'
  <2>1. Head(pipe) \in Control /\ Tail(pipe) \in Seq(Control)
    BY <1>8 DEF CallbackStep, ctlHandler, ScmTypeOK
  <2>2. CallbackErr(t) \in Nat
    BY DEF CallbackErr, sysErrNewThreadInCallback, APPLICATION_ERROR
  <2>3. CtlTyping'
    BY <1>8, <2>1, <2>2 DEF CallbackStep, ctlHandler, CtlTyping, Control, ctlEvent
  <2>4. ScmTypeOK'
    BY <1>8, <2>1 DEF CallbackStep, ctlHandler, ScmTypeOK
  <2>. QED BY <1>8, <2>3, <2>4 DEF CallbackStep, ctlHandler
<1>9. ASSUME NEW t \in Threads, TakeControl(t) PROVE Typing'
  <2>1. ctl[t].cmd \in Cmd /\ ctl[t].id \in Nat /\ ctl[t].errno \in Nat
    BY <1>9 DEF TakeControl, SelCtl, SelCtlThen, CtlTyping, ctlEvent
  <2>2. CtlTyping'
    BY <1>9 DEF TakeControl, SelCtl, SelCtlThen, CtlTyping, ctlEvent, NoCtl
  <2>3. ec' \in exitCode
    BY <1>9, <2>1 DEF TakeControl, SelCtl, SelCtlThen, exitCode, LoopTyping, LoopTypeOK
  <2>4. LoopTyping' /\ RunTypeOK'
    BY <1>9, <2>1, <2>3 DEF TakeControl, SelCtl, SelCtlThen, LoopTyping, LoopTypeOK, RunTypeOK
  <2>. QED BY <1>9, <2>2, <2>4 DEF TakeControl, SelCtl, SelCtlThen
<1>10. ASSUME NEW c \in Cmd, SendControl(c) PROVE Typing'
  <2>1. [cmd |-> c, id |-> sent + 1] \in Control /\ sent' \in 0 .. MaxControls
    BY <1>10, SvcRunAssumption DEF SendControl, ScmSend, Control, ScmTypeOK
  <2>2. ScmTypeOK'
    BY <1>10, <2>1 DEF SendControl, ScmSend, ScmTypeOK
  <2>. QED BY <1>10, <2>2 DEF SendControl, ScmSend
<1>11. CASE Start
  <2>1. EvTypeOK' /\ RunTypeOK' /\ MyTypeOK'
    BY <1>11 DEF Start, RunStart, ESpawn, EvTypeOK, RunTypeOK, MyTypeOK, Sending, Then
  <2>2. LoopTyping'
    BY <1>11, StatusTypes DEF Start, RunStart, ArgsRead, State, SmTypeOK, LoopTyping, LoopTypeOK
  <2>. QED BY <1>11, <2>1, <2>2 DEF Start, RunStart
<1>12. CASE GiveRequest
  <2>1. MyTypeOK'
    BY <1>12, StatusTypes DEF GiveRequest, EReceive, Report, BreakLoop, StartWorker, MyTypeOK,
       Sending, Then, State, LoopTyping, LoopTypeOK
  <2>2. LoopTyping'
    BY <1>12 DEF GiveRequest, SelCmd, SelCmdThen, LoopTyping, LoopTypeOK
  <2>. QED BY <1>12, <2>1, <2>2 DEF GiveRequest, SelCmd, SelCmdThen
<1>13. CASE TakeStatus
  <2>1. MyTypeOK'
    BY <1>13, StatusTypes DEF TakeStatus, ESent, MyTypeOK, Sending, Then, TickAfter, State
  <2>2. LoopTyping' /\ RunTypeOK'
    BY <1>13 DEF TakeStatus, SelChange, ReceiveChange, LoopTyping, LoopTypeOK, RunTypeOK,
       MyTypeOK
  <2>. QED BY <1>13, <2>1, <2>2 DEF TakeStatus, SelChange, ReceiveChange
<1>14. CASE TakeExit
  <2>1. MyTypeOK'
    BY <1>14 DEF TakeExit, EExit, MyTypeOK
  <2>2. ec' \in exitCode
    <3>1. ec' = [isSvcSpecific |-> FALSE, errno |-> 0]
      BY <1>14 DEF TakeExit, SelExit, SelExitThen
    <3>. QED BY <3>1 DEF exitCode
  <2>3. LoopTyping' /\ RunTypeOK'
    BY <1>14, <2>2 DEF TakeExit, SelExit, SelExitThen, LoopTyping, LoopTypeOK, RunTypeOK
  <2>. QED BY <1>14, <2>1, <2>3 DEF TakeExit, SelExit, SelExitThen
<1>. QED
  BY <1>1, <1>2, <1>3, <1>4, <1>5, <1>6, <1>7, <1>8, <1>9, <1>10, <1>11, <1>12, <1>13, <1>14
     DEF LifeStep, ServiceStep

\* No actor starts before the one that releases it, and nobody but runService
\* touches the log.
LEMMA PhaseStep == Typing /\ PhaseInv /\ ExitInv /\ LifeStep => PhaseInv'
<1> SUFFICES ASSUME Typing, PhaseInv, ExitInv, LifeStep PROVE PhaseInv'
  OBVIOUS
<1> USE DEF PhaseInv, scmVars, mainVars, smVars, evVars, loopVars, myVars, progVars
<1>0. Alive
  BY DEF LifeStep, ServiceStep
<1>1. CASE RunServiceStep
  BY <1>1, Ends DEF RunServiceStep, RunServiceOpen, RunServiceOpenThen, RunServiceEnd,
     MainReturns, ProcessEnds, svcVars
<1>2. CASE MainStep
  BY <1>2 DEF MainStep, NewService, NewCallback, StartServiceCtrlDispatcher, RunReturn,
     RunReturnWith
<1>3. CASE ServiceMainStep
  BY <1>3 DEF ServiceMainStep, ScmStartService, ServiceMainStoreArgs, StoreArgs,
     ServiceMainRegister, RegisterThen, ServiceMainSetEvent, ServiceMainWait
<1>4. CASE RunStep
  BY <1>0, <1>4 DEF Alive, RunStep, RunPanic, RunUpdate, RunUpdateThen, RunFinal, RunFinalThen,
     RunSetCWaits, SetCWaits, ExitInv, EventWaitReturns
<1>5. CASE ExecuteStep
  BY <1>5 DEF ExecuteStep, ESleep, ELog, EShutdown, BreakLoop, svcVars
<1>6. ASSUME NEW w \in Workers, WorkerStep(w) \/ TakeWorkerStatus(w) PROVE PhaseInv'
  BY <1>6 DEF WorkerStep, WGo, WWork, TakeWorkerStatus, SelChange, ReceiveChange, WSent, svcVars
<1>7. ASSUME NEW t \in Threads, CallbackStep(t) \/ TakeControl(t) PROVE PhaseInv'
  BY <1>7 DEF CallbackStep, ctlHandler, TakeControl, SelCtl, SelCtlThen
<1>8. ASSUME NEW c \in Cmd, SendControl(c) PROVE PhaseInv'
  BY <1>8 DEF SendControl, ScmSend
<1>9. CASE Start
  BY <1>9 DEF Start, RunStart, ESpawn, EventWaitReturns
<1>10. CASE GiveRequest
  BY <1>10 DEF GiveRequest, SelCmd, SelCmdThen
<1>11. CASE TakeStatus \/ TakeExit
  BY <1>11 DEF TakeStatus, TakeExit, SelChange, ReceiveChange, SelExit, SelExitThen
<1>. QED BY <1>1, <1>2, <1>3, <1>4, <1>5, <1>6, <1>7, <1>8, <1>9, <1>10, <1>11
            DEF LifeStep, ServiceStep

\* Neither the SCM's first record nor one of a handler's statuses shows Stopped.
LEMMA NotStopped ==
  /\ NotShownYet => scm.CurrentState = "StartPending" /\ scm.ControlsAccepted = {}
  /\ \A st : Shows(st) => scm.CurrentState = st.State /\ st.State # "Stopped"
BY DEF NotShownYet, Shows, ServiceStatus, BareStatus

\* A change received from Execute or a worker becomes run()'s status in the same
\* step in which the SCM is shown it, and an Interrogate sends back that one.
LEMMA StatusStep == Typing /\ PhaseInv /\ StatusInv /\ LifeStep => StatusInv'
<1> SUFFICES ASSUME Typing, PhaseInv, StatusInv, LifeStep PROVE StatusInv'
  OBVIOUS
<1> USE DEF StatusInv, NotShownYet, Quiet, Shows, scmVars, loopVars, myVars, progVars
<1>0. rs # "exit"
  BY DEF LifeStep, ServiceStep, Alive
<1>1. CASE RunServiceStep
  BY <1>0, <1>1, Ends DEF RunServiceStep, RunServiceOpen, RunServiceOpenThen, RunServiceEnd,
     MainReturns, ProcessEnds, svcVars
<1>2. CASE MainStep
  BY <1>0, <1>2 DEF MainStep, NewService, NewCallback, StartServiceCtrlDispatcher, RunReturn,
     RunReturnWith, PhaseInv
<1>3. CASE ServiceMainStep
  BY <1>0, <1>3 DEF ServiceMainStep, ScmStartService, ServiceMainStoreArgs, StoreArgs,
     ServiceMainRegister, RegisterThen, ServiceMainSetEvent, ServiceMainWait
<1>4. CASE RunStep
  <2>1. CASE RunPanic
    BY <1>0, <1>4, <2>1 DEF RunStep, RunPanic
  <2>2. CASE RunUpdate
    BY <1>0, <1>4, <2>2, NotStopped DEF RunStep, RunUpdate, RunUpdateThen
  <2>3. CASE RunFinal \/ RunSetCWaits
    BY <1>0, <1>4, <2>3 DEF RunStep, RunFinal, RunFinalThen, RunSetCWaits, SetCWaits
  <2>. QED BY <1>4, <2>1, <2>2, <2>3 DEF RunStep
<1>5. CASE ExecuteStep
  BY <1>0, <1>5 DEF ExecuteStep, ESleep, ELog, EShutdown, BreakLoop, Stopping, svcVars
<1>6. ASSUME NEW w \in Workers, WorkerStep(w) PROVE StatusInv'
  BY <1>0, <1>6 DEF WorkerStep, WGo, WWork, Stopping, svcVars, Typing, MyTypeOK
<1>7. ASSUME NEW w \in Workers, TakeWorkerStatus(w) PROVE StatusInv'
  BY <1>0, <1>7 DEF TakeWorkerStatus, SelChange, ReceiveChange, WSent
<1>8. ASSUME NEW t \in Threads, CallbackStep(t) PROVE StatusInv'
  BY <1>0, <1>8 DEF CallbackStep, ctlHandler
<1>9. ASSUME NEW t \in Threads, TakeControl(t) PROVE StatusInv'
  BY <1>0, <1>9, NotStopped DEF TakeControl, SelCtl, SelCtlThen
<1>10. ASSUME NEW c \in Cmd, SendControl(c) PROVE StatusInv'
  <2>1. ~NotShownYet
    BY <1>10, NotStopped DEF SendControl, ScmSend, CanSend, CmdFlag
  <2>. QED BY <1>0, <1>10, <2>1 DEF SendControl, ScmSend
<1>11. CASE Start
  BY <1>0, <1>11 DEF Start, RunStart, ESpawn
<1>12. CASE GiveRequest
  <2>1. est'.State # "Stopped" /\ wst' = wst
    BY <1>0, <1>12 DEF GiveRequest, SelCmd, SelCmdThen, EReceive, Report, BreakLoop, StartWorker,
       Up, Stopping
  <2>. QED BY <1>0, <1>12, <2>1 DEF GiveRequest, SelCmd, SelCmdThen
<1>13. CASE TakeStatus
  <2>1. est'.State # "Stopped" /\ wst' = wst
    BY <1>13 DEF TakeStatus, ESent, Up
  <2>. QED BY <1>0, <1>13, <2>1 DEF TakeStatus, SelChange, ReceiveChange, ESent
<1>14. CASE TakeExit
  BY <1>0, <1>14, NotStopped DEF TakeExit, SelExit, SelExitThen, EExit
<1>. QED
  BY <1>1, <1>2, <1>3, <1>4, <1>5, <1>6, <1>7, <1>8, <1>9, <1>10, <1>11, <1>12, <1>13, <1>14
     DEF LifeStep, ServiceStep

\* ec leaves the loop as Execute's exit code, or with the errno of a failed
\* updateStatus or of a callback on a foreign thread.
LEMMA ExitStep == Typing /\ PhaseInv /\ StatusInv /\ ExitInv /\ LifeStep => ExitInv'
<1> SUFFICES ASSUME Typing, PhaseInv, StatusInv, ExitInv, LifeStep PROVE ExitInv'
  OBVIOUS
<1> USE DEF ExitInv, scmVars, mainVars, loopVars, myVars, progVars
<1>0. Alive
  BY DEF LifeStep, ServiceStep
<1>1. CASE RunServiceStep
  BY <1>1, Ends DEF RunServiceStep, RunServiceOpen, RunServiceOpenThen, RunServiceEnd,
     MainReturns, ProcessEnds, svcVars
<1>2. CASE MainStep
  <2>1. CASE NewService \/ NewCallback \/ StartServiceCtrlDispatcher
    BY <1>2, <2>1 DEF MainStep, NewService, NewCallback, StartServiceCtrlDispatcher, PhaseInv
  <2>2. CASE RunReturn
    <3>1. run \in {"setC", "done"}
      BY <1>0, <2>2, NotStopped DEF RunReturn, RunReturnWith, Alive, StatusInv, PhaseInv, Typing,
         RunTypeOK
    <3>. QED BY <1>2, <2>2, <3>1 DEF MainStep, RunReturn, RunReturnWith
  <2>. QED BY <1>2, <2>1, <2>2 DEF MainStep
<1>3. CASE ServiceMainStep
  BY <1>3 DEF ServiceMainStep, ScmStartService, ServiceMainStoreArgs, StoreArgs,
     ServiceMainRegister, RegisterThen, ServiceMainSetEvent, ServiceMainWait
<1>4. CASE RunStep
  <2>1. CASE RunPanic
    BY <1>4, <2>1 DEF RunStep, RunPanic
  <2>2. CASE RunUpdate
    BY <1>0, <1>4, <2>2, SvcRunAssumption DEF RunStep, RunUpdate, RunUpdateThen, StatusInv, NoExit,
       Alive
  <2>3. CASE RunFinal
    BY <1>0, <1>4, <2>3 DEF RunStep, RunFinal, RunFinalThen, StatusInv, Alive
  <2>4. CASE RunSetCWaits
    BY <1>4, <2>4 DEF RunStep, RunSetCWaits, SetCWaits
  <2>. QED BY <1>4, <2>1, <2>2, <2>3, <2>4 DEF RunStep
<1>5. CASE ExecuteStep
  BY <1>5 DEF ExecuteStep, ESleep, ELog, EShutdown, BreakLoop, svcVars
<1>6. ASSUME NEW w \in Workers, WorkerStep(w) \/ TakeWorkerStatus(w) PROVE ExitInv'
  BY <1>6 DEF WorkerStep, WGo, WWork, TakeWorkerStatus, SelChange, ReceiveChange, WSent, svcVars
<1>7. ASSUME NEW t \in Threads, CallbackStep(t) PROVE ExitInv'
  BY <1>7 DEF CallbackStep, ctlHandler
<1>8. ASSUME NEW t \in Threads, TakeControl(t) PROVE ExitInv'
  <2>1. UNCHANGED <<scm, main, rs, epc>> /\ run = "select" /\ run' \in {"select", "final"}
    BY <1>8 DEF TakeControl, SelCtl, SelCtlThen
  <2>2. run' = "final" => ec'.errno # 0
    BY <1>0, <1>8, <2>1 DEF TakeControl, SelCtl, SelCtlThen, StatusInv, Alive, NoExit
  <2>. QED BY <2>1, <2>2
<1>9. ASSUME NEW c \in Cmd, SendControl(c) PROVE ExitInv'
  BY <1>9 DEF SendControl, ScmSend
<1>10. CASE Start
  BY <1>10 DEF Start, RunStart, ESpawn
<1>11. CASE GiveRequest
  BY <1>11 DEF GiveRequest, SelCmd, SelCmdThen
<1>12. CASE TakeStatus
  BY <1>12 DEF TakeStatus, SelChange, ReceiveChange
<1>13. CASE TakeExit
  BY <1>13 DEF TakeExit, SelExit, SelExitThen, EExit
<1>. QED BY <1>1, <1>2, <1>3, <1>4, <1>5, <1>6, <1>7, <1>8, <1>9, <1>10, <1>11, <1>12, <1>13
            DEF LifeStep, ServiceStep

\* When Execute comes to write to the log, either runService is still inside
\* Run, or run() had left Execute behind and said so.
LEMMA LogStep ==
  Typing /\ PhaseInv /\ StatusInv /\ ExitInv /\ LogOpenWhenUsed /\ LifeStep => LogOpenWhenUsed'
<1> SUFFICES ASSUME Typing, PhaseInv, StatusInv, ExitInv, LogOpenWhenUsed, LifeStep, epc' = "log"
             PROVE  elog' = "open" \/ scm'.Win32ExitCode # 0
  BY DEF LogOpenWhenUsed
<1> USE DEF LogOpenWhenUsed, scmVars, mainVars, loopVars, myVars, progVars
<1>0. Alive
  BY DEF LifeStep, ServiceStep
<1>1. CASE RunServiceStep
  <2>1. epc = "log"
    BY <1>1 DEF RunServiceStep, RunServiceOpen, RunServiceOpenThen, RunServiceEnd, MainReturns,
       ProcessEnds
  <2>2. CASE rs = "open"
    BY <2>1, <2>2 DEF PhaseInv
  <2>3. CASE rs \in {"run", "end"}
    <3>1. main = "returned"
      <4>1. main \in {"returned", "failed"}
        BY <1>1, <2>3 DEF RunServiceStep, RunServiceOpen, RunServiceOpenThen, RunServiceEnd,
           MainReturns, PhaseInv
      <4>2. main # "failed"
        BY <2>1 DEF PhaseInv
      <4>. QED BY <4>1, <4>2
    <3>2. scm = ServiceStatus(BareStatus("Stopped"), ec) /\ ec.errno # 0
      BY <2>1, <2>3, <3>1 DEF ExitInv
    <3>3. scm.Win32ExitCode # 0 /\ scm.CurrentState = "Stopped"
      BY <3>2 DEF ServiceStatus, BareStatus, Win32ExitCode, ERROR_SERVICE_SPECIFIC_ERROR
    <3>4. scm' = scm
      BY <1>1, <2>3, <3>3, Ends DEF RunServiceStep, RunServiceOpen, RunServiceOpenThen,
         RunServiceEnd, MainReturns, svcVars
    <3>. QED BY <3>3, <3>4
  <2>. QED BY <1>0, <2>2, <2>3 DEF Alive, Typing, ProgTyping
<1>2. CASE ~RunServiceStep /\ rs # "run"
  <2>1. /\ run \in {"off", "wait", "setC", "done"}
        /\ run = "wait" => ~EventWaitReturns("goWaits", goWaits)
    BY <1>0, <1>2 DEF Alive, PhaseInv, ExitInv, Typing, ProgTyping, EventWaitReturns
  <2>2. UNCHANGED <<elog, scm>>
    BY <1>2, <2>1 DEF LifeStep, ServiceStep, MainStep, ServiceMainStep, ScmStartService,
       ServiceMainStoreArgs, StoreArgs, ServiceMainRegister, RegisterThen, ServiceMainSetEvent,
       ServiceMainWait, RunStep, RunPanic, RunUpdate, RunUpdateThen, RunFinal, RunFinalThen,
       RunSetCWaits, SetCWaits, ExecuteStep, CallbackStep, ctlHandler, TakeControl, SelCtl,
       SelCtlThen, WorkerStep, TakeWorkerStatus, SelChange, ReceiveChange, Start, RunStart,
       GiveRequest, SelCmd, SelCmdThen, TakeStatus, TakeExit, SelExit, SelExitThen, SendControl,
       ScmSend, svcVars
  <2>3. epc = "log"
    BY <1>2, <2>1 DEF LifeStep, ServiceStep, MainStep, ServiceMainStep, RunStep, ExecuteStep,
       ESleep, ELog, EShutdown, BreakLoop, CallbackStep, TakeControl, WorkerStep, WGo, WWork,
       TakeWorkerStatus, SelChange, ReceiveChange, Start, ESpawn, GiveRequest, SelCmd, SelCmdThen,
       TakeStatus, TakeExit, SelExit, SelExitThen, SendControl
  <2>. QED BY <2>2, <2>3
<1>3. CASE ~RunServiceStep /\ rs = "run"
  <2>1. UNCHANGED elog
    BY <1>3 DEF LifeStep, ServiceStep, MainStep, ServiceMainStep, RunStep, ExecuteStep,
       CallbackStep, TakeControl, WorkerStep, TakeWorkerStatus, Start, GiveRequest, TakeStatus,
       TakeExit, SendControl
  <2>. QED BY <1>3, <2>1 DEF PhaseInv
<1>. QED BY <1>1, <1>2, <1>3

\* The ticker is switched in the send that ends the switch, while run() still
\* has the new state to apply; everything that run() shows afterwards suits it.
LEMMA TickStep == Typing /\ PhaseInv /\ StatusInv /\ TickInv /\ LifeStep => TickInv'
<1> SUFFICES ASSUME Typing, PhaseInv, StatusInv, TickInv, LifeStep PROVE TickInv'
  OBVIOUS
<1> USE DEF TickInv, Suits, scmVars, loopVars, myVars, progVars
<1>0. rs # "exit"
  BY DEF LifeStep, ServiceStep, Alive
<1>1. CASE RunServiceStep
  BY <1>1, Ends DEF RunServiceStep, RunServiceOpen, RunServiceOpenThen, RunServiceEnd,
     MainReturns, ProcessEnds, svcVars
<1>2. CASE MainStep
  BY <1>2 DEF MainStep, NewService, NewCallback, StartServiceCtrlDispatcher, RunReturn,
     RunReturnWith
<1>3. CASE ServiceMainStep
  BY <1>3 DEF ServiceMainStep, ScmStartService, ServiceMainStoreArgs, StoreArgs,
     ServiceMainRegister, RegisterThen, ServiceMainSetEvent, ServiceMainWait
<1>4. CASE RunStep
  <2>1. CASE RunUpdate
    <3>1. run' = "select" => scm'.CurrentState = chg.State
      BY <2>1 DEF RunUpdate, RunUpdateThen, ServiceStatus
    <3>. QED BY <1>4, <2>1, <3>1 DEF RunStep, RunUpdate, RunUpdateThen
  <2>2. CASE RunPanic \/ RunFinal \/ RunSetCWaits
    BY <1>4, <2>2 DEF RunStep, RunPanic, RunFinal, RunFinalThen, RunSetCWaits, SetCWaits
  <2>. QED BY <1>4, <2>1, <2>2 DEF RunStep
<1>5. CASE ExecuteStep
  BY <1>5 DEF ExecuteStep, ESleep, ELog, EShutdown, BreakLoop, Stopping, svcVars
<1>6. ASSUME NEW w \in Workers, WorkerStep(w) PROVE TickInv'
  BY <1>6 DEF WorkerStep, WGo, WWork, svcVars
<1>7. ASSUME NEW w \in Workers, TakeWorkerStatus(w) PROVE TickInv'
  BY <1>7 DEF TakeWorkerStatus, SelChange, ReceiveChange, WSent, StatusInv
<1>8. ASSUME NEW t \in Threads, CallbackStep(t) \/ TakeControl(t) PROVE TickInv'
  BY <1>8 DEF CallbackStep, ctlHandler, TakeControl, SelCtl, SelCtlThen
<1>9. ASSUME NEW c \in Cmd, SendControl(c) PROVE TickInv'
  BY <1>9 DEF SendControl, ScmSend
<1>10. CASE Start
  <2>1. Suits(scm.CurrentState)
    BY <1>0, <1>10, NotStopped DEF Start, RunStart, StatusInv
  <2>. QED BY <1>10, <2>1 DEF Start, RunStart, ESpawn
<1>11. CASE GiveRequest
  <2>1. run = "select" /\ run' = "select" /\ UNCHANGED <<scm, status, tick>>
    BY <1>11 DEF GiveRequest, SelCmd, SelCmdThen, EReceive, Report, BreakLoop, StartWorker
  <2>2. Suits(status.State)
    BY <1>0, <1>11, <2>1, NotStopped DEF GiveRequest, SelCmd, SelCmdThen, StatusInv, NotShownYet
  <2>. QED BY <1>11, <2>1, <2>2 DEF GiveRequest, EReceive, Report, BreakLoop, StartWorker, Up,
              Stopping
<1>12. CASE TakeStatus
  <2>1. run' = "update" /\ chg' = est
    BY <1>12 DEF TakeStatus, SelChange, ReceiveChange
  <2>2. tick' = TickAfter(epc) /\ epc' = Then[epc] /\ epc \in Sending
        /\ est' = IF epc = "startPending" THEN Up("Running") ELSE est
    BY <1>12 DEF TakeStatus, ESent
  <2>3. Suits(chg.State)'
    BY <2>1, <2>2 DEF TickAfter, Sending, Then
  <2>4. /\ epc' \in {"running", "loop", "sleep", "exit"}
        /\ epc' = "running" => est'.State = "Running" /\ tick' = "fast"
        /\ epc' = "sleep" => est' = est /\ tick' = tick /\ epc = "echo"
    BY <2>2 DEF TickAfter, Sending, Then, Up
  <2>. QED BY <2>1, <2>3, <2>4
<1>13. CASE TakeExit
  BY <1>13 DEF TakeExit, SelExit, SelExitThen, EExit
<1>. QED BY <1>1, <1>2, <1>3, <1>4, <1>5, <1>6, <1>7, <1>8, <1>9, <1>10, <1>11, <1>12, <1>13
            DEF LifeStep, ServiceStep

\* What TokenInv speaks of.
tokenVars == <<pipe, notified, ctl, outch, cmd, wpc, shutdown>>

\* TokenInv survives a step that moves nothing of this.
LEMMA TokenFrame == TokenInv /\ UNCHANGED tokenVars => TokenInv'
BY DEF TokenInv, tokenVars, InPipe, InCtl, InRun, InWorker, ShutdownClosedOnce

\* A PreShutdown moves from the pipe to a callback, to run() and to a worker, or
\* is dropped, and the SCM does not send a second one.
LEMMA TokenStep == Typing /\ TokenInv /\ LifeStep => TokenInv'
<1> SUFFICES ASSUME Typing, TokenInv, LifeStep PROVE TokenInv'
  OBVIOUS
<1> USE DEF TokenInv, InPipe, InCtl, InRun, InWorker, ShutdownClosedOnce
<1>1. CASE RunServiceStep \/ MainStep \/ ServiceMainStep \/ RunStep \/ ExecuteStep
           \/ TakeStatus \/ TakeExit
  <2>1. UNCHANGED tokenVars
    BY <1>1 DEF tokenVars, RunServiceStep, RunServiceOpen, RunServiceOpenThen, RunServiceEnd,
       MainReturns, ProcessEnds, MainStep, NewService, NewCallback, StartServiceCtrlDispatcher,
       RunReturn, RunReturnWith, ServiceMainStep, ScmStartService, ServiceMainStoreArgs, StoreArgs,
       ServiceMainRegister, RegisterThen, ServiceMainSetEvent, ServiceMainWait, RunStep, RunPanic,
       RunUpdate, RunUpdateThen, RunFinal, RunFinalThen, RunSetCWaits, SetCWaits, ExecuteStep,
       ESleep, ELog, EShutdown, BreakLoop, TakeStatus, SelChange, ReceiveChange, ESent, TakeExit,
       SelExit, SelExitThen, EExit, svcVars, scmVars, loopVars, myVars
  <2>. QED BY <2>1, TokenFrame
<1>2. CASE Start
  BY <1>2 DEF Start, RunStart, ESpawn, scmVars
<1>3. ASSUME NEW t \in Threads, CallbackStep(t) PROVE TokenInv'
  <2>1. UNCHANGED <<notified, outch, cmd, wpc, shutdown>>
    BY <1>3 DEF CallbackStep, ctlHandler, loopVars, myVars
  <2>2. /\ pipe \in Seq(Control) /\ pipe # <<>> /\ pipe' = Tail(pipe)
        /\ ctl' = [ctl EXCEPT ![t] = [cmd |-> Head(pipe).cmd, id |-> Head(pipe).id,
                                      errno |-> CallbackErr(t)]]
    BY <1>3 DEF CallbackStep, ctlHandler, Typing, ScmTypeOK
  <2>3. /\ Len(pipe') = Len(pipe) - 1 /\ Len(pipe) \in Nat \ {0} /\ Head(pipe) = pipe[1]
        /\ \A i \in 1 .. Len(pipe') : pipe'[i] = pipe[i + 1]
    BY <2>2
  <2>4. \A i \in 1 .. Len(pipe') : InPipe(i)' => InPipe(i + 1)
    BY <2>3
  <2>5. \A u \in Threads : InCtl(u)' <=> IF u = t THEN InPipe(1) ELSE InCtl(u)
    BY <2>2, <2>3 DEF Typing, CtlTyping
  <2>6. (InRun' <=> InRun) /\ \A w \in Workers : InWorker(w)' <=> InWorker(w)
    BY <2>1
  <2>7. \A i \in 1 .. Len(pipe') : i + 1 \in 1 .. Len(pipe) /\ i + 1 # 1
    BY <2>3
  <2>8. 1 \in 1 .. Len(pipe)
    BY <2>3
  <2> HIDE DEF InPipe, InCtl, InRun, InWorker
  <2>9. \A i \in 1 .. Len(pipe') : InPipe(i)' =>
          /\ "PreShutdown" \in notified' /\ ~InRun'
          /\ \A j \in 1 .. Len(pipe') : InPipe(j)' => i = j
          /\ \A u \in Threads : ~InCtl(u)'
          /\ \A w \in Workers : ~InWorker(w)'
    BY <2>1, <2>3, <2>4, <2>5, <2>6, <2>7, <2>8
  <2>10. \A u \in Threads : InCtl(u)' =>
           /\ "PreShutdown" \in notified' /\ ~InRun'
           /\ \A v \in Threads : InCtl(v)' => u = v
           /\ \A w \in Workers : ~InWorker(w)'
    BY <2>1, <2>5, <2>6, <2>8
  <2>. QED BY <2>1, <2>6, <2>9, <2>10
<1>4. ASSUME NEW t \in Threads, TakeControl(t) PROVE TokenInv'
  <2>1. /\ UNCHANGED <<pipe, notified, wpc, shutdown>> /\ ctl' = [ctl EXCEPT ![t] = NoCtl]
        /\ UNCHANGED <<outch, cmd>> \/ cmd' = ctl[t].cmd
    BY <1>4 DEF TakeControl, SelCtl, SelCtlThen, scmVars, myVars
  <2>2. \A u \in Threads : InCtl(u)' <=> InCtl(u) /\ u # t
    BY <2>1 DEF Typing, CtlTyping, NoCtl
  <2>3. InRun' => InRun \/ InCtl(t)
    BY <2>1
  <2>. QED BY <2>1, <2>2, <2>3
<1>5. ASSUME NEW c \in Cmd, SendControl(c) PROVE TokenInv'
  <2>1. /\ UNCHANGED <<ctl, outch, cmd, wpc, shutdown>> /\ notified \subseteq notified'
        /\ pipe' = Append(pipe, [cmd |-> c, id |-> sent + 1]) /\ pipe \in Seq(Control)
        /\ c = "PreShutdown" => "PreShutdown" \notin notified /\ "PreShutdown" \in notified'
    BY <1>5 DEF SendControl, ScmSend, CanSend, loopVars, myVars, Typing, ScmTypeOK
  <2>2. /\ Len(pipe') = Len(pipe) + 1 /\ Len(pipe) \in Nat /\ pipe'[Len(pipe')].cmd = c
        /\ \A i \in 1 .. Len(pipe) : pipe'[i] = pipe[i]
    BY <2>1
  <2>3. \A i \in 1 .. Len(pipe') :
          InPipe(i)' <=> IF i = Len(pipe') THEN c = "PreShutdown" ELSE InPipe(i)
    BY <2>2
  <2>4. \A i \in 1 .. Len(pipe') : i # Len(pipe') => i \in 1 .. Len(pipe)
    BY <2>2
  <2>5. /\ InRun' <=> InRun
        /\ \A u \in Threads : InCtl(u)' <=> InCtl(u)
        /\ \A w \in Workers : InWorker(w)' <=> InWorker(w)
    BY <2>1
  <2> HIDE DEF InPipe, InCtl, InRun, InWorker
  <2>6. CASE c = "PreShutdown"
    BY <2>1, <2>3, <2>4, <2>5, <2>6
  <2>7. CASE c # "PreShutdown"
    BY <2>1, <2>3, <2>4, <2>5, <2>7
  <2>. QED BY <2>6, <2>7
<1>6. CASE GiveRequest
  <2>1. UNCHANGED <<pipe, notified, ctl, shutdown>> /\ outch /\ ~outch'
    BY <1>6 DEF GiveRequest, SelCmd, SelCmdThen, EReceive, Report, BreakLoop, StartWorker, scmVars
  <2>2. CASE wpc' = wpc
    BY <2>1, <2>2
  <2>3. CASE wpc' # wpc
    <3>1. cmd = "PreShutdown" /\ \E w \in Workers : wpc' = [wpc EXCEPT ![w] = "go"]
      BY <1>6, <2>3 DEF GiveRequest, EReceive, Report, BreakLoop, StartWorker
    <3>2. PICK w \in Workers : wpc' = [wpc EXCEPT ![w] = "go"]
      BY <3>1
    <3>3. InRun /\ ~InRun'
      BY <2>1, <3>1
    <3>4. \A v \in Workers : InWorker(v)' => v = w
      BY <3>2, <3>3 DEF Typing, MyTypeOK
    <3>5. \A v \in Workers : wpc[v] # "done"
      BY <3>3
    <3>. QED BY <2>1, <3>3, <3>4, <3>5
  <2>. QED BY <2>2, <2>3
<1>7. ASSUME NEW w \in Workers, WorkerStep(w) PROVE TokenInv'
  <2>1. UNCHANGED <<pipe, notified, ctl, outch, cmd>> /\ wpc[w] \in {"go", "sleep"}
    BY <1>7 DEF WorkerStep, WGo, WWork, svcVars, scmVars, loopVars
  <2>2. \A v \in Workers : /\ InWorker(v)' <=> InWorker(v)
                           /\ v # w => wpc'[v] = wpc[v]
    BY <1>7 DEF WorkerStep, WGo, WWork, Typing, MyTypeOK
  <2>3. \A v \in Workers : wpc[v] # "done"
    BY <2>1
  <2>4. shutdown = "open"
    BY <2>3
  <2>5. shutdown' = "open" \/ (shutdown' = "closed" /\ wpc'[w] = "done")
    BY <1>7, <2>4 DEF WorkerStep, WGo, WWork, Close, Typing, MyTypeOK
  <2> HIDE DEF InWorker
  <2>. QED BY <2>1, <2>2, <2>5
<1>8. ASSUME NEW w \in Workers, TakeWorkerStatus(w) PROVE TokenInv'
  <2>1. UNCHANGED <<pipe, notified, ctl, outch, cmd, shutdown>>
    BY <1>8 DEF TakeWorkerStatus, SelChange, ReceiveChange, WSent, scmVars
  <2>2. wpc[w] = "send" /\ wpc' = [wpc EXCEPT ![w] = "sleep"]
    BY <1>8 DEF TakeWorkerStatus, WSent
  <2>3. \A v \in Workers : (InWorker(v)' <=> InWorker(v)) /\ (wpc[v] = "done" => wpc'[v] = "done")
    BY <2>2 DEF Typing, MyTypeOK
  <2>. QED BY <2>1, <2>3
<1>. QED BY <1>1, <1>2, <1>3, <1>4, <1>5, <1>6, <1>7, <1>8 DEF LifeStep, ServiceStep

\* The process as Windows launches it satisfies the invariant.
LEMMA LifeInit == Init => LInv
<1> SUFFICES ASSUME Init PROVE LInv
  OBVIOUS
<1>1. Typing
  BY TypingInit
<1>2. PhaseInv
  BY Zenon DEF Init, SvcInit, MyInit, PhaseInv
<1>3. NotShownYet
  BY DEF Init, SvcInit, NotShownYet, Quiet
<1>4. StatusInv /\ ExitInv /\ LogOpenWhenUsed
  BY <1>3 DEF Init, SvcInit, MyInit, StatusInv, ExitInv, LogOpenWhenUsed, BareStatus
<1>5. TickInv
  BY DEF Init, SvcInit, MyInit, TickInv, BareStatus
<1>6. TokenInv
  BY DEF Init, SvcInit, MyInit, TokenInv, InPipe, InCtl, InRun, InWorker, ShutdownClosedOnce,
     NoCtl
<1>. QED BY <1>1, <1>2, <1>4, <1>5, <1>6 DEF LInv

\* Every step of the process preserves it, and so does a step of somebody else.
LEMMA LifeInvariance == LInv /\ (LifeStep \/ UNCHANGED vars) => LInv'
<1> SUFFICES ASSUME LInv, LifeStep \/ UNCHANGED vars PROVE LInv'
  OBVIOUS
<1>1. CASE LifeStep
  BY <1>1, TypingStep, PhaseStep, StatusStep, ExitStep, LogStep, TickStep, TokenStep DEF LInv
<1>2. CASE UNCHANGED vars
  <2> USE <1>2 DEF LInv, vars, svcVars, scmVars, mainVars, smVars, evVars, loopVars, myVars,
                   progVars
  <2>1. Typing'
    BY Frames DEF Typing
  <2>2. PhaseInv'
    BY DEF PhaseInv
  <2>3. StatusInv' /\ ExitInv' /\ LogOpenWhenUsed'
    BY DEF StatusInv, NotShownYet, Quiet, Shows, ExitInv, LogOpenWhenUsed
  <2>4. TickInv'
    BY DEF TickInv, Suits
  <2>5. TokenInv'
    BY TokenFrame DEF tokenVars
  <2>. QED BY <2>1, <2>2, <2>3, <2>4, <2>5
<1>. QED BY <1>1, <1>2

\* Within one life Stopped is the last state that the SCM sees: no status of
\* Execute or of a worker that run() has left behind replaces it.
LEMMA StoppedStays ==
  LInv /\ LifeStep /\ scm.CurrentState = "Stopped" => scm'.CurrentState = "Stopped"
<1> SUFFICES ASSUME LInv, LifeStep, scm.CurrentState = "Stopped"
             PROVE  scm'.CurrentState = "Stopped"
  OBVIOUS
<1>1. run # "update"
  BY NotStopped DEF LInv, StatusInv, LifeStep, ServiceStep, Alive
<1>2. CASE RunStep
  BY <1>1, <1>2 DEF RunStep, RunPanic, RunUpdate, RunUpdateThen, RunFinal, RunFinalThen,
     RunSetCWaits, SetCWaits, scmVars, ServiceStatus, BareStatus
<1>3. CASE RunServiceStep
  BY <1>3, Ends DEF RunServiceStep, RunServiceOpen, RunServiceOpenThen, RunServiceEnd,
     MainReturns, svcVars, scmVars
<1>4. CASE ~RunStep /\ ~RunServiceStep
  BY <1>4 DEF LifeStep, ServiceStep, MainStep, NewService, NewCallback,
     StartServiceCtrlDispatcher, RunReturn, RunReturnWith, ServiceMainStep, ScmStartService,
     ServiceMainStoreArgs, StoreArgs, ServiceMainRegister, RegisterThen, ServiceMainSetEvent,
     ServiceMainWait, ExecuteStep, CallbackStep, ctlHandler, TakeControl, SelCtl,
     SelCtlThen, WorkerStep, TakeWorkerStatus, SelChange, ReceiveChange, Start, RunStart,
     GiveRequest, SelCmd, SelCmdThen, TakeStatus, TakeExit, SelExit, SelExitThen, SendControl,
     ScmSend, svcVars, scmVars
<1>. QED BY <1>2, <1>3, <1>4

\* What the invariant says of the properties that the runs check.
LEMMA LifeProperties ==
  LInv => TypeOK /\ ShutdownClosedOnce /\ LogOpenWhenUsed /\ TickFollowsStatus
BY DEF LInv, Typing, CtlTyping, LoopTyping, ProgTyping, TypeOK, SvcTypeOK, TokenInv, TickInv,
       Suits, TickFollowsStatus

-------------------------------------------------------------------------------
\* The statuses that Execute and its worker ever report, answers to Interrogate
\* included.
Own ==
  {BareStatus("StartPending"), Up("Running"), Up("Paused")} \cup {Stopping(n) : n \in Nat}

\* Whatever is on its way to the SCM is one of them, also a status that was shown,
\* handed out with a request and sent back; and run() takes no control while it
\* has one to hand over.
OwnInv ==
  /\ inch => ~outch
  /\ est \in Own /\ \A w \in Workers : wst[w] \in Own
  /\ run = "update" => chg \in Own
  /\ rs # "exit" /\ run \in {"select", "update"} => NotShownYet \/ status \in Own

\* The status literals are the process's own.
LEMMA OwnLiterals ==
  /\ BareStatus("StartPending") \in Own /\ BareStatus("StopPending") \in Own
  /\ Up("Running") \in Own /\ Up("Paused") \in Own
  /\ \A n \in Nat : Stopping(n) \in Own
  /\ \A st \in Own : st \in Status /\ st.State # "Stopped"
<1>1. BareStatus("StopPending") = Stopping(0)
  BY DEF BareStatus, Stopping
<1>2. \A st \in Own : st \in Status
  BY StatusTypes DEF Own, State
<1>3. \A st \in Own : st.State # "Stopped"
  BY DEF Own, BareStatus, Up, Stopping
<1>. QED BY <1>1, <1>2, <1>3 DEF Own

\* No step brings up a status of another making.
LEMMA OwnStep == LInv /\ OwnInv /\ LifeStep => OwnInv'
<1> SUFFICES ASSUME Typing, PhaseInv, StatusInv, OwnInv, LifeStep PROVE OwnInv'
  BY DEF LInv
<1> USE DEF OwnInv, NotShownYet, Quiet, scmVars, loopVars, myVars, progVars
<1>0. rs # "exit"
  BY DEF LifeStep, ServiceStep, Alive
<1>1. CASE RunServiceStep
  BY <1>0, <1>1, Ends DEF RunServiceStep, RunServiceOpen, RunServiceOpenThen, RunServiceEnd,
     MainReturns, ProcessEnds, svcVars
<1>2. CASE MainStep
  BY <1>0, <1>2 DEF MainStep, NewService, NewCallback, StartServiceCtrlDispatcher, RunReturn,
     RunReturnWith
<1>3. CASE ServiceMainStep
  BY <1>0, <1>3 DEF ServiceMainStep, ScmStartService, ServiceMainStoreArgs, StoreArgs,
     ServiceMainRegister, RegisterThen, ServiceMainSetEvent, ServiceMainWait
<1>4. CASE RunStep
  BY <1>0, <1>4 DEF RunStep, RunPanic, RunUpdate, RunUpdateThen, RunFinal, RunFinalThen,
     RunSetCWaits, SetCWaits
<1>5. CASE ExecuteStep
  BY <1>0, <1>5, OwnLiterals DEF ExecuteStep, ESleep, ELog, EShutdown, BreakLoop, svcVars, Typing,
     MyTypeOK
<1>6. ASSUME NEW w \in Workers, WorkerStep(w) PROVE OwnInv'
  BY <1>0, <1>6, OwnLiterals DEF WorkerStep, WGo, WWork, svcVars, Typing, MyTypeOK
<1>7. ASSUME NEW w \in Workers, TakeWorkerStatus(w) PROVE OwnInv'
  BY <1>0, <1>7 DEF TakeWorkerStatus, SelChange, ReceiveChange, WSent
<1>8. ASSUME NEW t \in Threads, CallbackStep(t) \/ TakeControl(t) PROVE OwnInv'
  BY <1>0, <1>8 DEF CallbackStep, ctlHandler, TakeControl, SelCtl, SelCtlThen
<1>9. ASSUME NEW c \in Cmd, SendControl(c) PROVE OwnInv'
  <2>1. ~NotShownYet
    BY <1>9, NotStopped DEF SendControl, ScmSend, CanSend, CmdFlag
  <2>. QED BY <1>0, <1>9, <2>1 DEF SendControl, ScmSend
<1>10. CASE Start
  BY <1>0, <1>10 DEF Start, RunStart, ESpawn, StatusInv
<1>11. CASE GiveRequest
  <2>1. est' \in Own /\ wst' = wst
    BY <1>0, <1>11, OwnLiterals DEF GiveRequest, SelCmd, SelCmdThen, EReceive, Report, BreakLoop,
       StartWorker, Typing, MyTypeOK
  <2>. QED BY <1>0, <1>11, <2>1 DEF GiveRequest, SelCmd, SelCmdThen
<1>12. CASE TakeStatus
  <2>1. est' \in Own /\ wst' = wst
    BY <1>12, OwnLiterals DEF TakeStatus, ESent
  <2>. QED BY <1>0, <1>12, <2>1 DEF TakeStatus, SelChange, ReceiveChange, ESent
<1>13. CASE TakeExit
  BY <1>0, <1>13 DEF TakeExit, SelExit, SelExitThen, EExit
<1>. QED BY <1>1, <1>2, <1>3, <1>4, <1>5, <1>6, <1>7, <1>8, <1>9, <1>10, <1>11, <1>12, <1>13
            DEF LifeStep, ServiceStep

\* One life of the process, from its launch on.  lastReq is a history variable,
\* the request last handed to Execute: it takes part in no guard.
VARIABLE lastReq

lifeVars == <<vars, lastReq>>

ObservedStep ==
  /\ LifeStep
  /\ lastReq' = IF GiveRequest THEN [Cmd |-> cmd, CurrentStatus |-> status] ELSE lastReq

LifeSpec ==
  /\ Init /\ lastReq = [Cmd |-> "None", CurrentStatus |-> BareStatus("Stopped")]
  /\ [][ObservedStep]_lifeVars

LifePhase ==
  IF rs = "exit" THEN "reported"
  ELSE CASE run \in {"off", "wait"}      -> "starting"
         [] run \in {"select", "update"} -> "serving"
         [] run = "final"                -> "over"
         [] OTHER                        -> "reported"

LifeMailbox == IF outch THEN <<cmd>> ELSE <<>>

Contract ==
  INSTANCE ServiceContract WITH
    Publishable <- Own, phase <- LifePhase, shown <- scm,
    mailbox <- LifeMailbox, request <- lastReq

\* The contract's copies of the definitions of SvcTypes.
LEMMA SameValues ==
  /\ Contract!Cmd = Cmd /\ Contract!NoExit = NoExit
  /\ \A s : Contract!BareStatus(s) = BareStatus(s)
  /\ \A st, x : Contract!ServiceStatus(st, x) = ServiceStatus(st, x)
BY DEF Contract!Cmd, Cmd, Contract!NoExit, NoExit, Contract!NO_ERROR, NO_ERROR,
       Contract!BareStatus, BareStatus, Contract!ServiceStatus, ServiceStatus,
       Contract!KnownFlags, KnownFlags, Contract!Win32ExitCode, Win32ExitCode,
       Contract!ServiceSpecificExitCode, ServiceSpecificExitCode,
       Contract!ERROR_SERVICE_SPECIFIC_ERROR, ERROR_SERVICE_SPECIFIC_ERROR

\* In each of its lives the example service, with Execute and the worker both
\* sending on changes, keeps the contract of ServiceContract, and publishes only
\* its own statuses: a process that ends without a word from run() is one that
\* dies while starting.
THEOREM LifeRefinesContract == LifeSpec => Contract!CSpec
<1>1. LifeSpec => [](LInv /\ OwnInv)
  <2>1. Init => LInv /\ OwnInv
    <3>1. Init => OwnInv
      BY OwnLiterals DEF Init, SvcInit, MyInit, OwnInv
    <3>. QED BY <3>1, LifeInit
  <2>2. LInv /\ OwnInv /\ (LifeStep \/ UNCHANGED lifeVars) => (LInv /\ OwnInv)'
    <3>1. OwnInv /\ UNCHANGED vars => OwnInv'
      BY DEF OwnInv, NotShownYet, Quiet, vars, svcVars, scmVars, loopVars, myVars, progVars
    <3>. QED BY <3>1, LifeInvariance, OwnStep DEF lifeVars
  <2>3. ObservedStep => LifeStep
    BY DEF ObservedStep
  <2>. QED BY <2>1, <2>2, <2>3, PTL DEF LifeSpec
<1>2. Init /\ lastReq = [Cmd |-> "None", CurrentStatus |-> BareStatus("Stopped")]
      => Contract!CInit
  BY SameValues DEF Init, SvcInit, Contract!CInit, LifePhase, LifeMailbox
<1>3. ASSUME LInv, OwnInv, ObservedStep
      PROVE  Contract!CNext \/ UNCHANGED <<LifePhase, scm, LifeMailbox, lastReq>>
  <2> USE <1>3 DEF ObservedStep, LifePhase, LifeMailbox, scmVars, loopVars, progVars
  <2>a. Typing /\ PhaseInv /\ StatusInv /\ ExitInv
    BY DEF LInv
  <2>0. rs # "exit"
    BY DEF LifeStep, ServiceStep, Alive
  <2>1. CASE GiveRequest
    <3>1. Contract!Hand
      BY <2>0, <2>1, <2>a, SameValues DEF GiveRequest, SelCmd, SelCmdThen, StatusInv, OwnInv,
         NotShownYet, Shows, Contract!Hand
    <3>. QED BY <3>1 DEF Contract!CNext
  <2> SUFFICES ASSUME ~GiveRequest
               PROVE  Contract!CNext \/ UNCHANGED <<LifePhase, scm, LifeMailbox, lastReq>>
    BY <2>1
  <2>b. UNCHANGED lastReq
    OBVIOUS
  <2>2. CASE RunServiceStep
    <3>1. CASE ProcessEnds
      <4>1. CASE main = "returned"
        BY <2>0, <2>2, <2>a, <2>b, <3>1, <4>1, Ends DEF ProcessEnds, ExitInv
      <4>2. CASE main # "returned"
        <5>1. run \in {"off", "wait"}
          BY <2>0, <2>2, <2>a, <3>1, <4>2 DEF RunServiceStep, RunServiceOpen, RunServiceOpenThen,
             RunServiceEnd, MainReturns, ProcessEnds, PhaseInv
        <5>2. Contract!Die
          BY <2>0, <2>a, <2>b, <3>1, <5>1, Ends, NotStopped DEF ProcessEnds, StatusInv,
             Contract!Die
        <5>. QED BY <5>2 DEF Contract!CNext
      <4>. QED BY <4>1, <4>2
    <3>2. CASE ~ProcessEnds
      BY <2>0, <2>2, <2>b, <3>2 DEF RunServiceStep, RunServiceOpen, RunServiceOpenThen,
         RunServiceEnd, MainReturns, svcVars
    <3>. QED BY <3>1, <3>2
  <2>3. CASE MainStep
    BY <2>0, <2>3, <2>a, <2>b DEF MainStep, NewService, NewCallback, StartServiceCtrlDispatcher,
       RunReturn, RunReturnWith, PhaseInv
  <2>4. CASE ServiceMainStep
    BY <2>0, <2>4, <2>b DEF ServiceMainStep, ScmStartService, ServiceMainStoreArgs, StoreArgs,
       ServiceMainRegister, RegisterThen, ServiceMainSetEvent, ServiceMainWait
  <2>5. CASE RunStep
    <3>1. CASE RunPanic
      <4>1. Contract!Die
        BY <2>0, <2>5, <2>b, <3>1 DEF RunStep, RunPanic, ProcessAborted, Contract!Die,
           ServiceStatus, BareStatus, Win32ExitCode
      <4>. QED BY <4>1 DEF Contract!CNext
    <3>2. CASE RunUpdate
      <4>1. Contract!Publish \/ Contract!End
        BY <2>0, <2>5, <2>a, <2>b, <3>2, SameValues DEF RunStep, RunUpdate, RunUpdateThen,
           StatusInv, OwnInv, Contract!Publish, Contract!End
      <4>. QED BY <4>1 DEF Contract!CNext
    <3>3. CASE RunFinal
      <4>1. Contract!Report
        BY <2>0, <2>5, <2>b, <3>3 DEF RunStep, RunFinal, RunFinalThen, Contract!Report,
           ServiceStatus, BareStatus
      <4>. QED BY <4>1 DEF Contract!CNext
    <3>4. CASE RunSetCWaits
      BY <2>0, <2>5, <2>b, <3>4 DEF RunStep, RunSetCWaits, SetCWaits
    <3>. QED BY <2>5, <3>1, <3>2, <3>3, <3>4 DEF RunStep
  <2>6. CASE ExecuteStep
    BY <2>0, <2>6, <2>b DEF ExecuteStep, svcVars
  <2>7. ASSUME NEW w \in Workers, WorkerStep(w) \/ TakeWorkerStatus(w)
        PROVE  UNCHANGED <<LifePhase, scm, LifeMailbox, lastReq>>
    BY <2>0, <2>7, <2>b DEF WorkerStep, TakeWorkerStatus, SelChange, ReceiveChange, svcVars
  <2>8. ASSUME NEW t \in Threads, CallbackStep(t)
        PROVE  UNCHANGED <<LifePhase, scm, LifeMailbox, lastReq>>
    BY <2>0, <2>8, <2>b DEF CallbackStep, ctlHandler
  <2>9. ASSUME NEW t \in Threads, TakeControl(t) PROVE Contract!Post \/ Contract!End
    <3>1. CASE ctl[t].errno # 0
      BY <2>0, <2>9, <2>b, <3>1 DEF TakeControl, SelCtl, SelCtlThen, Contract!End
    <3>2. CASE ctl[t].errno = 0
      BY <2>0, <2>9, <2>a, <2>b, <3>2, SameValues DEF TakeControl, SelCtl, SelCtlThen,
         Contract!Post, OwnInv, Typing, CtlTyping
    <3>. QED BY <3>1, <3>2
  <2>10. ASSUME NEW c \in Cmd, SendControl(c)
         PROVE  UNCHANGED <<LifePhase, scm, LifeMailbox, lastReq>>
    BY <2>0, <2>10, <2>b DEF SendControl, ScmSend
  <2>11. CASE Start
    <3>1. Contract!Serve
      BY <2>0, <2>11, <2>a, <2>b DEF Start, RunStart, StatusInv, NotShownYet, Contract!Serve
    <3>. QED BY <3>1 DEF Contract!CNext
  <2>12. CASE TakeStatus
    BY <2>0, <2>12, <2>b DEF TakeStatus, SelChange, ReceiveChange
  <2>13. CASE TakeExit
    <3>1. Contract!End
      BY <2>0, <2>13, <2>b DEF TakeExit, SelExit, SelExitThen, Contract!End
    <3>. QED BY <3>1 DEF Contract!CNext
  <2>. QED BY <2>2, <2>3, <2>4, <2>5, <2>6, <2>7, <2>8, <2>9, <2>10, <2>11, <2>12, <2>13
              DEF LifeStep, ServiceStep, Contract!CNext
<1>4. UNCHANGED lifeVars => UNCHANGED <<LifePhase, scm, LifeMailbox, lastReq>>
  BY DEF lifeVars, vars, svcVars, scmVars, loopVars, progVars, LifePhase, LifeMailbox
<1>5. LInv /\ OwnInv /\ [ObservedStep]_lifeVars => [Contract!CNext]_(Contract!cvars)
  BY <1>3, <1>4 DEF Contract!cvars
<1>. QED BY <1>1, <1>2, <1>5, PTL DEF LifeSpec, Contract!CSpec
===============================================================================
