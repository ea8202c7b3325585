---------------------------- MODULE Service_proofs ----------------------------
(***************************************************************************)
(* Proofs about Service: the inductive invariant IInv, and from it the     *)
(* safety properties of Service and the refinement of ServiceContract, for *)
(* every set of threads, every handler and every bound.                    *)
(*                                                                         *)
(* Each conjunct of IInv has a lemma that every step preserves it; the     *)
(* lemma's hypotheses say on which other conjuncts it rests.               *)
(***************************************************************************)
EXTENDS Service, TLAPS

\* Types.  TypeOK alone is not inductive: that only proper commands reach the
\* handler rests on what the callbacks and the variable cmd hold.
CtlTyping ==
  /\ ctl \in [Threads -> ctlEvent]
  /\ \A t \in Threads : ctl[t] # NoCtl => ctl[t].cmd \in Cmd

LoopTyping == LoopTypeOK /\ (outch => cmd \in Cmd)

Typing ==
  /\ ScmTypeOK /\ CtlTyping /\ MainTypeOK /\ SmTypeOK /\ EvTypeOK
  /\ RunTypeOK /\ LoopTyping /\ HTypeOK /\ HistTypeOK

\* ssHandle is stored before goWaits is set, and run() copies it after that.
HandleInv ==
  /\ goWaits \/ sm \in {"setGo", "waitC"} => ssHandle = Handle
  /\ run \in {"select", "update", "final"} => h = Handle

\* The events exist before anything that uses them can start, and stay open.
EventsInv ==
  /\ main \in {"newService", "newCallback"} => run = "off"
  /\ main \in {"newService", "newCallback", "connect"} => sm = "off"
  /\ \/ main \notin {"newService", "failed"} \/ run # "off" \/ sm # "off"
     => events = {"cWaits", "goWaits"}

\* Before the first status is applied the SCM shows a StartPending that
\* accepts nothing, so it sends nothing.
Quiet == pipe = <<>> /\ \A t \in Threads : ctl[t] = NoCtl

NotShownYet ==
  /\ scm = ServiceStatus(BareStatus("StartPending"), NoExit)
  /\ ~outch /\ Quiet

Shows(st) == st \in Reports /\ scm = ServiceStatus(st, NoExit)

\* In its loop run() either waits for the first status, or its status is the
\* one the SCM shows; whatever the handler is sending is in Reports, also what
\* it sends back from a request.
StatusInv ==
  /\ run \in {"off", "wait"} => NotShownYet /\ hpc = "off"
  /\ run \in {"select", "update"} => ec = NoExit /\ (NotShownYet \/ Shows(status))
  /\ run = "update" => chg \in Reports
  /\ hpc = "send" => hst \in Reports
  /\ hreq # NoReq => hreq.CurrentStatus \in Reports
  /\ run = "final" => scm.CurrentState # "Stopped"

\* Out of its loop run() holds what Execute returned, or an error.
ExitInv ==
  /\ run \in {"off", "wait", "select", "update"} => hpc # "done"
  /\ run \in {"final", "setC", "done"} =>
       IF hpc = "done" THEN ec = hret ELSE ec.errno # 0 /\ ec.isSvcSpecific
  /\ run \in {"setC", "done"} /\ scm.CurrentState = "Stopped" =>
       scm = ServiceStatus(BareStatus("Stopped"), ec)
  /\ run = "panic" =>
       /\ main = "crashed" /\ hpc = "off"
       /\ scm = ServiceStatus(BareStatus("Stopped"), ProcessAborted)

\* At most one control is between run() and the handler.
ControlInv == (inch => ~outch) /\ NoControlLost

\* Controls are numbered in the order sent: those run() has taken come before
\* the one in a callback on Run's thread, and that one before those in the
\* pipe.  A callback on another thread carries an error.
OrderInv ==
  /\ \A t \in Threads : ctl[t] # NoCtl /\ t # RunThread => ctl[t].errno # 0
  /\ \A i, j \in 1 .. Len(pipe) : i < j => pipe[i].id < pipe[j].id
  /\ \A i \in 1 .. Len(pipe) : pipe[i].id <= sent
  /\ ctl[RunThread] # NoCtl => ctl[RunThread].id <= sent
  /\ \A i \in 1 .. Len(pipe) : ctl[RunThread] # NoCtl => ctl[RunThread].id < pipe[i].id
  /\ \A i \in 1 .. Len(taken) : taken[i].id <= sent
  /\ \A i \in 1 .. Len(taken) : ctl[RunThread] # NoCtl => taken[i].id < ctl[RunThread].id
  /\ \A i \in 1 .. Len(taken), j \in 1 .. Len(pipe) : taken[i].id < pipe[j].id
  /\ ControlsInOrder

IInv == Typing /\ HandleInv /\ EventsInv /\ StatusInv /\ ExitInv /\ ControlInv /\ OrderInv

\* The Status literals of the code, and what updateStatus builds from a Status
\* and an exitCode, have their types.
LEMMA StatusTypes ==
  /\ \A s \in State : BareStatus(s) \in Status
  /\ \A st \in Status, x \in exitCode : ServiceStatus(st, x) \in SERVICE_STATUS
  /\ NoExit \in exitCode /\ NoReq \in ChangeRequest
BY DEF State, BareStatus, Status, Accepted, KnownFlags, exitCode, ServiceStatus,
       SERVICE_STATUS, Win32ExitCode, ServiceSpecificExitCode,
       NO_ERROR, ERROR_SERVICE_SPECIFIC_ERROR, NoExit, NoReq, ChangeRequest

\* The state in which Windows launches the process is well typed.
LEMMA TypingInit == Init => Typing
<1> SUFFICES ASSUME Init PROVE Typing
  OBVIOUS
<1> USE StatusTypes, SvcRunAssumption DEF Init, SvcInit, HInit
<1>1. ScmTypeOK
  BY DEF ScmTypeOK, State
<1>2. CtlTyping
  BY DEF CtlTyping, ctlEvent, NoCtl
<1>3. MainTypeOK /\ SmTypeOK /\ EvTypeOK /\ RunTypeOK
  BY DEF MainTypeOK, SmTypeOK, EvTypeOK, RunTypeOK
<1>4. LoopTyping
  BY DEF LoopTyping, LoopTypeOK, State
<1>5. HTypeOK /\ HistTypeOK
  BY DEF HTypeOK, HistTypeOK, State
<1>. QED BY <1>1, <1>2, <1>3, <1>4, <1>5 DEF Typing

\* The type of a group of variables survives a step that leaves them alone.
LEMMA Frames ==
  /\ ScmTypeOK /\ UNCHANGED scmVars => ScmTypeOK'
  /\ CtlTyping /\ UNCHANGED ctl => CtlTyping'
  /\ MainTypeOK /\ UNCHANGED mainVars => MainTypeOK'
  /\ SmTypeOK /\ UNCHANGED smVars => SmTypeOK'
  /\ EvTypeOK /\ UNCHANGED evVars => EvTypeOK'
  /\ RunTypeOK /\ UNCHANGED run => RunTypeOK'
  /\ LoopTyping /\ UNCHANGED loopVars => LoopTyping'
  /\ HTypeOK /\ UNCHANGED hVars => HTypeOK'
  /\ HistTypeOK /\ UNCHANGED histVars => HistTypeOK'
BY DEF scmVars, mainVars, smVars, evVars, loopVars, hVars, histVars, ScmTypeOK, CtlTyping,
       MainTypeOK, SmTypeOK, EvTypeOK, RunTypeOK, LoopTyping, LoopTypeOK, HTypeOK, HistTypeOK

\* Every step of Run, servicemain, the callbacks, run() and the handler keeps
\* the types.
LEMMA TypingStep == Typing /\ [Next]_vars => Typing'
<1> SUFFICES ASSUME Typing, [Next]_vars PROVE Typing'
  OBVIOUS
<1> USE Frames DEF Typing
<1>1. CASE MainStep
  <2>1. MainTypeOK' /\ RunTypeOK'
    BY <1>1 DEF MainStep, NewService, NewCallback, StartServiceCtrlDispatcher, RunReturn,
       RunReturnWith,
       MainTypeOK, RunTypeOK
  <2>. QED
    BY <1>1, <2>1 DEF MainStep, NewService, NewCallback, StartServiceCtrlDispatcher, RunReturn,
       RunReturnWith
<1>2. CASE ServiceMainStep
  <2>1. CASE ScmStartService
    BY <1>2, <2>1, SvcRunAssumption DEF ServiceMainStep, ScmStartService, SmTypeOK
  <2>2. CASE ServiceMainStoreArgs
    BY <1>2, <2>2, SvcRunAssumption DEF ServiceMainStep, ServiceMainStoreArgs, StoreArgs, SmTypeOK
  <2>3. CASE ServiceMainRegister
    BY <1>2, <2>3 DEF ServiceMainStep, ServiceMainRegister, RegisterThen, SmTypeOK, EvTypeOK
  <2>4. CASE ServiceMainSetEvent
    BY <1>2, <2>4 DEF ServiceMainStep, ServiceMainSetEvent, SmTypeOK, EvTypeOK, EventSet
  <2>5. CASE ServiceMainWait
    BY <1>2, <2>5 DEF ServiceMainStep, ServiceMainWait, SmTypeOK, EvTypeOK
  <2>. QED BY <1>2, <2>1, <2>2, <2>3, <2>4, <2>5 DEF ServiceMainStep
<1>3. CASE RunStep
  <2>1. CASE RunPanic
    <3>0. ProcessAborted \in exitCode
      BY DEF ProcessAborted, exitCode
    <3>1. ScmTypeOK'
      BY <2>1, <3>0, StatusTypes DEF RunPanic, ScmTypeOK, State
    <3>2. MainTypeOK' /\ EvTypeOK' /\ RunTypeOK'
      BY <2>1 DEF RunPanic, MainTypeOK, EvTypeOK, RunTypeOK
    <3>3. LoopTyping'
      BY <2>1 DEF RunPanic, LoopTyping, LoopTypeOK, SmTypeOK
    <3>. QED BY <1>3, <2>1, <3>1, <3>2, <3>3 DEF RunPanic, RunStep
  <2>2. CASE RunUpdate
    <3>1. ScmTypeOK'
      BY <2>2, StatusTypes DEF RunUpdate, RunUpdateThen, ScmTypeOK, LoopTyping, LoopTypeOK
    <3>2. ec' \in exitCode
      BY <2>2, SvcRunAssumption DEF RunUpdate, RunUpdateThen, SetServiceStatusResult, exitCode,
         NO_ERROR,
         sysErrSetServiceStatusFailed, APPLICATION_ERROR, LoopTyping, LoopTypeOK
    <3>3. LoopTyping' /\ RunTypeOK'
      BY <2>2, <3>2 DEF RunUpdate, RunUpdateThen, LoopTyping, LoopTypeOK, RunTypeOK
    <3>. QED BY <1>3, <2>2, <3>1, <3>3 DEF RunUpdate, RunUpdateThen, RunStep
  <2>3. CASE RunFinal
    <3>1. ScmTypeOK' /\ RunTypeOK'
      BY <2>3, StatusTypes DEF RunFinal, RunFinalThen, ScmTypeOK, State, LoopTyping, LoopTypeOK,
         RunTypeOK
    <3>. QED BY <1>3, <2>3, <3>1 DEF RunFinal, RunFinalThen, RunStep
  <2>4. CASE RunSetCWaits
    BY <1>3, <2>4 DEF RunSetCWaits, SetCWaits, RunStep, RunTypeOK, EvTypeOK, EventSet
  <2>. QED BY <1>3, <2>1, <2>2, <2>3, <2>4 DEF RunStep
<1>4. CASE HandlerStep
  <2>1. HTypeOK'
    BY <1>4, HandlerAssumption
       DEF HandlerStep, HSend, HWait, HOther, HReturn, HTypeOK, ChangeRequest
  <2>. QED BY <1>4, <2>1 DEF HandlerStep, svcVars
<1>5. ASSUME NEW t \in Threads, CallbackStep(t) PROVE Typing'
  <2>1. Head(pipe) \in Control /\ Tail(pipe) \in Seq(Control)
    BY <1>5 DEF CallbackStep, ctlHandler, ScmTypeOK
  <2>2. CallbackErr(t) \in Nat
    BY DEF CallbackErr, sysErrNewThreadInCallback, APPLICATION_ERROR
  <2>3. CtlTyping'
    BY <1>5, <2>1, <2>2 DEF CallbackStep, ctlHandler, CtlTyping, Control, ctlEvent
  <2>4. ScmTypeOK'
    BY <1>5, <2>1 DEF CallbackStep, ctlHandler, ScmTypeOK
  <2>. QED BY <1>5, <2>3, <2>4 DEF CallbackStep, ctlHandler
<1>6. ASSUME NEW t \in Threads, TakeControl(t) PROVE Typing'
  <2>1. ctl[t].cmd \in Cmd /\ ctl[t].id \in Nat /\ ctl[t].errno \in Nat
    BY <1>6 DEF TakeControl, SelCtl, SelCtlThen, CtlTyping, ctlEvent
  <2>2. CtlTyping'
    BY <1>6 DEF TakeControl, SelCtl, SelCtlThen, CtlTyping, ctlEvent, NoCtl
  <2>3. HistTypeOK'
    <3>1. [cmd |-> ctl[t].cmd, id |-> ctl[t].id] \in Control
      BY <2>1 DEF Control
    <3>. QED BY <1>6, <3>1 DEF TakeControl, HistTypeOK
  <2>4. ec' \in exitCode
    BY <1>6, <2>1 DEF TakeControl, SelCtl, SelCtlThen, exitCode, LoopTyping, LoopTypeOK
  <2>5. LoopTyping' /\ RunTypeOK'
    BY <1>6, <2>1, <2>4 DEF TakeControl, SelCtl, SelCtlThen, LoopTyping, LoopTypeOK, RunTypeOK
  <2>. QED BY <1>6, <2>2, <2>3, <2>5 DEF TakeControl, SelCtl, SelCtlThen
<1>7. ASSUME NEW c \in Cmd, SendControl(c) PROVE Typing'
  <2>1. [cmd |-> c, id |-> sent + 1] \in Control /\ sent' \in 0 .. MaxControls
    BY <1>7, SvcRunAssumption DEF SendControl, ScmSend, Control, ScmTypeOK
  <2>2. ScmTypeOK'
    BY <1>7, <2>1 DEF SendControl, ScmSend, ScmTypeOK
  <2>. QED BY <1>7, <2>2 DEF SendControl, ScmSend
<1>8. CASE Start
  <2>1. EvTypeOK' /\ RunTypeOK' /\ HTypeOK'
    BY <1>8 DEF Start, RunStart, HSpawn, EvTypeOK, RunTypeOK, HTypeOK
  <2>2. LoopTyping'
    BY <1>8, StatusTypes DEF Start, RunStart, ArgsRead, State, SmTypeOK, LoopTyping, LoopTypeOK
  <2>. QED BY <1>8, <2>1, <2>2 DEF Start, RunStart
<1>9. CASE GiveRequest
  <2>1. HTypeOK'
    BY <1>9 DEF GiveRequest, HReceive, HTypeOK, ChangeRequest, LoopTyping, LoopTypeOK
  <2>2. HistTypeOK'
    BY <1>9 DEF GiveRequest, SelCmd, SelCmdThen, HistTypeOK, LoopTyping
  <2>3. LoopTyping'
    BY <1>9 DEF GiveRequest, SelCmd, SelCmdThen, LoopTyping, LoopTypeOK
  <2>. QED BY <1>9, <2>1, <2>2, <2>3 DEF GiveRequest, SelCmd, SelCmdThen
<1>10. CASE TakeStatus
  BY <1>10 DEF TakeStatus, SelChange, ReceiveChange, HSent, RunTypeOK, HTypeOK, LoopTyping,
     LoopTypeOK
<1>11. CASE TakeExit
  BY <1>11 DEF TakeExit, SelExit, SelExitThen, HExit, RunTypeOK, HTypeOK, LoopTyping, LoopTypeOK
<1>12. CASE UNCHANGED vars
  BY <1>12 DEF vars, svcVars
<1>. QED BY <1>1, <1>2, <1>3, <1>4, <1>5, <1>6, <1>7, <1>8, <1>9, <1>10, <1>11, <1>12 DEF Next

\* Once run() or servicemain exists, no call on an event fails: Set signals the
\* event and Wait comes back only when it is signaled.
LEMMA EventCallsSucceed ==
  EventsInv /\ (run # "off" \/ sm # "off") =>
    /\ EventSet("goWaits", goWaits) /\ EventSet("cWaits", cWaits)
    /\ EventWaitReturns("goWaits", goWaits) => goWaits
    /\ EventWaitReturns("cWaits", cWaits) => cWaits
BY DEF EventsInv, EventSet, EventWaitReturns

\* No step lets run() out of goWaits.Wait before servicemain has stored ssHandle.
LEMMA HandleStep == EventsInv /\ HandleInv /\ [Next]_vars => HandleInv'
<1> SUFFICES ASSUME EventsInv, HandleInv, [Next]_vars PROVE HandleInv'
  OBVIOUS
<1> USE DEF HandleInv, scmVars, mainVars, smVars, evVars, loopVars
<1>1. CASE MainStep
  BY <1>1 DEF MainStep, NewService, NewCallback, StartServiceCtrlDispatcher, RunReturn,
     RunReturnWith
<1>2. CASE ServiceMainStep
  BY <1>2 DEF ServiceMainStep, ScmStartService, ServiceMainStoreArgs, StoreArgs,
     ServiceMainRegister, RegisterThen,
     ServiceMainSetEvent, ServiceMainWait
<1>3. CASE RunStep
  BY <1>3, EventCallsSucceed DEF RunStep, RunPanic, RunUpdate, RunUpdateThen, RunFinal, RunFinalThen, RunSetCWaits,
     SetCWaits
<1>4. CASE HandlerStep
  BY <1>4 DEF HandlerStep, svcVars
<1>5. ASSUME NEW t \in Threads, CallbackStep(t) \/ TakeControl(t) PROVE HandleInv'
  BY <1>5 DEF CallbackStep, ctlHandler, TakeControl, SelCtl, SelCtlThen
<1>6. ASSUME NEW c \in Cmd, SendControl(c) PROVE HandleInv'
  BY <1>6 DEF SendControl, ScmSend
<1>7. CASE Start
  BY <1>7, EventCallsSucceed DEF Start, RunStart
<1>8. CASE GiveRequest
  BY <1>8 DEF GiveRequest, SelCmd, SelCmdThen
<1>9. CASE TakeStatus \/ TakeExit
  BY <1>9 DEF TakeStatus, TakeExit, SelChange, ReceiveChange, SelExit, SelExitThen
<1>10. CASE UNCHANGED vars
  BY <1>10 DEF vars, svcVars
<1>. QED BY <1>1, <1>2, <1>3, <1>4, <1>5, <1>6, <1>7, <1>8, <1>9, <1>10 DEF Next

\* No step closes an event, or lets run() or servicemain start without both.
LEMMA EventsStep == EventsInv /\ [Next]_vars => EventsInv'
<1> SUFFICES ASSUME EventsInv, [Next]_vars PROVE EventsInv'
  OBVIOUS
<1> USE DEF EventsInv, scmVars, mainVars, smVars, evVars, loopVars
<1>1. CASE MainStep
  BY <1>1 DEF MainStep, NewService, NewCallback, StartServiceCtrlDispatcher, RunReturn,
     RunReturnWith
<1>2. CASE ServiceMainStep
  BY <1>2 DEF ServiceMainStep, ScmStartService, ServiceMainStoreArgs, StoreArgs,
     ServiceMainRegister, RegisterThen,
     ServiceMainSetEvent, ServiceMainWait
<1>3. CASE RunStep
  BY <1>3 DEF RunStep, RunPanic, RunUpdate, RunUpdateThen, RunFinal, RunFinalThen, RunSetCWaits,
     SetCWaits
<1>4. CASE HandlerStep
  BY <1>4 DEF HandlerStep, svcVars
<1>5. ASSUME NEW t \in Threads, CallbackStep(t) \/ TakeControl(t) PROVE EventsInv'
  BY <1>5 DEF CallbackStep, ctlHandler, TakeControl, SelCtl, SelCtlThen
<1>6. ASSUME NEW c \in Cmd, SendControl(c) PROVE EventsInv'
  BY <1>6 DEF SendControl, ScmSend
<1>7. CASE Start
  BY <1>7 DEF Start, RunStart
<1>8. CASE GiveRequest
  BY <1>8 DEF GiveRequest, SelCmd, SelCmdThen
<1>9. CASE TakeStatus \/ TakeExit
  BY <1>9 DEF TakeStatus, TakeExit, SelChange, ReceiveChange, SelExit, SelExitThen
<1>10. CASE UNCHANGED vars
  BY <1>10 DEF vars, svcVars
<1>. QED BY <1>1, <1>2, <1>3, <1>4, <1>5, <1>6, <1>7, <1>8, <1>9, <1>10 DEF Next

\* Neither the SCM's first record nor a status of the handler shows Stopped.
LEMMA NotStopped ==
  /\ NotShownYet => scm.CurrentState = "StartPending" /\ scm.ControlsAccepted = {}
  /\ \A st \in Reports : Shows(st) => scm.CurrentState # "Stopped"
BY HandlerAssumption DEF NotShownYet, Shows, ServiceStatus, BareStatus

\* A change received from the handler becomes run()'s status in the same step in
\* which the SCM is shown it, and a request hands out nothing else.
LEMMA StatusStep == Typing /\ EventsInv /\ StatusInv /\ [Next]_vars => StatusInv'
<1> SUFFICES ASSUME Typing, EventsInv, StatusInv, [Next]_vars PROVE StatusInv'
  OBVIOUS
<1> USE DEF StatusInv, NotShownYet, Quiet, Shows, scmVars, loopVars, hVars
<1>1. CASE MainStep
  BY <1>1 DEF MainStep, NewService, NewCallback, StartServiceCtrlDispatcher, RunReturn,
     RunReturnWith, EventsInv
<1>2. CASE ServiceMainStep
  BY <1>2 DEF ServiceMainStep, ScmStartService, ServiceMainStoreArgs, StoreArgs,
     ServiceMainRegister, RegisterThen,
     ServiceMainSetEvent, ServiceMainWait
<1>3. CASE RunStep
  <2>1. CASE RunPanic
    BY <1>3, <2>1 DEF RunStep, RunPanic
  <2>2. CASE RunUpdate
    BY <1>3, <2>2, NotStopped DEF RunStep, RunUpdate, RunUpdateThen
  <2>3. CASE RunFinal \/ RunSetCWaits
    BY <1>3, <2>3 DEF RunStep, RunFinal, RunFinalThen, RunSetCWaits, SetCWaits
  <2>. QED BY <1>3, <2>1, <2>2, <2>3 DEF RunStep
<1>4. CASE HandlerStep
  BY <1>4 DEF HandlerStep, HSend, HWait, HOther, HReturn, svcVars
<1>5. ASSUME NEW t \in Threads, CallbackStep(t) PROVE StatusInv'
  BY <1>5 DEF CallbackStep, ctlHandler
<1>6. ASSUME NEW t \in Threads, TakeControl(t) PROVE StatusInv'
  BY <1>6, NotStopped DEF TakeControl, SelCtl, SelCtlThen
<1>7. ASSUME NEW c \in Cmd, SendControl(c) PROVE StatusInv'
  <2>1. ~NotShownYet
    BY <1>7, NotStopped DEF SendControl, ScmSend, CanSend, CmdFlag
  <2>. QED BY <1>7, <2>1 DEF SendControl, ScmSend
<1>8. CASE Start
  BY <1>8 DEF Start, RunStart, HSpawn
<1>9. CASE GiveRequest
  BY <1>9 DEF GiveRequest, SelCmd, SelCmdThen, HReceive
<1>10. CASE TakeStatus
  BY <1>10 DEF TakeStatus, SelChange, ReceiveChange, HSent
<1>11. CASE TakeExit
  BY <1>11, NotStopped DEF TakeExit, SelExit, SelExitThen, HExit
<1>12. CASE UNCHANGED vars
  BY <1>12 DEF vars, svcVars
<1>. QED BY <1>1, <1>2, <1>3, <1>4, <1>5, <1>6, <1>7, <1>8, <1>9, <1>10, <1>11, <1>12 DEF Next

\* ec leaves the loop as Execute's exit code, or with the errno of a failed
\* updateStatus or of a callback on a foreign thread.
LEMMA ExitStep == Typing /\ EventsInv /\ StatusInv /\ ExitInv /\ [Next]_vars => ExitInv'
<1> SUFFICES ASSUME Typing, EventsInv, StatusInv, ExitInv, [Next]_vars PROVE ExitInv'
  OBVIOUS
<1> USE DEF ExitInv, scmVars, mainVars, loopVars, hVars
<1>1. CASE MainStep
  BY <1>1 DEF MainStep, NewService, NewCallback, StartServiceCtrlDispatcher, RunReturn,
     RunReturnWith,
     EventsInv, StatusInv
<1>2. CASE ServiceMainStep
  BY <1>2 DEF ServiceMainStep, ScmStartService, ServiceMainStoreArgs, StoreArgs,
     ServiceMainRegister, RegisterThen,
     ServiceMainSetEvent, ServiceMainWait
<1>3. CASE RunStep
  <2>1. CASE RunPanic
    BY <1>3, <2>1 DEF RunStep, RunPanic, StatusInv
  <2>2. CASE RunUpdate
    BY <1>3, <2>2, SvcRunAssumption DEF RunStep, RunUpdate, RunUpdateThen, StatusInv, NoExit
  <2>3. CASE RunFinal
    BY <1>3, <2>3 DEF RunStep, RunFinal, RunFinalThen, StatusInv
  <2>4. CASE RunSetCWaits
    BY <1>3, <2>4 DEF RunStep, RunSetCWaits, SetCWaits
  <2>. QED BY <1>3, <2>1, <2>2, <2>3, <2>4 DEF RunStep
<1>4. CASE HandlerStep
  BY <1>4 DEF HandlerStep, HSend, HWait, HOther, HReturn, svcVars
<1>5. ASSUME NEW t \in Threads, CallbackStep(t) PROVE ExitInv'
  BY <1>5 DEF CallbackStep, ctlHandler
<1>6. ASSUME NEW t \in Threads, TakeControl(t) PROVE ExitInv'
  <2>1. UNCHANGED <<scm, main, hVars>> /\ run = "select" /\ run' \in {"select", "final"}
    BY <1>6 DEF TakeControl, SelCtl, SelCtlThen
  <2>2. run' = "final" => ec'.errno # 0 /\ ec'.isSvcSpecific
    <3> SUFFICES ASSUME run' = "final" PROVE ec'.errno # 0 /\ ec'.isSvcSpecific
      OBVIOUS
    <3>1. ctl[t].errno # 0 /\ ec' = [ec EXCEPT !.errno = ctl[t].errno]
      BY <1>6 DEF TakeControl, SelCtl, SelCtlThen
    <3>2. ec = NoExit
      BY <2>1 DEF StatusInv
    <3>. QED BY <3>1, <3>2 DEF NoExit
  <2>. QED BY <2>1, <2>2
<1>7. ASSUME NEW c \in Cmd, SendControl(c) PROVE ExitInv'
  BY <1>7 DEF SendControl, ScmSend
<1>8. CASE Start
  BY <1>8 DEF Start, RunStart, HSpawn
<1>9. CASE GiveRequest
  BY <1>9 DEF GiveRequest, SelCmd, SelCmdThen, HReceive
<1>10. CASE TakeStatus
  BY <1>10 DEF TakeStatus, SelChange, ReceiveChange, HSent
<1>11. CASE TakeExit
  BY <1>11 DEF TakeExit, SelExit, SelExitThen, HExit
<1>12. CASE UNCHANGED vars
  BY <1>12 DEF vars, svcVars
<1>. QED BY <1>1, <1>2, <1>3, <1>4, <1>5, <1>6, <1>7, <1>8, <1>9, <1>10, <1>11, <1>12 DEF Next

\* inch and outch are never both selected, so a control is delivered before the
\* next one is taken.
LEMMA ControlStep == Typing /\ StatusInv /\ ControlInv /\ [Next]_vars => ControlInv'
<1> SUFFICES ASSUME Typing, StatusInv, ControlInv, [Next]_vars PROVE ControlInv'
  OBVIOUS
<1> USE DEF ControlInv, NoControlLost, loopVars, histVars
<1>1. CASE MainStep \/ ServiceMainStep
  BY <1>1 DEF MainStep, NewService, NewCallback, StartServiceCtrlDispatcher, RunReturn,
     RunReturnWith,
     ServiceMainStep, ScmStartService, ServiceMainStoreArgs, StoreArgs, ServiceMainRegister,
     RegisterThen,
     ServiceMainSetEvent, ServiceMainWait
<1>2. CASE RunStep
  BY <1>2 DEF RunStep, RunPanic, RunUpdate, RunUpdateThen, RunFinal, RunFinalThen, RunSetCWaits,
     SetCWaits
<1>3. CASE HandlerStep
  BY <1>3 DEF HandlerStep, svcVars
<1>4. ASSUME NEW t \in Threads, CallbackStep(t) PROVE ControlInv'
  BY <1>4 DEF CallbackStep, ctlHandler
<1>5. ASSUME NEW t \in Threads, TakeControl(t) PROVE ControlInv'
  <2>1. CASE ctl[t].errno # 0
    BY <1>5, <2>1 DEF TakeControl, SelCtl, SelCtlThen
  <2>2. CASE ctl[t].errno = 0
    <3> DEFINE e == [cmd |-> ctl[t].cmd, id |-> ctl[t].id]
    <3>1. /\ ~outch /\ outch' = TRUE /\ inch' = FALSE /\ cmd' = ctl[t].cmd
          /\ taken' = Append(taken, e) /\ given' = given
      BY <1>5, <2>2 DEF TakeControl, SelCtl, SelCtlThen, Typing, LoopTyping, LoopTypeOK
    <3>2. taken \in Seq(Control) /\ given \in Seq(Cmd) /\ Len(taken) = Len(given)
      BY <3>1 DEF Typing, HistTypeOK
    <3>3. /\ Len(taken') = Len(taken) + 1 /\ taken'[Len(taken')] = e
          /\ \A i \in 1 .. Len(taken) : taken'[i] = taken[i]
      BY <3>1, <3>2
    <3>. QED BY <3>1, <3>2, <3>3
  <2>. QED BY <2>1, <2>2
<1>6. ASSUME NEW c \in Cmd, SendControl(c) PROVE ControlInv'
  BY <1>6 DEF SendControl, ScmSend
<1>7. CASE Start
  BY <1>7 DEF Start, RunStart, StatusInv, NotShownYet
<1>8. CASE GiveRequest
  <2>1. /\ outch /\ outch' = FALSE
        /\ given' = Append(given, cmd) /\ taken' = taken
    BY <1>8 DEF GiveRequest, SelCmd, SelCmdThen
  <2>2. /\ taken \in Seq(Control) /\ given \in Seq(Cmd) /\ Len(taken) = Len(given) + 1
        /\ cmd \in Cmd /\ cmd = taken[Len(taken)].cmd
    BY <2>1 DEF Typing, HistTypeOK, LoopTyping
  <2>3. /\ Len(given') = Len(given) + 1 /\ given'[Len(given')] = cmd
        /\ \A i \in 1 .. Len(given) : given'[i] = given[i]
    BY <2>1, <2>2
  <2>. QED BY <2>1, <2>2, <2>3
<1>9. CASE TakeStatus \/ TakeExit
  BY <1>9 DEF TakeStatus, TakeExit, SelChange, ReceiveChange, SelExit, SelExitThen
<1>10. CASE UNCHANGED vars
  BY <1>10 DEF vars, svcVars
<1>. QED BY <1>1, <1>2, <1>3, <1>4, <1>5, <1>6, <1>7, <1>8, <1>9, <1>10 DEF Next

\* A control moves from the pipe through the callback on Run's thread to run()
\* without overtaking another one.
LEMMA OrderStep == Typing /\ OrderInv /\ [Next]_vars => OrderInv'
<1> SUFFICES ASSUME Typing, OrderInv, [Next]_vars PROVE OrderInv'
  OBVIOUS
<1> USE DEF OrderInv, ControlsInOrder, scmVars, histVars
<1>0. RunThread \in Threads
  BY SvcRunAssumption
<1>1. CASE MainStep \/ ServiceMainStep
  BY <1>1 DEF MainStep, NewService, NewCallback, StartServiceCtrlDispatcher, RunReturn,
     RunReturnWith,
     ServiceMainStep, ScmStartService, ServiceMainStoreArgs, StoreArgs, ServiceMainRegister,
     RegisterThen,
     ServiceMainSetEvent, ServiceMainWait
<1>2. CASE RunStep
  BY <1>2 DEF RunStep, RunPanic, RunUpdate, RunUpdateThen, RunFinal, RunFinalThen, RunSetCWaits,
     SetCWaits
<1>3. CASE HandlerStep
  BY <1>3 DEF HandlerStep, svcVars
<1>4. ASSUME NEW t \in Threads, CallbackStep(t) PROVE OrderInv'
  <2>1. /\ pipe \in Seq(Control) /\ pipe # <<>> /\ ctl \in [Threads -> ctlEvent]
        /\ pipe' = Tail(pipe) /\ sent' = sent /\ taken' = taken
        /\ ctl' = [ctl EXCEPT ![t] = [cmd |-> Head(pipe).cmd, id |-> Head(pipe).id,
                                     errno |-> CallbackErr(t)]]
    BY <1>4 DEF CallbackStep, ctlHandler, Typing, ScmTypeOK, CtlTyping
  <2>2. /\ Head(pipe) = pipe[1] /\ Len(pipe') = Len(pipe) - 1 /\ Len(pipe) \in Nat \ {0}
        /\ \A i \in 1 .. Len(pipe') : pipe'[i] = pipe[i + 1]
    BY <2>1
  <2>3. CASE t = RunThread
    BY <1>0, <2>1, <2>2, <2>3
  <2>4. CASE t # RunThread
    BY <1>0, <2>1, <2>2, <2>4 DEF CallbackErr, sysErrNewThreadInCallback, APPLICATION_ERROR
  <2>. QED BY <2>3, <2>4
<1>5. ASSUME NEW t \in Threads, TakeControl(t) PROVE OrderInv'
  <2>1. /\ ctl \in [Threads -> ctlEvent] /\ ctl[t] # NoCtl /\ ctl' = [ctl EXCEPT ![t] = NoCtl]
        /\ pipe' = pipe /\ sent' = sent /\ taken \in Seq(Control)
        /\ taken' = IF ctl[t].errno = 0
                    THEN Append(taken, [cmd |-> ctl[t].cmd, id |-> ctl[t].id])
                    ELSE taken
    BY <1>5 DEF TakeControl, SelCtl, SelCtlThen, Typing, CtlTyping, HistTypeOK
  <2>2. CASE ctl[t].errno # 0
    BY <1>0, <2>1, <2>2
  <2>3. CASE ctl[t].errno = 0
    <3>1. t = RunThread
      BY <2>1, <2>3
    <3>2. /\ Len(taken') = Len(taken) + 1 /\ taken'[Len(taken')].id = ctl[RunThread].id
          /\ \A i \in 1 .. Len(taken) : taken'[i] = taken[i]
      BY <2>1, <2>3, <3>1
    <3>. QED BY <1>0, <2>1, <3>1, <3>2
  <2>. QED BY <2>2, <2>3
<1>6. ASSUME NEW c \in Cmd, SendControl(c) PROVE OrderInv'
  <2>1. /\ pipe \in Seq(Control) /\ sent \in Nat /\ sent' = sent + 1
        /\ pipe' = Append(pipe, [cmd |-> c, id |-> sent + 1])
        /\ taken' = taken /\ ctl' = ctl /\ taken \in Seq(Control)
        /\ ctl[RunThread].id \in Nat
    BY <1>0, <1>6, SvcRunAssumption
       DEF SendControl, ScmSend, Typing, ScmTypeOK, HistTypeOK, CtlTyping, ctlEvent
  <2>2. /\ Len(pipe') = Len(pipe) + 1 /\ pipe'[Len(pipe')].id = sent + 1
        /\ \A i \in 1 .. Len(pipe) : pipe'[i] = pipe[i]
    BY <2>1
  <2>3. \A e \in Control : e.id \in Nat
    BY DEF Control
  <2>4. /\ \A i \in 1 .. Len(taken) : taken[i].id \in Nat
        /\ \A i \in 1 .. Len(pipe) : pipe[i].id \in Nat
    BY <2>1, <2>3
  <2>. QED BY <1>0, <2>1, <2>2, <2>4
<1>7. CASE Start \/ GiveRequest \/ TakeStatus \/ TakeExit
  BY <1>7 DEF Start, RunStart, GiveRequest, SelCmd, SelCmdThen, TakeStatus, SelChange,
     ReceiveChange, TakeExit, SelExit, SelExitThen
<1>8. CASE UNCHANGED vars
  BY <1>8 DEF vars, svcVars
<1>. QED BY <1>1, <1>2, <1>3, <1>4, <1>5, <1>6, <1>7, <1>8 DEF Next

\* Only a run() that has left its loop, or a crash, makes the SCM see Stopped.
LEMMA StoppedWhen ==
  Typing /\ StatusInv /\ scm.CurrentState = "Stopped" => run \in {"setC", "done", "panic"}
BY NotStopped DEF Typing, RunTypeOK, StatusInv, Shows

-------------------------------------------------------------------------------
\* IInv holds when the process is launched.
LEMMA InvariantInit == Init => IInv
<1> SUFFICES ASSUME Init PROVE IInv
  OBVIOUS
<1> USE DEF Init, SvcInit, HInit
<1>1. HandleInv /\ EventsInv
  BY DEF HandleInv, EventsInv
<1>2. StatusInv /\ ExitInv
  BY DEF StatusInv, NotShownYet, Quiet, ExitInv
<1>3. ControlInv /\ OrderInv
  BY SvcRunAssumption DEF ControlInv, NoControlLost, OrderInv, ControlsInOrder
<1>. QED BY <1>1, <1>2, <1>3, TypingInit DEF IInv

\* IInv holds in every reachable state of svc.Run.
THEOREM Invariance == Spec => []IInv
<1>1. IInv /\ [Next]_vars => IInv'
  BY TypingStep, HandleStep, EventsStep, StatusStep, ExitStep, ControlStep, OrderStep DEF IInv
<1>. QED BY <1>1, InvariantInit, PTL DEF Spec

\* Every variable of Service, run()'s locals and the globals of the assembly
\* code among them, keeps to its type.
THEOREM TypeCorrect == Spec => []TypeOK
<1>1. IInv => TypeOK
  BY DEF IInv, Typing, TypeOK, SvcTypeOK, CtlTyping, LoopTyping
<1>. QED BY <1>1, Invariance, PTL

\* run() has a service status handle whenever it may call updateStatus.
THEOREM StartupSafe == Spec => []HandleBeforeUse
<1>1. IInv => HandleBeforeUse
  BY DEF IInv, HandleInv, HandleBeforeUse, Handle
<1>. QED BY <1>1, Invariance, PTL

\* Both events are open whenever run() or servicemain sets one or waits on it.
THEOREM EventsStayOpen == Spec => []EventsOpenWhileUsed
<1>1. IInv => EventsOpenWhileUsed
  BY DEF IInv, EventsInv, EventsOpenWhileUsed
<1>. QED BY <1>1, Invariance, PTL

\* A request that run() offers to the handler carries the status the SCM shows.
THEOREM StatusFresh == Spec => []CurrentStatusFresh
<1>1. IInv => CurrentStatusFresh
  <2> SUFFICES ASSUME IInv, run = "select", outch PROVE Mirrors(status)
    BY DEF CurrentStatusFresh
  <2>1. scm = ServiceStatus(status, NoExit) /\ status \in Status
    BY DEF IInv, StatusInv, NotShownYet, Shows, Typing, LoopTyping, LoopTypeOK
  <2>2. status.Accepts \cap KnownFlags = {f \in status.Accepts : f # "AcceptOther"}
    BY <2>1 DEF Status, Accepted, KnownFlags
  <2>. QED BY <2>1, <2>2 DEF Mirrors, ServiceStatus, NoExit, Win32ExitCode,
              ServiceSpecificExitCode, NO_ERROR
<1>. QED BY <1>1, Invariance, PTL

\* When the SCM sees Stopped it also sees Execute's exit code, or an error if
\* run() gave up before Execute returned.
THEOREM StopsExplained == Spec => []StopExplained
<1>1. IInv => StopExplained
  <2> SUFFICES ASSUME Typing, StatusInv, ExitInv, scm.CurrentState = "Stopped"
               PROVE  StopExplained
    BY DEF IInv, StopExplained
  <2> USE DEF StopExplained, ServiceStatus, Win32ExitCode, ServiceSpecificExitCode, NO_ERROR,
              ERROR_SERVICE_SPECIFIC_ERROR, ProcessAborted
  <2>1. CASE run = "panic"
    BY <2>1 DEF ExitInv
  <2>2. CASE run \in {"setC", "done"}
    BY <2>2 DEF ExitInv
  <2>. QED BY <2>1, <2>2, StoppedWhen
<1>. QED BY <1>1, Invariance, PTL

\* No step of any thread or goroutine changes the SCM's record once it shows
\* Stopped.
THEOREM StoppedStays == Spec => StoppedIsFinal
<1>1. IInv /\ [Next]_vars => [scm.CurrentState = "Stopped" => UNCHANGED scm]_vars
  <2> SUFFICES ASSUME Typing, StatusInv, Next, scm.CurrentState = "Stopped" PROVE UNCHANGED scm
    BY DEF IInv
  <2>1. run \in {"setC", "done", "panic"}
    BY StoppedWhen
  <2> USE <2>1 DEF scmVars
  <2>2. CASE MainStep \/ ServiceMainStep
    BY <2>2 DEF MainStep, NewService, NewCallback, StartServiceCtrlDispatcher, RunReturn,
       RunReturnWith,
       ServiceMainStep, ScmStartService, ServiceMainStoreArgs, StoreArgs, ServiceMainRegister,
       RegisterThen,
       ServiceMainSetEvent, ServiceMainWait
  <2>3. CASE RunStep
    BY <2>3 DEF RunStep, RunPanic, RunUpdate, RunUpdateThen, RunFinal, RunFinalThen,
       RunSetCWaits, SetCWaits
  <2>4. CASE HandlerStep
    BY <2>4 DEF HandlerStep, svcVars
  <2>5. ASSUME NEW t \in Threads, CallbackStep(t) \/ TakeControl(t) PROVE UNCHANGED scm
    BY <2>5 DEF CallbackStep, ctlHandler, TakeControl, SelCtl, SelCtlThen
  <2>6. ASSUME NEW c \in Cmd, SendControl(c) PROVE UNCHANGED scm
    BY <2>6 DEF SendControl, ScmSend
  <2>7. CASE Start \/ GiveRequest \/ TakeStatus \/ TakeExit
    BY <2>7 DEF Start, RunStart, GiveRequest, SelCmd, SelCmdThen, TakeStatus, SelChange,
       ReceiveChange, TakeExit, SelExit, SelExitThen
  <2>. QED BY <2>2, <2>3, <2>4, <2>5, <2>6, <2>7 DEF Next
<1>. QED BY <1>1, Invariance, PTL DEF Spec, StoppedIsFinal

\* run() neither loses, repeats nor reorders a control between its receipt from
\* the callback and its delivery to the handler.
THEOREM ControlsDelivered == Spec => []NoControlLost
<1>1. IInv => NoControlLost
  BY DEF IInv, ControlInv
<1>. QED BY <1>1, Invariance, PTL

\* The thread check in the callback is enough to keep controls in the order in
\* which the SCM sent them.
THEOREM OrderKept == Spec => []ControlsInOrder
<1>1. IInv => ControlsInOrder
  BY DEF IInv, OrderInv
<1>. QED BY <1>1, Invariance, PTL

\* servicemain stores what Windows passed it before run() is released, run()
\* reads what servicemain stored, and nothing changes it afterwards.
ArgsInv ==
  /\ sm # "off" => argc \in ArgCounts /\ argv \in ArgvAddrs
  /\ sm \notin {"off", "entry"} => sArgc = argc /\ sArgv = argv % Word32
  /\ goWaits \/ run \notin {"off", "wait"} => sm \in {"waitC", "exit"}
  /\ run \notin {"off", "wait", "panic"} => args = ArgsRead
  /\ run = "panic" => sArgc > MaxArgv \/ ArgsRead = "garbage"

\* No step comes between the stores and the read.
LEMMA ArgsStep == EventsInv /\ ArgsInv /\ [Next]_vars => ArgsInv'
<1> SUFFICES ASSUME EventsInv, ArgsInv, [Next]_vars PROVE ArgsInv'
  OBVIOUS
<1> USE DEF ArgsInv, ArgsRead, smVars, evVars, loopVars
<1>1. CASE MainStep
  BY <1>1 DEF MainStep, NewService, NewCallback, StartServiceCtrlDispatcher, RunReturn,
     RunReturnWith
<1>2. CASE ServiceMainStep
  BY <1>2 DEF ServiceMainStep, ScmStartService, ServiceMainStoreArgs, StoreArgs,
     ServiceMainRegister, RegisterThen, ServiceMainSetEvent, ServiceMainWait
<1>3. CASE RunStep
  BY <1>3, EventCallsSucceed DEF RunStep, RunPanic, RunUpdate, RunUpdateThen, RunFinal, RunFinalThen, RunSetCWaits,
     SetCWaits
<1>4. CASE HandlerStep
  BY <1>4 DEF HandlerStep, svcVars
<1>5. ASSUME NEW t \in Threads, CallbackStep(t) \/ TakeControl(t) PROVE ArgsInv'
  BY <1>5 DEF CallbackStep, ctlHandler, TakeControl, SelCtl, SelCtlThen
<1>6. ASSUME NEW c \in Cmd, SendControl(c) PROVE ArgsInv'
  BY <1>6 DEF SendControl, ScmSend
<1>7. CASE Start
  BY <1>7, EventCallsSucceed DEF Start, RunStart
<1>8. CASE GiveRequest
  BY <1>8 DEF GiveRequest, SelCmd, SelCmdThen
<1>9. CASE TakeStatus \/ TakeExit
  BY <1>9 DEF TakeStatus, TakeExit, SelChange, ReceiveChange, SelExit, SelExitThen
<1>10. CASE UNCHANGED vars
  BY <1>10 DEF vars, svcVars
<1>. QED BY <1>1, <1>2, <1>3, <1>4, <1>5, <1>6, <1>7, <1>8, <1>9, <1>10 DEF Next

\* A service started with at most 100 arguments, whose vector Windows puts where
\* servicemain's 32-bit store keeps the address, has them passed to Execute.
\* Where Windows puts it elsewhere, MCServiceArgv shows what happens instead.
THEOREM ArgsReachExecute ==
  ASSUME \A n \in ArgCounts : n <= MaxArgv, \A a \in ArgvAddrs : a < Word32
  PROVE  Spec => []ArgsPassed
<1>1. Init => ArgsInv
  BY DEF Init, SvcInit, ArgsInv
<1>2. IInv /\ ArgsInv /\ [Next]_vars => ArgsInv'
  BY ArgsStep DEF IInv
<1>3. ArgsInv => ArgsPassed
  <2> SUFFICES ASSUME ArgsInv, run \notin {"off", "wait"} PROVE args = "passed"
    BY DEF ArgsPassed
  <2>1. argc \in ArgCounts /\ argv \in ArgvAddrs /\ sArgc = argc /\ sArgv = argv % Word32
    BY DEF ArgsInv
  <2>2. argv % Word32 = argv
    <3>1. argv \in Nat /\ Word32 \in Nat \ {0} /\ argv < Word32
      BY <2>1, SvcRunAssumption
    <3>. QED BY <3>1
  <2>3. sArgc <= MaxArgv /\ ArgsRead = "passed"
    BY <2>1, <2>2 DEF ArgsRead
  <2>4. ~(sArgc > MaxArgv)
    BY <2>1, <2>3, SvcRunAssumption DEF MaxArgv
  <2>. QED BY <2>3, <2>4 DEF ArgsInv
<1>. QED BY <1>1, <1>2, <1>3, Invariance, PTL DEF Spec

\* Whoever waits is owed a signal: a servicemain that waits on cWaits has set
\* goWaits for a run() that still waits on it, and has cWaits set by a run() that
\* is through; Run returns only when run() has left its loop.
StuckInv ==
  /\ run \in {"select", "update"} => hpc # "off"
  /\ run = "off" => main \in {"newService", "newCallback", "failed"}
  /\ sm = "waitC" /\ run \in {"off", "wait"} => goWaits
  /\ sm = "waitC" /\ run = "done" => cWaits
  /\ cWaits => run = "done"
  /\ sm \in {"off", "entry", "register"} => ssHandle = 0
  /\ sm = "exit" /\ ssHandle # 0 => run = "done"
  /\ main = "returned" => run \in {"setC", "done", "panic"} /\ sm # "off"

\* No step takes a signal from somebody who waits for it, or ends a wait on any
\* other ground.
LEMMA StuckStep ==
  IInv /\ ArgsInv /\ StuckInv /\ [Next]_vars => StuckInv'
<1> SUFFICES ASSUME Typing, EventsInv, StatusInv, ArgsInv, StuckInv, [Next]_vars
             PROVE  StuckInv'
  BY DEF IInv
<1> USE DEF StuckInv, scmVars, mainVars, smVars, evVars, loopVars, hVars
<1>1. CASE MainStep
  <2>1. CASE RunReturn
    BY <1>1, <2>1, StoppedWhen DEF MainStep, RunReturn, RunReturnWith
  <2>. QED
    BY <1>1, <2>1 DEF MainStep, NewService, NewCallback, StartServiceCtrlDispatcher, EventsInv
<1>2. CASE ServiceMainStep
  BY <1>2, EventCallsSucceed DEF ServiceMainStep, ScmStartService, ServiceMainStoreArgs, StoreArgs,
     ServiceMainRegister, RegisterThen, ServiceMainSetEvent, ServiceMainWait, ArgsInv
<1>3. CASE RunStep
  BY <1>3, EventCallsSucceed DEF RunStep, RunPanic, RunUpdate, RunUpdateThen, RunFinal, RunFinalThen, RunSetCWaits,
     SetCWaits
<1>4. CASE HandlerStep
  BY <1>4 DEF HandlerStep, HSend, HWait, HOther, HReturn, svcVars
<1>5. ASSUME NEW t \in Threads, CallbackStep(t) \/ TakeControl(t) PROVE StuckInv'
  BY <1>5 DEF CallbackStep, ctlHandler, TakeControl, SelCtl, SelCtlThen
<1>6. ASSUME NEW c \in Cmd, SendControl(c) PROVE StuckInv'
  BY <1>6 DEF SendControl, ScmSend
<1>7. CASE Start
  BY <1>7, EventCallsSucceed DEF Start, RunStart, HSpawn
<1>8. CASE GiveRequest
  BY <1>8 DEF GiveRequest, SelCmd, SelCmdThen, HReceive
<1>9. CASE TakeStatus \/ TakeExit
  BY <1>9 DEF TakeStatus, TakeExit, SelChange, ReceiveChange, SelExit, SelExitThen, HSent, HExit
<1>10. CASE UNCHANGED vars
  BY <1>10 DEF vars, svcVars
<1>. QED BY <1>1, <1>2, <1>3, <1>4, <1>5, <1>6, <1>7, <1>8, <1>9, <1>10 DEF Next

\* With any handler and any number of controls, svc.Run comes to rest only where
\* MayBeStuck says: whenever no guard of a step holds, Run is through, has failed
\* or crashed, or Windows did not let the service register or report.
THEOREM NoOtherDeadlock == Spec => []StuckExplained
<1>1. Init => ArgsInv /\ StuckInv
  BY DEF Init, SvcInit, HInit, ArgsInv, StuckInv
<1>2. IInv /\ ArgsInv /\ StuckInv /\ [Next]_vars => ArgsInv' /\ StuckInv'
  BY ArgsStep, StuckStep DEF IInv
<1>3. IInv /\ StuckInv => StuckExplained
  <2> SUFFICES ASSUME Typing, StatusInv, ExitInv, StuckInv, ~CanMove, ~MayBeStuck PROVE FALSE
    BY DEF IInv, StuckExplained
  <2> USE DEF CanMove, MayBeStuck, EventWaitReturns
  <2>1. main \in {"dispatch", "returned"}
    BY DEF Typing, MainTypeOK
  <2>2. run \in {"wait", "done"}
    <3>1. run \in {"off", "wait", "select", "done"}
      BY <2>1 DEF Typing, RunTypeOK, ExitInv
    <3>2. CASE run = "select"
      BY <2>1, <3>2 DEF Typing, HTypeOK, ExitInv, StuckInv
    <3>. QED BY <2>1, <3>1, <3>2 DEF StuckInv
  <2>3. sm = "exit"
    BY <2>1, <2>2 DEF Typing, SmTypeOK, StuckInv
  <2>4. CASE run = "wait"
    BY <2>1, <2>3, <2>4 DEF StuckInv
  <2>5. CASE run = "done"
    <3>1. main = "returned" \/ scm.CurrentState # "Stopped" \/ ctl[RunThread] # NoCtl
      BY <2>1
    <3>. QED BY <2>1, <2>3, <2>5, <3>1
  <2>. QED BY <2>2, <2>4, <2>5
<1>. QED BY <1>1, <1>2, <1>3, Invariance, PTL DEF Spec

\* A control callback on Run's thread that run() has left behind in s.c <- e.
Stranded ==
  /\ main = "dispatch" /\ run \in {"final", "setC", "done"}
  /\ ctl[RunThread] # NoCtl

\* What MCServiceReturns finds in one behaviour holds in all: once run() has left
\* its loop with a callback on Run's thread still sending, no step of anybody
\* frees that callback, and Run never returns.
THEOREM StrandedForEver == Spec => [](Stranded => [](Stranded /\ main # "returned"))
<1>1. IInv /\ Stranded /\ [Next]_vars => Stranded'
  <2> SUFFICES ASSUME Typing, Stranded, [Next]_vars PROVE Stranded'
    BY DEF IInv
  <2> USE DEF Stranded, scmVars, mainVars
  <2>1. CASE MainStep
    BY <2>1 DEF MainStep, NewService, NewCallback, StartServiceCtrlDispatcher, RunReturn,
       RunReturnWith
  <2>2. CASE ServiceMainStep
    BY <2>2 DEF ServiceMainStep, ScmStartService, ServiceMainStoreArgs, StoreArgs,
       ServiceMainRegister, RegisterThen, ServiceMainSetEvent, ServiceMainWait
  <2>3. CASE RunStep
    BY <2>3 DEF RunStep, RunPanic, RunUpdate, RunUpdateThen, RunFinal, RunFinalThen,
       RunSetCWaits, SetCWaits
  <2>4. CASE HandlerStep
    BY <2>4 DEF HandlerStep, svcVars
  <2>5. ASSUME NEW t \in Threads, CallbackStep(t) \/ TakeControl(t) PROVE Stranded'
    BY <2>5, SvcRunAssumption DEF CallbackStep, ctlHandler, TakeControl, SelCtl, SelCtlThen,
       Typing, CtlTyping
  <2>6. ASSUME NEW c \in Cmd, SendControl(c) PROVE Stranded'
    BY <2>6 DEF SendControl, ScmSend
  <2>7. CASE Start \/ GiveRequest \/ TakeStatus \/ TakeExit
    BY <2>7 DEF Start, RunStart, GiveRequest, SelCmd, SelCmdThen, TakeStatus, SelChange,
       ReceiveChange, TakeExit, SelExit, SelExitThen
  <2>8. CASE UNCHANGED vars
    BY <2>8 DEF vars, svcVars
  <2>. QED BY <2>1, <2>2, <2>3, <2>4, <2>5, <2>6, <2>7, <2>8 DEF Next
<1>2. Stranded => main # "returned"
  BY DEF Stranded
<1>. QED BY <1>1, <1>2, Invariance, PTL DEF Spec

\* The contract's copies of the definitions of SvcTypes.
LEMMA SameValues ==
  /\ Contract!Cmd = Cmd /\ Contract!NoExit = NoExit
  /\ \A s : Contract!BareStatus(s) = BareStatus(s)
  /\ \A st, x : Contract!ServiceStatus(st, x) = ServiceStatus(st, x)
BY DEF Contract!Cmd, Cmd, Contract!NoExit, NoExit, Contract!NO_ERROR, NO_ERROR,
       Contract!BareStatus, BareStatus, Contract!ServiceStatus, ServiceStatus,
       Contract!KnownFlags, KnownFlags, Contract!Win32ExitCode, Win32ExitCode,
       Contract!ServiceSpecificExitCode, ServiceSpecificExitCode,
       Contract!ERROR_SERVICE_SPECIFIC_ERROR, ERROR_SERVICE_SPECIFIC_ERROR

\* Every behaviour of svc.Run is one of ServiceContract: each step of a thread
\* or goroutine is one contract step or changes nothing the contract shows.
THEOREM Refinement == Spec => ImplementsContract
<1>1. Init => Contract!CInit
  BY SameValues DEF Init, SvcInit, HInit, NoReq, Contract!CInit, ContractPhase, ContractMailbox
<1>2. IInv /\ [Next]_vars => [Contract!CNext]_(Contract!cvars)
  <2> SUFFICES ASSUME Typing, EventsInv, StatusInv, ControlInv, [Next]_vars
               PROVE  Contract!CNext \/ UNCHANGED <<ContractPhase, scm, ContractMailbox, hreq>>
    BY DEF IInv, Contract!cvars
  <2> USE DEF ContractPhase, ContractMailbox, scmVars, loopVars, hVars
  <2>1. CASE MainStep
    BY <2>1 DEF MainStep, NewService, NewCallback, StartServiceCtrlDispatcher, RunReturn,
       RunReturnWith, EventsInv
  <2>2. CASE ServiceMainStep
    BY <2>2 DEF ServiceMainStep, ScmStartService, ServiceMainStoreArgs, StoreArgs,
       ServiceMainRegister, RegisterThen,
       ServiceMainSetEvent, ServiceMainWait
  <2>3. CASE RunPanic /\ UNCHANGED hVars
    <3>1. Contract!Die
      BY <2>3 DEF RunPanic, ProcessAborted, Contract!Die, ServiceStatus, BareStatus, Win32ExitCode
    <3>. QED BY <3>1 DEF Contract!CNext
  <2>4. CASE RunUpdate /\ UNCHANGED hVars
    <3>1. Contract!Publish \/ Contract!End
      BY <2>4, SameValues DEF RunUpdate, RunUpdateThen, StatusInv, Contract!Publish, Contract!End
    <3>. QED BY <3>1 DEF Contract!CNext
  <2>5. CASE RunFinal /\ UNCHANGED hVars
    <3>1. Contract!Report
      BY <2>5 DEF RunFinal, RunFinalThen, Contract!Report, ServiceStatus, BareStatus
    <3>. QED BY <3>1 DEF Contract!CNext
  <2>6. CASE RunSetCWaits /\ UNCHANGED hVars
    BY <2>6 DEF RunSetCWaits, SetCWaits
  <2>7. CASE HandlerStep
    BY <2>7 DEF HandlerStep, HSend, HWait, HOther, HReturn, svcVars
  <2>8. ASSUME NEW t \in Threads, CallbackStep(t)
        PROVE  UNCHANGED <<ContractPhase, scm, ContractMailbox, hreq>>
    BY <2>8 DEF CallbackStep, ctlHandler
  <2>9. ASSUME NEW t \in Threads, TakeControl(t) PROVE Contract!Post \/ Contract!End
    <3>1. CASE ctl[t].errno # 0
      BY <2>9, <3>1 DEF TakeControl, SelCtl, SelCtlThen, Contract!End
    <3>2. CASE ctl[t].errno = 0
      BY <2>9, <3>2, SameValues DEF TakeControl, SelCtl, SelCtlThen, Contract!Post, ControlInv,
         Typing, CtlTyping
    <3>. QED BY <3>1, <3>2
  <2>10. ASSUME NEW c \in Cmd, SendControl(c)
         PROVE  UNCHANGED <<ContractPhase, scm, ContractMailbox, hreq>>
    BY <2>10 DEF SendControl, ScmSend
  <2>11. CASE Start
    <3>1. Contract!Serve
      BY <2>11 DEF Start, RunStart, HSpawn, StatusInv, NotShownYet, Contract!Serve
    <3>. QED BY <3>1 DEF Contract!CNext
  <2>12. CASE GiveRequest
    <3>1. Contract!Hand
      BY <2>12, SameValues DEF GiveRequest, SelCmd, SelCmdThen, HReceive, StatusInv,
         NotShownYet, Shows, Contract!Hand
    <3>. QED BY <3>1 DEF Contract!CNext
  <2>13. CASE TakeStatus
    BY <2>13 DEF TakeStatus, SelChange, ReceiveChange, HSent
  <2>14. CASE TakeExit
    <3>1. Contract!End
      BY <2>14 DEF TakeExit, SelExit, SelExitThen, HExit, Contract!End
    <3>. QED BY <3>1 DEF Contract!CNext
  <2>15. CASE UNCHANGED vars
    BY <2>15 DEF vars, svcVars
  <2>. QED BY <2>1, <2>2, <2>3, <2>4, <2>5, <2>6, <2>7, <2>8, <2>9, <2>10, <2>11, <2>12, <2>13,
              <2>14, <2>15 DEF Next, RunStep, Contract!CNext
<1>. QED BY <1>1, <1>2, Invariance, PTL DEF Spec, ImplementsContract, Contract!CSpec
===============================================================================
