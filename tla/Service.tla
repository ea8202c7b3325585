------------------------------- MODULE Service --------------------------------
(***************************************************************************)
(* svc.Run with a documented Handler: the composition of SvcRun and        *)
(* Handler.  Every send on one of the unbuffered channels cmdsToHandler,   *)
(* changesFromHandler and exitFromHandler is one joint step.               *)
(***************************************************************************)
EXTENDS SvcRun, Handler

VARIABLES
  taken,   \* history: the controls run() received without an error
  given    \* history: the commands the handler received

histVars == <<taken, given>>
vars == <<svcVars, hVars, histVars>>

HistTypeOK == taken \in Seq(Control) /\ given \in Seq(Cmd)

TypeOK == SvcTypeOK /\ HTypeOK /\ HistTypeOK

Init ==
  /\ SvcInit /\ HInit
  /\ taken = <<>> /\ given = <<>>

\* go func() { ... Execute ... }() at the end of RunStart.
Start == RunStart /\ HSpawn /\ UNCHANGED histVars

TakeControl(t) ==
  /\ SelCtl(t)
  /\ taken' = IF ctl[t].errno = 0
              THEN Append(taken, [cmd |-> ctl[t].cmd, id |-> ctl[t].id])
              ELSE taken
  /\ UNCHANGED <<hVars, given>>

GiveRequest ==
  LET req == [Cmd |-> cmd, CurrentStatus |-> status]
  IN /\ SelCmd(req) /\ HReceive(req)
     /\ given' = Append(given, cmd)
     /\ UNCHANGED taken

TakeStatus == SelChange(hst) /\ HSent(hst) /\ UNCHANGED histVars

TakeExit == SelExit(hret) /\ HExit(hret) /\ UNCHANGED histVars

\* Steps of one actor alone.
MainStep ==
  /\ NewService \/ NewCallback \/ StartServiceCtrlDispatcher \/ RunReturn
  /\ UNCHANGED <<hVars, histVars>>

CallbackStep(t) == ctlHandler(t) /\ UNCHANGED <<hVars, histVars>>

ServiceMainStep ==
  /\ \/ ScmStartService \/ ServiceMainStoreArgs \/ ServiceMainRegister
     \/ ServiceMainSetEvent \/ ServiceMainWait
  /\ UNCHANGED <<hVars, histVars>>

RunStep ==
  /\ RunPanic \/ RunUpdate \/ RunFinal \/ RunSetCWaits
  /\ UNCHANGED <<hVars, histVars>>

SendControl(c) == ScmSend(c) /\ UNCHANGED <<hVars, histVars>>

HandlerStep ==
  /\ HSend \/ HWait \/ HOther \/ HReturn
  /\ UNCHANGED <<svcVars, histVars>>

\* A panic ends the process and every goroutine in it.
Next ==
  /\ main # "crashed"
  /\ \/ MainStep \/ ServiceMainStep \/ RunStep \/ HandlerStep
     \/ \E t \in Threads : CallbackStep(t) \/ TakeControl(t)
     \/ \E c \in Cmd : SendControl(c)
     \/ Start \/ GiveRequest \/ TakeStatus \/ TakeExit

Spec == Init /\ [][Next]_vars

(***************************************************************************)
(* Every thread and goroutine that can take a step eventually does.  Go's  *)
(* select picks at random among its ready cases, so a case that is ready   *)
(* again and again is chosen (strong fairness).  Nothing is assumed of the *)
(* handler, which need neither read nor return, and nobody need send a     *)
(* control.                                                                *)
(***************************************************************************)
Fairness ==
  /\ WF_vars(MainStep) /\ WF_vars(ServiceMainStep) /\ WF_vars(RunStep)
  /\ \A t \in Threads : WF_vars(CallbackStep(t)) /\ SF_vars(TakeControl(t))
  /\ WF_vars(Start) /\ SF_vars(GiveRequest) /\ SF_vars(TakeStatus)
  /\ WF_vars(TakeExit)

FairSpec == Spec /\ Fairness

-------------------------------------------------------------------------------
(***************************************************************************)
(* Safety.                                                                 *)
(***************************************************************************)

\* The SCM's record agrees field by field with st and shows no error.
Mirrors(st) ==
  /\ scm.CurrentState = st.State
  /\ scm.ControlsAccepted = {f \in st.Accepts : f # "AcceptOther"}
  /\ scm.CheckPoint = st.CheckPoint
  /\ scm.Win32ExitCode = 0 /\ scm.ServiceSpecificExitCode = 0

\* While a command waits for the handler, the CurrentStatus it would be
\* handed is what the SCM shows: never the Stopped that run() starts with,
\* nor a status older than the one last published.
CurrentStatusFresh == run = "select" /\ outch => Mirrors(status)

\* The SCM sees the service stopped either with exactly the exit code that
\* Execute returned, or with an error: run() never hides that it gave up on
\* a handler that is still executing.
StopExplained ==
  scm.CurrentState = "Stopped" =>
    IF hpc = "done"
    THEN /\ scm.Win32ExitCode = IF hret.errno # 0 /\ hret.isSvcSpecific
                                THEN ERROR_SERVICE_SPECIFIC_ERROR ELSE hret.errno
         /\ scm.ServiceSpecificExitCode = IF hret.isSvcSpecific THEN hret.errno ELSE 0
    ELSE scm.Win32ExitCode # 0

\* updateStatus is never called without a service status handle: servicemain
\* stores ssHandle before it releases run().
HandleBeforeUse == run \in {"select", "update", "final"} => h # 0

\* The two events stay open for as long as some thread has to set them or
\* wait on them, also after Run has returned.
EventsOpenWhileUsed ==
  run \in {"wait", "setC"} \/ sm \in {"setGo", "waitC"} =>
    events = {"cWaits", "goWaits"}

\* Every control that run() receives reaches the handler once, in the order
\* received; at most the last one is still waiting (outch).
NoControlLost ==
  /\ Len(taken) = Len(given) + (IF outch THEN 1 ELSE 0)
  /\ \A i \in 1 .. Len(given) : given[i] = taken[i].cmd
  /\ outch => cmd = taken[Len(taken)].cmd

\* run() receives controls in the order the SCM sent them, even when Windows
\* calls the control handler on several threads.
ControlsInOrder ==
  \A i, j \in 1 .. Len(taken) : i < j => taken[i].id < taken[j].id

\* Execute is called with the arguments the service was started with.
ArgsPassed == run \notin {"off", "wait"} => args = "passed"

\* Somebody has a step to take: the guards of Next, written out.
CanMove ==
  /\ main # "crashed"
  /\ \/ main \in {"newService", "newCallback", "connect"}
     \/ main = "dispatch" /\ sm = "off"
     \/ main = "dispatch" /\ scm.CurrentState = "Stopped" /\ ctl[RunThread] = NoCtl
     \/ main = "dispatch" /\ pipe # <<>> /\ \E t \in Threads : ctl[t] = NoCtl
     \/ main = "dispatch" /\ sent < MaxControls /\ Len(pipe) < PipeSize
        /\ \E c \in Cmd : CanSend(c)
     \/ sm \in {"entry", "register", "setGo"}
     \/ sm = "waitC" /\ EventWaitReturns("cWaits", cWaits)
     \/ run \in {"update", "final", "setC"}
     \/ run = "wait" /\ EventWaitReturns("goWaits", goWaits)
     \/ run = "select" /\ inch /\ \E t \in Threads : ctl[t] # NoCtl
     \/ run = "select" /\ hpc \in {"send", "exit"}
     \/ hpc \in {"run", "recv"}

\* Run has returned and every thread is through, Run failed or the process
\* crashed, servicemain could not register the control handler, a control
\* callback was left behind by run(), or the final Stopped could not be
\* reported.
MayBeStuck ==
  \/ main \in {"failed", "crashed"}
  \/ main = "returned" /\ run = "done" /\ sm = "exit"
  \/ main = "dispatch" /\ run = "wait" /\ sm = "exit" /\ ssHandle = 0
  \/ /\ main = "dispatch" /\ run = "done" /\ sm = "exit"
     /\ ctl[RunThread] # NoCtl \/ scm.CurrentState # "Stopped"

\* Everyone waits on everyone only in the cases of MayBeStuck.
StuckExplained == CanMove \/ MayBeStuck

\* Nothing can move any more only in the cases of MayBeStuck, and a step is
\* possible exactly when one of the guards holds.
StuckOnlyIf == (ENABLED Next <=> CanMove) /\ StuckExplained

\* Once the SCM has seen Stopped, no late status of a handler that is still
\* executing replaces it.
StoppedIsFinal == [][scm.CurrentState = "Stopped" => UNCHANGED scm]_vars

ContractPhase ==
  CASE run \in {"off", "wait"}      -> "starting"
    [] run \in {"select", "update"} -> "serving"
    [] run = "final"                -> "over"
    [] OTHER                        -> "reported"

ContractMailbox == IF outch THEN <<cmd>> ELSE <<>>

Contract ==
  INSTANCE ServiceContract WITH
    Publishable <- Reports, phase <- ContractPhase, shown <- scm,
    mailbox <- ContractMailbox, request <- hreq

\* svc.Run implements the contract a handler and the SCM see: a one-place
\* mailbox for controls, fresh statuses, silence after the end.
ImplementsContract == Contract!CSpec

-------------------------------------------------------------------------------
(***************************************************************************)
(* Liveness, under FairSpec.                                               *)
(***************************************************************************)

\* When Execute returns, the SCM is told that the service stopped.
ExecuteReturnReported == hpc = "exit" ~> scm.CurrentState = "Stopped"

\* What Execute's documentation asks of a handler: "you must read service
\* change requests from r".  As long as run() is in its loop, the handler is
\* again and again waiting on r at a moment when run() is in its select.
HandlerKeepsReading ==
  []<>(run \in {"select", "update"} => run = "select" /\ hpc = "recv")

\* With such a handler, a control callback returns to Windows unless run()
\* has left its loop.
CallbackReturns ==
  HandlerKeepsReading =>
    (ctl[RunThread] # NoCtl ~>
       ctl[RunThread] = NoCtl \/ run \in {"final", "setC", "done"})

\* When run() leaves its loop, servicemain returns.
ServiceMainReturns == run = "final" ~> sm = "exit"

\* "the service will exit once Execute completes": Run returns.
RunReturns == hpc = "exit" ~> main = "returned"
===============================================================================
