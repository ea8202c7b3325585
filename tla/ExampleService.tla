---------------------------- MODULE ExampleService ----------------------------
(***************************************************************************)
(* The example program as a service: runService, which opens the event log *)
(* and calls svc.Run, with myservice as handler.                           *)
(* Two goroutines send on changesFromHandler here, Execute and a worker.   *)
(* Who sends the controls is left to module Manage.                        *)
(***************************************************************************)
EXTENDS SvcRun, MyService

VARIABLES
  rs,      \* where runService is: "open", "run", "end", "exit" (no process)
  elog     \* the event log's handle: "none", "open", "closed"

progVars == <<rs, elog>>
vars == <<svcVars, myVars, progVars>>

TypeOK ==
  /\ SvcTypeOK /\ MyTypeOK
  /\ rs \in {"open", "run", "end", "exit"} /\ elog \in {"none", "open", "closed"}

Init == SvcInit /\ MyInit /\ rs = "open" /\ elog = "none"

\* The process ends, and with it every goroutine.  The SCM takes a service that
\* has not reported Stopped for one that ended unexpectedly (external).
ProcessEnds ==
  /\ rs' = "exit"
  /\ scm' = IF scm.CurrentState = "Stopped" THEN scm
            ELSE ServiceStatus(BareStatus("Stopped"), ProcessAborted)
  /\ UNCHANGED <<pipe, notified, sent, ctl, mainVars, smVars, evVars, run, loopVars, myVars>>

RunServiceOpenThen(log) ==
  /\ rs = "open"
  /\ \/ elog' = log /\ rs' = "run" /\ UNCHANGED <<svcVars, myVars>>
     \/ ProcessEnds /\ UNCHANGED elog

\* Seeded defect: elog.Close() is not deferred.
RunServiceOpen_Close == RunServiceOpenThen("closed")

\* runService: eventlog.Open and the entry "starting"; if the log cannot be
\* opened, runService and main return.
RunServiceOpen == RunServiceOpenThen("open")

\* Run has returned: the last entry, and the deferred elog.Close().
RunServiceEnd ==
  /\ rs = "run" /\ main \in {"returned", "failed"}
  /\ rs' = "end" /\ elog' = "closed"
  /\ UNCHANGED <<svcVars, myVars>>

\* main returns.
MainReturns == rs = "end" /\ ProcessEnds /\ UNCHANGED elog

RunServiceStep == RunServiceOpen \/ RunServiceEnd \/ MainReturns

Start == RunStart /\ ESpawn /\ UNCHANGED progVars

TakeControl(t) == SelCtl(t) /\ UNCHANGED <<myVars, progVars>>

GiveRequest == LET req == [Cmd |-> cmd, CurrentStatus |-> status]
               IN SelCmd(req) /\ EReceive(req) /\ UNCHANGED progVars

TakeStatus == SelChange(est) /\ ESent(est) /\ UNCHANGED progVars

TakeWorkerStatus(w) == SelChange(wst[w]) /\ WSent(w, wst[w]) /\ UNCHANGED progVars

TakeExit ==
  \E x \in {[isSvcSpecific |-> FALSE, errno |-> 0]} :
    SelExit(x) /\ EExit(x) /\ UNCHANGED progVars

\* Steps of one actor alone.
MainStep ==
  /\ rs = "run"
  /\ NewService \/ NewCallback \/ StartServiceCtrlDispatcher \/ RunReturn
  /\ UNCHANGED <<myVars, progVars>>

CallbackStep(t) == ctlHandler(t) /\ UNCHANGED <<myVars, progVars>>

ServiceMainStep ==
  /\ \/ ScmStartService \/ ServiceMainStoreArgs \/ ServiceMainRegister
     \/ ServiceMainSetEvent \/ ServiceMainWait
  /\ UNCHANGED <<myVars, progVars>>

RunStep ==
  /\ RunPanic \/ RunUpdate \/ RunFinal \/ RunSetCWaits
  /\ UNCHANGED <<myVars, progVars>>

SendControl(c) == ScmSend(c) /\ UNCHANGED <<myVars, progVars>>

ExecuteStep == (ESleep \/ ELog \/ EShutdown) /\ UNCHANGED <<svcVars, progVars>>

WorkerStep(w) == (WGo(w) \/ WWork(w)) /\ UNCHANGED <<svcVars, progVars>>

\* A panic, also one in a worker, ends the process.
Alive == main # "crashed" /\ shutdown # "panic" /\ rs # "exit"

ServiceStep ==
  /\ Alive
  /\ \/ RunServiceStep \/ MainStep \/ ServiceMainStep \/ RunStep \/ ExecuteStep
     \/ \E t \in Threads : CallbackStep(t) \/ TakeControl(t)
     \/ \E w \in Workers : WorkerStep(w) \/ TakeWorkerStatus(w)
     \/ Start \/ GiveRequest \/ TakeStatus \/ TakeExit

(***************************************************************************)
(* Threads and goroutines run, sleeps end, and the selects of run() and of *)
(* Execute choose at random among their ready cases.  Nobody need send a   *)
(* control.                                                                *)
(***************************************************************************)
Fairness ==
  /\ WF_vars(Alive /\ RunServiceStep) /\ WF_vars(Alive /\ MainStep)
  /\ WF_vars(Alive /\ ServiceMainStep) /\ WF_vars(Alive /\ RunStep)
  /\ SF_vars(Alive /\ ExecuteStep) /\ WF_vars(Alive /\ Start)
  /\ \A t \in Threads : WF_vars(Alive /\ CallbackStep(t)) /\ SF_vars(Alive /\ TakeControl(t))
  /\ \A w \in Workers : /\ WF_vars(Alive /\ WorkerStep(w))
                         /\ SF_vars(Alive /\ TakeWorkerStatus(w))
  /\ SF_vars(Alive /\ GiveRequest) /\ SF_vars(Alive /\ TakeStatus)
  /\ SF_vars(Alive /\ TakeExit)

-------------------------------------------------------------------------------
\* Whatever controls arrive in whatever order, close(shutdown) is never called
\* a second time, which would panic.
ShutdownClosedOnce == shutdown # "panic"

\* What an administrator sees is what the service does: whenever Execute is
\* back in its loop and the SCM shows Running or Paused, the loop listens to
\* the fast or the slow ticker accordingly, whatever was sent, answered and
\* interrogated before.
TickFollowsStatus ==
  epc = "loop" /\ run = "select" /\ scm.CurrentState \in {"Running", "Paused"} =>
    (tick = "slow" <=> scm.CurrentState = "Paused")

\* The event log is open when Execute writes to it, although runService closes
\* it as soon as Run returns; only when run() has given up on Execute, and the
\* SCM shows an error, can Execute come too late.
LogOpenWhenUsed == epc = "log" => elog = "open" \/ scm.Win32ExitCode # 0

\* Execute always gets back to its loop from an Interrogate, both answers
\* sent: run() receives them even while it has the next command to hand over
\* (issue 4), unless run() has left its loop.
InterrogateAnswered ==
  epc = "echo" ~> epc = "loop" \/ run \in {"final", "setC", "done"}

\* Stop, Shutdown and PreShutdown stop the service: once the SCM has sent one
\* of them, it eventually sees Stopped.
StopStops ==
  (\E i \in DOMAIN pipe : pipe[i].cmd \in {"Stop", "Shutdown", "PreShutdown"})
    ~> scm.CurrentState = "Stopped"
===============================================================================
