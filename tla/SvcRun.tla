-------------------------------- MODULE SvcRun --------------------------------
(***************************************************************************)
(* The service side of package svc: Run and its control handler, the       *)
(* assembly servicemain, and the goroutine service.run, together with the  *)
(* part of Windows they talk to (the SCM, its control pipe and the         *)
(* dispatcher, all external).                                              *)
(*                                                                         *)
(* Five actors share this state: the thread that called Run and then sits  *)
(* in StartServiceCtrlDispatcher, the thread Windows starts servicemain    *)
(* on, any thread Windows calls the control handler on, the run goroutine  *)
(* and the handler's goroutine.  The last one is not part of this module:  *)
(* SelCmd, SelChange, SelExit and RunStart are the halves of the channel   *)
(* operations that run() performs, and a module that extends this one      *)
(* conjoins them with the halves of a handler.                             *)
(***************************************************************************)
EXTENDS SvcTypes, Sequences

CONSTANTS
  Threads,        \* threads Windows may call the control handler on
  RunThread,      \* the thread that called Run (tid in the code)
  PipeSize,       \* bound: controls sent and not yet dispatched
  MaxControls,    \* bound: controls the SCM sends in one life of the service
  SetStatusErrs,  \* error numbers SetServiceStatus may fail with
  ArgCounts,      \* numbers of arguments the service may be started with
  ArgvAddrs,      \* addresses at which Windows may put the argument vector
  Word32          \* addresses that fit a 32-bit word are those below Word32

ASSUME SvcRunAssumption ==
  /\ RunThread \in Threads
  /\ PipeSize \in Nat /\ MaxControls \in Nat
  /\ SetStatusErrs \subseteq Nat \ {0}
  /\ ArgCounts \subseteq Nat \ {0} /\ ArgCounts # {}
  /\ ArgvAddrs \subseteq Nat /\ ArgvAddrs # {}
  /\ Word32 \in Nat \ {0}

\* var argv is sliced out of a *[100]*int16.
MaxArgv == 100

VARIABLES
  scm,       \* SERVICE_STATUS the SCM holds for the service
  pipe,      \* controls sent by the SCM and not yet dispatched, each with
             \* its position in the order of sending (a history value)
  notified,  \* the once-only system notifications already sent
  sent,      \* number of controls sent
  ctl,       \* per thread: the ctlEvent its callback is sending on s.c
  main,      \* where Run is
  events,    \* open event handles
  sm,        \* where servicemain is
  argc, argv,                 \* servicemain's parameters
  sArgc, sArgv, ssHandle,     \* the globals servicemain stores into
  goWaits, cWaits,            \* the two auto-reset events: signaled?
  run,       \* where service.run is
  h, args, status, ec, inch, outch, cmd,  \* its variables (s.h, ...)
  chg        \* the Status received from the handler and being applied

scmVars  == <<scm, pipe, notified, sent>>
mainVars == <<main, events>>
smVars   == <<sm, argc, argv, sArgc, sArgv, ssHandle>>
evVars   == <<goWaits, cWaits>>
loopVars == <<h, args, status, ec, inch, outch, cmd, chg>>
svcVars  == <<scmVars, ctl, mainVars, smVars, evVars, run, loopVars>>

Control  == [cmd : Cmd, id : Nat]
ctlEvent == [cmd : Cmd \cup {"None"}, id : Nat, errno : Nat]
NoCtl    == [cmd |-> "None", id |-> 0, errno |-> 0]
Handle == 1          \* a non-zero SERVICE_STATUS_HANDLE

ScmTypeOK ==
  /\ scm \in SERVICE_STATUS /\ pipe \in Seq(Control)
  /\ notified \subseteq {"Shutdown", "PreShutdown"} /\ sent \in 0 .. MaxControls

MainTypeOK ==
  /\ main \in {"newService", "newCallback", "connect", "dispatch",
               "failed", "returned", "crashed"}
  /\ events \subseteq {"cWaits", "goWaits"}

SmTypeOK ==
  /\ sm \in {"off", "entry", "register", "setGo", "waitC", "exit"}
  /\ argc \in Nat /\ argv \in Nat /\ sArgc \in Nat /\ sArgv \in Nat
  /\ ssHandle \in {0, Handle}

EvTypeOK == goWaits \in BOOLEAN /\ cWaits \in BOOLEAN

RunTypeOK ==
  run \in {"off", "wait", "select", "update", "final", "setC", "done", "panic"}

LoopTypeOK ==
  /\ h \in {0, Handle} /\ args \in {"none", "passed", "garbage"}
  /\ status \in Status /\ chg \in Status /\ ec \in exitCode
  /\ inch \in BOOLEAN /\ outch \in BOOLEAN /\ cmd \in Cmd \cup {"None"}

SvcTypeOK ==
  /\ ScmTypeOK /\ ctl \in [Threads -> ctlEvent] /\ MainTypeOK
  /\ SmTypeOK /\ EvTypeOK /\ RunTypeOK /\ LoopTypeOK

\* The SCM has been asked to start the service and has launched the process.
SvcInit ==
  /\ scm = ServiceStatus(BareStatus("StartPending"), NoExit)
  /\ pipe = <<>> /\ notified = {} /\ sent = 0
  /\ ctl = [t \in Threads |-> NoCtl]
  /\ main = "newService" /\ events = {}
  /\ sm = "off" /\ argc = 0 /\ argv = 0
  /\ sArgc = 0 /\ sArgv = 0 /\ ssHandle = 0
  /\ goWaits = FALSE /\ cWaits = FALSE
  /\ run = "off" /\ h = 0 /\ args = "none"
  /\ status = BareStatus("Stopped") /\ chg = BareStatus("Stopped")
  /\ ec = NoExit /\ inch = FALSE /\ outch = FALSE /\ cmd = "None"

-------------------------------------------------------------------------------
(***************************************************************************)
(* Run.                                                                    *)
(***************************************************************************)

\* newService: two events are created; when one cannot be, Run returns the
\* error with no event left open.
NewService ==
  /\ main = "newService"
  /\ \/ events' = {"cWaits", "goWaits"} /\ main' = "newCallback"
     \/ events' = {} /\ main' = "failed"
  /\ UNCHANGED <<scmVars, ctl, smVars, evVars, run, loopVars>>

\* newCallback, then go s.run().  A failure leaves both events open.
NewCallback ==
  /\ main = "newCallback"
  /\ \/ main' = "connect" /\ run' = "wait"
     \/ main' = "failed" /\ UNCHANGED run
  /\ UNCHANGED <<scmVars, ctl, events, smVars, evVars, loopVars>>

\* StartServiceCtrlDispatcher connects the thread to the SCM, or fails.
StartServiceCtrlDispatcher ==
  /\ main = "connect"
  /\ main' \in {"dispatch", "failed"}
  /\ UNCHANGED <<scmVars, ctl, events, smVars, evVars, run, loopVars>>

\* The dispatcher returns, and Run with it, once the service is stopped;
\* not from inside a control callback, which runs on this very thread.  The
\* events open afterwards are evs.
RunReturnWith(evs) ==
  /\ main = "dispatch" /\ sm # "off"
  /\ scm.CurrentState = "Stopped"
  /\ ctl[RunThread] = NoCtl
  /\ main' = "returned" /\ events' = evs
  /\ UNCHANGED <<scmVars, ctl, smVars, evVars, run, loopVars>>

\* Seeded defect: Run releases the events with a deferred s.close().
RunReturn_DeferClose == RunReturnWith({})

\* s.close() is never called.
RunReturn == RunReturnWith(events)

-------------------------------------------------------------------------------
(***************************************************************************)
(* event.Set and event.Wait.  SetEvent and WaitForSingleObject are assumed *)
(* to fail exactly on a handle that has been closed (external); run() and  *)
(* servicemain ignore the error of either and go on.                       *)
(***************************************************************************)

\* Is the event signaled after Set?
EventSet(e, signaled) == e \in events \/ signaled

\* Wait comes back when the event is signaled, and at once when it fails.
EventWaitReturns(e, signaled) == e \in events => signaled

-------------------------------------------------------------------------------
(***************************************************************************)
(* The SCM (external).                                                     *)
(***************************************************************************)

CmdFlag(c) == CASE c = "Stop"                   -> "AcceptStop"
                [] c \in {"Pause", "Continue"}  -> "AcceptPauseAndContinue"
                [] c = "Shutdown"               -> "AcceptShutdown"
                [] c = "PreShutdown"            -> "AcceptPreShutdown"
                [] OTHER                        -> "AcceptOther"

\* A control goes to a service that accepts it (Interrogate and user-defined
\* controls need no flag) and is neither stopped nor stopping; a starting one
\* only gets Stop.
CanSend(c) ==
  /\ c \in {"Interrogate", "UserDefined"} \/ CmdFlag(c) \in scm.ControlsAccepted
  /\ \/ scm.CurrentState \in {"Running", "Paused", "PausePending", "ContinuePending"}
     \/ scm.CurrentState = "StartPending" /\ c = "Stop"
  /\ c \notin notified
  /\ c = "PreShutdown" => "Shutdown" \notin notified

\* The SCM gives up waiting for a callback that does not return, so further
\* controls may queue up behind it.
ScmSend(c) ==
  /\ main = "dispatch"
  /\ CanSend(c)
  /\ sent < MaxControls /\ Len(pipe) < PipeSize
  /\ pipe' = Append(pipe, [cmd |-> c, id |-> sent + 1])
  /\ sent' = sent + 1
  /\ notified' = notified \cup ({c} \cap {"Shutdown", "PreShutdown"})
  /\ UNCHANGED <<scm, ctl, mainVars, smVars, evVars, run, loopVars>>

\* Windows starts the service thread in servicemain.
ScmStartService ==
  /\ main = "dispatch" /\ sm = "off"
  /\ sm' = "entry"
  /\ argc' \in ArgCounts /\ argv' \in ArgvAddrs
  /\ UNCHANGED <<scmVars, ctl, mainVars, sArgc, sArgv, ssHandle, evVars, run, loopVars>>

\* SetServiceStatus: 0, or the error number the call failed with.  The
\* generated wrapper never turns a failure into a nil error.
SetServiceStatusResult == {NO_ERROR} \cup SetStatusErrs

-------------------------------------------------------------------------------
(***************************************************************************)
(* ctlHandler: Windows calls it on thread t with the next control.  The    *)
(* event carries an error if t is not the thread Run was called on; then   *)
(* the callback blocks on s.c <- e until run() receives it (SelCtl).       *)
(***************************************************************************)

\* Seeded defect: the thread check is missing.
CallbackErr_Unchecked(t) == 0

CallbackErr(t) == IF t = RunThread THEN 0 ELSE sysErrNewThreadInCallback

ctlHandler(t) ==
  /\ main = "dispatch" /\ ctl[t] = NoCtl /\ pipe # <<>>
  /\ ctl' = [ctl EXCEPT ![t] = [cmd   |-> Head(pipe).cmd, id |-> Head(pipe).id,
                               errno |-> CallbackErr(t)]]
  /\ pipe' = Tail(pipe)
  /\ UNCHANGED <<scm, notified, sent, mainVars, smVars, evVars, run, loopVars>>

-------------------------------------------------------------------------------
(***************************************************************************)
(* servicemain, in assembly on the thread Windows created for it.          *)
(***************************************************************************)

StoreArgs(n, v) ==
  /\ sm = "entry" /\ sm' = "register"
  /\ sArgc' = n /\ sArgv' = v
  /\ UNCHANGED <<scmVars, ctl, mainVars, argc, argv, ssHandle, evVars, run, loopVars>>

\* Seeded defect: the two argument registers are taken for each other.
ServiceMainStoreArgs_Swapped == StoreArgs(argv, argc % Word32)

\* MOVL DX, sArgv(SB): a 32-bit store of a pointer.
ServiceMainStoreArgs == StoreArgs(argc, argv % Word32)

\* RegisterServiceCtrlHandlerExW returns a handle, or 0 and servicemain exits.
RegisterThen(handle, go) ==
  /\ sm = "register"
  /\ \/ sm' = "setGo" /\ ssHandle' = handle /\ goWaits' = go
     \/ sm' = "exit" /\ UNCHANGED <<ssHandle, goWaits>>
  /\ UNCHANGED <<scmVars, ctl, mainVars, argc, argv, sArgc, sArgv, cWaits, run, loopVars>>

\* Seeded defect: the goWaits event is set before the handle is stored.
ServiceMainRegister_SetFirst == RegisterThen(ssHandle, TRUE)

ServiceMainRegister == RegisterThen(Handle, goWaits)

ServiceMainSetEvent ==
  /\ sm = "setGo" /\ sm' = "waitC"
  /\ goWaits' = EventSet("goWaits", goWaits)
  /\ UNCHANGED <<scmVars, ctl, mainVars, argc, argv, sArgc, sArgv, ssHandle,
                 cWaits, run, loopVars>>

\* WaitForSingleObject(cWaits, INFINITE) consumes the auto-reset event.
ServiceMainWait ==
  /\ sm = "waitC" /\ EventWaitReturns("cWaits", cWaits)
  /\ cWaits' = FALSE /\ sm' = "exit"
  /\ UNCHANGED <<scmVars, ctl, mainVars, argc, argv, sArgc, sArgv, ssHandle,
                 goWaits, run, loopVars>>

-------------------------------------------------------------------------------
(***************************************************************************)
(* service.run.  RunStart covers everything from goWaits.Wait to the       *)
(* first select; it spawns the goroutine that calls Execute.               *)
(***************************************************************************)

\* What run() finds behind sArgv: the arguments, unless the pointer it reads
\* is not the pointer servicemain was given.
ArgsRead == IF sArgv = argv THEN "passed" ELSE "garbage"

RunStart ==
  /\ run = "wait" /\ EventWaitReturns("goWaits", goWaits)
  /\ sArgc <= MaxArgv
  /\ goWaits' = FALSE /\ h' = ssHandle /\ args' = ArgsRead
  /\ status' = BareStatus("Stopped") /\ ec' = NoExit
  /\ inch' = TRUE /\ outch' = FALSE /\ run' = "select"
  /\ UNCHANGED <<scmVars, ctl, mainVars, smVars, cWaits, cmd, chg>>

ProcessAborted == [isSvcSpecific |-> FALSE, errno |-> 1067]

\* Slicing 100 pointers beyond 100 panics, and reading through a wrong pointer
\* may fault: the process dies and the SCM sees it stop with
\* ERROR_PROCESS_ABORTED (external).
RunPanic ==
  /\ run = "wait" /\ EventWaitReturns("goWaits", goWaits)
  /\ sArgc > MaxArgv \/ ArgsRead = "garbage"
  /\ goWaits' = FALSE /\ h' = ssHandle
  /\ run' = "panic" /\ main' = "crashed"
  /\ scm' = ServiceStatus(BareStatus("Stopped"), ProcessAborted)
  /\ UNCHANGED <<pipe, notified, sent, ctl, events, smVars, cWaits,
                 args, status, ec, inch, outch, cmd, chg>>

\* case r := <-inch.  The callback on thread t, blocked on s.c, returns.  On
\* success inch becomes in.
SelCtlThen(t, in) ==
  /\ run = "select" /\ inch /\ ctl[t] # NoCtl
  /\ ctl' = [ctl EXCEPT ![t] = NoCtl]
  /\ IF ctl[t].errno # 0
     THEN /\ ec' = [ec EXCEPT !.errno = ctl[t].errno]
          /\ run' = "final"
          /\ UNCHANGED <<inch, outch, cmd>>
     ELSE /\ inch' = in /\ outch' = TRUE /\ cmd' = ctl[t].cmd
          /\ UNCHANGED <<run, ec>>
  /\ UNCHANGED <<scmVars, mainVars, smVars, evVars, h, args, status, chg>>

\* Seeded defect: inch stays selected, so a second control overwrites the
\* first one before the handler has received it.
SelCtl_KeepInch(t) == SelCtlThen(t, TRUE)

SelCtl(t) == SelCtlThen(t, FALSE)

\* case outch <- ChangeRequest{cmd, status}; inch becomes in.
SelCmdThen(req, in) ==
  /\ run = "select" /\ outch
  /\ req = [Cmd |-> cmd, CurrentStatus |-> status]
  /\ inch' = in /\ outch' = FALSE
  /\ UNCHANGED <<scmVars, ctl, mainVars, smVars, evVars, run,
                 h, args, status, ec, cmd, chg>>

\* Seeded defect: inch is not set back to s.c.
SelCmd_InchLost(req) == SelCmdThen(req, FALSE)

SelCmd(req) == SelCmdThen(req, TRUE)

\* case c := <-changesFromHandler.
ReceiveChange(c) ==
  /\ run = "select"
  /\ chg' = c /\ run' = "update"
  /\ UNCHANGED <<scmVars, ctl, mainVars, smVars, evVars,
                 h, args, status, ec, inch, outch, cmd>>

\* Seeded defect: a handler's status is not received while a command waits
\* for the handler (the deadlock of issue 4).
SelChange_NotWhileSending(c) == ~outch /\ ReceiveChange(c)

SelChange(c) == ReceiveChange(c)

\* The rest of that case: updateStatus(&c, &ec); on success status becomes st.
RunUpdateThen(st) ==
  /\ run = "update"
  /\ \E e \in SetServiceStatusResult :
       LET errno == IF h = 0 THEN sysErrSetServiceStatusFailed ELSE e
       IN IF errno # 0
          THEN /\ ec' = [ec EXCEPT !.errno = errno]
               /\ run' = "final"
               /\ UNCHANGED <<scm, status>>
          ELSE /\ scm' = ServiceStatus(chg, ec)
               /\ status' = st /\ run' = "select"
               /\ UNCHANGED ec
  /\ UNCHANGED <<pipe, notified, sent, ctl, mainVars, smVars, evVars,
                 h, args, inch, outch, cmd, chg>>

\* Seeded defect: status = c forgotten.
RunUpdate_KeepStatus == RunUpdateThen(status)

RunUpdate == RunUpdateThen(chg)

\* case ec = <-exitFromHandler, then run() goes to next.
SelExitThen(x, next) ==
  /\ run = "select"
  /\ ec' = x /\ run' = next
  /\ UNCHANGED <<scmVars, ctl, mainVars, smVars, evVars,
                 h, args, status, inch, outch, cmd, chg>>

\* Seeded defect: a break without a label leaves the select, not the loop.
SelExit_PlainBreak(x) == SelExitThen(x, "select")

SelExit(x) == SelExitThen(x, "final")

\* updateStatus(&Status{State: Stopped}, &ec), whose error is ignored, then
\* run() goes to next.
RunFinalThen(next) ==
  /\ run = "final" /\ run' = next
  /\ \E e \in SetServiceStatusResult :
       IF h # 0 /\ e = 0
       THEN scm' = ServiceStatus(BareStatus("Stopped"), ec)
       ELSE UNCHANGED scm
  /\ UNCHANGED <<pipe, notified, sent, ctl, mainVars, smVars, evVars, loopVars>>

\* Seeded defect: Stopped is reported, but the loop goes on.
RunFinal_InsideLoop == RunFinalThen("select")

RunFinal == RunFinalThen("setC")

SetCWaits(v) ==
  /\ run = "setC" /\ run' = "done"
  /\ cWaits' = v
  /\ UNCHANGED <<scmVars, ctl, mainVars, smVars, goWaits, loopVars>>

\* Seeded defect: the loop's exit forgets cWaits.Set().
RunSetCWaits_Forgotten == SetCWaits(cWaits)

\* s.cWaits.Set() lets servicemain return.
RunSetCWaits == SetCWaits(EventSet("cWaits", cWaits))

===============================================================================
