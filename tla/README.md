# winsvc in TLA+

Package `winsvc` lets a Go program be a Windows service. This directory holds
TLA+ models of its concurrent core, TLC configurations that check them on small
instances, and TLAPS proofs of nearly all the safety properties for every instance.

## 1. The system

| part | state | operations | talks to |
|---|---|---|---|
| `svc.Run` (`src/svc/service.go:276`) | the thread it locks, two events, the callback | create events, create callback, `go s.run()`, dispatcher | Windows, `run`, `servicemain` |
| control handler (`service.go:286`) | one `ctlEvent` per call | check the thread, send on `s.c` | called by Windows, received by `run` |
| `servicemain` (`sys_amd64.s`, `sys_386.s`) | globals `sArgc`, `sArgv`, `ssHandle` | store arguments, register, set `goWaits`, wait for `cWaits` | Windows, `run` |
| `service.run` (`service.go:195`) | `status`, `ec`, `inch`, `outch`, `cmd` | wait for `goWaits`, spawn Execute, the select loop, final `Stopped`, set `cWaits` | all of the above and the handler |
| `svc.Handler` (`service.go:71`) | the user's | read requests, send statuses, return | `run` or `debug.Run` |
| example service (`src/example/service.go`) | ticker, `shutdown`, `checkpoint` | Execute and the PreShutdown worker | `run` |
| `debug.Run` (`src/debug/service.go`) | `status` of the pump | signal to Stop, receive statuses | handler, `os/signal` |
| `mgr` (`src/mgr`) | none; the service database is Windows' | connect, create, open, delete, close; `Config` and `UpdateConfig`, string blocks; start, control, query | Windows |
| `eventlog.Install`, `registry` | none; the registry is Windows' | create and delete the source's key, set its values | Windows |
| `eventlog.Log` (`src/eventlog/log.go`) | a handle | open, report, close | Windows; used by `runService` and Execute |
| example install/remove (`src/example/install.go`) | handles | `exePath`, the two commands, with roll-back | `mgr`, `eventlog` |
| example start/stop/pause/continue (`manage.go`) | a status, a timeout | start; control, then poll | `mgr`, through it the service |
| `IsAnInteractiveSession` (`src/svc/security.go`), `main` | SIDs, a token | scan the token's groups, be the service or a tool | Windows |
| `debug.Log`, `winapi` | none | one line of output, one call each | Windows |

What is hard here:

* five actors (Run's thread, the service thread, callback threads, the `run`
  goroutine, the handler's goroutine) and, in the example, a sixth that sends
  on the same channel as Execute;
* everything is unbuffered channels and auto-reset events, so a party that
  stops listening blocks its partner for ever;
* the SCM's record, `run`'s `status` and what the handler believes are three
  copies of one thing, updated at different moments;
* most Windows calls may fail, and several of the failures are ignored;
* one operation of `mgr` is several Windows calls on a database that other
  programs change in between, and a program may end between two of them;
* the tools see the service only through the SCM's record, which is behind.

Correct means: the SCM's record is what the handler last said; a control is
delivered once, in order, with a current status; Stopped is final and carries
the right exit code; nobody waits for ever except where stated; the service
stops when it is told to; install and remove leave the machine in order;
reading, editing and writing back a configuration changes what was edited; a
tool that reports success has achieved what it says.
`PROJECT.json` lists the hazards with their lines and the properties for each.

## 2. Modules

| module | models | composes |
|---|---|---|
| `SvcTypes` | the values of package svc; `ServiceStatus` is `updateStatus`' translation | |
| `SvcRun` | `Run`, `ctlHandler`, `servicemain`, `run`, and the SCM (external) | `SvcTypes` |
| `Handler` | any handler that Execute's comment allows | `SvcTypes` |
| `Service` | `svc.Run` with that handler; the properties | `SvcRun`, `Handler` |
| `ServiceContract` | abstract: what Run promises | `SvcTypes` |
| `Service_proofs` | the proofs | `Service` |
| `MyService` | the example's Execute and its worker | `SvcTypes` |
| `ExampleService` | the example program as a service: `runService`, the event log, `svc.Run`, the handler | `SvcRun`, `MyService` |
| `Manage` | start, stop, pause, continue: several tools, and the service through several lives | `ExampleService` |
| `ExampleService_proofs` | what holds throughout one life of the example service; it implements `ServiceContract` | `ExampleService` |
| `Manage_proofs` | the proofs for `ExampleService` and `Manage` | `Manage`, `ExampleService_proofs` |
| `DebugService` | `debug.Run` with any handler | `Handler` |
| `DebugService_proofs` | the proofs | `DebugService` |
| `Installer` | install and remove | |
| `Installer_proofs` | the proofs | `Installer` |
| `Mgr` | package mgr on one service, several programs | |
| `Mgr_proofs` | the proofs | `Mgr` |
| `StringSlice` | `toStringSlice`, the loop | |
| `StringBlock` | `toStringBlock`, UTF-16, the round trip | `StringSlice` |
| `StringSlice_proofs` | the loop stays in its block and delivers its strings | `StringSlice` |
| `Session` | `IsAnInteractiveSession` and `main` | |
| `Session_proofs` | the proofs | `Session` |
| `MCService`, `MCDebug`, `MCMgr` | sets of statuses, exit codes and settings for TLC | |
| `MCManage` | the symmetry of tools and workers | `Manage` |

### SvcRun and Service

`SvcRun` has one group of variables per actor. `main`, `sm`, `run` say where
Run, `servicemain` and `service.run` are; the other variables are the code's.
Each case of `run`'s select is an action (`SelCtl`, `SelCmd`, `SelChange`,
`SelExit`), and so is each call that another actor can interleave with
(`RunUpdate`, `RunFinal`, `RunSetCWaits`). A send on an unbuffered channel is one
step of both ends: `SvcRun` and a handler module each define their half, and
`Service` or `ExampleService` conjoins the two. `inch` and `outch` are Booleans:
whether the channel variable is non-nil. `ctl[t]` is the event a callback on
thread `t` is blocked on, `NoCtl` if there is none.

The SCM is external and modelled from how the code uses it: it sends a control
only if the flags of the last SERVICE_STATUS allow it (Interrogate and
user-defined codes need none) and the service is neither stopped nor stopping;
a service that is still starting gets Stop alone. It sends Shutdown and
PreShutdown once. It gives up on a callback that does not return, so controls
queue in `pipe`. It may call back on any thread: the code says so itself at
`service.go:288`. The dispatcher returns when the service is stopped and Run's
thread is not in a callback. `SetServiceStatus` may fail with any error of
`SetStatusErrs`. A panic ends the process, which the SCM records as Stopped with
ERROR_PROCESS_ABORTED.

Memory is abstracted to one question: does `run` read the argument vector that
`servicemain` was given? `Word32` scales the 32-bit boundary (16 in the runs);
on 386 every address is below it.

`run` and `servicemain` ignore the errors of SetEvent and WaitForSingleObject. That
these calls fail on a closed handle and on no other is an assumption about Windows;
on a closed one, setting does nothing and waiting returns at once (`EventSet`,
`EventWaitReturns`), and both sides go on as if the call had succeeded. That it never
comes to this is what `EventsOpenWhileUsed` shows.

`taken`, `given` and the `id` of a control are history: no guard reads them.

### Handler

The goroutine of Execute: it computes (`run`), sends (`send`), waits on `r`
(`recv`), returns (`exit`). It sends a status of `Reports`, or the status of a
request it has received. `Reports` excludes Stopped: a handler leaves that report
to the package, as Execute's comment says ("the service will exit once Execute
completes"). A handler need not read and need not return.

### MyService and ExampleService

`epc` is the line Execute is at; at a label of `Sending` it is blocked on
`changes <- est`. The worker is a process of its own, and `Workers` has two
members so that a second one could start. `checkpoint` is read and written
without a lock; reads and writes of a `uint32` are single accesses, so a race
only decides which of two values is read, and the interleaving covers both.
`MaxCheckpoint` is 30 in the code; with 2, in `MCManage`, the worker reports
once more than its first time, which is all that its loop distinguishes. In
`MCExample`, which checks liveness, it is 1.

`runService` (`rs`, `elog`) opens the event log, calls Run, and closes the log
when Run returns; then `main` returns and the process ends. A process that ends
without having reported Stopped is recorded by the SCM as stopped with
ERROR_PROCESS_ABORTED. Between the end of Run and the end of the process Execute
may still be running: `LogOpenWhenUsed` says when it can find the log closed.

### Manage

Each tool of `Tools` runs one command after the other. `ControlCall` is
ControlService: the control goes into the pipe as in `SvcRun`, and the call
returns the SCM's record when the callback has returned, or fails. The poll loop
may time out after any poll: ten seconds against 300 ms say nothing about how
many polls there are. `StartCall` launches a process of a stopped service in the
state of `Init`; what remains of an earlier process has no way to the SCM.
`SystemCmds` are the controls that come from elsewhere. `tid` and `tlife`
remember which control of which life a command sent; no guard of the service
reads them.

### DebugService

The pump is `ready` while it is on its way back to the select. `os/signal` does
not wait, so `CtrlC` in any other state than `select` is dropped.

### Installer

One program counter per running tool. `service` is the database entry, which
stays `deleting` until the last handle is closed; `source` is the number of
values in the event source's key. Every call may fail (`MaxFaults` bounds how
often), and a tool may be killed anywhere. `exePath` looks at the program's own
path and, if that has no extension, at the path with `.exe`. It returns a path and an
error, which are two things: the error is that of the first look, whatever the second
one found wrong, because the inner `err` is a variable of its own (`install.go:32`),
and `installService` goes by the error alone. `image` is what the installed service
will run.

### Mgr

A string or list is represented by its length, which is what decides whether a
buffer is big enough, whether `toPtr` makes a NULL of it, and whether `toString`
cuts it; the bound `FirstBuf` stands for the first buffer's 1024 bytes and
`StringCap` for `toString`'s 4096 units. One string stands for the four that are
passed alike. `Config` is two queries (`QueryConfig`, `QueryDescription`), each
with a retry; `UpdateConfig` is two changes; CreateService with a description is
two calls, and the handle of one that fails at the second is in `h`: open, and in
nobody's hands. `snap` and `calm` are history, no guard reads them: they say what
the database held when a client began to read, and whether anybody else has
changed it since.

### StringSlice, StringBlock

`StringSlice` is the loop, unit by unit, for any set of blocks that are
terminated as Windows' are. `StringBlock` gives it the blocks `toStringBlock`
writes for all short lists, in real UTF-16 (a surrogate pair included), and
compares the result with the list. `toStringBlock` does not look for NUL characters, so
the lists contain strings with them: the loop must stay in their blocks too
(`InBlock`), but `RoundTrip` speaks of the lists without.

### Session

One behaviour per token and command line. Each Windows call may fail. `b` is the
buffer that `getInfo`'s variable of that name holds, with the groups that Windows has
written to it: the second call gets a new one, and the one returned is the one scanned.
`defers` is the function's stack of deferred calls, to which each acquisition adds its
own, and which the return runs from the top.

## 3. Runs

| run | instance | shows |
|---|---|---|
| `MCService` | 2 threads, 3 controls of which 2 queue, failing SetServiceStatus, 1 or 101 arguments | types; `CurrentStatusFresh`, `StopExplained`, `HandleBeforeUse`, `EventsOpenWhileUsed`, `NoControlLost`, `ControlsInOrder`, `StuckOnlyIf`, `StoppedIsFinal`, and that Service implements `ServiceContract` |
| `MCServiceLive` | 1 thread, 2 controls, no failures, fair | `ArgsPassed` (100 arguments), `ExecuteReturnReported`, `CallbackReturns`, `ServiceMainReturns` |
| `MCServiceReturns` | the same | violation of `RunReturns` |
| `MCServiceArgv` | an address above the 32-bit boundary | violation of `ArgsPassed` |
| `MCExample` | module `Manage`: 3 controls, also the system's Interrogate, Pause, Shutdown and PreShutdown, a worker, a tool with one command, fair | `TickFollowsStatus`, `InterrogateAnswered`, `StopStops`, `SuccessSettles` |
| `MCManage` | 2 tools with 3 commands, 2 lives of the service with 2 controls each, 2 workers, failing SetServiceStatus | types; `StopMeansStopped`, `ShutdownClosedOnce`, `LogOpenWhenUsed` |
| `MCDebug` | 2 key presses, fair | `OneStopPerSignal`, `SignalInHandStops` |
| `MCDebugCtrlC` | the same | violation of `CtrlCStops` |
| `MCInstaller` | 2 tools, 4 commands, 2 faults | types; `InstalledMeansComplete`, `InstalledRunsFile`, `PartialKeyOnlyAfterFault`, `BothOrNeither` |
| `MCMgr` | 2 programs, 6 operations, 1 fault | `ConfigAccurate`, `EditKeepsTheRest`, `FailedUpdateIsPrefix`, `ConfigFailsOnlyIfDisturbed`, `DeletedGoes` |
| `MCStringBlock` | lists of up to 3 strings of up to 2 characters: NUL, a letter, one that takes a surrogate pair | `InBlock`, `CutsAreStrings`, `RoundTrip` |
| `MCSession` | tokens of up to 4 groups | `RoleFollowsToken`, `NothingLeaked` |

Bounds. Three controls are one with the handler, one in a callback and one
queued behind it, or one on each of two threads and a third: all the places a
control can be, and every pair of them. Two threads are Run's and a foreign one;
foreign ones do not differ. `MCReports` has a status that accepts nothing, one
that accepts controls (and a flag svc does not know), and one that ends them.
For the example, three controls are a PreShutdown, what overtakes it and what
follows it. In `MCExample` a tool's Stop, Pause or Continue meets the system's
Interrogate, Pause, Shutdown and PreShutdown. Three commands of two tools are a stop, a
start and a command that comes too early or too late; the tools, and the workers,
are interchangeable (SYMMETRY), no property distinguishing them. Two workers are
one more than `PreShutdown` can start, so that a second one would show. Two tools and
four commands allow an install, a remove that overlaps it, and another of each. Six operations of two programs are a creation, two
reads, two updates and one more; the edits make strings outgrow the first buffer,
the second one and `toString`. Tokens of four groups have every order of
Interactive, Service and others before, between and after them, below and above
the size of the first buffer. Deadlock checking is off because every one of these
systems may stop; where it may stop is what `StuckOnlyIf` states. It also compares
ENABLED with the guards of `Next` written out (`CanMove`), which the proofs use
instead, and `RoundTrip` that what `toStringBlock` writes is a `Layout`, the blocks
that `StringSlice_proofs` speaks of.

Fairness. Threads and goroutines that can run do (weak fairness of `MainStep`,
`ServiceMainStep`, `RunStep`, `CallbackStep`, `Start`, `TakeExit`, the pump and
the worker, whose sleeps end). Go's select chooses at random among the ready
cases, so a channel operation that is ready again and again happens (strong
fairness of `TakeControl`, `GiveRequest`, `TakeStatus`, ...). Nobody is obliged to
send a control, press a key or run a tool, and a tool may stop half-way.
The handler gets no fairness; where a property
needs a reading handler, that is its hypothesis (`HandlerKeepsReading`,
`HandlerCooperates`), taken from "Inside Execute you must read service change
requests from r" (`service.go:76`).

### Findings

* `RunReturns`: Execute's comment says "the service will exit once Execute
  completes". A control that comes between `run` leaving its loop and the SCM
  seeing Stopped, or was in a callback by then, leaves Run's thread in
  `s.c <- e` (`service.go:297`) for ever.
* `ArgsPassed`: "args contains argument strings passed to the service".
  The amd64 assembly stores 32 bits of the pointer (`sys_amd64.s:9`).
* `CtrlCStops`: "Use Ctrl+C to send "Stop" command to your service"
  (`debug/service.go:20`). The signal can be dropped, or pump and handler block
  each other.

Other things the models show, without a run of their own. A service started with
more than 100 arguments panics (`RunPanic`, `service.go:198`). Execute and the
worker of the example may report the same checkpoint twice, or a smaller one
after a larger one (`example/service.go:83`). CreateService replaces ErrorControl
0 by ErrorNormal, but 0 is ErrorIgnore (`mgr.go:82`). UpdateConfig cannot empty a
string or a list: an empty one is passed as NULL, which means "no change"
(`mgr.go:50`); `EditKeepsTheRest` has that exception, and the one for strings over
4096 units, which are written back cut. A CreateService that fails at the
description keeps the handle, so the service cannot go away while the program
lives (`mgr.go:94`): the exception in `DeletedGoes`. A pause or continue may report
success for a state that its control has not brought about, if the service was in
it already; `SuccessSettles` says that it gets there all the same. An Interrogate is
answered twice with the state it was given, so the second answer may show Running after
the worker's StopPending (`example/service.go:44`); `TickFollowsStatus` is about the
ticker only. A remove that overlaps an install may fail at a key that is not there yet
and leave the source of a service that is gone (`install.go:86`), which is why
`BothOrNeither` speaks of commands in series. A Config whose two queries another program's
change separates is half old and half new, and one whose buffer the change outgrows
fails (`config.go:88`): hence `calm` in `ConfigAccurate` and
`ConfigFailsOnlyIfDisturbed`. A NUL character in a dependency splits it or ends the list
(`mgr.go:64`). `IsAnInteractiveSession` "queries the process token for membership in the
Interactive group" (`security.go:56`), but answers no for a member whose token names the
Service group first. `RoleFollowsToken` holds the code to the sentence for all other
tokens and, where both groups are there, in the direction in which the two agree.

## 4. Proofs

`Service_proofs` proves, for every set of threads, set of statuses and exit
codes, argument count and address, set of errors and bound that satisfy
`SvcRunAssumption` and `HandlerAssumption`:

* `Invariance`: `Spec => []IInv`;
* from it `TypeCorrect`, `StartupSafe`, `EventsStayOpen`, `StatusFresh`, `StopsExplained`,
  `ControlsDelivered`, `OrderKept`;
* `StoppedStays`, an action property;
* `ArgsReachExecute`: `ArgsPassed`, if there are at most 100 arguments and their
  vector lies below the 32-bit boundary. Both hypotheses are about constants and
  are what the code needs: without the second, `MCServiceArgv` is the
  counterexample, without the first `RunPanic`. The invariant, `ArgsInv`, says
  that what `run` reads is what `servicemain` stored;
* `NoOtherDeadlock`: `StuckExplained`, the part of `StuckOnlyIf` without ENABLED.
  `StuckInv` says that whoever waits is owed a signal: a `servicemain` that waits on
  `cWaits` has set `goWaits` for a `run` that still waits, and a `run` that is through
  has set `cWaits`. In its loop `run` always has something to do with a handler that
  is sending or returning, and any other handler moves by itself;
* `StrandedForEver`: the first finding for every instance. A callback on Run's thread
  that `run` has left behind stays so, and Run does not return;
* `Refinement`: `Spec => Contract!CSpec`.

`IInv` is the conjunction of seven parts, each with a lemma that every step
preserves it and whose hypotheses show on which other parts it rests.

* `Typing`. `TypeOK` is not inductive: that a request is a `ChangeRequest`
  needs that `cmd` is a command whenever `outch` is set, and that in turn that
  callbacks carry commands.
* `HandleInv`: `ssHandle` is stored whenever `goWaits` is or will be set.
* `EventsInv`: the order in which `main`, `run` and `sm` start, and that the events
  are open from then on. `EventCallsSucceed` draws the conclusion that the lemmas on
  `HandleInv` and `ArgsInv` need: no SetEvent and no wait fails.
* `StatusInv`, the heart. In its loop `run` either has applied no status yet,
  the SCM shows the initial StartPending and no control is anywhere; or the
  SCM shows exactly `status`. Without the first alternative, freshness fails
  in the first select: `status` starts as Stopped. It needs that the SCM
  sends nothing to a service that has not reported yet.
* `ExitInv`: outside the loop `ec` is Execute's result or an error.
* `ControlInv`: never both `inch` and `outch`, and `NoControlLost`.
* `OrderInv`: controls taken precede the one in the callback on Run's thread,
  which precedes those in the pipe; other callbacks carry an error.

The refinement maps `run` to the contract's phase, `outch` and `cmd` to its
mailbox, and the SCM's record and the handler's last request to themselves.

`StringSlice_proofs` proves, for every set of terminated blocks of any length, that
`toStringSlice` never reads past its block (`NeverOverrun`) and delivers only whole
strings (`WholeStrings`). That the index is in the block is not inductive: a
terminator at the last unit must find `from = i`, which holds because the unit
before it is a terminator too, at which a string was cut. `SliceInverts` says what it
delivers: for a block that holds the strings `ss` (`Layout`), of any number and length,
exactly `ss`. `Layout` gives the strings' offsets as a function, so that it needs no
recursion and the proof no induction over the list; the induction is over the loop's
steps (`LayoutInv`: how many strings are cut, and where in the next one the loop is).

`Mgr_proofs` proves, for every set of programs, settings and edits, every size
of the first buffer and length limit of `toString`, and any number of operations and
failing calls (`MgrAssumption`), the properties of `MCMgr`. `DeletionCompletes`
rests on `HandleLeft`: a service marked for deletion has a handle, a Service's or
the one that a failed `CreateService` keeps. `ConfigReadsDatabase`,
`ConfigFailsWithFault`, `EditIsLocal` and `FailureIsPrefix` follow from
`Invariance`, whose `IInv` follows a program that nobody disturbs from its first query
to the end of its update. None of the properties is inductive: they speak of the end of
an operation, the invariant of every call on the way.

* `PhaseInv`: a call belongs to its operation.
* `ReadInv`: the settings are those of the first query; after that query `got`
  has all but the description, at the end everything.
* `BufInv`: the second query's buffer has the size the first asked for.
* `UpdateInv`: `got` is what was read, and each call starts from what the one
  before left.
* `TypeOK` says that an installed service's start type is not zero, for which
  `UpdateConfig`'s refusal and `CreateService`'s default are both needed.

The lemma `Others` reduces every step to the program that takes it: another's
locals stay as they are, and the settings change only when it stops being calm.

`ExampleService_proofs` and `Manage_proofs` prove the safety properties of the
example service and of the tools that act on it, for every number of threads,
workers, tools, jobs and lives and every `MaxCheckpoint`. The first shows that `LInv`
holds in the state Windows launches the process in and survives every step of the
process and every control (`LifeStep`); the second that a start puts the service
back into that state (`LivesInvariance`), and what the tools see.

* `PhaseInv`: the order in which `main`, `servicemain`, `run` and `runService` start
  and end, with the event log open while `runService` is in `Run`, and the two events
  while `run` and `servicemain` use them.
* `StatusInv`, as in `Service_proofs`. Here that no status says Stopped is not an
  assumption on the handler but has to be shown, also for the status that an
  Interrogate sends back. Hence `StoppedLasts`: only a start takes the service out of
  Stopped; and `StopIsStopped`, since a tool that saw Stopped in this life (`SeenInv`)
  can rely on it.
* `ExitInv`: when Run has returned, Execute is through or the SCM shows the error with
  which `run` gave up. With `PhaseInv` this is `LogIsOpen`.
* `TickInv`: the ticker suits the state shown, the one that `run` is applying and the
  one that Execute is sending back. `TickIsShown` alone is not inductive: the state
  an Interrogate answers with was read earlier, and is applied later, twice.
* `TokenInv`: the one PreShutdown is in the pipe, in a callback, with `run` or has become
  a worker, in one of these places at most. So there is one worker at most and
  `ClosedOnce` follows.

`LifeRefinesContract` is the refinement for the example: in each of its lives it
implements `ServiceContract`. `LifeSpec` is such a life with a history variable,
`lastReq`, for the request last given to Execute, which the contract shows and the
program does not keep. The phase is that of `Service` until the process ends; a process
that ends without `run` having reported, because the log cannot be opened or Run failed,
dies while starting. The statuses published are `Own`, the literals of Execute and its
worker: `OwnInv` follows them through the SCM, a request and the echo of an Interrogate.

`Installer_proofs` proves the properties of `MCInstaller` for any number of tools,
commands and failing calls: `InstallIsComplete`, `ServiceIsFile`, `KeyIsWhole`,
`InstallAndRemoveMatch`. All speak of the end of the commands; `IInv` speaks of each
call. A handle keeps a service in the database (`HandleInv`), so one tool at a time is
installing (`OneInstalls`); its key handle stays valid unless a remove is under way
(`KeyInv`); a key that is not complete is being completed (`PartialInv`); an installed
service without its key has a tool that will provide it or undo the installation, and
the undoing takes a second fault to fail (`CompleteInv`); commands in series find both
or neither (`SerialInv`).

`Session_proofs` proves, for tokens and buffers of every size, that main's role is what
the token says (`RoleIsTokens`) and that nothing leaks (`NoLeak`). For the first,
`getInfo` hands on only a buffer with the token's groups in it, and the groups before the
one compared next are neither of the two (`ScanInv`). For the second, whatever is held has
its deferred call on the stack (`DeferInv`). `DebugService_proofs` proves `StopsAreSignalled`: every Stop
has a key press of its own; and `LockedForEver`: a pump and a handler that send to each
other, as in the third finding, never get out of it.

TLC has checked every one of these invariants, part by part, on the instances of the
runs. Only model-checked: liveness (fairness is out of the prover's reach); of
`StuckOnlyIf`, that `CanMove` is ENABLED `Next`; of `RoundTrip`, that `toStringBlock`
writes a `Layout` and that `Decode` inverts `Encode`, which would need induction over the
list and the string. `SlicesAreStrings` quantifies over all sequences, which TLC cannot:
`RoundTrip` checks its instances.

Definitions whose comment begins "Seeded defect" are wrong versions of the
definition that follows them. Nothing uses them; each one makes the property it
is listed with in `PROJECT.json` fail, which shows that the property depends on
that piece of code.

## 5. Not modelled

`debug.Log` and `beep` are output without state. The generated `winapi` wrappers
marshal arguments; that a failed call always yields an error is part of every
action that calls one, and is all that matters here. WaitHint, event type, event
data and TagId are copied and never acted upon. The wording of messages, and the
registry values' contents, are left out. `Mgr.Disconnect` and the handles to the
service manager and to the application log's key affect nothing else.

## 6. Plan

1. Done: `SvcTypes`, `SvcRun`, `Handler`, `Service`, `ServiceContract`; `MyService`,
   `ExampleService` and `Manage`; `DebugService`; `Installer`; `Mgr`; `StringSlice` and
   `StringBlock`; `Session`; proofs of all their safety invariants, up to what the end
   of section 4 leaves to TLC; and the refinement of `ServiceContract` by `Service` and
   by the example service.
2. Left: liveness proofs, should a prover with fairness and ENABLED be at hand.
