------------------------------ MODULE MyService -------------------------------
(***************************************************************************)
(* The handler of the example program: myservice.Execute, and the worker   *)
(* goroutine it starts on PreShutdown, which reports progress on the same  *)
(* changes channel and ends Execute by closing the channel shutdown.       *)
(*                                                                         *)
(* The label epc is where Execute is; at a label of Sending it is blocked  *)
(* on changes <- est, at "log" in the default case's call of elog.Error.   *)
(* A tick only beeps and is left out.                                      *)
(***************************************************************************)
EXTENDS SvcTypes

CONSTANTS
  Workers,         \* bound: the worker goroutines that can be started
  MaxCheckpoint    \* the checkpoint after which a worker is through (30)

ASSUME MyServiceAssumption == MaxCheckpoint \in Nat \ {0}

VARIABLES
  epc,          \* label of Execute
  est,          \* the Status it is sending
  tick,         \* which ticker the loop listens to
  shutdown,     \* "open", "closed", or "panic" when closed twice
  checkpoint,   \* shared by Execute and the workers, without a lock
  wpc, wst      \* per worker: where it is, the Status it is sending

myVars == <<epc, est, tick, shutdown, checkpoint, wpc, wst>>

cmdsAccepted == KnownFlags
Up(s) == [State |-> s, Accepts |-> cmdsAccepted, CheckPoint |-> 0]
Stopping(n) == [State |-> "StopPending", Accepts |-> {}, CheckPoint |-> n]

\* Where Execute goes on after the send at each label.
Then == [startPending |-> "running", running |-> "loop", echo |-> "sleep",
         echoAgain |-> "loop", pause |-> "loop", continue |-> "loop",
         stopPending |-> "exit"]
Sending == DOMAIN Then

MyTypeOK ==
  /\ epc \in Sending \cup {"off", "loop", "sleep", "log", "exit", "done"}
  /\ est \in Status
  /\ tick \in {"fast", "slow"}
  /\ shutdown \in {"open", "closed", "panic"}
  /\ checkpoint \in Nat
  /\ wpc \in [Workers -> {"off", "go", "send", "sleep", "done"}]
  /\ wst \in [Workers -> Status]

MyInit ==
  /\ epc = "off" /\ est = BareStatus("StartPending")
  /\ tick = "fast" /\ shutdown = "open" /\ checkpoint = 1
  /\ wpc = [w \in Workers |-> "off"]
  /\ wst = [w \in Workers |-> BareStatus("StopPending")]

ESpawn == epc = "off" /\ epc' = "startPending"
          /\ UNCHANGED <<est, tick, shutdown, checkpoint, wpc, wst>>

\* Seeded defect: Continue does not switch back to the fast ticker.
TickAfter_NoContinue(pc) == IF pc = "pause" THEN "slow" ELSE tick

TickAfter(pc) ==
  CASE pc = "pause" -> "slow" [] pc = "continue" -> "fast" [] OTHER -> tick

\* changes <- est: somebody has received c.
ESent(c) ==
  /\ epc \in Sending /\ c = est
  /\ epc' = Then[epc] /\ tick' = TickAfter(epc)
  /\ est' = IF epc = "startPending" THEN Up("Running") ELSE est
  /\ UNCHANGED <<shutdown, checkpoint, wpc, wst>>

\* time.Sleep between the two answers to Interrogate.
ESleep == epc = "sleep" /\ epc' = "echoAgain"
          /\ UNCHANGED <<est, tick, shutdown, checkpoint, wpc, wst>>

\* elog.Error(...) has written its entry.
ELog == epc = "log" /\ epc' = "loop"
        /\ UNCHANGED <<est, tick, shutdown, checkpoint, wpc, wst>>

\* break loop: the last status is built from the checkpoint read here.
BreakLoop ==
  /\ epc' = "stopPending" /\ est' = Stopping(checkpoint)
  /\ UNCHANGED <<tick, shutdown, checkpoint, wpc, wst>>

Report(pc, st) ==
  /\ epc' = pc /\ est' = st
  /\ UNCHANGED <<tick, shutdown, checkpoint, wpc, wst>>

\* go func() { ... }()
StartWorker ==
  /\ \E w \in Workers : wpc[w] = "off" /\ wpc' = [wpc EXCEPT ![w] = "go"]
  /\ UNCHANGED <<epc, est, tick, shutdown, checkpoint, wst>>

\* Seeded defect: Shutdown is served like PreShutdown.
EReceive_ShutdownAsPre(req) ==
  /\ epc = "loop"
  /\ \/ req.Cmd = "Interrogate" /\ Report("echo", req.CurrentStatus)
     \/ req.Cmd = "Stop" /\ BreakLoop
     \/ req.Cmd \in {"Shutdown", "PreShutdown"} /\ StartWorker
     \/ req.Cmd = "Pause" /\ Report("pause", Up("Paused"))
     \/ req.Cmd = "Continue" /\ Report("continue", Up("Running"))
     \/ req.Cmd = "UserDefined" /\ Report("log", est)

\* case c := <-r and the switch on c.Cmd.
EReceive(req) ==
  /\ epc = "loop"
  /\ \/ req.Cmd = "Interrogate" /\ Report("echo", req.CurrentStatus)
     \/ req.Cmd \in {"Stop", "Shutdown"} /\ BreakLoop
     \/ req.Cmd = "PreShutdown" /\ StartWorker
     \/ req.Cmd = "Pause" /\ Report("pause", Up("Paused"))
     \/ req.Cmd = "Continue" /\ Report("continue", Up("Running"))
     \/ req.Cmd = "UserDefined" /\ Report("log", est)

\* case <-shutdown
EShutdown == epc = "loop" /\ shutdown = "closed" /\ BreakLoop

\* Execute returned (false, 0) and somebody has received that.
EExit(x) ==
  /\ epc = "exit" /\ epc' = "done"
  /\ x = [isSvcSpecific |-> FALSE, errno |-> 0]
  /\ UNCHANGED <<est, tick, shutdown, checkpoint, wpc, wst>>

\* A worker starts: its first status.
WGo(w) ==
  /\ wpc[w] = "go" /\ wpc' = [wpc EXCEPT ![w] = "send"]
  /\ wst' = [wst EXCEPT ![w] = Stopping(checkpoint)]
  /\ UNCHANGED <<epc, est, tick, shutdown, checkpoint>>

WSent(w, c) ==
  /\ wpc[w] = "send" /\ c = wst[w]
  /\ wpc' = [wpc EXCEPT ![w] = "sleep"]
  /\ UNCHANGED <<epc, est, tick, shutdown, checkpoint, wst>>

\* Seeded defect: a worker that is through does not close shutdown.
Close_Forgotten == UNCHANGED shutdown

\* close(shutdown) panics when the channel is closed already.
Close == shutdown' = IF shutdown = "open" THEN "closed" ELSE "panic"

\* One second of work later: checkpoint++, and return or report again.
WWork(w) ==
  /\ wpc[w] = "sleep"
  /\ checkpoint' = checkpoint + 1
  /\ IF checkpoint + 1 > MaxCheckpoint
     THEN wpc' = [wpc EXCEPT ![w] = "done"] /\ Close /\ UNCHANGED wst
     ELSE /\ wpc' = [wpc EXCEPT ![w] = "send"]
          /\ wst' = [wst EXCEPT ![w] = Stopping(checkpoint + 1)]
          /\ UNCHANGED shutdown
  /\ UNCHANGED <<epc, est, tick>>

===============================================================================
