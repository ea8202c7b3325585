-------------------------------- MODULE Manage ---------------------------------
(***************************************************************************)
(* The start, stop, pause and continue commands of the example program,    *)
(* composed with the service they act on: startService and controlService  *)
(* with Start, Control and Query of package mgr.  controlService sends a   *)
(* control and then polls until it sees the state it wants or ten seconds  *)
(* are over.                                                               *)
(*                                                                         *)
(* ControlService and StartService are Windows' (external): the first      *)
(* returns the SCM's record once the control callback has returned, or     *)
(* gives up; the second launches the process of a stopped service.         *)
(***************************************************************************)
EXTENDS ExampleService

CONSTANTS
  Tools,        \* instances of the tool
  SystemCmds,   \* controls that Windows or another program sends
  MaxJobs,      \* bound: commands given to tools
  MaxLives      \* bound: times the service is started

ASSUME ManageAssumption ==
  MaxJobs \in Nat /\ MaxLives \in Nat \ {0} /\ SystemCmds \subseteq Cmd

VARIABLES
  tpc, tjob,    \* per tool: where it is, its command
  tstatus,      \* the state Control or Query returned
  tid, tlife,   \* position of its control among those sent, in which life
  tres,         \* "none", "ok", "error"
  jobs, lives

toolVars == <<tpc, tjob, tstatus, tid, tlife, tres, jobs, lives>>
allVars == <<vars, toolVars>>

\* Seeded defect: main mixes up the controls of two commands.
CmdOf_Swapped == [stop |-> "Stop", pause |-> "Continue", continue |-> "Pause"]

\* The control main passes to controlService, and the state to wait for.
CmdOf == [stop |-> "Stop", pause |-> "Pause", continue |-> "Continue"]
To == [stop |-> "Stopped", pause |-> "Paused", continue |-> "Running"]

ToolTypeOK ==
  /\ TypeOK
  /\ tpc \in [Tools -> {"idle", "call", "control", "starting", "poll", "sleep"}]
  /\ tjob \in [Tools -> DOMAIN To \cup {"start"}]
  /\ tstatus \in [Tools -> State] /\ tres \in [Tools -> {"none", "ok", "error"}]
  /\ tid \in [Tools -> Nat] /\ tlife \in [Tools -> 1 .. MaxLives]
  /\ jobs \in 0 .. MaxJobs /\ lives \in 1 .. MaxLives

MInit ==
  /\ Init
  /\ tpc = [t \in Tools |-> "idle"] /\ tjob = [t \in Tools |-> "start"]
  /\ tstatus = [t \in Tools |-> "Stopped"] /\ tres = [t \in Tools |-> "none"]
  /\ tid = [t \in Tools |-> 0] /\ tlife = [t \in Tools |-> 1]
  /\ jobs = 0 /\ lives = 1

Goto(t, l) == tpc' = [tpc EXCEPT ![t] = l]

\* The command is over; what it was waiting for matters only if it succeeded.
Return(t, r) ==
  /\ Goto(t, "idle") /\ tres' = [tres EXCEPT ![t] = r]
  /\ tstatus' = [tstatus EXCEPT ![t] = "Stopped"]
  /\ IF r = "ok" THEN UNCHANGED <<tjob, tid>>
     ELSE tjob' = [tjob EXCEPT ![t] = "start"] /\ tid' = [tid EXCEPT ![t] = 0]

Begin(t) ==
  /\ tpc[t] = "idle" /\ jobs < MaxJobs /\ jobs' = jobs + 1
  /\ \E j \in DOMAIN To \cup {"start"} : tjob' = [tjob EXCEPT ![t] = j]
  /\ Goto(t, "call") /\ tres' = [tres EXCEPT ![t] = "none"]
  /\ UNCHANGED <<vars, tstatus, tid, tlife, lives>>

\* Connect, OpenService, Start, Control or Query fails: for a reason of its
\* own, because the service is not in a state for it, or because the callback
\* or the start takes longer than the SCM waits.
CallFails(t) ==
  /\ tpc[t] \in {"call", "control", "starting", "sleep"}
  /\ Return(t, "error")
  /\ UNCHANGED <<vars, tlife, jobs, lives>>

\* Control: the SCM sends it, and answers when the callback has returned.
ControlCall(t) ==
  /\ tpc[t] = "call" /\ tjob[t] # "start" /\ Alive
  /\ SendControl(CmdOf[tjob[t]])
  /\ tid' = [tid EXCEPT ![t] = sent'] /\ tlife' = [tlife EXCEPT ![t] = lives]
  /\ Goto(t, "control")
  /\ UNCHANGED <<tjob, tstatus, tres, jobs, lives>>

Pending(id) ==
  (\E i \in DOMAIN pipe : pipe[i].id = id) \/ (\E th \in Threads : ctl[th].id = id)

ControlReturns(t) ==
  /\ tpc[t] = "control" /\ tlife[t] = lives /\ ~Pending(tid[t])
  /\ tstatus' = [tstatus EXCEPT ![t] = scm.CurrentState]
  /\ Goto(t, "poll")
  /\ UNCHANGED <<vars, tjob, tid, tlife, tres, jobs, lives>>

\* Seeded defect: a pending state is taken for the state.
Reached_Pending(st, to) == st = to \/ (to = "Stopped" /\ st = "StopPending")

Reached(st, to) == st = to

\* The loop's condition, and the ten seconds, which may be over at any time.
Poll(t) ==
  /\ tpc[t] = "poll"
  /\ \/ Reached(tstatus[t], To[tjob[t]]) /\ Return(t, "ok")
     \/ ~Reached(tstatus[t], To[tjob[t]]) /\ Return(t, "error")
     \/ ~Reached(tstatus[t], To[tjob[t]]) /\ Goto(t, "sleep")
        /\ UNCHANGED <<tjob, tstatus, tid, tres>>
  /\ UNCHANGED <<vars, tlife, jobs, lives>>

Query(t) ==
  /\ tpc[t] = "sleep"
  /\ tstatus' = [tstatus EXCEPT ![t] = scm.CurrentState]
  /\ Goto(t, "poll")
  /\ UNCHANGED <<vars, tjob, tid, tlife, tres, jobs, lives>>

\* A process in the state in which Windows launches it (Init).
Launch ==
  /\ scm' = ServiceStatus(BareStatus("StartPending"), NoExit)
  /\ pipe' = <<>> /\ notified' = {} /\ sent' = 0
  /\ ctl' = [th \in Threads |-> NoCtl] /\ main' = "newService" /\ events' = {}
  /\ sm' = "off" /\ argc' = 0 /\ argv' = 0 /\ sArgc' = 0 /\ sArgv' = 0 /\ ssHandle' = 0
  /\ goWaits' = FALSE /\ cWaits' = FALSE /\ run' = "off" /\ h' = 0 /\ args' = "none"
  /\ status' = BareStatus("Stopped") /\ chg' = BareStatus("Stopped")
  /\ ec' = NoExit /\ inch' = FALSE /\ outch' = FALSE /\ cmd' = "None"
  /\ epc' = "off" /\ est' = BareStatus("StartPending") /\ tick' = "fast"
  /\ shutdown' = "open" /\ checkpoint' = 1 /\ wpc' = [w \in Workers |-> "off"]
  /\ wst' = [w \in Workers |-> BareStatus("StopPending")]
  /\ rs' = "open" /\ elog' = "none"

\* Start: a stopped service gets a new process.  What is left of the old one
\* has no way to the SCM any more.
StartCall(t) ==
  /\ tpc[t] = "call" /\ tjob[t] = "start"
  /\ scm.CurrentState = "Stopped" /\ lives < MaxLives
  /\ Launch /\ lives' = lives + 1
  /\ Goto(t, "starting") /\ tlife' = [tlife EXCEPT ![t] = lives']
  /\ UNCHANGED <<tjob, tstatus, tid, tres, jobs>>

\* The process has connected to the SCM.
StartReturns(t) ==
  /\ tpc[t] = "starting" /\ tlife[t] = lives /\ main \in {"dispatch", "returned"}
  /\ Return(t, "ok")
  /\ UNCHANGED <<vars, tlife, jobs, lives>>

ToolStep(t) ==
  \/ Begin(t) \/ CallFails(t) \/ ControlCall(t) \/ ControlReturns(t)
  \/ Poll(t) \/ Query(t) \/ StartCall(t) \/ StartReturns(t)

MNext ==
  \/ ServiceStep /\ UNCHANGED toolVars
  \/ Alive /\ (\E c \in SystemCmds : SendControl(c)) /\ UNCHANGED toolVars
  \/ \E t \in Tools : ToolStep(t)

MSpec == MInit /\ [][MNext]_allVars

\* The service's goroutines run as in ExampleService; the tools need not.
MFairSpec == MSpec /\ Fairness

-------------------------------------------------------------------------------
\* A stop command that reports success has left the service stopped, whatever
\* other tools do meanwhile, until somebody starts it again.
StopMeansStopped ==
  \A t \in Tools :
    tpc[t] = "idle" /\ tjob[t] = "stop" /\ tres[t] = "ok" /\ tlife[t] = lives =>
      scm.CurrentState = "Stopped"

\* Tool t has reported success and its control was the last one sent.
LastWord(t) ==
  /\ tpc[t] = "idle" /\ tres[t] = "ok" /\ tjob[t] # "start"
  /\ tid[t] = sent /\ tlife[t] = lives

\* Success means what it says: if no further control follows, the service
\* settles in the state asked for, even when the state that the tool saw was an
\* older one, left over from before its control or brought about by another
\* tool; or it is stopped, if a stop was under way.
SuccessSettles ==
  <>[](\E t \in Tools : LastWord(t)) =>
    <>[](\A t \in Tools :
           LastWord(t) => scm.CurrentState \in {To[tjob[t]], "Stopped"})
===============================================================================
