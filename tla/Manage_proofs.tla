----------------------------- MODULE Manage_proofs -----------------------------
(***************************************************************************)
(* Proofs about Manage: the life invariant LInv survives what the tools    *)
(* do, and with it the tools' own invariant gives the properties of        *)
(* ExampleService and Manage for every number of tools, jobs and lives.    *)
(***************************************************************************)
EXTENDS Manage, ExampleService_proofs

ToolTyping ==
  /\ tpc \in [Tools -> {"idle", "call", "control", "starting", "poll", "sleep"}]
  /\ tjob \in [Tools -> DOMAIN To \cup {"start"}]
  /\ tstatus \in [Tools -> State] /\ tres \in [Tools -> {"none", "ok", "error"}]
  /\ tid \in [Tools -> Nat] /\ tlife \in [Tools -> 1 .. MaxLives]
  /\ jobs \in 0 .. MaxJobs /\ lives \in 1 .. MaxLives

\* A tool has never seen a life that is still to come; a Stopped that it saw in
\* this life is what the SCM still shows.
SeenInv ==
  \A t \in Tools :
    /\ tlife[t] <= lives
    /\ tpc[t] = "starting" => tjob[t] = "start"
    /\ tpc[t] = "poll" /\ tlife[t] = lives /\ tstatus[t] = "Stopped" =>
         scm.CurrentState = "Stopped"

MInv == LInv /\ ToolTyping /\ SeenInv /\ StopMeansStopped

\* Windows launches the process in the state Init describes, and the controls
\* that tools and Windows send are controls.
LEMMA LifeOf ==
  ASSUME LInv, ToolTyping, [MNext]_allVars
  PROVE  \/ LifeStep \/ UNCHANGED vars
         \/ Launch /\ \E t \in Tools : StartCall(t)
<1>1. CASE ServiceStep
  BY <1>1 DEF LifeStep
<1>2. CASE Alive /\ \E c \in SystemCmds : SendControl(c)
  BY <1>2, ManageAssumption DEF LifeStep
<1>3. ASSUME NEW t \in Tools, ControlCall(t) PROVE LifeStep
  <2>1. tjob[t] \in {"stop", "pause", "continue"}
    BY <1>3 DEF ControlCall, ToolTyping, To
  <2>2. CmdOf[tjob[t]] \in Cmd
    BY <2>1 DEF CmdOf, Cmd
  <2>. QED BY <1>3, <2>2 DEF ControlCall, LifeStep
<1>4. ASSUME NEW t \in Tools, StartCall(t) PROVE Launch
  BY <1>4 DEF StartCall
<1>5. ASSUME NEW t \in Tools, ToolStep(t), ~ControlCall(t), ~StartCall(t) PROVE UNCHANGED vars
  BY <1>5 DEF ToolStep, Begin, CallFails, ControlReturns, Poll, Query, StartReturns
<1>6. CASE UNCHANGED allVars
  BY <1>6 DEF allVars
<1>. QED BY <1>1, <1>2, <1>3, <1>4, <1>5, <1>6 DEF MNext

\* The life invariant holds in every life.
LEMMA LivesInvariance == LInv /\ ToolTyping /\ [MNext]_allVars => LInv'
<1> SUFFICES ASSUME LInv, ToolTyping, [MNext]_allVars PROVE LInv'
  OBVIOUS
<1>1. CASE LifeStep \/ UNCHANGED vars
  BY <1>1, LifeInvariance
<1>2. CASE Launch
  <2>1. Init'
    BY <1>2, Zenon DEF Launch, Init, SvcInit, MyInit
  <2>. QED BY <2>1, LifeInit, PTL
<1>. QED BY <1>1, <1>2, LifeOf

\* Return, Goto and the rest of a tool's step keep the types.
LEMMA ToolTypingStep == LInv /\ ToolTyping /\ [MNext]_allVars => ToolTyping'
<1> SUFFICES ASSUME LInv, ToolTyping, [MNext]_allVars PROVE ToolTyping'
  OBVIOUS
<1> USE ManageAssumption DEF ToolTyping
<1>0. scm.CurrentState \in State /\ "Stopped" \in State /\ LInv'
  BY LivesInvariance DEF LInv, Typing, ScmTypeOK, SERVICE_STATUS, State
<1>1. sent' \in Nat
  BY <1>0, SvcRunAssumption DEF LInv, Typing, ScmTypeOK
<1>2. CASE UNCHANGED toolVars
  BY <1>2 DEF toolVars
<1>3. ASSUME NEW t \in Tools, ToolStep(t) PROVE ToolTyping'
  <2>1. tpc' \in [Tools -> {"idle", "call", "control", "starting", "poll", "sleep"}]
    BY <1>3 DEF ToolStep, Begin, CallFails, ControlCall, ControlReturns, Poll, Query, StartCall,
       StartReturns, Return, Goto
  <2>2. tjob' \in [Tools -> DOMAIN To \cup {"start"}]
    BY <1>3 DEF ToolStep, Begin, CallFails, ControlCall, ControlReturns, Poll, Query, StartCall,
       StartReturns, Return
  <2>3. tstatus' \in [Tools -> State] /\ tres' \in [Tools -> {"none", "ok", "error"}]
    BY <1>0, <1>3 DEF ToolStep, Begin, CallFails, ControlCall, ControlReturns, Poll, Query,
       StartCall, StartReturns, Return
  <2>4. tid' \in [Tools -> Nat]
    BY <1>1, <1>3 DEF ToolStep, Begin, CallFails, ControlCall, ControlReturns, Poll, Query,
       StartCall, StartReturns, Return
  <2>5. /\ tlife' \in [Tools -> 1 .. MaxLives] /\ jobs' \in 0 .. MaxJobs
        /\ lives' \in 1 .. MaxLives
    BY <1>3 DEF ToolStep, Begin, CallFails, ControlCall, ControlReturns, Poll, Query, StartCall,
       StartReturns
  <2>. QED BY <2>1, <2>2, <2>3, <2>4, <2>5
<1>. QED BY <1>2, <1>3 DEF MNext, allVars

\* One tool's step leaves the other tools alone.
LEMMA OtherTools ==
  ASSUME ToolTyping, NEW t \in Tools, ToolStep(t), NEW u \in Tools, u # t
  PROVE  /\ tpc'[u] = tpc[u] /\ tjob'[u] = tjob[u] /\ tstatus'[u] = tstatus[u]
         /\ tres'[u] = tres[u] /\ tlife'[u] = tlife[u]
BY DEF ToolTyping, ToolStep, Begin, CallFails, ControlCall, ControlReturns, Poll, Query,
       StartCall, StartReturns, Return, Goto

\* A Stopped that a tool saw in this life is still shown, and is what a stop
\* command that succeeds has seen.
LEMMA SeenStep ==
  ASSUME LInv, ToolTyping, SeenInv, StopMeansStopped, [MNext]_allVars
  PROVE  SeenInv' /\ StopMeansStopped'
<1> USE DEF SeenInv, StopMeansStopped
<1>0. \A u \in Tools : tlife[u] \in Nat /\ lives \in Nat
  BY DEF ToolTyping
<1>1. CASE UNCHANGED toolVars
  <2>1. scm.CurrentState = "Stopped" => scm'.CurrentState = "Stopped"
    <3>1. ~\E t \in Tools : StartCall(t)
      BY <1>0, <1>1 DEF StartCall, toolVars
    <3>. QED BY <3>1, LifeOf, StoppedStays DEF vars, svcVars, scmVars
  <2>. QED BY <1>1, <2>1 DEF toolVars
<1>2. ASSUME NEW t \in Tools, ToolStep(t), ~StartCall(t) PROVE SeenInv' /\ StopMeansStopped'
  <2>1. scm' = scm
    BY <1>2 DEF ToolStep, Begin, CallFails, ControlCall, SendControl, ScmSend, ControlReturns,
       Poll, Query, StartReturns, vars, svcVars, scmVars
  <2>2. lives' = lives
    BY <1>2 DEF ToolStep, Begin, CallFails, ControlCall, ControlReturns, Poll, Query, StartReturns
  <2>3. /\ tlife'[t] <= lives
        /\ tpc'[t] = "starting" => tjob'[t] = "start"
        /\ tpc'[t] = "poll" => tstatus'[t] = scm.CurrentState
    BY <1>0, <1>2 DEF ToolStep, Begin, CallFails, ControlCall, ControlReturns, Poll, Query,
       StartReturns, Return, Goto, ToolTyping
  <2>4. ASSUME tpc'[t] = "idle", tjob'[t] = "stop", tres'[t] = "ok", tlife'[t] = lives
        PROVE  scm.CurrentState = "Stopped"
    <3>1. CASE Poll(t)
      BY <2>4, <3>1 DEF Poll, Reached, Return, Goto, To, ToolTyping
    <3>2. CASE ~Poll(t)
      BY <1>2, <2>4, <3>2 DEF ToolStep, Begin, CallFails, ControlCall, ControlReturns, Query,
         StartReturns, Return, Goto, ToolTyping
    <3>. QED BY <3>1, <3>2
  <2>5. ASSUME NEW u \in Tools, u # t
        PROVE  /\ tpc'[u] = tpc[u] /\ tjob'[u] = tjob[u] /\ tstatus'[u] = tstatus[u]
               /\ tres'[u] = tres[u] /\ tlife'[u] = tlife[u]
    BY <1>2, <2>5, OtherTools
  <2>. QED BY <2>1, <2>2, <2>3, <2>4, <2>5
<1>3. ASSUME NEW t \in Tools, StartCall(t) PROVE SeenInv' /\ StopMeansStopped'
  <2>1. /\ lives' = lives + 1 /\ tlife'[t] = lives' /\ tpc'[t] = "starting"
        /\ tjob'[t] = "start"
    BY <1>3 DEF StartCall, Goto, ToolTyping
  <2>2. ASSUME NEW u \in Tools, u # t
        PROVE  /\ tlife'[u] = tlife[u] /\ tlife'[u] < lives'
               /\ tpc'[u] = tpc[u] /\ tjob'[u] = tjob[u]
    BY <1>0, <1>3, <2>1, <2>2, OtherTools DEF ToolStep
  <2>. QED BY <1>0, <2>1, <2>2
<1>. QED BY <1>1, <1>2, <1>3 DEF MNext, allVars

\* Together the parts are inductive.
LEMMA Invariance == MSpec => []MInv
<1>1. MInit => MInv
  <2> SUFFICES ASSUME MInit PROVE MInv
    OBVIOUS
  <2>1. LInv
    BY LifeInit DEF MInit
  <2>2. ToolTyping
    BY ManageAssumption DEF MInit, ToolTyping, To, State
  <2>3. SeenInv /\ StopMeansStopped
    BY DEF MInit, SeenInv, StopMeansStopped
  <2>. QED BY <2>1, <2>2, <2>3 DEF MInv
<1>2. MInv /\ [MNext]_allVars => MInv'
  BY LivesInvariance, ToolTypingStep, SeenStep DEF MInv
<1>. QED BY <1>1, <1>2, PTL DEF MSpec

\* The types of service and tools hold for every number of tools, workers,
\* threads, jobs and lives.
THEOREM TypeCorrect == MSpec => []ToolTypeOK
<1>1. MInv => ToolTypeOK
  BY LifeProperties DEF MInv, ToolTyping, ToolTypeOK
<1>. QED BY <1>1, Invariance, PTL

\* A stop command of controlService that reports success has left the service
\* stopped until somebody starts it again, however many tools, and Windows
\* itself, send controls meanwhile.
THEOREM StopIsStopped == MSpec => []StopMeansStopped
<1>1. MInv => StopMeansStopped
  BY DEF MInv
<1>. QED BY <1>1, Invariance, PTL

\* close(shutdown) in Execute's worker is never called twice, whatever controls
\* are sent, for any number of workers and of seconds they work.
THEOREM ClosedOnce == MSpec => []ShutdownClosedOnce
<1>1. MInv => ShutdownClosedOnce
  BY LifeProperties DEF MInv
<1>. QED BY <1>1, Invariance, PTL

\* elog.Error in Execute's default case finds the log open, although runService
\* closes it as soon as Run returns, unless run() reported an error.
THEOREM LogIsOpen == MSpec => []LogOpenWhenUsed
<1>1. MInv => LogOpenWhenUsed
  BY DEF MInv, LInv
<1>. QED BY <1>1, Invariance, PTL

\* The ticker that Execute's loop listens to suits the state the SCM shows,
\* through every interleaving of Pause, Continue and Interrogate.
THEOREM TickIsShown == MSpec => []TickFollowsStatus
<1>1. MInv => TickFollowsStatus
  BY LifeProperties DEF MInv
<1>. QED BY <1>1, Invariance, PTL

\* Only a start takes the service out of Stopped: no late status of Execute or
\* of its worker, and no other command of a tool, does.
OnlyStartRevives ==
  [][scm.CurrentState = "Stopped" /\ scm'.CurrentState # "Stopped"
       => \E t \in Tools : StartCall(t)]_allVars

\* It holds in every life and for any number of tools.
THEOREM StoppedLasts == MSpec => OnlyStartRevives
<1>1. MInv /\ [MNext]_allVars =>
        [scm.CurrentState = "Stopped" /\ scm'.CurrentState # "Stopped"
           => \E t \in Tools : StartCall(t)]_allVars
  BY LifeOf, StoppedStays DEF MInv, vars, svcVars, scmVars
<1>. QED BY <1>1, Invariance, PTL DEF MSpec, OnlyStartRevives
===============================================================================
