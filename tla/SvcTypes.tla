------------------------------- MODULE SvcTypes -------------------------------
(***************************************************************************)
(* The values package svc passes around: service states, control commands, *)
(* accepted-control flags, Status, ChangeRequest and exitCode, and the     *)
(* translation of a Status into the SERVICE_STATUS that SetServiceStatus   *)
(* hands to the service control manager (SCM).                             *)
(*                                                                         *)
(* WaitHint is left out: it is copied from a Status to SERVICE_STATUS and  *)
(* no decision depends on it.                                              *)
(***************************************************************************)
EXTENDS Integers

State == {"Stopped", "StartPending", "StopPending", "Running",
          "ContinuePending", "PausePending", "Paused"}

\* The six commands svc names.  "UserDefined" stands for the control codes from
\* 128 to 255, which reach a handler as Cmd(ctl) too.
Cmd == {"Stop", "Pause", "Continue", "Interrogate", "Shutdown", "PreShutdown",
        "UserDefined"}

\* The four flags svc knows. "AcceptOther" stands for every other bit a
\* handler may set in the uint32 Accepted.
KnownFlags == {"AcceptStop", "AcceptShutdown", "AcceptPreShutdown",
               "AcceptPauseAndContinue"}
Accepted == KnownFlags \cup {"AcceptOther"}

Status == [State : State, Accepts : SUBSET Accepted, CheckPoint : Nat]

ChangeRequest == [Cmd : Cmd \cup {"None"}, CurrentStatus : Status]

exitCode == [isSvcSpecific : BOOLEAN, errno : Nat]

SERVICE_STATUS == [CurrentState : State, ControlsAccepted : SUBSET KnownFlags,
                   Win32ExitCode : Nat, ServiceSpecificExitCode : Nat,
                   CheckPoint : Nat]

\* Seeded defect: the field State is left out of the literal.
BareStatus_NoState(s) == [State |-> "0", Accepts |-> {}, CheckPoint |-> 0]

\* Status{State: s}: no control accepted, checkpoint 0.
BareStatus(s) == [State |-> s, Accepts |-> {}, CheckPoint |-> 0]

NO_ERROR == 0
ERROR_SERVICE_SPECIFIC_ERROR == 1066
APPLICATION_ERROR == 536870912      \* 1 << 29
sysErrSetServiceStatusFailed == APPLICATION_ERROR
sysErrNewThreadInCallback == APPLICATION_ERROR + 1

\* What run() starts with: ec := exitCode{isSvcSpecific: true, errno: 0}.
NoExit == [isSvcSpecific |-> TRUE, errno |-> NO_ERROR]

\* Seeded defect: the errno is passed on without regard to isSvcSpecific.
Win32ExitCode_Raw(ec) == ec.errno

Win32ExitCode(ec) ==
  IF ec.errno = 0 THEN NO_ERROR
  ELSE IF ec.isSvcSpecific THEN ERROR_SERVICE_SPECIFIC_ERROR
  ELSE ec.errno

ServiceSpecificExitCode(ec) ==
  IF ec.errno # 0 /\ ec.isSvcSpecific THEN ec.errno ELSE NO_ERROR

\* The SERVICE_STATUS that updateStatus builds from a Status and an exitCode:
\* flags other than the four known ones are dropped.
ServiceStatus(st, ec) ==
  [CurrentState            |-> st.State,
   ControlsAccepted        |-> st.Accepts \cap KnownFlags,
   Win32ExitCode           |-> Win32ExitCode(ec),
   ServiceSpecificExitCode |-> ServiceSpecificExitCode(ec),
   CheckPoint              |-> st.CheckPoint]

===============================================================================
