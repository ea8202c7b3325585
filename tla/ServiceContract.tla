--------------------------- MODULE ServiceContract ----------------------------
(***************************************************************************)
(* What svc.Run promises to the SCM and to the handler, without threads,   *)
(* events, channels and callbacks: one life of a service.                  *)
(*                                                                         *)
(* Controls pass through a mailbox that holds one command.  A command is   *)
(* handed over together with a status that the SCM is showing at that      *)
(* moment.  When the service is over nothing is published or handed over   *)
(* any more, and the SCM is told Stopped, at most once.                    *)
(***************************************************************************)
EXTENDS SvcTypes, Sequences

CONSTANT Publishable     \* the statuses a handler publishes

VARIABLES
  phase,     \* "starting", "serving", "over", "reported"
  shown,     \* what the SCM shows
  mailbox,   \* the command waiting for the handler
  request    \* the last ChangeRequest handed to the handler

cvars == <<phase, shown, mailbox, request>>

CInit ==
  /\ phase = "starting"
  /\ shown = ServiceStatus(BareStatus("StartPending"), NoExit)
  /\ mailbox = <<>>
  /\ request = [Cmd |-> "None", CurrentStatus |-> BareStatus("Stopped")]

Serve ==
  /\ phase = "starting" /\ phase' = "serving"
  /\ UNCHANGED <<shown, mailbox, request>>

\* The process dies before Execute is called.
Die ==
  /\ phase = "starting" /\ phase' = "reported"
  /\ shown'.CurrentState = "Stopped" /\ shown'.Win32ExitCode # 0
  /\ UNCHANGED <<mailbox, request>>

Publish ==
  /\ phase = "serving"
  /\ \E st \in Publishable : shown' = ServiceStatus(st, NoExit)
  /\ UNCHANGED <<phase, mailbox, request>>

Post ==
  /\ phase = "serving" /\ mailbox = <<>>
  /\ \E c \in Cmd : mailbox' = <<c>>
  /\ UNCHANGED <<phase, shown, request>>

Hand ==
  /\ phase = "serving" /\ mailbox # <<>>
  /\ mailbox' = <<>>
  /\ request'.Cmd = Head(mailbox)
  /\ request'.CurrentStatus \in Publishable
  /\ shown = ServiceStatus(request'.CurrentStatus, NoExit)
  /\ UNCHANGED <<phase, shown>>

\* Execute returned, or run() gave up.
End ==
  /\ phase = "serving" /\ phase' = "over"
  /\ UNCHANGED <<shown, mailbox, request>>

\* The SCM learns Stopped, unless that call fails.
Report ==
  /\ phase = "over" /\ phase' = "reported"
  /\ shown'.CurrentState = "Stopped" \/ shown' = shown
  /\ UNCHANGED <<mailbox, request>>

CNext == Serve \/ Die \/ Publish \/ Post \/ Hand \/ End \/ Report

CSpec == CInit /\ [][CNext]_cvars
===============================================================================
