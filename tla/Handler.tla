------------------------------- MODULE Handler --------------------------------
(***************************************************************************)
(* A svc.Handler as the package documents it: the goroutine that calls     *)
(* Execute.  It computes, sends any status of Reports or the status it was *)
(* handed (what the example does to answer Interrogate), waits on r        *)
(* (possibly in a select that a timer ends), and returns an exit code.     *)
(*                                                                         *)
(* HSpawn, HSent, HReceive and HExit are the handler's halves of the       *)
(* channel operations; the composing module conjoins them with the halves  *)
(* of whoever is at the other end.                                         *)
(***************************************************************************)
EXTENDS SvcTypes

CONSTANTS
  Reports,     \* the statuses the handler sends on its own account
  ExitCodes    \* what Execute may return

\* A handler leaves it to the package to report Stopped.
ASSUME HandlerAssumption ==
  /\ Reports \subseteq Status
  /\ \A st \in Reports : st.State # "Stopped"
  /\ ExitCodes \subseteq exitCode

VARIABLES
  hpc,    \* "off", "run", "recv" (on r), "send" (on s), "exit", "done"
  hst,    \* the Status being sent
  hreq,   \* the last ChangeRequest received
  hret    \* what Execute returned

hVars == <<hpc, hst, hreq, hret>>

NoReq == [Cmd |-> "None", CurrentStatus |-> BareStatus("Stopped")]

HTypeOK ==
  /\ hpc \in {"off", "run", "recv", "send", "exit", "done"}
  /\ hst \in Status
  /\ hreq \in ChangeRequest
  /\ hret \in exitCode

HInit ==
  /\ hpc = "off"
  /\ hst = BareStatus("Stopped") /\ hreq = NoReq /\ hret = NoExit

HSpawn == hpc = "off" /\ hpc' = "run" /\ UNCHANGED <<hst, hreq, hret>>

\* s <- st: the handler blocks until st is received (HSent).
HSend ==
  /\ hpc = "run" /\ hpc' = "send"
  /\ \/ hst' \in Reports
     \/ hreq # NoReq /\ hst' = hreq.CurrentStatus
  /\ UNCHANGED <<hreq, hret>>

HSent(c) == hpc = "send" /\ c = hst /\ hpc' = "run" /\ UNCHANGED <<hst, hreq, hret>>

\* <-r, alone or in a select: the handler blocks until it is handed a
\* request (HReceive) or something else ends the select (HOther).
HWait == hpc = "run" /\ hpc' = "recv" /\ UNCHANGED <<hst, hreq, hret>>

HOther == hpc = "recv" /\ hpc' = "run" /\ UNCHANGED <<hst, hreq, hret>>

HReceive(req) ==
  /\ hpc = "recv" /\ hpc' = "run"
  /\ hreq' = req
  /\ UNCHANGED <<hst, hret>>

\* Execute returns; the goroutine blocks on exitFromHandler (HExit).
HReturn ==
  /\ hpc = "run" /\ hpc' = "exit"
  /\ hret' \in ExitCodes
  /\ UNCHANGED <<hst, hreq>>

HExit(x) == hpc = "exit" /\ x = hret /\ hpc' = "done" /\ UNCHANGED <<hst, hreq, hret>>

===============================================================================
