------------------------------ MODULE MCService -------------------------------
(***************************************************************************)
(* Small instances of Service for TLC.                                     *)
(***************************************************************************)
EXTENDS Service

MCReports ==
  {[State |-> "StartPending", Accepts |-> {}, CheckPoint |-> 0],
   [State |-> "Running", Accepts |-> {"AcceptStop", "AcceptPreShutdown", "AcceptOther"},
    CheckPoint |-> 0],
   [State |-> "StopPending", Accepts |-> {}, CheckPoint |-> 1]}
MCExitCodes == {[isSvcSpecific |-> FALSE, errno |-> 0],
                [isSvcSpecific |-> FALSE, errno |-> 5],
                [isSvcSpecific |-> TRUE, errno |-> 7]}
===============================================================================
