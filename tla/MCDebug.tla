-------------------------------- MODULE MCDebug --------------------------------
(***************************************************************************)
(* A small instance of DebugService for TLC.                               *)
(***************************************************************************)
EXTENDS DebugService

MCReports == {[State |-> "StartPending", Accepts |-> {}, CheckPoint |-> 0],
              [State |-> "Running", Accepts |-> {"AcceptStop"}, CheckPoint |-> 0],
              [State |-> "StopPending", Accepts |-> {}, CheckPoint |-> 1]}
MCExitCodes == {[isSvcSpecific |-> FALSE, errno |-> 0],
                [isSvcSpecific |-> FALSE, errno |-> 5]}
===============================================================================
