--------------------------------- MODULE MCMgr ---------------------------------
(***************************************************************************)
(* Small instances of Mgr for TLC: a service that was given everything and *)
(* one that was given nothing; edits of every kind of setting, among them  *)
(* an emptied string and strings that outgrow the first buffer.            *)
(***************************************************************************)
EXTENDS Mgr

MCConfigs == {Zero, [[f \in Fields |-> 1] EXCEPT !.StartType = 4],
              [Zero EXCEPT !.ErrorControl = 2]}

MCEdits == {<<"StartType", 4>>, <<"ErrorControl", 0>>, <<"Description", 0>>,
            <<"Description", 2>>, <<"LoadOrderGroup", 2>>, <<"LoadOrderGroup", 3>>}
===============================================================================
