------------------------------- MODULE MCManage --------------------------------
(***************************************************************************)
(* Manage for TLC: the tools are interchangeable, and so are the workers.  *)
(***************************************************************************)
EXTENDS Manage, TLC

Interchangeable == Permutations(Tools) \cup Permutations(Workers)
===============================================================================
