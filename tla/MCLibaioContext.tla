---------------------------- MODULE MCLibaioContext ----------------------------
(***************************************************************************)
(* Instances of LibaioContext for TLC: requests 1 and 2 go to one file and *)
(* request 3 to another.                                                   *)
(***************************************************************************)
EXTENDS LibaioContext

MCFileOf == [r \in Requests |-> IF r < 3 THEN "f1" ELSE "f2"]
===============================================================================
