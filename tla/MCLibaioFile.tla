------------------------------ MODULE MCLibaioFile ------------------------------
(***************************************************************************)
(* An instance of LibaioFile for TLC: two objects open the same file and   *)
(* compete for its lock, a third one opens another.  A write goes to each  *)
(* file; it has the name of the object it is submitted through.            *)
(***************************************************************************)
EXTENDS LibaioFile, TLC

CONSTANTS h1, h2, h3, file, other

MCPathOf == h1 :> file @@ h2 :> file @@ h3 :> other
MCHandleOf == [r \in Requests |-> r]
===============================================================================
