------------------------------- MODULE MCAioRing -------------------------------
(***************************************************************************)
(* Instances of AioRing for TLC: the calls of blockedPoll, of deleteContext *)
(* and of poll(callbacks, min, max).                                       *)
(***************************************************************************)
EXTENDS AioRing

BlockedPoll == [min |-> 1, max |-> QueueSize]
DeleteContext == [min |-> 0, max |-> 1]
PollArray == [min : 0 .. 2, max : {2, 5}]

MCAllCalls == {BlockedPoll, DeleteContext} \cup PollArray
===============================================================================
