-------------------------- MODULE AbstractEventQueue --------------------------
(***************************************************************************)
(* What the completion ring promises to the code that polls: a first-in    *)
(* first-out queue of events from which a batch is taken from the front.   *)
(***************************************************************************)
EXTENDS Integers, Sequences

CONSTANT Event   \* the events a kernel can post

VARIABLES
  queue,   \* events that are complete and not yet read
  batch    \* the events the last read returned

Init == queue = <<>> /\ batch = <<>>

\* The kernel completes a request.
Post == \E e \in Event : queue' = Append(queue, e) /\ UNCHANGED batch

\* A read returns the n oldest events.
Take(n) ==
  /\ batch' = SubSeq(queue, 1, n)
  /\ queue' = SubSeq(queue, n + 1, Len(queue))

Next == Post \/ \E n \in 0 .. Len(queue) : Take(n)

Spec == Init /\ [][Next]_<<queue, batch>>
===============================================================================
