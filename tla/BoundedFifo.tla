------------------------------ MODULE BoundedFifo ------------------------------
(***************************************************************************)
(* What CallbackCache promises: a first-in first-out store of at most size *)
(* objects that gives nothing when empty and forgets what does not fit.    *)
(***************************************************************************)
EXTENDS Integers, Sequences

CONSTANTS Callbacks, size, Null

VARIABLES
  queue,    \* the objects in the store
  result    \* what the last get returned

Init == queue = <<>> /\ result = Null

Offer(cb) ==
  /\ queue' = IF Len(queue) < size THEN Append(queue, cb) ELSE queue
  /\ UNCHANGED result

Poll ==
  \/ queue = <<>> /\ result' = Null /\ UNCHANGED queue
  \/ queue # <<>> /\ result' = Head(queue) /\ queue' = Tail(queue)

Next == Poll \/ \E cb \in Callbacks : Offer(cb)

Spec == Init /\ [][Next]_<<queue, result>>
===============================================================================
