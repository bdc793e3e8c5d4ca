--------------------------- MODULE AbstractIocbPool ---------------------------
(***************************************************************************)
(* What the pool of iocb structures of an io_control promises to its       *)
(* clients, with none of the circular array: a set of free structures from *)
(* which one is taken and to which one of the taken is given back.         *)
(***************************************************************************)
CONSTANT Iocbs   \* the iocb structures allocated by newContext

VARIABLES
  free,   \* those that may be handed out
  held    \* those the clients own

Init == free = Iocbs /\ held = {}

\* A caller obtains a structure nobody else is using.
Take(x) == /\ x \in free
           /\ free' = free \ {x}
           /\ held' = held \cup {x}

\* A caller returns a structure it had taken.
GiveBack(x) == /\ x \in held
               /\ free' = free \cup {x}
               /\ held' = held \ {x}

Next == \E x \in Iocbs : Take(x) \/ GiveBack(x)

Spec == Init /\ [][Next]_<<free, held>>
===============================================================================
