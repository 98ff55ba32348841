--------------------------- MODULE PriorityQueue ---------------------------
(***************************************************************************)
(* What garbage collection expects of its victim queue: it holds a set of  *)
(* elements, and an element popped is one of least priority among those    *)
(* queued.  pqueue.c implements this (module PQueue).                      *)
(***************************************************************************)
EXTENDS Integers

CONSTANTS Elem, Pri

VARIABLES
  queue,      \* the queued elements
  prio        \* [Elem -> Pri]

Init == queue = {} /\ prio \in [Elem -> Pri]

Insert(x, p) ==
  /\ x \notin queue
  /\ queue' = queue \union {x}
  /\ prio' = [prio EXCEPT ![x] = p]

ChangePriority(x, p) ==
  /\ x \in queue
  /\ prio' = [prio EXCEPT ![x] = p]
  /\ UNCHANGED queue

Pop(x) ==
  /\ x \in queue
  /\ \A y \in queue : prio[x] <= prio[y]
  /\ queue' = queue \ {x}
  /\ UNCHANGED prio

Next ==
  \/ \E x \in Elem, p \in Pri : Insert(x, p) \/ ChangePriority(x, p)
  \/ \E x \in Elem : Pop(x)

Spec == Init /\ [][Next]_<<queue, prio>>
=============================================================================
