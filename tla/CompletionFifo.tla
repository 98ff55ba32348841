-------------------------- MODULE CompletionFifo --------------------------
(***************************************************************************)
(* What a completion queue owes to the host: the completions posted are    *)
(* seen once each, in the order they were posted, and no more of them are  *)
(* in the queue than it has entries.  Module Completion implements this.   *)
(***************************************************************************)
EXTENDS Naturals, Sequences

CONSTANTS Req, QSize

VARIABLES
  fifo,       \* posted and not yet seen by the host
  posted,     \* the set of commands posted so far
  seen        \* what the host has seen, in order

fvars == <<fifo, posted, seen>>

Init == fifo = <<>> /\ posted = {} /\ seen = <<>>

Post(r) ==
  /\ r \notin posted /\ Len(fifo) < QSize
  /\ posted' = posted \union {r}
  /\ fifo' = Append(fifo, r)
  /\ UNCHANGED seen

See ==
  /\ fifo # <<>>
  /\ seen' = Append(seen, Head(fifo)) /\ fifo' = Tail(fifo)
  /\ UNCHANGED posted

Next == See \/ \E r \in Req : Post(r)

Spec == Init /\ [][Next]_fvars
=============================================================================
