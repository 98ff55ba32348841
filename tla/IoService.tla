----------------------------- MODULE IoService -----------------------------
(***************************************************************************)
(* What the I/O path owes to a command: its data is copied once, and then  *)
(* it is completed once, not before its target time.  A command may be     *)
(* refused when the table of requests is almost full.  The request queues  *)
(* of io.c implement this (module IoQueue).                                *)
(***************************************************************************)
EXTENDS Integers

CONSTANTS Req, MaxTime

VARIABLES
  state,      \* [Req -> {"new", "accepted", "refused"}]
  target,     \* [Req -> Time], the time to complete at
  copies,     \* [Req -> number of times its data was copied]
  posts,      \* [Req -> number of times its completion was posted]
  now

svars == <<state, target, copies, posts, now>>

Init ==
  /\ state = [r \in Req |-> "new"]
  /\ target = [r \in Req |-> 0]
  /\ copies = [r \in Req |-> 0] /\ posts = [r \in Req |-> 0]
  /\ now = 0

Accept(r, t) ==
  /\ state[r] = "new"
  /\ state' = [state EXCEPT ![r] = "accepted"]
  /\ target' = [target EXCEPT ![r] = t]
  /\ UNCHANGED <<copies, posts, now>>

Refuse(r) ==
  /\ state[r] = "new"
  /\ state' = [state EXCEPT ![r] = "refused"]
  /\ UNCHANGED <<target, copies, posts, now>>

Copy(r) ==
  /\ state[r] = "accepted" /\ copies[r] = 0
  /\ copies' = [copies EXCEPT ![r] = 1]
  /\ UNCHANGED <<state, target, posts, now>>

Post(r) ==
  /\ copies[r] = 1 /\ posts[r] = 0 /\ target[r] <= now
  /\ posts' = [posts EXCEPT ![r] = 1]
  /\ UNCHANGED <<state, target, copies, now>>

Tick ==
  /\ now' = now + 1
  /\ UNCHANGED <<state, target, copies, posts>>

Next ==
  \/ \E r \in Req : Refuse(r) \/ Copy(r) \/ Post(r) \/ \E t \in 0 .. MaxTime : Accept(r, t)
  \/ Tick

Spec == Init /\ [][Next]_svars
=============================================================================
