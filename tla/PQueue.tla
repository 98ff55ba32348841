------------------------------- MODULE PQueue -------------------------------
(***************************************************************************)
(* The binary heap of pqueue.c as ftl.c uses it: the queue of victim lines *)
(* ordered by valid page count, least first (victim_line_cmp_pri), with    *)
(* the position of every element kept in the element itself.               *)
(*                                                                         *)
(* A step is one round of the loop of bubble_up or percolate_down, during  *)
(* which position i is a hole that moving_node will fill.                  *)
(***************************************************************************)
EXTENDS Integers, FiniteSets

CONSTANTS
  Elem,           \* the lines
  Pri,            \* their priorities
  n,              \* the size given to pqueue_init: tt_lines
  NULL

ASSUME ElemAssumption ==
  IsFiniteSet(Elem) /\ n \in Nat /\ Cardinality(Elem) <= n /\ NULL \notin Elem

ASSUME PriAssumption == Pri \subseteq Nat

VARIABLES
  d,              \* the array; slot 0 is not used
  size,           \* the first slot past the heap
  pri, pos,       \* line.vpc and line.pos
  pc, i, moving_node,
  head            \* the element pqueue_pop is about to return

vars == <<d, size, pri, pos, pc, i, moving_node, head>>

Init ==
  /\ d = [k \in 1 .. n |-> NULL] /\ size = 1
  /\ pri \in [Elem -> Pri] /\ pos = [x \in Elem |-> 0]
  /\ pc = "idle" /\ i = 0 /\ moving_node = NULL /\ head = NULL

left(k)   == 2 * k
parent(k) == k \div 2

(* victim_line_cmp_pri: a comes after b. *)
cmppri(a, b) == a > b

(* What is at position k once moving_node has filled the hole. *)
At(k)  == IF pc # "idle" /\ k = i THEN moving_node ELSE d[k]
Queued == {At(k) : k \in 1 .. size - 1}

bubble_up(k, x)      == pc' = "bubble_up" /\ i' = k /\ moving_node' = x
percolate_down(k, x) == pc' = "percolate_down" /\ i' = k /\ moving_node' = x

-----------------------------------------------------------------------------
(* Operations *)

(* A line enters the queue when it is used up or no longer full; module Ftl *)
(* shows that it is not queued then.                                        *)
pqueue_insert(x, p) ==
  /\ pc = "idle" /\ x \notin Queued
  /\ pri' = [pri EXCEPT ![x] = p]
  /\ size' = size + 1
  /\ d' = [d EXCEPT ![size] = x]
  /\ bubble_up(size, x)
  /\ UNCHANGED <<pos, head>>

(* Fault: the loops are swapped. *)
pqueue_change_prioritySwapped(x, p) ==
  /\ pc = "idle" /\ pos[x] # 0
  /\ pri' = [pri EXCEPT ![x] = p]
  /\ \/ ~cmppri(pri[x], p) /\ bubble_up(pos[x], x)
     \/ cmppri(pri[x], p) /\ percolate_down(pos[x], x)
  /\ UNCHANGED <<d, size, pos, head>>

(* mark_page_invalid takes a position other than 0 to mean "queued". *)
pqueue_change_priority(x, p) ==
  /\ pc = "idle" /\ pos[x] # 0
  /\ pri' = [pri EXCEPT ![x] = p]
  /\ \/ cmppri(pri[x], p) /\ bubble_up(pos[x], x)
     \/ ~cmppri(pri[x], p) /\ percolate_down(pos[x], x)
  /\ UNCHANGED <<d, size, pos, head>>

(* Fault: the size stays. *)
pqueue_popKeepsSize ==
  /\ pc = "idle" /\ size > 1
  /\ head' = d[1]
  /\ d' = [d EXCEPT ![1] = d[size - 1]]
  /\ percolate_down(1, d[size - 1])
  /\ UNCHANGED <<size, pri, pos>>

pqueue_pop ==
  /\ pc = "idle" /\ size > 1
  /\ head' = d[1]
  /\ size' = size - 1
  /\ d' = [d EXCEPT ![1] = d[size - 1]]
  /\ percolate_down(1, d[size - 1])
  /\ UNCHANGED <<pri, pos>>

-----------------------------------------------------------------------------
(* The loops *)

(* Node x moves to the hole at k. *)
Fill(k, x) ==
  /\ d' = [d EXCEPT ![k] = x]
  /\ pos' = [pos EXCEPT ![x] = k]

ParentIsLater == i > 1 /\ cmppri(pri[d[parent(i)]], pri[moving_node])

BubbleUp ==
  /\ pc = "bubble_up" /\ ParentIsLater
  /\ Fill(i, d[parent(i)])
  /\ i' = parent(i)
  /\ UNCHANGED <<size, pri, pc, moving_node, head>>

(* Fault: always the left child. *)
maxchildLeft(k) == IF left(k) >= size THEN 0 ELSE left(k)

(* The child that comes first, or 0. *)
maxchild(k) ==
  IF left(k) >= size THEN 0
  ELSE IF left(k) + 1 < size /\ cmppri(pri[d[left(k)]], pri[d[left(k) + 1]])
       THEN left(k) + 1
       ELSE left(k)

ChildIsFirst == maxchild(i) # 0 /\ cmppri(pri[moving_node], pri[d[maxchild(i)]])

PercolateDown ==
  /\ pc = "percolate_down" /\ ChildIsFirst
  /\ Fill(i, d[maxchild(i)])
  /\ i' = maxchild(i)
  /\ UNCHANGED <<size, pri, pc, moving_node, head>>

(* Fault: the caller of pqueue_pop does not reset the position. *)
SettleKeepsPos ==
  /\ Fill(i, moving_node)
  /\ pc' = "idle" /\ i' = 0 /\ moving_node' = NULL /\ head' = NULL
  /\ UNCHANGED <<size, pri>>

(* The end of both loops: the hole is filled.  After a pop the caller,     *)
(* select_victim_line, resets the position of what it popped.              *)
Settle ==
  /\ d' = [d EXCEPT ![i] = moving_node]
  /\ pos' = [x \in Elem |-> IF x = head THEN 0
                            ELSE IF x = moving_node THEN i ELSE pos[x]]
  /\ pc' = "idle" /\ i' = 0 /\ moving_node' = NULL /\ head' = NULL
  /\ UNCHANGED <<size, pri>>

LoopEnd ==
  /\ \/ pc = "bubble_up" /\ ~ParentIsLater
     \/ pc = "percolate_down" /\ ~ChildIsFirst
  /\ Settle

Next ==
  \/ \E x \in Elem, p \in Pri : pqueue_insert(x, p) \/ pqueue_change_priority(x, p)
  \/ pqueue_pop
  \/ BubbleUp \/ PercolateDown \/ LoopEnd

Spec == Init /\ [][Next]_vars

-----------------------------------------------------------------------------
(* Properties *)

(* Types; size is at most n + 1, that is, pqueue_insert never writes past  *)
(* the array it no longer grows (the realloc in it is commented out).      *)
TypeOK ==
  /\ d \in [1 .. n -> Elem \union {NULL}]
  /\ size \in 1 .. n + 1
  /\ pri \in [Elem -> Pri] /\ pos \in [Elem -> 0 .. n]
  /\ pc \in {"idle", "bubble_up", "percolate_down"}
  /\ i \in 0 .. n
  /\ moving_node \in Elem \union {NULL} /\ head \in Elem \union {NULL}

(* Between two operations no element comes before its parent (what         *)
(* pqueue_is_valid checks).                                                *)
HeapOrdered ==
  pc = "idle" =>
    \A k \in 2 .. size - 1 : ~cmppri(pri[d[parent(k)]], pri[d[k]])

(* The position in a line tells where it is in the queue, and 0 that it is *)
(* not there: mark_page_invalid and pqueue_change_priority rely on both.   *)
PosExact ==
  pc = "idle" =>
    /\ \A k \in 1 .. size - 1 : d[k] \in Elem /\ pos[d[k]] = k
    /\ \A x \in Elem : x \notin Queued => pos[x] = 0

(* The heap is a priority queue: a pop returns a line of least priority.   *)
Abstract == INSTANCE PriorityQueue WITH queue <- Queued, prio <- pri
PrioritySpec == Abstract!Spec
=============================================================================
