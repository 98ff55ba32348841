---------------------------- MODULE PQueueProofs ----------------------------
(* Theorems about the heap of pqueue.c, for every number of lines and every *)
(* set of priorities: it never leaves its array, stays ordered, knows where *)
(* its elements are, and pops a line of least priority.                     *)
EXTENDS PQueue, TLAPS, FiniteSetTheorems, WellFoundedInduction

-----------------------------------------------------------------------------
(* The inductive invariant *)

(* Which elements are queued and where they are, the hole included. *)
Placed ==
  /\ \A k \in 1 .. size - 1 : At(k) \in Elem
  /\ \A j, k \in 1 .. size - 1 : j # k => At(j) # At(k)
  /\ \A k \in 1 .. size - 1 : (pc # "idle" /\ k = i) \/ pos[At(k)] = k
  /\ \A x \in Elem : x = head \/ pos[x] = 0 \/ \E k \in 1 .. size - 1 : At(k) = x
  /\ \A k \in 1 .. size - 1 : At(k) # head
  /\ pc = "idle" => head = NULL
  /\ pc # "idle" => moving_node \in Elem
  /\ pc # "idle" => i \in 1 .. size - 1 \/ (size = 1 /\ i = 1 /\ head = moving_node)

P(k) == pri[At(k)]

(* The order of the heap, with the edges that the loop has yet to mend left *)
(* out: the one above the hole in bubble_up, those below it in              *)
(* percolate_down; across the hole the order holds in both.                 *)
Ordered ==
  /\ \A k \in 2 .. size - 1 :
       \/ pc = "bubble_up" /\ k = i
       \/ pc = "percolate_down" /\ parent(k) = i
       \/ P(parent(k)) <= P(k)
  /\ pc # "idle" =>
       \A k \in 2 .. size - 1 : parent(k) = i /\ i > 1 => P(parent(i)) <= P(k)

HeapInv == TypeOK /\ Placed /\ Ordered

-----------------------------------------------------------------------------
(* Arithmetic of the tree *)

LEMMA Tree ==
  /\ \A k \in Nat : parent(k) \in Nat /\ (k >= 1 => parent(k) < k) /\ (k >= 2 => parent(k) >= 1)
  /\ \A k, j \in Nat : parent(k) = j <=> k = left(j) \/ k = left(j) + 1
  BY DEF parent, left

(* A heap of distinct elements has room for one that is not in it.          *)
LEMMA Room ==
  ASSUME TypeOK, Placed, pc = "idle", NEW x \in Elem, x \notin Queued
  PROVE  size <= n
  <1>1. size \in Nat /\ \A k \in 1 .. size - 1 : At(k) \in Elem /\ At(k) # x
    BY ElemAssumption DEF TypeOK, Placed, Queued
  <1> DEFINE f == [k \in 1 .. size |-> IF k = size THEN x ELSE At(k)]
  <1>2. f \in Injection(1 .. size, Elem)
    <2>1. f \in [1 .. size -> Elem]
      BY <1>1
    <2>2. \A j, k \in 1 .. size : f[j] = f[k] => j = k
      <3> SUFFICES ASSUME NEW j \in 1 .. size, NEW k \in 1 .. size, j # k PROVE f[j] # f[k]
        OBVIOUS
      <3>1. j \in 1 .. size - 1 /\ k \in 1 .. size - 1 => At(j) # At(k)
        BY DEF Placed
      <3> QED
        BY <1>1, <3>1
    <2> QED
      BY <2>1, <2>2 DEF Injection, IsInjective
  <1>3. Cardinality(1 .. size) <= Cardinality(Elem)
    BY <1>2, ElemAssumption, FS_Injection
  <1>4. Cardinality(1 .. size) = size
    BY <1>1, FS_Interval
  <1>5. Cardinality(Elem) \in Nat
    BY ElemAssumption, FS_CardinalityType
  <1> QED
    BY <1>1, <1>3, <1>4, <1>5, ElemAssumption

-----------------------------------------------------------------------------
(* Operations *)

LEMMA HeapInit == Init => HeapInv
  <1> SUFFICES ASSUME Init PROVE HeapInv
    OBVIOUS
  <1>1. TypeOK
    BY ElemAssumption DEF Init, TypeOK
  <1>2. Placed /\ Ordered
    BY DEF Init, Placed, Ordered
  <1> QED
    BY <1>1, <1>2 DEF HeapInv

LEMMA InsertInv ==
  ASSUME HeapInv, NEW x \in Elem, NEW p \in Pri, pqueue_insert(x, p)
  PROVE  HeapInv'
  <1>1. /\ TypeOK /\ Placed /\ Ordered
        /\ pc = "idle" /\ x \notin Queued /\ head = NULL
        /\ pri' = [pri EXCEPT ![x] = p] /\ size' = size + 1
        /\ d' = [d EXCEPT ![size] = x]
        /\ pc' = "bubble_up" /\ i' = size /\ moving_node' = x /\ pos' = pos /\ head' = head
    BY DEF HeapInv, Placed, pqueue_insert, bubble_up
  <1>2. size <= n /\ size \in 1 .. n /\ n \in Nat
    BY <1>1, Room, ElemAssumption DEF TypeOK
  <1>3. TypeOK'
    BY <1>1, <1>2 DEF TypeOK
  <1>4. /\ \A k \in 1 .. size : k = size => At(k)' = x
        /\ \A k \in 1 .. size - 1 : At(k)' = At(k) /\ At(k) \in Elem /\ At(k) # x
    BY <1>1, <1>2 DEF At, Placed, Queued, TypeOK
  <1>5. Placed'
    <2>1. \A k \in 1 .. size : k = size \/ k \in 1 .. size - 1
      BY <1>2
    <2>2. x # head /\ size \in 1 .. size'- 1
      BY <1>1, <1>2, ElemAssumption
    <2>3. \A k \in 1 .. size' - 1 : At(k)' \in Elem
      BY <1>1, <1>2, <1>4, <2>1
    <2>4. \A j, k \in 1 .. size' - 1 : j # k => At(j)' # At(k)'
      <3>1. \A j, k \in 1 .. size - 1 : j # k => At(j) # At(k)
        BY <1>1 DEF Placed
      <3> QED
        BY <1>1, <1>2, <1>4, <2>1, <3>1
    <2>5. \A k \in 1 .. size' - 1 : k = i' \/ pos'[At(k)'] = k
      <3>1. \A k \in 1 .. size - 1 : pos[At(k)] = k
        BY <1>1 DEF Placed
      <3> QED
        BY <1>1, <1>2, <1>4, <2>1, <3>1
    <2>6. \A y \in Elem : y = head' \/ pos'[y] = 0 \/ \E k \in 1 .. size' - 1 : At(k)' = y
      <3>1. \A y \in Elem : y = head \/ pos[y] = 0 \/ \E k \in 1 .. size - 1 : At(k) = y
        BY <1>1 DEF Placed
      <3> QED
        BY <1>1, <1>2, <1>4, <3>1
    <2>7. \A k \in 1 .. size' - 1 : At(k)' # head'
      BY <1>1, <2>3, ElemAssumption
    <2> QED
      BY <1>1, <2>2, <2>3, <2>4, <2>5, <2>6, <2>7 DEF Placed
  <1>6. Ordered'
    <2>1. \A k \in 1 .. size - 1 : P(k)' = P(k)
      BY <1>1, <1>4 DEF P, TypeOK
    <2>2. \A k \in 2 .. size : k = size \/ (k \in 2 .. size - 1 /\ parent(k) \in 1 .. size - 1)
      BY <1>2, Tree
    <2>3. \A k \in 2 .. size : parent(k) # size
      BY <1>2, Tree
    <2> QED
      BY <1>1, <1>2, <2>1, <2>2, <2>3 DEF Ordered
  <1> QED
    BY <1>3, <1>5, <1>6 DEF HeapInv

LEMMA ChangeInv ==
  ASSUME HeapInv, NEW x \in Elem, NEW p \in Pri, pqueue_change_priority(x, p)
  PROVE  HeapInv'
  <1>1. /\ TypeOK /\ Placed /\ Ordered
        /\ pc = "idle" /\ pos[x] # 0 /\ head = NULL /\ pri[x] \in Nat /\ p \in Nat
        /\ pri' = [pri EXCEPT ![x] = p] /\ size' = size /\ d' = d /\ pos' = pos /\ head' = head
        /\ i' = pos[x] /\ moving_node' = x
        /\ \/ pc' = "bubble_up" /\ pri[x] > p
           \/ pc' = "percolate_down" /\ ~(pri[x] > p)
    BY PriAssumption DEF HeapInv, Placed, TypeOK, pqueue_change_priority, bubble_up,
                         percolate_down, cmppri
  <1>2. size \in 1 .. n + 1 /\ n \in Nat
    BY <1>1, ElemAssumption DEF TypeOK
  <1>3. PICK h \in 1 .. size - 1 : At(h) = x
    BY <1>1, ElemAssumption DEF Placed
  <1>4. pos[x] = h /\ d[h] = x /\ h \in 1 .. n /\ i' = h
    BY <1>1, <1>2, <1>3 DEF Placed, At
  <1>5. TypeOK'
    BY <1>1, <1>2, <1>4 DEF TypeOK
  <1>6. \A k \in 1 .. size - 1 : At(k)' = At(k)
    BY <1>1, <1>4 DEF At
  <1>7. Placed'
    <2>1. \A k \in 1 .. size' - 1 : (pc' # "idle" /\ k = i') \/ pos'[At(k)'] = k
      BY <1>1, <1>6 DEF Placed
    <2>2. \A y \in Elem : y = head' \/ pos'[y] = 0 \/ \E k \in 1 .. size' - 1 : At(k)' = y
      <3>1. \A y \in Elem : y = head \/ pos[y] = 0 \/ \E k \in 1 .. size - 1 : At(k) = y
        BY <1>1 DEF Placed
      <3> QED
        BY <1>1, <1>6, <3>1
    <2> QED
      BY <1>1, <1>4, <1>6, <2>1, <2>2 DEF Placed
  <1>8. Ordered'
    <2>1. \A k \in 1 .. size - 1 : P(k)' = IF k = h THEN p ELSE P(k)
      BY <1>1, <1>3, <1>6 DEF P, TypeOK, Placed
    <2>2. \A k \in 1 .. size - 1 : P(k) \in Nat
      BY <1>1, PriAssumption DEF P, TypeOK, Placed
    <2>3. \A k \in 2 .. size - 1 : parent(k) \in 1 .. size - 1 /\ parent(k) # k
      BY <1>2, Tree
    <2>4. \A k \in 2 .. size - 1 : P(parent(k)) <= P(k)
      BY <1>1 DEF Ordered
    <2>5. P(h) = pri[x]
      BY <1>3 DEF P
    <2>6. \A k \in 2 .. size - 1 :
            \/ pc' = "bubble_up" /\ k = h
            \/ pc' = "percolate_down" /\ parent(k) = h
            \/ P(parent(k))' <= P(k)'
      <3> SUFFICES ASSUME NEW k \in 2 .. size - 1,
                          ~(pc' = "bubble_up" /\ k = h),
                          ~(pc' = "percolate_down" /\ parent(k) = h)
                   PROVE  P(parent(k))' <= P(k)'
        OBVIOUS
      <3> DEFINE j == parent(k)
      <3>1. j \in 1 .. size - 1 /\ j # k /\ k \in 1 .. size - 1 /\ P(j) <= P(k)
            /\ P(j) \in Nat /\ P(k) \in Nat
        BY <2>2, <2>3, <2>4
      <3>2. P(j)' = (IF j = h THEN p ELSE P(j)) /\ P(k)' = (IF k = h THEN p ELSE P(k))
        BY <2>1, <3>1 DEF parent
      <3> QED
        BY <1>1, <2>5, <3>1, <3>2
    <2>7. \A k \in 2 .. size - 1 : parent(k) = h /\ h > 1 => P(parent(h))' <= P(k)'
      <3> SUFFICES ASSUME NEW k \in 2 .. size - 1, parent(k) = h, h > 1
                   PROVE  P(parent(h))' <= P(k)'
        OBVIOUS
      <3> DEFINE j == parent(h)
      <3>1. j \in 1 .. size - 1 /\ j # h /\ k # h /\ k \in 1 .. size - 1
            /\ P(j) <= P(h) /\ P(h) <= P(k) /\ P(j) \in Nat /\ P(k) \in Nat /\ P(h) \in Nat
        BY <2>2, <2>3, <2>4
      <3>2. P(j)' = P(j) /\ P(k)' = P(k)
        BY <2>1, <3>1 DEF parent
      <3> QED
        BY <3>1, <3>2
    <2> QED
      BY <1>1, <1>4, <2>6, <2>7 DEF Ordered, parent
  <1> QED
    BY <1>5, <1>7, <1>8 DEF HeapInv

LEMMA PopInv ==
  ASSUME HeapInv, pqueue_pop
  PROVE  HeapInv'
  <1>1. /\ TypeOK /\ Placed /\ Ordered
        /\ pc = "idle" /\ size > 1 /\ head = NULL
        /\ pri' = pri /\ size' = size - 1 /\ pos' = pos
        /\ d' = [d EXCEPT ![1] = d[size - 1]]
        /\ pc' = "percolate_down" /\ i' = 1 /\ moving_node' = d[size - 1] /\ head' = d[1]
    BY DEF HeapInv, Placed, pqueue_pop, percolate_down
  <1>2. size \in 2 .. n + 1 /\ n \in Nat /\ d[1] = At(1) /\ d[size - 1] = At(size - 1)
        /\ At(1) \in Elem /\ At(size - 1) \in Elem
    BY <1>1, ElemAssumption DEF TypeOK, At, Placed
  <1>3. TypeOK'
    BY <1>1, <1>2 DEF TypeOK
  <1>4. \A k \in 1 .. size - 2 : At(k)' = IF k = 1 THEN At(size - 1) ELSE At(k)
    BY <1>1, <1>2 DEF At
  <1>5. Placed'
    <2>1. \A j, k \in 1 .. size - 1 : At(k) \in Elem /\ (j # k => At(j) # At(k))
      BY <1>1 DEF Placed
    <2>2. \A k \in 1 .. size - 2 : k \in 1 .. size - 1 /\ k # size - 1
      BY <1>2
    <2>3. \A j, k \in 1 .. size' - 1 : At(k)' \in Elem /\ (j # k => At(j)' # At(k)')
      BY <1>1, <1>2, <1>4, <2>1, <2>2
    <2>4. \A k \in 1 .. size' - 1 : (pc' # "idle" /\ k = i') \/ pos'[At(k)'] = k
      <3>1. \A k \in 1 .. size - 1 : pos[At(k)] = k
        BY <1>1 DEF Placed
      <3> QED
        BY <1>1, <1>2, <1>4, <2>2, <3>1
    <2>5. \A y \in Elem : y = head' \/ pos'[y] = 0 \/ \E k \in 1 .. size' - 1 : At(k)' = y
      <3> SUFFICES ASSUME NEW y \in Elem, y # At(1), NEW k \in 1 .. size - 1, At(k) = y
                   PROVE  \E j \in 1 .. size - 2 : At(j)' = y
        BY <1>1, <1>2, ElemAssumption DEF Placed
      <3>1. CASE k = size - 1
        BY <1>2, <1>4, <3>1
      <3>2. CASE k # size - 1
        BY <1>2, <1>4, <3>2
      <3> QED
        BY <3>1, <3>2
    <2>6. \A k \in 1 .. size' - 1 : At(k)' # head'
      BY <1>1, <1>2, <1>4, <2>1, <2>2
    <2>7. i' \in 1 .. size' - 1 \/ (size' = 1 /\ i' = 1 /\ head' = moving_node')
      BY <1>1, <1>2
    <2> QED
      BY <1>1, <1>2, <2>3, <2>4, <2>5, <2>6, <2>7 DEF Placed
  <1>6. Ordered'
    <2>1. \A k \in 2 .. size - 2 : P(k)' = P(k)
      BY <1>1, <1>4 DEF P
    <2>2. \A k \in 2 .. size - 2 : k \in 2 .. size - 1 /\ (parent(k) = 1 \/ parent(k) \in 2 .. size - 2)
      BY <1>2, Tree
    <2> QED
      BY <1>1, <1>2, <2>1, <2>2 DEF Ordered
  <1> QED
    BY <1>3, <1>5, <1>6 DEF HeapInv

-----------------------------------------------------------------------------
(* The loops *)

(* A round of a loop exchanges the hole with the node at j.                 *)
LEMMA RoundPlaced ==
  ASSUME HeapInv, pc # "idle", i \in 1 .. size - 1,
         NEW j \in 1 .. size - 1, j # i, Fill(i, d[j]), i' = j,
         UNCHANGED <<size, pri, pc, moving_node, head>>
  PROVE  /\ TypeOK' /\ Placed'
         /\ P(i) = pri[moving_node]
         /\ \A k \in 1 .. size - 1 :
              /\ P(k) \in Nat
              /\ P(k)' = IF k = i THEN P(j) ELSE IF k = j THEN P(i) ELSE P(k)
  <1>1. /\ TypeOK /\ Placed /\ moving_node \in Elem /\ moving_node = At(i)
        /\ d' = [d EXCEPT ![i] = d[j]] /\ pos' = [pos EXCEPT ![d[j]] = i] /\ d[j] = At(j)
        /\ At(j) \in Elem
    BY DEF HeapInv, Placed, Fill, At
  <1>2. size \in 1 .. n + 1 /\ n \in Nat /\ i \in 1 .. n /\ j \in 1 .. n
    BY <1>1, ElemAssumption DEF TypeOK
  <1>3. TypeOK'
    BY <1>1, <1>2 DEF TypeOK
  <1>4. \A k \in 1 .. size - 1 :
          At(k)' = IF k = i THEN At(j) ELSE IF k = j THEN At(i) ELSE At(k)
    BY <1>1, <1>2 DEF At, TypeOK
  <1>5. Placed'
    <2>1. \A k \in 1 .. size - 1 : At(k)' \in Elem
      BY <1>1, <1>4 DEF Placed
    <2>2. \A a, b \in 1 .. size - 1 : a # b => At(a)' # At(b)'
      <3>1. \A a, b \in 1 .. size - 1 : a # b => At(a) # At(b)
        BY <1>1 DEF Placed
      <3> QED
        BY <1>4, <3>1
    <2>3. \A k \in 1 .. size - 1 : k = j \/ pos'[At(k)'] = k
      <3> SUFFICES ASSUME NEW k \in 1 .. size - 1, k # j
                   PROVE  pos'[At(k)'] = k
        OBVIOUS
      <3>1. CASE k = i
        BY <1>1, <1>4, <3>1 DEF TypeOK
      <3>2. CASE k # i
        <4>1. At(k)' = At(k) /\ At(k) # At(j) /\ pos[At(k)] = k
          BY <1>1, <1>4, <3>2 DEF Placed
        <4> QED
          BY <1>1, <4>1 DEF TypeOK
      <3> QED
        BY <3>1, <3>2
    <2>4. \A y \in Elem : y = head \/ pos'[y] = 0 \/ \E k \in 1 .. size - 1 : At(k)' = y
      <3> SUFFICES ASSUME NEW y \in Elem, y # head, pos'[y] # 0
                   PROVE  \E k \in 1 .. size - 1 : At(k)' = y
        OBVIOUS
      <3>1. CASE y = At(j)
        BY <1>4, <3>1
      <3>2. CASE y # At(j)
        <4>1. pos[y] # 0
          BY <1>1, <3>2 DEF TypeOK
        <4>2. PICK k \in 1 .. size - 1 : At(k) = y
          BY <1>1, <4>1 DEF Placed
        <4>3. k = i \/ (k # i /\ k # j)
          BY <3>2, <4>2
        <4> QED
          BY <1>4, <4>2, <4>3
      <3> QED
        BY <3>1, <3>2
    <2>5. \A k \in 1 .. size - 1 : At(k)' # head
      BY <1>1, <1>4 DEF Placed
    <2> QED
      BY <1>1, <2>1, <2>2, <2>3, <2>4, <2>5 DEF Placed
  <1>6. \A k \in 1 .. size - 1 : P(k) \in Nat
    BY <1>1, PriAssumption DEF P, TypeOK, Placed
  <1> QED
    BY <1>1, <1>3, <1>4, <1>5, <1>6 DEF P

LEMMA BubbleUpInv ==
  ASSUME HeapInv, BubbleUp
  PROVE  HeapInv'
  <1>1. /\ TypeOK /\ Placed /\ Ordered
        /\ pc = "bubble_up" /\ i > 1 /\ pri[d[parent(i)]] > pri[moving_node]
        /\ Fill(i, d[parent(i)]) /\ i' = parent(i) /\ UNCHANGED <<size, pri, pc, moving_node, head>>
    BY DEF HeapInv, BubbleUp, ParentIsLater, cmppri
  <1>2. size \in 1 .. n + 1 /\ n \in Nat /\ i \in 1 .. size - 1
    BY <1>1, ElemAssumption DEF TypeOK, Placed
  <1>3. PICK j \in 1 .. size - 1 : j = parent(i) /\ j < i
    BY <1>1, <1>2, Tree
  <1>4. P(j) > P(i) /\ P(i) = pri[moving_node]
    BY <1>1, <1>3 DEF P, At
  <1>5. /\ TypeOK' /\ Placed'
        /\ \A k \in 1 .. size - 1 :
             /\ P(k) \in Nat
             /\ P(k)' = IF k = i THEN P(j) ELSE IF k = j THEN P(i) ELSE P(k)
    BY <1>1, <1>2, <1>3, RoundPlaced
  <1>6. \A k \in 2 .. size - 1 : k \in 1 .. size - 1 /\ parent(k) \in 1 .. size - 1 /\ parent(k) < k
    BY <1>2, Tree
  <1>7. \A k \in 2 .. size - 1 :
          /\ k # i => P(parent(k)) <= P(k)
          /\ parent(k) = i => P(j) <= P(k)
    BY <1>1, <1>3 DEF Ordered
  <1>8. \A k \in 2 .. size - 1 : k # j => P(parent(k))' <= P(k)'
    <2> SUFFICES ASSUME NEW k \in 2 .. size - 1, k # j
                 PROVE  P(parent(k))' <= P(k)'
      OBVIOUS
    <2> DEFINE a == parent(k)
    <2>1. /\ a \in 1 .. size - 1 /\ k \in 1 .. size - 1 /\ a # k
          /\ k # i => P(a) <= P(k)
          /\ a = i => P(j) <= P(k)
          /\ k = i => a = j
      BY <1>2, <1>3, <1>6, <1>7
    <2>2. P(a)' = (IF a = i THEN P(j) ELSE IF a = j THEN P(i) ELSE P(a))
          /\ P(k)' = (IF k = i THEN P(j) ELSE P(k))
          /\ P(a) \in Nat /\ P(k) \in Nat /\ P(i) \in Nat /\ P(j) \in Nat
      BY <1>2, <1>3, <1>5, <2>1 DEF parent
    <2> QED
      BY <1>4, <2>1, <2>2
  <1>9. \A k \in 2 .. size - 1 : parent(k) = j /\ j > 1 => P(parent(j))' <= P(k)'
    <2> SUFFICES ASSUME NEW k \in 2 .. size - 1, parent(k) = j, j > 1
                 PROVE  P(parent(j))' <= P(k)'
      OBVIOUS
    <2> DEFINE a == parent(j)
    <2>1. /\ a \in 1 .. size - 1 /\ a < j /\ P(a) <= P(j) /\ k \in 1 .. size - 1 /\ j < k
          /\ k # i => P(j) <= P(k)
      BY <1>3, <1>6, <1>7
    <2>2. a # i /\ a # j /\ k # j /\ P(a)' = P(a) /\ P(k)' = (IF k = i THEN P(j) ELSE P(k))
          /\ P(a) \in Nat /\ P(k) \in Nat /\ P(j) \in Nat
      BY <1>2, <1>3, <1>5, <2>1 DEF parent
    <2> QED
      BY <2>1, <2>2
  <1>10. Ordered'
    BY <1>1, <1>3, <1>8, <1>9 DEF Ordered, parent
  <1> QED
    BY <1>5, <1>10 DEF HeapInv

(* maxchild finds a child that comes no later than any other.               *)
LEMMA MaxChild ==
  ASSUME HeapInv, pc # "idle", i \in 1 .. size - 1
  PROVE  /\ maxchild(i) = 0 => \A k \in 2 .. size - 1 : parent(k) # i
         /\ maxchild(i) # 0 =>
              /\ maxchild(i) \in 2 .. size - 1 /\ parent(maxchild(i)) = i
              /\ maxchild(i) # i /\ d[maxchild(i)] = At(maxchild(i))
              /\ \A k \in 2 .. size - 1 : parent(k) = i => P(maxchild(i)) <= P(k)
  <1>1. /\ TypeOK /\ Placed /\ size \in 1 .. n + 1 /\ n \in Nat
    BY ElemAssumption DEF HeapInv, TypeOK
  <1>2. \A k \in 2 .. size - 1 : parent(k) = i <=> k = left(i) \/ k = left(i) + 1
    BY <1>1, Tree
  <1>3. left(i) \in Nat /\ left(i) > i /\ left(i) >= 2
    BY <1>1 DEF left
  <1>4. \A k \in 1 .. size - 1 : P(k) \in Nat
    BY <1>1, PriAssumption DEF P, TypeOK, Placed
  <1>5. \A k \in 1 .. size - 1 : k # i => d[k] = At(k) /\ pri[d[k]] = P(k)
    BY DEF P, At
  <1>6. CASE left(i) >= size
    BY <1>1, <1>2, <1>3, <1>6 DEF maxchild
  <1>7. CASE left(i) < size /\ left(i) + 1 < size /\ P(left(i)) > P(left(i) + 1)
    <2>1. maxchild(i) = left(i) + 1
      BY <1>1, <1>3, <1>5, <1>7 DEF maxchild, cmppri
    <2>2. left(i) \in 1 .. size - 1 /\ left(i) + 1 \in 2 .. size - 1
      BY <1>1, <1>3, <1>7
    <2> QED
      BY <1>1, <1>2, <1>3, <1>4, <1>5, <1>7, <2>1, <2>2
  <1>8. CASE left(i) < size /\ ~(left(i) + 1 < size /\ P(left(i)) > P(left(i) + 1))
    <2>1. maxchild(i) = left(i)
      BY <1>1, <1>3, <1>5, <1>8 DEF maxchild, cmppri
    <2>2. left(i) \in 2 .. size - 1
      BY <1>1, <1>3, <1>8
    <2> QED
      BY <1>1, <1>2, <1>3, <1>4, <1>5, <1>8, <2>1, <2>2
  <1> QED
    BY <1>1, <1>3, <1>6, <1>7, <1>8

(* A loop that has not ended is at a hole inside the heap.                  *)
LEMMA HoleInside ==
  ASSUME HeapInv, pc = "percolate_down", ChildIsFirst
  PROVE  i \in 1 .. size - 1
  <1>1. i \in 1 .. size - 1 \/ (size = 1 /\ i = 1)
    BY DEF HeapInv, Placed
  <1>2. size = 1 /\ i = 1 => maxchild(i) = 0
    BY DEF maxchild, left
  <1> QED
    BY <1>1, <1>2 DEF ChildIsFirst

LEMMA PercolateInv ==
  ASSUME HeapInv, PercolateDown
  PROVE  HeapInv'
  <1>1. /\ TypeOK /\ Placed /\ Ordered
        /\ pc = "percolate_down" /\ maxchild(i) # 0
        /\ pri[moving_node] > pri[d[maxchild(i)]]
        /\ Fill(i, d[maxchild(i)]) /\ i' = maxchild(i)
        /\ UNCHANGED <<size, pri, pc, moving_node, head>>
    BY DEF HeapInv, PercolateDown, ChildIsFirst, cmppri
  <1>2. size \in 1 .. n + 1 /\ n \in Nat /\ i \in 1 .. size - 1
    BY <1>1, ElemAssumption, HoleInside DEF TypeOK, PercolateDown
  <1>3. PICK c \in 2 .. size - 1 :
          /\ c = maxchild(i) /\ parent(c) = i /\ c # i /\ d[c] = At(c)
          /\ \A k \in 2 .. size - 1 : parent(k) = i => P(c) <= P(k)
    BY <1>1, <1>2, MaxChild
  <1>4. P(i) = pri[moving_node] /\ P(i) > P(c)
    BY <1>1, <1>3 DEF P, At
  <1>5. /\ TypeOK' /\ Placed'
        /\ \A k \in 1 .. size - 1 :
             /\ P(k) \in Nat
             /\ P(k)' = IF k = i THEN P(c) ELSE IF k = c THEN P(i) ELSE P(k)
    <2>1. c \in 1 .. size - 1
      BY <1>2
    <2> QED
      BY <1>1, <1>2, <1>3, <2>1, RoundPlaced
  <1>6. \A k \in 2 .. size - 1 : k \in 1 .. size - 1 /\ parent(k) \in 1 .. size - 1 /\ parent(k) < k
    BY <1>2, Tree
  <1>7. \A k \in 2 .. size - 1 :
          /\ parent(k) # i => P(parent(k)) <= P(k)
          /\ parent(k) = i /\ i > 1 => P(parent(i)) <= P(k)
    BY <1>1 DEF Ordered
  <1>8. \A k \in 2 .. size - 1 : parent(k) # c => P(parent(k))' <= P(k)'
    <2> SUFFICES ASSUME NEW k \in 2 .. size - 1, parent(k) # c
                 PROVE  P(parent(k))' <= P(k)'
      OBVIOUS
    <2> DEFINE a == parent(k)
    <2>1. /\ a \in 1 .. size - 1 /\ k \in 1 .. size - 1 /\ a # k
          /\ a # i => P(a) <= P(k)
          /\ a = i => P(c) <= P(k)
          /\ k = i => a # i /\ P(a) <= P(c)
          /\ k = c => a = i
      <3>1. k = i => i > 1 /\ a = parent(i)
        BY <1>2
      <3> QED
        BY <1>2, <1>3, <1>6, <1>7, <3>1
    <2>2. P(a)' = (IF a = i THEN P(c) ELSE P(a))
          /\ P(k)' = (IF k = i THEN P(c) ELSE IF k = c THEN P(i) ELSE P(k))
          /\ P(a) \in Nat /\ P(k) \in Nat /\ P(i) \in Nat /\ P(c) \in Nat
      BY <1>2, <1>3, <1>5, <1>6, <2>1 DEF parent
    <2> QED
      BY <1>4, <2>1, <2>2
  <1>9. \A k \in 2 .. size - 1 : parent(k) = c => P(parent(c))' <= P(k)'
    <2> SUFFICES ASSUME NEW k \in 2 .. size - 1, parent(k) = c
                 PROVE  P(parent(c))' <= P(k)'
      OBVIOUS
    <2> DEFINE a == parent(c)
    <2>1. a = i /\ a \in 1 .. size - 1 /\ a < c /\ c < k /\ P(c) <= P(k) /\ k \in 1 .. size - 1
      BY <1>2, <1>3, <1>6, <1>7
    <2>2. P(a)' = P(c) /\ P(k)' = P(k)
      <3>1. k # i /\ k # c
        BY <1>2, <2>1
      <3> QED
        BY <1>5, <2>1, <3>1 DEF parent
    <2> QED
      BY <2>1, <2>2
  <1>10. Ordered'
    BY <1>1, <1>3, <1>8, <1>9 DEF Ordered, parent
  <1> QED
    BY <1>5, <1>10 DEF HeapInv

LEMMA LoopEndInv ==
  ASSUME HeapInv, LoopEnd
  PROVE  HeapInv'
  <1>1. /\ TypeOK /\ Placed /\ Ordered
        /\ (pc = "bubble_up" /\ ~ParentIsLater) \/ (pc = "percolate_down" /\ ~ChildIsFirst)
        /\ d' = [d EXCEPT ![i] = moving_node]
        /\ pos' = [x \in Elem |-> IF x = head THEN 0
                                  ELSE IF x = moving_node THEN i ELSE pos[x]]
        /\ pc' = "idle" /\ i' = 0 /\ moving_node' = NULL /\ head' = NULL
        /\ size' = size /\ pri' = pri
    BY DEF HeapInv, LoopEnd, Settle
  <1>2. /\ size \in 1 .. n + 1 /\ n \in Nat /\ moving_node \in Elem
        /\ i \in 1 .. size - 1 \/ (size = 1 /\ i = 1 /\ head = moving_node)
        /\ i \in 0 .. n
    BY <1>1, ElemAssumption DEF TypeOK, Placed
  <1>3. TypeOK'
    BY <1>1, <1>2 DEF TypeOK
  <1>4. \A k \in 1 .. size - 1 : At(k)' = At(k) /\ P(k)' = P(k)
    BY <1>1, <1>2 DEF At, P, TypeOK
  <1>5. Placed'
    <2>1. \A k \in 1 .. size - 1 : pos'[At(k)] = k
      <3> SUFFICES ASSUME NEW k \in 1 .. size - 1 PROVE pos'[At(k)] = k
        OBVIOUS
      <3>1. At(k) \in Elem /\ At(k) # head /\ (k = i \/ pos[At(k)] = k)
        BY <1>1 DEF Placed
      <3>2. CASE k = i
        BY <1>1, <3>1, <3>2 DEF At
      <3>3. CASE k # i
        <4>1. i \in 1 .. size - 1 /\ At(i) = moving_node
          BY <1>1, <1>2 DEF At
        <4>2. At(k) # moving_node
          BY <1>1, <3>3, <4>1 DEF Placed
        <4> QED
          BY <1>1, <3>1, <3>3, <4>2
      <3> QED
        BY <3>2, <3>3
    <2>2. \A y \in Elem : y = NULL \/ pos'[y] = 0 \/ \E k \in 1 .. size - 1 : At(k) = y
      <3> SUFFICES ASSUME NEW y \in Elem, y # head, pos'[y] # 0
                   PROVE  \E k \in 1 .. size - 1 : At(k) = y
        BY <1>1
      <3>1. CASE y = moving_node
        BY <1>1, <1>2, <3>1 DEF At
      <3>2. CASE y # moving_node
        BY <1>1, <3>2 DEF Placed
      <3> QED
        BY <3>1, <3>2
    <2>3. \A k \in 1 .. size - 1 : At(k) \in Elem /\ At(k) # NULL
      BY <1>1, ElemAssumption DEF Placed
    <2>4. \A j, k \in 1 .. size - 1 : j # k => At(j) # At(k)
      BY <1>1 DEF Placed
    <2> QED
      BY <1>1, <1>4, <2>1, <2>2, <2>3, <2>4 DEF Placed
  <1>6. \A k \in 2 .. size - 1 : P(parent(k)) <= P(k)
    <2> SUFFICES ASSUME NEW k \in 2 .. size - 1 PROVE P(parent(k)) <= P(k)
      OBVIOUS
    <2>1. i \in 1 .. size - 1
      BY <1>2
    <2>2. /\ k \in 1 .. size - 1 /\ parent(k) \in 1 .. size - 1 /\ parent(k) # k
          /\ P(k) \in Nat /\ P(parent(k)) \in Nat /\ P(i) = pri[moving_node] /\ P(i) \in Nat
      <3>1. k \in 1 .. size - 1 /\ parent(k) \in 1 .. size - 1 /\ parent(k) # k
        BY <1>2, Tree
      <3>2. \A j \in 1 .. size - 1 : P(j) \in Nat
        BY <1>1, PriAssumption DEF P, TypeOK, Placed
      <3>3. P(i) = pri[moving_node]
        BY <1>1 DEF P, At
      <3> QED
        BY <2>1, <3>1, <3>2, <3>3
    <2>3. CASE pc = "bubble_up" /\ k = i
      <3>1. i > 1 /\ d[parent(i)] = At(parent(i)) /\ ~(pri[d[parent(i)]] > pri[moving_node])
        BY <1>1, <1>2, <2>2, <2>3 DEF ParentIsLater, cmppri, At
      <3> QED
        BY <2>2, <2>3, <3>1 DEF P
    <2>4. CASE pc = "percolate_down" /\ parent(k) = i
      <3>1. maxchild(i) # 0 /\ d[maxchild(i)] = At(maxchild(i)) /\ P(maxchild(i)) <= P(k)
            /\ maxchild(i) \in 1 .. size - 1
        BY <1>2, <2>1, <2>4, MaxChild
      <3>2. ~(P(i) > P(maxchild(i)))
        BY <1>1, <2>2, <2>4, <3>1 DEF ChildIsFirst, cmppri, P
      <3>3. P(maxchild(i)) \in Nat
        BY <1>1, <3>1, PriAssumption DEF P, TypeOK, Placed
      <3> QED
        BY <2>2, <2>4, <3>1, <3>2, <3>3
    <2> QED
      BY <1>1, <2>3, <2>4 DEF Ordered
  <1>7. Ordered'
    <2>1. \A k \in 2 .. size - 1 : P(parent(k))' <= P(k)'
      <3>1. \A k \in 2 .. size - 1 : k \in 1 .. size - 1 /\ parent(k) \in 1 .. size - 1
        BY <1>2, Tree
      <3> QED
        BY <1>4, <1>6, <3>1 DEF parent
    <2> QED
      BY <1>1, <2>1 DEF Ordered
  <1> QED
    BY <1>3, <1>5, <1>7 DEF HeapInv

LEMMA Sizes ==
  ASSUME HeapInv
  PROVE  size \in Nat /\ \A k \in 1 .. size - 1 : P(k) \in Nat /\ At(k) \in Elem
  <1>1. TypeOK /\ Placed /\ n \in Nat
    BY ElemAssumption DEF HeapInv
  <1>2. size \in Nat
    BY <1>1 DEF TypeOK
  <1>3. \A k \in 1 .. size - 1 : P(k) \in Nat
    BY <1>1, PriAssumption DEF P, TypeOK, Placed
  <1> QED
    BY <1>1, <1>2, <1>3 DEF Placed

LEMMA HeapNext == HeapInv /\ [Next]_vars => HeapInv'
  <1> SUFFICES ASSUME HeapInv, [Next]_vars PROVE HeapInv'
    OBVIOUS
  <1>1. ASSUME NEW x \in Elem, NEW p \in Pri,
               pqueue_insert(x, p) \/ pqueue_change_priority(x, p)
        PROVE  HeapInv'
    BY <1>1, InsertInv, ChangeInv
  <1>2. CASE pqueue_pop
    BY <1>2, PopInv
  <1>3. CASE BubbleUp
    BY <1>3, BubbleUpInv
  <1>4. CASE PercolateDown
    BY <1>4, PercolateInv
  <1>5. CASE LoopEnd
    BY <1>5, LoopEndInv
  <1>6. CASE UNCHANGED vars
    BY <1>6 DEF vars, HeapInv, TypeOK, Placed, Ordered, P, At
  <1> QED
    BY <1>1, <1>2, <1>3, <1>4, <1>5, <1>6 DEF Next

LEMMA HeapInvariant == Spec => []HeapInv
  BY HeapInit, HeapNext, PTL DEF Spec

-----------------------------------------------------------------------------
(* The theorems *)

(* pqueue_insert never writes past the end of its array, though it does not *)
(* grow it: there are no more lines than slots and a line is in it once.    *)
THEOREM HeapInBounds == Spec => []TypeOK
  <1>1. HeapInv => TypeOK
    BY DEF HeapInv
  <1> QED
    BY <1>1, HeapInvariant, PTL

(* Every operation leaves a heap behind.                                    *)
THEOREM HeapStaysOrdered == Spec => []HeapOrdered
  <1>1. HeapInv => HeapOrdered
    <2> SUFFICES ASSUME HeapInv, pc = "idle", NEW k \in 2 .. size - 1
                 PROVE  ~(pri[d[parent(k)]] > pri[d[k]])
      BY DEF HeapOrdered, cmppri
    <2>1. size \in Nat /\ k \in 1 .. size - 1 /\ parent(k) \in 1 .. size - 1
      BY Sizes, Tree
    <2>2. \A j \in 1 .. size - 1 : P(j) = pri[d[j]] /\ P(j) \in Nat
      BY Sizes DEF P, At
    <2>3. P(parent(k)) <= P(k)
      BY DEF HeapInv, Ordered
    <2> QED
      BY <2>1, <2>2, <2>3
  <1> QED
    BY <1>1, HeapInvariant, PTL

(* A line knows whether and where it is queued.                             *)
THEOREM PositionsExact == Spec => []PosExact
  <1>1. HeapInv => PosExact
    <2> SUFFICES ASSUME HeapInv, pc = "idle"
                 PROVE  /\ \A k \in 1 .. size - 1 : d[k] \in Elem /\ pos[d[k]] = k
                        /\ \A x \in Elem : x \notin Queued => pos[x] = 0
      BY DEF PosExact
    <2>1. Placed /\ head = NULL
      BY DEF HeapInv, Placed
    <2>2. \A k \in 1 .. size - 1 : At(k) = d[k]
      BY DEF At
    <2>3. \A k \in 1 .. size - 1 : d[k] \in Elem /\ pos[d[k]] = k
      BY <2>1, <2>2 DEF Placed
    <2>4. \A x \in Elem : x \notin Queued => pos[x] = 0
      BY <2>1, ElemAssumption DEF Placed, Queued
    <2> QED
      BY <2>3, <2>4
  <1> QED
    BY <1>1, HeapInvariant, PTL

(* The order of the edges makes the root a least element: of the nodes      *)
(* that come before it, the one with the least index would have a parent    *)
(* that comes before it too.                                                *)
LEMMA RootIsLeast ==
  ASSUME HeapInv, pc = "idle", NEW k \in 1 .. size - 1
  PROVE  P(1) <= P(k)
  <1>1. size \in Nat /\ \A j \in 1 .. size - 1 : P(j) \in Nat
    BY Sizes
  <1> DEFINE T == {j \in 1 .. size - 1 : ~(P(1) <= P(j))}
  <1> SUFFICES ASSUME T # {} PROVE FALSE
    BY DEF T
  <1>2. T \subseteq Nat
    BY <1>1
  <1>3. PICK x \in T : \A y \in T : ~(<<y, x>> \in OpToRel(<, Nat))
    <2> HIDE DEF T
    <2> QED
      BY <1>2, WFMin, NatLessThanWellFounded
  <1>4. \A y \in T : ~(y < x)
    BY <1>2, <1>3 DEF OpToRel
  <1>5. x \in 2 .. size - 1
    BY <1>1
  <1>6. parent(x) \in 1 .. size - 1 /\ parent(x) < x
    BY <1>1, <1>5, Tree
  <1>7. P(parent(x)) <= P(x)
    BY <1>5 DEF HeapInv, Ordered
  <1>8. parent(x) \in T
    BY <1>1, <1>5, <1>6, <1>7
  <1> QED
    BY <1>4, <1>6, <1>8

(* The heap of pqueue.c is a priority queue: whatever the sequence of       *)
(* operations, garbage collection is given a line with the fewest valid     *)
(* pages of all those queued.                                               *)
THEOREM HeapImplementsPriorityQueue == Spec => PrioritySpec
  <1>1. Init => Abstract!Init
    BY DEF Init, Abstract!Init, Queued
  <1>2. HeapInv /\ [Next]_vars => [Abstract!Next]_<<Queued, pri>>
    <2> SUFFICES ASSUME HeapInv, [Next]_vars
                 PROVE  Abstract!Next \/ UNCHANGED <<Queued, pri>>
      OBVIOUS
    <2>0. HeapInv'
      BY HeapNext
    <2>1. TypeOK /\ Placed /\ size \in Nat /\ n \in Nat
      BY Sizes, ElemAssumption DEF HeapInv
    <2>2. ASSUME NEW x \in Elem, NEW p \in Pri, pqueue_insert(x, p)
          PROVE  Abstract!Next
      <3>1. /\ x \notin Queued /\ size' = size + 1 /\ size \in 1 .. n
            /\ pri' = [pri EXCEPT ![x] = p]
            /\ \A k \in 1 .. size : At(k)' = IF k = size THEN x ELSE At(k)
        BY <2>1, <2>2, Room DEF TypeOK, pqueue_insert, bubble_up, At
      <3>2. \A y : y \in Queued' <=> \E k \in 1 .. size : y = At(k)'
        BY <2>1, <3>1 DEF Queued
      <3>3. Queued' = Queued \union {x}
        BY <2>1, <3>1, <3>2 DEF Queued
      <3> QED
        BY <3>1, <3>3 DEF Abstract!Next, Abstract!Insert
    <2>3. ASSUME NEW x \in Elem, NEW p \in Pri, pqueue_change_priority(x, p)
          PROVE  Abstract!Next
      <3>1. /\ pc = "idle" /\ head = NULL /\ pos[x] # 0
            /\ pri' = [pri EXCEPT ![x] = p] /\ size' = size /\ d' = d
            /\ i' = pos[x] /\ moving_node' = x
        BY <2>1, <2>3 DEF pqueue_change_priority, bubble_up, percolate_down, Placed
      <3>2. PICK h \in 1 .. size - 1 : At(h) = x
        BY <2>1, <3>1, ElemAssumption DEF Placed
      <3>3. pos[x] = h /\ d[h] = x
        BY <2>1, <3>1, <3>2 DEF Placed, At
      <3>4. \A k \in 1 .. size - 1 : At(k)' = At(k)
        BY <3>1, <3>3 DEF At
      <3>5. Queued' = Queued /\ x \in Queued
        BY <3>1, <3>2, <3>4 DEF Queued
      <3> QED
        BY <3>1, <3>5 DEF Abstract!Next, Abstract!ChangePriority
    <2>4. CASE pqueue_pop
      <3>1. /\ pc = "idle" /\ size > 1 /\ size' = size - 1 /\ pri' = pri
            /\ d' = [d EXCEPT ![1] = d[size - 1]]
            /\ pc' = "percolate_down" /\ i' = 1 /\ moving_node' = d[size - 1]
        BY <2>4 DEF pqueue_pop, percolate_down
      <3>2. \A k \in 1 .. size - 2 : At(k)' = IF k = 1 THEN At(size - 1) ELSE At(k)
        BY <2>1, <3>1 DEF At, TypeOK
      <3>3. At(1) \in Elem /\ \A j, k \in 1 .. size - 1 : j # k => At(j) # At(k)
        BY <2>1, <3>1 DEF Placed
      <3>4. Queued' = Queued \ {At(1)}
        <4>1. \A y : y \in Queued' <=> \E k \in 1 .. size - 2 : y = At(k)'
          BY <2>1, <3>1 DEF Queued
        <4>2. \A y : y \in Queued' => y \in Queued /\ y # At(1)
          BY <2>1, <3>1, <3>2, <3>3, <4>1 DEF Queued
        <4>3. ASSUME NEW k \in 1 .. size - 1, At(k) # At(1)
              PROVE  At(k) \in Queued'
          <5>1. CASE k = size - 1
            <6>1. 1 \in 1 .. size - 2 /\ At(1)' = At(size - 1)
              BY <2>1, <3>1, <3>2, <4>3, <5>1
            <6> QED
              BY <4>1, <5>1, <6>1
          <5>2. CASE k # size - 1
            BY <2>1, <3>2, <4>1, <4>3, <5>2
          <5> QED
            BY <5>1, <5>2
        <4> QED
          BY <4>2, <4>3 DEF Queued
      <3>5. At(1) \in Queued
        BY <2>1, <3>1 DEF Queued
      <3>6. \A y \in Queued : pri[At(1)] <= pri[y]
        BY <3>1, RootIsLeast DEF Queued, P
      <3>7. Abstract!Pop(At(1))
        BY <3>1, <3>4, <3>5, <3>6 DEF Abstract!Pop
      <3> QED
        BY <3>3, <3>7 DEF Abstract!Next, Abstract!Pop
    <2>5. ASSUME i \in 1 .. size - 1, pc # "idle", NEW j \in 1 .. size - 1, j # i,
                 Fill(i, d[j]), i' = j, UNCHANGED <<size, pri, pc, moving_node, head>>
          PROVE  UNCHANGED <<Queued, pri>>
      <3>1. \A k \in 1 .. size - 1 :
              At(k)' = IF k = i THEN At(j) ELSE IF k = j THEN At(i) ELSE At(k)
        BY <2>1, <2>5 DEF Fill, At, TypeOK
      <3>2. \A y : y \in Queued' <=> \E k \in 1 .. size - 1 : y = At(k)'
        BY <2>5 DEF Queued
      <3>3. Queued' \subseteq Queued
        BY <2>5, <3>1, <3>2 DEF Queued
      <3>4. ASSUME NEW k \in 1 .. size - 1 PROVE At(k) \in Queued'
        <4>1. CASE k = i
          BY <2>5, <3>1, <3>2, <4>1
        <4>2. CASE k = j
          BY <2>5, <3>1, <3>2, <4>2
        <4>3. CASE k # i /\ k # j
          BY <3>1, <3>2, <4>3
        <4> QED
          BY <4>1, <4>2, <4>3
      <3> QED
        BY <2>5, <3>3, <3>4 DEF Queued
    <2>6. CASE BubbleUp
      <3>1. /\ pc = "bubble_up" /\ i \in 1 .. size - 1 /\ i > 1
            /\ Fill(i, d[parent(i)]) /\ i' = parent(i)
            /\ UNCHANGED <<size, pri, pc, moving_node, head>>
        BY <2>1, <2>6 DEF BubbleUp, ParentIsLater, Placed
      <3>2. parent(i) \in 1 .. size - 1 /\ parent(i) # i
        BY <2>1, <3>1, Tree
      <3> QED
        BY <2>5, <3>1, <3>2
    <2>7. CASE PercolateDown
      <3>1. /\ pc = "percolate_down" /\ i \in 1 .. size - 1 /\ maxchild(i) # 0
            /\ Fill(i, d[maxchild(i)]) /\ i' = maxchild(i)
            /\ UNCHANGED <<size, pri, pc, moving_node, head>>
        BY <2>7, HoleInside DEF PercolateDown, ChildIsFirst
      <3>2. maxchild(i) \in 1 .. size - 1 /\ maxchild(i) # i
        BY <2>1, <3>1, MaxChild
      <3> QED
        BY <2>5, <3>1, <3>2
    <2>8. CASE LoopEnd
      <3>1. /\ pc' = "idle" /\ d' = [d EXCEPT ![i] = moving_node]
            /\ size' = size /\ pri' = pri /\ pc # "idle"
        BY <2>8 DEF LoopEnd, Settle
      <3>2. \A k \in 1 .. size - 1 : At(k)' = At(k)
        BY <2>1, <3>1 DEF At, TypeOK
      <3> QED
        BY <3>1, <3>2 DEF Queued
    <2>9. CASE UNCHANGED vars
      BY <2>9 DEF vars, Queued, At
    <2> QED
      BY <2>2, <2>3, <2>4, <2>6, <2>7, <2>8, <2>9 DEF Next
  <1> QED
    BY <1>1, <1>2, HeapInvariant, PTL DEF Spec, PrioritySpec, Abstract!Spec
=============================================================================
