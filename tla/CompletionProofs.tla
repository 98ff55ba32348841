-------------------------- MODULE CompletionProofs --------------------------
(* A completion queue, for every number of workers, entries and commands:   *)
(* no interrupt is lost, whoever fills the queue; and if one worker fills   *)
(* it, it is the queue of CompletionFifo.                                   *)
EXTENDS Completion, FiniteSetTheorems, TLAPS

-----------------------------------------------------------------------------
(* Whoever fills the queue *)

Filling == {"lock", "entry", "status", "advance", "ready"}

(* What looks new to the host was written. *)
Entries ==
  /\ \A s \in Slot : cqe[s].phase = 1 => cqe[s].command_id # 0
  /\ \A s \in Slot : host_phase = 0 \/ s < host_head => cqe[s].command_id # 0
  /\ \A w \in Worker : pc[w] \in Filling => cmd[w] # 0
  /\ \A w \in Worker : pc[w] = "status" => cqe[my_head[w]].command_id # 0

EntryInv == TypeOK /\ Entries

-----------------------------------------------------------------------------
(* If p alone fills the queue *)

(* Where the next entry that p posts goes, and its phase. *)
Wraps(p) == pc[p] = "advance" /\ my_head[p] + 1 = QSize
NextSlot(p) == IF Wraps(p) THEN 0 ELSE IF pc[p] = "advance" THEN my_head[p] + 1 ELSE cq_head
NextPhase(p) == IF Wraps(p) THEN 1 - phase ELSE phase

(* The number of entries posted and not seen. *)
Pending(p) ==
  IF host_phase = NextPhase(p) THEN NextSlot(p) - host_head ELSE QSize - host_head + NextSlot(p)

(* The entries before the front have its phase, the others that of the      *)
(* round before; the host never follows by a whole round.                   *)
Ring(p) ==
  /\ \A s \in Slot : cqe[s].phase = IF s < NextSlot(p) THEN NextPhase(p) ELSE 1 - NextPhase(p)
  /\ Pending(p) \in 0 .. QSize - 1
  /\ Cardinality(posted) = Len(seen) + Pending(p)
  /\ Cardinality(Submitted) <= Len(seen) + QSize - 1

(* Where the command of p is. *)
Filler(p) ==
  /\ \A w \in Worker : w # p => pc[w] \notin Filling /\ cmd[w] = 0
  /\ pc[p] \in {"lock", "entry", "status", "advance"} => my_head[p] = cq_head
  /\ pc[p] = "status" => cqe[cq_head].command_id = cmd[p]
  /\ cmd[p] \notin todo
  /\ cmd[p] # 0 => (cmd[p] \in posted <=> pc[p] \notin {"lock", "entry", "status"})
  /\ todo \intersect posted = {}

RingInv(p) == EntryInv /\ Ring(p) /\ Filler(p)

-----------------------------------------------------------------------------
(* Types, and no interrupt is lost *)

Point == {"walk", "lock", "entry", "status", "advance", "ready", "ready?", "clear", "signal",
          "unlock"}

LEMMA Moves ==
  ASSUME TypeOK, NEW w \in Worker, NEW from, NEW to \in Point, At(w, from, to)
  PROVE  /\ pc[w] = from /\ pc'[w] = to
         /\ \A v \in Worker : v # w => pc'[v] = pc[v]
         /\ pc' \in [Worker -> Point]
  BY DEF TypeOK, At, Point

LEMMA EntryInit == Init => EntryInv
  <1> SUFFICES ASSUME Init PROVE EntryInv
    OBVIOUS
  <1>1. 0 \in Slot
    BY SizeAssumption DEF Slot
  <1>2. TypeOK
    BY <1>1 DEF Init, TypeOK, Req
  <1>3. Entries
    BY DEF Init, Entries, Filling, Slot
  <1> QED
    BY <1>2, <1>3 DEF EntryInv

(* A step of a worker that writes no entry. *)
LEMMA WorkerEntry ==
  ASSUME EntryInv, NEW w \in Worker, Fill(w) \/ Scan(w), ~WriteEntry(w), ~WriteStatus(w)
  PROVE  EntryInv'
  <1> USE DEF EntryInv, queue, host
  <1>1. CASE ReadHead(w)
    <2>1. PICK r \in todo : todo' = todo \ {r} /\ cmd' = [cmd EXCEPT ![w] = r]
      BY <1>1 DEF ReadHead
    <2>2. my_head' = [my_head EXCEPT ![w] = cq_head] /\ At(w, "walk", "lock")
          /\ UNCHANGED <<queue, posted, host>>
      BY <1>1 DEF ReadHead
    <2>3. pc'[w] = "lock" /\ (\A v \in Worker : v # w => pc'[v] = pc[v])
          /\ pc' \in [Worker -> Point]
      BY <2>2, Moves DEF Point
    <2>4. r \in Req /\ r # 0
      BY <2>1 DEF TypeOK, Req
    <2>5. TypeOK'
      BY <2>1, <2>2, <2>3, <2>4 DEF TypeOK, Point
    <2>6. Entries'
      BY <2>1, <2>2, <2>3, <2>4 DEF TypeOK, Entries, Filling
    <2> QED
      BY <2>5, <2>6
  <1>2. CASE AdvanceHead(w)
    <2>1. /\ IF my_head[w] + 1 = QSize
               THEN cq_head' = 0 /\ phase' = 1 - phase
               ELSE cq_head' = my_head[w] + 1 /\ phase' = phase
          /\ At(w, "advance", "ready")
          /\ UNCHANGED <<cqe, interrupt_ready, entry_lock, irq_lock, cmd, my_head, todo, posted,
                         host>>
      BY <1>2 DEF AdvanceHead
    <2>2. pc[w] = "advance" /\ pc'[w] = "ready" /\ (\A v \in Worker : v # w => pc'[v] = pc[v])
          /\ pc' \in [Worker -> Point]
      BY <2>1, Moves DEF Point
    <2>3. cq_head' \in Slot /\ phase' \in {0, 1}
      BY <2>1, SizeAssumption DEF TypeOK, Slot
    <2>4. TypeOK'
      BY <2>1, <2>2, <2>3 DEF TypeOK, Point
    <2>5. Entries'
      BY <2>1, <2>2 DEF Entries, Filling
    <2> QED
      BY <2>4, <2>5
  <1>3. CASE LockEntry(w) \/ RaiseReady(w)
    <2>1. /\ entry_lock' \in Worker \union {Free} /\ interrupt_ready' \in BOOLEAN
          /\ At(w, "lock", "entry") \/ At(w, "ready", "walk")
          /\ UNCHANGED <<cqe, cq_head, phase, irq_lock, cmd, my_head, todo, posted, host>>
      BY <1>3 DEF LockEntry, RaiseReady, TypeOK
    <2>2. ((pc[w] \in Filling /\ pc'[w] = "entry") \/ pc'[w] = "walk")
          /\ (\A v \in Worker : v # w => pc'[v] = pc[v]) /\ pc' \in [Worker -> Point]
      BY <2>1, Moves DEF Point, Filling
    <2>3. TypeOK'
      BY <2>1, <2>2 DEF TypeOK, Point
    <2>4. Entries'
      BY <2>1, <2>2 DEF Entries, Filling
    <2> QED
      BY <2>3, <2>4
  <1>4. CASE Scan(w)
    <2>1. /\ irq_lock' \in Worker \union {Free} /\ interrupt_ready' \in BOOLEAN /\ irq' \in BOOLEAN
          /\ UNCHANGED <<cqe, cq_head, phase, entry_lock, cmd, my_head, todo, posted, hpc,
                         host_head, host_phase, seen>>
      BY <1>4 DEF Scan, TryIrqLock, TestReady, ClearReady, SignalIrq, UnlockIrq, TypeOK
    <2>2. \E from, to \in Point \ Filling : At(w, from, to)
      BY <1>4 DEF Scan, TryIrqLock, TestReady, ClearReady, SignalIrq, UnlockIrq, Point, Filling
    <2>3. pc'[w] \notin Filling
          /\ (\A v \in Worker : v # w => pc'[v] = pc[v]) /\ pc' \in [Worker -> Point]
      BY <2>2, Moves
    <2>4. TypeOK'
      BY <2>1, <2>3 DEF TypeOK, Point
    <2>5. Entries'
      BY <2>1, <2>3 DEF Entries, Filling
    <2> QED
      BY <2>4, <2>5
  <1> QED
    BY <1>1, <1>2, <1>3, <1>4 DEF Fill

LEMMA WriteEntryEntry ==
  ASSUME EntryInv, NEW w \in Worker, WriteEntry(w)
  PROVE  EntryInv'
  <1>1. /\ cqe' = [cqe EXCEPT ![my_head[w]].command_id = cmd[w]]
        /\ At(w, "entry", "status")
        /\ UNCHANGED <<cq_head, phase, interrupt_ready, entry_lock, irq_lock, cmd, my_head, todo,
                       posted, host>>
    BY DEF WriteEntry
  <1>2. /\ pc[w] = "entry" /\ pc'[w] = "status"
        /\ (\A v \in Worker : v # w => pc'[v] = pc[v]) /\ pc' \in [Worker -> Point]
    BY <1>1, Moves DEF EntryInv, Point
  <1>3. my_head[w] \in Slot /\ cmd[w] \in Req /\ cmd[w] # 0
    BY <1>2 DEF EntryInv, TypeOK, Entries, Filling, Req
  <1>4. /\ cqe' \in [Slot -> [command_id : Req \union {0}, phase : {0, 1}]]
        /\ cqe'[my_head[w]].command_id # 0
        /\ \A s \in Slot : /\ cqe'[s].phase = cqe[s].phase
                           /\ cqe[s].command_id # 0 => cqe'[s].command_id # 0
    BY <1>1, <1>3 DEF EntryInv, TypeOK
  <1>5. TypeOK'
    BY <1>1, <1>2, <1>4 DEF EntryInv, TypeOK, host, Point
  <1>6. Entries'
    BY <1>1, <1>2, <1>3, <1>4 DEF EntryInv, TypeOK, Entries, host, Filling
  <1> QED
    BY <1>5, <1>6 DEF EntryInv

LEMMA WriteStatusEntry ==
  ASSUME EntryInv, NEW w \in Worker, WriteStatus(w)
  PROVE  EntryInv'
  <1>1. /\ cqe' = [cqe EXCEPT ![my_head[w]].phase = phase]
        /\ posted' = posted \union {cmd[w]}
        /\ At(w, "status", "advance")
        /\ UNCHANGED <<cq_head, phase, interrupt_ready, entry_lock, irq_lock, cmd, my_head, todo,
                       host>>
    BY DEF WriteStatus
  <1>2. /\ pc[w] = "status" /\ pc'[w] = "advance"
        /\ (\A v \in Worker : v # w => pc'[v] = pc[v]) /\ pc' \in [Worker -> Point]
    BY <1>1, Moves DEF EntryInv, Point
  <1>3. /\ my_head[w] \in Slot /\ cmd[w] \in Req /\ phase \in {0, 1}
        /\ cqe[my_head[w]].command_id # 0
    BY <1>2 DEF EntryInv, TypeOK, Entries, Filling, Req
  <1>4. /\ cqe' \in [Slot -> [command_id : Req \union {0}, phase : {0, 1}]]
        /\ \A s \in Slot : /\ cqe'[s].command_id = cqe[s].command_id
                           /\ s # my_head[w] => cqe'[s] = cqe[s]
    BY <1>1, <1>3 DEF EntryInv, TypeOK
  <1>5. TypeOK'
    BY <1>1, <1>2, <1>3, <1>4 DEF EntryInv, TypeOK, host, Point
  <1>6. Entries'
    BY <1>1, <1>2, <1>3, <1>4 DEF EntryInv, TypeOK, Entries, host, Filling
  <1> QED
    BY <1>5, <1>6 DEF EntryInv

LEMMA HostEntry ==
  ASSUME EntryInv, Submit \/ HostStep
  PROVE  EntryInv'
  <1> USE DEF EntryInv, queue, work, host
  <1>1. CASE Submit
    BY <1>1 DEF Submit, TypeOK, Entries
  <1>2. CASE HostIrq \/ HostDone
    BY <1>2 DEF HostIrq, HostDone, TypeOK, Entries
  <1>3. CASE HostReap
    <2>1. /\ cqe[host_head].phase = host_phase
          /\ seen' = Append(seen, cqe[host_head].command_id)
          /\ IF host_head + 1 = QSize
               THEN host_head' = 0 /\ host_phase' = 1 - host_phase
               ELSE host_head' = host_head + 1 /\ host_phase' = host_phase
          /\ UNCHANGED <<queue, work, irq, hpc>>
      BY <1>3 DEF HostReap, NewEntry
    <2>2. cqe[host_head].command_id \in Req
      BY <2>1 DEF TypeOK, Entries
    <2>3. host_head' \in Slot /\ host_phase' \in {0, 1}
      BY <2>1, SizeAssumption DEF TypeOK, Slot
    <2>4. seen' \in Seq(Req)
      BY <2>1, <2>2 DEF TypeOK
    <2>5. TypeOK'
      BY <2>1, <2>3, <2>4 DEF TypeOK
    <2>6. \A s \in Slot : host_phase' = 0 \/ s < host_head' => cqe[s].command_id # 0
      BY <2>1, <2>2, SizeAssumption DEF TypeOK, Entries, Slot, Req
    <2>7. Entries'
      BY <2>1, <2>6 DEF Entries
    <2> QED
      BY <2>5, <2>7
  <1> QED
    BY <1>1, <1>2, <1>3 DEF HostStep

LEMMA EntryNext == EntryInv /\ [Next]_vars => EntryInv'
  <1>1. CASE UNCHANGED vars
    BY <1>1 DEF vars, EntryInv, TypeOK, Entries
  <1> QED
    BY <1>1, WorkerEntry, WriteEntryEntry, WriteStatusEntry, HostEntry DEF Next

(* Every variable keeps to its values; what the host sees are commands.     *)
THEOREM CompletionTypes == Spec => []TypeOK
  BY EntryInit, EntryNext, PTL DEF Spec, EntryInv

(* No interrupt is lost, whichever workers fill the queue and scan it: the  *)
(* flag is raised after the entry shows and lowered before the interrupt is *)
(* sent (__fill_cq_result, nvmev_kthread_io).                               *)
THEOREM NoInterruptLost == Spec => []InterruptComes
  <1>1. Init => InterruptComes
    BY SizeAssumption DEF Init, InterruptComes, NewEntry, Slot
  <1>2. ASSUME EntryInv, InterruptComes, [Next]_vars PROVE InterruptComes'
    <2>1. CASE Submit \/ HostStep \/ UNCHANGED vars
      BY <1>2, <2>1 DEF Submit, HostStep, HostIrq, HostReap, HostDone, InterruptComes, NewEntry,
                        queue, work, host, vars
    <2>2. ASSUME NEW w \in Worker, Fill(w) \/ Scan(w) PROVE InterruptComes'
      <3> DEFINE Says == {"clear", "signal", "advance", "ready"}
      <3>1. CASE pc'[w] \in Says \/ irq' \/ interrupt_ready'
        BY <3>1 DEF InterruptComes
      <3>2. CASE pc'[w] \notin Says /\ ~irq' /\ ~interrupt_ready'
        <4>1. \E from, to \in Point : At(w, from, to) /\ from \notin Says
          BY <1>2, <2>2, <3>2 DEF Fill, Scan, ReadHead, LockEntry, WriteEntry, WriteStatus,
             AdvanceHead, RaiseReady, TryIrqLock, TestReady, ClearReady, SignalIrq, UnlockIrq,
             At, Point, EntryInv, TypeOK
        <4>2. pc[w] \notin Says /\ \A v \in Worker : v # w => pc'[v] = pc[v]
          BY <1>2, <4>1, Moves DEF EntryInv
        <4>3. /\ hpc' = hpc /\ irq' = irq /\ host_head' = host_head /\ host_phase' = host_phase
              /\ interrupt_ready' = interrupt_ready
          BY <2>2, <3>2, <4>2 DEF Fill, Scan, ReadHead, LockEntry, WriteEntry, WriteStatus,
             AdvanceHead, RaiseReady, TryIrqLock, TestReady, ClearReady, SignalIrq, UnlockIrq,
             queue, host, At
        <4>4. ~WriteStatus(w)
          BY <1>2, <3>2, Moves DEF WriteStatus, EntryInv, Point
        <4>5. cqe'[host_head].phase = cqe[host_head].phase
          <5>1. CASE WriteEntry(w)
            BY <1>2, <5>1 DEF WriteEntry, EntryInv, TypeOK
          <5>2. CASE ~WriteEntry(w)
            BY <2>2, <4>4, <5>2 DEF Fill, Scan, ReadHead, LockEntry, AdvanceHead, RaiseReady,
               TryIrqLock, TestReady, ClearReady, SignalIrq, UnlockIrq, queue
          <5> QED
            BY <5>1, <5>2
        <4>6. \A v \in Worker : pc[v] \in Says => pc'[v] \in Says
          BY <4>2
        <4> QED
          BY <1>2, <4>3, <4>5, <4>6 DEF InterruptComes, NewEntry
      <3> QED
        BY <3>1, <3>2
    <2> QED
      BY <1>2, <2>1, <2>2 DEF Next
  <1> QED
    BY <1>1, <1>2, EntryInit, EntryNext, PTL DEF Spec

-----------------------------------------------------------------------------
(* One worker fills the queue: the ring *)

LEMMA Positions ==
  ASSUME NEW p \in Worker, EntryInv, Filler(p)
  PROVE  /\ NextSlot(p) \in Slot /\ NextPhase(p) \in {0, 1} /\ Pending(p) \in Int
         /\ host_head \in Slot /\ host_phase \in {0, 1}
         /\ QSize \in Nat /\ QSize > 1
         /\ Slot = {s \in Int : 0 <= s /\ s < QSize}
  <1>1. QSize \in Nat /\ QSize > 1 /\ Slot = {s \in Int : 0 <= s /\ s < QSize}
    BY SizeAssumption DEF Slot
  <1>2. host_head \in Slot /\ host_phase \in {0, 1} /\ phase \in {0, 1} /\ cq_head \in Slot
        /\ my_head[p] \in Slot
    BY DEF EntryInv, TypeOK
  <1>3. NextSlot(p) \in Slot /\ NextPhase(p) \in {0, 1}
    BY <1>1, <1>2 DEF NextSlot, NextPhase, Wraps
  <1>4. Pending(p) \in Int
    BY <1>1, <1>2, <1>3 DEF Pending
  <1> QED
    BY <1>1, <1>2, <1>3, <1>4

(* The host finds as many new entries as are posted and not seen.           *)
LEMMA Counted ==
  ASSUME NEW p \in Worker, EntryInv, Filler(p), Ring(p)
  PROVE  NrNew = Pending(p)
  <1> DEFINE n == Pending(p)
             S == NextSlot(p)
             F == NextPhase(p)
  <1>1. n \in 0 .. QSize - 1 /\ n \in Nat
    BY Positions DEF Ring
  <1>2. ASSUME NEW k \in 0 .. QSize - 1 PROVE NewAt(k) <=> k < n
    <2> DEFINE s == SlotAt(k)
    <2>1. s \in Slot /\ s = IF host_head + k < QSize THEN host_head + k ELSE host_head + k - QSize
      BY Positions DEF SlotAt
    <2>2. cqe[s].phase = IF s < S THEN F ELSE 1 - F
      BY <2>1 DEF Ring
    <2>3. NewAt(k) <=> cqe[s].phase = IF host_head + k < QSize THEN host_phase ELSE 1 - host_phase
      BY DEF NewAt
    <2>4. n = IF host_phase = F THEN S - host_head ELSE QSize - host_head + S
      BY DEF Pending
    <2> HIDE DEF n, S, F, s
    <2>5. F \in {0, 1} /\ host_phase \in {0, 1} /\ S \in Slot /\ host_head \in Slot
          /\ QSize \in Nat /\ Slot = {t \in Int : 0 <= t /\ t < QSize}
      BY Positions DEF F, S
    <2>6. CASE host_phase = F
      BY <1>1, <2>1, <2>2, <2>3, <2>4, <2>5, <2>6
    <2>7. CASE host_phase # F
      BY <1>1, <2>1, <2>2, <2>3, <2>4, <2>5, <2>7
    <2> QED
      BY <2>6, <2>7
  <1> HIDE DEF n
  <1>3. ASSUME NEW m \in 0 .. QSize
        PROVE  ((\A k \in 0 .. m - 1 : NewAt(k)) /\ (m = QSize \/ ~NewAt(m))) <=> m = n
    <2>1. CASE m = n
      BY <1>1, <1>2, <2>1, SizeAssumption
    <2>2. CASE m < n
      BY <1>1, <1>2, <2>2, SizeAssumption
    <2>3. CASE m > n
      <3>1. n \in 0 .. m - 1 /\ n \in 0 .. QSize - 1
        BY <1>1, <2>3, SizeAssumption
      <3> QED
        BY <1>1, <1>2, <2>3, <3>1
    <2> QED
      BY <1>1, <2>1, <2>2, <2>3, SizeAssumption
  <1>4. n \in 0 .. QSize
    BY <1>1, SizeAssumption
  <1> QED
    BY <1>3, <1>4 DEF NrNew, n

(* The commands that are posted and not seen. *)
List(p) == [i \in 1 .. Pending(p) |-> cqe[SlotAt(i - 1)].command_id]

LEMMA UnseenList ==
  ASSUME NEW p \in Worker
  PROVE  /\ RingInv(p) => Unseen = List(p)
         /\ (RingInv(p) => Unseen = List(p))'
  <1>1. RingInv(p) => Unseen = List(p)
    BY Counted DEF RingInv, Unseen, List
  <1> QED
    BY <1>1, PTL

LEMMA SubmittedAlone ==
  ASSUME NEW p \in Worker, TypeOK, Filler(p)
  PROVE  /\ Submitted = todo \union posted \union ({cmd[p]} \ {0})
         /\ IsFiniteSet(Submitted) /\ IsFiniteSet(posted)
         /\ Cardinality(Submitted) \in Nat /\ Cardinality(posted) \in Nat
  <1>1. Submitted = todo \union posted \union ({cmd[p]} \ {0})
    BY DEF Submitted, Filler
  <1>2. Submitted \subseteq Req /\ posted \subseteq Req
    BY <1>1 DEF TypeOK
  <1>3. IsFiniteSet(Req)
    BY FS_Interval, SizeAssumption DEF Req
  <1>4. IsFiniteSet(Submitted) /\ IsFiniteSet(posted)
    BY <1>2, <1>3, FS_Subset
  <1> QED
    BY <1>1, <1>4, FS_CardinalityType

LEMMA RingInit ==
  ASSUME NEW p \in Worker, Init
  PROVE  RingInv(p) /\ List(p) = <<>>
  <1> USE DEF Init
  <1>1. EntryInv
    BY EntryInit
  <1>2. Filler(p)
    BY DEF Filler, Filling
  <1>3. NextSlot(p) = 0 /\ NextPhase(p) = 1 /\ Pending(p) = 0
    BY SizeAssumption DEF NextSlot, NextPhase, Wraps, Pending
  <1>4. Submitted = {} /\ Cardinality({}) = 0
    BY FS_EmptySet DEF Submitted
  <1>5. Ring(p)
    BY <1>3, <1>4, SizeAssumption DEF Ring, Slot
  <1>6. List(p) = <<>>
    BY <1>3 DEF List
  <1> QED
    BY <1>1, <1>2, <1>5, <1>6 DEF RingInv

(* A step that moves neither end of the queue. *)
LEMMA RingSame ==
  ASSUME NEW p \in Worker, Ring(p),
         UNCHANGED <<posted, host_head, host_phase, seen>>,
         NextSlot(p)' = NextSlot(p), NextPhase(p)' = NextPhase(p), Submitted' = Submitted,
         \A s \in Slot : cqe'[s].phase = cqe[s].phase
  PROVE  Ring(p)' /\ Pending(p)' = Pending(p)
  <1>1. Pending(p)' = Pending(p)
    BY DEF Pending
  <1> QED
    BY <1>1 DEF Ring

LEMMA ListSame ==
  ASSUME NEW p \in Worker, Pending(p)' = Pending(p), host_head' = host_head,
         \A k \in 0 .. Pending(p) - 1 :
           cqe'[SlotAt(k)].command_id = cqe[SlotAt(k)].command_id,
         Pending(p) \in Int
  PROVE  List(p)' = List(p)
  <1> DEFINE n == Pending(p)
  <1>1. \A i \in 1 .. n : SlotAt(i - 1)' = SlotAt(i - 1)
    BY DEF SlotAt
  <1>2. \A i \in 1 .. n : i - 1 \in 0 .. n - 1
    OBVIOUS
  <1> HIDE DEF n
  <1>3. \A i \in 1 .. n : cqe'[SlotAt(i - 1)'].command_id = cqe[SlotAt(i - 1)].command_id
    BY <1>1, <1>2 DEF n
  <1> QED
    BY <1>3 DEF List, n

(* What a step does to the queue: RingInv is kept, and one command at most  *)
(* is posted, or one seen.                                                  *)
Promise(p) ==
  /\ RingInv(p)'
  /\ \/ UNCHANGED <<posted, seen>> /\ List(p)' = List(p)
     \/ /\ posted' = posted \union {cmd[p]} /\ cmd[p] \in Req \ posted
        /\ Len(List(p)) < QSize
        /\ List(p)' = Append(List(p), cmd[p]) /\ seen' = seen
     \/ /\ List(p) # <<>> /\ posted' = posted
        /\ seen' = Append(seen, Head(List(p))) /\ List(p)' = Tail(List(p))

(* Steps that change no entry and neither end. *)
LEMMA QuietRing ==
  ASSUME NEW p \in Worker, RingInv(p), EntryInv', Filler(p)',
         UNCHANGED <<cqe, cq_head, phase, my_head, posted, host_head, host_phase, seen>>,
         pc[p] = "advance" <=> pc'[p] = "advance",
         Submitted' = Submitted
  PROVE  Promise(p)
  <1>1. NextSlot(p)' = NextSlot(p) /\ NextPhase(p)' = NextPhase(p)
    BY DEF NextSlot, NextPhase, Wraps
  <1>2. Ring(p)' /\ Pending(p)' = Pending(p)
    BY <1>1, RingSame DEF RingInv
  <1>3. List(p)' = List(p)
    BY <1>2, ListSame, Positions DEF RingInv
  <1> QED
    BY <1>2, <1>3 DEF Promise, RingInv

LEMMA ScanRing ==
  ASSUME NEW p \in Worker, RingInv(p), EntryInv', NEW w \in Worker, Scan(w)
  PROVE  Promise(p)
  <1>1. UNCHANGED <<cqe, cq_head, phase, cmd, my_head, todo, posted, host_head, host_phase, seen>>
    BY DEF Scan, TryIrqLock, TestReady, ClearReady, SignalIrq, UnlockIrq, queue, host
  <1>2. \E from, to \in Point \ Filling : At(w, from, to)
    BY DEF Scan, TryIrqLock, TestReady, ClearReady, SignalIrq, UnlockIrq, Point, Filling
  <1>3. pc[w] \notin Filling /\ pc'[w] \notin Filling
        /\ \A v \in Worker : v # w => pc'[v] = pc[v]
    BY <1>2, Moves DEF RingInv, EntryInv
  <1>4. Filler(p)'
    BY <1>1, <1>3 DEF RingInv, Filler, Filling
  <1>5. Submitted' = Submitted
    BY <1>1 DEF Submitted
  <1>6. pc[p] = "advance" <=> pc'[p] = "advance"
    BY <1>3 DEF Filling
  <1> QED
    BY <1>1, <1>4, <1>5, <1>6, QuietRing

LEMMA FillQuietRing ==
  ASSUME NEW p \in Worker, RingInv(p), EntryInv', ReadHead(p) \/ LockEntry(p) \/ RaiseReady(p)
  PROVE  Promise(p)
  <1>1. UNCHANGED <<cqe, cq_head, phase, posted, host_head, host_phase, seen>>
    BY DEF ReadHead, LockEntry, RaiseReady, queue, host
  <1>2. CASE ReadHead(p)
    <2>1. PICK r \in todo : todo' = todo \ {r} /\ cmd' = [cmd EXCEPT ![p] = r]
      BY <1>2 DEF ReadHead
    <2>2. my_head' = [my_head EXCEPT ![p] = cq_head] /\ At(p, "walk", "lock")
      BY <1>2 DEF ReadHead
    <2>3. pc[p] = "walk" /\ pc'[p] = "lock" /\ \A v \in Worker : v # p => pc'[v] = pc[v]
      BY <2>2, Moves DEF RingInv, EntryInv, Point
    <2>4. /\ cmd'[p] = r /\ my_head'[p] = cq_head /\ r \in Req /\ r # 0 /\ r \notin posted
          /\ \A v \in Worker : v # p => cmd'[v] = cmd[v]
      BY <2>1, <2>2 DEF RingInv, Filler, EntryInv, TypeOK, Req
    <2>5. Filler(p)'
      BY <1>1, <2>1, <2>3, <2>4 DEF RingInv, Filler, Filling
    <2>6. Submitted' = Submitted
      <3>1. Submitted = todo \union posted \union ({cmd[p]} \ {0})
        BY SubmittedAlone DEF RingInv, EntryInv
      <3>2. Submitted' = todo' \union posted' \union ({cmd'[p]} \ {0})
        BY <2>5 DEF Submitted, Filler
      <3>3. cmd[p] # 0 => cmd[p] \in posted
        BY <2>3 DEF RingInv, Filler
      <3> QED
        BY <1>1, <2>1, <2>4, <3>1, <3>2, <3>3
    <2>7. NextSlot(p)' = NextSlot(p) /\ NextPhase(p)' = NextPhase(p)
      BY <1>1, <2>3 DEF NextSlot, NextPhase, Wraps
    <2>8. Ring(p)' /\ Pending(p)' = Pending(p)
      BY <1>1, <2>6, <2>7, RingSame DEF RingInv
    <2>9. List(p)' = List(p)
      BY <1>1, <2>8, ListSame, Positions DEF RingInv
    <2> QED
      BY <1>1, <2>5, <2>8, <2>9 DEF Promise, RingInv
  <1>3. CASE LockEntry(p) \/ RaiseReady(p)
    <2>1. /\ UNCHANGED <<cmd, my_head, todo>>
          /\ At(p, "lock", "entry") \/ At(p, "ready", "walk")
      BY <1>3 DEF LockEntry, RaiseReady
    <2>2. /\ \/ pc[p] = "lock" /\ pc'[p] = "entry"
             \/ pc[p] = "ready" /\ pc'[p] = "walk"
          /\ \A v \in Worker : v # p => pc'[v] = pc[v]
      BY <2>1, Moves DEF RingInv, EntryInv, Point
    <2>3. Filler(p)'
      BY <1>1, <2>1, <2>2 DEF RingInv, Filler, Filling
    <2>4. Submitted' = Submitted
      BY <1>1, <2>1 DEF Submitted
    <2> QED
      BY <1>1, <2>1, <2>2, <2>3, <2>4, QuietRing
  <1> QED
    BY <1>2, <1>3

(* The entries not seen end where the next one goes.                        *)
LEMMA SlotsApart ==
  ASSUME NEW p \in Worker, RingInv(p)
  PROVE  /\ Pending(p) \in 0 .. QSize - 1
         /\ SlotAt(Pending(p)) = NextSlot(p)
         /\ \A k \in 0 .. Pending(p) - 1 : SlotAt(k) \in Slot /\ SlotAt(k) # NextSlot(p)
  <1> DEFINE n == Pending(p)
             S == NextSlot(p)
             F == NextPhase(p)
  <1>1. n \in 0 .. QSize - 1
    BY DEF RingInv, Ring
  <1>2. n = IF host_phase = F THEN S - host_head ELSE QSize - host_head + S
    BY DEF Pending
  <1>3. F \in {0, 1} /\ host_phase \in {0, 1} /\ S \in Slot /\ host_head \in Slot
        /\ QSize \in Nat /\ Slot = {t \in Int : 0 <= t /\ t < QSize}
    BY Positions DEF RingInv
  <1> HIDE DEF n, S, F
  <1>4. SlotAt(n) = S
    BY <1>1, <1>2, <1>3 DEF SlotAt
  <1>5. \A k \in 0 .. n - 1 : SlotAt(k) \in Slot /\ SlotAt(k) # S
    BY <1>1, <1>2, <1>3 DEF SlotAt
  <1> QED
    BY <1>1, <1>4, <1>5 DEF n, S

LEMMA WriteEntryRing ==
  ASSUME NEW p \in Worker, RingInv(p), EntryInv', WriteEntry(p)
  PROVE  Promise(p)
  <1>1. /\ cqe' = [cqe EXCEPT ![my_head[p]].command_id = cmd[p]]
        /\ At(p, "entry", "status")
        /\ UNCHANGED <<cq_head, phase, cmd, my_head, todo, posted, host_head, host_phase, seen>>
    BY DEF WriteEntry, host
  <1>2. pc[p] = "entry" /\ pc'[p] = "status" /\ \A v \in Worker : v # p => pc'[v] = pc[v]
    BY <1>1, Moves DEF RingInv, EntryInv, Point
  <1>3. my_head[p] = cq_head /\ cq_head \in Slot /\ NextSlot(p) = cq_head
    BY <1>2 DEF RingInv, EntryInv, TypeOK, Filler, NextSlot, Wraps
  <1>4. /\ cqe'[cq_head].command_id = cmd[p]
        /\ \A s \in Slot : /\ cqe'[s].phase = cqe[s].phase
                           /\ s # cq_head => cqe'[s] = cqe[s]
    BY <1>1, <1>3 DEF RingInv, EntryInv, TypeOK
  <1>5. Filler(p)'
    BY <1>1, <1>2, <1>3, <1>4 DEF RingInv, Filler, Filling
  <1>6. NextSlot(p)' = NextSlot(p) /\ NextPhase(p)' = NextPhase(p) /\ Submitted' = Submitted
    BY <1>1, <1>2 DEF NextSlot, NextPhase, Wraps, Submitted
  <1>7. Ring(p)' /\ Pending(p)' = Pending(p)
    BY <1>1, <1>4, <1>6, RingSame DEF RingInv
  <1>8. \A k \in 0 .. Pending(p) - 1 : cqe'[SlotAt(k)].command_id = cqe[SlotAt(k)].command_id
    BY <1>3, <1>4, SlotsApart
  <1>9. List(p)' = List(p)
    BY <1>1, <1>7, <1>8, ListSame, Positions DEF RingInv
  <1> QED
    BY <1>1, <1>5, <1>7, <1>9 DEF Promise, RingInv

LEMMA AdvanceHeadRing ==
  ASSUME NEW p \in Worker, RingInv(p), EntryInv', AdvanceHead(p)
  PROVE  Promise(p)
  <1>1. /\ IF my_head[p] + 1 = QSize
             THEN cq_head' = 0 /\ phase' = 1 - phase
             ELSE cq_head' = my_head[p] + 1 /\ phase' = phase
        /\ At(p, "advance", "ready")
        /\ UNCHANGED <<cqe, cmd, my_head, todo, posted, host_head, host_phase, seen>>
    BY DEF AdvanceHead, host
  <1>2. pc[p] = "advance" /\ pc'[p] = "ready" /\ \A v \in Worker : v # p => pc'[v] = pc[v]
    BY <1>1, Moves DEF RingInv, EntryInv, Point
  <1>3. Filler(p)'
    BY <1>1, <1>2 DEF RingInv, Filler, Filling
  <1>4. NextSlot(p)' = NextSlot(p) /\ NextPhase(p)' = NextPhase(p) /\ Submitted' = Submitted
    BY <1>1, <1>2 DEF NextSlot, NextPhase, Wraps, Submitted
  <1>5. Ring(p)' /\ Pending(p)' = Pending(p)
    BY <1>1, <1>4, RingSame DEF RingInv
  <1>6. List(p)' = List(p)
    BY <1>1, <1>5, ListSame, Positions DEF RingInv
  <1> QED
    BY <1>1, <1>3, <1>5, <1>6 DEF Promise, RingInv

(* The entry appears: it is the next one, and there is room for it because  *)
(* the host has no more commands outstanding than leave an entry free.      *)
LEMMA WriteStatusRing ==
  ASSUME NEW p \in Worker, RingInv(p), EntryInv', WriteStatus(p)
  PROVE  Promise(p)
  <1> DEFINE n == Pending(p)
  <1>1. /\ cqe' = [cqe EXCEPT ![my_head[p]].phase = phase]
        /\ posted' = posted \union {cmd[p]}
        /\ At(p, "status", "advance")
        /\ UNCHANGED <<cq_head, phase, cmd, my_head, todo, host_head, host_phase, seen>>
    BY DEF WriteStatus, host
  <1>2. pc[p] = "status" /\ pc'[p] = "advance" /\ \A v \in Worker : v # p => pc'[v] = pc[v]
    BY <1>1, Moves DEF RingInv, EntryInv, Point
  <1>3. /\ my_head[p] = cq_head /\ cq_head \in Slot /\ phase \in {0, 1}
        /\ NextSlot(p) = cq_head /\ NextPhase(p) = phase
        /\ cqe[cq_head].command_id = cmd[p] /\ cmd[p] \in Req \ posted /\ cmd[p] # 0
    BY <1>2 DEF RingInv, EntryInv, TypeOK, Filler, NextSlot, NextPhase, Wraps, Entries, Filling, Req
  <1>4. /\ cqe'[cq_head].phase = phase /\ cqe'[cq_head].command_id = cmd[p]
        /\ \A s \in Slot : s # cq_head => cqe'[s] = cqe[s]
    BY <1>1, <1>3 DEF RingInv, EntryInv, TypeOK
  <1>5. Filler(p)'
    BY <1>1, <1>2, <1>3, <1>4 DEF RingInv, Filler, Filling
  <1>6. /\ NextSlot(p)' = IF cq_head + 1 = QSize THEN 0 ELSE cq_head + 1
        /\ NextPhase(p)' = IF cq_head + 1 = QSize THEN 1 - phase ELSE phase
    BY <1>1, <1>2, <1>3 DEF NextSlot, NextPhase, Wraps
  <1>7. QSize \in Nat /\ Slot = {t \in Int : 0 <= t /\ t < QSize}
        /\ host_head \in Slot /\ host_phase \in {0, 1} /\ n \in 0 .. QSize - 1
    BY Positions, SlotsApart DEF RingInv
  <1>8. Submitted' = Submitted
    <2>1. Submitted = todo \union posted \union ({cmd[p]} \ {0})
      BY SubmittedAlone DEF RingInv, EntryInv
    <2>2. Submitted' = todo' \union posted' \union ({cmd'[p]} \ {0})
      BY <1>5 DEF Submitted, Filler
    <2> QED
      BY <1>1, <1>3, <2>1, <2>2
  <1>9. Cardinality(posted') = Cardinality(posted) + 1 /\ n + 1 \in 0 .. QSize - 1
    <2>1. IsFiniteSet(posted) /\ IsFiniteSet(Submitted) /\ Cardinality(posted) \in Nat
          /\ Cardinality(Submitted) \in Nat
      BY SubmittedAlone DEF RingInv, EntryInv
    <2>2. Cardinality(posted') = Cardinality(posted) + 1
      BY <1>1, <1>3, <2>1, FS_AddElement
    <2>3. posted' \subseteq Submitted
      BY <1>1, <1>3, SubmittedAlone DEF RingInv, EntryInv
    <2>4. Cardinality(posted') <= Cardinality(Submitted)
      BY <2>1, <2>3, FS_Subset
    <2>5. Cardinality(posted) = Len(seen) + n /\ Cardinality(Submitted) <= Len(seen) + QSize - 1
      BY DEF RingInv, Ring
    <2>6. Len(seen) \in Nat
      BY DEF RingInv, EntryInv, TypeOK
    <2> QED
      BY <1>7, <2>1, <2>2, <2>4, <2>5, <2>6
  <1>10. Pending(p)' = n + 1
    <2>1. n = IF host_phase = phase THEN cq_head - host_head ELSE QSize - host_head + cq_head
      BY <1>3 DEF Pending
    <2>2. Pending(p)' = IF host_phase = NextPhase(p)' THEN NextSlot(p)' - host_head
                        ELSE QSize - host_head + NextSlot(p)'
      BY <1>1 DEF Pending
    <2> HIDE DEF n
    <2> QED
      BY <1>3, <1>6, <1>7, <2>1, <2>2
  <1>11. Ring(p)'
    <2>1. \A s \in Slot : cqe'[s].phase = IF s < NextSlot(p)' THEN NextPhase(p)'
                                          ELSE 1 - NextPhase(p)'
      <3>1. \A s \in Slot : s # cq_head => cqe'[s].phase = IF s < cq_head THEN phase ELSE 1 - phase
        BY <1>3, <1>4 DEF RingInv, Ring
      <3> QED
        BY <1>3, <1>4, <1>6, <1>7, <3>1
    <2>2. Cardinality(posted) = Len(seen) + n /\ Len(seen) \in Nat
      BY DEF RingInv, Ring, EntryInv, TypeOK
    <2>3. Cardinality(posted') = Len(seen') + Pending(p)'
      BY <1>1, <1>7, <1>9, <1>10, <2>2
    <2>4. Cardinality(Submitted') <= Len(seen') + QSize - 1
      BY <1>1, <1>8 DEF RingInv, Ring
    <2> QED
      BY <1>9, <1>10, <2>1, <2>3, <2>4 DEF Ring
  <1>12. List(p)' = Append(List(p), cmd[p]) /\ Len(List(p)) < QSize
    <2>1. PICK m \in 0 .. QSize - 1 : m = n
      BY <1>7
    <2>2. \A i \in 1 .. m : cqe'[SlotAt(i - 1)'].command_id = cqe[SlotAt(i - 1)].command_id
      <3>1. \A i \in 1 .. m : i - 1 \in 0 .. n - 1 /\ SlotAt(i - 1)' = SlotAt(i - 1)
        BY <1>1, <1>7, <2>1 DEF SlotAt
      <3> QED
        BY <1>3, <1>4, <3>1, SlotsApart
    <2>3. SlotAt((m + 1) - 1)' = cq_head
      <3>1. (m + 1) - 1 = m
        BY <1>7
      <3>2. SlotAt(m)' = SlotAt(m) /\ SlotAt(m) = cq_head
        BY <1>1, <1>3, <2>1, SlotsApart DEF SlotAt
      <3> QED
        BY <3>1, <3>2
    <2>4. List(p)' = [i \in 1 .. m + 1 |-> cqe'[SlotAt(i - 1)'].command_id]
      BY <1>10, <2>1 DEF List
    <2>5. List(p) = [i \in 1 .. m |-> cqe[SlotAt(i - 1)].command_id]
      BY <2>1 DEF List
    <2>6. cqe'[SlotAt((m + 1) - 1)'].command_id = cmd[p]
      BY <1>4, <2>3
    <2> DEFINE old == [i \in 1 .. m |-> cqe[SlotAt(i - 1)].command_id]
               new == [i \in 1 .. m + 1 |-> cqe'[SlotAt(i - 1)'].command_id]
    <2>7. m \in Nat /\ m < QSize
      BY <1>7
    <2>8. Len(old) = m /\ Len(new) = m + 1
      BY <2>7
    <2>9. new = Append(old, cmd[p])
      <3>1. Append(old, cmd[p]) = [i \in 1 .. m + 1 |-> IF i = m + 1 THEN cmd[p] ELSE old[i]]
        BY <2>7
      <3>2. \A i \in 1 .. m + 1 : new[i] = IF i = m + 1 THEN cmd[p] ELSE old[i]
        <4>1. SUFFICES ASSUME NEW i \in 1 .. m + 1
                       PROVE  new[i] = IF i = m + 1 THEN cmd[p] ELSE old[i]
          OBVIOUS
        <4>2. CASE i = m + 1
          BY <2>6, <2>7, <4>2
        <4>3. CASE i # m + 1
          BY <2>2, <2>7, <4>3
        <4> QED
          BY <4>2, <4>3
      <3> QED
        BY <3>1, <3>2
    <2> QED
      BY <2>4, <2>5, <2>7, <2>8, <2>9
  <1> QED
    BY <1>1, <1>3, <1>5, <1>11, <1>12 DEF Promise, RingInv

LEMMA SubmitRing ==
  ASSUME NEW p \in Worker, RingInv(p), EntryInv', Submit
  PROVE  Promise(p)
  <1>1. UNCHANGED <<queue, pc, cmd, my_head, posted, host>>
    BY DEF Submit
  <1>2. PICK r \in Req : /\ Submitted = 1 .. r - 1 /\ r - 1 - Len(seen) < QSize - 1
                         /\ todo' = todo \union {r}
    BY DEF Submit
  <1>3. Submitted = todo \union posted \union ({cmd[p]} \ {0})
    BY SubmittedAlone DEF RingInv, EntryInv
  <1>4. r \in Nat /\ r # 0 /\ r \notin Submitted
    BY <1>2 DEF Req
  <1>5. r \notin posted /\ r # cmd[p]
    BY <1>3, <1>4
  <1>6. Filler(p)'
    BY <1>1, <1>2, <1>5 DEF RingInv, Filler, queue, host
  <1>7. Submitted' = Submitted \union {r}
    <2>1. Submitted' = todo' \union posted' \union ({cmd'[p]} \ {0})
      BY <1>6 DEF Submitted, Filler
    <2> QED
      BY <1>1, <1>2, <1>3, <2>1
  <1>8. Cardinality(Submitted') <= Len(seen) + QSize - 1
    <2>1. IsFiniteSet(Submitted) /\ Cardinality(Submitted) = r - 1
      <3>1. Cardinality(1 .. r - 1) = IF 1 > r - 1 THEN 0 ELSE (r - 1) - 1 + 1
        BY <1>4, FS_Interval
      <3>2. Cardinality(1 .. r - 1) = r - 1
        BY <1>4, <3>1
      <3> QED
        BY <1>2, <1>3, <3>2, SubmittedAlone DEF RingInv, EntryInv
    <2>2. Cardinality(Submitted') = Cardinality(Submitted) + 1
      BY <1>4, <1>7, <2>1, FS_AddElement
    <2>3. Len(seen) \in Nat /\ QSize \in Nat
      BY SizeAssumption DEF RingInv, EntryInv, TypeOK
    <2> QED
      BY <1>2, <1>4, <2>1, <2>2, <2>3
  <1>9. UNCHANGED <<cqe, cq_head, phase, pc, my_head, posted, host_head, host_phase, seen>>
    BY <1>1 DEF queue, host
  <1>10. Pending(p)' = Pending(p) /\ NextSlot(p)' = NextSlot(p) /\ NextPhase(p)' = NextPhase(p)
    BY <1>9 DEF Pending, NextSlot, NextPhase, Wraps
  <1>11. Ring(p)'
    BY <1>8, <1>9, <1>10 DEF RingInv, Ring
  <1>12. List(p)' = List(p)
    BY <1>9, <1>10, ListSame, Positions DEF RingInv
  <1> QED
    BY <1>6, <1>9, <1>11, <1>12 DEF Promise, RingInv

(* The host takes the first of the entries it has not seen.                 *)
LEMMA HostReapRing ==
  ASSUME NEW p \in Worker, RingInv(p), EntryInv', HostReap
  PROVE  Promise(p)
  <1> DEFINE n == Pending(p)
             S == NextSlot(p)
             F == NextPhase(p)
  <1>1. /\ cqe[host_head].phase = host_phase
        /\ seen' = Append(seen, cqe[host_head].command_id)
        /\ IF host_head + 1 = QSize
             THEN host_head' = 0 /\ host_phase' = 1 - host_phase
             ELSE host_head' = host_head + 1 /\ host_phase' = host_phase
        /\ UNCHANGED <<queue, work>>
    BY DEF HostReap, NewEntry
  <1>2. F \in {0, 1} /\ host_phase \in {0, 1} /\ S \in Slot /\ host_head \in Slot
        /\ QSize \in Nat /\ QSize > 1 /\ Slot = {t \in Int : 0 <= t /\ t < QSize}
        /\ n \in 0 .. QSize - 1
    BY Positions, SlotsApart DEF RingInv
  <1>3. n = IF host_phase = F THEN S - host_head ELSE QSize - host_head + S
    BY DEF Pending
  <1>4. cqe[host_head].phase = IF host_head < S THEN F ELSE 1 - F
    BY <1>2 DEF RingInv, Ring
  <1>5. UNCHANGED <<cqe, cq_head, phase, pc, cmd, my_head, todo, posted>>
    BY <1>1 DEF queue, work
  <1>6. NextSlot(p)' = S /\ NextPhase(p)' = F /\ Submitted' = Submitted
    BY <1>5 DEF NextSlot, NextPhase, Wraps, Submitted
  <1>7. Pending(p)' = IF host_phase' = F THEN S - host_head' ELSE QSize - host_head' + S
    BY <1>6 DEF Pending
  <1>8. n \in 1 .. QSize - 1 /\ Pending(p)' = n - 1
    <2> HIDE DEF n, S, F
    <2>1. CASE host_head + 1 = QSize
      BY <1>1, <1>2, <1>3, <1>4, <1>7, <2>1
    <2>2. CASE host_head + 1 # QSize
      BY <1>1, <1>2, <1>3, <1>4, <1>7, <2>2
    <2> QED
      BY <2>1, <2>2
  <1>9. Filler(p)'
    BY <1>5 DEF RingInv, Filler
  <1>10. Ring(p)'
    <2>1. seen \in Seq(Req) /\ Len(seen) \in Nat /\ Len(seen') = Len(seen) + 1
      BY <1>1 DEF RingInv, EntryInv, TypeOK
    <2>2. Cardinality(posted) = Len(seen) + n /\ Cardinality(Submitted) <= Len(seen) + QSize - 1
      BY DEF RingInv, Ring
    <2>3. Cardinality(Submitted) \in Nat
      BY SubmittedAlone DEF RingInv, EntryInv
    <2>4. Cardinality(posted') = Len(seen') + Pending(p)'
      BY <1>2, <1>5, <1>8, <2>1, <2>2
    <2>5. Cardinality(Submitted') <= Len(seen') + QSize - 1
      BY <1>2, <1>6, <2>1, <2>2, <2>3
    <2>6. Pending(p)' \in 0 .. QSize - 1
      BY <1>2, <1>8
    <2>7. \A s \in Slot : cqe'[s].phase = IF s < NextSlot(p)' THEN NextPhase(p)'
                                          ELSE 1 - NextPhase(p)'
      BY <1>5, <1>6 DEF RingInv, Ring
    <2> QED
      BY <2>4, <2>5, <2>6, <2>7 DEF Ring
  <1>11. /\ List(p) # <<>> /\ Head(List(p)) = cqe[host_head].command_id
         /\ List(p)' = Tail(List(p))
    <2>1. PICK m \in 1 .. QSize - 1 : m = n
      BY <1>8
    <2> DEFINE old == [i \in 1 .. m |-> cqe[SlotAt(i - 1)].command_id]
               new == [i \in 1 .. m - 1 |-> cqe'[SlotAt(i - 1)'].command_id]
    <2>2. List(p) = old /\ List(p)' = new
      BY <1>8, <2>1 DEF List
    <2>3. \A i \in 1 .. m - 1 : SlotAt(i - 1)' = SlotAt((i + 1) - 1)
      <3>1. SUFFICES ASSUME NEW i \in 1 .. m - 1 PROVE SlotAt(i - 1)' = SlotAt(i)
        BY <1>2
      <3>2. SlotAt(i - 1)' = IF host_head' + (i - 1) < QSize THEN host_head' + (i - 1)
                             ELSE host_head' + (i - 1) - QSize
        BY DEF SlotAt
      <3>3. SlotAt(i) = IF host_head + i < QSize THEN host_head + i ELSE host_head + i - QSize
        BY DEF SlotAt
      <3>4. i \in Int /\ 1 <= i /\ i < QSize
        BY <1>2
      <3> QED
        BY <1>1, <1>2, <3>2, <3>3, <3>4
    <2>4. \A i \in 1 .. m - 1 : new[i] = old[i + 1]
      BY <1>2, <1>5, <2>3
    <2>5. SlotAt(1 - 1) = host_head
      BY <1>2 DEF SlotAt
    <2>6. m \in Nat /\ m > 0
      BY <1>2
    <2>7. old # <<>> /\ Head(old) = cqe[host_head].command_id
      <3>1. 1 \in 1 .. m /\ old[1] = cqe[host_head].command_id /\ Len(old) = m
        BY <2>5, <2>6
      <3> QED
        BY <2>6, <3>1
    <2>8. new = Tail(old)
      <3>1. Tail(old) = [i \in 1 .. m - 1 |-> old[i + 1]]
        BY <2>6
      <3> QED
        BY <2>4, <3>1
    <2> QED
      BY <2>2, <2>7, <2>8
  <1> QED
    BY <1>1, <1>5, <1>9, <1>10, <1>11 DEF Promise, RingInv

LEMMA RingNext ==
  ASSUME NEW p \in Worker, Poster = {p}, RingInv(p), [Next]_vars
  PROVE  Promise(p)
  <1>1. EntryInv'
    BY EntryNext DEF RingInv
  <1>2. ASSUME NEW w \in Worker, Fill(w) PROVE Promise(p)
    <2>1. w = p
      <3>1. CASE ReadHead(w)
        BY <3>1 DEF ReadHead
      <3>2. CASE LockEntry(w) \/ WriteEntry(w) \/ WriteStatus(w) \/ AdvanceHead(w) \/ RaiseReady(w)
        <4>1. pc[w] \in Filling
          BY <3>2 DEF LockEntry, WriteEntry, WriteStatus, AdvanceHead, RaiseReady, At, Filling
        <4> QED
          BY <4>1 DEF RingInv, Filler
      <3> QED
        BY <1>2, <3>1, <3>2 DEF Fill
    <2> QED
      BY <1>1, <1>2, <2>1, FillQuietRing, WriteEntryRing, WriteStatusRing, AdvanceHeadRing
      DEF Fill
  <1>3. ASSUME NEW w \in Worker, Scan(w) PROVE Promise(p)
    BY <1>1, <1>3, ScanRing
  <1>4. CASE Submit
    BY <1>1, <1>4, SubmitRing
  <1>5. CASE HostStep
    <2>1. CASE HostReap
      BY <1>1, <2>1, HostReapRing
    <2>2. CASE HostIrq \/ HostDone
      <3>1. UNCHANGED <<queue, work, host_head, host_phase, seen>>
        BY <2>2 DEF HostIrq, HostDone
      <3>2. Filler(p)' /\ Submitted' = Submitted
        BY <3>1 DEF RingInv, Filler, Submitted, queue, work
      <3> QED
        BY <1>1, <3>1, <3>2, QuietRing DEF queue, work
    <2> QED
      BY <1>5, <2>1, <2>2 DEF HostStep
  <1>6. CASE UNCHANGED vars
    <2>1. Filler(p)' /\ Submitted' = Submitted
      BY <1>6 DEF RingInv, Filler, Submitted, vars
    <2> QED
      BY <1>1, <1>6, <2>1, QuietRing DEF vars
  <1> QED
    BY <1>2, <1>3, <1>4, <1>5, <1>6 DEF Next

(* A queue that one worker fills implements CompletionFifo: every           *)
(* completion is seen once and in the order of posting, and none is         *)
(* overwritten, for every length of the queue and however often the phase   *)
(* tag turns.                                                               *)
THEOREM OnePosterFifo ==
  ASSUME NEW p \in Worker, Poster = {p}
  PROVE  Spec => FifoSpec
  <1>1. Init => RingInv(p) /\ Fifo!Init
    BY RingInit, UnseenList DEF Init, Fifo!Init
  <1>2. RingInv(p) /\ [Next]_vars => RingInv(p)' /\ [Fifo!Next]_(Fifo!fvars)
    <2> SUFFICES ASSUME RingInv(p), [Next]_vars
                 PROVE  RingInv(p)' /\ [Fifo!Next]_(Fifo!fvars)
      OBVIOUS
    <2>1. Promise(p)
      BY RingNext
    <2>2. Unseen = List(p) /\ Unseen' = List(p)'
      BY <2>1, UnseenList DEF Promise
    <2>3. CASE UNCHANGED <<posted, seen>> /\ List(p)' = List(p)
      BY <2>1, <2>2, <2>3 DEF Promise, Fifo!fvars
    <2>4. CASE /\ posted' = posted \union {cmd[p]} /\ cmd[p] \in Req \ posted
               /\ Len(List(p)) < QSize
               /\ List(p)' = Append(List(p), cmd[p]) /\ seen' = seen
      <3>1. Fifo!Post(cmd[p])
        BY <2>2, <2>4 DEF Fifo!Post
      <3> QED
        BY <2>1, <2>4, <3>1 DEF Promise, Fifo!Next
    <2>5. CASE /\ List(p) # <<>> /\ posted' = posted
               /\ seen' = Append(seen, Head(List(p))) /\ List(p)' = Tail(List(p))
      <3>1. Fifo!See
        BY <2>2, <2>5 DEF Fifo!See
      <3> QED
        BY <2>1, <3>1 DEF Promise, Fifo!Next
    <2> QED
      BY <2>1, <2>3, <2>4, <2>5 DEF Promise
  <1> QED
    BY <1>1, <1>2, PTL DEF Spec, FifoSpec, Fifo!Spec

LEMMA SetOfAppend ==
  ASSUME NEW T, NEW s \in Seq(T), NEW x \in T
  PROVE  ToSet(Append(s, x)) = ToSet(s) \union {x}
  <1>1. DOMAIN s = 1 .. Len(s) /\ DOMAIN Append(s, x) = 1 .. Len(s) + 1 /\ Len(s) \in Nat
    OBVIOUS
  <1>2. /\ \A i \in 1 .. Len(s) : Append(s, x)[i] = s[i]
        /\ Append(s, x)[Len(s) + 1] = x
    OBVIOUS
  <1>3. \A i \in 1 .. Len(s) + 1 : i \in 1 .. Len(s) \/ i = Len(s) + 1
    BY <1>1
  <1>4. 1 .. Len(s) \subseteq 1 .. Len(s) + 1 /\ Len(s) + 1 \in 1 .. Len(s) + 1
    BY <1>1
  <1> QED
    BY <1>1, <1>2, <1>3, <1>4, Zenon DEF ToSet

LEMMA SetOfTail ==
  ASSUME NEW T, NEW s \in Seq(T), s # <<>>
  PROVE  ToSet(s) \subseteq {Head(s)} \union ToSet(Tail(s))
  <1>1. ASSUME NEW i \in 1 .. Len(s), i # 1
        PROVE  i - 1 \in DOMAIN Tail(s) /\ Tail(s)[i - 1] = s[i]
    BY <1>1
  <1>2. DOMAIN s = 1 .. Len(s) /\ s[1] = Head(s)
    OBVIOUS
  <1>3. ASSUME NEW i \in DOMAIN s
        PROVE  s[i] \in {Head(s)} \union ToSet(Tail(s))
    <2>1. CASE i = 1
      BY <1>2, <2>1
    <2>2. CASE i # 1
      BY <1>1, <1>2, <2>2, Zenon DEF ToSet
    <2> QED
      BY <2>1, <2>2
  <1> QED
    BY <1>3, Zenon DEF ToSet

(* With one worker that fills the queue nothing is lost: what is posted was *)
(* seen or will be found.  (With two, run completion_race loses one.)       *)
THEOREM OnePosterLosesNothing ==
  ASSUME NEW p \in Worker, Poster = {p}
  PROVE  Spec => []NothingLost
  <1> DEFINE Kept == posted \subseteq ToSet(seen) \union ToSet(List(p))
  <1>1. Init => RingInv(p) /\ Kept
    BY RingInit DEF Init
  <1>2. RingInv(p) /\ Kept /\ [Next]_vars => RingInv(p)' /\ Kept'
    <2> SUFFICES ASSUME RingInv(p), Kept, [Next]_vars
                 PROVE  RingInv(p)' /\ Kept'
      OBVIOUS
    <2>1. Promise(p)
      BY RingNext
    <2>2. Len(List(p)) \in Nat /\ List(p) \in Seq(Req \union {0}) /\ seen \in Seq(Req)
      <3>1. Pending(p) \in Nat
        BY SlotsApart
      <3>2. \A i \in 1 .. Pending(p) : cqe[SlotAt(i - 1)].command_id \in Req \union {0}
        <4>1. \A i \in 1 .. Pending(p) : i - 1 \in 0 .. Pending(p) - 1
          BY <3>1
        <4> QED
          BY <4>1, SlotsApart DEF RingInv, EntryInv, TypeOK
      <3> QED
        BY <3>1, <3>2 DEF List, RingInv, EntryInv, TypeOK
    <2>3. CASE UNCHANGED <<posted, seen>> /\ List(p)' = List(p)
      BY <2>1, <2>3 DEF Promise
    <2>4. CASE /\ posted' = posted \union {cmd[p]} /\ cmd[p] \in Req \ posted
               /\ List(p)' = Append(List(p), cmd[p]) /\ seen' = seen
      <3>1. ToSet(List(p)') = ToSet(List(p)) \union {cmd[p]}
        BY <2>2, <2>4, SetOfAppend
      <3> QED
        BY <2>1, <2>4, <3>1 DEF Promise
    <2>5. CASE /\ List(p) # <<>> /\ posted' = posted
               /\ seen' = Append(seen, Head(List(p))) /\ List(p)' = Tail(List(p))
      <3>1. ToSet(List(p)) \subseteq {Head(List(p))} \union ToSet(Tail(List(p)))
        BY <2>2, <2>5, SetOfTail
      <3>2. ToSet(seen') = ToSet(seen) \union {Head(List(p))}
        <4>1. Head(List(p)) \in Req \union {0} /\ seen \in Seq(Req \union {0})
          BY <2>2, <2>5
        <4> QED
          BY <2>5, <4>1, SetOfAppend
      <3> QED
        BY <2>1, <2>5, <3>1, <3>2 DEF Promise
    <2> QED
      BY <2>1, <2>3, <2>4, <2>5 DEF Promise
  <1>3. RingInv(p) /\ Kept => NothingLost
    BY UnseenList DEF NothingLost
  <1> QED
    BY <1>1, <1>2, <1>3, PTL DEF Spec

=============================================================================
