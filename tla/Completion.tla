----------------------------- MODULE Completion -----------------------------
(***************************************************************************)
(* One I/O completion queue (io.c): workers fill entries under entry_lock, *)
(* every worker looks whether an interrupt is to be sent, under irq_lock,  *)
(* and the host, which is external, answers the interrupt by taking the    *)
(* entries whose phase tag is new.                                         *)
(*                                                                         *)
(* A step of a worker is one access to what others may change meanwhile;   *)
(* stores become visible in program order (x86).  The queue has interrupts *)
(* enabled.  What goes before the call of __fill_cq_result is in IoQueue.  *)
(***************************************************************************)
EXTENDS Integers, Sequences, SequencesExt

CONSTANTS
  Worker,     \* the I/O worker threads
  Poster,     \* those that were given commands of this queue
  QSize,      \* queue_size
  NrReq       \* bound: commands, numbered as the host submits them

Free == "free"    \* no thread holds the lock
Req  == 1 .. NrReq
Slot == 0 .. QSize - 1

ASSUME WorkerAssumption == Poster \subseteq Worker /\ Free \notin Worker
ASSUME SizeAssumption == QSize \in Nat \ {0, 1} /\ NrReq \in Nat

VARIABLES
  cqe,                  \* the entries, in memory of the host
  cq_head, phase, interrupt_ready, entry_lock, irq_lock,
  pc,                   \* control point of each worker
  cmd, my_head,         \* in __fill_cq_result: its command, its copy of cq_head
  todo,                 \* commands submitted, not yet taken up by a worker
  posted,               \* commands whose entry was made visible
  irq,                  \* an interrupt is pending at the host
  hpc, host_head, host_phase, seen

queue == <<cqe, cq_head, phase, interrupt_ready, entry_lock, irq_lock>>
work  == <<pc, cmd, my_head, todo, posted>>
host  == <<irq, hpc, host_head, host_phase, seen>>
vars  == <<cqe, cq_head, phase, interrupt_ready, entry_lock, irq_lock, pc, cmd, my_head,
           todo, posted, irq, hpc, host_head, host_phase, seen>>

Init ==
  /\ cqe = [s \in Slot |-> [command_id |-> 0, phase |-> 0]]
  /\ cq_head = 0 /\ phase = 1 /\ interrupt_ready = FALSE
  /\ entry_lock = Free /\ irq_lock = Free
  /\ pc = [w \in Worker |-> "walk"]
  /\ cmd = [w \in Worker |-> 0] /\ my_head = [w \in Worker |-> 0]
  /\ todo = {} /\ posted = {}
  /\ irq = FALSE /\ hpc = "idle" /\ host_head = 0 /\ host_phase = 1 /\ seen = <<>>

At(w, from, to) == pc[w] = from /\ pc' = [pc EXCEPT ![w] = to]

-----------------------------------------------------------------------------
(* __fill_cq_result.  cq_head is read before the lock is taken. *)
ReadHead(w) ==
  /\ w \in Poster
  /\ \E r \in todo :
       /\ todo' = todo \ {r}
       /\ cmd' = [cmd EXCEPT ![w] = r]
  /\ my_head' = [my_head EXCEPT ![w] = cq_head]
  /\ At(w, "walk", "lock")
  /\ UNCHANGED <<queue, posted, host>>

LockEntry(w) ==
  /\ entry_lock = Free /\ entry_lock' = w
  /\ At(w, "lock", "entry")
  /\ UNCHANGED <<cqe, cq_head, phase, interrupt_ready, irq_lock, cmd, my_head, todo, posted,
                 host>>

WriteEntry(w) ==
  /\ cqe' = [cqe EXCEPT ![my_head[w]].command_id = cmd[w]]
  /\ At(w, "entry", "status")
  /\ UNCHANGED <<cq_head, phase, interrupt_ready, entry_lock, irq_lock, cmd, my_head, todo,
                 posted, host>>

(* Fault: the entry shows the phase of the round before. *)
WriteStatusOldPhase(w) ==
  /\ cqe' = [cqe EXCEPT ![my_head[w]].phase = 1]
  /\ posted' = posted \union {cmd[w]}
  /\ At(w, "status", "advance")
  /\ UNCHANGED <<cq_head, phase, interrupt_ready, entry_lock, irq_lock, cmd, my_head, todo,
                 host>>

(* The status holds the phase tag: the host can see the entry from here on. *)
WriteStatus(w) ==
  /\ cqe' = [cqe EXCEPT ![my_head[w]].phase = phase]
  /\ posted' = posted \union {cmd[w]}
  /\ At(w, "status", "advance")
  /\ UNCHANGED <<cq_head, phase, interrupt_ready, entry_lock, irq_lock, cmd, my_head, todo,
                 host>>

(* Fault: the head wraps, the phase stays. *)
AdvanceHeadSamePhase(w) ==
  /\ cq_head' = (my_head[w] + 1) % QSize
  /\ At(w, "advance", "ready")
  /\ UNCHANGED <<cqe, phase, interrupt_ready, entry_lock, irq_lock, cmd, my_head, todo, posted,
                 host>>

(* Fault: the head wraps one entry late. *)
AdvanceHeadLate(w) ==
  /\ IF my_head[w] + 1 > QSize
       THEN cq_head' = 0 /\ phase' = 1 - phase
       ELSE cq_head' = my_head[w] + 1 /\ phase' = phase
  /\ At(w, "advance", "ready")
  /\ UNCHANGED <<cqe, interrupt_ready, entry_lock, irq_lock, cmd, my_head, todo, posted, host>>

AdvanceHead(w) ==
  /\ IF my_head[w] + 1 = QSize
       THEN cq_head' = 0 /\ phase' = 1 - phase
       ELSE cq_head' = my_head[w] + 1 /\ phase' = phase
  /\ At(w, "advance", "ready")
  /\ UNCHANGED <<cqe, interrupt_ready, entry_lock, irq_lock, cmd, my_head, todo, posted, host>>

RaiseReady(w) ==
  /\ interrupt_ready' = TRUE
  /\ entry_lock' = Free
  /\ At(w, "ready", "walk")
  /\ UNCHANGED <<cqe, cq_head, phase, irq_lock, cmd, my_head, todo, posted, host>>

-----------------------------------------------------------------------------
(* The scan at the end of every round of nvmev_kthread_io. *)

(* A worker that does not get the lock goes on to its next round. *)
TryIrqLock(w) ==
  /\ \/ /\ irq_lock = Free /\ irq_lock' = w
        /\ At(w, "walk", "ready?")
     \/ /\ irq_lock # Free
        /\ At(w, "walk", "walk")
        /\ UNCHANGED irq_lock
  /\ UNCHANGED <<cqe, cq_head, phase, interrupt_ready, entry_lock, cmd, my_head, todo, posted,
                 host>>

TestReady(w) ==
  /\ \/ interrupt_ready /\ At(w, "ready?", "clear")
     \/ ~interrupt_ready /\ At(w, "ready?", "unlock")
  /\ UNCHANGED <<queue, cmd, my_head, todo, posted, host>>

ClearReady(w) ==
  /\ interrupt_ready' = FALSE
  /\ At(w, "clear", "signal")
  /\ UNCHANGED <<cqe, cq_head, phase, entry_lock, irq_lock, cmd, my_head, todo, posted, host>>

SignalIrq(w) ==
  /\ irq' = TRUE
  /\ At(w, "signal", "unlock")
  /\ UNCHANGED <<queue, cmd, my_head, todo, posted, hpc, host_head, host_phase, seen>>

(* Fault: the flag is cleared once more as the lock is given back. *)
UnlockIrqClears(w) ==
  /\ irq_lock' = Free /\ interrupt_ready' = FALSE
  /\ At(w, "unlock", "walk")
  /\ UNCHANGED <<cqe, cq_head, phase, entry_lock, cmd, my_head, todo, posted, host>>

UnlockIrq(w) ==
  /\ irq_lock' = Free
  /\ At(w, "unlock", "walk")
  /\ UNCHANGED <<cqe, cq_head, phase, interrupt_ready, entry_lock, cmd, my_head, todo, posted,
                 host>>

-----------------------------------------------------------------------------
(* The host, external.  It never has more commands outstanding than leaves *)
(* one entry of the queue empty.  Interrupts are edges: one that is sent   *)
(* while another is pending is the same interrupt.                         *)

Submitted == todo \union posted \union {cmd[w] : w \in {v \in Worker : cmd[v] # 0}}

Submit ==
  /\ \E r \in Req :
       /\ Submitted = 1 .. r - 1
       /\ r - 1 - Len(seen) < QSize - 1
       /\ todo' = todo \union {r}
  /\ UNCHANGED <<queue, pc, cmd, my_head, posted, host>>

NewEntry == cqe[host_head].phase = host_phase

HostIrq ==
  /\ hpc = "idle" /\ irq
  /\ irq' = FALSE /\ hpc' = "reap"
  /\ UNCHANGED <<queue, work, host_head, host_phase, seen>>

HostReap ==
  /\ hpc = "reap" /\ NewEntry
  /\ seen' = Append(seen, cqe[host_head].command_id)
  /\ IF host_head + 1 = QSize
       THEN host_head' = 0 /\ host_phase' = 1 - host_phase
       ELSE host_head' = host_head + 1 /\ host_phase' = host_phase
  /\ UNCHANGED <<queue, work, irq, hpc>>

HostDone ==
  /\ hpc = "reap" /\ ~NewEntry
  /\ hpc' = "idle"
  /\ UNCHANGED <<queue, work, irq, host_head, host_phase, seen>>

-----------------------------------------------------------------------------
Fill(w) ==
  \/ ReadHead(w) \/ LockEntry(w) \/ WriteEntry(w) \/ WriteStatus(w) \/ AdvanceHead(w)
  \/ RaiseReady(w)

Scan(w) ==
  TryIrqLock(w) \/ TestReady(w) \/ ClearReady(w) \/ SignalIrq(w) \/ UnlockIrq(w)

HostStep == HostIrq \/ HostReap \/ HostDone

Next == Submit \/ HostStep \/ \E w \in Worker : Fill(w) \/ Scan(w)

(* The worker threads keep running, and the host serves its interrupts; it *)
(* need not submit.                                                        *)
Spec     == Init /\ [][Next]_vars
FairSpec == Spec /\ WF_vars(HostStep) /\ \A w \in Worker : WF_vars(Fill(w) \/ Scan(w))

-----------------------------------------------------------------------------
(* Properties *)

TypeOK ==
  /\ cqe \in [Slot -> [command_id : Req \union {0}, phase : {0, 1}]]
  /\ cq_head \in Slot /\ phase \in {0, 1} /\ interrupt_ready \in BOOLEAN
  /\ {entry_lock, irq_lock} \subseteq Worker \union {Free}
  /\ pc \in [Worker -> {"walk", "lock", "entry", "status", "advance", "ready", "ready?",
                        "clear", "signal", "unlock"}]
  /\ cmd \in [Worker -> Req \union {0}] /\ my_head \in [Worker -> Slot]
  /\ todo \subseteq Req /\ posted \subseteq Req
  /\ irq \in BOOLEAN /\ hpc \in {"idle", "reap"}
  /\ host_head \in Slot /\ host_phase \in {0, 1}
  /\ seen \in Seq(Req)

(* The entry that is n entries after that of host_head. *)
SlotAt(n) == IF host_head + n < QSize THEN host_head + n ELSE host_head + n - QSize

(* It is new: its phase is what the host will expect when it gets there.   *)
NewAt(n) == cqe[SlotAt(n)].phase = IF host_head + n < QSize THEN host_phase ELSE 1 - host_phase

NrNew == CHOOSE n \in 0 .. QSize : /\ \A m \in 0 .. n - 1 : NewAt(m)
                                   /\ n = QSize \/ ~NewAt(n)

(* The commands in the entries that the host would find now, in order. *)
Unseen == [i \in 1 .. NrNew |-> cqe[SlotAt(i - 1)].command_id]

(* A posted completion is seen once, in order, and is never overwritten    *)
(* before: the entries that look new to the host are a queue.              *)
Fifo == INSTANCE CompletionFifo WITH fifo <- Unseen
FifoSpec == Fifo!Spec

(* No completion is lost: what a worker posted is seen or is still to be   *)
(* found by the host.  (What README.md promises of a list of CPUs that     *)
(* process I/O requests.)                                                  *)
NothingLost == posted \subseteq ToSet(seen) \union ToSet(Unseen)

(* No interrupt is lost: while the host has an entry to take, it is taking *)
(* entries, or an interrupt is pending, or a worker is to send one, or has *)
(* yet to say that one is to be sent.                                      *)
InterruptComes ==
  NewEntry =>
    \/ hpc = "reap" \/ irq \/ interrupt_ready
    \/ \E w \in Worker : pc[w] \in {"clear", "signal", "advance", "ready"}

(* The host sees every completion that is posted. *)
Noticed == \A r \in Req : r \in posted ~> r \in ToSet(seen)
=============================================================================
