-------------------------- MODULE DispatcherProofs --------------------------
(***************************************************************************)
(* Proofs about Dispatcher for every number of LUNs, latency, queue size   *)
(* and list of commands: the host never sees work done faster than the     *)
(* flash does it, nr_in_flight errs by whole rounds only, and exactly the  *)
(* data of a command is moved before the host is told.                     *)
(*                                                                         *)
(* What a LUN does for a command begins when the LUN is free and ends at   *)
(* its next_lun_avail_time, which never goes back (Busy).  A command is    *)
(* completed when its target time has come (Done); for that to stay true   *)
(* the dispatcher must not give a command a second target, that is, every  *)
(* slot it takes holds a command that was posted and not yet taken (Ring). *)
(*                                                                         *)
(* The list of the worker and the ring of completions hold each command    *)
(* once (IoOnce, CqOnce), so that they hold no more than are under way     *)
(* (Few), and a command that is reaped is counted off once (RoundsMissed). *)
(* The worker reads a command from its slot again for every page; the slot *)
(* is still its own, for the host reuses those of reaped commands only     *)
(* (SlotsKept), and so each page adds the next piece (Copying).            *)
(***************************************************************************)
EXTENDS Dispatcher, FiniteSetTheorems, TLAPS

(* Slots are counted round the queue. *)
Wrap(x) == IF x >= queue_size THEN x - queue_size ELSE x

Taking == dpc \in {"io", "gc_high", "gc"}

(* The first slot whose command is not yet taken. *)
Base == IF dpc \in {"io", "gc_high"} THEN sq_entry
        ELSE IF dpc = "gc" THEN NextSlot(sq_entry) ELSE old_dbs.sq

States == {"none", "posted", "dispatched", "copied", "completed", "reaped"}
IoEntry == [command_id : Cmd, slot : Slot]
CqEntry == [command_id : Cmd, sq_head : Slot]
Work == [Lun -> [from : Nat, to : Nat]]

TimeType ==
  /\ next_lun_avail_time \in [Lun -> Nat] /\ lat \in [NandCmd -> Nat]
  /\ now \in Nat /\ nsecs_start \in Nat
  /\ target \in [Cmd -> Nat] /\ busy \in [Cmd -> Work]

QueueType ==
  /\ state \in [Cmd -> States] /\ kind \in [Cmd -> Kind \union {NoKind}]
  /\ sq \in [Slot -> Cmd \union {NoCmd}]
  /\ dbs \in [sq : Slot, cq : Slot] /\ old_dbs \in [sq : Slot, cq : Slot]
  /\ sq_entry \in Slot /\ new_db \in Slot
  /\ dpc \in {"sq", "io", "gc_high", "gc", "cq"}

WorkerType ==
  /\ io \in Seq(IoEntry) /\ cq \in Seq(CqEntry)
  /\ wpc \in {"round", "copy", "due"}
  /\ {"command_id", "slot"} \subseteq DOMAIN cp
  /\ wpc # "round" => cp.command_id \in Cmd /\ cp.slot \in Slot

(* m commands are posted and not yet taken, behind the F commands that are, *)
(* and k of them are taken in this pass.                                   *)
RingOf(F, m, k) ==
  /\ F + m <= MaxCommands /\ m <= queue_size - 1 /\ k <= m
  /\ dbs.sq = Wrap(Base + m)
  /\ Taking => new_db = Wrap(Base + k)
  /\ dpc = "gc_high" => k > 0
  /\ \A j \in 0 .. m - 1 : sq[Wrap(Base + j)] = F + 1 + j
  /\ \A c \in Cmd : /\ c <= F => state[c] \notin {"none", "posted"}
                    /\ F < c /\ c <= F + m => state[c] = "posted"
                    /\ c > F + m => state[c] = "none"

Ring == \E F, m, k \in Nat : RingOf(F, m, k)

Done ==
  /\ \A c \in Cmd : state[c] \in {"completed", "reaped"} => target[c] <= now
  /\ \A i \in 1 .. Len(cq) : state[cq[i].command_id] \in {"completed", "reaped"}
  /\ wpc = "copy" => state[cp.command_id] = "dispatched"
  /\ wpc = "due" => state[cp.command_id] = "copied"

Busy ==
  \A c \in Cmd, l \in Lun :
    /\ busy[c][l].from <= busy[c][l].to
    /\ busy[c][l].to <= next_lun_avail_time[l]
    /\ busy[c][l].to <= target[c]
    /\ \A d \in Cmd \ {c} : \/ busy[c][l].to <= busy[d][l].from
                            \/ busy[d][l].to <= busy[c][l].from

IInv == TimeType /\ QueueType /\ WorkerType /\ Ring /\ Done /\ Busy

-----------------------------------------------------------------------------
(* Numbers and pages *)

(* The product of two natural numbers is one. *)
LEMMA Products == \A m, n \in Nat : m * n \in Nat
  OBVIOUS

(* A LUN begins when it is free, and not before it is asked. *)
LEMMA Starts ==
  ASSUME next_lun_avail_time \in [Lun -> Nat], NEW l \in Lun, NEW stime \in Nat
  PROVE  /\ NandStart(l, stime) \in Nat /\ NandStart(l, stime) >= stime
         /\ NandStart(l, stime) >= next_lun_avail_time[l]
  BY DEF NandStart

LEMMA Ends ==
  ASSUME next_lun_avail_time \in [Lun -> Nat], lat \in [NandCmd -> Nat],
         NEW l \in Lun, NEW stime \in Nat, NEW c \in NandCmd, NEW n \in Nat
  PROVE  NandEnd(l, c, n, stime) \in Nat /\ NandEnd(l, c, n, stime) >= NandStart(l, stime)
<1>1. n * lat[c] \in Nat
  BY Products
<1> QED
  BY <1>1, Starts DEF NandEnd

(* The pages that a command reads or writes on a LUN are a finite number.   *)
LEMMA PagesOfInterval ==
  ASSUME NEW a \in Int, NEW b \in Int, NEW S, S \subseteq a .. b
  PROVE  Cardinality(S) \in Nat
<1>1. IsFiniteSet(a .. b)
  BY FS_Interval
<1>2. IsFiniteSet(S)
  BY <1>1, FS_Subset
<1> QED
  BY <1>2, FS_CardinalityType

LEMMA Pages ==
  ASSUME NEW k \in Kind \union {NoKind}
  PROVE  ReadPages(k) \in [Lun -> Nat] /\ WritePages(k) \in [Lun -> Nat]
<1>1. FirstLpn(k) \in Int /\ LastLpn(k) \in Int
  BY DEF FirstLpn, LastLpn, Kind, NoKind, PAGE_SIZE
<1>2. \A l \in Lun : Cardinality({p \in FirstLpn(k) .. LastLpn(k) : maptbl[p] = l}) \in Nat
  BY <1>1, PagesOfInterval
<1>3. \A l \in Lun : Cardinality({p \in FirstLpn(k) .. LastLpn(k) : WriteLun(k, p) = l}) \in Nat
  BY <1>1, PagesOfInterval
<1> QED
  BY <1>2, <1>3 DEF ReadPages, WritePages

(* What a read or a write gives to the LUNs: nothing before a LUN is free,  *)
(* all of it done when the LUN is free again and before the target time.   *)
BusyFor(c, pages) ==
  [l \in Lun |-> IF pages[l] = 0 THEN [from |-> 0, to |-> 0]
                 ELSE [from |-> NandStart(l, nsecs_start),
                       to |-> NandEnd(l, c, pages[l], nsecs_start)]]

LEMMA GivenToLuns ==
  ASSUME TimeType, NEW c \in NandCmd, NEW pages \in [Lun -> Nat],
         ssd_advance_status(c, pages, nsecs_start)
  PROVE  /\ next_lun_avail_time' \in [Lun -> Nat]
         /\ \A l \in Lun : next_lun_avail_time'[l] >= next_lun_avail_time[l]
         /\ BusyFor(c, pages) \in Work
         /\ \A l \in Lun : /\ BusyFor(c, pages)[l].from <= BusyFor(c, pages)[l].to
                           /\ BusyFor(c, pages)[l].to <= next_lun_avail_time'[l]
                           /\ \/ BusyFor(c, pages)[l].to = 0
                              \/ BusyFor(c, pages)[l].from >= next_lun_avail_time[l]
  <1>1. /\ next_lun_avail_time \in [Lun -> Nat] /\ lat \in [NandCmd -> Nat] /\ nsecs_start \in Nat
    BY DEF TimeType
  <1>2. \A l \in Lun : /\ NandStart(l, nsecs_start) \in Nat
                       /\ NandEnd(l, c, pages[l], nsecs_start) \in Nat
                       /\ NandEnd(l, c, pages[l], nsecs_start) >= NandStart(l, nsecs_start)
                       /\ NandStart(l, nsecs_start) >= next_lun_avail_time[l]
    BY <1>1, Starts, Ends
  <1>3. next_lun_avail_time' = [l \in Lun |-> IF pages[l] = 0 THEN next_lun_avail_time[l]
                                              ELSE NandEnd(l, c, pages[l], nsecs_start)]
    BY DEF ssd_advance_status
  <1>4. next_lun_avail_time' \in [Lun -> Nat]
    BY <1>1, <1>2, <1>3
  <1>5. \A l \in Lun : next_lun_avail_time'[l] >= next_lun_avail_time[l]
    BY <1>1, <1>2, <1>3
  <1>6. BusyFor(c, pages) \in Work
    BY <1>2 DEF BusyFor, Work
  <1>7. ASSUME NEW l \in Lun
        PROVE  /\ BusyFor(c, pages)[l].from <= BusyFor(c, pages)[l].to
               /\ BusyFor(c, pages)[l].to <= next_lun_avail_time'[l]
               /\ \/ BusyFor(c, pages)[l].to = 0
                  \/ BusyFor(c, pages)[l].from >= next_lun_avail_time[l]
    <2>1. CASE pages[l] = 0
      BY <2>1, <1>1, <1>3 DEF BusyFor
    <2>2. CASE pages[l] # 0
      BY <2>2, <1>2, <1>3 DEF BusyFor
    <2> QED
      BY <2>1, <2>2
  <1> QED
    BY <1>4, <1>5, <1>6, <1>7

LEMMA LatencyCovers ==
  ASSUME TimeType, NEW c \in NandCmd, NEW pages \in [Lun -> Nat],
         NEW max_lat \in MaxLatencies(c, pages, nsecs_start)
  PROVE  /\ nsecs_start + max_lat \in Nat
         /\ \A l \in Lun : BusyFor(c, pages)[l].to <= nsecs_start + max_lat
  <1>1. /\ next_lun_avail_time \in [Lun -> Nat] /\ lat \in [NandCmd -> Nat] /\ nsecs_start \in Nat
    BY DEF TimeType
  <1>2. \A l \in Lun : /\ NandStart(l, nsecs_start) \in Nat
                       /\ NandStart(l, nsecs_start) >= nsecs_start
                       /\ NandEnd(l, c, pages[l], nsecs_start) \in Nat
                       /\ NandEnd(l, c, pages[l], nsecs_start) >= NandStart(l, nsecs_start)
    BY <1>1, Starts, Ends
  <1>3. max_lat \in Nat
    BY <1>1, <1>2 DEF MaxLatencies
  <1>4. IsMaxLatency(max_lat, c, pages, nsecs_start)
    BY DEF MaxLatencies
  <1>5. ASSUME NEW l \in Lun
        PROVE  BusyFor(c, pages)[l].to <= nsecs_start + max_lat
    <2>1. CASE pages[l] = 0
      BY <2>1, <1>1, <1>3 DEF BusyFor
    <2>2. CASE pages[l] # 0
      <3>1. NandEnd(l, c, pages[l], nsecs_start) - nsecs_start <= max_lat
        BY <2>2, <1>4 DEF IsMaxLatency
      <3> QED
        BY <3>1, <2>2, <1>1, <1>2, <1>3 DEF BusyFor
    <2> QED
      BY <2>1, <2>2
  <1> QED
    BY <1>1, <1>3, <1>5

(* Cleaning, too, only makes LUNs free later. *)
LEMMA CleaningTakesTime ==
  ASSUME TimeType, do_gc
  PROVE  /\ next_lun_avail_time' \in [Lun -> Nat]
         /\ \A l \in Lun : next_lun_avail_time'[l] >= next_lun_avail_time[l]
  <1>1. /\ next_lun_avail_time \in [Lun -> Nat] /\ lat \in [NandCmd -> Nat] /\ now \in Nat
    BY DEF TimeType
  <1>2. PICK reads \in [Lun -> Nat], writes \in [Lun -> Nat] : GcAdvanceStatus(reads, writes)
    <2>1. CASE GcAdvanceStatus([l \in Lun |-> 0], [l \in Lun |-> 0])
      BY <2>1
    <2>2. CASE \E p \in DOMAIN maptbl :
                 GcAdvanceStatus([l \in Lun |-> IF l = maptbl[p] THEN 1 ELSE 0],
                                 [l \in Lun |-> IF l = wp THEN 1 ELSE 0])
      BY <2>2
    <2> QED
      BY <2>1, <2>2 DEF do_gc
  <1>3. \A l \in Lun : GcTime(reads, writes, l) \in Nat
    <2>1. \A l \in Lun : /\ reads[l] * lat["NAND_READ"] \in Nat
                         /\ writes[l] * lat["NAND_WRITE"] \in Nat
      BY <1>1, Products DEF NandCmd
    <2> QED
      BY <2>1, <1>1 DEF GcTime, NandCmd
  <1>4. \A l \in Lun : /\ NandStart(l, now) \in Nat
                       /\ NandStart(l, now) >= next_lun_avail_time[l]
    BY <1>1, Starts
  <1> QED
    BY <1>1, <1>2, <1>3, <1>4 DEF GcAdvanceStatus

-----------------------------------------------------------------------------
(* Types of times *)

(* The command that the dispatcher takes was posted and is taken by nobody. *)
LEMMA CurrentPosted ==
  ASSUME QueueType, Ring, dpc = "gc_high"
  PROVE  Current \in Cmd /\ state[Current] = "posted" /\ kind[Current] \in Kind \union {NoKind}
  <1>1. PICK F, m, k \in Nat : RingOf(F, m, k)
    BY DEF Ring
  <1>2. m > 0 /\ F + 1 <= MaxCommands /\ F < F + 1 /\ F + 1 <= F + m
    BY <1>1, PathAssumption DEF RingOf
  <1>3. Base = sq_entry /\ sq_entry \in Slot
    BY DEF Base, QueueType
  <1>4. Wrap(Base + 0) = sq_entry
    BY <1>3, PathAssumption DEF Wrap, Slot
  <1>5. Current = F + 1
    <2>1. sq[Wrap(Base + 0)] = F + 1 + 0
      BY <1>1, <1>2 DEF RingOf
    <2> QED
      BY <2>1, <1>4 DEF Current
  <1>6. Current \in Cmd
    BY <1>2, <1>5, PathAssumption DEF Cmd
  <1>7. state[Current] = "posted"
    BY <1>1, <1>2, <1>5, <1>6 DEF RingOf
  <1> QED
    BY <1>6, <1>7 DEF QueueType

LEMMA TimeTypeStep ==
  ASSUME IInv, [Next]_vars
  PROVE  TimeType'
  <1> USE DEF IInv
  <1>0. NotBusy \in Work
    BY DEF NotBusy, Work
  <1>1. CASE StartIo
    BY <1>1 DEF StartIo, TimeType, timingVars, hostVars
  <1>2. CASE GcHigh
    <2>1. next_lun_avail_time' \in [Lun -> Nat]
      BY <1>2, CleaningTakesTime DEF GcHigh
    <2> QED
      BY <1>2, <2>1 DEF GcHigh, do_gc, TimeType, hostVars, dispVars
  <1>3. CASE CheckGcRun
    <2>1. next_lun_avail_time' \in [Lun -> Nat]
      BY <1>3, CleaningTakesTime DEF CheckGcRun
    <2> QED
      BY <1>3, <2>1 DEF CheckGcRun, do_gc, TimeType, hostVars
  <1>4. ASSUME NEW c \in NandCmd, NEW pages \in [Lun -> Nat], Access(c, pages), UNCHANGED ioFrame
        PROVE  TimeType'
    <2>1. next_lun_avail_time' \in [Lun -> Nat] /\ BusyFor(c, pages) \in Work
      BY <1>4, GivenToLuns DEF Access
    <2>2. busy' = [busy EXCEPT ![Current] = BusyFor(c, pages)]
      BY <1>4 DEF Access, BusyWith, BusyFor
    <2>3. PICK max_lat \in MaxLatencies(c, pages, nsecs_start) : Enqueue(nsecs_start + max_lat)
      BY <1>4 DEF Access
    <2>4. nsecs_start + max_lat \in Nat
      BY <2>3, LatencyCovers
    <2>5. target' \in [Cmd -> Nat]
      BY <2>3, <2>4 DEF Enqueue, TimeType
    <2> QED
      BY <1>4, <2>1, <2>2, <2>5 DEF Access, TimeType, ioFrame
  <1>5. CASE ssd_read
    <2>1. ReadPages(kind[Current]) \in [Lun -> Nat]
      BY <1>5, CurrentPosted, Pages DEF ssd_read
    <2> QED
      BY <1>4, <1>5, <2>1 DEF ssd_read, NandCmd
  <1>6. CASE ssd_write
    <2>1. WritePages(kind[Current]) \in [Lun -> Nat]
      BY <1>6, CurrentPosted, Pages DEF ssd_write
    <2> QED
      BY <1>4, <1>6, <2>1 DEF ssd_write, NandCmd
  <1>7. CASE NoFlashAccess
    <2>1. target' \in [Cmd -> Nat]
      <3>1. PICK t \in Nat : Enqueue(t)
        BY <1>7 DEF NoFlashAccess, TimeType
      <3> QED
        BY <3>1 DEF Enqueue, TimeType
    <2>2. busy' \in [Cmd -> Work]
      BY <1>0, <1>7 DEF NoFlashAccess, TimeType
    <2>3. nsecs_start' = nsecs_start /\ UNCHANGED timingVars
      BY <1>7 DEF NoFlashAccess, ioFrame
    <2> QED
      BY <2>1, <2>2, <2>3 DEF TimeType, timingVars
  <1>8. CASE ProcFile
    BY <1>8, LatencyAssumption DEF ProcFile, adjust_ftl_latency, TimeType, timingVars, hostVars, dispVars
  <1>9. CASE Tick
    BY <1>9 DEF Tick, TimeType, hostVars, dispVars
  <1>10. CASE UNCHANGED <<timingVars, target, nsecs_start, busy>>
    BY <1>10 DEF TimeType, timingVars
  <1> QED
    BY <1>1, <1>2, <1>3, <1>5, <1>6, <1>7, <1>8, <1>9, <1>10
    DEF Next, DispatcherStep, StartIoSq, CheckGcSkip, EndIoSq, ProcIoCq, WorkerStep, StartCopy,
        CopyPage, PostCompletion, HostPost, HostReaps, workFrame, hostVars, dispVars, timingVars, vars

-----------------------------------------------------------------------------
(* Types of queues and of the worker *)

LEMMA Slots == 0 \in Slot /\ \A x \in Slot : NextSlot(x) \in Slot
  BY PathAssumption DEF Slot, NextSlot

LEMMA QueueTypeStep ==
  ASSUME IInv, [Next]_vars
  PROVE  QueueType'
  <1> USE DEF IInv
  <1>1. CASE StartIoSq
    <2>1. dbs.sq \in Slot /\ old_dbs.sq \in Slot
      BY DEF QueueType
    <2> QED
      BY <1>1, <2>1 DEF StartIoSq, QueueType, hostVars
  <1>2. CASE StartIo
    BY <1>2 DEF StartIo, QueueType, hostVars
  <1>3. CASE GcHigh
    BY <1>3 DEF GcHigh, QueueType, hostVars, dispVars
  <1>4. CASE ssd_read \/ ssd_write \/ NoFlashAccess
    <2>1. PICK t : Enqueue(t)
      BY <1>4 DEF ssd_read, ssd_write, Access, NoFlashAccess
    <2>2. UNCHANGED ioFrame
      BY <1>4 DEF ssd_read, ssd_write, NoFlashAccess
    <2> QED
      BY <2>1, <2>2 DEF Enqueue, ioFrame, QueueType, States
  <1>5. CASE CheckGcSkip
    BY <1>5, Slots DEF CheckGcSkip, CountCommand, QueueType, hostVars
  <1>6. CASE CheckGcRun
    BY <1>6, Slots DEF CheckGcRun, CountCommand, QueueType, hostVars
  <1>7. CASE EndIoSq
    BY <1>7 DEF EndIoSq, QueueType, hostVars
  <1>8. CASE ProcIoCq
    BY <1>8 DEF ProcIoCq, QueueType, hostVars
  <1>9. CASE WorkerStep
    <2>1. state' \in [Cmd -> States]
      BY <1>9 DEF WorkerStep, StartCopy, CopyPage, PostCompletion, Complete, QueueType, States
    <2>2. UNCHANGED workFrame
      BY <1>9 DEF WorkerStep, StartCopy, CopyPage, PostCompletion
    <2> QED
      BY <2>1, <2>2 DEF workFrame, dispVars, QueueType
  <1>10. ASSUME NEW c \in Cmd, NEW k \in Kinds[c], HostPost(c, k)
         PROVE  QueueType'
    <2>1. k \in Kind
      BY PathAssumption
    <2>2. NextSlot(dbs.sq) \in Slot
      BY Slots DEF QueueType
    <2> QED
      BY <1>10, <2>1, <2>2 DEF HostPost, QueueType, States, dispVars
  <1>11. CASE HostReaps
    <2>1. NextSlot(dbs.cq) \in Slot
      BY Slots DEF QueueType
    <2> QED
      BY <1>11, <2>1 DEF HostReaps, QueueType, States, dispVars
  <1>12. CASE ProcFile \/ Tick
    BY <1>12 DEF ProcFile, Tick, QueueType, hostVars, dispVars
  <1>13. CASE UNCHANGED vars
    BY <1>13 DEF vars, QueueType
  <1> QED
    BY <1>1, <1>2, <1>3, <1>4, <1>5, <1>6, <1>7, <1>8, <1>9, <1>10, <1>11, <1>12, <1>13
    DEF Next, DispatcherStep

(* The list of the worker stays a list of commands and slots. *)
LEMMA InsertType ==
  ASSUME QueueType, WorkerType, Current \in Cmd, NEW t
  PROVE  Insert(Current, t) \in Seq(IoEntry)
  <1>1. [command_id |-> Current, slot |-> sq_entry] \in IoEntry
    BY DEF IoEntry, QueueType
  <1>2. \A i \in 1 .. Len(io) : io[i] \in IoEntry
    BY DEF WorkerType
  <1>3. Len(io) \in Nat
    BY DEF WorkerType
  <1>4. \A i \in 1 .. Len(io) + 1 : StaysAhead(i, t) => i \in 1 .. Len(io)
    BY <1>3 DEF StaysAhead
  <1>5. \A i \in 1 .. Len(io) + 1 : Insert(Current, t)[i] \in IoEntry
    BY <1>1, <1>2, <1>3, <1>4 DEF Insert
  <1> QED
    BY <1>3, <1>5 DEF Insert

LEMMA WithoutType ==
  ASSUME WorkerType, NEW c
  PROVE  Without(c) \in Seq(IoEntry)
  <1>1. \A i \in 1 .. Len(io) : io[i] \in IoEntry
    BY DEF WorkerType
  <1>2. Len(io) \in Nat
    BY DEF WorkerType
  <1>3. \A i \in 1 .. Len(io) - 1 : Without(c)[i] \in IoEntry
    BY <1>1, <1>2 DEF Without
  <1>4. CASE Len(io) = 0
    <2>1. Without(c) = [i \in 1 .. 0 |-> IF \E j \in 1 .. i : io[j].command_id = c
                                           THEN io[i + 1] ELSE io[i]]
      BY <1>4 DEF Without
    <2> QED
      BY <2>1
  <1>5. CASE Len(io) # 0
    BY <1>2, <1>3, <1>5 DEF Without
  <1> QED
    BY <1>4, <1>5

LEMMA WorkerTypeStep ==
  ASSUME IInv, [Next]_vars
  PROVE  WorkerType'
  <1> USE DEF IInv
  <1>1. CASE ssd_read \/ ssd_write \/ NoFlashAccess
    <2>1. PICK t : Enqueue(t)
      BY <1>1 DEF ssd_read, ssd_write, Access, NoFlashAccess
    <2>2. UNCHANGED ioFrame /\ dpc = "gc_high"
      BY <1>1 DEF ssd_read, ssd_write, NoFlashAccess
    <2>3. io' \in Seq(IoEntry)
      BY <2>1, <2>2, CurrentPosted, InsertType DEF Enqueue
    <2> QED
      BY <2>2, <2>3 DEF ioFrame, WorkerType
  <1>2. CASE StartCopy
    <2>1. Head(io) \in IoEntry
      BY <1>2 DEF StartCopy, WorkerType
    <2>2. cp'.command_id = Head(io).command_id /\ cp'.slot = Head(io).slot
            /\ {"command_id", "slot"} \subseteq DOMAIN cp'
      BY <1>2 DEF StartCopy
    <2> QED
      BY <1>2, <2>1, <2>2 DEF StartCopy, IoEntry, WorkerType
  <1>3. CASE CopyPage
    <2>1. cp'.command_id = cp.command_id /\ cp'.slot = cp.slot
            /\ {"command_id", "slot"} \subseteq DOMAIN cp'
      BY <1>3 DEF CopyPage, WorkerType
    <2>2. wpc' \in {"copy", "due"} /\ io' = io /\ cq' = cq /\ wpc = "copy"
      BY <1>3 DEF CopyPage
    <2> QED
      BY <2>1, <2>2 DEF WorkerType
  <1>4. ASSUME NEW e \in IoEntry, Complete(e)
        PROVE  WorkerType'
    <2>1. io' \in Seq(IoEntry)
      BY <1>4, WithoutType DEF Complete
    <2>2. cq' \in Seq(CqEntry)
      BY <1>4 DEF Complete, CqEntry, IoEntry, WorkerType
    <2>3. wpc' = "round" /\ {"command_id", "slot"} \subseteq DOMAIN cp'
      BY <1>4 DEF Complete, NoCopy
    <2> QED
      BY <2>1, <2>2, <2>3 DEF WorkerType
  <1>5. CASE PostCompletion
    <2>1. CASE wpc = "due" /\ Complete([command_id |-> cp.command_id, slot |-> cp.slot])
      <3>1. [command_id |-> cp.command_id, slot |-> cp.slot] \in IoEntry
        BY <2>1 DEF WorkerType, IoEntry
      <3> QED
        BY <2>1, <3>1, <1>4
    <2>2. CASE wpc' = "round" /\ cp' = NoCopy /\ UNCHANGED <<cq, state, io>>
      BY <2>2 DEF WorkerType, NoCopy
    <2>3. CASE io # <<>> /\ Complete(Head(io))
      <3>1. Head(io) \in IoEntry
        BY <2>3 DEF WorkerType
      <3> QED
        BY <2>3, <3>1, <1>4
    <2> QED
      BY <1>5, <2>1, <2>2, <2>3 DEF PostCompletion
  <1>6. CASE HostReaps
    <2>1. cq' \in Seq(CqEntry)
      BY <1>6 DEF HostReaps, WorkerType
    <2> QED
      BY <1>6, <2>1 DEF HostReaps, WorkerType
  <1>7. CASE UNCHANGED <<io, cq, wpc, cp>>
    BY <1>7 DEF WorkerType
  <1>8. CASE UNCHANGED vars
    BY <1>8, <1>7 DEF vars
  <1> QED
    BY <1>1, <1>2, <1>3, <1>5, <1>6, <1>7, <1>8
    DEF Next, DispatcherStep, StartIoSq, StartIo, GcHigh, CheckGcSkip, CheckGcRun, EndIoSq, ProcIoCq,
        WorkerStep, HostPost, ProcFile, Tick, hostVars

-----------------------------------------------------------------------------
(* Commands are completed when their time has come *)

(* Only commands are in the completion queue. *)
LEMMA CompletedCommands ==
  ASSUME WorkerType
  PROVE  \A i \in 1 .. Len(cq) : cq[i].command_id \in Cmd
  <1>1. \A i \in 1 .. Len(cq) : cq[i] \in CqEntry
    BY DEF WorkerType
  <1> QED
    BY <1>1 DEF CqEntry

LEMMA DoneStep ==
  ASSUME IInv, [Next]_vars
  PROVE  Done'
  <1> USE DEF IInv
  <1>1. CASE ssd_read \/ ssd_write \/ NoFlashAccess
    <2>1. PICK t : Enqueue(t)
      BY <1>1 DEF ssd_read, ssd_write, Access, NoFlashAccess
    <2>2. UNCHANGED <<cq, wpc, cp, now>> /\ dpc = "gc_high"
      BY <1>1 DEF ssd_read, ssd_write, NoFlashAccess, Access, ioFrame, timingVars
    <2>3. Current \in Cmd /\ state[Current] = "posted"
      BY <2>2, CurrentPosted
    <2>4. \A c \in Cmd : state'[c] = IF c = Current THEN "dispatched" ELSE state[c]
      BY <2>1 DEF Enqueue, QueueType
    <2>5. \A c \in Cmd : c # Current => target'[c] = target[c]
      BY <2>1 DEF Enqueue, TimeType
    <2>6. \A i \in 1 .. Len(cq) : cq[i].command_id \in Cmd
      BY CompletedCommands
    <2>7. wpc # "round" => cp.command_id \in Cmd
      BY DEF WorkerType
    <2> QED
      BY <2>2, <2>3, <2>4, <2>5, <2>6, <2>7 DEF Done
  <1>2. CASE StartCopy
    <2>1. cp'.command_id = Head(io).command_id /\ state[Head(io).command_id] = "dispatched"
            /\ wpc' = "copy" /\ UNCHANGED <<state, target, now, cq>>
      BY <1>2 DEF StartCopy, workFrame, timingVars
    <2> QED
      BY <2>1 DEF Done
  <1>3. CASE CopyPage
    <2>1. cp'.command_id = cp.command_id /\ UNCHANGED <<target, now, cq>> /\ wpc = "copy"
            /\ cp.command_id \in Cmd
      BY <1>3 DEF CopyPage, workFrame, timingVars, WorkerType
    <2>2. state[cp.command_id] = "dispatched"
      BY <2>1 DEF Done
    <2>3. CASE wpc' = wpc /\ state' = state
      BY <2>1, <2>2, <2>3 DEF Done
    <2>4. CASE wpc' = "due" /\ state' = [state EXCEPT ![cp.command_id] = "copied"]
      <3>1. \A c \in Cmd : state'[c] = IF c = cp.command_id THEN "copied" ELSE state[c]
        BY <2>4 DEF QueueType
      <3>2. \A i \in 1 .. Len(cq) : cq[i].command_id \in Cmd
        BY CompletedCommands
      <3> QED
        BY <2>1, <2>2, <2>4, <3>1, <3>2 DEF Done
    <2> QED
      BY <1>3, <2>3, <2>4 DEF CopyPage
  <1>4. ASSUME NEW e \in IoEntry, Complete(e), UNCHANGED <<target, now>>
        PROVE  Done'
    <2>1. \A c \in Cmd : state'[c] = IF c = e.command_id THEN "completed" ELSE state[c]
      BY <1>4 DEF Complete, QueueType
    <2>2. e.command_id \in Cmd /\ target[e.command_id] <= now
      BY <1>4 DEF Complete, IoEntry
    <2>3. \A i \in 1 .. Len(cq) : cq[i].command_id \in Cmd
      BY CompletedCommands
    <2>4. \A i \in 1 .. Len(cq') : \/ i <= Len(cq) /\ cq'[i] = cq[i]
                                   \/ cq'[i].command_id = e.command_id
      BY <1>4 DEF Complete, WorkerType
    <2>5. \A i \in 1 .. Len(cq') : state'[cq'[i].command_id] \in {"completed", "reaped"}
      BY <2>1, <2>2, <2>3, <2>4 DEF Done, WorkerType
    <2>6. wpc' = "round"
      BY <1>4 DEF Complete
    <2> QED
      BY <1>4, <2>1, <2>2, <2>5, <2>6 DEF Done
  <1>5. CASE PostCompletion
    <2>1. UNCHANGED <<target, now>>
      BY <1>5 DEF PostCompletion, workFrame, timingVars
    <2>2. CASE wpc = "due" /\ Complete([command_id |-> cp.command_id, slot |-> cp.slot])
      <3>1. [command_id |-> cp.command_id, slot |-> cp.slot] \in IoEntry
        BY <2>2 DEF WorkerType, IoEntry
      <3> QED
        BY <2>1, <2>2, <3>1, <1>4
    <2>3. CASE wpc' = "round" /\ UNCHANGED <<cq, state, io>>
      BY <2>1, <2>3 DEF Done
    <2>4. CASE io # <<>> /\ Complete(Head(io))
      <3>1. Head(io) \in IoEntry
        BY <2>4 DEF WorkerType
      <3> QED
        BY <2>1, <2>4, <3>1, <1>4
    <2> QED
      BY <1>5, <2>2, <2>3, <2>4 DEF PostCompletion
  <1>6. ASSUME NEW c \in Cmd, NEW k, HostPost(c, k)
        PROVE  Done'
    <2>1. \A d \in Cmd : state'[d] = IF d = c THEN "posted" ELSE state[d]
      BY <1>6 DEF HostPost, QueueType
    <2>2. state[c] = "none" /\ UNCHANGED <<target, now, cq, wpc, cp>>
      BY <1>6 DEF HostPost, IsNext, timingVars
    <2>3. \A i \in 1 .. Len(cq) : cq[i].command_id \in Cmd
      BY CompletedCommands
    <2>4. wpc # "round" => cp.command_id \in Cmd
      BY DEF WorkerType
    <2> QED
      BY <2>1, <2>2, <2>3, <2>4 DEF Done
  <1>7. CASE HostReaps
    <2>1. Head(cq) = cq[1] /\ Len(cq) >= 1 /\ Head(cq).command_id \in Cmd
      <3>1. Head(cq) = cq[1] /\ Len(cq) \in Nat /\ Len(cq) >= 1
        BY <1>7 DEF HostReaps, WorkerType
      <3> QED
        BY <3>1, CompletedCommands
    <2>2. \A d \in Cmd : state'[d] = IF d = Head(cq).command_id THEN "reaped" ELSE state[d]
      BY <1>7 DEF HostReaps, QueueType
    <2>3. state[Head(cq).command_id] \in {"completed", "reaped"}
      BY <2>1 DEF Done, WorkerType
    <2>4. \A i \in 1 .. Len(cq') : i + 1 \in 1 .. Len(cq) /\ cq'[i] = cq[i + 1]
      BY <1>7 DEF HostReaps, WorkerType
    <2>5. UNCHANGED <<target, now, wpc, cp>>
      BY <1>7 DEF HostReaps, timingVars
    <2>6. \A i \in 1 .. Len(cq) : cq[i].command_id \in Cmd
      BY CompletedCommands
    <2>7. wpc # "round" => cp.command_id \in Cmd
      BY DEF WorkerType
    <2>8. \A i \in 1 .. Len(cq') : state'[cq'[i].command_id] \in {"completed", "reaped"}
      BY <2>2, <2>3, <2>4, <2>6 DEF Done
    <2>9. \A d \in Cmd : state'[d] \in {"completed", "reaped"} => target[d] <= now
      BY <2>1, <2>2, <2>3 DEF Done
    <2>10. /\ wpc = "copy" => state'[cp.command_id] = "dispatched"
           /\ wpc = "due" => state'[cp.command_id] = "copied"
      BY <2>2, <2>3, <2>7 DEF Done
    <2> QED
      BY <2>5, <2>8, <2>9, <2>10 DEF Done
  <1>8. CASE Tick
    <2>1. now' = now + 1 /\ UNCHANGED <<state, target, cq, wpc, cp>>
      BY <1>8 DEF Tick, hostVars
    <2> QED
      BY <2>1 DEF Done, TimeType
  <1>9. CASE UNCHANGED <<state, target, now, cq, wpc, cp>>
    BY <1>9 DEF Done
  <1> QED
    BY <1>1, <1>2, <1>3, <1>5, <1>6, <1>7, <1>8, <1>9
    DEF Next, DispatcherStep, StartIoSq, StartIo, GcHigh, do_gc, CheckGcSkip, CheckGcRun, EndIoSq,
        ProcIoCq, WorkerStep, ProcFile, adjust_ftl_latency, hostVars, timingVars, vars

-----------------------------------------------------------------------------
(* A LUN works for one command at a time *)

LEMMA BusyAfterAccess ==
  ASSUME IInv, dpc = "gc_high", NEW c \in NandCmd, NEW pages \in [Lun -> Nat], Access(c, pages)
  PROVE  Busy'
  <1> USE DEF IInv
  <1>1. PICK max_lat \in MaxLatencies(c, pages, nsecs_start) : Enqueue(nsecs_start + max_lat)
    BY DEF Access
  <1> DEFINE new == BusyFor(c, pages)
  <1>2. Current \in Cmd
    BY CurrentPosted
  <1>3. \A d \in Cmd : busy'[d] = IF d = Current THEN new ELSE busy[d]
    BY DEF Access, BusyWith, BusyFor, TimeType
  <1>4. \A d \in Cmd : target'[d] = IF d = Current THEN nsecs_start + max_lat ELSE target[d]
    BY <1>1 DEF Enqueue, TimeType
  <1>5. /\ next_lun_avail_time' \in [Lun -> Nat] /\ new \in Work
        /\ \A l \in Lun : next_lun_avail_time'[l] >= next_lun_avail_time[l]
        /\ \A l \in Lun : /\ new[l].from <= new[l].to
                          /\ new[l].to <= next_lun_avail_time'[l]
                          /\ new[l].to = 0 \/ new[l].from >= next_lun_avail_time[l]
    BY GivenToLuns DEF Access
  <1>6. nsecs_start + max_lat \in Nat /\ \A l \in Lun : new[l].to <= nsecs_start + max_lat
    BY LatencyCovers
  <1>7. \A d \in Cmd, l \in Lun : busy[d][l].from \in Nat /\ busy[d][l].to \in Nat
    BY DEF TimeType, Work
  <1>8. \A l \in Lun : new[l].from \in Nat /\ new[l].to \in Nat
    BY <1>5 DEF Work
  <1> HIDE DEF new
  <1>9. ASSUME NEW d \in Cmd, NEW l \in Lun
        PROVE  /\ busy'[d][l].from <= busy'[d][l].to
               /\ busy'[d][l].to <= next_lun_avail_time'[l]
               /\ busy'[d][l].to <= target'[d]
    <2>1. CASE d = Current
      BY <2>1, <1>3, <1>4, <1>5, <1>6
    <2>2. CASE d # Current
      BY <2>2, <1>3, <1>4, <1>5, <1>7 DEF Busy, TimeType
    <2> QED
      BY <2>1, <2>2
  <1>10. ASSUME NEW d \in Cmd, NEW l \in Lun, d # Current
         PROVE  new[l].to <= busy[d][l].from \/ busy[d][l].to <= new[l].from
    <2>1. busy[d][l].to <= next_lun_avail_time[l] /\ next_lun_avail_time[l] \in Nat
      BY DEF Busy, TimeType
    <2> QED
      BY <2>1, <1>5, <1>7, <1>8
  <1>11. ASSUME NEW d \in Cmd, NEW e \in Cmd \ {d}, NEW l \in Lun
         PROVE  busy'[d][l].to <= busy'[e][l].from \/ busy'[e][l].to <= busy'[d][l].from
    <2>1. CASE d = Current
      BY <2>1, <1>3, <1>10
    <2>2. CASE e = Current
      BY <2>2, <1>3, <1>10
    <2>3. CASE d # Current /\ e # Current
      BY <2>3, <1>3 DEF Busy
    <2> QED
      BY <2>1, <2>2, <2>3
  <1> QED
    BY <1>9, <1>11 DEF Busy

LEMMA BusyStep ==
  ASSUME IInv, [Next]_vars
  PROVE  Busy'
  <1> USE DEF IInv
  <1>1. ASSUME UNCHANGED <<busy, target>>, next_lun_avail_time' \in [Lun -> Nat],
               \A l \in Lun : next_lun_avail_time'[l] >= next_lun_avail_time[l]
        PROVE  Busy'
    <2>1. \A d \in Cmd, l \in Lun : busy[d][l].to \in Nat
      BY DEF TimeType, Work
    <2> QED
      BY <1>1, <2>1 DEF Busy, TimeType
  <1>2. CASE GcHigh
    BY <1>1, <1>2, CleaningTakesTime DEF GcHigh, hostVars
  <1>3. CASE CheckGcRun
    BY <1>1, <1>3, CleaningTakesTime DEF CheckGcRun, hostVars
  <1>4. CASE ssd_read
    <2>1. ReadPages(kind[Current]) \in [Lun -> Nat]
      BY <1>4, CurrentPosted, Pages DEF ssd_read
    <2> QED
      BY <1>4, <2>1, BusyAfterAccess DEF ssd_read, NandCmd
  <1>5. CASE ssd_write
    <2>1. WritePages(kind[Current]) \in [Lun -> Nat]
      BY <1>5, CurrentPosted, Pages DEF ssd_write
    <2> QED
      BY <1>5, <2>1, BusyAfterAccess DEF ssd_write, NandCmd
  <1>6. CASE NoFlashAccess
    <2>1. PICK t \in Nat : Enqueue(t)
      BY <1>6 DEF NoFlashAccess, TimeType
    <2>2. \A d \in Cmd : target'[d] = IF d = Current THEN t ELSE target[d]
      BY <2>1 DEF Enqueue, TimeType
    <2>3. \A d \in Cmd : busy'[d] = IF d = Current THEN NotBusy ELSE busy[d]
      BY <1>6 DEF NoFlashAccess, TimeType
    <2>4. next_lun_avail_time' = next_lun_avail_time
      BY <1>6 DEF NoFlashAccess, timingVars
    <2>5. \A l \in Lun : NotBusy[l].from = 0 /\ NotBusy[l].to = 0
      BY DEF NotBusy
    <2>6. \A d \in Cmd, l \in Lun : busy[d][l].from \in Nat /\ busy[d][l].to \in Nat
      BY DEF TimeType, Work
    <2>7. ASSUME NEW d \in Cmd, NEW l \in Lun
          PROVE  /\ busy'[d][l].from <= busy'[d][l].to
                 /\ busy'[d][l].to <= next_lun_avail_time'[l]
                 /\ busy'[d][l].to <= target'[d]
      <3>1. CASE d = Current
        BY <3>1, <2>2, <2>3, <2>4, <2>5 DEF TimeType
      <3>2. CASE d # Current
        BY <3>2, <2>2, <2>3, <2>4 DEF Busy
      <3> QED
        BY <3>1, <3>2
    <2>8. ASSUME NEW d \in Cmd, NEW e \in Cmd \ {d}, NEW l \in Lun
          PROVE  busy'[d][l].to <= busy'[e][l].from \/ busy'[e][l].to <= busy'[d][l].from
      <3>1. CASE d = Current
        BY <3>1, <2>3, <2>5, <2>6
      <3>2. CASE e = Current
        BY <3>2, <2>3, <2>5, <2>6
      <3>3. CASE d # Current /\ e # Current
        BY <3>3, <2>3 DEF Busy
      <3> QED
        BY <3>1, <3>2, <3>3
    <2> QED
      BY <2>7, <2>8 DEF Busy
  <1>7. CASE UNCHANGED <<busy, target, next_lun_avail_time>>
    BY <1>7 DEF Busy
  <1> QED
    BY <1>2, <1>3, <1>4, <1>5, <1>6, <1>7
    DEF Next, DispatcherStep, StartIoSq, StartIo, CheckGcSkip, EndIoSq, ProcIoCq, WorkerStep,
        StartCopy, CopyPage, PostCompletion, HostPost, HostReaps, ProcFile, adjust_ftl_latency, Tick,
        workFrame, hostVars, timingVars, vars

-----------------------------------------------------------------------------
(* The submission queue *)

LEMMA Around ==
  ASSUME NEW b \in Slot
  PROVE  /\ Wrap(b) = b /\ NextSlot(b) = Wrap(b + 1)
         /\ \A j \in 0 .. queue_size - 1 : Wrap(b + j) \in Slot
         /\ \A i, j \in 0 .. queue_size - 1 : Wrap(b + i) = Wrap(b + j) => i = j
         /\ \A j \in 0 .. queue_size - 2 : /\ NextSlot(Wrap(b + j)) = Wrap(b + (j + 1))
                                           /\ Wrap(NextSlot(b) + j) = Wrap(b + (j + 1))
  BY PathAssumption DEF Slot, Wrap, NextSlot

LEMMA BaseSlot == ASSUME QueueType PROVE Base \in Slot
  BY Slots DEF Base, QueueType

(* What happens to commands that are taken leaves the ring as it is. *)
LEMMA RingFrame ==
  ASSUME Ring, UNCHANGED <<sq, dbs, old_dbs, sq_entry, new_db, dpc>>,
         \A c \in Cmd : \/ state'[c] = state[c]
                        \/ /\ state[c] \notin {"none", "posted"}
                           /\ state'[c] \notin {"none", "posted"}
  PROVE  Ring'
  <1>1. PICK F, m, k \in Nat : RingOf(F, m, k)
    BY DEF Ring
  <1>2. Base' = Base /\ (Taking <=> Taking')
    BY DEF Base, Taking, NextSlot
  <1>3. \A c \in Cmd : /\ c <= F => state'[c] \notin {"none", "posted"}
                       /\ F < c /\ c <= F + m => state'[c] = "posted"
                       /\ c > F + m => state'[c] = "none"
    BY <1>1 DEF RingOf
  <1>4. RingOf(F, m, k)'
    BY <1>1, <1>2, <1>3 DEF RingOf, Wrap
  <1> QED
    BY <1>4 DEF Ring

LEMMA RingAfterEnqueue ==
  ASSUME QueueType, Ring, dpc = "gc_high", NEW t, Enqueue(t), UNCHANGED ioFrame
  PROVE  Ring'
  <1>1. PICK F, m, k \in Nat : RingOf(F, m, k)
    BY DEF Ring
  <1>2. k > 0 /\ m > 0 /\ m <= queue_size - 1 /\ k <= m /\ F + m <= MaxCommands
    BY <1>1 DEF RingOf
  <1>3. Base = sq_entry /\ Base \in Slot /\ Taking
    BY DEF Base, QueueType, Taking
  <1>4. dpc' = "gc" /\ UNCHANGED <<sq, dbs, old_dbs, sq_entry, new_db>>
    BY DEF Enqueue, ioFrame
  <1>5. Base' = NextSlot(Base) /\ Taking'
    BY <1>3, <1>4 DEF Base, Taking, NextSlot
  <1>6. Current = F + 1 /\ Current \in Cmd
    <2>1. sq[Wrap(Base + 0)] = F + 1 + 0
      BY <1>1, <1>2 DEF RingOf
    <2>2. Wrap(Base + 0) = sq_entry
      BY <1>3, PathAssumption DEF Wrap, Slot
    <2> QED
      BY <1>2, <2>1, <2>2, PathAssumption DEF Current, Cmd
  <1>7. \A c \in Cmd : state'[c] = IF c = F + 1 THEN "dispatched" ELSE state[c]
    BY <1>6 DEF Enqueue, QueueType
  <1>8. \A j \in 0 .. m - 1 : Wrap(Base' + j) = Wrap(Base + (j + 1))
    BY <1>2, <1>3, <1>5, Around, PathAssumption
  <1>9. dbs.sq = Wrap(Base' + (m - 1)) /\ new_db = Wrap(Base' + (k - 1))
    <2>1. dbs.sq = Wrap(Base + m) /\ new_db = Wrap(Base + k)
      BY <1>1, <1>3 DEF RingOf
    <2>2. /\ m - 1 \in 0 .. m - 1 /\ k - 1 \in 0 .. m - 1
          /\ (m - 1) + 1 = m /\ (k - 1) + 1 = k
      BY <1>2
    <2> QED
      BY <1>8, <2>1, <2>2
  <1>10. \A j \in 0 .. (m - 1) - 1 : sq[Wrap(Base' + j)] = (F + 1) + 1 + j
    <2> SUFFICES ASSUME NEW j \in 0 .. (m - 1) - 1
                 PROVE  sq[Wrap(Base' + j)] = (F + 1) + 1 + j
      OBVIOUS
    <2>1. j \in 0 .. m - 1 /\ j + 1 \in 0 .. m - 1
      BY <1>2
    <2>2. sq[Wrap(Base + (j + 1))] = F + 1 + (j + 1)
      BY <1>1, <2>1 DEF RingOf
    <2> QED
      BY <1>8, <2>1, <2>2
  <1>11. \A c \in Cmd : /\ c <= F + 1 => state'[c] \notin {"none", "posted"}
                        /\ F + 1 < c /\ c <= (F + 1) + (m - 1) => state'[c] = "posted"
                        /\ c > (F + 1) + (m - 1) => state'[c] = "none"
    BY <1>1, <1>2, <1>7, PathAssumption DEF RingOf, Cmd
  <1>12. RingOf(F + 1, m - 1, k - 1)'
    BY <1>2, <1>4, <1>5, <1>9, <1>10, <1>11, PathAssumption DEF RingOf, Wrap
  <1> QED
    BY <1>2, <1>12 DEF Ring

(* A driver with fewer commands under way than the queue has slots, one     *)
(* left out, never comes round to a command that is not taken.             *)
LEMMA FewPosted ==
  ASSUME NEW F \in Nat, NEW m \in Nat, NEW k \in Nat, RingOf(F, m, k),
         Cardinality(Outstanding) < queue_size - 1
  PROVE  m + 1 <= queue_size - 1
  <1>2. IsFiniteSet(Cmd) /\ Cardinality(Cmd) = MaxCommands
    BY FS_Interval, PathAssumption DEF Cmd
  <1>3. IsFiniteSet(Outstanding) /\ Cardinality(Outstanding) \in Nat
    BY <1>2, FS_Subset, FS_CardinalityType DEF Outstanding
  <1>4. F + 1 .. F + m \subseteq Outstanding
    <2>1. SUFFICES ASSUME NEW c \in F + 1 .. F + m
                   PROVE  c \in Outstanding
      OBVIOUS
    <2>2. F + m <= MaxCommands
      BY DEF RingOf
    <2>3. c \in Cmd /\ F < c /\ c <= F + m
      BY <2>1, <2>2, PathAssumption DEF Cmd
    <2>4. state[c] = "posted"
      BY <2>3 DEF RingOf
    <2> QED
      BY <2>3, <2>4 DEF Outstanding
  <1>5. Cardinality(F + 1 .. F + m) = m
    <2>1. Cardinality(F + 1 .. F + m) = IF F + 1 > F + m THEN 0 ELSE (F + m) - (F + 1) + 1
      BY FS_Interval
    <2> QED
      BY <2>1
  <1>6. m <= Cardinality(Outstanding)
    BY <1>3, <1>4, <1>5, FS_Subset
  <1> QED
    BY <1>3, <1>6, PathAssumption

LEMMA RingAfterPost ==
  ASSUME IInv, NEW c \in Cmd, NEW kd \in Kinds[c], HostPost(c, kd)
  PROVE  Ring'
  <1> USE DEF IInv
  <1>1. PICK F, m, k \in Nat : RingOf(F, m, k)
    BY DEF Ring
  <1>2. m + 1 <= queue_size - 1
    BY <1>1, FewPosted DEF HostPost
  <1>3. Base \in Slot
    BY BaseSlot
  <1>4. UNCHANGED <<old_dbs, dpc, new_db, sq_entry>>
    BY DEF HostPost, dispVars
  <1>5. Base' = Base /\ (Taking <=> Taking')
    BY <1>4 DEF Base, Taking, NextSlot
  <1>6. c = F + m + 1
    <2>1. state[c] = "none" /\ \A d \in 1 .. c - 1 : state[d] # "none"
      BY DEF HostPost, IsNext
    <2>2. c > F + m
      BY <1>1, <2>1 DEF RingOf, Cmd
    <2>3. CASE c > F + m + 1
      <3>1. F + m + 1 \in 1 .. c - 1 /\ F + m + 1 \in Cmd
        BY <2>3, PathAssumption DEF Cmd
      <3>2. state[F + m + 1] = "none"
        BY <1>1, <3>1 DEF RingOf
      <3> QED
        BY <2>1, <3>1, <3>2
    <2> QED
      BY <2>2, <2>3 DEF Cmd
  <1>7. dbs.sq = Wrap(Base + m)
    BY <1>1 DEF RingOf
  <1>8. dbs'.sq = Wrap(Base + (m + 1))
    <2>1. dbs'.sq = NextSlot(dbs.sq)
      BY DEF HostPost, QueueType
    <2>2. m \in 0 .. queue_size - 2
      BY <1>2, PathAssumption
    <2> QED
      BY <1>3, <1>7, <2>1, <2>2, Around
  <1>9. \A j \in 0 .. (m + 1) - 1 : sq'[Wrap(Base + j)] = F + 1 + j
    <2> SUFFICES ASSUME NEW j \in 0 .. (m + 1) - 1
                 PROVE  sq'[Wrap(Base + j)] = F + 1 + j
      OBVIOUS
    <2>1. j \in 0 .. queue_size - 1 /\ m \in 0 .. queue_size - 1
      BY <1>2, PathAssumption
    <2>2. Wrap(Base + j) \in Slot
      BY <1>3, <2>1, Around
    <2>3. \A x \in Slot : sq'[x] = IF x = Wrap(Base + m) THEN F + m + 1 ELSE sq[x]
      BY <1>6, <1>7 DEF HostPost, QueueType
    <2>4. CASE j = m
      BY <2>2, <2>3, <2>4
    <2>5. CASE j # m
      <3>1. Wrap(Base + j) # Wrap(Base + m)
        BY <1>3, <2>1, <2>5, Around
      <3>2. j \in 0 .. m - 1
        BY <2>5
      <3> QED
        BY <1>1, <2>2, <2>3, <3>1, <3>2 DEF RingOf
    <2> QED
      BY <2>4, <2>5
  <1>10. \A d \in Cmd : state'[d] = IF d = F + m + 1 THEN "posted" ELSE state[d]
    BY <1>6 DEF HostPost, QueueType
  <1>11. \A d \in Cmd : /\ d <= F => state'[d] \notin {"none", "posted"}
                        /\ F < d /\ d <= F + (m + 1) => state'[d] = "posted"
                        /\ d > F + (m + 1) => state'[d] = "none"
    BY <1>1, <1>10 DEF RingOf, Cmd
  <1>12. F + (m + 1) <= MaxCommands /\ k <= m + 1
    BY <1>1, <1>6, PathAssumption DEF Cmd, RingOf
  <1>13. (Taking' => new_db' = Wrap(Base + k)) /\ (dpc' = "gc_high" => k > 0)
    BY <1>1, <1>4, <1>5 DEF RingOf
  <1>14. RingOf(F, m + 1, k)'
    BY <1>2, <1>5, <1>8, <1>9, <1>11, <1>12, <1>13 DEF RingOf, Wrap
  <1> QED
    BY <1>14 DEF Ring

LEMMA RingStep ==
  ASSUME IInv, [Next]_vars
  PROVE  Ring'
  <1> USE DEF IInv
  <1>0. PICK F, m, k \in Nat : RingOf(F, m, k)
    BY DEF Ring
  <1>1. Base \in Slot
    BY BaseSlot
  <1>2. ASSUME Base' = Base, UNCHANGED <<sq, dbs, state>>,
               NEW n \in Nat, n <= m, Taking' => new_db' = Wrap(Base + n),
               dpc' = "gc_high" => n > 0
        PROVE  Ring'
    <2>1. RingOf(F, m, n)'
      BY <1>0, <1>2 DEF RingOf, Wrap
    <2> QED
      BY <2>1 DEF Ring
  <1>3. CASE StartIoSq
    <2>1. Base = old_dbs.sq /\ UNCHANGED <<sq, dbs, state, old_dbs>>
      BY <1>3 DEF StartIoSq, Base, hostVars
    <2>2. CASE new_db' = dbs.sq /\ sq_entry' = old_dbs.sq /\ dpc' = "io"
      <3>1. Base' = Base /\ new_db' = Wrap(Base + m)
        BY <1>0, <2>1, <2>2 DEF Base, RingOf
      <3> QED
        BY <1>2, <2>1, <2>2, <3>1
    <2>3. CASE dpc' = "cq"
      <3>1. Base' = Base /\ ~Taking'
        BY <2>1, <2>3 DEF Base, Taking
      <3> QED
        BY <1>2, <2>1, <2>3, <3>1
    <2> QED
      BY <1>3, <2>2, <2>3 DEF StartIoSq
  <1>4. CASE StartIo
    <2>1. /\ dpc = "io" /\ dpc' = "gc_high" /\ sq_entry # new_db
          /\ UNCHANGED <<sq, dbs, state, sq_entry, new_db, old_dbs>>
      BY <1>4 DEF StartIo, hostVars
    <2>2. Base = sq_entry /\ Base' = Base /\ Taking
      BY <2>1 DEF Base, Taking
    <2>3. new_db = Wrap(Base + k) /\ k <= m
      BY <1>0, <2>2 DEF RingOf
    <2>4. k # 0
      BY <1>1, <2>1, <2>2, <2>3, Around, PathAssumption DEF Slot
    <2> QED
      BY <1>2, <2>1, <2>2, <2>3, <2>4
  <1>5. CASE ssd_read \/ ssd_write \/ NoFlashAccess
    <2>1. PICK t : Enqueue(t)
      BY <1>5 DEF ssd_read, ssd_write, Access, NoFlashAccess
    <2>2. UNCHANGED ioFrame /\ dpc = "gc_high"
      BY <1>5 DEF ssd_read, ssd_write, NoFlashAccess
    <2> QED
      BY <2>1, <2>2, RingAfterEnqueue
  <1>6. CASE CheckGcSkip \/ CheckGcRun
    <2>1. /\ dpc = "gc" /\ dpc' = "io" /\ sq_entry' = NextSlot(sq_entry)
          /\ UNCHANGED <<sq, dbs, state, new_db, old_dbs>>
      BY <1>6 DEF CheckGcSkip, CheckGcRun, CountCommand, hostVars
    <2>2. Base' = Base /\ Taking
      BY <2>1 DEF Base, Taking
    <2>3. new_db = Wrap(Base + k) /\ k <= m
      BY <1>0, <2>2 DEF RingOf
    <2> QED
      BY <1>2, <2>1, <2>2, <2>3
  <1>7. CASE EndIoSq
    <2>1. /\ dpc = "io" /\ dpc' = "cq" /\ sq_entry = new_db /\ old_dbs'.sq = new_db
          /\ UNCHANGED <<sq, dbs, state>>
      BY <1>7 DEF EndIoSq, hostVars, QueueType
    <2>2. Base' = Base /\ ~Taking'
      BY <2>1 DEF Base, Taking
    <2> QED
      BY <1>2, <2>1, <2>2
  <1>8. CASE ProcIoCq
    <2>1. /\ dpc = "cq" /\ dpc' = "sq" /\ old_dbs'.sq = old_dbs.sq
          /\ UNCHANGED <<sq, dbs, state>>
      BY <1>8 DEF ProcIoCq, hostVars, QueueType
    <2>2. Base' = Base /\ ~Taking'
      BY <2>1 DEF Base, Taking
    <2> QED
      BY <1>2, <2>1, <2>2
  <1>9. ASSUME NEW e \in Cmd, NEW st \in {"copied", "completed", "reaped"},
               state[e] \notin {"none", "posted"}, state' = [state EXCEPT ![e] = st],
               UNCHANGED <<sq, old_dbs, sq_entry, new_db, dpc>>, dbs'.sq = dbs.sq
        PROVE  Ring'
    <2>1. Base' = Base /\ (Taking <=> Taking')
      BY <1>9 DEF Base, Taking, NextSlot
    <2>2. \A c \in Cmd : state'[c] = IF c = e THEN st ELSE state[c]
      BY <1>9 DEF QueueType
    <2>3. \A c \in Cmd : /\ c <= F => state'[c] \notin {"none", "posted"}
                         /\ F < c /\ c <= F + m => state'[c] = "posted"
                         /\ c > F + m => state'[c] = "none"
      BY <1>0, <1>9, <2>2 DEF RingOf, Cmd
    <2>4. RingOf(F, m, k)'
      BY <1>0, <1>9, <2>1, <2>3 DEF RingOf, Wrap
    <2> QED
      BY <2>4 DEF Ring
  <1>10. CASE UNCHANGED <<sq, dbs, old_dbs, sq_entry, new_db, dpc, state>>
    BY <1>10, RingFrame
  <1>11. CASE WorkerStep
    <2>1. UNCHANGED <<sq, dbs, old_dbs, sq_entry, new_db, dpc>>
      BY <1>11 DEF WorkerStep, StartCopy, CopyPage, PostCompletion, workFrame, dispVars
    <2>2. CASE CopyPage
      <3>1. cp.command_id \in Cmd /\ state[cp.command_id] = "dispatched"
        BY <2>2 DEF CopyPage, WorkerType, Done
      <3> QED
        BY <1>9, <1>10, <2>1, <2>2, <3>1 DEF CopyPage
    <2>3. CASE PostCompletion
      <3>1. CASE wpc = "due" /\ Complete([command_id |-> cp.command_id, slot |-> cp.slot])
        <4>1. cp.command_id \in Cmd /\ state[cp.command_id] = "copied"
          BY <3>1 DEF WorkerType, Done
        <4> QED
          BY <1>9, <2>1, <3>1, <4>1 DEF Complete
      <3>2. CASE state' = state
        BY <1>10, <2>1, <3>2
      <3>3. CASE io # <<>> /\ state[Head(io).command_id] = "copied" /\ Complete(Head(io))
        <4>1. Head(io) \in IoEntry
          BY <3>3 DEF WorkerType
        <4> QED
          BY <1>9, <2>1, <3>3, <4>1 DEF Complete, IoEntry
      <3> QED
        BY <2>3, <3>1, <3>2, <3>3 DEF PostCompletion
    <2>4. CASE StartCopy
      BY <1>10, <2>1, <2>4 DEF StartCopy
    <2> QED
      BY <1>11, <2>2, <2>3, <2>4 DEF WorkerStep
  <1>12. CASE HostReaps
    <2>1. Len(cq) \in Nat /\ Len(cq) >= 1 /\ Head(cq) = cq[1]
      BY <1>12 DEF HostReaps, WorkerType
    <2>2. Head(cq).command_id \in Cmd /\ state[Head(cq).command_id] \in {"completed", "reaped"}
      BY <2>1, CompletedCommands DEF Done
    <2>3. /\ dbs'.sq = dbs.sq /\ UNCHANGED <<sq, old_dbs, sq_entry, new_db, dpc>>
          /\ state' = [state EXCEPT ![Head(cq).command_id] = "reaped"]
      BY <1>12 DEF HostReaps, dispVars, QueueType
    <2> QED
      BY <1>9, <2>2, <2>3
  <1>13. CASE UNCHANGED vars
    BY <1>10, <1>13 DEF vars
  <1> QED
    BY <1>3, <1>4, <1>5, <1>6, <1>7, <1>8, <1>10, <1>11, <1>12, <1>13, RingAfterPost
    DEF Next, DispatcherStep, GcHigh, ProcFile, Tick, hostVars, dispVars

-----------------------------------------------------------------------------
(* The theorem *)

LEMMA Start == Init => IInv
  <1> SUFFICES ASSUME Init PROVE IInv
    OBVIOUS
  <1> USE DEF Init
  <1>1. NotBusy \in Work
    BY DEF NotBusy, Work
  <1>2. TimeType
    BY <1>1, LatencyAssumption DEF TimeType, TimingInit, NandCmd
  <1>3. QueueType
    BY Slots DEF QueueType, States
  <1>4. WorkerType
    BY DEF WorkerType, NoCopy
  <1>5. Ring
    <2>1. Base = 0 /\ ~Taking
      BY DEF Base, Taking
    <2>2. RingOf(0, 0, 0)
      BY <2>1, PathAssumption DEF RingOf, Wrap, Cmd
    <2> QED
      BY <2>2 DEF Ring
  <1>6. Done
    BY DEF Done
  <1>7. Busy
    BY DEF Busy, NotBusy, TimingInit
  <1> QED
    BY <1>2, <1>3, <1>4, <1>5, <1>6, <1>7 DEF IInv

LEMMA Step == IInv /\ [Next]_vars => IInv'
  BY TimeTypeStep, QueueTypeStep, WorkerTypeStep, RingStep, DoneStep, BusyStep DEF IInv

LEMMA Faster == IInv => NoFasterThanFlash
  <1> SUFFICES ASSUME IInv, NEW c \in Cmd, NEW l \in Lun
               PROVE  /\ state[c] \in {"completed", "reaped"} => busy[c][l].to <= now
                      /\ \A d \in Cmd \ {c} : \/ busy[c][l].to <= busy[d][l].from
                                              \/ busy[d][l].to <= busy[c][l].from
    BY DEF NoFasterThanFlash
  <1>1. busy[c][l].to \in Nat /\ target[c] \in Nat /\ now \in Nat
    BY DEF IInv, TimeType, Work
  <1>2. busy[c][l].to <= target[c]
    BY DEF IInv, Busy
  <1>3. state[c] \in {"completed", "reaped"} => target[c] <= now
    BY DEF IInv, Done
  <1>4. \A d \in Cmd \ {c} : \/ busy[c][l].to <= busy[d][l].from
                             \/ busy[d][l].to <= busy[c][l].from
    BY DEF IInv, Busy
  <1> QED
    BY <1>1, <1>2, <1>3, <1>4

(* The host never sees work done faster than the flash does it: however     *)
(* commands, cleanings and changes of the latencies follow on one another, *)
(* a LUN works for one command at a time and a command is completed when   *)
(* all LUNs are through with it (ftl.c ssd_advance_status, io.c).          *)
THEOREM FlashSpeed == Spec => []NoFasterThanFlash
  BY Start, Step, Faster, PTL DEF Spec

(* The dispatcher takes each command once, as the host posted it: the slot  *)
(* it is at holds a command that was posted and is not taken yet, whatever *)
(* the driver made of the slots before it (main.c:137, io.c:384).          *)
TakesPosted == dpc = "gc_high" => Current \in Cmd /\ state[Current] = "posted"

THEOREM TakenOnce == Spec => []TakesPosted
  <1>1. IInv => TakesPosted
    BY CurrentPosted DEF IInv, TakesPosted
  <1> QED
    BY <1>1, Start, Step, PTL DEF Spec

-----------------------------------------------------------------------------
(* What is under way *)

Requested == {"dispatched", "copied"}

FtlType ==
  /\ maptbl \in [0 .. tt_pgs - 1 -> Lun \union {UNMAPPED}] /\ wp \in Lun
  /\ now \in 0 .. MaxTime
  /\ \A c \in Cmd : kind[c] \in Kinds[c] \/ (kind[c] = NoKind /\ state[c] = "none")

(* The list of the worker holds once each command that it is given, the     *)
(* completion queue each that the host has not reaped.                     *)
IoOnce ==
  /\ \A i \in 1 .. Len(io) : state[io[i].command_id] \in Requested
  /\ \A i, j \in 1 .. Len(io) : i # j => io[i].command_id # io[j].command_id

CqOnce ==
  /\ \A i \in 1 .. Len(cq) : state[cq[i].command_id] = "completed"
  /\ \A i, j \in 1 .. Len(cq) : i # j => cq[i].command_id # cq[j].command_id

Few == Cardinality(Outstanding) < queue_size

RoundsMissed ==
  /\ nr_in_flight \in Int
  /\ ~stat_reset => \E r \in Nat : MissedInFlight = r * queue_size

CountInv == FtlType /\ IoOnce /\ CqOnce /\ Few /\ RoundsMissed

(* The dispatcher gives a command to the worker with a target time. *)
LEMMA EnqueuesAt ==
  ASSUME IInv, ssd_read \/ ssd_write \/ NoFlashAccess
  PROVE  dpc = "gc_high" /\ (\E t \in Nat : Enqueue(t)) /\ UNCHANGED ioFrame
  <1> USE DEF IInv
  <1>1. dpc = "gc_high" /\ UNCHANGED ioFrame
    BY DEF ssd_read, ssd_write, NoFlashAccess
  <1>2. CASE NoFlashAccess
    BY <1>1, <1>2 DEF NoFlashAccess, TimeType
  <1>3. CASE ssd_read \/ ssd_write
    <2>1. PICK c \in NandCmd, pages \in [Lun -> Nat] : Access(c, pages)
      BY <1>1, <1>3, CurrentPosted, Pages DEF ssd_read, ssd_write, NandCmd
    <2>2. PICK max_lat \in MaxLatencies(c, pages, nsecs_start) : Enqueue(nsecs_start + max_lat)
      BY <2>1 DEF Access
    <2> QED
      BY <1>1, <2>2, LatencyCovers
  <1> QED
    BY <1>2, <1>3

(* What the worker completes is copied. *)
LEMMA PostsCopied ==
  ASSUME IInv, PostCompletion
  PROVE  \/ wpc = "due" /\ wpc' = "round" /\ cp' = NoCopy /\ UNCHANGED <<state, io, cq>>
         \/ wpc # "copy" /\ \E e \in IoEntry : state[e.command_id] = "copied" /\ Complete(e)
  <1> USE DEF IInv
  <1>1. CASE wpc = "due" /\ Complete([command_id |-> cp.command_id, slot |-> cp.slot])
    <2>1. [command_id |-> cp.command_id, slot |-> cp.slot] \in IoEntry
            /\ state[cp.command_id] = "copied"
      BY <1>1 DEF WorkerType, IoEntry, Done
    <2> QED
      BY <1>1, <2>1
  <1>2. CASE wpc = "round" /\ io # <<>> /\ state[Head(io).command_id] = "copied" /\ Complete(Head(io))
    <2>1. Head(io) \in IoEntry
      BY <1>2 DEF WorkerType
    <2> QED
      BY <1>2, <2>1
  <1> QED
    BY <1>1, <1>2 DEF PostCompletion

(* The steps of the system by what they do with the commands. *)
LEMMA StateSteps ==
  ASSUME IInv, [Next]_vars
  PROVE  \/ UNCHANGED <<state, io, cq>>
         \/ dpc = "gc_high" /\ (\E t \in Nat : Enqueue(t)) /\ UNCHANGED ioFrame
         \/ CopyPage
         \/ \E e \in IoEntry : state[e.command_id] = "copied" /\ Complete(e)
         \/ HostReaps
         \/ \E c \in Cmd : \E k \in Kinds[c] : HostPost(c, k)
  BY EnqueuesAt, PostsCopied
  DEF Next, DispatcherStep, StartIoSq, StartIo, GcHigh, CheckGcSkip, CheckGcRun, EndIoSq, ProcIoCq,
      WorkerStep, StartCopy, ProcFile, Tick, hostVars, vars

(* A command that is enqueued was posted, and no other changes. *)
LEMMA EnqueuedState ==
  ASSUME IInv, dpc = "gc_high", NEW t, Enqueue(t)
  PROVE  /\ Current \in Cmd /\ state[Current] = "posted"
         /\ \A c \in Cmd : state'[c] = IF c = Current THEN "dispatched" ELSE state[c]
  <1>1. Current \in Cmd /\ state[Current] = "posted"
    BY CurrentPosted DEF IInv
  <1>2. \A c \in Cmd : state'[c] = IF c = Current THEN "dispatched" ELSE state[c]
    BY DEF Enqueue, IInv, QueueType
  <1> QED
    BY <1>1, <1>2

(* A new request comes between the others. *)
NewIo == [command_id |-> Current, slot |-> sq_entry]

LEMMA InsertEntries ==
  ASSUME WorkerType, NEW t
  PROVE  /\ Len(Insert(Current, t)) = Len(io) + 1
         /\ \A i \in 1 .. Len(io) + 1 :
              \/ /\ StaysAhead(i, t) /\ i \in 1 .. Len(io)
                 /\ Insert(Current, t)[i] = io[i]
              \/ /\ ~StaysAhead(i, t) /\ (i # 1 => StaysAhead(i - 1, t))
                 /\ Insert(Current, t)[i] = NewIo
              \/ /\ ~StaysAhead(i, t) /\ i # 1 /\ ~StaysAhead(i - 1, t) /\ i - 1 \in 1 .. Len(io)
                 /\ Insert(Current, t)[i] = io[i - 1]
         /\ \A i, j \in 1 .. Len(io) + 1 : i <= j /\ StaysAhead(j, t) => StaysAhead(i, t)
  <1>1. Len(io) \in Nat
    BY DEF WorkerType
  <1>2. ASSUME NEW i \in 1 .. Len(io) + 1, StaysAhead(i, t)
        PROVE  i \in 1 .. Len(io)
    BY <1>1, <1>2 DEF StaysAhead
  <1>3. \A i, j \in 1 .. Len(io) + 1 : i <= j /\ StaysAhead(j, t) => StaysAhead(i, t)
    BY <1>1 DEF StaysAhead
  <1>4. Len(Insert(Current, t)) = Len(io) + 1
    BY <1>1 DEF Insert
  <1>5. \A i \in 1 .. Len(io) + 1 :
          Insert(Current, t)[i] = IF StaysAhead(i, t) THEN io[i]
                                  ELSE IF i = 1 \/ StaysAhead(i - 1, t) THEN NewIo ELSE io[i - 1]
    BY DEF Insert, NewIo
  <1> QED
    BY <1>1, <1>2, <1>3, <1>4, <1>5

LEMMA InsertOnce ==
  ASSUME WorkerType, NEW t,
         \A i \in 1 .. Len(io) : io[i].command_id # Current,
         \A i, j \in 1 .. Len(io) : i # j => io[i].command_id # io[j].command_id
  PROVE  LET new == Insert(Current, t)
         IN  /\ \A i \in 1 .. Len(new) : new[i] = NewIo \/ \E q \in 1 .. Len(io) : new[i] = io[q]
             /\ \A i, j \in 1 .. Len(new) : i # j => new[i].command_id # new[j].command_id
  <1> DEFINE new == Insert(Current, t)
  <1>0. Len(io) \in Nat /\ NewIo.command_id = Current
    BY DEF WorkerType, NewIo
  <1>1. /\ Len(new) = Len(io) + 1
        /\ \A i \in 1 .. Len(io) + 1 :
              \/ StaysAhead(i, t) /\ i \in 1 .. Len(io) /\ new[i] = io[i]
              \/ ~StaysAhead(i, t) /\ (i # 1 => StaysAhead(i - 1, t)) /\ new[i] = NewIo
              \/ /\ ~StaysAhead(i, t) /\ i # 1 /\ ~StaysAhead(i - 1, t) /\ i - 1 \in 1 .. Len(io)
                 /\ new[i] = io[i - 1]
        /\ \A i, j \in 1 .. Len(io) + 1 : i <= j /\ StaysAhead(j, t) => StaysAhead(i, t)
    BY InsertEntries
  <1> HIDE DEF new
  <1>2. ASSUME NEW i \in 1 .. Len(io) + 1, NEW j \in 1 .. Len(io) + 1, i < j
        PROVE  new[i].command_id # new[j].command_id
    <2>0. i \in Int /\ j \in Int /\ i # j /\ i <= j - 1 /\ j # 1 /\ j - 1 \in 1 .. Len(io) + 1
      BY <1>0, <1>2
    <2>1. StaysAhead(j, t) \/ (j # 1 /\ StaysAhead(j - 1, t)) => StaysAhead(i, t)
      BY <1>1, <1>2, <2>0
    <2>2. CASE StaysAhead(i, t)
      <3>1. i \in 1 .. Len(io) /\ new[i] = io[i]
        BY <1>1, <2>2
      <3>2. CASE StaysAhead(j, t)
        <4>1. j \in 1 .. Len(io) /\ new[j] = io[j]
          BY <1>1, <3>2
        <4> QED
          BY <2>0, <3>1, <4>1
      <3>3. CASE new[j] = NewIo
        BY <1>0, <3>1, <3>3
      <3>4. CASE ~StaysAhead(j - 1, t) /\ j - 1 \in 1 .. Len(io) /\ new[j] = io[j - 1]
        <4>1. i # j - 1
          BY <2>2, <3>4
        <4> QED
          BY <3>1, <3>4, <4>1
      <3> QED
        BY <1>1, <3>2, <3>3, <3>4
    <2>3. CASE ~StaysAhead(i, t)
      <3>1. ~StaysAhead(j, t) /\ ~StaysAhead(j - 1, t)
        BY <2>0, <2>1, <2>3
      <3>2. j - 1 \in 1 .. Len(io) /\ new[j] = io[j - 1]
        BY <1>1, <2>0, <3>1
      <3>3. CASE new[i] = NewIo
        BY <1>0, <3>2, <3>3
      <3>4. CASE i - 1 \in 1 .. Len(io) /\ new[i] = io[i - 1]
        <4>1. i - 1 # j - 1
          BY <2>0
        <4> QED
          BY <3>2, <3>4, <4>1
      <3> QED
        BY <1>1, <2>3, <3>3, <3>4
    <2> QED
      BY <2>2, <2>3
  <1>3. ASSUME NEW i \in 1 .. Len(new), NEW j \in 1 .. Len(new), i # j
        PROVE  new[i].command_id # new[j].command_id
    <2>1. i \in 1 .. Len(io) + 1 /\ j \in 1 .. Len(io) + 1 /\ (i < j \/ j < i)
      BY <1>0, <1>1, <1>3
    <2> QED
      BY <1>2, <2>1
  <1>4. \A i \in 1 .. Len(new) : new[i] = NewIo \/ \E q \in 1 .. Len(io) : new[i] = io[q]
    BY <1>1
  <1> QED
    BY <1>3, <1>4 DEF new

(* A request that is taken off leaves the others. *)
LEMMA WithoutOnce ==
  ASSUME WorkerType, NEW c,
         \A i, j \in 1 .. Len(io) : i # j => io[i].command_id # io[j].command_id
  PROVE  LET new == Without(c)
         IN  /\ \A i \in 1 .. Len(new) : /\ new[i].command_id # c
                                         /\ \E q \in 1 .. Len(io) : new[i] = io[q]
             /\ \A i, j \in 1 .. Len(new) : i # j => new[i].command_id # new[j].command_id
  <1> DEFINE new == Without(c)
             Past(i) == \E j \in 1 .. i : io[j].command_id = c
             Old(i) == IF Past(i) THEN i + 1 ELSE i
  <1>0. Len(io) \in Nat
    BY DEF WorkerType
  <1>1. \A i \in 1 .. Len(io) - 1 : Old(i) \in 1 .. Len(io) /\ new[i] = io[Old(i)]
    BY <1>0 DEF Without
  <1>2. \A i \in 1 .. Len(new) : i \in 1 .. Len(io) - 1
    <2>1. CASE Len(io) = 0
      <3>1. new = [i \in 1 .. 0 |-> IF Past(i) THEN io[i + 1] ELSE io[i]]
        BY <2>1 DEF Without
      <3>2. Len(new) = 0
        BY <3>1
      <3> QED
        BY <3>2
    <2>2. CASE Len(io) # 0
      BY <1>0, <2>2 DEF Without
    <2> QED
      BY <2>1, <2>2
  <1>3. \A i, j \in 1 .. Len(io) - 1 : i < j /\ Past(i) => Past(j)
    BY <1>0
  <1>4. \A i, j \in 1 .. Len(io) - 1 : i < j => Old(i) # Old(j)
    BY <1>0, <1>3
  <1>5. \A i \in 1 .. Len(io) - 1 : io[Old(i)].command_id # c
    <2> SUFFICES ASSUME NEW i \in 1 .. Len(io) - 1
                 PROVE  io[Old(i)].command_id # c
      OBVIOUS
    <2>1. CASE Past(i)
      <3>1. PICK j \in 1 .. i : io[j].command_id = c
        BY <2>1
      <3>2. j \in 1 .. Len(io) /\ i + 1 \in 1 .. Len(io) /\ j # i + 1
        BY <1>0
      <3> QED
        BY <2>1, <3>1, <3>2
    <2>2. CASE ~Past(i)
      BY <1>0, <2>2
    <2> QED
      BY <2>1, <2>2
  <1> HIDE DEF new, Old
  <1>6. ASSUME NEW i \in 1 .. Len(new), NEW j \in 1 .. Len(new), i # j
        PROVE  new[i].command_id # new[j].command_id
    <2>1. i \in 1 .. Len(io) - 1 /\ j \in 1 .. Len(io) - 1 /\ (i < j \/ j < i)
      BY <1>0, <1>2, <1>6
    <2>2. Old(i) # Old(j) /\ Old(i) \in 1 .. Len(io) /\ Old(j) \in 1 .. Len(io)
      BY <1>1, <1>4, <2>1
    <2> QED
      BY <1>1, <2>1, <2>2
  <1>7. \A i \in 1 .. Len(new) : /\ new[i].command_id # c
                                 /\ \E q \in 1 .. Len(io) : new[i] = io[q]
    BY <1>1, <1>2, <1>5
  <1> QED
    BY <1>6, <1>7 DEF new

(* Only commands are in the list of the worker. *)
LEMMA IoCommands ==
  ASSUME WorkerType
  PROVE  \A i \in 1 .. Len(io) : io[i].command_id \in Cmd /\ io[i].slot \in Slot
  <1>1. \A i \in 1 .. Len(io) : io[i] \in IoEntry
    BY DEF WorkerType
  <1> QED
    BY <1>1 DEF IoEntry

LEMMA IoOnceStep ==
  ASSUME IInv, IoOnce, [Next]_vars
  PROVE  IoOnce'
  <1> USE DEF IInv
  <1>0. \A i \in 1 .. Len(io) : io[i].command_id \in Cmd
    BY IoCommands
  <1>1. ASSUME NEW t, Enqueue(t), dpc = "gc_high"
        PROVE  IoOnce'
    <2>1. /\ Current \in Cmd /\ state[Current] = "posted"
          /\ \A c \in Cmd : state'[c] = IF c = Current THEN "dispatched" ELSE state[c]
      BY <1>1, EnqueuedState
    <2>2. \A i \in 1 .. Len(io) : io[i].command_id # Current
      BY <2>1 DEF IoOnce, Requested
    <2>3. /\ \A i \in 1 .. Len(io') : io'[i] = NewIo \/ \E q \in 1 .. Len(io) : io'[i] = io[q]
          /\ \A i, j \in 1 .. Len(io') : i # j => io'[i].command_id # io'[j].command_id
      BY <1>1, <2>2, InsertOnce DEF Enqueue, IoOnce
    <2>4. NewIo.command_id = Current
      BY DEF NewIo
    <2>5. \A i \in 1 .. Len(io') : state'[io'[i].command_id] \in {"dispatched", "copied"}
      BY <1>0, <2>1, <2>3, <2>4 DEF IoOnce, Requested
    <2> QED
      BY <2>3, <2>5 DEF IoOnce, Requested
  <1>2. ASSUME NEW e \in IoEntry, Complete(e)
        PROVE  IoOnce'
    <2>1. \A c \in Cmd : state'[c] = IF c = e.command_id THEN "completed" ELSE state[c]
      BY <1>2 DEF Complete, QueueType
    <2>2. /\ \A i \in 1 .. Len(io') : /\ io'[i].command_id # e.command_id
                                      /\ \E q \in 1 .. Len(io) : io'[i] = io[q]
          /\ \A i, j \in 1 .. Len(io') : i # j => io'[i].command_id # io'[j].command_id
      BY <1>2, WithoutOnce DEF Complete, IoOnce
    <2>3. \A i \in 1 .. Len(io') : state'[io'[i].command_id] \in {"dispatched", "copied"}
      BY <1>0, <2>1, <2>2 DEF IoOnce, Requested
    <2> QED
      BY <2>2, <2>3 DEF IoOnce, Requested
  <1>3. ASSUME io' = io, NEW d \in Cmd, NEW st \in States, state' = [state EXCEPT ![d] = st],
               state[d] \in Requested => st \in Requested
        PROVE  IoOnce'
    <2>1. \A c \in Cmd : state'[c] = IF c = d THEN st ELSE state[c]
      BY <1>3 DEF QueueType
    <2> QED
      BY <1>0, <1>3, <2>1 DEF IoOnce, Requested
  <1>4. CASE UNCHANGED <<state, io>>
    BY <1>4 DEF IoOnce, Requested
  <1>5. CASE CopyPage
    <2>1. io' = io /\ cp.command_id \in Cmd
      BY <1>5 DEF CopyPage, WorkerType
    <2> QED
      BY <1>3, <1>4, <1>5, <2>1 DEF CopyPage, States, Requested
  <1>6. CASE HostReaps
    <2>1. Head(cq) = cq[1] /\ Len(cq) \in Nat /\ Len(cq) >= 1
      BY <1>6 DEF HostReaps, WorkerType
    <2>2. Head(cq).command_id \in Cmd /\ state[Head(cq).command_id] \in {"completed", "reaped"}
      BY <2>1, CompletedCommands DEF Done
    <2>3. io' = io /\ state' = [state EXCEPT ![Head(cq).command_id] = "reaped"]
      BY <1>6 DEF HostReaps
    <2> QED
      BY <1>3, <2>2, <2>3 DEF States, Requested
  <1>7. ASSUME NEW c \in Cmd, NEW k \in Kinds[c], HostPost(c, k)
        PROVE  IoOnce'
    <2>1. state[c] = "none" /\ io' = io /\ state' = [state EXCEPT ![c] = "posted"]
      BY <1>7 DEF HostPost, IsNext
    <2> QED
      BY <1>3, <2>1 DEF States, Requested
  <1> QED
    BY <1>1, <1>2, <1>4, <1>5, <1>6, <1>7, StateSteps

LEMMA CqOnceStep ==
  ASSUME IInv, CqOnce, [Next]_vars
  PROVE  CqOnce'
  <1> USE DEF IInv
  <1>0. (\A i \in 1 .. Len(cq) : cq[i].command_id \in Cmd) /\ Len(cq) \in Nat
    BY CompletedCommands DEF WorkerType
  <1>1. ASSUME NEW e \in IoEntry, state[e.command_id] = "copied", Complete(e)
        PROVE  CqOnce'
    <2>1. \A c \in Cmd : state'[c] = IF c = e.command_id THEN "completed" ELSE state[c]
      BY <1>1 DEF Complete, QueueType
    <2>2. e.command_id \in Cmd /\ \A i \in 1 .. Len(cq) : cq[i].command_id # e.command_id
      BY <1>1 DEF CqOnce, IoEntry
    <2>3. cq' = Append(cq, [command_id |-> e.command_id, sq_head |-> e.slot])
      BY <1>1 DEF Complete
    <2>4. Len(cq') = Len(cq) + 1 /\ cq'[Len(cq) + 1].command_id = e.command_id
            /\ \A i \in 1 .. Len(cq) : cq'[i] = cq[i]
      BY <1>0, <2>3 DEF WorkerType
    <2>5. \A i \in 1 .. Len(cq') : i = Len(cq) + 1 \/ i \in 1 .. Len(cq)
      BY <1>0, <2>4
    <2>6. \A i \in 1 .. Len(cq') : state'[cq'[i].command_id] = "completed"
      BY <1>0, <2>1, <2>2, <2>4, <2>5 DEF CqOnce
    <2>7. \A i, j \in 1 .. Len(cq') : i # j => cq'[i].command_id # cq'[j].command_id
      BY <2>2, <2>4, <2>5 DEF CqOnce
    <2> QED
      BY <2>6, <2>7 DEF CqOnce
  <1>2. CASE HostReaps
    <2>1. Head(cq) = cq[1] /\ Len(cq) >= 1 /\ cq' = Tail(cq)
      BY <1>2 DEF HostReaps, WorkerType
    <2>2. \A d \in Cmd : state'[d] = IF d = Head(cq).command_id THEN "reaped" ELSE state[d]
      BY <1>2 DEF HostReaps, QueueType
    <2>3. \A i \in 1 .. Len(cq') : i + 1 \in 1 .. Len(cq) /\ i + 1 # 1 /\ cq'[i] = cq[i + 1]
      BY <1>0, <2>1 DEF WorkerType
    <2>4. \A i \in 1 .. Len(cq') : cq'[i].command_id # Head(cq).command_id
      <3>1. 1 \in 1 .. Len(cq)
        BY <1>0, <2>1
      <3> QED
        BY <2>1, <2>3, <3>1 DEF CqOnce
    <2>5. \A i \in 1 .. Len(cq') : state'[cq'[i].command_id] = "completed"
      BY <1>0, <2>2, <2>3, <2>4 DEF CqOnce
    <2>6. \A i, j \in 1 .. Len(cq') : i # j => cq'[i].command_id # cq'[j].command_id
      <3> SUFFICES ASSUME NEW i \in 1 .. Len(cq'), NEW j \in 1 .. Len(cq'), i # j
                   PROVE  cq'[i].command_id # cq'[j].command_id
        OBVIOUS
      <3>1. i + 1 # j + 1
        OBVIOUS
      <3> QED
        BY <2>3, <3>1 DEF CqOnce
    <2> QED
      BY <2>5, <2>6 DEF CqOnce
  <1>3. ASSUME cq' = cq, NEW d \in Cmd, NEW st \in States, state' = [state EXCEPT ![d] = st],
               state[d] # "completed"
        PROVE  CqOnce'
    <2>1. \A c \in Cmd : state'[c] = IF c = d THEN st ELSE state[c]
      BY <1>3 DEF QueueType
    <2> QED
      BY <1>0, <1>3, <2>1 DEF CqOnce
  <1>4. CASE UNCHANGED <<state, cq>>
    BY <1>4 DEF CqOnce
  <1>5. CASE CopyPage
    <2>1. cq' = cq /\ cp.command_id \in Cmd /\ state[cp.command_id] = "dispatched"
      BY <1>5 DEF CopyPage, WorkerType, Done
    <2> QED
      BY <1>3, <1>4, <1>5, <2>1 DEF CopyPage, States
  <1>6. ASSUME NEW t, Enqueue(t), UNCHANGED ioFrame, dpc = "gc_high"
        PROVE  CqOnce'
    <2>1. Current \in Cmd /\ state[Current] = "posted"
      BY <1>6, CurrentPosted
    <2> QED
      BY <1>3, <1>6, <2>1 DEF Enqueue, ioFrame, States
  <1>7. ASSUME NEW c \in Cmd, NEW k \in Kinds[c], HostPost(c, k)
        PROVE  CqOnce'
    <2>1. state[c] = "none" /\ cq' = cq /\ state' = [state EXCEPT ![c] = "posted"]
      BY <1>7 DEF HostPost, IsNext
    <2> QED
      BY <1>3, <2>1 DEF States
  <1> QED
    BY <1>1, <1>2, <1>4, <1>5, <1>6, <1>7, StateSteps

-----------------------------------------------------------------------------
(* The counts *)

LEMMA CmdsFinite ==
  /\ IsFiniteSet(Cmd)
  /\ IsFiniteSet(Outstanding) /\ Cardinality(Outstanding) \in Nat
  /\ IsFiniteSet(Taken) /\ Cardinality(Taken) \in Nat
  <1>1. IsFiniteSet(Cmd)
    BY FS_Interval, PathAssumption DEF Cmd
  <1>2. IsFiniteSet(Outstanding) /\ IsFiniteSet(Taken)
    BY <1>1, FS_Subset DEF Outstanding, Taken
  <1> QED
    BY <1>1, <1>2, FS_CardinalityType

(* Only a command that the host posts adds to those under way. *)
LEMMA FewStep ==
  ASSUME IInv, Few, [Next]_vars
  PROVE  Few'
  <1> USE DEF IInv
  <1>0. /\ IsFiniteSet(Outstanding) /\ Cardinality(Outstanding) \in Nat
        /\ Cardinality(Outstanding') \in Nat
    <2>1. IsFiniteSet(Outstanding')
      BY CmdsFinite, FS_Subset DEF Outstanding
    <2> QED
      BY <2>1, CmdsFinite, FS_CardinalityType
  <1>1. ASSUME Outstanding' \subseteq Outstanding
        PROVE  Few'
    <2>1. Cardinality(Outstanding') <= Cardinality(Outstanding)
      BY <1>0, <1>1, FS_Subset
    <2> QED
      BY <1>0, <2>1, PathAssumption DEF Few
  <1>2. ASSUME NEW d \in Cmd, NEW st \in States, state' = [state EXCEPT ![d] = st],
               st \in {"posted", "dispatched", "copied", "completed"} => d \in Outstanding
        PROVE  Few'
    <2>1. \A c \in Cmd : state'[c] = IF c = d THEN st ELSE state[c]
      BY <1>2 DEF QueueType
    <2>2. Outstanding' \subseteq Outstanding
      BY <1>2, <2>1 DEF Outstanding
    <2> QED
      BY <1>1, <2>2
  <1>3. CASE state' = state
    BY <1>1, <1>3 DEF Outstanding
  <1>4. ASSUME NEW e \in IoEntry, state[e.command_id] = "copied", Complete(e)
        PROVE  Few'
    <2>1. e.command_id \in Outstanding /\ e.command_id \in Cmd
      BY <1>4 DEF IoEntry, Outstanding
    <2> QED
      BY <1>2, <1>4, <2>1 DEF Complete, States
  <1>5. CASE HostReaps
    <2>1. Head(cq) = cq[1] /\ Len(cq) \in Nat /\ Len(cq) >= 1
      BY <1>5 DEF HostReaps, WorkerType
    <2>2. Head(cq).command_id \in Cmd
      BY <2>1, CompletedCommands
    <2> QED
      BY <1>2, <1>5, <2>2 DEF HostReaps, States
  <1>6. CASE CopyPage
    <2>1. cp.command_id \in Cmd /\ state[cp.command_id] = "dispatched"
      BY <1>6 DEF CopyPage, WorkerType, Done
    <2>2. cp.command_id \in Outstanding
      BY <2>1 DEF Outstanding
    <2> QED
      BY <1>2, <1>3, <1>6, <2>1, <2>2 DEF CopyPage, States
  <1>7. ASSUME NEW t, Enqueue(t), dpc = "gc_high"
        PROVE  Few'
    <2>1. Current \in Cmd /\ state[Current] = "posted"
      BY <1>7, CurrentPosted
    <2>2. Current \in Outstanding
      BY <2>1 DEF Outstanding
    <2> QED
      BY <1>2, <1>7, <2>1, <2>2 DEF Enqueue, States
  <1>8. ASSUME NEW c \in Cmd, NEW k \in Kinds[c], HostPost(c, k)
        PROVE  Few'
    <2>1. \A d \in Cmd : state'[d] = IF d = c THEN "posted" ELSE state[d]
      BY <1>8 DEF HostPost, QueueType
    <2>2. Outstanding' \subseteq Outstanding \union {c}
      BY <2>1 DEF Outstanding
    <2>3. IsFiniteSet(Outstanding \union {c})
            /\ Cardinality(Outstanding \union {c}) <= Cardinality(Outstanding) + 1
      <3>1. /\ IsFiniteSet(Outstanding \union {c})
            /\ Cardinality(Outstanding \union {c}) =
                 IF c \in Outstanding THEN Cardinality(Outstanding)
                                      ELSE Cardinality(Outstanding) + 1
        BY <1>0, FS_AddElement, Zenon
      <3> QED
        BY <1>0, <3>1
    <2>4. Cardinality(Outstanding') <= Cardinality(Outstanding \union {c})
            /\ Cardinality(Outstanding \union {c}) \in Nat
      BY <2>2, <2>3, FS_Subset, FS_CardinalityType
    <2>5. Cardinality(Outstanding) < queue_size - 1
      BY <1>8 DEF HostPost
    <2> QED
      BY <1>0, <2>3, <2>4, <2>5, PathAssumption DEF Few
  <1> QED
    BY <1>3, <1>4, <1>5, <1>6, <1>7, <1>8, StateSteps

LEMMA Distances ==
  ASSUME NEW new \in Slot, NEW old \in Slot
  PROVE  /\ Distance(new, old) \in Nat /\ Distance(new, new) = 0
         /\ \/ Distance(NextSlot(new), old) = Distance(new, old) + 1
            \/ Distance(NextSlot(new), old) = Distance(new, old) + 1 - queue_size
  <1>1. queue_size \in Nat /\ queue_size > 1 /\ new \in Int /\ old \in Int
          /\ 0 <= new /\ new < queue_size /\ 0 <= old /\ old < queue_size
    BY PathAssumption DEF Slot
  <1>2. Distance(new, old) \in Nat /\ Distance(new, new) = 0
    BY <1>1 DEF Distance
  <1>3. CASE new + 1 = queue_size
    <2>1. NextSlot(new) = 0
      BY <1>3 DEF NextSlot
    <2> QED
      BY <1>1, <1>2, <1>3, <2>1 DEF Distance
  <1>4. CASE new + 1 # queue_size
    <2>1. NextSlot(new) = new + 1
      BY <1>4 DEF NextSlot
    <2> QED
      BY <1>1, <1>2, <1>4, <2>1 DEF Distance
  <1> QED
    BY <1>2, <1>3, <1>4

(* The dispatcher is off by a number of rounds, and by one more when the    *)
(* host comes round to where the dispatcher has seen it last.              *)
LEMMA OneMoreRound ==
  ASSUME NEW m, m \in Int, NEW r \in Nat, m = r * queue_size
  PROVE  m + queue_size = (r + 1) * queue_size
  BY PathAssumption

LEMMA TakenType ==
  ASSUME NEW T, T \subseteq Cmd
  PROVE  IsFiniteSet(T) /\ Cardinality(T) \in Nat
  BY CmdsFinite, FS_Subset, FS_CardinalityType

Counting == IF dpc = "gc" THEN 1 ELSE 0

LEMMA MissedType ==
  ASSUME QueueType, nr_in_flight \in Int
  PROVE  /\ MissedInFlight =
              nr_in_flight + Counting - (Cardinality(Taken) + Distance(dbs.cq, old_dbs.cq))
         /\ Counting \in Int /\ Cardinality(Taken) \in Int
         /\ Distance(dbs.cq, old_dbs.cq) \in Int
         /\ MissedInFlight \in Int
  <1>1. dbs.cq \in Slot /\ old_dbs.cq \in Slot
    BY DEF QueueType
  <1>2. Distance(dbs.cq, old_dbs.cq) \in Int
    BY <1>1, Distances
  <1>3. Cardinality(Taken) \in Int
    BY CmdsFinite
  <1>4. Counting \in Int
    BY DEF Counting
  <1>5. MissedInFlight = nr_in_flight + Counting - (Cardinality(Taken) + Distance(dbs.cq, old_dbs.cq))
    BY DEF MissedInFlight, Counting
  <1> QED
    BY <1>2, <1>3, <1>4, <1>5

LEMMA RoundsMissedStep ==
  ASSUME IInv, CqOnce, RoundsMissed, [Next]_vars
  PROVE  RoundsMissed'
  <1> USE DEF IInv
  <1> DEFINE n == nr_in_flight
             t == Cardinality(Taken)
             d == Distance(dbs.cq, old_dbs.cq)
  <1>0. QueueType'
    BY QueueTypeStep
  <1>1. /\ n \in Int /\ t \in Int /\ d \in Int /\ Counting \in Int
        /\ MissedInFlight = n + Counting - (t + d)
    BY MissedType DEF RoundsMissed
  <1>2. n' \in Int => /\ t' \in Int /\ d' \in Int /\ Counting' \in Int
                      /\ MissedInFlight' = n' + Counting' - (t' + d')
    <2>1. t' \in Int
      BY CmdsFinite, TakenType DEF Taken
    <2>2. d' \in Int
      <3>1. dbs'.cq \in Slot /\ old_dbs'.cq \in Slot
        BY <1>0 DEF QueueType
      <3>2. Distance(dbs'.cq, old_dbs'.cq) \in Int
        BY <3>1, Distances
      <3> QED
        BY <3>2 DEF Distance
    <2>3. Counting' \in Int
      BY DEF Counting
    <2> QED
      BY <2>1, <2>2, <2>3 DEF MissedInFlight, Counting
  <1> HIDE DEF n, t, d
  <1>3. ASSUME n' \in Int, stat_reset' = stat_reset,
               \/ MissedInFlight' = MissedInFlight
               \/ MissedInFlight' = MissedInFlight + queue_size
        PROVE  RoundsMissed'
    <2>1. CASE ~stat_reset
      <3>1. PICK r \in Nat : MissedInFlight = r * queue_size
        BY <2>1 DEF RoundsMissed
      <3>2. MissedInFlight' = r * queue_size \/ MissedInFlight' = (r + 1) * queue_size
        BY <1>1, <1>3, <3>1, OneMoreRound
      <3>3. \E q \in Nat : MissedInFlight' = q * queue_size
        BY <3>2
      <3> QED
        BY <1>3, <3>3 DEF RoundsMissed, n
    <2>2. CASE stat_reset
      BY <1>3, <2>2 DEF RoundsMissed, n
    <2> QED
      BY <2>1, <2>2
  <1>4. ASSUME NEW c \in Cmd, NEW st \in States, state' = [state EXCEPT ![c] = st],
               st \in {"dispatched", "copied", "completed"} <=> c \in Taken
        PROVE  t' = t
    <2>1. \A e \in Cmd : state'[e] = IF e = c THEN st ELSE state[e]
      BY <1>4 DEF QueueType
    <2>2. Taken' = Taken
      BY <1>4, <2>1 DEF Taken
    <2> QED
      BY <2>2 DEF t
  <1>5. ASSUME UNCHANGED <<dpc, nr_in_flight, stat_reset>>, d' = d, t' = t
        PROVE  RoundsMissed'
    <2>1. n' = n /\ Counting' = Counting
      BY <1>5 DEF n, Counting
    <2> QED
      BY <1>1, <1>2, <1>3, <1>5, <2>1
  <1>6. CASE dpc = "gc_high" /\ (\E x \in Nat : Enqueue(x)) /\ UNCHANGED ioFrame
    <2>1. PICK x \in Nat : Enqueue(x)
      BY <1>6
    <2>2. /\ Current \in Cmd /\ state[Current] = "posted"
          /\ \A c \in Cmd : state'[c] = IF c = Current THEN "dispatched" ELSE state[c]
      BY <1>6, <2>1, EnqueuedState
    <2>3. Taken' = Taken \union {Current} /\ Current \notin Taken
      BY <2>2 DEF Taken
    <2>4. t' = t + 1
      BY <2>3, CmdsFinite, FS_AddElement DEF t
    <2>5. Counting = 0 /\ Counting' = 1
      BY <1>6, <2>1 DEF Counting, Enqueue
    <2>6. n' = n /\ d' = d /\ stat_reset' = stat_reset
      BY <1>6 DEF ioFrame, statVars, n, d
    <2> QED
      BY <1>1, <1>2, <1>3, <2>4, <2>5, <2>6
  <1>7. CASE CheckGcSkip \/ CheckGcRun
    <2>1. Counting = 1 /\ Counting' = 0 /\ n' = n + 1 /\ stat_reset' = stat_reset
      BY <1>7 DEF CheckGcSkip, CheckGcRun, CountCommand, Counting, n
    <2>2. t' = t /\ d' = d
      BY <1>7 DEF CheckGcSkip, CheckGcRun, hostVars, t, d, Taken, Distance
    <2> QED
      BY <1>1, <1>2, <1>3, <2>1, <2>2
  <1>8. CASE ProcIoCq
    <2>1. Counting = 0 /\ Counting' = 0 /\ n' = n - d /\ stat_reset' = stat_reset
      BY <1>8 DEF ProcIoCq, Counting, n, d
    <2>2. t' = t
      BY <1>8 DEF ProcIoCq, hostVars, t, Taken
    <2>3. d' = 0
      <3>1. dbs'.cq = dbs.cq /\ old_dbs'.cq = dbs.cq /\ dbs.cq \in Slot
        BY <1>8 DEF ProcIoCq, QueueType
      <3> QED
        BY <3>1, Distances DEF d, Distance
    <2> QED
      BY <1>1, <1>2, <1>3, <2>1, <2>2, <2>3
  <1>9. CASE HostReaps
    <2>1. Head(cq) = cq[1] /\ Len(cq) \in Nat /\ Len(cq) >= 1
      BY <1>9 DEF HostReaps, WorkerType
    <2>2. Head(cq).command_id \in Cmd /\ state[Head(cq).command_id] = "completed"
      BY <2>1, CompletedCommands DEF CqOnce
    <2>3. \A e \in Cmd : state'[e] = IF e = Head(cq).command_id THEN "reaped" ELSE state[e]
      BY <1>9 DEF HostReaps, QueueType
    <2>4. Taken' = Taken \ {Head(cq).command_id} /\ Head(cq).command_id \in Taken
      BY <2>2, <2>3 DEF Taken
    <2>5. t' = t - 1
      BY <2>4, CmdsFinite, FS_RemoveElement DEF t
    <2>6. Counting' = Counting /\ n' = n /\ stat_reset' = stat_reset
      BY <1>9 DEF HostReaps, dispVars, statVars, Counting, n
    <2>7. d' = d + 1 \/ d' = d + 1 - queue_size
      <3>1. dbs'.cq = NextSlot(dbs.cq) /\ old_dbs'.cq = old_dbs.cq
              /\ dbs.cq \in Slot /\ old_dbs.cq \in Slot
        BY <1>9 DEF HostReaps, QueueType
      <3> QED
        BY <3>1, Distances DEF d, Distance
    <2>8. queue_size \in Int
      BY PathAssumption
    <2> QED
      BY <1>1, <1>2, <1>3, <2>5, <2>6, <2>7, <2>8
  <1>10. CASE ProcFile
    <2>1. CASE nr_in_flight' = 0 /\ stat_reset' = TRUE
      BY <2>1 DEF RoundsMissed
    <2>2. CASE UNCHANGED statVars
      <3>1. UNCHANGED <<dpc, nr_in_flight, stat_reset>> /\ d' = d /\ t' = t
        BY <1>10, <2>2 DEF ProcFile, statVars, hostVars, dispVars, d, t, Taken
      <3> QED
        BY <1>5, <3>1
    <2> QED
      BY <1>10, <2>1, <2>2 DEF ProcFile
  <1>11. CASE CopyPage
    <2>1. cp.command_id \in Cmd /\ state[cp.command_id] = "dispatched"
      BY <1>11 DEF CopyPage, WorkerType, Done
    <2>2. cp.command_id \in Taken
      BY <2>1 DEF Taken
    <2>3. t' = t
      <3>1. CASE state' = state
        BY <3>1 DEF t, Taken
      <3>2. CASE state' = [state EXCEPT ![cp.command_id] = "copied"]
        BY <1>4, <2>1, <2>2, <3>2 DEF States
      <3> QED
        BY <1>11, <3>1, <3>2 DEF CopyPage
    <2>4. UNCHANGED <<dpc, nr_in_flight, stat_reset>> /\ d' = d
      BY <1>11 DEF CopyPage, workFrame, dispVars, statVars, d
    <2> QED
      BY <1>5, <2>3, <2>4
  <1>12. ASSUME NEW e \in IoEntry, state[e.command_id] = "copied", Complete(e),
                UNCHANGED <<dpc, old_dbs, dbs, nr_in_flight, stat_reset>>
         PROVE  RoundsMissed'
    <2>1. e.command_id \in Cmd /\ e.command_id \in Taken
      BY <1>12 DEF IoEntry, Taken
    <2>2. state' = [state EXCEPT ![e.command_id] = "completed"]
      BY <1>12 DEF Complete
    <2>3. t' = t
      BY <1>4, <2>1, <2>2 DEF States
    <2>4. d' = d
      BY <1>12 DEF d
    <2> QED
      BY <1>5, <1>12, <2>3, <2>4
  <1>13. ASSUME NEW c \in Cmd, NEW k \in Kinds[c], HostPost(c, k)
         PROVE  RoundsMissed'
    <2>1. c \notin Taken /\ state' = [state EXCEPT ![c] = "posted"]
      BY <1>13 DEF HostPost, IsNext, Taken
    <2>2. t' = t
      BY <1>4, <2>1 DEF States
    <2>3. UNCHANGED <<dpc, nr_in_flight, stat_reset>> /\ dbs'.cq = dbs.cq /\ old_dbs' = old_dbs
      BY <1>13 DEF HostPost, dispVars, statVars, QueueType
    <2>4. d' = d
      BY <2>3 DEF d, Distance
    <2> QED
      BY <1>5, <2>2, <2>3, <2>4
  <1>14. ASSUME UNCHANGED <<state, dbs, old_dbs, nr_in_flight, stat_reset>>,
                dpc # "gc", dpc' # "gc"
         PROVE  RoundsMissed'
    <2>1. n' = n /\ d' = d /\ t' = t /\ Counting' = Counting
      BY <1>14 DEF n, d, t, Taken, Counting
    <2> QED
      BY <1>1, <1>2, <1>3, <1>14, <2>1
  <1>15. CASE EndIoSq
    <2>1. /\ dpc # "gc" /\ dpc' # "gc" /\ UNCHANGED <<state, dbs, nr_in_flight, stat_reset>>
          /\ old_dbs'.cq = old_dbs.cq
      BY <1>15 DEF EndIoSq, hostVars, statVars, QueueType
    <2>2. n' = n /\ d' = d /\ t' = t /\ Counting' = Counting
      BY <2>1 DEF n, d, t, Taken, Counting, Distance
    <2> QED
      BY <1>1, <1>2, <1>3, <2>1, <2>2
  <1>16. CASE StartIoSq \/ StartIo
    BY <1>14, <1>16 DEF StartIoSq, StartIo, hostVars, statVars
  <1>17. CASE GcHigh \/ StartCopy \/ Tick \/ UNCHANGED vars
    <2>1. UNCHANGED <<dpc, state, dbs, old_dbs, nr_in_flight, stat_reset>>
      BY <1>17 DEF GcHigh, StartCopy, Tick, workFrame, hostVars, dispVars, statVars, vars
    <2>2. d' = d /\ t' = t
      BY <2>1 DEF d, t, Taken
    <2> QED
      BY <1>5, <2>1, <2>2
  <1>18. CASE ssd_read \/ ssd_write \/ NoFlashAccess
    <2>1. dpc = "gc_high" /\ UNCHANGED ioFrame
      BY <1>18 DEF ssd_read, ssd_write, NoFlashAccess
    <2>2. \E x \in Nat : Enqueue(x)
      BY <1>18, EnqueuesAt
    <2> QED
      BY <1>6, <2>1, <2>2
  <1>19. CASE PostCompletion
    <2>1. UNCHANGED <<dpc, old_dbs, dbs, nr_in_flight, stat_reset>>
      BY <1>19 DEF PostCompletion, workFrame, dispVars, statVars
    <2>2. CASE state' = state
      <3>1. d' = d /\ t' = t
        BY <2>1, <2>2 DEF d, t, Taken
      <3> QED
        BY <1>5, <2>1, <3>1
    <2>3. CASE \E e \in IoEntry : state[e.command_id] = "copied" /\ Complete(e)
      BY <1>12, <2>1, <2>3
    <2> QED
      BY <1>19, <2>2, <2>3, PostsCopied
  <1> QED
    BY <1>7, <1>8, <1>9, <1>10, <1>11, <1>13, <1>15, <1>16, <1>17, <1>18, <1>19
    DEF Next, DispatcherStep, WorkerStep

-----------------------------------------------------------------------------
(* The FTL and the kinds of commands *)

LEMMA LunRound == \A x \in Int : x % tt_luns \in Lun
  BY LunAssumption DEF Lun

LEMMA CleaningMoves ==
  ASSUME FtlType, do_gc
  PROVE  maptbl' \in [0 .. tt_pgs - 1 -> Lun \union {UNMAPPED}] /\ wp' \in Lun
  <1>1. maptbl \in [0 .. tt_pgs - 1 -> Lun \union {UNMAPPED}] /\ wp \in Lun
    BY DEF FtlType
  <1>2. (wp + 1) % tt_luns \in Lun
    BY <1>1, LunRound DEF Lun
  <1> QED
    BY <1>1, <1>2 DEF do_gc, ftlVars

LEMMA FtlTypeStep ==
  ASSUME IInv, FtlType, [Next]_vars
  PROVE  FtlType'
  <1> USE DEF IInv
  <1>0. wp \in Int /\ wp \in Lun /\ maptbl \in [0 .. tt_pgs - 1 -> Lun \union {UNMAPPED}]
          /\ now \in 0 .. MaxTime
    BY DEF FtlType, Lun
  <1>1. maptbl' \in [0 .. tt_pgs - 1 -> Lun \union {UNMAPPED}] /\ wp' \in Lun
    <2>1. CASE GcHigh \/ CheckGcRun
      BY <2>1, CleaningMoves DEF GcHigh, CheckGcRun
    <2>2. CASE ssd_write
      <3>1. PICK k \in Kind \union {NoKind} :
              /\ k = kind[Current]
              /\ maptbl' = [p \in DOMAIN maptbl |->
                              IF p \in FirstLpn(k) .. LastLpn(k) THEN WriteLun(k, p) ELSE maptbl[p]]
              /\ wp' = WriteLun(k, LastLpn(k) + 1)
        BY <2>2, CurrentPosted DEF ssd_write
      <3>2. FirstLpn(k) \in Int /\ LastLpn(k) + 1 \in Int
        BY DEF FirstLpn, LastLpn, Kind, NoKind, PAGE_SIZE
      <3>3. \A p \in Int : WriteLun(k, p) \in Lun
        <4> SUFFICES ASSUME NEW p \in Int
                     PROVE  (wp + (p - FirstLpn(k))) % tt_luns \in Lun
          BY DEF WriteLun
        <4>1. wp + (p - FirstLpn(k)) \in Int
          BY <1>0, <3>2
        <4> QED
          BY <4>1, LunRound
      <3>4. DOMAIN maptbl = 0 .. tt_pgs - 1 /\ \A p \in DOMAIN maptbl : p \in Int
        BY <1>0
      <3> QED
        BY <1>0, <3>1, <3>2, <3>3, <3>4
    <2>3. CASE UNCHANGED ftlVars
      BY <1>0, <2>3 DEF ftlVars
    <2> QED
      BY <2>1, <2>2, <2>3
      DEF Next, DispatcherStep, StartIoSq, StartIo, ssd_read, NoFlashAccess, CheckGcSkip, EndIoSq,
          ProcIoCq, WorkerStep, StartCopy, CopyPage, PostCompletion, workFrame, HostReaps, ProcFile,
          Tick, HostPost, vars, ftlVars
  <1>2. now' \in 0 .. MaxTime
    <2>1. CASE Tick
      BY <1>0, <2>1, PathAssumption DEF Tick
    <2>2. CASE now' = now
      BY <1>0, <2>2
    <2> QED
      BY <2>1, <2>2
      DEF Next, DispatcherStep, StartIoSq, StartIo, GcHigh, CheckGcRun, do_gc, ssd_read, ssd_write,
          Access, NoFlashAccess, CheckGcSkip, EndIoSq, ProcIoCq, WorkerStep, StartCopy, CopyPage,
          PostCompletion, workFrame, HostReaps, ProcFile, adjust_ftl_latency, HostPost, vars,
          timingVars
  <1>3. \A c \in Cmd : kind'[c] \in Kinds[c] \/ (kind'[c] = NoKind /\ state'[c] = "none")
    <2>1. ASSUME NEW c \in Cmd, NEW k \in Kinds[c], HostPost(c, k)
          PROVE  \A e \in Cmd : kind'[e] \in Kinds[e] \/ (kind'[e] = NoKind /\ state'[e] = "none")
      <3>1. \A e \in Cmd : /\ kind'[e] = IF e = c THEN k ELSE kind[e]
                           /\ state'[e] = IF e = c THEN "posted" ELSE state[e]
        BY <2>1 DEF HostPost, QueueType
      <3> QED
        BY <3>1 DEF FtlType
    <2>2. ASSUME kind' = kind, NEW d \in Cmd, state[d] # "none",
                 NEW st, state' = [state EXCEPT ![d] = st]
          PROVE  \A e \in Cmd : kind'[e] \in Kinds[e] \/ (kind'[e] = NoKind /\ state'[e] = "none")
      <3>1. \A e \in Cmd : e # d => state'[e] = state[e]
        BY <2>2 DEF QueueType
      <3> QED
        BY <2>2, <3>1 DEF FtlType
    <2>3. CASE UNCHANGED <<kind, state>>
      BY <2>3 DEF FtlType
    <2>4. (~ \E c \in Cmd : \E k \in Kinds[c] : HostPost(c, k)) => kind' = kind
      BY DEF Next, DispatcherStep, StartIoSq, StartIo, GcHigh, CheckGcRun, ssd_read, ssd_write,
          Access, NoFlashAccess, CheckGcSkip, EndIoSq, ProcIoCq, WorkerStep, StartCopy, CopyPage,
          PostCompletion, workFrame, HostReaps, ProcFile, Tick, vars, hostVars, ioFrame
    <2>5. CASE kind' = kind /\ ~UNCHANGED state
      <3>1. ASSUME NEW t, Enqueue(t), dpc = "gc_high"
            PROVE  \E d \in Cmd : state[d] # "none" /\ \E st : state' = [state EXCEPT ![d] = st]
        <4>1. Current \in Cmd /\ state[Current] = "posted"
          BY <3>1, CurrentPosted
        <4> QED
          BY <3>1, <4>1 DEF Enqueue
      <3>2. ASSUME NEW e \in IoEntry, state[e.command_id] = "copied", Complete(e)
            PROVE  \E d \in Cmd : state[d] # "none" /\ \E st : state' = [state EXCEPT ![d] = st]
        BY <3>2 DEF Complete, IoEntry
      <3>3. ASSUME CopyPage
            PROVE  \E d \in Cmd : state[d] # "none" /\ \E st : state' = [state EXCEPT ![d] = st]
        <4>1. cp.command_id \in Cmd /\ state[cp.command_id] = "dispatched"
          BY <3>3 DEF CopyPage, WorkerType, Done
        <4> QED
          BY <2>5, <3>3, <4>1 DEF CopyPage
      <3>4. ASSUME HostReaps
            PROVE  \E d \in Cmd : state[d] # "none" /\ \E st : state' = [state EXCEPT ![d] = st]
        <4>1. Head(cq) = cq[1] /\ Len(cq) \in Nat /\ Len(cq) >= 1
          BY <3>4 DEF HostReaps, WorkerType
        <4>2. Head(cq).command_id \in Cmd /\ state[Head(cq).command_id] # "none"
          BY <4>1, CompletedCommands DEF Done
        <4> QED
          BY <3>4, <4>2 DEF HostReaps
      <3>5. ASSUME NEW c \in Cmd, NEW k \in Kinds[c], HostPost(c, k)
            PROVE  \A e \in Cmd : kind'[e] \in Kinds[e] \/ (kind'[e] = NoKind /\ state'[e] = "none")
        BY <2>1, <3>5
      <3> QED
        BY <2>2, <2>5, <3>1, <3>2, <3>3, <3>4, <3>5, StateSteps
    <2> QED
      BY <2>1, <2>3, <2>4, <2>5
  <1> QED
    BY <1>1, <1>2, <1>3 DEF FtlType

-----------------------------------------------------------------------------
(* The theorems on types and counts *)

LEMMA CountStart == Init => CountInv
  <1> SUFFICES ASSUME Init PROVE CountInv
    OBVIOUS
  <1> USE DEF Init
  <1>1. FtlType
    BY PathAssumption, LunAssumption DEF FtlType, TimingInit, Lun, UNMAPPED
  <1>2. IoOnce /\ CqOnce
    BY DEF IoOnce, CqOnce
  <1>3. Few
    <2>1. Outstanding = {}
      BY DEF Outstanding
    <2>2. Cardinality({}) = 0
      BY FS_EmptySet
    <2> QED
      BY <2>1, <2>2, PathAssumption DEF Few
  <1>4. RoundsMissed
    <2>1. Taken = {} /\ Distance(0, 0) = 0 /\ Counting = 0
      BY DEF Taken, Distance, Counting
    <2>2. Cardinality(Taken) = 0
      BY <2>1, FS_EmptySet
    <2>3. MissedInFlight = 0
      BY <2>1, <2>2 DEF MissedInFlight
    <2>4. 0 = 0 * queue_size
      BY PathAssumption
    <2> QED
      BY <2>3, <2>4 DEF RoundsMissed
  <1> QED
    BY <1>1, <1>2, <1>3, <1>4 DEF CountInv

LEMMA CountStep == IInv /\ CountInv /\ [Next]_vars => CountInv'
  BY FtlTypeStep, IoOnceStep, CqOnceStep, FewStep, RoundsMissedStep DEF CountInv

(* As many entries as commands under way, at most. *)
LEMMA ListFits ==
  ASSUME Few, NEW s, Len(s) \in Nat, \A i \in 1 .. Len(s) : s[i].command_id \in Outstanding,
         \A i, j \in 1 .. Len(s) : i # j => s[i].command_id # s[j].command_id
  PROVE  Len(s) < queue_size
  <1> DEFINE f == [i \in 1 .. Len(s) |-> s[i].command_id]
  <1>1. IsFiniteSet(1 .. Len(s)) /\ Cardinality(1 .. Len(s)) = Len(s)
    <2>1. IsFiniteSet(1 .. Len(s))
            /\ Cardinality(1 .. Len(s)) = IF 1 > Len(s) THEN 0 ELSE Len(s) - 1 + 1
      BY FS_Interval
    <2> QED
      BY <2>1
  <1>2. f \in [1 .. Len(s) -> Outstanding]
    OBVIOUS
  <1>3. \A i, j \in 1 .. Len(s) : i # j => f[i] # f[j]
    OBVIOUS
  <1> HIDE DEF f
  <1>4. IsFiniteSet(Outstanding) /\ Cardinality(Outstanding) \in Nat
    BY CmdsFinite
  <1>5. ~ (Cardinality(Outstanding) < Cardinality(1 .. Len(s)))
    BY <1>1, <1>2, <1>3, <1>4, FS_PigeonHole
  <1> QED
    BY <1>1, <1>4, <1>5, PathAssumption DEF Few

LEMMA CountTypes == IInv /\ CountInv => TypeOK
  <1> SUFFICES ASSUME IInv, CountInv PROVE TypeOK
    OBVIOUS
  <1> USE DEF IInv, CountInv
  <1>1. Len(io) < queue_size
    <2>1. \A i \in 1 .. Len(io) : io[i].command_id \in Outstanding
      BY IoCommands DEF IoOnce, Requested, Outstanding
    <2> QED
      BY <2>1, ListFits DEF IoOnce, WorkerType
  <1>2. Len(cq) < queue_size
    <2>1. \A i \in 1 .. Len(cq) : cq[i].command_id \in Outstanding
      BY CompletedCommands DEF CqOnce, Outstanding
    <2> QED
      BY <2>1, ListFits DEF CqOnce, WorkerType
  <1>3. \A c \in Cmd : kind[c] \in Kinds[c] \union {NoKind}
    BY DEF FtlType
  <1> QED
    BY <1>1, <1>2, <1>3 DEF TypeOK, TimeType, QueueType, FtlType, States

LEMMA Multiples == \A r \in Nat : r * queue_size >= 0 /\ (r * queue_size) % queue_size = 0
  BY PathAssumption

LEMMA CountRounds == CountInv => InFlightWholeRounds
  BY Multiples DEF CountInv, RoundsMissed, InFlightWholeRounds

(* The slots, doorbells and states that the dispatcher and the worker keep  *)
(* are ones there are, and neither the list of the worker nor the ring of  *)
(* completions ever holds as many entries as the queues have: the driver   *)
(* keeps one slot free (main.c nvmev_proc_dbs, io.c __enqueue_io_req).     *)
THEOREM TypesAreKept == Spec => []TypeOK
  BY Start, Step, CountStart, CountStep, CountTypes, PTL DEF Spec

(* nr_in_flight is never too low, and too high by whole rounds of the       *)
(* completion queue only: the doorbell tells the dispatcher where the host *)
(* is in the ring, not how often it has gone round (main.c:137, io.c:418). *)
THEOREM InFlightCounted == Spec => []InFlightWholeRounds
  BY Start, Step, CountStart, CountStep, CountRounds, PTL DEF Spec

-----------------------------------------------------------------------------
(* What is copied *)

(* The offset in the buffer at which page i ends, and the number of pages.  *)
Before(k, i) == IF i = 0 THEN 0 ELSE i * PAGE_SIZE - k.offs
PagesOf(k) == (k.offs + k.len + PAGE_SIZE - 1) \div PAGE_SIZE

Piece(write, offset, buffer, page, at, size) ==
  [write |-> write, offset |-> offset, buffer |-> buffer, page |-> page, at |-> at, size |-> size]

PieceOf(c, k, i) ==
  Piece(k.op = "write", k.slba + Before(k, i - 1), c, i - 1, IF i = 1 THEN k.offs ELSE 0,
        Smaller(Before(k, i), k.len) - Before(k, i - 1))

(* n pages of command c are copied. *)
Copied(c, n) == moved[c] = [i \in 1 .. n |-> PieceOf(c, kind[c], i)]

(* No slot is given to another command while the worker may read it. *)
SlotsKept ==
  /\ \A i \in 1 .. Len(io) : sq[io[i].slot] = io[i].command_id
  /\ wpc # "round" => sq[cp.slot] = cp.command_id

CopyingOf(c, k) ==
  /\ cp.prp_offs \in 0 .. PagesOf(k) - 1
  /\ Copied(c, cp.prp_offs)
  /\ cp.offset = k.slba + Before(k, cp.prp_offs)
  /\ cp.remaining = k.len - Before(k, cp.prp_offs)
  /\ cp.mem_offs = 0
  /\ cp.prp_offs >= 2 => cp.paddr_list = c

CopyVar == DOMAIN NoCopy
Copying ==
  /\ DOMAIN cp = CopyVar
  /\ wpc = "copy" /\ kind[cp.command_id].op # "flush" =>
       CopyingOf(cp.command_id, kind[cp.command_id])

CopiedWhole ==
  /\ DOMAIN moved = Cmd
  /\ \A c \in Cmd :
       /\ state[c] \in {"none", "posted", "dispatched"} /\ ~(wpc = "copy" /\ cp.command_id = c) =>
            moved[c] = <<>>
       /\ state[c] \in {"copied", "completed", "reaped"} /\ kind[c].op # "flush" =>
            Copied(c, PagesOf(kind[c]))

CopyInv == SlotsKept /\ Copying /\ CopiedWhole

(* Of a read or a write that begins inside a page, no second page is used.  *)
OffsetsFit ==
  \A c \in Cmd : \A k \in Kinds[c] :
    k.op # "flush" /\ k.offs # 0 => k.offs + k.len <= PAGE_SIZE

LEMMA CopySteps ==
  ASSUME IInv, [Next]_vars
  PROVE  \/ UNCHANGED <<state, io, sq, kind, moved, wpc, cp>>
         \/ /\ dpc = "gc_high" /\ (\E t \in Nat : Enqueue(t))
            /\ UNCHANGED <<sq, kind, moved, wpc, cp>>
         \/ StartCopy
         \/ CopyPage
         \/ /\ wpc # "copy" /\ UNCHANGED <<sq, kind, moved>>
            /\ \E e \in IoEntry : state[e.command_id] = "copied" /\ Complete(e)
         \/ wpc = "due" /\ wpc' = "round" /\ cp' = NoCopy /\ UNCHANGED <<state, io, sq, kind, moved>>
         \/ HostReaps
         \/ \E c \in Cmd : \E k \in Kinds[c] : HostPost(c, k)
  <1>1. CASE ssd_read \/ ssd_write \/ NoFlashAccess
    BY <1>1, EnqueuesAt DEF ioFrame
  <1>2. CASE PostCompletion
    <2>1. UNCHANGED <<sq, kind, moved>>
      BY <1>2 DEF PostCompletion, workFrame
    <2> QED
      BY <1>2, <2>1, PostsCopied
  <1> QED
    BY <1>1, <1>2
    DEF Next, DispatcherStep, StartIoSq, StartIo, GcHigh, CheckGcSkip, CheckGcRun, EndIoSq, ProcIoCq,
        WorkerStep, ProcFile, Tick, hostVars, vars

LEMMA SlotsKeptStep ==
  ASSUME IInv, IoOnce, SlotsKept, ReuseByHead = FALSE, [Next]_vars
  PROVE  SlotsKept'
  <1> USE DEF IInv
  <1>0. /\ \A i \in 1 .. Len(io) : io[i].command_id \in Cmd /\ io[i].slot \in Slot
        /\ wpc # "round" => cp.command_id \in Cmd /\ cp.slot \in Slot
    BY IoCommands DEF WorkerType
  <1>1. CASE UNCHANGED <<io, sq, wpc, cp>>
    BY <1>1 DEF SlotsKept
  <1>2. ASSUME dpc = "gc_high", NEW t, Enqueue(t), UNCHANGED <<sq, wpc, cp>>
        PROVE  SlotsKept'
    <2>1. \A i \in 1 .. Len(io) : io[i].command_id # Current
      BY <1>2, EnqueuedState DEF IoOnce, Requested
    <2>2. \A i \in 1 .. Len(io') : io'[i] = NewIo \/ \E q \in 1 .. Len(io) : io'[i] = io[q]
      BY <1>2, <2>1, InsertOnce DEF Enqueue, IoOnce
    <2>3. sq[NewIo.slot] = NewIo.command_id
      BY DEF NewIo, Current
    <2> QED
      BY <1>2, <2>2, <2>3 DEF SlotsKept
  <1>3. CASE StartCopy
    <2>1. Head(io) = io[1] /\ Len(io) \in Nat /\ Len(io) >= 1
      BY <1>3 DEF StartCopy, WorkerType
    <2>2. sq[io[1].slot] = io[1].command_id
      BY <2>1 DEF SlotsKept
    <2>3. cp'.slot = io[1].slot /\ cp'.command_id = io[1].command_id
      BY <1>3, <2>1 DEF StartCopy
    <2> QED
      BY <1>3, <2>2, <2>3 DEF StartCopy, workFrame, SlotsKept
  <1>4. CASE CopyPage
    <2>1. cp'.slot = cp.slot /\ cp'.command_id = cp.command_id /\ wpc = "copy" /\ sq' = sq /\ io' = io
      BY <1>4 DEF CopyPage, workFrame, WorkerType
    <2> QED
      BY <2>1 DEF SlotsKept
  <1>5. ASSUME NEW e \in IoEntry, Complete(e), sq' = sq
        PROVE  SlotsKept'
    <2>1. \A i \in 1 .. Len(io') : \E q \in 1 .. Len(io) : io'[i] = io[q]
      BY <1>5, WithoutOnce DEF Complete, IoOnce
    <2>2. wpc' = "round"
      BY <1>5 DEF Complete
    <2> QED
      BY <1>5, <2>1, <2>2 DEF SlotsKept
  <1>6. CASE wpc' = "round" /\ UNCHANGED <<io, sq>>
    BY <1>6 DEF SlotsKept
  <1>7. CASE HostReaps
    BY <1>1, <1>7 DEF HostReaps
  <1>8. ASSUME NEW c \in Cmd, NEW k \in Kinds[c], HostPost(c, k)
        PROVE  SlotsKept'
    <2>1. /\ MayReuse(dbs.sq) /\ UNCHANGED <<io, wpc, cp>>
          /\ \A x \in Slot : x # dbs.sq => sq'[x] = sq[x]
      BY <1>8 DEF HostPost, QueueType
    <2>2. sq[dbs.sq] \in Cmd => state[sq[dbs.sq]] = "reaped"
      BY <2>1 DEF MayReuse, NoCmd, Cmd
    <2>3. \A i \in 1 .. Len(io) : io[i].slot # dbs.sq
      BY <1>0, <2>2 DEF SlotsKept, IoOnce, Requested
    <2>4. wpc # "round" => cp.slot # dbs.sq
      BY <1>0, <2>2 DEF SlotsKept, Done, WorkerType
    <2> QED
      BY <1>0, <2>1, <2>3, <2>4 DEF SlotsKept
  <1> QED
    BY <1>1, <1>2, <1>3, <1>4, <1>5, <1>6, <1>7, <1>8, CopySteps

(* The next piece of a command that is copied, and whether it is the last.  *)
LEMMA NextPiece ==
  ASSUME NEW c \in Cmd, NEW k \in Kind, kind[c] = k, k.offs # 0 => k.offs + k.len <= PAGE_SIZE,
         InSlot = c, CopyingOf(c, k)
  PROVE  /\ Buffer = c /\ cp.prp_offs \in Nat
         /\ MemOffs = (IF cp.prp_offs = 0 THEN k.offs ELSE 0)
         /\ IoSize = Smaller(Before(k, cp.prp_offs + 1), k.len) - Before(k, cp.prp_offs)
         /\ cp.remaining = IoSize => cp.prp_offs + 1 = PagesOf(k)
         /\ cp.remaining # IoSize =>
              /\ cp.prp_offs + 1 \in 0 .. PagesOf(k) - 1
              /\ cp.offset + IoSize = k.slba + Before(k, cp.prp_offs + 1)
              /\ cp.remaining - IoSize = k.len - Before(k, cp.prp_offs + 1)
              /\ MemOffs = 0
  <1> DEFINE n == cp.prp_offs
  <1>1. /\ k.slba \in Nat /\ k.len \in Nat /\ k.len >= 1 /\ k.offs \in {0, 1}
        /\ k.offs = 1 => k.len = 1
    BY DEF Kind, PAGE_SIZE
  <1>2. PagesOf(k) \in Int /\ n \in 0 .. PagesOf(k) - 1 /\ n \in Nat
    BY <1>1 DEF CopyingOf, PagesOf, PAGE_SIZE
  <1>3. /\ cp.offset = k.slba + Before(k, n) /\ cp.remaining = k.len - Before(k, n)
        /\ cp.mem_offs = 0 /\ (n >= 2 => cp.paddr_list = c)
    BY DEF CopyingOf
  <1>4. PageOffs = IF n = 0 THEN k.offs ELSE 0
    BY DEF PageOffs
  <1>5. Buffer = c
    BY <1>3 DEF Buffer
  <1> HIDE DEF n
  <1>6. CASE k.offs = 0
    <2>1. PageOffs = 0 /\ MemOffs = 0 /\ IoSize = Smaller(cp.remaining, 2)
      BY <1>3, <1>4, <1>6 DEF MemOffs, IoSize, PAGE_SIZE
    <2>2. PagesOf(k) = (k.len + 1) \div 2
      BY <1>1, <1>6 DEF PagesOf, PAGE_SIZE
    <2>3. Before(k, n) = 2 * n /\ Before(k, n + 1) = 2 * n + 2
      BY <1>2, <1>6 DEF Before, PAGE_SIZE
    <2>4. 2 * PagesOf(k) = k.len \/ 2 * PagesOf(k) = k.len + 1
      BY <1>1, <2>2
    <2>5. IoSize = Smaller(k.len - 2 * n, 2) /\ cp.remaining = k.len - 2 * n
            /\ cp.offset = k.slba + 2 * n
      BY <1>3, <2>1, <2>3
    <2>6. CASE k.len - 2 * n <= 2
      <3>1. IoSize = k.len - 2 * n /\ n + 1 = PagesOf(k)
              /\ Smaller(2 * n + 2, k.len) = k.len
        <4>1. IoSize = k.len - 2 * n
          BY <1>1, <1>2, <2>5, <2>6 DEF Smaller
        <4>2. n + 1 = PagesOf(k)
          BY <1>1, <1>2, <2>4, <2>6
        <4>3. Smaller(2 * n + 2, k.len) = k.len
          BY <1>1, <1>2, <2>6 DEF Smaller
        <4> QED
          BY <4>1, <4>2, <4>3
      <3> QED
        BY <1>2, <1>5, <1>6, <2>1, <2>3, <2>5, <3>1 DEF n
    <2>7. CASE k.len - 2 * n > 2
      <3>1. IoSize = 2 /\ Smaller(2 * n + 2, k.len) = 2 * n + 2
        BY <1>1, <1>2, <2>5, <2>7 DEF Smaller
      <3>2. n + 1 \in 0 .. PagesOf(k) - 1
        BY <1>1, <1>2, <2>4, <2>7
      <3>3. /\ IoSize = Smaller(Before(k, n + 1), k.len) - Before(k, n)
            /\ cp.remaining # IoSize
            /\ cp.offset + IoSize = k.slba + Before(k, n + 1)
            /\ cp.remaining - IoSize = k.len - Before(k, n + 1)
        BY <1>1, <1>2, <2>3, <2>5, <2>7, <3>1
      <3> QED
        BY <1>2, <1>5, <1>6, <2>1, <3>2, <3>3 DEF n
    <2> QED
      BY <1>1, <1>2, <2>6, <2>7
  <1>7. CASE k.offs = 1
    <2>1. PagesOf(k) = 1 /\ n = 0
      BY <1>1, <1>2, <1>7 DEF PagesOf, PAGE_SIZE
    <2>2. PageOffs = 1 /\ MemOffs = 1
      BY <1>4, <1>7, <2>1 DEF MemOffs
    <2>3. Before(k, 0) = 0 /\ Before(k, 1) = 1 /\ cp.remaining = 1
      BY <1>1, <1>3, <1>7, <2>1 DEF Before, PAGE_SIZE
    <2>4. IoSize = 1
      BY <2>2, <2>3 DEF IoSize, Smaller, PAGE_SIZE
    <2>5. Smaller(Before(k, 1), k.len) = 1
      BY <1>1, <1>7, <2>3 DEF Smaller
    <2> QED
      BY <1>5, <1>7, <2>1, <2>2, <2>3, <2>4, <2>5 DEF n
  <1> QED
    BY <1>1, <1>6, <1>7

(* One more piece. *)
LEMMA OneMorePiece ==
  ASSUME NEW c, NEW k, NEW n \in Nat, NEW old, old = [i \in 1 .. n |-> PieceOf(c, k, i)]
  PROVE  Append(old, PieceOf(c, k, n + 1)) = [i \in 1 .. n + 1 |-> PieceOf(c, k, i)]
  <1> DEFINE S == {PieceOf(c, k, i) : i \in 1 .. n + 1}
             new == [i \in 1 .. n + 1 |-> PieceOf(c, k, i)]
             app == Append(old, PieceOf(c, k, n + 1))
  <1>1. old \in Seq(S) /\ Len(old) = n /\ new \in Seq(S) /\ Len(new) = n + 1
    OBVIOUS
  <1>2. PieceOf(c, k, n + 1) \in S
    <2>1. n + 1 \in 1 .. n + 1
      OBVIOUS
    <2> QED
      BY <2>1
  <1>3. app \in Seq(S) /\ Len(app) = n + 1
    BY <1>1, <1>2
  <1>4. ASSUME NEW i \in 1 .. n + 1
        PROVE  app[i] = new[i]
    <2>1. CASE i = n + 1
      BY <1>1, <1>2, <2>1
    <2>2. CASE i # n + 1
      BY <1>1, <1>2, <2>2
    <2> QED
      BY <2>1, <2>2
  <1> QED
    BY <1>1, <1>3, <1>4

LEMMA CopiesPiece ==
  ASSUME IInv, SlotsKept, Copying, CopiedWhole, CopyPage, NEW k \in Kind,
         kind[cp.command_id] = k, k.op # "flush",
         k.offs # 0 => k.offs + k.len <= PAGE_SIZE
  PROVE  /\ moved'[cp.command_id] = [i \in 1 .. cp.prp_offs + 1 |-> PieceOf(cp.command_id, k, i)]
         /\ wpc' = "copy" => CopyingOf(cp.command_id, k)'
         /\ wpc' = "due" => cp.prp_offs + 1 = PagesOf(k)
  <1> DEFINE c == cp.command_id
             n == cp.prp_offs
  <1>1. c \in Cmd /\ InSlot = c /\ wpc = "copy" /\ kind' = kind /\ CopyingOf(c, k)
    BY DEF IInv, WorkerType, SlotsKept, InSlot, CopyPage, workFrame, Copying
  <1>2. /\ Buffer = c /\ n \in Nat
        /\ MemOffs = (IF n = 0 THEN k.offs ELSE 0)
        /\ IoSize = Smaller(Before(k, n + 1), k.len) - Before(k, n)
        /\ cp.remaining = IoSize => n + 1 = PagesOf(k)
        /\ cp.remaining # IoSize =>
             /\ n + 1 \in 0 .. PagesOf(k) - 1
             /\ cp.offset + IoSize = k.slba + Before(k, n + 1)
             /\ cp.remaining - IoSize = k.len - Before(k, n + 1)
             /\ MemOffs = 0
    BY <1>1, NextPiece
  <1>3. cp.offset = k.slba + Before(k, n) /\ moved[c] = [i \in 1 .. n |-> PieceOf(c, k, i)]
    BY <1>1 DEF CopyingOf, Copied
  <1>4. moved'[c] = Append(moved[c], Piece(k.op = "write", cp.offset, Buffer, n, MemOffs, IoSize))
    BY <1>1 DEF CopyPage, CopiedWhole, Piece
  <1>5. Piece(k.op = "write", cp.offset, Buffer, n, MemOffs, IoSize) = PieceOf(c, k, n + 1)
    <2>1. (n + 1) - 1 = n /\ (IF n + 1 = 1 THEN k.offs ELSE 0) = MemOffs
      BY <1>2
    <2>2. PieceOf(c, k, n + 1) =
            Piece(k.op = "write", k.slba + Before(k, n), c, n, MemOffs,
                  Smaller(Before(k, n + 1), k.len) - Before(k, n))
      BY <2>1 DEF PieceOf
    <2> QED
      BY <1>2, <1>3, <2>2
  <1>6. moved'[c] = [i \in 1 .. n + 1 |-> PieceOf(c, k, i)]
    BY <1>2, <1>3, <1>4, <1>5, OneMorePiece
  <1>7. /\ cp'.command_id = c /\ cp'.prp_offs = n + 1 /\ cp'.offset = cp.offset + IoSize
        /\ cp'.remaining = cp.remaining - IoSize /\ cp'.mem_offs = MemOffs
        /\ cp'.paddr_list = IF n = 1 THEN InSlot ELSE cp.paddr_list
    BY DEF CopyPage, Copying, CopyVar, NoCopy
  <1>8. (wpc' = "due" => cp.remaining = IoSize) /\ (wpc' = "copy" => cp.remaining # IoSize)
    BY <1>1 DEF CopyPage
  <1>9. ASSUME wpc' = "copy"
        PROVE  CopyingOf(c, k)'
    <2>1. /\ n + 1 \in 0 .. PagesOf(k) - 1
          /\ cp'.offset = k.slba + Before(k, n + 1)
          /\ cp'.remaining = k.len - Before(k, n + 1)
          /\ cp'.mem_offs = 0
      BY <1>2, <1>7, <1>8, <1>9
    <2>2. n + 1 >= 2 => cp'.paddr_list = c
      <3>1. n >= 2 => cp.paddr_list = c
        BY <1>1 DEF CopyingOf
      <3> QED
        BY <1>1, <1>2, <1>7, <3>1
    <2>3. moved'[c] = [i \in 1 .. cp'.prp_offs |-> PieceOf(c, kind'[c], i)]
      BY <1>1, <1>6, <1>7
    <2> QED
      BY <1>7, <2>1, <2>2, <2>3 DEF CopyingOf, Copied, Before, PagesOf
  <1> QED
    BY <1>2, <1>6, <1>8, <1>9

LEMMA CopyingStep ==
  ASSUME IInv, FtlType, OffsetsFit, SlotsKept, Copying, CopiedWhole, [Next]_vars
  PROVE  Copying'
  <1> USE DEF IInv
  <1>0. wpc = "copy" => cp.command_id \in Cmd /\ state[cp.command_id] = "dispatched"
    BY DEF WorkerType, Done
  <1>1. ASSUME UNCHANGED <<wpc, cp>>,
               wpc = "copy" => /\ kind'[cp.command_id] = kind[cp.command_id]
                               /\ moved'[cp.command_id] = moved[cp.command_id]
        PROVE  Copying'
    BY <1>1 DEF Copying, CopyingOf, Copied, PagesOf, Before
  <1>2. CASE StartCopy
    <2>1. Head(io) \in IoEntry /\ Head(io) = io[1] /\ Len(io) \in Nat /\ Len(io) >= 1
      BY <1>2 DEF StartCopy, WorkerType
    <2>0. PICK c, k : c = io[1].command_id /\ k = kind[c]
      OBVIOUS
    <2>2. c \in Cmd /\ state[c] = "dispatched" /\ sq[io[1].slot] = c
      BY <1>2, <2>0, <2>1 DEF StartCopy, IoEntry, SlotsKept
    <2>3. k \in Kind
      BY <2>0, <2>2, PathAssumption DEF FtlType
    <2>4. cp' = [slot |-> io[1].slot, command_id |-> c, offset |-> k.slba, remaining |-> k.len,
                 prp_offs |-> 0, mem_offs |-> 0, paddr_list |-> NoCmd]
      BY <1>2, <2>0, <2>1, <2>2 DEF StartCopy
    <2>5. UNCHANGED <<kind, moved>>
      BY <1>2 DEF StartCopy, workFrame
    <2>6. moved[c] = <<>>
      BY <1>2, <2>2 DEF CopiedWhole, StartCopy
    <2>7. k.slba \in Nat /\ k.len \in Nat \ {0} /\ k.offs \in 0 .. 1
      BY <2>3 DEF Kind, PAGE_SIZE
    <2>8. Before(k, 0) = 0 /\ 0 \in 0 .. PagesOf(k) - 1
      BY <2>7 DEF Before, PagesOf, PAGE_SIZE
    <2>9. moved'[c] = [i \in 1 .. 0 |-> PieceOf(c, kind'[c], i)]
      BY <2>5, <2>6
    <2>10. kind'[c] = k
      BY <2>0, <2>5
    <2>11. /\ cp'.prp_offs = 0 /\ cp'.offset = k.slba /\ cp'.remaining = k.len
           /\ cp'.mem_offs = 0 /\ cp'.command_id = c /\ DOMAIN cp' = CopyVar
      BY <2>4 DEF CopyVar, NoCopy
    <2>12. k.slba = k.slba + Before(k, 0) /\ k.len = k.len - Before(k, 0)
      BY <2>7, <2>8
    <2>13. CopyingOf(c, k)'
      BY <2>8, <2>9, <2>10, <2>11, <2>12 DEF CopyingOf, Copied, Before, PagesOf
    <2> QED
      BY <2>10, <2>11, <2>13 DEF Copying, CopyVar, NoCopy
  <1>3. CASE CopyPage
    <2>1. cp.command_id \in Cmd /\ state[cp.command_id] = "dispatched"
      BY <1>0, <1>3 DEF CopyPage
    <2>2. PICK k : k = kind[cp.command_id]
      OBVIOUS
    <2>3. k \in Kinds[cp.command_id] /\ k \in Kind
      BY <2>1, <2>2, PathAssumption DEF FtlType
    <2>4. k.op # "flush" => (k.offs # 0 => k.offs + k.len <= PAGE_SIZE)
      BY <2>1, <2>3 DEF OffsetsFit
    <2>5. cp'.command_id = cp.command_id /\ kind' = kind /\ DOMAIN cp' = CopyVar
      BY <1>3 DEF CopyPage, workFrame, Copying, CopyVar, NoCopy
    <2>6. k.op # "flush" /\ wpc' = "copy" => CopyingOf(cp.command_id, k)'
      BY <1>3, <2>2, <2>3, <2>4, CopiesPiece
    <2> QED
      BY <2>2, <2>5, <2>6 DEF Copying, CopyVar, NoCopy
  <1>4. ASSUME wpc' = "round", cp' = NoCopy
        PROVE  Copying'
    BY <1>4 DEF Copying, CopyVar
  <1>5. ASSUME NEW e \in IoEntry, Complete(e)
        PROVE  Copying'
    BY <1>4, <1>5 DEF Complete
  <1>6. ASSUME NEW c \in Cmd, NEW k \in Kinds[c], HostPost(c, k)
        PROVE  Copying'
    <2>1. state[c] = "none" /\ UNCHANGED <<moved, wpc, cp>>
            /\ \A e \in Cmd : e # c => kind'[e] = kind[e]
      BY <1>6 DEF HostPost, IsNext, QueueType
    <2> QED
      BY <1>0, <1>1, <2>1
  <1>7. CASE HostReaps
    BY <1>1, <1>7 DEF HostReaps
  <1> QED
    BY <1>1, <1>2, <1>3, <1>4, <1>5, <1>6, <1>7, CopySteps

LEMMA CopiedWholeStep ==
  ASSUME IInv, FtlType, CqOnce, OffsetsFit, SlotsKept, Copying, CopiedWhole, [Next]_vars
  PROVE  CopiedWhole'
  <1> USE DEF IInv
  <1>0. wpc # "round" => cp.command_id \in Cmd
    BY DEF WorkerType
  <1>1. CASE UNCHANGED <<state, kind, moved, wpc, cp>>
    BY <1>1 DEF CopiedWhole, Copied
  (* A step of the command d, of which nothing is copied in this step. *)
  <1>2. ASSUME UNCHANGED <<kind, moved>>, NEW d \in Cmd, NEW st \in States,
               state' = [state EXCEPT ![d] = st],
               \/ state[d] = "posted" /\ st = "dispatched" /\ UNCHANGED <<wpc, cp>>
               \/ state[d] = "copied" /\ st = "completed" /\ wpc # "copy" /\ wpc' # "copy"
               \/ state[d] = "completed" /\ st = "reaped" /\ UNCHANGED <<wpc, cp>>
        PROVE  CopiedWhole'
    <2>1. \A c \in Cmd : state'[c] = IF c = d THEN st ELSE state[c]
      BY <1>2 DEF QueueType
    <2>2. wpc = "copy" => cp.command_id # d
      BY <1>2 DEF Done
    <2>3. ASSUME NEW c \in Cmd, state'[c] \in {"none", "posted", "dispatched"},
                 ~(wpc' = "copy" /\ cp'.command_id = c)
          PROVE  moved'[c] = <<>>
      BY <1>2, <2>1, <2>2, <2>3 DEF CopiedWhole
    <2>4. ASSUME NEW c \in Cmd, state'[c] \in {"copied", "completed", "reaped"}, kind'[c].op # "flush"
          PROVE  Copied(c, PagesOf(kind[c]))
      BY <1>2, <2>1, <2>4 DEF CopiedWhole
    <2> QED
      BY <1>2, <2>3, <2>4 DEF CopiedWhole, Copied
  <1>3. CASE StartCopy
    <2>1. UNCHANGED <<state, kind, moved>> /\ wpc = "round" /\ wpc' = "copy"
      BY <1>3 DEF StartCopy, workFrame
    <2> QED
      BY <2>1 DEF CopiedWhole, Copied
  <1>4. CASE CopyPage
    <2>1. cp.command_id \in Cmd /\ state[cp.command_id] = "dispatched" /\ wpc = "copy"
      BY <1>0, <1>4 DEF CopyPage, Done
    <2>2. PICK k : k = kind[cp.command_id]
      OBVIOUS
    <2>3. k \in Kinds[cp.command_id] /\ k \in Kind
      BY <2>1, <2>2, PathAssumption DEF FtlType
    <2>4. k.op # "flush" => (k.offs # 0 => k.offs + k.len <= PAGE_SIZE)
      BY <2>1, <2>3 DEF OffsetsFit
    <2>5. cp'.command_id = cp.command_id /\ kind' = kind
      BY <1>4 DEF CopyPage, workFrame, Copying, CopyVar, NoCopy
    <2>6. DOMAIN moved' = Cmd /\ \A c \in Cmd : c # cp.command_id => moved'[c] = moved[c]
      BY <1>4 DEF CopyPage, CopiedWhole
    <2>7. k.op # "flush" /\ wpc' = "due" => Copied(cp.command_id, PagesOf(k))'
      <3>1. SUFFICES ASSUME k.op # "flush", wpc' = "due"
                     PROVE  moved'[cp.command_id] =
                              [i \in 1 .. PagesOf(k) |-> PieceOf(cp.command_id, k, i)]
        BY <2>2, <2>5 DEF Copied, PagesOf
      <3> QED
        BY <1>4, <2>2, <2>3, <2>4, <3>1, CopiesPiece
    <2>8. CASE wpc' = "copy" /\ state' = state
      <3>1. \A c \in Cmd : ~(wpc' = "copy" /\ cp'.command_id = c) => c # cp.command_id
        BY <2>5, <2>8
      <3>2. \A c \in Cmd : state[c] \in {"copied", "completed", "reaped"} => c # cp.command_id
        BY <2>1
      <3> QED
        BY <2>5, <2>6, <2>8, <3>1, <3>2 DEF CopiedWhole, Copied
    <2>9. CASE wpc' = "due" /\ state' = [state EXCEPT ![cp.command_id] = "copied"]
      <3>1. \A c \in Cmd : state'[c] = IF c = cp.command_id THEN "copied" ELSE state[c]
        BY <2>9 DEF QueueType
      <3>2. ASSUME NEW c \in Cmd, state'[c] \in {"none", "posted", "dispatched"}
            PROVE  moved'[c] = <<>>
        BY <2>6, <3>1, <3>2 DEF CopiedWhole
      <3>3. ASSUME NEW c \in Cmd, state'[c] \in {"copied", "completed", "reaped"},
                   kind'[c].op # "flush"
            PROVE  moved'[c] = [i \in 1 .. PagesOf(kind[c]) |-> PieceOf(c, kind[c], i)]
        <4>1. CASE c = cp.command_id
          BY <2>2, <2>5, <2>7, <2>9, <3>3, <4>1 DEF Copied, PagesOf
        <4>2. CASE c # cp.command_id
          BY <2>5, <2>6, <3>1, <3>3, <4>2 DEF CopiedWhole, Copied
        <4> QED
          BY <4>1, <4>2
      <3> QED
        BY <2>5, <2>6, <3>2, <3>3 DEF CopiedWhole, Copied, PagesOf
    <2> QED
      BY <1>4, <2>1, <2>8, <2>9 DEF CopyPage
  <1>5. ASSUME NEW e \in IoEntry, state[e.command_id] = "copied", Complete(e), wpc # "copy",
               UNCHANGED <<kind, moved>>
        PROVE  CopiedWhole'
    <2>1. e.command_id \in Cmd
      BY DEF IoEntry
    <2> QED
      BY <1>2, <1>5, <2>1 DEF Complete, States
  <1>6. CASE wpc = "due" /\ wpc' = "round" /\ UNCHANGED <<state, kind, moved>>
    BY <1>6 DEF CopiedWhole, Copied
  <1>7. CASE HostReaps
    <2>1. Head(cq) = cq[1] /\ Len(cq) \in Nat /\ Len(cq) >= 1
      BY <1>7 DEF HostReaps, WorkerType
    <2>2. Head(cq).command_id \in Cmd /\ state[Head(cq).command_id] = "completed"
      BY <2>1, CompletedCommands DEF CqOnce
    <2> QED
      BY <1>2, <1>7, <2>2 DEF HostReaps, States
  <1>8. ASSUME dpc = "gc_high", NEW t, Enqueue(t), UNCHANGED <<kind, moved, wpc, cp>>
        PROVE  CopiedWhole'
    <2>1. Current \in Cmd /\ state[Current] = "posted"
      BY <1>8, CurrentPosted
    <2> QED
      BY <1>2, <1>8, <2>1 DEF Enqueue, States
  <1>9. ASSUME NEW c \in Cmd, NEW k \in Kinds[c], HostPost(c, k)
        PROVE  CopiedWhole'
    <2>1. state[c] = "none" /\ UNCHANGED <<moved, wpc, cp>>
            /\ \A e \in Cmd : /\ state'[e] = IF e = c THEN "posted" ELSE state[e]
                              /\ e # c => kind'[e] = kind[e]
      BY <1>9 DEF HostPost, IsNext, QueueType
    <2> QED
      BY <2>1 DEF CopiedWhole, Copied
  <1> QED
    BY <1>1, <1>3, <1>4, <1>5, <1>6, <1>7, <1>8, <1>9, CopySteps

LEMMA CopyStart == Init => CopyInv
  <1> SUFFICES ASSUME Init PROVE CopyInv
    OBVIOUS
  <1>1. SlotsKept /\ Copying /\ CopiedWhole
    BY DEF Init, SlotsKept, Copying, CopyVar, CopiedWhole
  <1> QED
    BY <1>1 DEF CopyInv

LEMMA CopyExact == CopyInv => TransferExact
  <1> SUFFICES ASSUME CopyInv, NEW c \in Cmd, state[c] \in {"completed", "reaped"},
                      kind[c].op # "flush"
               PROVE  moved[c] = Pieces(c)
    BY DEF TransferExact
  <1>1. Copied(c, PagesOf(kind[c]))
    BY DEF CopyInv, CopiedWhole
  <1>2. Pieces(c) = [i \in 1 .. PagesOf(kind[c]) |-> PieceOf(c, kind[c], i)]
    BY DEF Pieces, PagesOf, PieceOf, Piece, Before
  <1> QED
    BY <1>1, <1>2 DEF Copied

(* When the host is told that a read or a write is done, exactly its data   *)
(* has been moved, once, whenever the worker read its slot (io.c:103).  The*)
(* host must not reuse a slot before its command is finished, which the    *)
(* sq_head of a completion seems to allow, and only a transfer inside one  *)
(* page may begin inside it, for mem_offs is not reset (io.c:129).         *)
THEOREM DataMoved ==
  ASSUME ReuseByHead = FALSE, OffsetsFit
  PROVE  Spec => []TransferExact
  <1>1. IInv /\ CountInv /\ CopyInv /\ [Next]_vars => CopyInv'
    BY SlotsKeptStep, CopyingStep, CopiedWholeStep DEF CountInv, CopyInv
  <1> QED
    BY <1>1, Start, Step, CountStart, CountStep, CopyStart, CopyExact, PTL DEF Spec
=============================================================================
