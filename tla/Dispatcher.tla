----------------------------- MODULE Dispatcher -----------------------------
(***************************************************************************)
(* The way of an I/O command (main.c, io.c): the host puts it in a slot of *)
(* the submission queue and rings the doorbell; the dispatcher takes the   *)
(* target time from the flash, hands the command to a worker by the number *)
(* of its slot, and may clean a line; the worker reads the command from    *)
(* the slot when it copies its data, page by page, and completes it when   *)
(* its time has come; the host reaps the completion, and the dispatcher    *)
(* sees the doorbell of the completion queue.                              *)
(*                                                                         *)
(* One pair of queues of the same size, as drivers make them, and one      *)
(* worker, whose table is here a list in the order of IoQueue; the ring of *)
(* completions is a sequence, as in CompletionFifo.  Half a page is the    *)
(* unit of lengths, so that buffers may begin inside a page.               *)
(***************************************************************************)
EXTENDS NandTiming, Sequences

CONSTANTS
  queue_size,
  tt_pgs,
  Kinds,          \* bound: what the first, the second ... command may be
  MaxCommands,    \* bound: commands, numbered as they come
  MaxTime,        \* bound of the clock
  MaxEvents,      \* bound: cleanings of a line and writes to the procfs
  ReuseByHead     \* the host reuses slots up to sq_head, or finished ones only

PAGE_SIZE == 2
Slot == 0 .. queue_size - 1
Cmd  == 1 .. MaxCommands
NoCmd == 0
NoKind == [op |-> "none", slba |-> 0, len |-> 0, offs |-> 0]
Opcode == {"write", "read", "flush"}
Kind  == [op : Opcode, slba : Nat, len : Nat \ {0}, offs : 0 .. PAGE_SIZE - 1]
UNMAPPED == -1

ASSUME PathAssumption ==
  /\ queue_size \in Nat \ {0, 1} /\ tt_pgs \in Nat
  /\ {MaxCommands, MaxTime, MaxEvents} \subseteq Nat /\ ReuseByHead \in BOOLEAN
  /\ DOMAIN Kinds = 1 .. MaxCommands
  /\ \A c \in Cmd : Kinds[c] \subseteq Kind

VARIABLES
  sq,             \* the submission queue: which command is in a slot
  kind,           \* the commands as the host posted them
  dbs, old_dbs,   \* doorbells of the two queues
  state,          \* of each command: none, posted, dispatched, copied, completed, reaped
  target,         \* nsecs_target of each command
  cq,             \* completions the host has not reaped
  sq_head,        \* of the last completion it reaped
  maptbl, wp,     \* the FTL: the LUN of a logical page, and the next one to write
  dpc, new_db, sq_entry, nsecs_start,
  io,             \* the list of the worker
  wpc, cp,        \* the worker, and the variables of __do_perform_io
  nr_in_flight, stat_reset,
  events,         \* counted for the bound
  moved,          \* the pieces copied for each command
  busy            \* when each LUN works for it, from and to

hostVars == <<sq, kind, state, cq, sq_head, target>>
ftlVars  == <<maptbl, wp>>
dispVars == <<dpc, new_db, sq_entry, nsecs_start>>
statVars == <<nr_in_flight, stat_reset>>
vars == <<next_lun_avail_time, lat, now, sq, kind, dbs, old_dbs, state, cq, sq_head, target,
          maptbl, wp, dpc, new_db, sq_entry, nsecs_start, io, wpc, cp, nr_in_flight, stat_reset,
          events, moved, busy>>

NoCopy == [slot |-> 0, command_id |-> NoCmd, offset |-> 0, remaining |-> 0, prp_offs |-> 0,
           mem_offs |-> 0, paddr_list |-> NoCmd]
NotBusy == [l \in Lun |-> [from |-> 0, to |-> 0]]

Init ==
  /\ TimingInit
  /\ sq = [s \in Slot |-> NoCmd] /\ kind = [c \in Cmd |-> NoKind]
  /\ dbs = [sq |-> 0, cq |-> 0] /\ old_dbs = [sq |-> 0, cq |-> 0]
  /\ state = [c \in Cmd |-> "none"] /\ cq = <<>> /\ sq_head = 0
  /\ target = [c \in Cmd |-> 0]
  /\ maptbl = [p \in 0 .. tt_pgs - 1 |-> UNMAPPED] /\ wp = 0
  /\ dpc = "sq" /\ new_db = 0 /\ sq_entry = 0 /\ nsecs_start = 0
  /\ io = <<>> /\ wpc = "round" /\ cp = NoCopy
  /\ nr_in_flight = 0 /\ stat_reset = FALSE
  /\ events = 0
  /\ moved = [c \in Cmd |-> <<>>] /\ busy = [c \in Cmd |-> NotBusy]

NextSlot(s) == IF s + 1 = queue_size THEN 0 ELSE s + 1

(* The entries between two doorbell values, as the loops count them. *)
Distance(new, old) == IF new < old THEN new - old + queue_size ELSE new - old

-----------------------------------------------------------------------------
(* nvmev_proc_dbs and nvmev_proc_io_sq *)

StartIoSq ==
  /\ dpc = "sq"
  /\ \/ /\ dbs.sq # old_dbs.sq
        /\ new_db' = dbs.sq /\ sq_entry' = old_dbs.sq /\ dpc' = "io"
     \/ /\ dbs.sq = old_dbs.sq
        /\ dpc' = "cq"
        /\ UNCHANGED <<new_db, sq_entry>>
  /\ UNCHANGED <<timingVars, hostVars, dbs, old_dbs, ftlVars, nsecs_start, io, wpc, cp, statVars,
                 events, moved, busy>>

(* __nvmev_proc_io reads the clock; a write may clean lines first. *)
StartIo ==
  /\ dpc = "io" /\ sq_entry # new_db
  /\ nsecs_start' = now
  /\ dpc' = "gc_high"
  /\ UNCHANGED <<timingVars, hostVars, dbs, old_dbs, ftlVars, new_db, sq_entry, io, wpc, cp,
                 statVars, events, moved, busy>>

Current == sq[sq_entry]

FirstLpn(k) == k.slba \div PAGE_SIZE
LastLpn(k)  == (k.slba + k.len - 1) \div PAGE_SIZE
InRange(k)  == LastLpn(k) < tt_pgs

(* do_gc cleans a line that Ftl chooses: some logical page, or none, is    *)
(* read from its LUN and written to the next one; each LUN erases a block. *)
do_gc ==
  /\ events < MaxEvents /\ events' = events + 1
  /\ \/ /\ GcAdvanceStatus([l \in Lun |-> 0], [l \in Lun |-> 0])
        /\ UNCHANGED ftlVars
     \/ \E p \in DOMAIN maptbl :
          /\ maptbl[p] # UNMAPPED
          /\ GcAdvanceStatus([l \in Lun |-> IF l = maptbl[p] THEN 1 ELSE 0],
                             [l \in Lun |-> IF l = wp THEN 1 ELSE 0])
          /\ maptbl' = [maptbl EXCEPT ![p] = wp]
          /\ wp' = (wp + 1) % tt_luns
  /\ UNCHANGED <<lat, now>>

(* Whether a line has to be cleaned is for Ftl to say (should_gc_high).    *)
GcHigh ==
  /\ dpc = "gc_high" /\ kind[Current].op = "write" /\ InRange(kind[Current])
  /\ do_gc
  /\ UNCHANGED <<hostVars, dbs, old_dbs, dispVars, io, wpc, cp, statVars, moved, busy>>

(* The pages that a command reads or writes, on each LUN. *)
ReadPages(k) ==
  [l \in Lun |-> Cardinality({p \in FirstLpn(k) .. LastLpn(k) : maptbl[p] = l})]

WriteLun(k, p) == (wp + (p - FirstLpn(k))) % tt_luns
WritePages(k) ==
  [l \in Lun |-> Cardinality({p \in FirstLpn(k) .. LastLpn(k) : WriteLun(k, p) = l})]

(* A new request stays behind the last one that is due or not later.  What  *)
(* is due is told by now, in the code by proc_io_nsecs, when the worker last *)
(* looked: IoQueue has the difference.                                      *)
StaysAhead(i, t) ==
  \E j \in i .. Len(io) : target[io[j].command_id] <= t \/ target[io[j].command_id] <= now

Insert(c, t) ==
  [i \in 1 .. Len(io) + 1 |->
     IF StaysAhead(i, t) THEN io[i]
     ELSE IF i = 1 \/ StaysAhead(i - 1, t) THEN [command_id |-> c, slot |-> sq_entry]
     ELSE io[i - 1]]

(* __enqueue_io_req; IoQueue has the list as it is. *)
Enqueue(nsecs_target) ==
  /\ io' = Insert(Current, nsecs_target)
  /\ target' = [target EXCEPT ![Current] = nsecs_target]
  /\ state' = [state EXCEPT ![Current] = "dispatched"]
  /\ dpc' = "gc"

BusyWith(c, pages) ==
  busy' = [busy EXCEPT ![Current] =
             [l \in Lun |-> IF pages[l] = 0 THEN [from |-> 0, to |-> 0]
                            ELSE [from |-> NandStart(l, nsecs_start),
                                  to |-> NandEnd(l, c, pages[l], nsecs_start)]]]

Access(c, pages) ==
  /\ ssd_advance_status(c, pages, nsecs_start)
  /\ \E max_lat \in MaxLatencies(c, pages, nsecs_start) : Enqueue(nsecs_start + max_lat)
  /\ BusyWith(c, pages)
  /\ UNCHANGED <<lat, now>>

ioFrame == <<sq, kind, cq, sq_head, dbs, old_dbs, new_db, sq_entry, nsecs_start, wpc, cp, statVars,
             events, moved>>

ssd_read ==
  /\ dpc = "gc_high" /\ kind[Current].op = "read" /\ InRange(kind[Current])
  /\ Access("NAND_READ", ReadPages(kind[Current]))
  /\ UNCHANGED <<ioFrame, ftlVars>>

ssd_write ==
  /\ dpc = "gc_high" /\ kind[Current].op = "write" /\ InRange(kind[Current])
  /\ LET k == kind[Current]
     IN /\ Access("NAND_WRITE", WritePages(k))
        /\ maptbl' = [p \in DOMAIN maptbl |->
                        IF p \in FirstLpn(k) .. LastLpn(k) THEN WriteLun(k, p) ELSE maptbl[p]]
        /\ wp' = WriteLun(k, LastLpn(k) + 1)
  /\ UNCHANGED ioFrame

(* A range that ends beyond the flash takes no time; a flush is done when   *)
(* all I/O units are, which nothing ever makes busy.                       *)
NoFlashAccess ==
  /\ dpc = "gc_high"
  /\ \/ kind[Current].op # "flush" /\ ~InRange(kind[Current]) /\ Enqueue(nsecs_start)
     \/ kind[Current].op = "flush" /\ Enqueue(0)
  /\ busy' = [busy EXCEPT ![Current] = NotBusy]
  /\ UNCHANGED <<ioFrame, timingVars, ftlVars>>

(* Fault: the slot number does not go round. *)
CountCommandNoWrap ==
  /\ nr_in_flight' = nr_in_flight + 1
  /\ sq_entry' = sq_entry + 1
  /\ dpc' = "io"

CountCommand ==
  /\ nr_in_flight' = nr_in_flight + 1
  /\ sq_entry' = NextSlot(sq_entry)
  /\ dpc' = "io"

(* __check_gc_and_run reads the slot again: a command for which no line is  *)
(* cleaned, for it is no write or Ftl sees no need.                        *)
CheckGcSkip ==
  /\ dpc = "gc" /\ CountCommand
  /\ UNCHANGED <<timingVars, hostVars, dbs, old_dbs, ftlVars, new_db, nsecs_start, io, wpc, cp,
                 stat_reset, events, moved, busy>>

CheckGcRun ==
  /\ dpc = "gc" /\ kind[Current].op = "write"
  /\ do_gc /\ CountCommand
  /\ UNCHANGED <<hostVars, dbs, old_dbs, new_db, nsecs_start, io, wpc, cp, stat_reset, moved, busy>>

(* Fault: the doorbell is read again, after the commands are taken. *)
EndIoSqReread ==
  /\ dpc = "io" /\ sq_entry = new_db
  /\ old_dbs' = [old_dbs EXCEPT !.sq = dbs.sq]
  /\ dpc' = "cq"
  /\ UNCHANGED <<timingVars, hostVars, dbs, ftlVars, new_db, sq_entry, nsecs_start, io, wpc, cp,
                 statVars, events, moved, busy>>

EndIoSq ==
  /\ dpc = "io" /\ sq_entry = new_db
  /\ old_dbs' = [old_dbs EXCEPT !.sq = new_db]
  /\ dpc' = "cq"
  /\ UNCHANGED <<timingVars, hostVars, dbs, ftlVars, new_db, sq_entry, nsecs_start, io, wpc, cp,
                 statVars, events, moved, busy>>

(* Fault: the loop does not go round at the end of the queue. *)
ProcIoCqNoWrap ==
  /\ dpc = "cq" /\ dpc' = "sq"
  /\ nr_in_flight' = IF dbs.cq > old_dbs.cq THEN nr_in_flight - (dbs.cq - old_dbs.cq)
                                            ELSE nr_in_flight
  /\ old_dbs' = [old_dbs EXCEPT !.cq = dbs.cq]
  /\ UNCHANGED <<timingVars, hostVars, dbs, ftlVars, new_db, sq_entry, nsecs_start, io, wpc, cp,
                 stat_reset, events, moved, busy>>

(* nvmev_proc_io_cq: every entry names the one submission queue there is.  *)
ProcIoCq ==
  /\ dpc = "cq" /\ dpc' = "sq"
  /\ nr_in_flight' = nr_in_flight - Distance(dbs.cq, old_dbs.cq)
  /\ old_dbs' = [old_dbs EXCEPT !.cq = dbs.cq]
  /\ UNCHANGED <<timingVars, hostVars, dbs, ftlVars, new_db, sq_entry, nsecs_start, io, wpc, cp,
                 stat_reset, events, moved, busy>>

DispatcherStep ==
  \/ StartIoSq \/ StartIo \/ GcHigh \/ ssd_read \/ ssd_write \/ NoFlashAccess
  \/ CheckGcSkip \/ CheckGcRun \/ EndIoSq \/ ProcIoCq

-----------------------------------------------------------------------------
(* The worker: nvmev_kthread_io at the first request of its list *)

Smaller(a, b) == IF a < b THEN a ELSE b

workFrame == <<timingVars, sq, kind, sq_head, target, ftlVars, dispVars, dbs, old_dbs, statVars,
               events, busy>>

(* __do_perform_io takes start and length from the slot ... *)
StartCopy ==
  /\ wpc = "round" /\ io # <<>> /\ state[Head(io).command_id] = "dispatched"
  /\ LET k == kind[sq[Head(io).slot]]
     IN cp' = [slot |-> Head(io).slot, command_id |-> Head(io).command_id, offset |-> k.slba,
               remaining |-> k.len, prp_offs |-> 0, mem_offs |-> 0, paddr_list |-> NoCmd]
  /\ wpc' = "copy"
  /\ UNCHANGED <<workFrame, state, cq, io, moved>>

(* ... and the pointers and the opcode page by page: prp1, prp2 or the list *)
(* that it points to.  Only the first page may have an offset.             *)
InSlot  == sq[cp.slot]
Buffer  == IF cp.prp_offs >= 2 THEN cp.paddr_list ELSE InSlot
PageOffs == IF cp.prp_offs = 0 THEN kind[InSlot].offs ELSE 0
MemOffs == IF PageOffs # 0 THEN PageOffs ELSE cp.mem_offs

IoSize ==
  IF PageOffs # 0 /\ Smaller(cp.remaining, PAGE_SIZE) + PageOffs > PAGE_SIZE
    THEN PAGE_SIZE - PageOffs ELSE Smaller(cp.remaining, PAGE_SIZE)

CopyPage ==
  /\ wpc = "copy"
  /\ moved' = [moved EXCEPT ![cp.command_id] =
                 Append(@, [write |-> kind[InSlot].op = "write", offset |-> cp.offset,
                            buffer |-> Buffer, page |-> cp.prp_offs, at |-> MemOffs,
                            size |-> IoSize])]
  /\ cp' = [cp EXCEPT !.offset = @ + IoSize, !.remaining = @ - IoSize, !.prp_offs = @ + 1,
                      !.mem_offs = MemOffs,
                      !.paddr_list = IF cp.prp_offs = 1 THEN InSlot ELSE @]
  /\ IF cp.remaining = IoSize
       THEN wpc' = "due" /\ state' = [state EXCEPT ![cp.command_id] = "copied"]
       ELSE UNCHANGED <<wpc, state>>
  /\ UNCHANGED <<workFrame, cq, io>>

Without(c) ==
  [i \in 1 .. Len(io) - 1 |-> IF \E j \in 1 .. i : io[j].command_id = c THEN io[i + 1] ELSE io[i]]

(* __fill_cq_result and the rest, for the request e. *)
Complete(e) ==
  /\ target[e.command_id] <= now
  /\ cq' = Append(cq, [command_id |-> e.command_id, sq_head |-> e.slot])
  /\ state' = [state EXCEPT ![e.command_id] = "completed"]
  /\ io' = Without(e.command_id)
  /\ wpc' = "round" /\ cp' = NoCopy

(* Fault: the head of the list is completed when it is due, copied or not. *)
PostCompletionUncopied ==
  /\ \/ wpc = "due" /\ Complete([command_id |-> cp.command_id, slot |-> cp.slot])
     \/ /\ wpc = "due" /\ target[cp.command_id] > now
        /\ wpc' = "round" /\ cp' = NoCopy
        /\ UNCHANGED <<cq, state, io>>
     \/ wpc = "round" /\ io # <<>> /\ Complete(Head(io))
  /\ UNCHANGED <<workFrame, moved>>

(* The request just copied is completed, or is not yet due and the round    *)
(* ends; or the head of the list, copied in an earlier round, has come due. *)
PostCompletion ==
  /\ \/ wpc = "due" /\ Complete([command_id |-> cp.command_id, slot |-> cp.slot])
     \/ /\ wpc = "due" /\ target[cp.command_id] > now
        /\ wpc' = "round" /\ cp' = NoCopy
        /\ UNCHANGED <<cq, state, io>>
     \/ /\ wpc = "round" /\ io # <<>> /\ state[Head(io).command_id] = "copied"
        /\ Complete(Head(io))
  /\ UNCHANGED <<workFrame, moved>>

WorkerStep == StartCopy \/ CopyPage \/ PostCompletion

-----------------------------------------------------------------------------
(* The host and its driver (external), and the procfs *)

Outstanding == {c \in Cmd : state[c] \in {"posted", "dispatched", "copied", "completed"}}
IsNext(c) == state[c] = "none" /\ \A d \in 1 .. c - 1 : state[d] # "none"

(* A driver has fewer commands under way than the queues have entries.  It  *)
(* goes round the slots, and takes the next one when sq_head says so, or   *)
(* when the command in it is finished.                                     *)
MayReuse(s) ==
  \/ ReuseByHead /\ NextSlot(s) # sq_head
  \/ ~ReuseByHead /\ (sq[s] # NoCmd => state[sq[s]] = "reaped")

HostPost(c, k) ==
  /\ IsNext(c)
  /\ Cardinality(Outstanding) < queue_size - 1 /\ MayReuse(dbs.sq)
  /\ sq' = [sq EXCEPT ![dbs.sq] = c]
  /\ kind' = [kind EXCEPT ![c] = k]
  /\ state' = [state EXCEPT ![c] = "posted"]
  /\ dbs' = [dbs EXCEPT !.sq = NextSlot(@)]
  /\ UNCHANGED <<timingVars, old_dbs, cq, sq_head, target, ftlVars, dispVars, io, wpc, cp,
                 statVars, events, moved, busy>>

HostReaps ==
  /\ cq # <<>>
  /\ cq' = Tail(cq)
  /\ state' = [state EXCEPT ![Head(cq).command_id] = "reaped"]
  /\ sq_head' = Head(cq).sq_head
  /\ dbs' = [dbs EXCEPT !.cq = NextSlot(@)]
  /\ UNCHANGED <<timingVars, sq, kind, old_dbs, target, ftlVars, dispVars, io, wpc, cp, statVars,
                 events, moved, busy>>

(* __proc_file_write of stat, read_times and write_times. *)
ProcFile ==
  /\ events < MaxEvents /\ events' = events + 1
  /\ \/ /\ nr_in_flight' = 0 /\ stat_reset' = TRUE
        /\ UNCHANGED timingVars
     \/ /\ \E c \in NandCmd, t \in Latencies : adjust_ftl_latency(c, t)
        /\ UNCHANGED statVars
  /\ UNCHANGED <<hostVars, dbs, old_dbs, ftlVars, dispVars, io, wpc, cp, moved, busy>>

(* Time is let pass while a LUN works: else nothing looks at the clock.     *)
Tick ==
  /\ now < MaxTime /\ \E l \in Lun : next_lun_avail_time[l] > now
  /\ now' = now + 1
  /\ UNCHANGED <<next_lun_avail_time, lat, hostVars, dbs, old_dbs, ftlVars, dispVars, io, wpc, cp,
                 statVars, events, moved, busy>>

Next ==
  \/ DispatcherStep \/ WorkerStep \/ HostReaps \/ ProcFile \/ Tick
  \/ \E c \in Cmd : \E k \in Kinds[c] : HostPost(c, k)

Spec == Init /\ [][Next]_vars

(* Both threads run for as long as the module is loaded, time passes, and  *)
(* the interrupt makes the host reap.  It need not post, nor anyone write  *)
(* to the procfs.                                                          *)
FairSpec == /\ Spec /\ WF_vars(DispatcherStep) /\ WF_vars(WorkerStep)
            /\ WF_vars(HostReaps) /\ WF_vars(Tick)

-----------------------------------------------------------------------------
(* Properties *)

TypeOK ==
  /\ next_lun_avail_time \in [Lun -> Nat] /\ now \in 0 .. MaxTime
  /\ lat \in [NandCmd -> Nat]
  /\ sq \in [Slot -> Cmd \union {NoCmd}] /\ \A c \in Cmd : kind[c] \in Kinds[c] \union {NoKind}
  /\ dbs \in [sq : Slot, cq : Slot] /\ old_dbs \in [sq : Slot, cq : Slot]
  /\ state \in [Cmd -> {"none", "posted", "dispatched", "copied", "completed", "reaped"}]
  /\ maptbl \in [0 .. tt_pgs - 1 -> Lun \union {UNMAPPED}] /\ wp \in Lun
  /\ dpc \in {"sq", "io", "gc_high", "gc", "cq"} /\ new_db \in Slot /\ sq_entry \in Slot
  /\ Len(io) < queue_size /\ Len(cq) < queue_size

(* The pieces of a transfer as the PRP list describes them: page i of the   *)
(* buffer holds what comes after the pages before it.                      *)
Pieces(c) ==
  LET k == kind[c]
      Before(i) == IF i = 0 THEN 0 ELSE i * PAGE_SIZE - k.offs
      pages == (k.offs + k.len + PAGE_SIZE - 1) \div PAGE_SIZE
  IN [i \in 1 .. pages |->
        [write |-> k.op = "write", offset |-> k.slba + Before(i - 1), buffer |-> c, page |-> i - 1,
         at |-> IF i = 1 THEN k.offs ELSE 0, size |-> Smaller(Before(i), k.len) - Before(i - 1)]]

(* When the host is told that a read or a write is done, exactly its data  *)
(* has been moved between its blocks and its buffer, once, although the    *)
(* worker reads the command from the slot at a time of its own (io.c:103). *)
TransferExact ==
  \A c \in Cmd :
    state[c] \in {"completed", "reaped"} /\ kind[c].op # "flush" => moved[c] = Pieces(c)

(* nvme.h says of sq_head that it tells how much of the queue may be       *)
(* reclaimed: no command is performed with what the host put in the place  *)
(* of a command that was reclaimed.                                        *)
OwnBuffers ==
  \A c \in Cmd : \A i \in DOMAIN moved[c] : moved[c][i].buffer = c

(* nr_in_flight counts the commands that the dispatcher has taken and whose *)
(* completions it has not seen taken, until someone resets the statistics. *)
(* It errs by whole rounds of the completion queue only, and never to the  *)
(* low side: the dispatcher misses a round when the host takes as many     *)
(* entries between two polls as the queue has (main.c:137, io.c:418).      *)
Taken == {c \in Cmd : state[c] \in {"dispatched", "copied", "completed"}}
MissedInFlight ==
  nr_in_flight + (IF dpc = "gc" THEN 1 ELSE 0)
    - (Cardinality(Taken) + Distance(dbs.cq, old_dbs.cq))
InFlightWholeRounds ==
  ~stat_reset => MissedInFlight >= 0 /\ MissedInFlight % queue_size = 0

(* The host never sees work done faster than the flash does it: a LUN      *)
(* works for one command at a time, and a command is completed when all    *)
(* LUNs are through with it (ssd_advance_status, ftl.c), whatever cleaning *)
(* and changes of the latencies come between.                              *)
NoFasterThanFlash ==
  \A c \in Cmd, l \in Lun :
    /\ state[c] \in {"completed", "reaped"} => busy[c][l].to <= now
    /\ \A d \in Cmd \ {c} : \/ busy[c][l].to <= busy[d][l].from
                            \/ busy[d][l].to <= busy[c][l].from

(* Every command is answered at last, whatever slot it is in and whatever   *)
(* comes before it in the list, unless its time is beyond the clock here:  *)
(* there are finitely many, and in the end none is under way.              *)
Served == <>[] \A c \in Cmd : state[c] \in {"none", "reaped"} \/ target[c] > MaxTime
=============================================================================
