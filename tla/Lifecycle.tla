------------------------------ MODULE Lifecycle ------------------------------
(***************************************************************************)
(* Loading and unloading of the module (main.c, pci.c, io.c): what is      *)
(* allocated, which threads run, in which order it all goes away, and who  *)
(* uses what meanwhile: the dispatcher, the workers, and a user of the     *)
(* files in /proc/nvmev, one at a time.                                    *)
(*                                                                         *)
(* mem says of every object whether it exists.  A thread that has loaded a *)
(* pointer uses the object in a later step.  The host deletes a submission *)
(* queue when no worker has a command of it; Controller and Dispatcher say *)
(* more about queues and commands.                                         *)
(***************************************************************************)
EXTENDS Integers, FiniteSets

CONSTANTS
  Configs,          \* module parameters and what the machine reserves for them
  MayFail,          \* the steps of loading that may fail: "bus", "storage"
  MaxWorkers,       \* bound: the longest list of cpus, without the dispatcher's
  NR_MAX_IO_QUEUE,
  IoUnits,          \* what is written to io_units
  MaxWrites,        \* bound: writes to io_units
  MaxQueueOps,      \* bound: queue pairs created and deleted
  MaxFlushes        \* bound: flush commands

Worker == 0 .. MaxWorkers - 1
Qid    == 1 .. NR_MAX_IO_QUEUE
NULL   == 0
Dispatcher == -1

Params == {"memmap_start", "memmap_size", "region", "nr_io_units", "io_unit_shift", "read_time",
           "write_time", "nr_io_cpu"}

ASSUME LoadAssumption ==
  /\ {MaxWorkers, NR_MAX_IO_QUEUE, MaxWrites, MaxQueueOps, MaxFlushes} \subseteq Nat
  /\ MayFail \subseteq {"bus", "storage"} /\ IoUnits \subseteq Nat
  /\ \A c \in Configs : /\ DOMAIN c = Params
                        /\ \A p \in Params \ {"region"} : c[p] \in Nat
                        /\ c.nr_io_cpu <= MaxWorkers

(* Everything that is allocated or mapped; the arrays io_unit_stat by the   *)
(* write to io_units that made them, and what the FTL allocates as one.  A *)
(* queue stands for its pair, and its pages for sq->sq and cq->cq of the   *)
(* pair, which are allocated beside the two structs.                       *)
Arrays  == {<<"io_unit_stat", k>> : k \in 0 .. MaxWrites}
Queues  == {<<"queue", q>> : q \in Qid}
QueuePages == {<<"queue_pages", q>> : q \in Qid}
Tables  == {<<"proc_table", w>> : w \in Worker}
Device  == {<<"vdev", 0>>, <<"virtDev", 0>>}
BusMaps == {<<"bar", 0>>, <<"msix_table", 0>>, <<"old_bar", 0>>, <<"old_dbs", 0>>}
Ssd     == {<<"ssd", 0>>}
AdminQ  == {<<"admin_q", 0>>}
AdminPages == {<<"nvme_sq", 0>>, <<"nvme_cq", 0>>}
Storage == {<<"storage_mapped", 0>>}
Info    == {<<"proc_info", 0>>}
Object  == Arrays \union Queues \union QueuePages \union Tables \union Device \union BusMaps
             \union Ssd \union AdminQ \union AdminPages \union Storage \union Info

VARIABLES
  param, mpc,                   \* the loading and unloading thread
  mem, frees,                   \* objects: none, live, deleted or freed; how often freed
  proc_entries,                 \* the files in /proc/nvmev exist
  nr_io_units, io_unit_stat,    \* as the device has them: a number, and which array
  units,                        \* the lengths of the arrays
  nr_sq,                        \* number of queue pairs the host was granted
  dpc, proc_turn, flush,        \* the dispatcher, and the variables of a flush
  wpc, work, scanned,           \* the workers: the queue of the request, of the interrupt scan
  should_stop,
  ppc, stat_sq,                 \* the user of the procfs, and the queue it looks at
  writes, queue_ops, flushes    \* counted for the bounds

memVars  == <<mem, frees>>
unitVars == <<nr_io_units, io_unit_stat, units>>
dispVars == <<nr_sq, dpc, proc_turn, flush>>
workVars == <<wpc, work, scanned>>
procVars == <<ppc, stat_sq>>
counters == <<writes, queue_ops, flushes>>
vars == <<param, mpc, mem, frees, proc_entries, nr_io_units, io_unit_stat, units, nr_sq, dpc,
          proc_turn, flush, wpc, work, scanned, should_stop, ppc, stat_sq, writes, queue_ops,
          flushes>>

NoFlush == [i |-> 0, nr |-> NULL, stat |-> -1, overlapped |-> FALSE]

Init ==
  /\ param \in Configs /\ mpc = "vdev"
  /\ mem = [o \in Object |-> "none"] /\ frees = [o \in Object |-> 0]
  /\ proc_entries = FALSE
  /\ nr_io_units = 0 /\ io_unit_stat = -1 /\ units = [k \in 0 .. MaxWrites |-> 0]
  /\ nr_sq = 0 /\ dpc = "none" /\ proc_turn = 0 /\ flush = NoFlush
  /\ wpc = [w \in Worker |-> "none"] /\ work = [w \in Worker |-> NULL]
  /\ scanned = [w \in Worker |-> NULL]
  /\ should_stop = {} /\ ppc = "idle" /\ stat_sq = NULL
  /\ writes = 0 /\ queue_ops = 0 /\ flushes = 0

Alloc(os) ==
  /\ mem' = [o \in Object |-> IF o \in os THEN "live" ELSE mem[o]]
  /\ UNCHANGED frees

(* kfree or memunmap of those that there are. *)
Free(os) ==
  /\ mem' = [o \in Object |-> IF o \in os /\ mem[o] = "live" THEN "freed" ELSE mem[o]]
  /\ frees' = [o \in Object |-> IF o \in os /\ mem[o] \in {"live", "freed"} THEN frees[o] + 1
                                ELSE frees[o]]

Load(from, to) == mpc = from /\ mpc' = to
loadRest == <<param, nr_sq, proc_turn, flush, work, scanned, procVars, counters>>

-----------------------------------------------------------------------------
(* NVMeV_init *)

VDEV_INIT ==
  /\ Load("vdev", "config") /\ Alloc(Device)
  /\ UNCHANGED <<loadRest, proc_entries, unitVars, dpc, wpc, should_stop>>

Valid(c) ==
  /\ c.memmap_start # 0 /\ c.memmap_size \notin {0, 1}
  /\ c.region = "reserved"
  /\ c.nr_io_units # 0 /\ c.io_unit_shift # 0
  /\ c.read_time # 0 /\ c.write_time # 0

__load_configs ==
  /\ mpc = "config"
  /\ \/ /\ Valid(param)
        /\ nr_io_units' = param.nr_io_units
        /\ mpc' = "ssd"
     \/ /\ ~Valid(param)
        /\ mpc' = "finalize"
        /\ UNCHANGED nr_io_units
  /\ UNCHANGED <<loadRest, memVars, proc_entries, io_unit_stat, units, dpc, wpc, should_stop>>

ssd_init ==
  /\ Load("ssd", "bus") /\ Alloc(Ssd)
  /\ UNCHANGED <<loadRest, proc_entries, unitVars, dpc, wpc, should_stop>>

NVMEV_PCI_INIT ==
  /\ \/ Load("bus", "storage") /\ Alloc(BusMaps)
     \/ "bus" \in MayFail /\ Load("bus", "finalize") /\ UNCHANGED memVars
  /\ UNCHANGED <<loadRest, proc_entries, unitVars, dpc, wpc, should_stop>>

(* That the storage could not be mapped is only logged. *)
NVMEV_STORAGE_INIT ==
  /\ Load("storage", "io_proc")
  /\ \/ Alloc({<<"io_unit_stat", 0>>} \union Storage)
     \/ "storage" \in MayFail /\ Alloc({<<"io_unit_stat", 0>>})
  /\ io_unit_stat' = 0 /\ units' = [units EXCEPT ![0] = nr_io_units]
  /\ proc_entries' = TRUE
  /\ UNCHANGED <<loadRest, nr_io_units, dpc, wpc, should_stop>>

Started == {w \in Worker : wpc[w] # "none"}

(* proc_info, and table and thread of each worker after the other. *)
NVMEV_IO_PROC_INIT ==
  /\ mpc = "io_proc"
  /\ \/ /\ mem[<<"proc_info", 0>>] = "none" /\ Alloc(Info)
        /\ UNCHANGED <<mpc, wpc>>
     \/ /\ mem[<<"proc_info", 0>>] = "live" /\ Cardinality(Started) < param.nr_io_cpu
        /\ LET w == Cardinality(Started)
           IN Alloc({<<"proc_table", w>>}) /\ wpc' = [wpc EXCEPT ![w] = "top"]
        /\ UNCHANGED mpc
     \/ /\ mem[<<"proc_info", 0>>] = "live" /\ Cardinality(Started) = param.nr_io_cpu
        /\ mpc' = "dispatcher"
        /\ UNCHANGED <<memVars, wpc>>
  /\ UNCHANGED <<loadRest, proc_entries, unitVars, dpc, should_stop>>

NVMEV_DISPATCHER_INIT ==
  /\ Load("dispatcher", "loaded") /\ dpc' = "top"
  /\ UNCHANGED <<loadRest, memVars, proc_entries, unitVars, wpc, should_stop>>

-----------------------------------------------------------------------------
(* NVMeV_exit *)

Unload ==
  /\ Load("loaded", "reg_proc_final")
  /\ UNCHANGED <<loadRest, memVars, proc_entries, unitVars, dpc, wpc, should_stop>>

(* kthread_stop: the thread is told, and waited for. *)
Tell(thread) == should_stop' = should_stop \union {thread}
Stopped(thread) == IF thread = Dispatcher THEN dpc = "dead" ELSE wpc[thread] = "dead"

NVMEV_REG_PROC_FINAL ==
  /\ mpc = "reg_proc_final"
  /\ \/ Dispatcher \notin should_stop /\ Tell(Dispatcher) /\ UNCHANGED mpc
     \/ Stopped(Dispatcher) /\ mpc' = "io_proc_final" /\ UNCHANGED should_stop
  /\ UNCHANGED <<loadRest, memVars, proc_entries, unitVars, dpc, wpc>>

ToStop == {w \in Worker : mem[<<"proc_table", w>>] = "live"}
NextToStop == CHOOSE w \in ToStop : \A v \in ToStop : w <= v

(* Fault: a table is freed as soon as its worker is told to stop. *)
NVMEV_IO_PROC_FINALEarly ==
  /\ mpc = "io_proc_final"
  /\ \/ /\ ToStop # {} /\ Tell(NextToStop) /\ Free({<<"proc_table", NextToStop>>})
        /\ UNCHANGED mpc
     \/ ToStop = {} /\ Free(Info) /\ mpc' = "storage_final" /\ UNCHANGED should_stop
  /\ UNCHANGED <<loadRest, proc_entries, unitVars, dpc, wpc>>

NVMEV_IO_PROC_FINAL ==
  /\ mpc = "io_proc_final"
  /\ \/ /\ ToStop # {} /\ NextToStop \notin should_stop /\ Tell(NextToStop)
        /\ UNCHANGED <<memVars, mpc>>
     \/ /\ ToStop # {} /\ Stopped(NextToStop) /\ Free({<<"proc_table", NextToStop>>})
        /\ UNCHANGED <<mpc, should_stop>>
     \/ ToStop = {} /\ Free(Info) /\ mpc' = "storage_final" /\ UNCHANGED should_stop
  /\ UNCHANGED <<loadRest, proc_entries, unitVars, dpc, wpc>>

(* remove_proc_entry lets nobody in any more and waits for who is in a      *)
(* file.  io_unit_stat keeps its value when the array is freed.            *)
NVMEV_STORAGE_FINAL ==
  /\ mpc = "storage_final"
  /\ \/ proc_entries /\ proc_entries' = FALSE /\ UNCHANGED <<mpc, memVars>>
     \/ /\ ~proc_entries /\ ppc = "idle" /\ mpc' = "remove_bus"
        /\ Free(Storage \union {<<"io_unit_stat", io_unit_stat>>})
        /\ UNCHANGED proc_entries
  /\ UNCHANGED <<loadRest, unitVars, dpc, wpc, should_stop>>

(* The loops end one short of the last queue, and free the two structs of a *)
(* queue without its pages.                                                *)
NVMeV_exit ==
  /\ Load("remove_bus", "finalize") /\ Free({<<"queue", q>> : q \in 1 .. nr_sq - 1})
  /\ UNCHANGED <<loadRest, proc_entries, unitVars, dpc, wpc, should_stop>>

(* Fault: old_dbs is forgotten. *)
VDEV_FINALIZEForgets ==
  /\ Load("finalize", "gone")
  /\ Free(Device \union (BusMaps \ {<<"old_dbs", 0>>}) \union AdminQ
            \union {<<"io_unit_stat", io_unit_stat>>})
  /\ UNCHANGED <<loadRest, proc_entries, unitVars, dpc, wpc, should_stop>>

(* What was never allocated has a pointer of NULL.  Of the admin queue the  *)
(* struct is freed, and not the pages it points to.                        *)
VDEV_FINALIZE ==
  /\ Load("finalize", "gone")
  /\ Free(Device \union BusMaps \union AdminQ \union {<<"io_unit_stat", io_unit_stat>>})
  /\ UNCHANGED <<loadRest, proc_entries, unitVars, dpc, wpc, should_stop>>

Loader ==
  \/ VDEV_INIT \/ __load_configs \/ ssd_init \/ NVMEV_PCI_INIT \/ NVMEV_STORAGE_INIT
  \/ NVMEV_IO_PROC_INIT \/ NVMEV_DISPATCHER_INIT
  \/ NVMEV_REG_PROC_FINAL \/ NVMEV_IO_PROC_FINAL \/ NVMEV_STORAGE_FINAL \/ NVMeV_exit
  \/ VDEV_FINALIZE

-----------------------------------------------------------------------------
(* The dispatcher *)

dispRest == <<param, mpc, proc_entries, unitVars, wpc, scanned, should_stop, procVars, writes>>

(* Its loop: the registers, of which the admin queue comes, and its pages   *)
(* in the same round or a later one (Bars has what the host writes), ...   *)
DispatcherTop ==
  /\ dpc = "top"
  /\ dpc' = IF Dispatcher \in should_stop THEN "dead" ELSE "bars"
  /\ UNCHANGED <<dispRest, memVars, nr_sq, proc_turn, flush, work, queue_ops, flushes>>

ProcBars ==
  /\ dpc = "bars" /\ dpc' = "admin"
  /\ \E os \in SUBSET {o \in AdminQ \union AdminPages : mem[o] = "none"} :
       /\ os \intersect AdminPages # {} => <<"admin_q", 0>> \in os \/ mem[<<"admin_q", 0>>] = "live"
       /\ Alloc(os)
  /\ UNCHANGED <<dispRest, nr_sq, proc_turn, flush, work, queue_ops, flushes>>

(* ... the admin commands, which set the number of queues, create and       *)
(* delete them with their pages, ...                                       *)
OfQueue(q) == {<<"queue", q>>, <<"queue_pages", q>>}

Idle(q) == \A w \in Worker : work[w] # q

ProcAdmin ==
  /\ dpc = "admin" /\ dpc' = "io"
  /\ \/ UNCHANGED <<memVars, nr_sq, queue_ops>>
     \/ /\ \A o \in AdminQ \union AdminPages : mem[o] = "live"
        /\ nr_sq = 0
        /\ nr_sq' \in Qid
        /\ UNCHANGED <<memVars, queue_ops>>
     \/ /\ queue_ops < MaxQueueOps /\ queue_ops' = queue_ops + 1
        /\ \E q \in 1 .. nr_sq :
             \/ mem[<<"queue", q>>] # "live" /\ Alloc(OfQueue(q))
             \/ /\ mem[<<"queue", q>>] = "live" /\ Idle(q)
                /\ mem' = [o \in Object |-> IF o \in OfQueue(q) THEN "deleted" ELSE mem[o]]
                /\ UNCHANGED frees
        /\ UNCHANGED nr_sq
  /\ UNCHANGED <<dispRest, proc_turn, flush, work, flushes>>

(* Fault: the turn does not go round. *)
NextTurnNoWrap == proc_turn + 1

NextTurn == IF proc_turn + 1 >= param.nr_io_cpu THEN 0 ELSE proc_turn + 1

(* __enqueue_io_req gives the table whose turn it is a request of queue q;  *)
(* here each holds at most one.                                            *)
EnqueueIoReq(q) ==
  /\ work[proc_turn] = NULL
  /\ work' = [work EXCEPT ![proc_turn] = q]
  /\ proc_turn' = NextTurn

(* ... and a command of an I/O queue, or none.                             *)
ProcIo ==
  /\ dpc = "io"
  /\ \/ dpc' = "top" /\ UNCHANGED <<proc_turn, work, flush, flushes>>
     \/ /\ \E q \in 1 .. nr_sq : mem[<<"queue", q>>] = "live" /\ EnqueueIoReq(q)
        /\ dpc' = "top"
        /\ UNCHANGED <<flush, flushes>>
     \/ /\ \E q \in 1 .. nr_sq : mem[<<"queue", q>>] = "live" /\ Idle(q) /\ work[proc_turn] = NULL
        /\ flushes < MaxFlushes /\ flushes' = flushes + 1
        /\ flush' = [NoFlush EXCEPT !.overlapped = (ppc = "allocate")]
        /\ dpc' = "flush_test"
        /\ UNCHANGED <<proc_turn, work>>
  /\ UNCHANGED <<dispRest, memVars, nr_sq, queue_ops>>

flushRest == <<dispRest, memVars, nr_sq, queue_ops, flushes>>

(* __nvmev_proc_flush.  Number and array are read without a lock, so that   *)
(* the compiler may use again what it has loaded for an earlier unit.      *)
FlushTest ==
  /\ dpc = "flush_test"
  /\ \E n \in {nr_io_units} \union (IF flush.i = 0 THEN {} ELSE {flush.nr}) :
       \/ flush.i < n /\ flush' = [flush EXCEPT !.nr = n] /\ dpc' = "flush_load"
          /\ UNCHANGED <<proc_turn, work>>
       \/ /\ flush.i >= n /\ flush' = NoFlush /\ dpc' = "top"
          /\ \E q \in 1 .. nr_sq : mem[<<"queue", q>>] = "live" /\ EnqueueIoReq(q)
  /\ UNCHANGED flushRest

FlushLoad ==
  /\ dpc = "flush_load" /\ dpc' = "flush_read"
  /\ \E k \in {io_unit_stat} \union (IF flush.i = 0 THEN {} ELSE {flush.stat}) :
       flush' = [flush EXCEPT !.stat = k]
  /\ UNCHANGED <<flushRest, proc_turn, work>>

FlushRead ==
  /\ dpc = "flush_read" /\ dpc' = "flush_test"
  /\ flush' = [flush EXCEPT !.i = @ + 1]
  /\ UNCHANGED <<flushRest, proc_turn, work>>

DispatcherStep ==
  \/ DispatcherTop \/ ProcBars \/ ProcAdmin \/ ProcIo \/ FlushTest \/ FlushLoad \/ FlushRead

-----------------------------------------------------------------------------
(* The workers *)

workRest == <<param, mpc, memVars, proc_entries, unitVars, dispVars, should_stop, procVars, counters>>

(* Fault: whether to stop is looked at when there is no request, which may  *)
(* not come due for long.                                                  *)
WorkerTopDrains(w) ==
  /\ wpc[w] = "top"
  /\ wpc' = [wpc EXCEPT ![w] = IF work[w] # NULL THEN "copy"
                               ELSE IF w \in should_stop THEN "dead" ELSE "scan"]
  /\ UNCHANGED <<workRest, work, scanned>>

WorkerTop(w) ==
  /\ wpc[w] = "top"
  /\ wpc' = [wpc EXCEPT ![w] = IF w \in should_stop THEN "dead"
                               ELSE IF work[w] = NULL THEN "scan" ELSE "copy"]
  /\ UNCHANGED <<workRest, work, scanned>>

(* The request is copied, and completed if it is due.                      *)
PerformIo(w) ==
  /\ wpc[w] = "copy" /\ wpc' = [wpc EXCEPT ![w] = "scan"]
  /\ work' \in {work, [work EXCEPT ![w] = NULL]}
  /\ UNCHANGED <<workRest, scanned>>

(* The scan for interrupts: one of the queues is looked at, and left again. *)
ScanLoad(w) ==
  /\ wpc[w] = "scan" /\ scanned[w] = NULL
  /\ \/ /\ \E q \in 1 .. nr_sq : /\ mem[<<"queue", q>>] = "live"
                                 /\ scanned' = [scanned EXCEPT ![w] = q]
        /\ UNCHANGED wpc
     \/ wpc' = [wpc EXCEPT ![w] = "top"] /\ UNCHANGED scanned
  /\ UNCHANGED <<workRest, work>>

ScanUse(w) ==
  /\ wpc[w] = "scan" /\ scanned[w] # NULL
  /\ scanned' = [scanned EXCEPT ![w] = NULL] /\ wpc' = [wpc EXCEPT ![w] = "top"]
  /\ UNCHANGED <<workRest, work>>

WorkerStep(w) == WorkerTop(w) \/ PerformIo(w) \/ ScanLoad(w) \/ ScanUse(w)

-----------------------------------------------------------------------------
(* The user of the procfs *)

procRest == <<param, mpc, proc_entries, dispVars, workVars, should_stop, queue_ops, flushes>>

InFlush == dpc \in {"flush_test", "flush_load", "flush_read"}

(* A write to io_units changes the number first.                           *)
WriteIoUnits(n) ==
  /\ proc_entries /\ ppc = "idle" /\ writes < MaxWrites
  /\ ppc' = "allocate" /\ writes' = writes + 1
  /\ nr_io_units' = n
  /\ flush' = [flush EXCEPT !.overlapped = InFlush]
  /\ UNCHANGED <<param, mpc, memVars, proc_entries, io_unit_stat, units, nr_sq, dpc, proc_turn,
                 workVars, should_stop, stat_sq, queue_ops, flushes>>

(* Fault: the new array is as long as the old one. *)
NewUnitsOldLength ==
  /\ ppc = "allocate" /\ ppc' = "delay"
  /\ Alloc({<<"io_unit_stat", writes>>}) /\ io_unit_stat' = writes
  /\ units' = [units EXCEPT ![writes] = units[io_unit_stat]]
  /\ UNCHANGED <<procRest, nr_io_units, stat_sq, writes>>

NewUnits ==
  /\ ppc = "allocate" /\ ppc' = "delay"
  /\ Alloc({<<"io_unit_stat", writes>>}) /\ io_unit_stat' = writes
  /\ units' = [units EXCEPT ![writes] = nr_io_units]
  /\ UNCHANGED <<procRest, nr_io_units, stat_sq, writes>>

(* The delay of 100 ms outlasts a flush that may still use the old array    *)
(* (assumed: a flush is a short loop).                                     *)
FreeOldUnits ==
  /\ ppc = "delay" /\ ppc' = "idle" /\ ~(InFlush /\ flush.overlapped)
  /\ Free({<<"io_unit_stat", writes - 1>>})
  /\ UNCHANGED <<procRest, unitVars, stat_sq, writes>>

(* stat, read or reset: one of the queues is looked at, and left again.     *)
StatLoad ==
  /\ proc_entries /\ ppc = "idle" /\ ppc' = "stat"
  /\ \E q \in 1 .. nr_sq : mem[<<"queue", q>>] = "live" /\ stat_sq' = q
  /\ UNCHANGED <<procRest, memVars, unitVars, writes>>

StatUse ==
  /\ ppc = "stat" /\ ppc' = "idle" /\ stat_sq' = NULL
  /\ UNCHANGED <<procRest, memVars, unitVars, writes>>

ProcStep == NewUnits \/ FreeOldUnits \/ StatUse

-----------------------------------------------------------------------------
Next ==
  \/ Loader \/ Unload \/ DispatcherStep \/ ProcStep \/ StatLoad
  \/ \E w \in Worker : WorkerStep(w)
  \/ \E n \in IoUnits : WriteIoUnits(n)

Spec == Init /\ [][Next]_vars

(* insmod and rmmod go on, the threads run, and who is in a file leaves it; *)
(* nobody need unload the module.                                          *)
FairSpec == /\ Spec /\ WF_vars(Loader) /\ WF_vars(DispatcherStep) /\ WF_vars(ProcStep)
            /\ \A w \in Worker : WF_vars(WorkerStep(w))

-----------------------------------------------------------------------------
(* Properties *)

TypeOK ==
  /\ param \in Configs /\ proc_entries \in BOOLEAN
  /\ mem \in [Object -> {"none", "live", "deleted", "freed"}] /\ frees \in [Object -> Nat]
  /\ nr_io_units \in Nat /\ io_unit_stat \in -1 .. MaxWrites /\ units \in [0 .. MaxWrites -> Nat]
  /\ nr_sq \in 0 .. NR_MAX_IO_QUEUE /\ proc_turn \in Worker
  /\ dpc = "top" => proc_turn < param.nr_io_cpu
  /\ work \in [Worker -> 0 .. nr_sq] /\ scanned \in [Worker -> 0 .. nr_sq]
  /\ should_stop \subseteq Worker \union {Dispatcher} /\ stat_sq \in 0 .. nr_sq

(* What each thread uses in its next step, and the queue it loaded before.  *)
DispatcherUses ==
  CASE dpc \in {"top", "bars"} -> {<<"vdev", 0>>} \union BusMaps
    [] dpc = "admin" -> BusMaps \union (IF nr_sq = 0 THEN {} ELSE AdminQ \union AdminPages)
    [] dpc = "io"    -> {<<"bar", 0>>, <<"old_dbs", 0>>} \union Ssd \union Info
                          \union {<<"proc_table", proc_turn>>}
    [] dpc = "flush_read" -> {<<"io_unit_stat", flush.stat>>}
    [] OTHER -> {}

WorkerUses(w) ==
  IF wpc[w] \in {"none", "dead"} THEN {}
  ELSE Info \union {<<"proc_table", w>>, <<"vdev", 0>>}
         \union (IF wpc[w] = "copy" THEN Storage \union OfQueue(work[w]) ELSE {})

ProcUses == IF ppc = "idle" THEN {} ELSE Device

Loaded ==
  {<<"queue", scanned[w]>> : w \in {v \in Worker : scanned[v] # NULL}}
    \union (IF ppc = "stat" THEN {<<"queue", stat_sq>>} ELSE {})

(* Nobody uses what is not yet there or already gone, while the module is   *)
(* loaded and unloaded around the threads and who is in its files, nor an  *)
(* array of io_units that was replaced.  A queue that was loaded may be    *)
(* deleted by the host, but not by unloading (main.c:506-525).             *)
UseOnlyLive ==
  /\ \A o \in DispatcherUses \union ProcUses : mem[o] = "live"
  /\ \A w \in Worker : \A o \in WorkerUses(w) : mem[o] = "live"
  /\ \A o \in Loaded : mem[o] \in {"live", "deleted"}

(* A flush reads within the array, unless a write to io_units came between: *)
(* number and array agree again when the write is over (main.c:337).       *)
FlushInBounds ==
  dpc = "flush_read" /\ ~flush.overlapped => flush.i < units[flush.stat]

(* What no one frees: the memory of the FTL, the last queue, the pages of   *)
(* every queue that the host did not delete, and those of the admin queue. *)
Leaked ==
  Ssd \union AdminPages \union {<<"queue", nr_sq>>}
    \union {<<"queue_pages", q>> : q \in {p \in Qid : mem[<<"queue", p>>] # "deleted"}}

(* When the module is gone, whether loading failed or it was unloaded, what *)
(* Leaked names is there for ever, and nothing else: all the rest that was *)
(* allocated was freed, once but for io_unit_stat, which is freed twice    *)
(* (main.c:430 and pci.c:319), or with its queue by the host.              *)
EachFreedOnce ==
  mpc = "gone" =>
    \A o \in Object :
      \/ mem[o] = "none" /\ frees[o] = 0
      \/ mem[o] = "live" /\ frees[o] = 0 /\ o \in Leaked
      \/ mem[o] = "deleted" /\ frees[o] = 0 /\ o \in Queues \union QueuePages
      \/ /\ mem[o] = "freed" /\ o \notin Leaked
         /\ frees[o] = IF o = <<"io_unit_stat", io_unit_stat>> THEN 2 ELSE 1

(* Loading comes to an end, and so does unloading once it was asked for,    *)
(* whatever the threads have under way.                                    *)
LoadsAndUnloads == []<>(mpc \in {"loaded", "gone"})
=============================================================================
