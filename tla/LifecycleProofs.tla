---------------------------- MODULE LifecycleProofs ----------------------------
(* Loading and unloading: for every number of workers, queues and writes to *)
(* io_units, whichever step of loading fails, a flush stays in its array,   *)
(* everything is freed as often as EachFreedOnce says, and no thread uses   *)
(* what is not there.                                                       *)
(*                                                                          *)
(* The inductive invariant LifeInv says for each phase of loading and       *)
(* unloading which objects there are and which threads run: the module's    *)
(* memory is kept right by the order of two dozen steps, not by counts or   *)
(* locks.  ArraysInv and FlushInv say more: which array of the I/O units a  *)
(* flush may hold while it is replaced, and that the number of units is the *)
(* length of the array but in the step between the two.                     *)
(*                                                                          *)
(* The theorems assume a cpu for a worker in every configuration, which the *)
(* README.md:47 asks for and the code does not check (main.c:457-467):      *)
(* without one the dispatcher would use the first table of an empty array.  *)
EXTENDS Lifecycle, FiniteSetTheorems, WellFoundedInduction, TLAPS

-----------------------------------------------------------------------------
(* The inductive invariant *)

Array(k) == <<"io_unit_stat", k>>
Queue(q) == <<"queue", q>>
Pages(q) == <<"queue_pages", q>>
Table(w) == <<"proc_table", w>>

(* Loading, by what there is when a step is about to be taken; the threads  *)
(* of the workers run from io_proc to io_proc_final, the files exist until  *)
(* storage_final.                                                           *)
NotYetMapped == {"vdev", "config", "ssd", "bus"}
Complete     == {"dispatcher", "loaded", "reg_proc_final", "io_proc_final"}
WithWorkers  == {"io_proc"} \union Complete
WithArray    == WithWorkers \union {"storage_final"}
WithBus      == WithArray \union {"storage", "remove_bus"}
Ending       == {"finalize", "gone"}
Stopping     == {"io_proc_final", "storage_final", "remove_bus", "finalize", "gone"}

Phases == NotYetMapped \union WithBus \union Ending

Types ==
  /\ param \in Configs /\ proc_entries \in BOOLEAN
  /\ mem \in [Object -> {"none", "live", "deleted", "freed"}] /\ frees \in [Object -> Nat]
  /\ nr_io_units \in Nat /\ io_unit_stat \in -1 .. MaxWrites /\ units \in [0 .. MaxWrites -> Nat]
  /\ nr_sq \in 0 .. NR_MAX_IO_QUEUE /\ proc_turn \in Nat /\ proc_turn < param.nr_io_cpu
  /\ work \in [Worker -> 0 .. nr_sq] /\ scanned \in [Worker -> 0 .. nr_sq]
  /\ should_stop \subseteq Worker \union {Dispatcher} /\ stat_sq \in 0 .. nr_sq
  /\ mpc \in Phases
  /\ dpc \in {"none", "dead", "top", "bars", "admin", "io", "flush_test", "flush_load", "flush_read"}
  /\ wpc \in [Worker -> {"none", "dead", "top", "copy", "scan"}]
  /\ ppc \in {"idle", "allocate", "delay", "stat"}
  /\ writes \in 0 .. MaxWrites
  /\ flush \in [i : Nat, nr : Nat, stat : -1 .. MaxWrites, overlapped : BOOLEAN]

(* Which threads there are, by how far loading or unloading is. *)
Threads ==
  /\ dpc \notin {"none", "dead"} => mpc \in {"loaded", "reg_proc_final"}
  /\ \A w \in Worker :
       /\ wpc[w] \notin {"none", "dead"} => mpc \in WithWorkers
       /\ mpc \in NotYetMapped \union {"storage"} => wpc[w] = "none"
       /\ mpc \in Complete => (wpc[w] # "none" <=> w < param.nr_io_cpu)
  /\ mpc = "io_proc" => \E c \in 0 .. param.nr_io_cpu :
                          \A w \in Worker : wpc[w] # "none" <=> w < c

(* What is made once, while loading, or with the admin queue. *)
DeviceInv ==
  \A o \in Device : mem[o] = IF mpc = "vdev" THEN "none"
                             ELSE IF mpc = "gone" THEN "freed" ELSE "live"

BusInv ==
  \A o \in BusMaps : /\ mpc \in NotYetMapped => mem[o] = "none"
                     /\ mpc \in WithBus => mem[o] = "live"
                     /\ mpc = "finalize" => mem[o] \in {"none", "live"}
                     /\ mpc = "gone" => mem[o] \in {"none", "freed"}

SsdInv ==
  \A o \in Ssd : /\ mem[o] \in {"none", "live"}
                 /\ mpc \in {"bus"} \union WithBus => mem[o] = "live"

AdminInv ==
  \A o \in AdminQ : /\ mpc # "gone" => mem[o] \in {"none", "live"}
                    /\ mpc = "gone" => mem[o] \in {"none", "freed"}
                    /\ mpc # "gone" /\ nr_sq # 0 => mem[o] = "live"

AdminPagesInv ==
  \A o \in AdminPages : mem[o] \in {"none", "live"} /\ (nr_sq # 0 => mem[o] = "live")

StorageInv ==
  \A o \in Storage : /\ mpc \in NotYetMapped \union {"storage"} => mem[o] = "none"
                     /\ mpc \in WithArray => mem[o] \in {"none", "live"}
                     /\ mpc \in WithArray /\ "storage" \notin MayFail => mem[o] = "live"
                     /\ mpc \in {"remove_bus"} \union Ending => mem[o] \in {"none", "freed"}

InfoInv ==
  \A o \in Info : /\ mpc \in NotYetMapped \union {"storage"} => mem[o] = "none"
                  /\ mpc = "io_proc" => mem[o] \in {"none", "live"}
                  /\ mpc = "io_proc" /\ (\E w \in Worker : wpc[w] # "none") => mem[o] = "live"
                  /\ mpc \in Complete => mem[o] = "live"
                  /\ mpc \in {"storage_final", "remove_bus"} \union Ending =>
                       mem[o] \in {"none", "freed"}

Fixed == /\ DeviceInv /\ BusInv /\ SsdInv /\ AdminInv /\ AdminPagesInv
         /\ StorageInv /\ InfoInv

(* A table is there from before its worker until after. *)
TablesInv ==
  \A w \in Worker : \/ wpc[w] = "none" /\ mem[Table(w)] = "none"
                    \/ wpc[w] # "none" /\ mem[Table(w)] = "live" /\ mpc \in WithWorkers
                    \/ wpc[w] = "dead" /\ mem[Table(w)] = "freed" /\ mpc \in Stopping

(* The host has queues up to nr_sq; commands are of queues that are there.  *)
QueuesInv ==
  /\ nr_sq # 0 => mpc \notin NotYetMapped \union {"storage", "io_proc", "dispatcher"}
  /\ \A q \in Qid : /\ q > nr_sq => mem[Queue(q)] = "none"
                    /\ mpc \notin Ending \/ q = nr_sq => mem[Queue(q)] # "freed"
                    /\ mpc \in Ending /\ mem[Queue(q)] = "live" => q = nr_sq
  /\ \A w \in Worker : /\ work[w] # NULL /\ mpc \notin Ending => mem[Queue(work[w])] = "live"
                       /\ wpc[w] = "copy" => work[w] # NULL
                       /\ wpc[w] # "scan" => scanned[w] = NULL
                       /\ scanned[w] # NULL => mem[Queue(scanned[w])] \in {"live", "deleted"}
  /\ ppc # "stat" => stat_sq = NULL
  /\ ppc = "stat" => stat_sq # NULL /\ mem[Queue(stat_sq)] \in {"live", "deleted"}

(* The pages of a queue come and go with it, but unloading leaves them. *)
PagesInv ==
  \A q \in Qid : mem[Pages(q)] = IF mem[Queue(q)] = "freed" THEN "live" ELSE mem[Queue(q)]

(* The arrays that were made, and which of them is the device's. *)
ArraysInv ==
  /\ proc_entries \/ ppc # "idle" => mpc \in WithArray
  /\ mpc \in WithArray \union {"remove_bus"} => io_unit_stat # -1
  /\ mpc \in NotYetMapped \union {"storage"} => io_unit_stat = -1
  /\ ppc \in {"allocate", "delay"} => writes > 0
  /\ io_unit_stat = -1 => writes = 0
  /\ io_unit_stat # -1 => /\ io_unit_stat = IF ppc = "allocate" THEN writes - 1 ELSE writes
                          /\ ppc # "allocate" => units[io_unit_stat] = nr_io_units
  /\ \A k \in 0 .. MaxWrites :
       mem[Array(k)] = IF k > io_unit_stat THEN "none"
                       ELSE IF \/ k = io_unit_stat /\ mpc \in WithArray
                               \/ k = io_unit_stat - 1 /\ ppc = "delay"
                       THEN "live" ELSE "freed"

(* What a flush holds: the array of the device, or the one it replaces. *)
FlushInv ==
  InFlush =>
    /\ flush.overlapped => ppc \in {"allocate", "delay"}
    /\ ppc = "allocate" => flush.overlapped
    /\ flush.i > 0 \/ dpc = "flush_read" =>
         flush.stat = io_unit_stat \/ (flush.overlapped /\ ppc = "delay" /\ flush.stat = io_unit_stat - 1)
    /\ ~flush.overlapped /\ (flush.i > 0 \/ dpc # "flush_test") => flush.nr = nr_io_units
    /\ ~flush.overlapped /\ dpc # "flush_test" => flush.i < nr_io_units

(* Freed once, but the last array twice. *)
FreesInv ==
  \A o \in Object : frees[o] = IF mem[o] # "freed" THEN 0
                               ELSE IF mpc = "gone" /\ o = Array(io_unit_stat) THEN 2 ELSE 1

LifeInv == /\ Types /\ Threads /\ Fixed /\ TablesInv /\ QueuesInv /\ PagesInv /\ ArraysInv
           /\ FlushInv /\ FreesInv

-----------------------------------------------------------------------------
(* Objects *)

(* The families of objects, told apart by the first component. *)
LEMMA Kinds ==
  /\ \A k \in 0 .. MaxWrites : Array(k) \in Object
  /\ \A q \in Qid : Queue(q) \in Object /\ Pages(q) \in Object
  /\ \A w \in Worker : Table(w) \in Object
  /\ Device \subseteq Object /\ BusMaps \subseteq Object /\ Ssd \subseteq Object
  /\ AdminQ \subseteq Object /\ AdminPages \subseteq Object
  /\ Storage \subseteq Object /\ Info \subseteq Object
  /\ \A k : Array(k)[1] = "io_unit_stat" /\ Array(k)[2] = k
  /\ \A q : Queue(q)[1] = "queue" /\ Queue(q)[2] = q
  /\ \A q : Pages(q)[1] = "queue_pages" /\ Pages(q)[2] = q
  /\ \A w : Table(w)[1] = "proc_table" /\ Table(w)[2] = w
  /\ \A o \in Device : o[1] \in {"vdev", "virtDev"}
  /\ \A o \in BusMaps : o[1] \in {"bar", "msix_table", "old_bar", "old_dbs"}
  /\ \A o \in Ssd : o[1] = "ssd"
  /\ \A o \in AdminQ : o[1] = "admin_q"
  /\ \A o \in AdminPages : o[1] \in {"nvme_sq", "nvme_cq"}
  /\ \A o \in Storage : o[1] = "storage_mapped"
  /\ \A o \in Info : o[1] = "proc_info"
  <1>1. /\ \A k \in 0 .. MaxWrites : Array(k) \in Object
        /\ \A q \in Qid : Queue(q) \in Object /\ Pages(q) \in Object
        /\ \A w \in Worker : Table(w) \in Object
    BY DEF Array, Queue, Pages, Table, Object, Arrays, Queues, QueuePages, Tables
  <1>2. /\ Device \subseteq Object /\ BusMaps \subseteq Object /\ Ssd \subseteq Object
        /\ AdminQ \subseteq Object /\ AdminPages \subseteq Object
        /\ Storage \subseteq Object /\ Info \subseteq Object
    BY DEF Object
  <1>3. /\ \A k : Array(k)[1] = "io_unit_stat" /\ Array(k)[2] = k
        /\ \A q : Queue(q)[1] = "queue" /\ Queue(q)[2] = q
        /\ \A q : Pages(q)[1] = "queue_pages" /\ Pages(q)[2] = q
        /\ \A w : Table(w)[1] = "proc_table" /\ Table(w)[2] = w
    BY DEF Array, Queue, Pages, Table
  <1>4. /\ \A o \in Device : o[1] \in {"vdev", "virtDev"}
        /\ \A o \in BusMaps : o[1] \in {"bar", "msix_table", "old_bar", "old_dbs"}
    BY DEF Device, BusMaps
  <1>5. /\ \A o \in Ssd : o[1] = "ssd"
        /\ \A o \in AdminQ : o[1] = "admin_q"
        /\ \A o \in AdminPages : o[1] \in {"nvme_sq", "nvme_cq"}
        /\ \A o \in Storage : o[1] = "storage_mapped"
        /\ \A o \in Info : o[1] = "proc_info"
    BY DEF Ssd, AdminQ, AdminPages, Storage, Info
  <1> QED
    BY <1>1, <1>2, <1>3, <1>4, <1>5

LEMMA AllocEffect ==
  ASSUME Types, FreesInv, mpc # "gone", mpc' # "gone",
         NEW os, Alloc(os), \A o \in os : o \in Object => mem[o] # "freed"
  PROVE  /\ mem' \in [Object -> {"none", "live", "deleted", "freed"}] /\ frees' \in [Object -> Nat]
         /\ \A o \in Object : mem'[o] = IF o \in os THEN "live" ELSE mem[o]
         /\ FreesInv'
  <1>1. /\ mem' = [o \in Object |-> IF o \in os THEN "live" ELSE mem[o]] /\ frees' = frees
        /\ mem \in [Object -> {"none", "live", "deleted", "freed"}] /\ frees \in [Object -> Nat]
    BY DEF Alloc, Types
  <1>2. \A o \in Object : mem'[o] = IF o \in os THEN "live" ELSE mem[o]
    BY <1>1
  <1>3. mem' \in [Object -> {"none", "live", "deleted", "freed"}]
    BY <1>1
  <1>4. \A o \in Object : mem'[o] = "freed" => mem[o] = "freed"
    BY <1>2
  <1>5. \A o \in Object : mem[o] = "freed" => mem'[o] = "freed"
    BY <1>2
  <1> QED
    BY <1>1, <1>2, <1>3, <1>4, <1>5 DEF FreesInv

LEMMA Basics ==
  ASSUME Types
  PROVE  /\ MaxWrites \in Nat /\ MaxWorkers \in Nat /\ NR_MAX_IO_QUEUE \in Nat /\ IoUnits \subseteq Nat
         /\ param.nr_io_cpu \in Nat /\ param.nr_io_cpu <= MaxWorkers /\ param.nr_io_units \in Nat
  BY LoadAssumption DEF Types, Params

(* Freeing what is none of what was freed before. *)
LEMMA FreeEffect ==
  ASSUME Types, FreesInv, mpc # "gone", mpc' # "gone",
         NEW os, Free(os), \A o \in os : o \in Object => mem[o] # "freed"
  PROVE  /\ mem' \in [Object -> {"none", "live", "deleted", "freed"}] /\ frees' \in [Object -> Nat]
         /\ \A o \in Object : mem'[o] = IF o \in os /\ mem[o] = "live" THEN "freed" ELSE mem[o]
         /\ FreesInv'
  <1>1. /\ mem' = [o \in Object |-> IF o \in os /\ mem[o] = "live" THEN "freed" ELSE mem[o]]
        /\ frees' = [o \in Object |-> IF o \in os /\ mem[o] \in {"live", "freed"} THEN frees[o] + 1
                                      ELSE frees[o]]
        /\ mem \in [Object -> {"none", "live", "deleted", "freed"}] /\ frees \in [Object -> Nat]
    BY DEF Free, Types
  <1>2. \A o \in Object : mem'[o] = IF o \in os /\ mem[o] = "live" THEN "freed" ELSE mem[o]
    BY <1>1
  <1>3. mem' \in [Object -> {"none", "live", "deleted", "freed"}]
    BY <1>1
  <1>4. frees' \in [Object -> Nat]
    BY <1>1
  <1>5. ASSUME NEW o \in Object PROVE frees'[o] = IF mem'[o] # "freed" THEN 0 ELSE 1
    <2>1. frees[o] = IF mem[o] # "freed" THEN 0 ELSE 1
      BY DEF FreesInv
    <2>2. frees'[o] = IF o \in os /\ mem[o] \in {"live", "freed"} THEN frees[o] + 1 ELSE frees[o]
      BY <1>1
    <2> QED
      BY <1>2, <2>1, <2>2
  <1>6. FreesInv'
    BY <1>5 DEF FreesInv
  <1> QED
    BY <1>2, <1>3, <1>4, <1>6

LEMMA LifeInit ==
  ASSUME \A c \in Configs : c.nr_io_cpu > 0
  PROVE  Init => LifeInv
  <1> SUFFICES ASSUME Init PROVE LifeInv
    OBVIOUS
  <1> USE DEF Init, NULL
  <1>1. Types
    <2>1. /\ param \in Configs /\ param.nr_io_cpu > 0 /\ param.nr_io_cpu \in Nat
          /\ MaxWrites \in Nat /\ NR_MAX_IO_QUEUE \in Nat
      BY LoadAssumption DEF Params
    <2>2. /\ mem \in [Object -> {"none", "live", "deleted", "freed"}] /\ frees \in [Object -> Nat]
          /\ units \in [0 .. MaxWrites -> Nat] /\ work \in [Worker -> 0 .. nr_sq]
          /\ scanned \in [Worker -> 0 .. nr_sq]
          /\ wpc \in [Worker -> {"none", "dead", "top", "copy", "scan"}]
      OBVIOUS
    <2>3. flush \in [i : Nat, nr : Nat, stat : -1 .. MaxWrites, overlapped : BOOLEAN]
      BY <2>1 DEF NoFlush
    <2>4. /\ io_unit_stat \in -1 .. MaxWrites /\ nr_sq \in 0 .. NR_MAX_IO_QUEUE
          /\ proc_turn \in Nat /\ proc_turn < param.nr_io_cpu /\ nr_io_units \in Nat
          /\ stat_sq \in 0 .. nr_sq /\ writes \in 0 .. MaxWrites
      BY <2>1
    <2>5. mpc \in Phases /\ should_stop \subseteq Worker \union {Dispatcher}
      BY DEF Phases, NotYetMapped
    <2>6. proc_entries \in BOOLEAN /\ dpc = "none" /\ ppc = "idle"
      OBVIOUS
    <2> HIDE DEF Init
    <2> QED
      BY <2>1, <2>2, <2>3, <2>4, <2>5, <2>6 DEF Types
  <1>2. \A o \in Object : mem[o] = "none" /\ frees[o] = 0
    OBVIOUS
  <1>3. Threads
    BY DEF Threads, NotYetMapped, WithWorkers, Complete
  <1>4. Fixed
    BY <1>2, Kinds DEF Fixed, DeviceInv, BusInv, SsdInv, AdminInv, AdminPagesInv, StorageInv, InfoInv,
              NotYetMapped, WithWorkers, Complete, WithBus, WithArray, Ending, Started
  <1>5. TablesInv
    BY <1>2, Kinds DEF TablesInv
  <1>6. QueuesInv
    BY <1>2, Kinds DEF QueuesInv, NotYetMapped, Ending
  <1>7. ArraysInv
    BY <1>2, Kinds, LoadAssumption DEF ArraysInv, NotYetMapped, WithArray, WithWorkers, Complete
  <1>8. FlushInv /\ FreesInv
    BY <1>2 DEF FlushInv, FreesInv, InFlush
  <1>9. PagesInv
    BY <1>2, Kinds DEF PagesInv
  <1> QED
    BY <1>1, <1>3, <1>4, <1>5, <1>6, <1>7, <1>8, <1>9 DEF LifeInv

(* What a step does not touch stays as it is. *)
LEMMA QueuesFrame ==
  ASSUME Types, QueuesInv, \A q \in Qid : mem'[Queue(q)] = mem[Queue(q)],
         UNCHANGED <<nr_sq, work, scanned, ppc, stat_sq, wpc>>,
         mpc' \in Ending => mpc \in Ending \/ nr_sq = 0, mpc \in Ending => mpc' \in Ending,
         mpc' \in NotYetMapped \union {"storage", "io_proc", "dispatcher"} => nr_sq = 0
  PROVE  QueuesInv'
  <1>1. nr_sq # 0 => mpc' \notin NotYetMapped \union {"storage", "io_proc", "dispatcher"}
    OBVIOUS
  <1>2. nr_sq \in Nat /\ \A q \in 1 .. nr_sq : q \in Qid
    BY Basics DEF Types, Qid
  <1>3. ASSUME NEW q \in Qid
        PROVE  /\ q > nr_sq => mem'[Queue(q)] = "none"
               /\ mpc' \notin Ending \/ q = nr_sq => mem'[Queue(q)] # "freed"
               /\ mpc' \in Ending /\ mem'[Queue(q)] = "live" => q = nr_sq
    <2>1. nr_sq = 0 => mem[Queue(q)] = "none"
      BY DEF QueuesInv, Qid
    <2> QED
      BY <2>1 DEF QueuesInv
  <1>4. ASSUME NEW w \in Worker
        PROVE  /\ work[w] # NULL /\ mpc' \notin Ending => mem'[Queue(work[w])] = "live"
               /\ wpc[w] = "copy" => work[w] # NULL
               /\ wpc[w] # "scan" => scanned[w] = NULL
               /\ scanned[w] # NULL => mem'[Queue(scanned[w])] \in {"live", "deleted"}
    <2>1. work[w] \in 0 .. nr_sq /\ scanned[w] \in 0 .. nr_sq
      BY DEF Types
    <2>2. /\ work[w] # NULL => work[w] \in Qid
          /\ scanned[w] # NULL => scanned[w] \in Qid
      BY <1>2, <2>1 DEF NULL
    <2>3. work[w] # NULL /\ mpc' \notin Ending => mem[Queue(work[w])] = "live"
      BY <2>1 DEF QueuesInv, NULL
    <2> QED
      BY <2>2, <2>3 DEF QueuesInv
  <1>5. ppc = "stat" => stat_sq # NULL /\ mem'[Queue(stat_sq)] \in {"live", "deleted"}
    <2>1. stat_sq \in 0 .. nr_sq
      BY DEF Types
    <2>2. stat_sq # NULL => stat_sq \in Qid
      BY <1>2, <2>1 DEF NULL
    <2> QED
      BY <2>2 DEF QueuesInv
  <1>6. ppc # "stat" => stat_sq = NULL
    BY DEF QueuesInv
  <1> QED
    BY <1>1, <1>3, <1>4, <1>5, <1>6 DEF QueuesInv

(* A worker that starts or stops has no request in work and scans nothing. *)
LEMMA QueuesFrame2 ==
  ASSUME Types, QueuesInv, \A q \in Qid : mem'[Queue(q)] = mem[Queue(q)],
         UNCHANGED <<nr_sq, work, scanned, ppc, stat_sq, mpc>>,
         \A w \in Worker : \/ wpc'[w] = wpc[w]
                           \/ wpc'[w] # "copy" /\ scanned[w] = NULL
                           \/ wpc'[w] = "copy" /\ work[w] # NULL /\ scanned[w] = NULL
  PROVE  QueuesInv'
  <1>1. nr_sq \in Nat /\ \A q \in 1 .. nr_sq : q \in Qid
    BY Basics DEF Types, Qid
  <1>2. ASSUME NEW w \in Worker
        PROVE  /\ work[w] # NULL /\ mpc \notin Ending => mem'[Queue(work[w])] = "live"
               /\ wpc'[w] = "copy" => work[w] # NULL
               /\ wpc'[w] # "scan" => scanned[w] = NULL
               /\ scanned[w] # NULL => mem'[Queue(scanned[w])] \in {"live", "deleted"}
    <2>1. work[w] \in 0 .. nr_sq /\ scanned[w] \in 0 .. nr_sq
      BY DEF Types
    <2>2. /\ work[w] # NULL => work[w] \in Qid
          /\ scanned[w] # NULL => scanned[w] \in Qid
      BY <1>1, <2>1 DEF NULL
    <2> QED
      BY <2>2 DEF QueuesInv
  <1>3. stat_sq # NULL => stat_sq \in Qid
    BY <1>1 DEF Types, NULL
  <1> QED
    BY <1>2, <1>3 DEF QueuesInv

LEMMA TablesFrame ==
  ASSUME TablesInv, \A w \in Worker : mem'[Table(w)] = mem[Table(w)],
         UNCHANGED wpc, mpc \in WithWorkers => mpc' \in WithWorkers,
         mpc \in Stopping => mpc' \in Stopping
  PROVE  TablesInv'
  BY DEF TablesInv

LEMMA ArraysFrame ==
  ASSUME ArraysInv, \A k \in 0 .. MaxWrites : mem'[Array(k)] = mem[Array(k)],
         UNCHANGED <<proc_entries, ppc, writes, io_unit_stat, units, nr_io_units>>,
         mpc' \in WithArray <=> mpc \in WithArray,
         mpc' = "remove_bus" => mpc = "remove_bus",
         mpc' \in NotYetMapped \union {"storage"} => mpc \in NotYetMapped \union {"storage"}
  PROVE  ArraysInv'
  BY DEF ArraysInv

LEMMA FlushFrame ==
  ASSUME FlushInv, UNCHANGED <<dpc, flush, ppc, io_unit_stat, nr_io_units>>
  PROVE  FlushInv'
  BY DEF FlushInv, InFlush

-----------------------------------------------------------------------------
(* Loading *)

LEMMA VDEV_INITInv == LifeInv /\ VDEV_INIT => LifeInv'
  <1> SUFFICES ASSUME LifeInv, VDEV_INIT PROVE LifeInv'
    OBVIOUS
  <1> USE DEF LifeInv, loadRest, procVars, counters, unitVars, memVars,
              NotYetMapped, WithBus, WithArray, WithWorkers, Complete, Ending, Stopping
  <1>1. /\ mpc = "vdev" /\ mpc' = "config" /\ Alloc(Device)
        /\ UNCHANGED <<loadRest, proc_entries, unitVars, dpc, wpc, should_stop>>
    BY DEF VDEV_INIT, Load
  <1>2. /\ mem' \in [Object -> {"none", "live", "deleted", "freed"}] /\ frees' \in [Object -> Nat]
        /\ \A o \in Object : mem'[o] = IF o \in Device THEN "live" ELSE mem[o]
        /\ FreesInv'
    <2>1. \A o \in Device : o \in Object => mem[o] # "freed"
      BY <1>1, Kinds DEF Fixed, DeviceInv, BusInv, SsdInv, AdminInv, StorageInv, InfoInv
    <2> QED
      BY <1>1, <2>1, AllocEffect
  <1>3. Types'
    BY <1>1, <1>2 DEF Types, Phases
  <1>4. Threads'
    BY <1>1 DEF Threads
  <1>5. Fixed'
    <2>1. DeviceInv'
      BY <1>1, <1>2, Kinds DEF Fixed, DeviceInv
    <2>2. BusInv'
      BY <1>1, <1>2, Kinds DEF Fixed, BusInv
    <2>3. SsdInv'
      BY <1>1, <1>2, Kinds DEF Fixed, SsdInv
    <2>4. AdminInv'
      BY <1>1, <1>2, Kinds DEF Fixed, AdminInv
    <2>7. AdminPagesInv'
      BY <1>1, <1>2, Kinds DEF Fixed, AdminPagesInv
    <2>5. StorageInv'
      BY <1>1, <1>2, Kinds DEF Fixed, StorageInv
    <2>6. InfoInv'
      BY <1>1, <1>2, Kinds DEF Fixed, InfoInv
    <2> QED
      BY <2>1, <2>2, <2>3, <2>4, <2>5, <2>6, <2>7 DEF Fixed
  <1>6. TablesInv'
    BY <1>1, <1>2, Kinds, TablesFrame
  <1>7. QueuesInv'
    BY <1>1, <1>2, Kinds, QueuesFrame DEF QueuesInv
  <1>8. ArraysInv'
    BY <1>1, <1>2, Kinds, ArraysFrame
  <1>9. FlushInv'
    BY <1>1, FlushFrame
  <1>20. PagesInv'
    BY <1>2, Kinds DEF PagesInv
  <1> QED
    BY <1>2, <1>3, <1>4, <1>5, <1>6, <1>7, <1>8, <1>9, <1>20

LEMMA ssd_initInv == LifeInv /\ ssd_init => LifeInv'
  <1> SUFFICES ASSUME LifeInv, ssd_init PROVE LifeInv'
    OBVIOUS
  <1> USE DEF LifeInv, loadRest, procVars, counters, unitVars, memVars,
              NotYetMapped, WithBus, WithArray, WithWorkers, Complete, Ending, Stopping
  <1>1. /\ mpc = "ssd" /\ mpc' = "bus" /\ Alloc(Ssd)
        /\ UNCHANGED <<loadRest, proc_entries, unitVars, dpc, wpc, should_stop>>
    BY DEF ssd_init, Load
  <1>2. /\ mem' \in [Object -> {"none", "live", "deleted", "freed"}] /\ frees' \in [Object -> Nat]
        /\ \A o \in Object : mem'[o] = IF o \in Ssd THEN "live" ELSE mem[o]
        /\ FreesInv'
    <2>1. \A o \in Ssd : o \in Object => mem[o] # "freed"
      BY <1>1, Kinds DEF Fixed, DeviceInv, BusInv, SsdInv, AdminInv, StorageInv, InfoInv
    <2> QED
      BY <1>1, <2>1, AllocEffect
  <1>3. Types'
    BY <1>1, <1>2 DEF Types, Phases
  <1>4. Threads'
    BY <1>1 DEF Threads
  <1>5. Fixed'
    <2>1. DeviceInv'
      BY <1>1, <1>2, Kinds DEF Fixed, DeviceInv
    <2>2. BusInv'
      BY <1>1, <1>2, Kinds DEF Fixed, BusInv
    <2>3. SsdInv'
      BY <1>1, <1>2, Kinds DEF Fixed, SsdInv
    <2>4. AdminInv'
      BY <1>1, <1>2, Kinds DEF Fixed, AdminInv
    <2>7. AdminPagesInv'
      BY <1>1, <1>2, Kinds DEF Fixed, AdminPagesInv
    <2>5. StorageInv'
      BY <1>1, <1>2, Kinds DEF Fixed, StorageInv
    <2>6. InfoInv'
      BY <1>1, <1>2, Kinds DEF Fixed, InfoInv
    <2> QED
      BY <2>1, <2>2, <2>3, <2>4, <2>5, <2>6, <2>7 DEF Fixed
  <1>6. TablesInv'
    BY <1>1, <1>2, Kinds, TablesFrame
  <1>7. QueuesInv'
    BY <1>1, <1>2, Kinds, QueuesFrame DEF QueuesInv
  <1>8. ArraysInv'
    BY <1>1, <1>2, Kinds, ArraysFrame
  <1>9. FlushInv'
    BY <1>1, FlushFrame
  <1>20. PagesInv'
    BY <1>2, Kinds DEF PagesInv
  <1> QED
    BY <1>2, <1>3, <1>4, <1>5, <1>6, <1>7, <1>8, <1>9, <1>20

LEMMA UnloadInv == LifeInv /\ Unload => LifeInv'
  <1> SUFFICES ASSUME LifeInv, Unload PROVE LifeInv'
    OBVIOUS
  <1> USE DEF LifeInv, loadRest, procVars, counters, unitVars, memVars,
              NotYetMapped, WithBus, WithArray, WithWorkers, Complete, Ending, Stopping
  <1>1. /\ mpc = "loaded" /\ mpc' = "reg_proc_final"
        /\ UNCHANGED <<loadRest, proc_entries, unitVars, dpc, wpc, should_stop, memVars>>
    BY DEF Unload, Load
  <1>2. /\ mem' \in [Object -> {"none", "live", "deleted", "freed"}] /\ frees' \in [Object -> Nat]
        /\ \A o \in Object : mem'[o] = mem[o]
        /\ FreesInv'
    BY <1>1 DEF FreesInv, Types
  <1>3. Types'
    BY <1>1, <1>2 DEF Types, Phases
  <1>4. Threads'
    BY <1>1 DEF Threads
  <1>5. Fixed'
    <2>1. DeviceInv'
      BY <1>1, <1>2, Kinds DEF Fixed, DeviceInv
    <2>2. BusInv'
      BY <1>1, <1>2, Kinds DEF Fixed, BusInv
    <2>3. SsdInv'
      BY <1>1, <1>2, Kinds DEF Fixed, SsdInv
    <2>4. AdminInv'
      BY <1>1, <1>2, Kinds DEF Fixed, AdminInv
    <2>7. AdminPagesInv'
      BY <1>1, <1>2, Kinds DEF Fixed, AdminPagesInv
    <2>5. StorageInv'
      BY <1>1, <1>2, Kinds DEF Fixed, StorageInv
    <2>6. InfoInv'
      BY <1>1, <1>2, Kinds DEF Fixed, InfoInv
    <2> QED
      BY <2>1, <2>2, <2>3, <2>4, <2>5, <2>6, <2>7 DEF Fixed
  <1>6. TablesInv'
    BY <1>1, <1>2, Kinds, TablesFrame
  <1>7. QueuesInv'
    BY <1>1, <1>2, Kinds, QueuesFrame DEF QueuesInv
  <1>8. ArraysInv'
    BY <1>1, <1>2, Kinds, ArraysFrame
  <1>9. FlushInv'
    BY <1>1, FlushFrame
  <1>20. PagesInv'
    BY <1>2, Kinds DEF PagesInv
  <1> QED
    BY <1>2, <1>3, <1>4, <1>5, <1>6, <1>7, <1>8, <1>9, <1>20

LEMMA NVMEV_DISPATCHER_INITInv == LifeInv /\ NVMEV_DISPATCHER_INIT => LifeInv'
  <1> SUFFICES ASSUME LifeInv, NVMEV_DISPATCHER_INIT PROVE LifeInv'
    OBVIOUS
  <1> USE DEF LifeInv, loadRest, procVars, counters, unitVars, memVars,
              NotYetMapped, WithBus, WithArray, WithWorkers, Complete, Ending, Stopping
  <1>1. /\ mpc = "dispatcher" /\ mpc' = "loaded" /\ dpc' = "top"
        /\ UNCHANGED <<loadRest, proc_entries, unitVars, wpc, should_stop, memVars>>
    BY DEF NVMEV_DISPATCHER_INIT, Load
  <1>2. /\ mem' \in [Object -> {"none", "live", "deleted", "freed"}] /\ frees' \in [Object -> Nat]
        /\ \A o \in Object : mem'[o] = mem[o]
        /\ FreesInv'
    BY <1>1 DEF FreesInv, Types
  <1>3. Types'
    BY <1>1, <1>2 DEF Types, Phases
  <1>4. Threads'
    BY <1>1 DEF Threads
  <1>5. Fixed'
    <2>1. DeviceInv'
      BY <1>1, <1>2, Kinds DEF Fixed, DeviceInv
    <2>2. BusInv'
      BY <1>1, <1>2, Kinds DEF Fixed, BusInv
    <2>3. SsdInv'
      BY <1>1, <1>2, Kinds DEF Fixed, SsdInv
    <2>4. AdminInv'
      BY <1>1, <1>2, Kinds DEF Fixed, AdminInv
    <2>7. AdminPagesInv'
      BY <1>1, <1>2, Kinds DEF Fixed, AdminPagesInv
    <2>5. StorageInv'
      BY <1>1, <1>2, Kinds DEF Fixed, StorageInv
    <2>6. InfoInv'
      BY <1>1, <1>2, Kinds DEF Fixed, InfoInv
    <2> QED
      BY <2>1, <2>2, <2>3, <2>4, <2>5, <2>6, <2>7 DEF Fixed
  <1>6. TablesInv'
    BY <1>1, <1>2, Kinds, TablesFrame
  <1>7. QueuesInv'
    BY <1>1, <1>2, Kinds, QueuesFrame DEF QueuesInv
  <1>8. ArraysInv'
    BY <1>1, <1>2, Kinds, ArraysFrame
  <1>9. FlushInv'
    BY <1>1 DEF FlushInv, InFlush
  <1>20. PagesInv'
    BY <1>2, Kinds DEF PagesInv
  <1> QED
    BY <1>2, <1>3, <1>4, <1>5, <1>6, <1>7, <1>8, <1>9, <1>20

LEMMA __load_configsInv == LifeInv /\ __load_configs => LifeInv'
  <1> SUFFICES ASSUME LifeInv, __load_configs PROVE LifeInv'
    OBVIOUS
  <1> USE DEF LifeInv, loadRest, procVars, counters, unitVars, memVars,
              NotYetMapped, WithBus, WithArray, WithWorkers, Complete, Ending, Stopping
  <1>1. /\ mpc = "config" /\ mpc' \in {"ssd", "finalize"}
        /\ nr_io_units' \in {nr_io_units, param.nr_io_units}
        /\ UNCHANGED <<loadRest, memVars, proc_entries, io_unit_stat, units, dpc, wpc, should_stop>>
    BY DEF __load_configs
  <1>2. /\ mem' \in [Object -> {"none", "live", "deleted", "freed"}] /\ frees' \in [Object -> Nat]
        /\ \A o \in Object : mem'[o] = mem[o]
        /\ FreesInv'
    BY <1>1 DEF FreesInv, Types
  <1>3. Types'
    <2>1. nr_io_units' \in Nat
      BY <1>1, Basics DEF Types
    <2>2. mpc' \in Phases
      BY <1>1 DEF Phases
    <2> QED
      BY <1>1, <1>2, <2>1, <2>2 DEF Types
  <1>4. Threads'
    BY <1>1 DEF Threads
  <1>5. Fixed'
    <2>1. DeviceInv'
      BY <1>1, <1>2, Kinds DEF Fixed, DeviceInv
    <2>2. BusInv'
      BY <1>1, <1>2, Kinds DEF Fixed, BusInv
    <2>3. SsdInv'
      BY <1>1, <1>2, Kinds DEF Fixed, SsdInv
    <2>4. AdminInv'
      BY <1>1, <1>2, Kinds DEF Fixed, AdminInv
    <2>7. AdminPagesInv'
      BY <1>1, <1>2, Kinds DEF Fixed, AdminPagesInv
    <2>5. StorageInv'
      BY <1>1, <1>2, Kinds DEF Fixed, StorageInv
    <2>6. InfoInv'
      BY <1>1, <1>2, Kinds DEF Fixed, InfoInv
    <2> QED
      BY <2>1, <2>2, <2>3, <2>4, <2>5, <2>6, <2>7 DEF Fixed
  <1>6. TablesInv'
    BY <1>1, <1>2, Kinds, TablesFrame
  <1>7. QueuesInv'
    BY <1>1, <1>2, Kinds, QueuesFrame DEF QueuesInv
  <1>8. ArraysInv'
    BY <1>1, <1>2, Kinds DEF ArraysInv
  <1>9. FlushInv'
    BY <1>1 DEF FlushInv, InFlush, Threads
  <1>20. PagesInv'
    BY <1>2, Kinds DEF PagesInv
  <1> QED
    BY <1>2, <1>3, <1>4, <1>5, <1>6, <1>7, <1>8, <1>9, <1>20

LEMMA MapBusInv ==
  ASSUME LifeInv, mpc = "bus", mpc' = "storage" , Alloc(BusMaps),
          UNCHANGED <<loadRest, proc_entries, unitVars, dpc, wpc, should_stop>>
  PROVE  LifeInv'
  <1> USE DEF LifeInv, loadRest, procVars, counters, unitVars, memVars,
              NotYetMapped, WithBus, WithArray, WithWorkers, Complete, Ending, Stopping
  <1>1. /\ mpc = "bus" /\ mpc' = "storage" /\ Alloc(BusMaps)
        /\ UNCHANGED <<loadRest, proc_entries, unitVars, dpc, wpc, should_stop>>
    OBVIOUS
  <1>2. /\ mem' \in [Object -> {"none", "live", "deleted", "freed"}] /\ frees' \in [Object -> Nat]
        /\ \A o \in Object : mem'[o] = IF o \in BusMaps THEN "live" ELSE mem[o]
        /\ FreesInv'
    <2>1. \A o \in BusMaps : o \in Object => mem[o] # "freed"
      BY <1>1, Kinds DEF Fixed, DeviceInv, BusInv, SsdInv, AdminInv, StorageInv, InfoInv
    <2> QED
      BY <1>1, <2>1, AllocEffect
  <1>3. Types'
    BY <1>1, <1>2 DEF Types, Phases
  <1>4. Threads'
    BY <1>1 DEF Threads
  <1>5. Fixed'
    <2>1. DeviceInv'
      BY <1>1, <1>2, Kinds DEF Fixed, DeviceInv
    <2>2. BusInv'
      BY <1>1, <1>2, Kinds DEF Fixed, BusInv
    <2>3. SsdInv'
      BY <1>1, <1>2, Kinds DEF Fixed, SsdInv
    <2>4. AdminInv'
      BY <1>1, <1>2, Kinds DEF Fixed, AdminInv
    <2>7. AdminPagesInv'
      BY <1>1, <1>2, Kinds DEF Fixed, AdminPagesInv
    <2>5. StorageInv'
      BY <1>1, <1>2, Kinds DEF Fixed, StorageInv
    <2>6. InfoInv'
      BY <1>1, <1>2, Kinds DEF Fixed, InfoInv
    <2> QED
      BY <2>1, <2>2, <2>3, <2>4, <2>5, <2>6, <2>7 DEF Fixed
  <1>6. TablesInv'
    BY <1>1, <1>2, Kinds, TablesFrame
  <1>7. QueuesInv'
    BY <1>1, <1>2, Kinds, QueuesFrame DEF QueuesInv
  <1>8. ArraysInv'
    BY <1>1, <1>2, Kinds, ArraysFrame
  <1>9. FlushInv'
    BY <1>1, FlushFrame
  <1>20. PagesInv'
    BY <1>2, Kinds DEF PagesInv
  <1> QED
    BY <1>2, <1>3, <1>4, <1>5, <1>6, <1>7, <1>8, <1>9, <1>20

LEMMA MapBusFailsInv ==
  ASSUME LifeInv, mpc = "bus", mpc' = "finalize",
         UNCHANGED <<loadRest, proc_entries, unitVars, dpc, wpc, should_stop, memVars>>
  PROVE  LifeInv'
  <1> USE DEF LifeInv, loadRest, procVars, counters, unitVars, memVars,
              NotYetMapped, WithBus, WithArray, WithWorkers, Complete, Ending, Stopping
  <1>1. /\ mpc = "bus" /\ mpc' = "finalize" 
        /\ UNCHANGED <<loadRest, proc_entries, unitVars, dpc, wpc, should_stop, memVars>>
    OBVIOUS
  <1>2. /\ mem' \in [Object -> {"none", "live", "deleted", "freed"}] /\ frees' \in [Object -> Nat]
        /\ \A o \in Object : mem'[o] = mem[o]
        /\ FreesInv'
    BY <1>1 DEF FreesInv, Types
  <1>3. Types'
    BY <1>1, <1>2 DEF Types, Phases
  <1>4. Threads'
    BY <1>1 DEF Threads
  <1>5. Fixed'
    <2>1. DeviceInv'
      BY <1>1, <1>2, Kinds DEF Fixed, DeviceInv
    <2>2. BusInv'
      BY <1>1, <1>2, Kinds DEF Fixed, BusInv
    <2>3. SsdInv'
      BY <1>1, <1>2, Kinds DEF Fixed, SsdInv
    <2>4. AdminInv'
      BY <1>1, <1>2, Kinds DEF Fixed, AdminInv
    <2>7. AdminPagesInv'
      BY <1>1, <1>2, Kinds DEF Fixed, AdminPagesInv
    <2>5. StorageInv'
      BY <1>1, <1>2, Kinds DEF Fixed, StorageInv
    <2>6. InfoInv'
      BY <1>1, <1>2, Kinds DEF Fixed, InfoInv
    <2> QED
      BY <2>1, <2>2, <2>3, <2>4, <2>5, <2>6, <2>7 DEF Fixed
  <1>6. TablesInv'
    BY <1>1, <1>2, Kinds, TablesFrame
  <1>7. QueuesInv'
    BY <1>1, <1>2, Kinds, QueuesFrame DEF QueuesInv
  <1>8. ArraysInv'
    BY <1>1, <1>2, Kinds, ArraysFrame
  <1>9. FlushInv'
    BY <1>1, FlushFrame
  <1>20. PagesInv'
    BY <1>2, Kinds DEF PagesInv
  <1> QED
    BY <1>2, <1>3, <1>4, <1>5, <1>6, <1>7, <1>8, <1>9, <1>20

LEMMA NVMEV_PCI_INITInv == LifeInv /\ NVMEV_PCI_INIT => LifeInv'
  BY MapBusInv, MapBusFailsInv DEF NVMEV_PCI_INIT, Load

LEMMA StorageInitInv ==
  ASSUME LifeInv, NEW os, Array(0) \in os, \A o \in os : o = Array(0) \/ o \in Storage,
         "storage" \notin MayFail => Storage \subseteq os,
         mpc = "storage", mpc' = "io_proc", Alloc(os),
         io_unit_stat' = 0, units' = [units EXCEPT ![0] = nr_io_units], proc_entries' = TRUE,
         UNCHANGED <<loadRest, nr_io_units, dpc, wpc, should_stop>>
  PROVE  LifeInv'
  <1> USE DEF LifeInv, loadRest, procVars, counters, unitVars, memVars,
              NotYetMapped, WithBus, WithArray, WithWorkers, Complete, Ending, Stopping
  <1>1. /\ mpc = "storage" /\ mpc' = "io_proc" /\ Alloc(os)
        /\ io_unit_stat' = 0 /\ units' = [units EXCEPT ![0] = nr_io_units] /\ proc_entries' = TRUE
        /\ UNCHANGED <<loadRest, nr_io_units, dpc, wpc, should_stop>>
    OBVIOUS
  <1>2. /\ mem' \in [Object -> {"none", "live", "deleted", "freed"}] /\ frees' \in [Object -> Nat]
        /\ \A o \in Object : mem'[o] = IF o \in os THEN "live" ELSE mem[o]
        /\ FreesInv'
    <2>1. \A o \in os : o \in Object => mem[o] # "freed"
      BY <1>1, Kinds, Basics DEF Fixed, StorageInv, ArraysInv
    <2> QED
      BY <1>1, <2>1, AllocEffect
  <1>10. /\ MaxWrites \in Nat /\ 0 \in 0 .. MaxWrites /\ io_unit_stat = -1 /\ writes = 0
         /\ ppc = "idle" /\ dpc \in {"none", "dead"} /\ \A w \in Worker : wpc[w] = "none"
    BY <1>1, Basics DEF ArraysInv, Threads
  <1>3. Types'
    BY <1>1, <1>2, <1>10 DEF Types, Phases
  <1>4. Threads'
    <2>1. 0 \in 0 .. param.nr_io_cpu /\ \A w \in Worker : wpc[w] # "none" <=> w < 0
      BY <1>10, Basics DEF Worker
    <2> QED
      BY <1>1, <1>10, <2>1 DEF Threads
  <1>5. Fixed'
    <2>1. DeviceInv'
      BY <1>1, <1>2, <1>10, Kinds DEF Fixed, DeviceInv
    <2>2. BusInv'
      BY <1>1, <1>2, <1>10, Kinds DEF Fixed, BusInv
    <2>3. SsdInv'
      BY <1>1, <1>2, <1>10, Kinds DEF Fixed, SsdInv
    <2>4. AdminInv'
      BY <1>1, <1>2, <1>10, Kinds DEF Fixed, AdminInv
    <2>7. AdminPagesInv'
      BY <1>1, <1>2, <1>10, Kinds DEF Fixed, AdminPagesInv
    <2>5. StorageInv'
      BY <1>1, <1>2, <1>10, Kinds DEF Fixed, StorageInv
    <2>6. InfoInv'
      BY <1>1, <1>2, <1>10, Kinds DEF Fixed, InfoInv
    <2> QED
      BY <2>1, <2>2, <2>3, <2>4, <2>5, <2>6, <2>7 DEF Fixed
  <1>6. TablesInv'
    BY <1>1, <1>2, Kinds, TablesFrame
  <1>7. QueuesInv'
    BY <1>1, <1>2, Kinds, QueuesFrame DEF QueuesInv
  <1>8. ArraysInv'
    <2>1. ASSUME NEW k \in 0 .. MaxWrites
          PROVE  mem'[Array(k)] = IF k > 0 THEN "none" ELSE "live"
      BY <1>1, <1>2, <1>10, Kinds DEF ArraysInv
    <2>2. units'[0] = nr_io_units
      BY <1>1, <1>10 DEF Types
    <2> QED
      BY <1>1, <1>10, <2>1, <2>2 DEF ArraysInv
  <1>9. FlushInv'
    BY <1>1, <1>10 DEF FlushInv, InFlush
  <1>20. PagesInv'
    BY <1>2, Kinds DEF PagesInv
  <1> QED
    BY <1>2, <1>3, <1>4, <1>5, <1>6, <1>7, <1>8, <1>9, <1>20

LEMMA NVMEV_STORAGE_INITInv == LifeInv /\ NVMEV_STORAGE_INIT => LifeInv'
  <1> SUFFICES ASSUME LifeInv, NVMEV_STORAGE_INIT PROVE LifeInv'
    OBVIOUS
  <1>1. PICK os : /\ os = {Array(0)} \/ os = {Array(0)} \union Storage
                  /\ "storage" \notin MayFail => os = {Array(0)} \union Storage
                  /\ Alloc(os)
    BY DEF NVMEV_STORAGE_INIT, Array
  <1> QED
    BY <1>1, StorageInitInv DEF NVMEV_STORAGE_INIT, Load

(* The workers are started one after the other. *)
LEMMA StartedCount ==
  ASSUME LifeInv, mpc = "io_proc"
  PROVE  /\ Cardinality(Started) \in 0 .. param.nr_io_cpu
         /\ \A w \in Worker : wpc[w] # "none" <=> w < Cardinality(Started)
  <1>1. PICK c \in 0 .. param.nr_io_cpu : \A w \in Worker : wpc[w] # "none" <=> w < c
    BY DEF LifeInv, Threads
  <1>2. c \in Nat /\ c <= MaxWorkers /\ MaxWorkers \in Nat
    BY <1>1, Basics DEF LifeInv
  <1>3. Started = 0 .. c - 1
    BY <1>1, <1>2 DEF Started, Worker
  <1>4. Cardinality(0 .. c - 1) = c
    BY <1>2, FS_Interval
  <1> QED
    BY <1>1, <1>3, <1>4

LEMMA InfoAllocInv ==
  ASSUME LifeInv, mpc = "io_proc", mpc' = mpc, Alloc(Info),
         UNCHANGED <<wpc, loadRest, proc_entries, unitVars, dpc, should_stop>>
  PROVE  LifeInv'
  <1> USE DEF LifeInv, loadRest, procVars, counters, unitVars, memVars,
              NotYetMapped, WithBus, WithArray, WithWorkers, Complete, Ending, Stopping
  <1>1. /\ mpc = "io_proc" /\ mpc' = mpc /\ Alloc(Info) /\ \A o \in Info : mem[o] # "freed"
        /\ UNCHANGED <<wpc, loadRest, proc_entries, unitVars, dpc, should_stop>>
    BY DEF Fixed, InfoInv
  <1>2. /\ mem' \in [Object -> {"none", "live", "deleted", "freed"}] /\ frees' \in [Object -> Nat]
        /\ \A o \in Object : mem'[o] = IF o \in Info THEN "live" ELSE mem[o]
        /\ FreesInv'
    <2>1. \A o \in Info : o \in Object => mem[o] # "freed"
      BY <1>1
    <2> QED
      BY <1>1, <2>1, AllocEffect
  <1>3. Types'
    BY <1>1, <1>2 DEF Types, Phases
  <1>4. Threads'
    BY <1>1 DEF Threads
  <1>5. Fixed'
    <2>1. DeviceInv'
      BY <1>1, <1>2, Kinds DEF Fixed, DeviceInv
    <2>2. BusInv'
      BY <1>1, <1>2, Kinds DEF Fixed, BusInv
    <2>3. SsdInv'
      BY <1>1, <1>2, Kinds DEF Fixed, SsdInv
    <2>4. AdminInv'
      BY <1>1, <1>2, Kinds DEF Fixed, AdminInv
    <2>7. AdminPagesInv'
      BY <1>1, <1>2, Kinds DEF Fixed, AdminPagesInv
    <2>5. StorageInv'
      BY <1>1, <1>2, Kinds DEF Fixed, StorageInv
    <2>6. InfoInv'
      BY <1>1, <1>2, Kinds DEF Fixed, InfoInv
    <2> QED
      BY <2>1, <2>2, <2>3, <2>4, <2>5, <2>6, <2>7 DEF Fixed
  <1>6. TablesInv'
    BY <1>1, <1>2, Kinds, TablesFrame
  <1>7. QueuesInv'
    BY <1>1, <1>2, Kinds, QueuesFrame DEF QueuesInv
  <1>8. ArraysInv'
    BY <1>1, <1>2, Kinds, ArraysFrame
  <1>9. FlushInv'
    BY <1>1, FlushFrame
  <1>20. PagesInv'
    BY <1>2, Kinds DEF PagesInv
  <1> QED
    BY <1>2, <1>3, <1>4, <1>5, <1>6, <1>7, <1>8, <1>9, <1>20

LEMMA StartWorkerInv ==
  ASSUME LifeInv, mpc = "io_proc", mpc' = mpc, Cardinality(Started) < param.nr_io_cpu,
         NEW c, c = Cardinality(Started), mem[<<"proc_info", 0>>] = "live",
         wpc' = [wpc EXCEPT ![c] = "top"], Alloc({Table(c)}),
         UNCHANGED <<loadRest, proc_entries, unitVars, dpc, should_stop>>
  PROVE  LifeInv'
  <1> USE DEF LifeInv, loadRest, procVars, counters, unitVars, memVars,
              NotYetMapped, WithBus, WithArray, WithWorkers, Complete, Ending, Stopping
  <1>1. /\ mpc = "io_proc" /\ mpc' = mpc /\ c \in Nat /\ c < param.nr_io_cpu /\ c \in Worker
        /\ \A w \in Worker : wpc[w] # "none" <=> w < c
        /\ wpc' = [wpc EXCEPT ![c] = "top"] /\ Alloc({Table(c)})
        /\ UNCHANGED <<loadRest, proc_entries, unitVars, dpc, should_stop>>
    BY StartedCount, Basics DEF Worker
  <1>2. /\ mem' \in [Object -> {"none", "live", "deleted", "freed"}] /\ frees' \in [Object -> Nat]
        /\ \A o \in Object : mem'[o] = IF o \in {Table(c)} THEN "live" ELSE mem[o]
        /\ FreesInv'
    <2>1. \A o \in {Table(c)} : o \in Object => mem[o] # "freed"
      BY <1>1 DEF TablesInv
    <2> QED
      BY <1>1, <2>1, AllocEffect
  <1>10. /\ wpc' \in [Worker -> {"none", "dead", "top", "copy", "scan"}]
         /\ wpc'[c] = "top" /\ \A w \in Worker : w # c => wpc'[w] = wpc[w]
         /\ wpc[c] = "none" /\ \A w \in Worker : w \in Int
    BY <1>1 DEF Types, Worker
  <1>3. Types'
    BY <1>1, <1>2, <1>10 DEF Types
  <1>4. Threads'
    <2>1. c + 1 \in 0 .. param.nr_io_cpu /\ \A w \in Worker : wpc'[w] # "none" <=> w < c + 1
      BY <1>1, <1>10, Basics
    <2> QED
      BY <1>1, <1>10, <2>1 DEF Threads
  <1>5. Fixed'
    <2>1. DeviceInv'
      BY <1>1, <1>2, Kinds DEF Fixed, DeviceInv
    <2>2. BusInv'
      BY <1>1, <1>2, Kinds DEF Fixed, BusInv
    <2>3. SsdInv'
      BY <1>1, <1>2, Kinds DEF Fixed, SsdInv
    <2>4. AdminInv'
      BY <1>1, <1>2, Kinds DEF Fixed, AdminInv
    <2>7. AdminPagesInv'
      BY <1>1, <1>2, Kinds DEF Fixed, AdminPagesInv
    <2>5. StorageInv'
      BY <1>1, <1>2, Kinds DEF Fixed, StorageInv
    <2>6. InfoInv'
      BY <1>1, <1>2, Kinds DEF Fixed, InfoInv, Info
    <2> QED
      BY <2>1, <2>2, <2>3, <2>4, <2>5, <2>6, <2>7 DEF Fixed
  <1>6. TablesInv'
    BY <1>1, <1>2, <1>10, Kinds DEF TablesInv
  <1>7. QueuesInv'
    <2>1. \A q \in Qid : mem'[Queue(q)] = mem[Queue(q)]
      BY <1>2, Kinds
    <2>2. scanned[c] = NULL /\ wpc'[c] # "copy"
      BY <1>1, <1>10 DEF QueuesInv
    <2>3. \A w \in Worker : \/ wpc'[w] = wpc[w]
                            \/ wpc'[w] # "copy" /\ scanned[w] = NULL
      BY <1>10, <2>2
    <2> QED
      BY <1>1, <2>1, <2>3, QueuesFrame2
  <1>8. ArraysInv'
    BY <1>1, <1>2, Kinds, ArraysFrame
  <1>9. FlushInv'
    BY <1>1, FlushFrame
  <1>20. PagesInv'
    BY <1>2, Kinds DEF PagesInv
  <1> QED
    BY <1>2, <1>3, <1>4, <1>5, <1>6, <1>7, <1>8, <1>9, <1>20

LEMMA WorkersStartedInv ==
  ASSUME LifeInv, mpc = "io_proc", mpc' = "dispatcher",
         NEW c, c = Cardinality(Started), c = param.nr_io_cpu, mem[<<"proc_info", 0>>] = "live",
         UNCHANGED <<memVars, wpc, loadRest, proc_entries, unitVars, dpc, should_stop>>
  PROVE  LifeInv'
  <1> USE DEF LifeInv, loadRest, procVars, counters, unitVars, memVars,
              NotYetMapped, WithBus, WithArray, WithWorkers, Complete, Ending, Stopping
  <1>1. /\ mpc = "io_proc" /\ mpc' = "dispatcher" /\ c = param.nr_io_cpu
        /\ \A w \in Worker : wpc[w] # "none" <=> w < c
        /\ UNCHANGED <<memVars, wpc, loadRest, proc_entries, unitVars, dpc, should_stop>>
    BY StartedCount
  <1>2. /\ mem' \in [Object -> {"none", "live", "deleted", "freed"}] /\ frees' \in [Object -> Nat]
        /\ \A o \in Object : mem'[o] = mem[o]
        /\ FreesInv'
    BY <1>1 DEF FreesInv, Types
  <1>3. Types'
    BY <1>1, <1>2 DEF Types, Phases
  <1>4. Threads'
    BY <1>1 DEF Threads
  <1>5. Fixed'
    <2>1. DeviceInv'
      BY <1>1, <1>2, Kinds DEF Fixed, DeviceInv
    <2>2. BusInv'
      BY <1>1, <1>2, Kinds DEF Fixed, BusInv
    <2>3. SsdInv'
      BY <1>1, <1>2, Kinds DEF Fixed, SsdInv
    <2>4. AdminInv'
      BY <1>1, <1>2, Kinds DEF Fixed, AdminInv
    <2>7. AdminPagesInv'
      BY <1>1, <1>2, Kinds DEF Fixed, AdminPagesInv
    <2>5. StorageInv'
      BY <1>1, <1>2, Kinds DEF Fixed, StorageInv
    <2>6. InfoInv'
      BY <1>1, <1>2, Kinds DEF Fixed, InfoInv, Info
    <2> QED
      BY <2>1, <2>2, <2>3, <2>4, <2>5, <2>6, <2>7 DEF Fixed
  <1>6. TablesInv'
    BY <1>1, <1>2, Kinds, TablesFrame
  <1>7. QueuesInv'
    BY <1>1, <1>2, Kinds, QueuesFrame DEF QueuesInv
  <1>8. ArraysInv'
    BY <1>1, <1>2, Kinds, ArraysFrame
  <1>9. FlushInv'
    BY <1>1, FlushFrame
  <1>20. PagesInv'
    BY <1>2, Kinds DEF PagesInv
  <1> QED
    BY <1>2, <1>3, <1>4, <1>5, <1>6, <1>7, <1>8, <1>9, <1>20

LEMMA NVMEV_IO_PROC_INITInv == LifeInv /\ NVMEV_IO_PROC_INIT => LifeInv'
  BY InfoAllocInv, StartWorkerInv, WorkersStartedInv DEF NVMEV_IO_PROC_INIT, Table

-----------------------------------------------------------------------------
(* Unloading *)

(* A set of workers that is not empty has a least. *)
LEMMA NextToStopIn == ToStop # {} => NextToStop \in ToStop
  <1> SUFFICES ASSUME ToStop # {} PROVE NextToStop \in ToStop
    OBVIOUS
  <1> DEFINE Less == OpToRel(<, Nat)
  <1>1. ToStop \subseteq Nat
    BY LoadAssumption DEF ToStop, Worker
  <1>2. IsWellFoundedOn(Less, Nat)
    BY NatLessThanWellFounded
  <1>3. PICK w \in ToStop : \A v \in ToStop : ~(<<v, w>> \in Less)
    <2> HIDE DEF Less
    <2> QED
      BY <1>1, <1>2, WFMin
  <1>4. \A v \in ToStop : ~(v < w)
    BY <1>1, <1>3 DEF OpToRel
  <1>5. \A v \in ToStop : w <= v
    <2> HIDE DEF Less
    <2> QED
      BY <1>1, <1>3, <1>4
  <1> QED
    BY <1>3, <1>5 DEF NextToStop

LEMMA StopDispatcherInv ==
  ASSUME LifeInv, mpc = "reg_proc_final",
         mpc' = mpc,
         should_stop' = should_stop \union {Dispatcher},
         UNCHANGED <<loadRest, memVars, proc_entries, unitVars, dpc, wpc>>
  PROVE  LifeInv'
  <1> USE DEF LifeInv, loadRest, procVars, counters, unitVars, memVars,
              NotYetMapped, WithBus, WithArray, WithWorkers, Complete, Ending, Stopping
  <1>1. /\ mpc = "reg_proc_final"
        /\ mpc' = mpc
        /\ should_stop' = should_stop \union {Dispatcher}
        /\ UNCHANGED <<loadRest, memVars, proc_entries, unitVars, dpc, wpc>>
    OBVIOUS
  <1>2. /\ mem' \in [Object -> {"none", "live", "deleted", "freed"}] /\ frees' \in [Object -> Nat]
        /\ \A o \in Object : mem'[o] = mem[o]
        /\ FreesInv'
    BY <1>1 DEF FreesInv, Types
  <1>3. Types'
    BY <1>1, <1>2 DEF Types, Phases
  <1>4. Threads'
    BY <1>1 DEF Threads
  <1>5. Fixed'
    <2>1. DeviceInv'
      BY <1>1, <1>2, Kinds DEF Fixed, DeviceInv
    <2>2. BusInv'
      BY <1>1, <1>2, Kinds DEF Fixed, BusInv
    <2>3. SsdInv'
      BY <1>1, <1>2, Kinds DEF Fixed, SsdInv
    <2>4. AdminInv'
      BY <1>1, <1>2, Kinds DEF Fixed, AdminInv
    <2>7. AdminPagesInv'
      BY <1>1, <1>2, Kinds DEF Fixed, AdminPagesInv
    <2>5. StorageInv'
      BY <1>1, <1>2, Kinds DEF Fixed, StorageInv
    <2>6. InfoInv'
      BY <1>1, <1>2, Kinds DEF Fixed, InfoInv
    <2> QED
      BY <2>1, <2>2, <2>3, <2>4, <2>5, <2>6, <2>7 DEF Fixed
  <1>6. TablesInv'
    BY <1>1, <1>2, Kinds, TablesFrame
  <1>7. QueuesInv'
    BY <1>1, <1>2, Kinds, QueuesFrame DEF QueuesInv
  <1>8. ArraysInv'
    BY <1>1, <1>2, Kinds, ArraysFrame
  <1>9. FlushInv'
    BY <1>1, FlushFrame
  <1>20. PagesInv'
    BY <1>2, Kinds DEF PagesInv
  <1> QED
    BY <1>2, <1>3, <1>4, <1>5, <1>6, <1>7, <1>8, <1>9, <1>20

LEMMA DispatcherStoppedInv ==
  ASSUME LifeInv, mpc = "reg_proc_final",
         mpc' = "io_proc_final",
         dpc = "dead",
         UNCHANGED <<loadRest, memVars, proc_entries, unitVars, dpc, wpc, should_stop>>
  PROVE  LifeInv'
  <1> USE DEF LifeInv, loadRest, procVars, counters, unitVars, memVars,
              NotYetMapped, WithBus, WithArray, WithWorkers, Complete, Ending, Stopping
  <1>1. /\ mpc = "reg_proc_final"
        /\ mpc' = "io_proc_final"
        /\ dpc = "dead"
        /\ UNCHANGED <<loadRest, memVars, proc_entries, unitVars, dpc, wpc, should_stop>>
    OBVIOUS
  <1>2. /\ mem' \in [Object -> {"none", "live", "deleted", "freed"}] /\ frees' \in [Object -> Nat]
        /\ \A o \in Object : mem'[o] = mem[o]
        /\ FreesInv'
    BY <1>1 DEF FreesInv, Types
  <1>3. Types'
    BY <1>1, <1>2 DEF Types, Phases
  <1>4. Threads'
    BY <1>1 DEF Threads
  <1>5. Fixed'
    <2>1. DeviceInv'
      BY <1>1, <1>2, Kinds DEF Fixed, DeviceInv
    <2>2. BusInv'
      BY <1>1, <1>2, Kinds DEF Fixed, BusInv
    <2>3. SsdInv'
      BY <1>1, <1>2, Kinds DEF Fixed, SsdInv
    <2>4. AdminInv'
      BY <1>1, <1>2, Kinds DEF Fixed, AdminInv
    <2>7. AdminPagesInv'
      BY <1>1, <1>2, Kinds DEF Fixed, AdminPagesInv
    <2>5. StorageInv'
      BY <1>1, <1>2, Kinds DEF Fixed, StorageInv
    <2>6. InfoInv'
      BY <1>1, <1>2, Kinds DEF Fixed, InfoInv
    <2> QED
      BY <2>1, <2>2, <2>3, <2>4, <2>5, <2>6, <2>7 DEF Fixed
  <1>6. TablesInv'
    BY <1>1, <1>2, Kinds, TablesFrame
  <1>7. QueuesInv'
    BY <1>1, <1>2, Kinds, QueuesFrame DEF QueuesInv
  <1>8. ArraysInv'
    BY <1>1, <1>2, Kinds, ArraysFrame
  <1>9. FlushInv'
    BY <1>1, FlushFrame
  <1>20. PagesInv'
    BY <1>2, Kinds DEF PagesInv
  <1> QED
    BY <1>2, <1>3, <1>4, <1>5, <1>6, <1>7, <1>8, <1>9, <1>20

LEMMA NVMEV_REG_PROC_FINALInv == LifeInv /\ NVMEV_REG_PROC_FINAL => LifeInv'
  BY StopDispatcherInv, DispatcherStoppedInv DEF NVMEV_REG_PROC_FINAL, Tell, Stopped

LEMMA StopWorkerInv ==
  ASSUME LifeInv, mpc = "io_proc_final",
         mpc' = mpc,
         NextToStop \in Worker,
         should_stop' = should_stop \union {NextToStop},
         UNCHANGED <<loadRest, memVars, proc_entries, unitVars, dpc, wpc>>
  PROVE  LifeInv'
  <1> USE DEF LifeInv, loadRest, procVars, counters, unitVars, memVars,
              NotYetMapped, WithBus, WithArray, WithWorkers, Complete, Ending, Stopping
  <1>1. /\ mpc = "io_proc_final"
        /\ mpc' = mpc
        /\ NextToStop \in Worker
        /\ should_stop' = should_stop \union {NextToStop}
        /\ UNCHANGED <<loadRest, memVars, proc_entries, unitVars, dpc, wpc>>
    OBVIOUS
  <1>2. /\ mem' \in [Object -> {"none", "live", "deleted", "freed"}] /\ frees' \in [Object -> Nat]
        /\ \A o \in Object : mem'[o] = mem[o]
        /\ FreesInv'
    BY <1>1 DEF FreesInv, Types
  <1>3. Types'
    BY <1>1, <1>2 DEF Types, Phases
  <1>4. Threads'
    BY <1>1 DEF Threads
  <1>5. Fixed'
    <2>1. DeviceInv'
      BY <1>1, <1>2, Kinds DEF Fixed, DeviceInv
    <2>2. BusInv'
      BY <1>1, <1>2, Kinds DEF Fixed, BusInv
    <2>3. SsdInv'
      BY <1>1, <1>2, Kinds DEF Fixed, SsdInv
    <2>4. AdminInv'
      BY <1>1, <1>2, Kinds DEF Fixed, AdminInv
    <2>7. AdminPagesInv'
      BY <1>1, <1>2, Kinds DEF Fixed, AdminPagesInv
    <2>5. StorageInv'
      BY <1>1, <1>2, Kinds DEF Fixed, StorageInv
    <2>6. InfoInv'
      BY <1>1, <1>2, Kinds DEF Fixed, InfoInv
    <2> QED
      BY <2>1, <2>2, <2>3, <2>4, <2>5, <2>6, <2>7 DEF Fixed
  <1>6. TablesInv'
    BY <1>1, <1>2, Kinds, TablesFrame
  <1>7. QueuesInv'
    BY <1>1, <1>2, Kinds, QueuesFrame DEF QueuesInv
  <1>8. ArraysInv'
    BY <1>1, <1>2, Kinds, ArraysFrame
  <1>9. FlushInv'
    BY <1>1, FlushFrame
  <1>20. PagesInv'
    BY <1>2, Kinds DEF PagesInv
  <1> QED
    BY <1>2, <1>3, <1>4, <1>5, <1>6, <1>7, <1>8, <1>9, <1>20

LEMMA WorkerStoppedInv ==
  ASSUME LifeInv, NEW w0, mpc = "io_proc_final",
         mpc' = mpc,
         w0 \in Worker,
         wpc[w0] = "dead",
         mem[Table(w0)] = "live",
         Free({Table(w0)}),
         UNCHANGED <<loadRest, proc_entries, unitVars, dpc, wpc, should_stop>>
  PROVE  LifeInv'
  <1> USE DEF LifeInv, loadRest, procVars, counters, unitVars, memVars,
              NotYetMapped, WithBus, WithArray, WithWorkers, Complete, Ending, Stopping
  <1>1. /\ mpc = "io_proc_final"
        /\ mpc' = mpc
        /\ w0 \in Worker
        /\ wpc[w0] = "dead"
        /\ mem[Table(w0)] = "live"
        /\ Free({Table(w0)})
        /\ UNCHANGED <<loadRest, proc_entries, unitVars, dpc, wpc, should_stop>>
    OBVIOUS
  <1>2. /\ mem' \in [Object -> {"none", "live", "deleted", "freed"}] /\ frees' \in [Object -> Nat]
        /\ \A o \in Object : mem'[o] = IF o \in {Table(w0)} /\ mem[o] = "live" THEN "freed" ELSE mem[o]
        /\ FreesInv'
    <2>1. \A o \in {Table(w0)} : o \in Object => mem[o] # "freed"
      BY <1>1
    <2> QED
      BY <1>1, <2>1, FreeEffect
  <1>3. Types'
    BY <1>1, <1>2 DEF Types, Phases
  <1>4. Threads'
    BY <1>1 DEF Threads
  <1>5. Fixed'
    <2>1. DeviceInv'
      BY <1>1, <1>2, Kinds DEF Fixed, DeviceInv
    <2>2. BusInv'
      BY <1>1, <1>2, Kinds DEF Fixed, BusInv
    <2>3. SsdInv'
      BY <1>1, <1>2, Kinds DEF Fixed, SsdInv
    <2>4. AdminInv'
      BY <1>1, <1>2, Kinds DEF Fixed, AdminInv
    <2>7. AdminPagesInv'
      BY <1>1, <1>2, Kinds DEF Fixed, AdminPagesInv
    <2>5. StorageInv'
      BY <1>1, <1>2, Kinds DEF Fixed, StorageInv
    <2>6. InfoInv'
      BY <1>1, <1>2, Kinds DEF Fixed, InfoInv
    <2> QED
      BY <2>1, <2>2, <2>3, <2>4, <2>5, <2>6, <2>7 DEF Fixed
  <1>6. TablesInv'
    BY <1>1, <1>2, Kinds DEF TablesInv
  <1>7. QueuesInv'
    BY <1>1, <1>2, Kinds, QueuesFrame DEF QueuesInv
  <1>8. ArraysInv'
    BY <1>1, <1>2, Kinds, ArraysFrame
  <1>9. FlushInv'
    BY <1>1, FlushFrame
  <1>20. PagesInv'
    BY <1>2, Kinds DEF PagesInv
  <1> QED
    BY <1>2, <1>3, <1>4, <1>5, <1>6, <1>7, <1>8, <1>9, <1>20

LEMMA WorkersStoppedInv ==
  ASSUME LifeInv, mpc = "io_proc_final",
         mpc' = "storage_final",
         ToStop = {},
         Free(Info),
         UNCHANGED <<loadRest, proc_entries, unitVars, dpc, wpc, should_stop>>
  PROVE  LifeInv'
  <1> USE DEF LifeInv, loadRest, procVars, counters, unitVars, memVars,
              NotYetMapped, WithBus, WithArray, WithWorkers, Complete, Ending, Stopping
  <1>1. /\ mpc = "io_proc_final"
        /\ mpc' = "storage_final"
        /\ ToStop = {}
        /\ Free(Info)
        /\ UNCHANGED <<loadRest, proc_entries, unitVars, dpc, wpc, should_stop>>
    OBVIOUS
  <1>2. /\ mem' \in [Object -> {"none", "live", "deleted", "freed"}] /\ frees' \in [Object -> Nat]
        /\ \A o \in Object : mem'[o] = IF o \in Info /\ mem[o] = "live" THEN "freed" ELSE mem[o]
        /\ FreesInv'
    <2>1. \A o \in Info : o \in Object => mem[o] # "freed"
      BY <1>1 DEF Fixed, InfoInv
    <2> QED
      BY <1>1, <2>1, FreeEffect
  <1>10. \A w \in Worker : \/ wpc[w] = "none" /\ mem[Table(w)] = "none"
                           \/ wpc[w] = "dead" /\ mem[Table(w)] = "freed"
    BY <1>1 DEF TablesInv, ToStop, Table
  <1>3. Types'
    BY <1>1, <1>2 DEF Types, Phases
  <1>4. Threads'
    BY <1>1, <1>10 DEF Threads
  <1>5. Fixed'
    <2>1. DeviceInv'
      BY <1>1, <1>2, Kinds DEF Fixed, DeviceInv
    <2>2. BusInv'
      BY <1>1, <1>2, Kinds DEF Fixed, BusInv
    <2>3. SsdInv'
      BY <1>1, <1>2, Kinds DEF Fixed, SsdInv
    <2>4. AdminInv'
      BY <1>1, <1>2, Kinds DEF Fixed, AdminInv
    <2>7. AdminPagesInv'
      BY <1>1, <1>2, Kinds DEF Fixed, AdminPagesInv
    <2>5. StorageInv'
      BY <1>1, <1>2, Kinds DEF Fixed, StorageInv
    <2>6. InfoInv'
      BY <1>1, <1>2, Kinds DEF Fixed, InfoInv
    <2> QED
      BY <2>1, <2>2, <2>3, <2>4, <2>5, <2>6, <2>7 DEF Fixed
  <1>6. TablesInv'
    BY <1>2, <1>10, <1>1, Kinds DEF TablesInv
  <1>7. QueuesInv'
    BY <1>1, <1>2, Kinds, QueuesFrame DEF QueuesInv
  <1>8. ArraysInv'
    BY <1>1, <1>2, Kinds, ArraysFrame
  <1>9. FlushInv'
    BY <1>1, FlushFrame
  <1>20. PagesInv'
    BY <1>2, Kinds DEF PagesInv
  <1> QED
    BY <1>2, <1>3, <1>4, <1>5, <1>6, <1>7, <1>8, <1>9, <1>20

LEMMA NVMEV_IO_PROC_FINALInv == LifeInv /\ NVMEV_IO_PROC_FINAL => LifeInv'
  <1>1. NextToStop \in ToStop => NextToStop \in Worker /\ mem[Table(NextToStop)] = "live"
    BY DEF ToStop, Table
  <1>2. NextToStop \in Worker => NextToStop # Dispatcher
    BY LoadAssumption DEF Worker, Dispatcher
  <1> QED
    BY <1>1, <1>2, NextToStopIn, StopWorkerInv, WorkerStoppedInv, WorkersStoppedInv
    DEF NVMEV_IO_PROC_FINAL, Tell, Stopped, Table

LEMMA RemoveFilesInv ==
  ASSUME LifeInv, mpc = "storage_final",
         mpc' = mpc,
         proc_entries' = FALSE,
         UNCHANGED <<loadRest, memVars, unitVars, dpc, wpc, should_stop>>
  PROVE  LifeInv'
  <1> USE DEF LifeInv, loadRest, procVars, counters, unitVars, memVars,
              NotYetMapped, WithBus, WithArray, WithWorkers, Complete, Ending, Stopping
  <1>1. /\ mpc = "storage_final"
        /\ mpc' = mpc
        /\ proc_entries' = FALSE
        /\ UNCHANGED <<loadRest, memVars, unitVars, dpc, wpc, should_stop>>
    OBVIOUS
  <1>2. /\ mem' \in [Object -> {"none", "live", "deleted", "freed"}] /\ frees' \in [Object -> Nat]
        /\ \A o \in Object : mem'[o] = mem[o]
        /\ FreesInv'
    BY <1>1 DEF FreesInv, Types
  <1>3. Types'
    BY <1>1, <1>2 DEF Types, Phases
  <1>4. Threads'
    BY <1>1 DEF Threads
  <1>5. Fixed'
    <2>1. DeviceInv'
      BY <1>1, <1>2, Kinds DEF Fixed, DeviceInv
    <2>2. BusInv'
      BY <1>1, <1>2, Kinds DEF Fixed, BusInv
    <2>3. SsdInv'
      BY <1>1, <1>2, Kinds DEF Fixed, SsdInv
    <2>4. AdminInv'
      BY <1>1, <1>2, Kinds DEF Fixed, AdminInv
    <2>7. AdminPagesInv'
      BY <1>1, <1>2, Kinds DEF Fixed, AdminPagesInv
    <2>5. StorageInv'
      BY <1>1, <1>2, Kinds DEF Fixed, StorageInv
    <2>6. InfoInv'
      BY <1>1, <1>2, Kinds DEF Fixed, InfoInv
    <2> QED
      BY <2>1, <2>2, <2>3, <2>4, <2>5, <2>6, <2>7 DEF Fixed
  <1>6. TablesInv'
    BY <1>1, <1>2, Kinds, TablesFrame
  <1>7. QueuesInv'
    BY <1>1, <1>2, Kinds, QueuesFrame DEF QueuesInv
  <1>8. ArraysInv'
    BY <1>1, <1>2, Kinds DEF ArraysInv
  <1>9. FlushInv'
    BY <1>1, FlushFrame
  <1>20. PagesInv'
    BY <1>2, Kinds DEF PagesInv
  <1> QED
    BY <1>2, <1>3, <1>4, <1>5, <1>6, <1>7, <1>8, <1>9, <1>20

LEMMA UnmapStorageInv ==
  ASSUME LifeInv, mpc = "storage_final",
         mpc' = "remove_bus",
         ~proc_entries /\ ppc = "idle",
         Free(Storage \union {Array(io_unit_stat)}),
         UNCHANGED <<loadRest, proc_entries, unitVars, dpc, wpc, should_stop>>
  PROVE  LifeInv'
  <1> USE DEF LifeInv, loadRest, procVars, counters, unitVars, memVars,
              NotYetMapped, WithBus, WithArray, WithWorkers, Complete, Ending, Stopping
  <1>1. /\ mpc = "storage_final"
        /\ mpc' = "remove_bus"
        /\ ~proc_entries /\ ppc = "idle"
        /\ Free(Storage \union {Array(io_unit_stat)})
        /\ UNCHANGED <<loadRest, proc_entries, unitVars, dpc, wpc, should_stop>>
    OBVIOUS
  <1>2. /\ mem' \in [Object -> {"none", "live", "deleted", "freed"}] /\ frees' \in [Object -> Nat]
        /\ \A o \in Object :
             mem'[o] = IF o \in Storage \union {Array(io_unit_stat)} /\ mem[o] = "live" THEN "freed"
                       ELSE mem[o]
        /\ FreesInv'
    <2>1. \A o \in Storage \union {Array(io_unit_stat)} : o \in Object => mem[o] # "freed"
      <3>1. \A o \in Storage : mem[o] # "freed"
        BY <1>1 DEF Fixed, StorageInv
      <3>2. Array(io_unit_stat) \in Object => mem[Array(io_unit_stat)] # "freed"
        <4>1. io_unit_stat \in 0 .. MaxWrites
          BY <1>1, Basics DEF ArraysInv, Types
        <4> QED
          BY <1>1, <4>1 DEF ArraysInv
      <3> QED
        BY <3>1, <3>2
    <2> QED
      BY <1>1, <2>1, FreeEffect
  <1>3. Types'
    BY <1>1, <1>2 DEF Types, Phases
  <1>4. Threads'
    BY <1>1 DEF Threads
  <1>5. Fixed'
    <2>1. DeviceInv'
      BY <1>1, <1>2, Kinds DEF Fixed, DeviceInv
    <2>2. BusInv'
      BY <1>1, <1>2, Kinds DEF Fixed, BusInv
    <2>3. SsdInv'
      BY <1>1, <1>2, Kinds DEF Fixed, SsdInv
    <2>4. AdminInv'
      BY <1>1, <1>2, Kinds DEF Fixed, AdminInv
    <2>7. AdminPagesInv'
      BY <1>1, <1>2, Kinds DEF Fixed, AdminPagesInv
    <2>5. StorageInv'
      BY <1>1, <1>2, Kinds DEF Fixed, StorageInv
    <2>6. InfoInv'
      BY <1>1, <1>2, Kinds DEF Fixed, InfoInv
    <2> QED
      BY <2>1, <2>2, <2>3, <2>4, <2>5, <2>6, <2>7 DEF Fixed
  <1>6. TablesInv'
    BY <1>1, <1>2, Kinds, TablesFrame
  <1>7. QueuesInv'
    BY <1>1, <1>2, Kinds, QueuesFrame DEF QueuesInv
  <1>8. ArraysInv'
    <2>1. ASSUME NEW k \in 0 .. MaxWrites
          PROVE  mem'[Array(k)] = IF k > io_unit_stat THEN "none" ELSE "freed"
      BY <1>1, <1>2, Kinds, Basics DEF ArraysInv, Types
    <2> QED
      BY <1>1, <2>1 DEF ArraysInv
  <1>9. FlushInv'
    BY <1>1, FlushFrame
  <1>20. PagesInv'
    BY <1>2, Kinds DEF PagesInv
  <1> QED
    BY <1>2, <1>3, <1>4, <1>5, <1>6, <1>7, <1>8, <1>9, <1>20

LEMMA NVMEV_STORAGE_FINALInv == LifeInv /\ NVMEV_STORAGE_FINAL => LifeInv'
  BY RemoveFilesInv, UnmapStorageInv DEF NVMEV_STORAGE_FINAL, Array

LEMMA NVMeV_exitInv == LifeInv /\ NVMeV_exit => LifeInv'
  <1> SUFFICES ASSUME LifeInv, NVMeV_exit PROVE LifeInv'
    OBVIOUS
  <1> USE DEF LifeInv, loadRest, procVars, counters, unitVars, memVars,
              NotYetMapped, WithBus, WithArray, WithWorkers, Complete, Ending, Stopping
  <1>1. /\ mpc = "remove_bus" /\ mpc' = "finalize" /\ Free({Queue(q) : q \in 1 .. nr_sq - 1})
        /\ UNCHANGED <<loadRest, proc_entries, unitVars, dpc, wpc, should_stop>>
    BY DEF NVMeV_exit, Load, Queue
  <1>2. /\ mem' \in [Object -> {"none", "live", "deleted", "freed"}] /\ frees' \in [Object -> Nat]
        /\ \A o \in Object :
             mem'[o] = IF o \in {Queue(q) : q \in 1 .. nr_sq - 1} /\ mem[o] = "live" THEN "freed"
                       ELSE mem[o]
        /\ FreesInv'
    <2>1. \A o \in {Queue(q) : q \in 1 .. nr_sq - 1} : o \in Object => mem[o] # "freed"
      <3>1. \A q \in 1 .. nr_sq - 1 : q \in Qid
        BY Basics DEF Types, Qid
      <3> QED
        BY <1>1, <3>1 DEF QueuesInv
    <2> QED
      BY <1>1, <2>1, FreeEffect
  <1>3. Types'
    BY <1>1, <1>2 DEF Types, Phases
  <1>4. Threads'
    BY <1>1 DEF Threads
  <1>5. Fixed'
    <2>1. DeviceInv'
      BY <1>1, <1>2, Kinds DEF Fixed, DeviceInv
    <2>2. BusInv'
      BY <1>1, <1>2, Kinds DEF Fixed, BusInv
    <2>3. SsdInv'
      BY <1>1, <1>2, Kinds DEF Fixed, SsdInv
    <2>4. AdminInv'
      BY <1>1, <1>2, Kinds DEF Fixed, AdminInv
    <2>7. AdminPagesInv'
      BY <1>1, <1>2, Kinds DEF Fixed, AdminPagesInv
    <2>5. StorageInv'
      BY <1>1, <1>2, Kinds DEF Fixed, StorageInv
    <2>6. InfoInv'
      BY <1>1, <1>2, Kinds DEF Fixed, InfoInv
    <2> QED
      BY <2>1, <2>2, <2>3, <2>4, <2>5, <2>6, <2>7 DEF Fixed
  <1>6. TablesInv'
    BY <1>1, <1>2, Kinds, TablesFrame
  <1>7. QueuesInv'
    <2>1. nr_sq \in Nat /\ NR_MAX_IO_QUEUE \in Nat
      BY Basics DEF Types
    <2>3. \A w \in Worker : wpc[w] \in {"none", "dead"}
      BY <1>1 DEF Threads
    <2>4. \A w \in Worker : scanned[w] = NULL
      BY <2>3 DEF QueuesInv
    <2>5. ppc # "stat" /\ stat_sq = NULL
      BY <1>1 DEF ArraysInv, QueuesInv
    <2>6. UNCHANGED <<nr_sq, work, scanned, wpc, ppc, stat_sq>> /\ mpc' = "finalize"
      BY <1>1
    <2>2. ASSUME NEW q \in Qid
          PROVE  /\ q > nr_sq => mem'[Queue(q)] = "none"
                 /\ mem'[Queue(q)] = "live" => q = nr_sq
                 /\ q = nr_sq => mem'[Queue(q)] # "freed"
      <3>1. q < nr_sq => Queue(q) \in {Queue(p) : p \in 1 .. nr_sq - 1}
        BY <2>1 DEF Qid
      <3>2. q > nr_sq => mem[Queue(q)] = "none"
        BY DEF QueuesInv
      <3>3. q < nr_sq \/ q = nr_sq \/ q > nr_sq
        BY <2>1 DEF Qid
      <3>4. q = nr_sq => Queue(q) \notin {Queue(p) : p \in 1 .. nr_sq - 1}
        BY <2>1, Kinds DEF Qid
      <3>5. mem[Queue(q)] # "freed"
        BY <1>1 DEF QueuesInv
      <3> QED
        BY <1>2, <3>1, <3>2, <3>3, <3>4, <3>5, Kinds
    <2> QED
      BY <2>2, <2>3, <2>4, <2>5, <2>6 DEF QueuesInv
  <1>8. ArraysInv'
    BY <1>1, <1>2, Kinds, ArraysFrame
  <1>9. FlushInv'
    BY <1>1, FlushFrame
  <1>20. PagesInv'
    <2>1. ASSUME NEW q \in Qid
          PROVE  mem'[Pages(q)] = IF mem'[Queue(q)] = "freed" THEN "live" ELSE mem'[Queue(q)]
      <3>1. mem'[Pages(q)] = mem[Pages(q)] /\ mem[Pages(q)] = mem[Queue(q)]
        BY <1>1, <1>2, Kinds DEF PagesInv, QueuesInv
      <3>2. mem'[Queue(q)] \in {mem[Queue(q)], "freed"}
        BY <1>2, Kinds
      <3>3. mem'[Queue(q)] = "freed" => mem[Queue(q)] = "live"
        BY <1>1, <1>2, Kinds DEF QueuesInv
      <3> QED
        BY <3>1, <3>2, <3>3
    <2> QED
      BY <2>1 DEF PagesInv
  <1> QED
    BY <1>2, <1>3, <1>4, <1>5, <1>6, <1>7, <1>8, <1>9, <1>20

LEMMA VDEV_FINALIZEInv == LifeInv /\ VDEV_FINALIZE => LifeInv'
  <1> SUFFICES ASSUME LifeInv, VDEV_FINALIZE PROVE LifeInv'
    OBVIOUS
  <1>0. PICK os : os = Device \union BusMaps \union AdminQ \union {Array(io_unit_stat)}
    OBVIOUS
  <1> USE DEF LifeInv, loadRest, procVars, counters, unitVars, memVars,
              NotYetMapped, WithBus, WithArray, WithWorkers, Complete, Ending, Stopping
  <1>1. /\ mpc = "finalize" /\ mpc' = "gone" /\ Free(os)
        /\ UNCHANGED <<loadRest, proc_entries, unitVars, dpc, wpc, should_stop>>
        /\ os = Device \union BusMaps \union AdminQ \union {Array(io_unit_stat)}
    BY <1>0 DEF VDEV_FINALIZE, Load, Array
  <1>2. /\ mem' \in [Object -> {"none", "live", "deleted", "freed"}] /\ frees' \in [Object -> Nat]
        /\ \A o \in Object : mem'[o] = IF o \in os /\ mem[o] = "live" THEN "freed" ELSE mem[o]
        /\ FreesInv'
    <2>1. /\ mem' = [o \in Object |-> IF o \in os /\ mem[o] = "live" THEN "freed" ELSE mem[o]]
          /\ frees' = [o \in Object |-> IF o \in os /\ mem[o] \in {"live", "freed"} THEN frees[o] + 1
                                        ELSE frees[o]]
          /\ mem \in [Object -> {"none", "live", "deleted", "freed"}] /\ frees \in [Object -> Nat]
      BY <1>1 DEF Free, Types
    <2>2. \A o \in Object : mem'[o] = IF o \in os /\ mem[o] = "live" THEN "freed" ELSE mem[o]
      BY <2>1
    <2>3. mem' \in [Object -> {"none", "live", "deleted", "freed"}] /\ frees' \in [Object -> Nat]
      BY <2>1
    <2>4. ASSUME NEW o \in Object
          PROVE  frees'[o] = IF mem'[o] # "freed" THEN 0
                             ELSE IF o = Array(io_unit_stat) THEN 2 ELSE 1
      <3>1. frees[o] = IF mem[o] # "freed" THEN 0 ELSE 1
        BY <1>1 DEF FreesInv
      <3>2. frees'[o] = IF o \in os /\ mem[o] \in {"live", "freed"} THEN frees[o] + 1 ELSE frees[o]
        BY <2>1
      <3>3. o \in Device \union BusMaps \union AdminQ => o # Array(io_unit_stat) /\ mem[o] # "freed"
        BY <1>1, Kinds DEF Fixed, DeviceInv, BusInv, AdminInv
      <3>4. o = Array(io_unit_stat) => mem[o] # "live"
        <4>1. CASE io_unit_stat = -1
          BY <4>1 DEF Array, Object, Arrays, Queues, QueuePages, Tables, Device, BusMaps, Ssd, AdminQ,
                    AdminPages, Storage, Info
        <4>2. CASE io_unit_stat \in 0 .. MaxWrites
          BY <1>1, <4>2 DEF ArraysInv
        <4> QED
          BY <4>1, <4>2, Basics DEF Types
      <3> QED
        BY <1>1, <2>2, <3>1, <3>2, <3>3, <3>4
    <2> QED
      BY <1>1, <2>2, <2>3, <2>4 DEF FreesInv
  <1>10. ASSUME NEW k \in 0 .. MaxWrites
         PROVE  mem'[Array(k)] = mem[Array(k)]
    <2>1. mem[Array(k)] # "live"
      BY <1>1 DEF ArraysInv
    <2> QED
      BY <1>2, <2>1, Kinds
  <1>3. Types'
    BY <1>1, <1>2 DEF Types, Phases
  <1>4. Threads'
    BY <1>1 DEF Threads
  <1>5. Fixed'
    <2>1. DeviceInv'
      BY <1>1, <1>2, Kinds DEF Fixed, DeviceInv
    <2>2. BusInv'
      BY <1>1, <1>2, Kinds DEF Fixed, BusInv
    <2>3. SsdInv'
      BY <1>1, <1>2, Kinds DEF Fixed, SsdInv
    <2>4. AdminInv'
      BY <1>1, <1>2, Kinds DEF Fixed, AdminInv
    <2>7. AdminPagesInv'
      BY <1>1, <1>2, Kinds DEF Fixed, AdminPagesInv
    <2>5. StorageInv'
      BY <1>1, <1>2, Kinds DEF Fixed, StorageInv
    <2>6. InfoInv'
      BY <1>1, <1>2, Kinds DEF Fixed, InfoInv
    <2> QED
      BY <2>1, <2>2, <2>3, <2>4, <2>5, <2>6, <2>7 DEF Fixed
  <1>6. TablesInv'
    BY <1>1, <1>2, Kinds, TablesFrame
  <1>7. QueuesInv'
    BY <1>1, <1>2, Kinds, QueuesFrame DEF QueuesInv
  <1>8. ArraysInv'
    BY <1>1, <1>10, ArraysFrame
  <1>9. FlushInv'
    BY <1>1, FlushFrame
  <1>20. PagesInv'
    <2>1. \A q \in Qid : /\ mem'[Pages(q)] = mem[Pages(q)]
                        /\ mem'[Queue(q)] = mem[Queue(q)]
      BY <1>1, <1>2, Kinds
    <2> QED
      BY <2>1 DEF PagesInv
  <1> QED
    BY <1>2, <1>3, <1>4, <1>5, <1>6, <1>7, <1>8, <1>9, <1>20

-----------------------------------------------------------------------------
(* The threads while the module is loaded *)

LEMMA FixedFrame ==
  ASSUME Fixed, UNCHANGED <<mpc, nr_sq>>,
         \A o \in Device \union BusMaps \union Ssd \union AdminQ \union AdminPages
                   \union Storage \union Info :
           mem'[o] = mem[o],
         \A w \in Worker : wpc'[w] = "none" <=> wpc[w] = "none"
  PROVE  Fixed'
  <1>1. DeviceInv'
    BY DEF Fixed, DeviceInv
  <1>2. BusInv'
    BY DEF Fixed, BusInv
  <1>3. SsdInv'
    BY DEF Fixed, SsdInv
  <1>4. AdminInv'
    BY DEF Fixed, AdminInv
  <1>5. StorageInv'
    BY DEF Fixed, StorageInv
  <1>6. InfoInv'
    BY DEF Fixed, InfoInv
  <1>7. AdminPagesInv'
    BY DEF Fixed, AdminPagesInv
  <1> QED
    BY <1>1, <1>2, <1>3, <1>4, <1>5, <1>6, <1>7 DEF Fixed

(* A thread may stop, but not start. *)
LEMMA ThreadsFrame ==
  ASSUME Threads, UNCHANGED <<mpc, param>>,
         dpc \in {"none", "dead"} => dpc' \in {"none", "dead"},
         \A w \in Worker : /\ wpc'[w] = "none" <=> wpc[w] = "none"
                           /\ wpc[w] = "dead" => wpc'[w] = "dead"
  PROVE  Threads'
  BY DEF Threads

LEMMA TablesFrame2 ==
  ASSUME TablesInv, UNCHANGED mpc, \A w \in Worker : mem'[Table(w)] = mem[Table(w)],
         \A w \in Worker : /\ wpc'[w] = "none" <=> wpc[w] = "none"
                           /\ wpc[w] = "dead" => wpc'[w] = "dead"
  PROVE  TablesInv'
  BY DEF TablesInv

(* While a thread is about, no more than the dispatcher and the workers.    *)
LEMMA Running ==
  ASSUME LifeInv
  PROVE  /\ dpc \notin {"none", "dead"} => mpc \in {"loaded", "reg_proc_final"}
         /\ proc_entries \/ ppc # "idle" => mpc \in WithArray
         /\ mpc \in {"loaded", "reg_proc_final"} =>
              mpc \in Complete /\ mpc \in WithWorkers /\ mpc \in WithArray /\ mpc \in WithBus
         /\ mpc \in WithArray => mpc \notin Ending
         /\ mpc # "gone" \/ mpc \in Ending
  BY DEF LifeInv, Threads, ArraysInv, NotYetMapped, WithBus, WithArray, WithWorkers, Complete, Ending

LEMMA DispatcherTopInv == LifeInv /\ DispatcherTop => LifeInv'
  <1> SUFFICES ASSUME LifeInv, DispatcherTop PROVE LifeInv'
    OBVIOUS
  <1> USE DEF LifeInv
  <1>1. /\ dpc = "top"
        /\ dpc' \in {"dead", "bars"}
        /\ UNCHANGED <<param, mpc, mem, frees, proc_entries, nr_io_units, io_unit_stat, units, nr_sq, proc_turn,
                    flush, wpc, work, scanned, should_stop, ppc, stat_sq, writes>>
    BY DEF DispatcherTop, dispRest, memVars, unitVars, procVars
  <1>2. /\ mem' \in [Object -> {"none", "live", "deleted", "freed"}] /\ frees' \in [Object -> Nat]
        /\ \A o \in Object : mem'[o] = mem[o]
        /\ FreesInv'
    BY <1>1 DEF FreesInv, Types
  <1>3. Types'
    BY <1>1, <1>2 DEF Types
  <1>4. Threads'
    BY <1>1, ThreadsFrame
  <1>5. Fixed'
    BY <1>1, <1>2, Kinds, FixedFrame
  <1>6. TablesInv'
    BY <1>1, <1>2, Kinds, TablesFrame2
  <1>7. QueuesInv'
    BY <1>1, <1>2, Kinds, QueuesFrame DEF QueuesInv
  <1>8. ArraysInv'
    BY <1>1, <1>2, Kinds, ArraysFrame
  <1>9. FlushInv'
    BY <1>1 DEF FlushInv, InFlush
  <1>20. PagesInv'
    BY <1>2, Kinds DEF PagesInv
  <1> QED
    BY <1>2, <1>3, <1>4, <1>5, <1>6, <1>7, <1>8, <1>9, <1>20

(* The admin queue, or its pages, or all of them, or none, are allocated. *)
LEMMA AllocAdminInv ==
  ASSUME LifeInv, NEW os, os \subseteq AdminQ \union AdminPages,
         \A o \in os : mem[o] = "none", dpc = "bars",
         dpc' = "admin",
         Alloc(os),
         UNCHANGED <<param, mpc, proc_entries, nr_io_units, io_unit_stat, units, nr_sq, proc_turn, flush,
                    wpc, work, scanned, should_stop, ppc, stat_sq, writes>>
  PROVE  LifeInv'
  <1> USE DEF LifeInv
  <1>1. /\ dpc = "bars"
        /\ dpc' = "admin"
        /\ Alloc(os)
        /\ UNCHANGED <<param, mpc, proc_entries, nr_io_units, io_unit_stat, units, nr_sq, proc_turn, flush,
                    wpc, work, scanned, should_stop, ppc, stat_sq, writes>>
        /\ mpc # "gone" /\ mpc \in {"loaded", "reg_proc_final"}
    BY Running DEF Ending
  <1>2. /\ mem' \in [Object -> {"none", "live", "deleted", "freed"}] /\ frees' \in [Object -> Nat]
        /\ \A o \in Object : mem'[o] = IF o \in os THEN "live" ELSE mem[o]
        /\ FreesInv'
    <2>1. \A o \in os : o \in Object => mem[o] # "freed"
      OBVIOUS
    <2> QED
      BY <1>1, <2>1, AllocEffect
  <1>3. Types'
    BY <1>1, <1>2 DEF Types
  <1>4. Threads'
    BY <1>1, ThreadsFrame
  <1>5. Fixed'
    <2>1. AdminInv'
      BY <1>1, <1>2, Kinds DEF Fixed, AdminInv
    <2>6. AdminPagesInv'
      BY <1>1, <1>2, Kinds DEF Fixed, AdminPagesInv
    <2>2. /\ Fixed
          /\ \A o \in Device \union BusMaps \union Ssd \union Storage \union Info : mem'[o] = mem[o]
      BY <1>2, Kinds
    <2>3. DeviceInv' /\ BusInv'
      BY <1>1, <2>2 DEF Fixed, DeviceInv, BusInv
    <2>4. SsdInv' /\ StorageInv'
      BY <1>1, <2>2 DEF Fixed, SsdInv, StorageInv
    <2>5. InfoInv'
      BY <1>1, <2>2 DEF Fixed, InfoInv
    <2> QED
      BY <2>1, <2>3, <2>4, <2>5, <2>6 DEF Fixed
  <1>6. TablesInv'
    BY <1>1, <1>2, Kinds, TablesFrame2
  <1>7. QueuesInv'
    BY <1>1, <1>2, Kinds, QueuesFrame DEF QueuesInv
  <1>8. ArraysInv'
    BY <1>1, <1>2, Kinds, ArraysFrame
  <1>9. FlushInv'
    BY <1>1 DEF FlushInv, InFlush
  <1>20. PagesInv'
    BY <1>2, Kinds DEF PagesInv
  <1> QED
    BY <1>2, <1>3, <1>4, <1>5, <1>6, <1>7, <1>8, <1>9, <1>20

LEMMA ProcBarsInv == LifeInv /\ ProcBars => LifeInv'
  <1> SUFFICES ASSUME LifeInv, ProcBars PROVE LifeInv'
    OBVIOUS
  <1>1. PICK os \in SUBSET {o \in AdminQ \union AdminPages : mem[o] = "none"} : Alloc(os)
    BY DEF ProcBars
  <1> QED
    BY <1>1, AllocAdminInv DEF ProcBars, dispRest, unitVars, procVars

LEMMA NoAdminInv ==
  ASSUME LifeInv, dpc = "admin",
         dpc' = "io",
         UNCHANGED <<param, mpc, mem, frees, proc_entries, nr_io_units, io_unit_stat, units, nr_sq, proc_turn,
                    flush, wpc, work, scanned, should_stop, ppc, stat_sq, writes>>
  PROVE  LifeInv'
  <1> USE DEF LifeInv
  <1>1. /\ dpc = "admin"
        /\ dpc' = "io"
        /\ UNCHANGED <<param, mpc, mem, frees, proc_entries, nr_io_units, io_unit_stat, units, nr_sq, proc_turn,
                    flush, wpc, work, scanned, should_stop, ppc, stat_sq, writes>>
    OBVIOUS
  <1>2. /\ mem' \in [Object -> {"none", "live", "deleted", "freed"}] /\ frees' \in [Object -> Nat]
        /\ \A o \in Object : mem'[o] = mem[o]
        /\ FreesInv'
    BY <1>1 DEF FreesInv, Types
  <1>3. Types'
    BY <1>1, <1>2 DEF Types
  <1>4. Threads'
    BY <1>1, ThreadsFrame
  <1>5. Fixed'
    BY <1>1, <1>2, Kinds, FixedFrame
  <1>6. TablesInv'
    BY <1>1, <1>2, Kinds, TablesFrame2
  <1>7. QueuesInv'
    BY <1>1, <1>2, Kinds, QueuesFrame DEF QueuesInv
  <1>8. ArraysInv'
    BY <1>1, <1>2, Kinds, ArraysFrame
  <1>9. FlushInv'
    BY <1>1 DEF FlushInv, InFlush
  <1>20. PagesInv'
    BY <1>2, Kinds DEF PagesInv
  <1> QED
    BY <1>2, <1>3, <1>4, <1>5, <1>6, <1>7, <1>8, <1>9, <1>20

(* The host is granted a number of queues, once. *)
LEMMA GrantQueuesInv ==
  ASSUME LifeInv, dpc = "admin",
         dpc' = "io",
         nr_sq = 0,
         nr_sq' \in Qid,
         \A o \in AdminQ \union AdminPages : mem[o] = "live",
         UNCHANGED <<param, mpc, mem, frees, proc_entries, nr_io_units, io_unit_stat, units, proc_turn,
                    flush, wpc, work, scanned, should_stop, ppc, stat_sq, writes>>
  PROVE  LifeInv'
  <1> USE DEF LifeInv
  <1>1. /\ dpc = "admin"
        /\ dpc' = "io"
        /\ nr_sq = 0
        /\ nr_sq' \in Qid
        /\ \A o \in AdminQ \union AdminPages : mem[o] = "live"
        /\ UNCHANGED <<param, mpc, mem, frees, proc_entries, nr_io_units, io_unit_stat, units, proc_turn,
                    flush, wpc, work, scanned, should_stop, ppc, stat_sq, writes>>
        /\ mpc \in {"loaded", "reg_proc_final"}
    BY Running
  <1>2. /\ mem' \in [Object -> {"none", "live", "deleted", "freed"}] /\ frees' \in [Object -> Nat]
        /\ \A o \in Object : mem'[o] = mem[o]
        /\ FreesInv'
    BY <1>1 DEF FreesInv, Types
  <1>10. /\ nr_sq' \in Nat /\ NR_MAX_IO_QUEUE \in Nat /\ nr_sq' \in 0 .. NR_MAX_IO_QUEUE /\ nr_sq' > 0
         /\ 0 .. nr_sq \subseteq 0 .. nr_sq' /\ \A q \in Qid : q > nr_sq
    BY <1>1, Basics DEF Qid
  <1>3. Types'
    <2>1. work \in [Worker -> 0 .. nr_sq'] /\ scanned \in [Worker -> 0 .. nr_sq'] /\ stat_sq \in 0 .. nr_sq'
      BY <1>10 DEF Types
    <2> QED
      BY <1>1, <1>2, <1>10, <2>1 DEF Types
  <1>4. Threads'
    BY <1>1, ThreadsFrame
  <1>5. Fixed'
    <2>1. AdminInv'
      BY <1>1, <1>2, Kinds DEF AdminInv
    <2>6. AdminPagesInv'
      BY <1>1, <1>2, Kinds DEF AdminPagesInv
    <2>2. /\ Fixed
          /\ \A o \in Device \union BusMaps \union Ssd \union Storage \union Info : mem'[o] = mem[o]
      BY <1>2, Kinds
    <2>3. DeviceInv' /\ BusInv'
      BY <1>1, <2>2 DEF Fixed, DeviceInv, BusInv
    <2>4. SsdInv' /\ StorageInv'
      BY <1>1, <2>2 DEF Fixed, SsdInv, StorageInv
    <2>5. InfoInv'
      BY <1>1, <2>2 DEF Fixed, InfoInv
    <2> QED
      BY <2>1, <2>3, <2>4, <2>5, <2>6 DEF Fixed
  <1>6. TablesInv'
    BY <1>1, <1>2, Kinds, TablesFrame2
  <1>7. QueuesInv'
    <2>1. \A q \in Qid : mem[Queue(q)] = "none" /\ mem'[Queue(q)] = "none"
      BY <1>2, <1>10, Kinds DEF QueuesInv
    <2>2. \A w \in Worker : work[w] = NULL /\ scanned[w] = NULL
      BY <1>1 DEF Types, NULL
    <2>3. stat_sq = NULL
      BY <1>1 DEF Types, NULL
    <2>4. mpc' \notin NotYetMapped \union {"storage", "io_proc", "dispatcher"} \union Ending
      BY <1>1 DEF NotYetMapped, Ending
    <2>5. UNCHANGED <<work, scanned, stat_sq, wpc, ppc>>
      BY <1>1
    <2> QED
      BY <2>1, <2>2, <2>3, <2>4, <2>5 DEF QueuesInv
  <1>8. ArraysInv'
    BY <1>1, <1>2, Kinds, ArraysFrame
  <1>9. FlushInv'
    BY <1>1 DEF FlushInv, InFlush
  <1>20. PagesInv'
    BY <1>2, Kinds DEF PagesInv
  <1> QED
    BY <1>2, <1>3, <1>4, <1>5, <1>6, <1>7, <1>8, <1>9, <1>20

LEMMA CreateQueueInv ==
  ASSUME LifeInv, NEW q0, dpc = "admin",
         dpc' = "io",
         q0 \in 1 .. nr_sq,
         mem[Queue(q0)] # "live",
         Alloc({Queue(q0), Pages(q0)}),
         UNCHANGED <<param, mpc, proc_entries, nr_io_units, io_unit_stat, units, nr_sq, proc_turn, flush,
                    wpc, work, scanned, should_stop, ppc, stat_sq, writes>>
  PROVE  LifeInv'
  <1> USE DEF LifeInv
  <1>1. /\ dpc = "admin"
        /\ dpc' = "io"
        /\ q0 \in 1 .. nr_sq
        /\ mem[Queue(q0)] # "live"
        /\ Alloc({Queue(q0), Pages(q0)})
        /\ UNCHANGED <<param, mpc, proc_entries, nr_io_units, io_unit_stat, units, nr_sq, proc_turn, flush,
                    wpc, work, scanned, should_stop, ppc, stat_sq, writes>>
        /\ mpc \in {"loaded", "reg_proc_final"}
    BY Running
  <1>10. /\ nr_sq \in Nat /\ mpc \notin Ending /\ mpc # "gone"
         /\ \A q \in Nat : q # 0 /\ q <= nr_sq => q \in Qid
         /\ q0 \in Qid /\ q0 <= nr_sq
    <2>1. nr_sq \in Nat /\ NR_MAX_IO_QUEUE \in Nat /\ nr_sq <= NR_MAX_IO_QUEUE
      BY Basics DEF Types
    <2>2. mpc \notin Ending /\ mpc # "gone"
      BY <1>1 DEF Ending
    <2>3. /\ \A q \in Nat : q # 0 /\ q <= nr_sq => q \in Qid
          /\ q0 \in Qid /\ q0 <= nr_sq
      BY <1>1, <2>1 DEF Qid
    <2> QED
      BY <2>1, <2>2, <2>3
  <1>2. /\ mem' \in [Object -> {"none", "live", "deleted", "freed"}] /\ frees' \in [Object -> Nat]
        /\ \A o \in Object : mem'[o] = IF o \in {Queue(q0), Pages(q0)} THEN "live" ELSE mem[o]
        /\ FreesInv'
    <2>1. \A o \in {Queue(q0), Pages(q0)} : o \in Object => mem[o] # "freed"
      BY <1>1, <1>10 DEF QueuesInv, PagesInv
    <2> QED
      BY <1>1, <1>10, <2>1, AllocEffect
  <1>3. Types'
    BY <1>1, <1>2 DEF Types
  <1>4. Threads'
    BY <1>1, ThreadsFrame
  <1>5. Fixed'
    BY <1>1, <1>2, Kinds, FixedFrame
  <1>6. TablesInv'
    BY <1>1, <1>2, Kinds, TablesFrame2
  <1>7. QueuesInv'
    <2>1. ASSUME NEW q \in Qid
          PROVE  /\ q > nr_sq => mem'[Queue(q)] = "none"
                 /\ mem'[Queue(q)] # "freed"
                 /\ mem[Queue(q)] \in {"live", "deleted"} => mem'[Queue(q)] \in {"live", "deleted"}
                 /\ mem[Queue(q)] = "live" => mem'[Queue(q)] = "live"
      <3>1. mem'[Queue(q)] = IF q = q0 THEN "live" ELSE mem[Queue(q)]
        BY <1>2, <1>10, Kinds
      <3>2. /\ q > nr_sq => q # q0 /\ mem[Queue(q)] = "none"
            /\ mem[Queue(q)] # "freed"
        BY <1>1, <1>10 DEF QueuesInv
      <3> QED
        BY <3>1, <3>2
    <2>2. ASSUME NEW w \in Worker
          PROVE  /\ work[w] # NULL => mem'[Queue(work[w])] = "live"
                 /\ scanned[w] # NULL => mem'[Queue(scanned[w])] \in {"live", "deleted"}
      <3>1. work[w] \in 0 .. nr_sq /\ scanned[w] \in 0 .. nr_sq
        BY DEF Types
      <3>2. /\ work[w] # NULL => work[w] \in Qid
            /\ scanned[w] # NULL => scanned[w] \in Qid
        BY <1>10, <3>1 DEF NULL
      <3> QED
        BY <1>1, <1>10, <2>1, <3>2 DEF QueuesInv
    <2>3. stat_sq # NULL => stat_sq \in Qid
      BY <1>10 DEF Types, NULL
    <2>4. ppc = "stat" => stat_sq # NULL /\ mem'[Queue(stat_sq)] \in {"live", "deleted"}
      BY <2>1, <2>3 DEF QueuesInv
    <2>5. /\ mpc' \notin NotYetMapped \union {"storage", "io_proc", "dispatcher"} \union Ending
          /\ UNCHANGED <<work, scanned, stat_sq, wpc, ppc, nr_sq>>
      BY <1>1 DEF NotYetMapped, Ending
    <2> QED
      BY <2>1, <2>2, <2>4, <2>5 DEF QueuesInv
  <1>8. ArraysInv'
    BY <1>1, <1>2, Kinds, ArraysFrame
  <1>9. FlushInv'
    BY <1>1 DEF FlushInv, InFlush
  <1>20. PagesInv'
    BY <1>2, Kinds DEF PagesInv
  <1> QED
    BY <1>2, <1>3, <1>4, <1>5, <1>6, <1>7, <1>8, <1>9, <1>20

LEMMA DeleteQueueInv ==
  ASSUME LifeInv, NEW q0, dpc = "admin",
         dpc' = "io",
         q0 \in 1 .. nr_sq,
         mem[Queue(q0)] = "live",
         Idle(q0),
         mem' = [o \in Object |-> IF o \in {Queue(q0), Pages(q0)} THEN "deleted" ELSE mem[o]],
         UNCHANGED <<param, mpc, frees, proc_entries, nr_io_units, io_unit_stat, units, nr_sq, proc_turn,
                    flush, wpc, work, scanned, should_stop, ppc, stat_sq, writes>>
  PROVE  LifeInv'
  <1> USE DEF LifeInv
  <1>1. /\ dpc = "admin"
        /\ dpc' = "io"
        /\ q0 \in 1 .. nr_sq
        /\ mem[Queue(q0)] = "live"
        /\ Idle(q0)
        /\ mem' = [o \in Object |-> IF o \in {Queue(q0), Pages(q0)} THEN "deleted" ELSE mem[o]]
        /\ UNCHANGED <<param, mpc, frees, proc_entries, nr_io_units, io_unit_stat, units, nr_sq, proc_turn,
                    flush, wpc, work, scanned, should_stop, ppc, stat_sq, writes>>
        /\ mpc \in {"loaded", "reg_proc_final"}
    BY Running
  <1>10. /\ nr_sq \in Nat /\ mpc \notin Ending /\ mpc # "gone"
         /\ \A q \in Nat : q # 0 /\ q <= nr_sq => q \in Qid
         /\ q0 \in Qid /\ q0 <= nr_sq
    <2>1. nr_sq \in Nat /\ NR_MAX_IO_QUEUE \in Nat /\ nr_sq <= NR_MAX_IO_QUEUE
      BY Basics DEF Types
    <2>2. mpc \notin Ending /\ mpc # "gone"
      BY <1>1 DEF Ending
    <2>3. /\ \A q \in Nat : q # 0 /\ q <= nr_sq => q \in Qid
          /\ q0 \in Qid /\ q0 <= nr_sq
      BY <1>1, <2>1 DEF Qid
    <2> QED
      BY <2>1, <2>2, <2>3
  <1>2. /\ mem' \in [Object -> {"none", "live", "deleted", "freed"}] /\ frees' \in [Object -> Nat]
        /\ \A o \in Object : mem'[o] = IF o \in {Queue(q0), Pages(q0)} THEN "deleted" ELSE mem[o]
        /\ FreesInv'
    <2>1. mem' \in [Object -> {"none", "live", "deleted", "freed"}] /\ frees' \in [Object -> Nat]
      BY <1>1 DEF Types
    <2>2. \A o \in Object : mem'[o] = IF o \in {Queue(q0), Pages(q0)} THEN "deleted" ELSE mem[o]
      BY <1>1 DEF Types
    <2>3. ASSUME NEW o \in Object
          PROVE  frees'[o] = IF mem'[o] # "freed" THEN 0 ELSE 1
      <3>1. o \in {Queue(q0), Pages(q0)} => mem[o] # "freed"
        BY <1>1, <1>10 DEF PagesInv
      <3> QED
        BY <1>1, <1>10, <2>2, <3>1 DEF FreesInv
    <2>4. FreesInv'
      BY <1>1, <1>10, <2>3 DEF FreesInv
    <2> QED
      BY <2>1, <2>2, <2>4
  <1>3. Types'
    BY <1>1, <1>2 DEF Types
  <1>4. Threads'
    BY <1>1, ThreadsFrame
  <1>5. Fixed'
    BY <1>1, <1>2, Kinds, FixedFrame
  <1>6. TablesInv'
    BY <1>1, <1>2, Kinds, TablesFrame2
  <1>7. QueuesInv'
    <2>1. ASSUME NEW q \in Qid
          PROVE  /\ q > nr_sq => mem'[Queue(q)] = "none"
                 /\ mem'[Queue(q)] # "freed"
                 /\ mem[Queue(q)] \in {"live", "deleted"} => mem'[Queue(q)] \in {"live", "deleted"}
                 /\ mem[Queue(q)] = "live" /\ q # q0 => mem'[Queue(q)] = "live"
      BY <1>1, <1>2, <1>10, Kinds DEF QueuesInv
    <2>2. ASSUME NEW w \in Worker
          PROVE  /\ work[w] # NULL => mem'[Queue(work[w])] = "live"
                 /\ scanned[w] # NULL => mem'[Queue(scanned[w])] \in {"live", "deleted"}
      <3>1. work[w] \in 0 .. nr_sq /\ scanned[w] \in 0 .. nr_sq
        BY DEF Types
      <3>2. /\ work[w] # NULL => work[w] \in Qid
            /\ scanned[w] # NULL => scanned[w] \in Qid
        BY <1>10, <3>1 DEF NULL
      <3> QED
        BY <1>1, <1>10, <2>1, <3>2 DEF QueuesInv, Idle
    <2>3. stat_sq # NULL => stat_sq \in Qid
      BY <1>10 DEF Types, NULL
    <2>4. ppc = "stat" => stat_sq # NULL /\ mem'[Queue(stat_sq)] \in {"live", "deleted"}
      BY <2>1, <2>3 DEF QueuesInv
    <2>5. /\ mpc' \notin NotYetMapped \union {"storage", "io_proc", "dispatcher"} \union Ending
          /\ UNCHANGED <<work, scanned, stat_sq, wpc, ppc, nr_sq>>
      BY <1>1 DEF NotYetMapped, Ending
    <2> QED
      BY <2>1, <2>2, <2>4, <2>5 DEF QueuesInv
  <1>8. ArraysInv'
    BY <1>1, <1>2, Kinds, ArraysFrame
  <1>9. FlushInv'
    BY <1>1 DEF FlushInv, InFlush
  <1>20. PagesInv'
    BY <1>2, Kinds DEF PagesInv
  <1> QED
    BY <1>2, <1>3, <1>4, <1>5, <1>6, <1>7, <1>8, <1>9, <1>20

LEMMA ProcAdminInv == LifeInv /\ ProcAdmin => LifeInv'
  <1> SUFFICES ASSUME LifeInv, ProcAdmin PROVE LifeInv'
    OBVIOUS
  <1> USE DEF dispRest, memVars, unitVars, procVars
  <1>1. CASE UNCHANGED <<memVars, nr_sq>>
    BY <1>1, NoAdminInv DEF ProcAdmin
  <1>2. CASE /\ \A o \in AdminQ \union AdminPages : mem[o] = "live"
             /\ nr_sq = 0 /\ nr_sq' \in Qid /\ UNCHANGED memVars
    BY <1>2, GrantQueuesInv DEF ProcAdmin
  <1>3. ASSUME NEW q \in 1 .. nr_sq, UNCHANGED nr_sq,
               \/ mem[<<"queue", q>>] # "live" /\ Alloc(OfQueue(q))
               \/ /\ mem[<<"queue", q>>] = "live" /\ Idle(q)
                  /\ mem' = [o \in Object |-> IF o \in OfQueue(q) THEN "deleted" ELSE mem[o]]
                  /\ UNCHANGED frees
        PROVE  LifeInv'
    BY <1>3, CreateQueueInv, DeleteQueueInv DEF ProcAdmin, Queue, Pages, OfQueue
  <1> QED
    BY <1>1, <1>2, <1>3 DEF ProcAdmin

LEMMA NoIoInv ==
  ASSUME LifeInv, dpc = "io",
         dpc' = "top",
         UNCHANGED <<param, mpc, mem, frees, proc_entries, nr_io_units, io_unit_stat, units, nr_sq, proc_turn,
                    flush, wpc, work, scanned, should_stop, ppc, stat_sq, writes>>
  PROVE  LifeInv'
  <1> USE DEF LifeInv
  <1>1. /\ dpc = "io"
        /\ dpc' = "top"
        /\ UNCHANGED <<param, mpc, mem, frees, proc_entries, nr_io_units, io_unit_stat, units, nr_sq, proc_turn,
                    flush, wpc, work, scanned, should_stop, ppc, stat_sq, writes>>
    OBVIOUS
  <1>2. /\ mem' \in [Object -> {"none", "live", "deleted", "freed"}] /\ frees' \in [Object -> Nat]
        /\ \A o \in Object : mem'[o] = mem[o]
        /\ FreesInv'
    BY <1>1 DEF FreesInv, Types
  <1>3. Types'
    BY <1>1, <1>2 DEF Types
  <1>4. Threads'
    BY <1>1, ThreadsFrame
  <1>5. Fixed'
    BY <1>1, <1>2, Kinds, FixedFrame
  <1>6. TablesInv'
    BY <1>1, <1>2, Kinds, TablesFrame2
  <1>7. QueuesInv'
    BY <1>1, <1>2, Kinds, QueuesFrame DEF QueuesInv
  <1>8. ArraysInv'
    BY <1>1, <1>2, Kinds, ArraysFrame
  <1>9. FlushInv'
    BY <1>1 DEF FlushInv, InFlush
  <1>20. PagesInv'
    BY <1>2, Kinds DEF PagesInv
  <1> QED
    BY <1>2, <1>3, <1>4, <1>5, <1>6, <1>7, <1>8, <1>9, <1>20

(* A worker is given a request of a queue that is there. *)
LEMMA EnqueueInv ==
  ASSUME LifeInv, NEW q0, dpc \in {"io", "flush_test"},
         dpc' = "top",
         q0 \in 1 .. nr_sq,
         mem[Queue(q0)] = "live",
         EnqueueIoReq(q0),
         flush' \in {flush, NoFlush},
         UNCHANGED <<param, mpc, mem, frees, proc_entries, nr_io_units, io_unit_stat, units,
                    nr_sq, wpc, scanned, should_stop, ppc, stat_sq, writes>>
  PROVE  LifeInv'
  <1> USE DEF LifeInv
  <1>1. /\ dpc \in {"io", "flush_test"}
        /\ dpc' = "top"
        /\ q0 \in 1 .. nr_sq
        /\ mem[Queue(q0)] = "live"
        /\ EnqueueIoReq(q0)
        /\ flush' \in {flush, NoFlush}
        /\ UNCHANGED <<param, mpc, mem, frees, proc_entries, nr_io_units, io_unit_stat, units,
                    nr_sq, wpc, scanned, should_stop, ppc, stat_sq, writes>>
    OBVIOUS
  <1>2. /\ mem' \in [Object -> {"none", "live", "deleted", "freed"}] /\ frees' \in [Object -> Nat]
        /\ \A o \in Object : mem'[o] = mem[o]
        /\ FreesInv'
    BY <1>1 DEF FreesInv, Types
  <1>10. /\ proc_turn \in Worker /\ param.nr_io_cpu \in Nat
         /\ NextTurn \in Nat /\ NextTurn < param.nr_io_cpu
    <2>1. /\ proc_turn \in Nat /\ param.nr_io_cpu \in Nat /\ MaxWorkers \in Nat
          /\ proc_turn < param.nr_io_cpu /\ param.nr_io_cpu <= MaxWorkers
      BY Basics DEF Types
    <2>2. proc_turn \in Worker
      BY <2>1 DEF Worker
    <2>3. NextTurn \in Nat /\ NextTurn < param.nr_io_cpu
      BY <2>1 DEF NextTurn
    <2> QED
      BY <2>1, <2>2, <2>3
  <1>11. /\ work' \in [Worker -> 0 .. nr_sq] /\ work'[proc_turn] = q0 /\ q0 # NULL
         /\ \A w \in Worker : w # proc_turn => work'[w] = work[w]
    <2>1. q0 \in 0 .. nr_sq /\ q0 # NULL
      BY <1>1 DEF Types, NULL
    <2> QED
      BY <1>1, <1>10, <2>1 DEF EnqueueIoReq, Types
  <1>13. \A q \in 0 .. nr_sq : q # NULL => q \in Qid
    <2>1. nr_sq \in Nat /\ NR_MAX_IO_QUEUE \in Nat /\ nr_sq <= NR_MAX_IO_QUEUE
      BY Basics DEF Types
    <2> QED
      BY <2>1 DEF Qid, NULL
  <1>14. q0 \in Qid
    <2>1. nr_sq \in Nat
      BY Basics DEF Types
    <2> QED
      BY <1>1, <1>13, <2>1 DEF NULL
  <1>12. NoFlush \in [i : Nat, nr : Nat, stat : -1 .. MaxWrites, overlapped : BOOLEAN]
    BY Basics DEF NoFlush, NULL
  <1>3. Types'
    <2>1. proc_turn' \in Nat /\ proc_turn' < param.nr_io_cpu
      BY <1>1, <1>10 DEF EnqueueIoReq
    <2> QED
      BY <1>1, <1>2, <1>11, <1>12, <2>1 DEF Types
  <1>4. Threads'
    BY <1>1, ThreadsFrame
  <1>5. Fixed'
    BY <1>1, <1>2, Kinds, FixedFrame
  <1>6. TablesInv'
    BY <1>1, <1>2, Kinds, TablesFrame2
  <1>7. QueuesInv'
    <2>1. ASSUME NEW w \in Worker
          PROVE  /\ work'[w] # NULL /\ mpc \notin Ending => mem'[Queue(work'[w])] = "live"
                 /\ wpc[w] = "copy" => work'[w] # NULL
      <3>1. work[w] \in 0 .. nr_sq /\ (work[w] # NULL => work[w] \in Qid)
        BY <1>13 DEF Types
      <3> QED
        BY <1>1, <1>2, <1>11, <1>14, <3>1, Kinds DEF QueuesInv
    <2>2. ASSUME NEW w \in Worker
          PROVE  scanned[w] # NULL => mem'[Queue(scanned[w])] \in {"live", "deleted"}
      <3>1. scanned[w] \in 0 .. nr_sq /\ (scanned[w] # NULL => scanned[w] \in Qid)
        BY <1>13 DEF Types
      <3> QED
        BY <1>1, <1>2, <3>1, Kinds DEF QueuesInv
    <2>3. ppc = "stat" => mem'[Queue(stat_sq)] \in {"live", "deleted"}
      <3>1. stat_sq \in 0 .. nr_sq /\ (stat_sq # NULL => stat_sq \in Qid)
        BY <1>13 DEF Types
      <3> QED
        BY <1>1, <1>2, <3>1, Kinds DEF QueuesInv
    <2>4. \A q \in Qid : mem'[Queue(q)] = mem[Queue(q)]
      BY <1>2, Kinds
    <2>5. UNCHANGED <<mpc, nr_sq, wpc, scanned, ppc, stat_sq>>
      BY <1>1
    <2> QED
      BY <2>1, <2>2, <2>3, <2>4, <2>5 DEF QueuesInv
  <1>8. ArraysInv'
    BY <1>1, <1>2, Kinds, ArraysFrame
  <1>9. FlushInv'
    BY <1>1 DEF FlushInv, InFlush
  <1>20. PagesInv'
    BY <1>2, Kinds DEF PagesInv
  <1> QED
    BY <1>2, <1>3, <1>4, <1>5, <1>6, <1>7, <1>8, <1>9, <1>20

LEMMA StartFlushInv ==
  ASSUME LifeInv, dpc = "io",
         dpc' = "flush_test",
         flush' = [NoFlush EXCEPT !.overlapped = (ppc = "allocate")],
         UNCHANGED <<param, mpc, mem, frees, proc_entries, nr_io_units, io_unit_stat, units, nr_sq,
                    proc_turn, wpc, work, scanned, should_stop, ppc, stat_sq, writes>>
  PROVE  LifeInv'
  <1> USE DEF LifeInv
  <1>1. /\ dpc = "io"
        /\ dpc' = "flush_test"
        /\ flush' = [NoFlush EXCEPT !.overlapped = (ppc = "allocate")]
        /\ UNCHANGED <<param, mpc, mem, frees, proc_entries, nr_io_units, io_unit_stat, units, nr_sq,
                    proc_turn, wpc, work, scanned, should_stop, ppc, stat_sq, writes>>
    OBVIOUS
  <1>2. /\ mem' \in [Object -> {"none", "live", "deleted", "freed"}] /\ frees' \in [Object -> Nat]
        /\ \A o \in Object : mem'[o] = mem[o]
        /\ FreesInv'
    BY <1>1 DEF FreesInv, Types
  <1>3. Types'
    <2>1. flush' \in [i : Nat, nr : Nat, stat : -1 .. MaxWrites, overlapped : BOOLEAN]
      <3>1. /\ NoFlush \in [i : Nat, nr : Nat, stat : -1 .. MaxWrites, overlapped : BOOLEAN]
            /\ (ppc = "allocate") \in BOOLEAN
        BY Basics DEF NoFlush, NULL
      <3> QED
        BY <1>1, <3>1
    <2>2. dpc' \in {"none", "dead", "top", "bars", "admin", "io", "flush_test", "flush_load",
                    "flush_read"}
      BY <1>1
    <2> HIDE DEF LifeInv
    <2>3. Types
      BY DEF LifeInv
    <2> QED
      BY <1>1, <1>2, <2>1, <2>2, <2>3 DEF Types
  <1>4. Threads'
    BY <1>1, ThreadsFrame
  <1>5. Fixed'
    BY <1>1, <1>2, Kinds, FixedFrame
  <1>6. TablesInv'
    BY <1>1, <1>2, Kinds, TablesFrame2
  <1>7. QueuesInv'
    BY <1>1, <1>2, Kinds, QueuesFrame DEF QueuesInv
  <1>8. ArraysInv'
    BY <1>1, <1>2, Kinds, ArraysFrame
  <1>9. FlushInv'
    <2>1. flush'.i = 0
      BY <1>1 DEF NoFlush
    <2>2. flush'.overlapped <=> ppc = "allocate"
      BY <1>1 DEF NoFlush
    <2> QED
      BY <1>1, <2>1, <2>2 DEF FlushInv, InFlush
  <1>20. PagesInv'
    BY <1>2, Kinds DEF PagesInv
  <1> QED
    BY <1>2, <1>3, <1>4, <1>5, <1>6, <1>7, <1>8, <1>9, <1>20

LEMMA ProcIoInv == LifeInv /\ ProcIo => LifeInv'
  <1> SUFFICES ASSUME LifeInv, ProcIo PROVE LifeInv'
    OBVIOUS
  <1> USE DEF dispRest, flushRest, memVars, unitVars, procVars
  <1>1. CASE dpc' = "top" /\ UNCHANGED <<proc_turn, work, flush, flushes>>
    BY <1>1, NoIoInv DEF ProcIo
  <1>2. ASSUME NEW q \in 1 .. nr_sq, mem[<<"queue", q>>] = "live", EnqueueIoReq(q),
               dpc' = "top", UNCHANGED flush
        PROVE  LifeInv'
    BY <1>2, EnqueueInv DEF ProcIo, Queue
  <1>3. CASE /\ flush' = [NoFlush EXCEPT !.overlapped = (ppc = "allocate")]
             /\ dpc' = "flush_test"
             /\ UNCHANGED <<proc_turn, work>>
    BY <1>3, StartFlushInv DEF ProcIo
  <1> QED
    BY <1>1, <1>2, <1>3 DEF ProcIo

LEMMA TestUnitInv ==
  ASSUME LifeInv, NEW n, dpc = "flush_test",
         dpc' = "flush_load",
         n \in {nr_io_units} \union (IF flush.i = 0 THEN {} ELSE {flush.nr}),
         flush.i < n,
         flush' = [flush EXCEPT !.nr = n],
         UNCHANGED <<param, mpc, mem, frees, proc_entries, nr_io_units, io_unit_stat, units, nr_sq,
                    proc_turn, wpc, work, scanned, should_stop, ppc, stat_sq, writes>>
  PROVE  LifeInv'
  <1> USE DEF LifeInv
  <1>1. /\ dpc = "flush_test"
        /\ dpc' = "flush_load"
        /\ n \in {nr_io_units} \union (IF flush.i = 0 THEN {} ELSE {flush.nr})
        /\ flush.i < n
        /\ flush' = [flush EXCEPT !.nr = n]
        /\ UNCHANGED <<param, mpc, mem, frees, proc_entries, nr_io_units, io_unit_stat, units, nr_sq,
                    proc_turn, wpc, work, scanned, should_stop, ppc, stat_sq, writes>>
    OBVIOUS
  <1>2. /\ mem' \in [Object -> {"none", "live", "deleted", "freed"}] /\ frees' \in [Object -> Nat]
        /\ \A o \in Object : mem'[o] = mem[o]
        /\ FreesInv'
    BY <1>1 DEF FreesInv, Types
  <1>10. /\ flush.i \in Nat /\ flush.nr \in Nat /\ nr_io_units \in Nat /\ n \in Nat
         /\ (~flush.overlapped => n = nr_io_units)
    BY <1>1 DEF Types, FlushInv, InFlush
  <1>11. /\ flush'.i = flush.i /\ flush'.nr = n /\ flush'.stat = flush.stat
         /\ flush'.overlapped = flush.overlapped
         /\ flush' \in [i : Nat, nr : Nat, stat : -1 .. MaxWrites, overlapped : BOOLEAN]
    BY <1>1, <1>10 DEF Types
  <1>3. Types'
    BY <1>1, <1>2, <1>11 DEF Types
  <1>4. Threads'
    BY <1>1, ThreadsFrame
  <1>5. Fixed'
    BY <1>1, <1>2, Kinds, FixedFrame
  <1>6. TablesInv'
    BY <1>1, <1>2, Kinds, TablesFrame2
  <1>7. QueuesInv'
    BY <1>1, <1>2, Kinds, QueuesFrame DEF QueuesInv
  <1>8. ArraysInv'
    BY <1>1, <1>2, Kinds, ArraysFrame
  <1>9. FlushInv'
    BY <1>1, <1>10, <1>11 DEF FlushInv, InFlush
  <1>20. PagesInv'
    BY <1>2, Kinds DEF PagesInv
  <1> QED
    BY <1>2, <1>3, <1>4, <1>5, <1>6, <1>7, <1>8, <1>9, <1>20

LEMMA FlushTestInv == LifeInv /\ FlushTest => LifeInv'
  <1> SUFFICES ASSUME LifeInv, FlushTest PROVE LifeInv'
    OBVIOUS
  <1> USE DEF dispRest, flushRest, memVars, unitVars, procVars
  <1>1. PICK n \in {nr_io_units} \union (IF flush.i = 0 THEN {} ELSE {flush.nr}) :
          \/ flush.i < n /\ flush' = [flush EXCEPT !.nr = n] /\ dpc' = "flush_load"
             /\ UNCHANGED <<proc_turn, work>>
          \/ /\ flush.i >= n /\ flush' = NoFlush /\ dpc' = "top"
             /\ \E q \in 1 .. nr_sq : mem[<<"queue", q>>] = "live" /\ EnqueueIoReq(q)
    BY DEF FlushTest
  <1>2. CASE /\ flush.i < n /\ flush' = [flush EXCEPT !.nr = n] /\ dpc' = "flush_load"
             /\ UNCHANGED <<proc_turn, work>>
    BY <1>1, <1>2, TestUnitInv DEF FlushTest
  <1>3. ASSUME NEW q \in 1 .. nr_sq, mem[<<"queue", q>>] = "live", EnqueueIoReq(q),
               flush' = NoFlush, dpc' = "top"
        PROVE  LifeInv'
    BY <1>3, EnqueueInv DEF FlushTest, Queue
  <1> QED
    BY <1>1, <1>2, <1>3

LEMMA FlushLoadInv == LifeInv /\ FlushLoad => LifeInv'
  <1> SUFFICES ASSUME LifeInv, FlushLoad PROVE LifeInv'
    OBVIOUS
  <1> USE DEF LifeInv
  <1>1. /\ dpc = "flush_load"
        /\ dpc' = "flush_read"
        /\ UNCHANGED <<param, mpc, mem, frees, proc_entries, nr_io_units, io_unit_stat, units, nr_sq,
                    proc_turn, wpc, work, scanned, should_stop, ppc, stat_sq, writes>>
        /\ \E k \in {io_unit_stat} \union (IF flush.i = 0 THEN {} ELSE {flush.stat}) :
             flush' = [flush EXCEPT !.stat = k]
    BY DEF FlushLoad, dispRest, flushRest, memVars, unitVars, procVars
  <1>2. /\ mem' \in [Object -> {"none", "live", "deleted", "freed"}] /\ frees' \in [Object -> Nat]
        /\ \A o \in Object : mem'[o] = mem[o]
        /\ FreesInv'
    BY <1>1 DEF FreesInv, Types
  <1>10. PICK k \in {io_unit_stat} \union (IF flush.i = 0 THEN {} ELSE {flush.stat}) :
           flush' = [flush EXCEPT !.stat = k]
    BY <1>1
  <1>11. /\ flush'.i = flush.i /\ flush'.nr = flush.nr /\ flush'.stat = k
         /\ flush'.overlapped = flush.overlapped
         /\ flush' \in [i : Nat, nr : Nat, stat : -1 .. MaxWrites, overlapped : BOOLEAN]
    BY <1>1, <1>10 DEF Types
  <1>12. flush.i \in Nat /\ flush.stat \in -1 .. MaxWrites
    BY DEF Types
  <1>3. Types'
    BY <1>1, <1>2, <1>11 DEF Types
  <1>4. Threads'
    BY <1>1, ThreadsFrame
  <1>5. Fixed'
    BY <1>1, <1>2, Kinds, FixedFrame
  <1>6. TablesInv'
    BY <1>1, <1>2, Kinds, TablesFrame2
  <1>7. QueuesInv'
    BY <1>1, <1>2, Kinds, QueuesFrame DEF QueuesInv
  <1>8. ArraysInv'
    BY <1>1, <1>2, Kinds, ArraysFrame
  <1>9. FlushInv'
    BY <1>1, <1>10, <1>11, <1>12 DEF FlushInv, InFlush
  <1>20. PagesInv'
    BY <1>2, Kinds DEF PagesInv
  <1> QED
    BY <1>2, <1>3, <1>4, <1>5, <1>6, <1>7, <1>8, <1>9, <1>20

LEMMA FlushReadInv == LifeInv /\ FlushRead => LifeInv'
  <1> SUFFICES ASSUME LifeInv, FlushRead PROVE LifeInv'
    OBVIOUS
  <1> USE DEF LifeInv
  <1>1. /\ dpc = "flush_read"
        /\ dpc' = "flush_test"
        /\ flush' = [flush EXCEPT !.i = @ + 1]
        /\ UNCHANGED <<param, mpc, mem, frees, proc_entries, nr_io_units, io_unit_stat, units, nr_sq,
                    proc_turn, wpc, work, scanned, should_stop, ppc, stat_sq, writes>>
    BY DEF FlushRead, dispRest, flushRest, memVars, unitVars, procVars
  <1>2. /\ mem' \in [Object -> {"none", "live", "deleted", "freed"}] /\ frees' \in [Object -> Nat]
        /\ \A o \in Object : mem'[o] = mem[o]
        /\ FreesInv'
    BY <1>1 DEF FreesInv, Types
  <1>11. /\ flush.i \in Nat /\ flush'.i = flush.i + 1 /\ flush'.nr = flush.nr
         /\ flush'.stat = flush.stat /\ flush'.overlapped = flush.overlapped
         /\ flush' \in [i : Nat, nr : Nat, stat : -1 .. MaxWrites, overlapped : BOOLEAN]
    <2>1. flush \in [i : Nat, nr : Nat, stat : -1 .. MaxWrites, overlapped : BOOLEAN]
      BY DEF Types
    <2>2. flush.i \in Nat /\ flush.i + 1 \in Nat /\ flush' = [flush EXCEPT !.i = flush.i + 1]
      BY <1>1, <2>1
    <2> QED
      BY <2>1, <2>2
  <1>3. Types'
    BY <1>1, <1>2, <1>11 DEF Types
  <1>4. Threads'
    BY <1>1, ThreadsFrame
  <1>5. Fixed'
    BY <1>1, <1>2, Kinds, FixedFrame
  <1>6. TablesInv'
    BY <1>1, <1>2, Kinds, TablesFrame2
  <1>7. QueuesInv'
    BY <1>1, <1>2, Kinds, QueuesFrame DEF QueuesInv
  <1>8. ArraysInv'
    BY <1>1, <1>2, Kinds, ArraysFrame
  <1>9. FlushInv'
    BY <1>1, <1>11 DEF FlushInv, InFlush
  <1>20. PagesInv'
    BY <1>2, Kinds DEF PagesInv
  <1> QED
    BY <1>2, <1>3, <1>4, <1>5, <1>6, <1>7, <1>8, <1>9, <1>20

LEMMA DispatcherStepInv == LifeInv /\ DispatcherStep => LifeInv'
  BY DispatcherTopInv, ProcBarsInv, ProcAdminInv, ProcIoInv, FlushTestInv, FlushLoadInv, FlushReadInv
  DEF DispatcherStep

LEMMA LeaveTopInv ==
  ASSUME LifeInv, NEW w0, NEW next, w0 \in Worker,
         wpc[w0] = "top",
         next \in {"dead", "scan", "copy"},
         next = "copy" => work[w0] # NULL,
         wpc' = [wpc EXCEPT ![w0] = next],
         UNCHANGED <<param, mpc, mem, frees, proc_entries, nr_io_units, io_unit_stat, units, nr_sq, dpc,
                    proc_turn, flush, work, scanned, should_stop, ppc, stat_sq, writes>>
  PROVE  LifeInv'
  <1> USE DEF LifeInv
  <1>1. /\ w0 \in Worker
        /\ wpc[w0] = "top"
        /\ next \in {"dead", "scan", "copy"}
        /\ next = "copy" => work[w0] # NULL
        /\ wpc' = [wpc EXCEPT ![w0] = next]
        /\ UNCHANGED <<param, mpc, mem, frees, proc_entries, nr_io_units, io_unit_stat, units, nr_sq, dpc,
                    proc_turn, flush, work, scanned, should_stop, ppc, stat_sq, writes>>
    OBVIOUS
  <1>2. /\ mem' \in [Object -> {"none", "live", "deleted", "freed"}] /\ frees' \in [Object -> Nat]
        /\ \A o \in Object : mem'[o] = mem[o]
        /\ FreesInv'
    BY <1>1 DEF FreesInv, Types
  <1>10. /\ wpc' \in [Worker -> {"none", "dead", "top", "copy", "scan"}]
         /\ \A w \in Worker : w # w0 => wpc'[w] = wpc[w]
         /\ wpc[w0] \notin {"none", "dead"} /\ wpc'[w0] # "none"
    BY <1>1 DEF Types
  <1>11. \A w \in Worker : /\ wpc'[w] = "none" <=> wpc[w] = "none"
                           /\ wpc[w] = "dead" => wpc'[w] = "dead"
    BY <1>10
  <1>3. Types'
    BY <1>1, <1>2, <1>10 DEF Types
  <1>4. Threads'
    BY <1>1, <1>11, ThreadsFrame
  <1>5. Fixed'
    BY <1>1, <1>2, <1>11, Kinds, FixedFrame
  <1>6. TablesInv'
    BY <1>1, <1>2, <1>11, Kinds, TablesFrame2
  <1>7. QueuesInv'
    <2>1. scanned[w0] = NULL /\ wpc'[w0] = next
      BY <1>1 DEF QueuesInv, Types
    <2>2. \A q \in Qid : mem'[Queue(q)] = mem[Queue(q)]
      BY <1>2, Kinds
    <2>3. \A w \in Worker : \/ wpc'[w] = wpc[w]
                            \/ wpc'[w] # "copy" /\ scanned[w] = NULL
                            \/ wpc'[w] = "copy" /\ work[w] # NULL /\ scanned[w] = NULL
      BY <1>1, <1>10, <2>1
    <2>4. UNCHANGED <<nr_sq, work, scanned, ppc, stat_sq, mpc>>
      BY <1>1
    <2> QED
      BY <2>2, <2>3, <2>4, QueuesFrame2
  <1>8. ArraysInv'
    BY <1>1, <1>2, Kinds, ArraysFrame
  <1>9. FlushInv'
    BY <1>1, FlushFrame
  <1>20. PagesInv'
    BY <1>2, Kinds DEF PagesInv
  <1> QED
    BY <1>2, <1>3, <1>4, <1>5, <1>6, <1>7, <1>8, <1>9, <1>20

LEMMA WorkerTopInv ==
  ASSUME LifeInv, NEW w \in Worker, WorkerTop(w)
  PROVE  LifeInv'
  <1> DEFINE next == IF w \in should_stop THEN "dead" ELSE IF work[w] = NULL THEN "scan" ELSE "copy"
  <1>1. /\ wpc[w] = "top" /\ wpc' = [wpc EXCEPT ![w] = next] /\ next \in {"dead", "scan", "copy"}
        /\ next = "copy" => work[w] # NULL
        /\ UNCHANGED <<workRest, work, scanned>>
    BY DEF WorkerTop
  <1> HIDE DEF next
  <1> QED
    BY <1>1, LeaveTopInv DEF workRest, memVars, unitVars, dispVars, procVars, counters

LEMMA CopyRequestInv ==
  ASSUME LifeInv, NEW w0, w0 \in Worker,
         wpc[w0] = "copy",
         wpc' = [wpc EXCEPT ![w0] = "scan"],
         work' \in {work, [work EXCEPT ![w0] = NULL]},
         UNCHANGED <<param, mpc, mem, frees, proc_entries, nr_io_units, io_unit_stat, units, nr_sq,
                    dpc, proc_turn, flush, scanned, should_stop, ppc, stat_sq, writes>>
  PROVE  LifeInv'
  <1> USE DEF LifeInv
  <1>1. /\ w0 \in Worker
        /\ wpc[w0] = "copy"
        /\ wpc' = [wpc EXCEPT ![w0] = "scan"]
        /\ work' \in {work, [work EXCEPT ![w0] = NULL]}
        /\ UNCHANGED <<param, mpc, mem, frees, proc_entries, nr_io_units, io_unit_stat, units, nr_sq,
                    dpc, proc_turn, flush, scanned, should_stop, ppc, stat_sq, writes>>
    OBVIOUS
  <1>2. /\ mem' \in [Object -> {"none", "live", "deleted", "freed"}] /\ frees' \in [Object -> Nat]
        /\ \A o \in Object : mem'[o] = mem[o]
        /\ FreesInv'
    BY <1>1 DEF FreesInv, Types
  <1>10. /\ wpc' \in [Worker -> {"none", "dead", "top", "copy", "scan"}]
         /\ \A w \in Worker : w # w0 => wpc'[w] = wpc[w]
         /\ wpc[w0] \notin {"none", "dead"} /\ wpc'[w0] # "none"
    BY <1>1 DEF Types
  <1>11. \A w \in Worker : /\ wpc'[w] = "none" <=> wpc[w] = "none"
                           /\ wpc[w] = "dead" => wpc'[w] = "dead"
    BY <1>10
  <1>12. \A q \in 0 .. nr_sq : q # NULL => q \in Qid
    <2>1. nr_sq \in Nat /\ NR_MAX_IO_QUEUE \in Nat /\ nr_sq <= NR_MAX_IO_QUEUE
      BY Basics DEF Types
    <2> QED
      BY <2>1 DEF Qid, NULL
  <1>13. \A q \in Qid : mem'[Queue(q)] = mem[Queue(q)]
    BY <1>2, Kinds
  <1>14. /\ \A w \in Worker : w # w0 => work'[w] = work[w]
         /\ work'[w0] \in {work[w0], NULL} /\ wpc'[w0] = "scan"
         /\ work' \in [Worker -> 0 .. nr_sq]
    <2>1. /\ work \in [Worker -> 0 .. nr_sq] /\ NULL \in 0 .. nr_sq
          /\ wpc \in [Worker -> {"none", "dead", "top", "copy", "scan"}]
      <3>1. nr_sq \in Nat
        BY Basics DEF Types
      <3>2. NULL \in 0 .. nr_sq
        BY <3>1 DEF NULL
      <3> QED
        BY <3>2 DEF Types
    <2>2. CASE work' = work
      BY <1>1, <2>1, <2>2
    <2>3. CASE work' = [work EXCEPT ![w0] = NULL]
      BY <1>1, <2>1, <2>3
    <2> QED
      BY <1>1, <2>2, <2>3
  <1>3. Types'
    BY <1>1, <1>2, <1>10, <1>14 DEF Types
  <1>4. Threads'
    BY <1>1, <1>11, ThreadsFrame
  <1>5. Fixed'
    BY <1>1, <1>2, <1>11, Kinds, FixedFrame
  <1>6. TablesInv'
    BY <1>1, <1>2, <1>11, Kinds, TablesFrame2
  <1>7. QueuesInv'
    <2>1. ASSUME NEW w \in Worker
          PROVE  /\ work'[w] # NULL /\ mpc \notin Ending => mem'[Queue(work'[w])] = "live"
                 /\ wpc'[w] = "copy" => work'[w] # NULL
                 /\ wpc'[w] # "scan" => scanned'[w] = NULL
                 /\ scanned'[w] # NULL => mem'[Queue(scanned'[w])] \in {"live", "deleted"}
      <3>1. /\ work[w] \in 0 .. nr_sq /\ (work[w] # NULL => work[w] \in Qid)
            /\ scanned[w] \in 0 .. nr_sq /\ (scanned[w] # NULL => scanned[w] \in Qid)
        BY <1>12 DEF Types
      <3>2. CASE w = w0
        BY <1>1, <1>10, <1>13, <1>14, <3>1, <3>2 DEF QueuesInv
      <3>3. CASE w # w0
        BY <1>1, <1>10, <1>13, <1>14, <3>1, <3>3 DEF QueuesInv
      <3> QED
        BY <3>2, <3>3
    <2>2. stat_sq # NULL => stat_sq \in Qid
      BY <1>12 DEF Types
    <2>3. UNCHANGED <<mpc, nr_sq, ppc, stat_sq>>
      BY <1>1
    <2> QED
      BY <1>13, <2>1, <2>2, <2>3 DEF QueuesInv
  <1>8. ArraysInv'
    BY <1>1, <1>2, Kinds, ArraysFrame
  <1>9. FlushInv'
    BY <1>1, FlushFrame
  <1>20. PagesInv'
    BY <1>2, Kinds DEF PagesInv
  <1> QED
    BY <1>2, <1>3, <1>4, <1>5, <1>6, <1>7, <1>8, <1>9, <1>20

LEMMA LoadQueueInv ==
  ASSUME LifeInv, NEW w0, NEW q0, w0 \in Worker,
         wpc[w0] = "scan",
         q0 \in 1 .. nr_sq,
         mem[Queue(q0)] = "live",
         scanned' = [scanned EXCEPT ![w0] = q0],
         UNCHANGED <<param, mpc, mem, frees, proc_entries, nr_io_units, io_unit_stat, units, nr_sq, dpc,
                    proc_turn, flush, wpc, work, should_stop, ppc, stat_sq, writes>>
  PROVE  LifeInv'
  <1> USE DEF LifeInv
  <1>1. /\ w0 \in Worker
        /\ wpc[w0] = "scan"
        /\ q0 \in 1 .. nr_sq
        /\ mem[Queue(q0)] = "live"
        /\ scanned' = [scanned EXCEPT ![w0] = q0]
        /\ UNCHANGED <<param, mpc, mem, frees, proc_entries, nr_io_units, io_unit_stat, units, nr_sq, dpc,
                    proc_turn, flush, wpc, work, should_stop, ppc, stat_sq, writes>>
    OBVIOUS
  <1>2. /\ mem' \in [Object -> {"none", "live", "deleted", "freed"}] /\ frees' \in [Object -> Nat]
        /\ \A o \in Object : mem'[o] = mem[o]
        /\ FreesInv'
    BY <1>1 DEF FreesInv, Types
  <1>12. \A q \in 0 .. nr_sq : q # NULL => q \in Qid
    <2>1. nr_sq \in Nat /\ NR_MAX_IO_QUEUE \in Nat /\ nr_sq <= NR_MAX_IO_QUEUE
      BY Basics DEF Types
    <2> QED
      BY <2>1 DEF Qid, NULL
  <1>13. \A q \in Qid : mem'[Queue(q)] = mem[Queue(q)]
    BY <1>2, Kinds
  <1>10. q0 \in 0 .. nr_sq /\ q0 # NULL /\ q0 \in Qid
    BY <1>1, <1>12 DEF Types, NULL
  <1>14. /\ \A w \in Worker : w # w0 => scanned'[w] = scanned[w]
         /\ scanned'[w0] = q0 /\ scanned' \in [Worker -> 0 .. nr_sq]
    BY <1>1, <1>10 DEF Types
  <1>3. Types'
    BY <1>1, <1>2, <1>14 DEF Types
  <1>4. Threads'
    BY <1>1, ThreadsFrame
  <1>5. Fixed'
    BY <1>1, <1>2, Kinds, FixedFrame
  <1>6. TablesInv'
    BY <1>1, <1>2, Kinds, TablesFrame2
  <1>7. QueuesInv'
    <2>1. ASSUME NEW w \in Worker
          PROVE  /\ work'[w] # NULL /\ mpc \notin Ending => mem'[Queue(work'[w])] = "live"
                 /\ wpc'[w] = "copy" => work'[w] # NULL
                 /\ wpc'[w] # "scan" => scanned'[w] = NULL
                 /\ scanned'[w] # NULL => mem'[Queue(scanned'[w])] \in {"live", "deleted"}
      <3>1. /\ work[w] \in 0 .. nr_sq /\ (work[w] # NULL => work[w] \in Qid)
            /\ scanned[w] \in 0 .. nr_sq /\ (scanned[w] # NULL => scanned[w] \in Qid)
        BY <1>12 DEF Types
      <3>2. CASE w = w0
        BY <1>1, <1>10, <1>13, <1>14, <3>1, <3>2 DEF QueuesInv
      <3>3. CASE w # w0
        BY <1>1, <1>10, <1>13, <1>14, <3>1, <3>3 DEF QueuesInv
      <3> QED
        BY <3>2, <3>3
    <2>2. stat_sq # NULL => stat_sq \in Qid
      BY <1>12 DEF Types
    <2>3. UNCHANGED <<mpc, nr_sq, ppc, stat_sq>>
      BY <1>1
    <2> QED
      BY <1>13, <2>1, <2>2, <2>3 DEF QueuesInv
  <1>8. ArraysInv'
    BY <1>1, <1>2, Kinds, ArraysFrame
  <1>9. FlushInv'
    BY <1>1, FlushFrame
  <1>20. PagesInv'
    BY <1>2, Kinds DEF PagesInv
  <1> QED
    BY <1>2, <1>3, <1>4, <1>5, <1>6, <1>7, <1>8, <1>9, <1>20

LEMMA LeaveScanInv ==
  ASSUME LifeInv, NEW w0, w0 \in Worker,
         wpc[w0] = "scan",
         scanned' \in {scanned, [scanned EXCEPT ![w0] = NULL]},
         scanned[w0] = NULL \/ scanned' = [scanned EXCEPT ![w0] = NULL],
         wpc' = [wpc EXCEPT ![w0] = "top"],
         UNCHANGED <<param, mpc, mem, frees, proc_entries, nr_io_units, io_unit_stat, units, nr_sq,
                    dpc, proc_turn, flush, work, should_stop, ppc, stat_sq, writes>>
  PROVE  LifeInv'
  <1> USE DEF LifeInv
  <1>1. /\ w0 \in Worker
        /\ wpc[w0] = "scan"
        /\ scanned' \in {scanned, [scanned EXCEPT ![w0] = NULL]}
        /\ scanned[w0] = NULL \/ scanned' = [scanned EXCEPT ![w0] = NULL]
        /\ wpc' = [wpc EXCEPT ![w0] = "top"]
        /\ UNCHANGED <<param, mpc, mem, frees, proc_entries, nr_io_units, io_unit_stat, units, nr_sq,
                    dpc, proc_turn, flush, work, should_stop, ppc, stat_sq, writes>>
    OBVIOUS
  <1>2. /\ mem' \in [Object -> {"none", "live", "deleted", "freed"}] /\ frees' \in [Object -> Nat]
        /\ \A o \in Object : mem'[o] = mem[o]
        /\ FreesInv'
    BY <1>1 DEF FreesInv, Types
  <1>10. /\ wpc' \in [Worker -> {"none", "dead", "top", "copy", "scan"}]
         /\ \A w \in Worker : w # w0 => wpc'[w] = wpc[w]
         /\ wpc[w0] \notin {"none", "dead"} /\ wpc'[w0] # "none"
    BY <1>1 DEF Types
  <1>11. \A w \in Worker : /\ wpc'[w] = "none" <=> wpc[w] = "none"
                           /\ wpc[w] = "dead" => wpc'[w] = "dead"
    BY <1>10
  <1>12. \A q \in 0 .. nr_sq : q # NULL => q \in Qid
    <2>1. nr_sq \in Nat /\ NR_MAX_IO_QUEUE \in Nat /\ nr_sq <= NR_MAX_IO_QUEUE
      BY Basics DEF Types
    <2> QED
      BY <2>1 DEF Qid, NULL
  <1>13. \A q \in Qid : mem'[Queue(q)] = mem[Queue(q)]
    BY <1>2, Kinds
  <1>14. /\ \A w \in Worker : w # w0 => scanned'[w] = scanned[w]
         /\ scanned'[w0] = NULL /\ wpc'[w0] = "top"
         /\ scanned' \in [Worker -> 0 .. nr_sq]
    <2>1. scanned \in [Worker -> 0 .. nr_sq] /\ wpc'[w0] = "top"
      BY <1>1 DEF Types
    <2>3. nr_sq \in Nat
      BY Basics DEF Types
    <2>2. NULL \in 0 .. nr_sq
      BY <2>3 DEF NULL
    <2> QED
      BY <1>1, <2>1, <2>2
  <1>3. Types'
    BY <1>1, <1>2, <1>10, <1>14 DEF Types
  <1>4. Threads'
    BY <1>1, <1>11, ThreadsFrame
  <1>5. Fixed'
    BY <1>1, <1>2, <1>11, Kinds, FixedFrame
  <1>6. TablesInv'
    BY <1>1, <1>2, <1>11, Kinds, TablesFrame2
  <1>7. QueuesInv'
    <2>1. ASSUME NEW w \in Worker
          PROVE  /\ work'[w] # NULL /\ mpc \notin Ending => mem'[Queue(work'[w])] = "live"
                 /\ wpc'[w] = "copy" => work'[w] # NULL
                 /\ wpc'[w] # "scan" => scanned'[w] = NULL
                 /\ scanned'[w] # NULL => mem'[Queue(scanned'[w])] \in {"live", "deleted"}
      <3>1. /\ work[w] \in 0 .. nr_sq /\ (work[w] # NULL => work[w] \in Qid)
            /\ scanned[w] \in 0 .. nr_sq /\ (scanned[w] # NULL => scanned[w] \in Qid)
        BY <1>12 DEF Types
      <3>2. CASE w = w0
        BY <1>1, <1>10, <1>13, <1>14, <3>1, <3>2 DEF QueuesInv
      <3>3. CASE w # w0
        BY <1>1, <1>10, <1>13, <1>14, <3>1, <3>3 DEF QueuesInv
      <3> QED
        BY <3>2, <3>3
    <2>2. stat_sq # NULL => stat_sq \in Qid
      BY <1>12 DEF Types
    <2>3. UNCHANGED <<mpc, nr_sq, ppc, stat_sq>>
      BY <1>1
    <2> QED
      BY <1>13, <2>1, <2>2, <2>3 DEF QueuesInv
  <1>8. ArraysInv'
    BY <1>1, <1>2, Kinds, ArraysFrame
  <1>9. FlushInv'
    BY <1>1, FlushFrame
  <1>20. PagesInv'
    BY <1>2, Kinds DEF PagesInv
  <1> QED
    BY <1>2, <1>3, <1>4, <1>5, <1>6, <1>7, <1>8, <1>9, <1>20

LEMMA WorkerStepInv ==
  ASSUME LifeInv, NEW w \in Worker, WorkerStep(w)
  PROVE  LifeInv'
  <1> USE DEF workRest, memVars, unitVars, dispVars, procVars, counters
  <1>1. CASE WorkerTop(w)
    BY <1>1, WorkerTopInv
  <1>2. CASE PerformIo(w)
    BY <1>2, CopyRequestInv DEF PerformIo
  <1>3. CASE ScanLoad(w)
    BY <1>3, LoadQueueInv, LeaveScanInv DEF ScanLoad, Queue
  <1>4. CASE ScanUse(w)
    BY <1>4, LeaveScanInv DEF ScanUse
  <1> QED
    BY <1>1, <1>2, <1>3, <1>4 DEF WorkerStep

(* Somebody is in the files, or may come into them. *)
LEMMA InFiles ==
  ASSUME LifeInv, proc_entries \/ ppc # "idle"
  PROVE  /\ MaxWrites \in Nat /\ writes \in Nat /\ writes <= MaxWrites
         /\ io_unit_stat \in -1 .. MaxWrites
         /\ flush \in [i : Nat, nr : Nat, stat : -1 .. MaxWrites, overlapped : BOOLEAN]
         /\ mpc \in WithArray /\ mpc \notin Ending /\ mpc # "gone"
         /\ io_unit_stat # -1 /\ mpc # "remove_bus" /\ mpc \notin NotYetMapped \union {"storage"}
  <1> USE DEF LifeInv
  <1>1. mpc \in WithArray
    BY Running
  <1>2. /\ mpc \notin Ending /\ mpc # "gone" /\ mpc # "remove_bus"
        /\ mpc \notin NotYetMapped \union {"storage"}
    BY <1>1 DEF Ending, NotYetMapped, WithArray, WithWorkers, Complete
  <1>3. io_unit_stat # -1
    BY <1>1 DEF ArraysInv
  <1>4. MaxWrites \in Nat /\ writes \in Nat /\ writes <= MaxWrites
    BY Basics DEF Types
  <1>5. /\ io_unit_stat \in -1 .. MaxWrites
        /\ flush \in [i : Nat, nr : Nat, stat : -1 .. MaxWrites, overlapped : BOOLEAN]
    BY DEF Types
  <1> QED
    BY <1>1, <1>2, <1>3, <1>4, <1>5

LEMMA WriteIoUnitsInv ==
  ASSUME LifeInv, NEW n \in IoUnits,
         WriteIoUnits(n)
  PROVE  LifeInv'
  <1> USE DEF LifeInv
  <1>1. /\ proc_entries /\ ppc = "idle" /\ writes < MaxWrites
        /\ ppc' = "allocate"
        /\ writes' = writes + 1
        /\ n \in IoUnits
        /\ nr_io_units' = n
        /\ flush' = [flush EXCEPT !.overlapped = InFlush]
        /\ UNCHANGED <<param, mpc, mem, frees, proc_entries, io_unit_stat, units, nr_sq,
                    dpc, proc_turn, wpc, work, scanned, should_stop, stat_sq>>
    BY DEF WriteIoUnits, memVars, workVars
  <1>2. /\ mem' \in [Object -> {"none", "live", "deleted", "freed"}] /\ frees' \in [Object -> Nat]
        /\ \A o \in Object : mem'[o] = mem[o]
        /\ FreesInv'
    BY <1>1 DEF FreesInv, Types
  <1>10. /\ MaxWrites \in Nat /\ writes \in Nat /\ writes <= MaxWrites
         /\ io_unit_stat \in -1 .. MaxWrites
         /\ flush \in [i : Nat, nr : Nat, stat : -1 .. MaxWrites, overlapped : BOOLEAN]
         /\ mpc \in WithArray /\ mpc \notin Ending /\ mpc # "gone"
         /\ io_unit_stat # -1 /\ mpc # "remove_bus" /\ mpc \notin NotYetMapped \union {"storage"}
    BY <1>1, InFiles
  <1>11. n \in Nat /\ writes + 1 \in 0 .. MaxWrites /\ writes = io_unit_stat
    BY <1>1, <1>10, Basics DEF ArraysInv
  <1>12. /\ flush'.i = flush.i /\ flush'.nr = flush.nr /\ flush'.stat = flush.stat
         /\ flush' \in [i : Nat, nr : Nat, stat : -1 .. MaxWrites, overlapped : BOOLEAN]
    <2>1. InFlush \in BOOLEAN
      BY DEF InFlush
    <2> QED
      BY <1>1, <1>10, <2>1
  <1>13. InFlush' <=> InFlush
    BY <1>1 DEF InFlush
  <1>14. InFlush => flush'.overlapped
    BY <1>1, <1>10
  <1>3. Types'
    BY <1>1, <1>2, <1>11, <1>12 DEF Types
  <1>4. Threads'
    BY <1>1, ThreadsFrame
  <1>5. Fixed'
    BY <1>1, <1>2, Kinds, FixedFrame
  <1>6. TablesInv'
    BY <1>1, <1>2, Kinds, TablesFrame2
  <1>7. QueuesInv'
    <2>1. \A q \in 0 .. nr_sq : q # NULL => q \in Qid
      BY Basics DEF Types, Qid, NULL
    <2>2. \A q \in Qid : mem'[Queue(q)] = mem[Queue(q)]
      BY <1>2, Kinds
    <2>3. ASSUME NEW w \in Worker
          PROVE  /\ work[w] # NULL /\ mpc \notin Ending => mem'[Queue(work[w])] = "live"
                 /\ scanned[w] # NULL => mem'[Queue(scanned[w])] \in {"live", "deleted"}
      <3>1. /\ work[w] # NULL => work[w] \in Qid
            /\ scanned[w] # NULL => scanned[w] \in Qid
        BY <2>1 DEF Types
      <3> QED
        BY <2>2, <3>1 DEF QueuesInv
    <2>4. UNCHANGED <<mpc, nr_sq, work, scanned, wpc>>
      BY <1>1
    <2>5. ppc' # "stat" /\ stat_sq' = NULL
      BY <1>1 DEF QueuesInv
    <2> QED
      BY <2>2, <2>3, <2>4, <2>5 DEF QueuesInv
  <1>8. ArraysInv'
    <2>1. \A k \in 0 .. MaxWrites : mem'[Array(k)] = mem[Array(k)]
      BY <1>2, Kinds
    <2> QED
      BY <1>1, <1>10, <1>11, <2>1 DEF ArraysInv
  <1>9. FlushInv'
    BY <1>1, <1>12, <1>13, <1>14 DEF FlushInv, InFlush
  <1>20. PagesInv'
    BY <1>2, Kinds DEF PagesInv
  <1> QED
    BY <1>2, <1>3, <1>4, <1>5, <1>6, <1>7, <1>8, <1>9, <1>20

LEMMA NewUnitsInv == LifeInv /\ NewUnits => LifeInv'
  <1> SUFFICES ASSUME LifeInv, NewUnits PROVE LifeInv'
    OBVIOUS
  <1> USE DEF LifeInv
  <1>1. /\ ppc = "allocate"
        /\ ppc' = "delay"
        /\ Alloc({Array(writes)})
        /\ io_unit_stat' = writes
        /\ units' = [units EXCEPT ![writes] = nr_io_units]
        /\ UNCHANGED <<param, mpc, proc_entries, nr_io_units, nr_sq, dpc, proc_turn, flush,
                    wpc, work, scanned, should_stop, stat_sq, writes>>
    BY DEF NewUnits, Array, procRest, memVars, unitVars, dispVars, workVars
  <1>10. /\ MaxWrites \in Nat /\ writes \in Nat /\ writes <= MaxWrites
         /\ io_unit_stat \in -1 .. MaxWrites
         /\ flush \in [i : Nat, nr : Nat, stat : -1 .. MaxWrites, overlapped : BOOLEAN]
         /\ mpc \in WithArray /\ mpc \notin Ending /\ mpc # "gone"
         /\ io_unit_stat # -1 /\ mpc # "remove_bus" /\ mpc \notin NotYetMapped \union {"storage"}
    BY <1>1, InFiles
  <1>11. writes > 0 /\ io_unit_stat = writes - 1 /\ writes \in 0 .. MaxWrites
    BY <1>1, <1>10 DEF ArraysInv
  <1>2. /\ mem' \in [Object -> {"none", "live", "deleted", "freed"}] /\ frees' \in [Object -> Nat]
        /\ \A o \in Object : mem'[o] = IF o \in {Array(writes)} THEN "live" ELSE mem[o]
        /\ FreesInv'
    <2>1. \A o \in {Array(writes)} : o \in Object => mem[o] # "freed"
      BY <1>10, <1>11 DEF ArraysInv
    <2> QED
      BY <1>1, <1>10, <2>1, AllocEffect
  <1>3. Types'
    <2>1. units' \in [0 .. MaxWrites -> Nat]
      BY <1>1 DEF Types
    <2>2. io_unit_stat' \in -1 .. MaxWrites
      BY <1>1, <1>10
    <2> QED
      BY <1>1, <1>2, <2>1, <2>2 DEF Types
  <1>4. Threads'
    BY <1>1, ThreadsFrame
  <1>5. Fixed'
    BY <1>1, <1>2, Kinds, FixedFrame
  <1>6. TablesInv'
    BY <1>1, <1>2, Kinds, TablesFrame2
  <1>7. QueuesInv'
    <2>1. \A q \in 0 .. nr_sq : q # NULL => q \in Qid
      BY Basics DEF Types, Qid, NULL
    <2>2. \A q \in Qid : mem'[Queue(q)] = mem[Queue(q)]
      BY <1>2, Kinds
    <2>3. ASSUME NEW w \in Worker
          PROVE  /\ work[w] # NULL /\ mpc \notin Ending => mem'[Queue(work[w])] = "live"
                 /\ scanned[w] # NULL => mem'[Queue(scanned[w])] \in {"live", "deleted"}
      <3>1. /\ work[w] # NULL => work[w] \in Qid
            /\ scanned[w] # NULL => scanned[w] \in Qid
        BY <2>1 DEF Types
      <3> QED
        BY <2>2, <3>1 DEF QueuesInv
    <2>4. UNCHANGED <<mpc, nr_sq, work, scanned, wpc>>
      BY <1>1
    <2>5. ppc' # "stat" /\ stat_sq' = NULL
      BY <1>1 DEF QueuesInv
    <2> QED
      BY <2>2, <2>3, <2>4, <2>5 DEF QueuesInv
  <1>8. ArraysInv'
    <2>1. ASSUME NEW k \in 0 .. MaxWrites
          PROVE  mem'[Array(k)] = IF k > writes THEN "none"
                                  ELSE IF k = writes \/ k = writes - 1 THEN "live" ELSE "freed"
      <3>1. mem[Array(k)] = IF k > writes - 1 THEN "none" ELSE IF k = writes - 1 THEN "live" ELSE "freed"
        BY <1>1, <1>10, <1>11 DEF ArraysInv
      <3>2. mem'[Array(k)] = IF k = writes THEN "live" ELSE mem[Array(k)]
        BY <1>2, Kinds
      <3> QED
        BY <1>10, <3>1, <3>2
    <2>2. units'[writes] = nr_io_units
      BY <1>1, <1>11 DEF Types
    <2> QED
      BY <1>1, <1>10, <1>11, <2>1, <2>2 DEF ArraysInv
  <1>9. FlushInv'
    BY <1>1, <1>10, <1>11 DEF FlushInv, InFlush
  <1>20. PagesInv'
    BY <1>2, Kinds DEF PagesInv
  <1> QED
    BY <1>2, <1>3, <1>4, <1>5, <1>6, <1>7, <1>8, <1>9, <1>20

LEMMA FreeOldUnitsInv == LifeInv /\ FreeOldUnits => LifeInv'
  <1> SUFFICES ASSUME LifeInv, FreeOldUnits PROVE LifeInv'
    OBVIOUS
  <1> USE DEF LifeInv
  <1>1. /\ ppc = "delay"
        /\ ppc' = "idle"
        /\ ~(InFlush /\ flush.overlapped)
        /\ Free({Array(writes - 1)})
        /\ UNCHANGED <<param, mpc, proc_entries, nr_io_units, io_unit_stat, units, nr_sq, dpc, proc_turn,
                    flush, wpc, work, scanned, should_stop, stat_sq, writes>>
    BY DEF FreeOldUnits, Array, procRest, memVars, unitVars, dispVars, workVars
  <1>10. /\ MaxWrites \in Nat /\ writes \in Nat /\ writes <= MaxWrites
         /\ io_unit_stat \in -1 .. MaxWrites
         /\ flush \in [i : Nat, nr : Nat, stat : -1 .. MaxWrites, overlapped : BOOLEAN]
         /\ mpc \in WithArray /\ mpc \notin Ending /\ mpc # "gone"
         /\ io_unit_stat # -1 /\ mpc # "remove_bus" /\ mpc \notin NotYetMapped \union {"storage"}
    BY <1>1, InFiles
  <1>11. writes > 0 /\ io_unit_stat = writes /\ writes - 1 \in 0 .. MaxWrites
    BY <1>1, <1>10 DEF ArraysInv
  <1>2. /\ mem' \in [Object -> {"none", "live", "deleted", "freed"}] /\ frees' \in [Object -> Nat]
        /\ \A o \in Object : mem'[o] = IF o \in {Array(writes - 1)} /\ mem[o] = "live" THEN "freed"
                                       ELSE mem[o]
        /\ FreesInv'
    <2>1. \A o \in {Array(writes - 1)} : o \in Object => mem[o] # "freed"
      BY <1>1, <1>10, <1>11 DEF ArraysInv
    <2> QED
      BY <1>1, <1>10, <2>1, FreeEffect
  <1>3. Types'
    BY <1>1, <1>2 DEF Types
  <1>4. Threads'
    BY <1>1, ThreadsFrame
  <1>5. Fixed'
    BY <1>1, <1>2, Kinds, FixedFrame
  <1>6. TablesInv'
    BY <1>1, <1>2, Kinds, TablesFrame2
  <1>7. QueuesInv'
    <2>1. \A q \in 0 .. nr_sq : q # NULL => q \in Qid
      BY Basics DEF Types, Qid, NULL
    <2>2. \A q \in Qid : mem'[Queue(q)] = mem[Queue(q)]
      BY <1>2, Kinds
    <2>3. ASSUME NEW w \in Worker
          PROVE  /\ work[w] # NULL /\ mpc \notin Ending => mem'[Queue(work[w])] = "live"
                 /\ scanned[w] # NULL => mem'[Queue(scanned[w])] \in {"live", "deleted"}
      <3>1. /\ work[w] # NULL => work[w] \in Qid
            /\ scanned[w] # NULL => scanned[w] \in Qid
        BY <2>1 DEF Types
      <3> QED
        BY <2>2, <3>1 DEF QueuesInv
    <2>4. UNCHANGED <<mpc, nr_sq, work, scanned, wpc>>
      BY <1>1
    <2>5. ppc' # "stat" /\ stat_sq' = NULL
      BY <1>1 DEF QueuesInv
    <2> QED
      BY <2>2, <2>3, <2>4, <2>5 DEF QueuesInv
  <1>8. ArraysInv'
    <2>1. ASSUME NEW k \in 0 .. MaxWrites
          PROVE  mem'[Array(k)] = IF k > writes THEN "none" ELSE IF k = writes THEN "live" ELSE "freed"
      <3>1. mem[Array(k)] = IF k > writes THEN "none"
                            ELSE IF k = writes \/ k = writes - 1 THEN "live" ELSE "freed"
        BY <1>1, <1>10, <1>11 DEF ArraysInv
      <3>2. mem'[Array(k)] = IF k = writes - 1 /\ mem[Array(k)] = "live" THEN "freed" ELSE mem[Array(k)]
        BY <1>2, Kinds
      <3> QED
        BY <1>10, <3>1, <3>2
    <2> QED
      BY <1>1, <1>10, <1>11, <2>1 DEF ArraysInv
  <1>9. FlushInv'
    BY <1>1 DEF FlushInv, InFlush
  <1>20. PagesInv'
    BY <1>2, Kinds DEF PagesInv
  <1> QED
    BY <1>2, <1>3, <1>4, <1>5, <1>6, <1>7, <1>8, <1>9, <1>20

LEMMA StatLoadInv == LifeInv /\ StatLoad => LifeInv'
  <1> SUFFICES ASSUME LifeInv, StatLoad PROVE LifeInv'
    OBVIOUS
  <1> USE DEF LifeInv
  <1>1. /\ proc_entries /\ ppc = "idle"
        /\ ppc' = "stat"
        /\ \E q \in 1 .. nr_sq : mem[Queue(q)] = "live" /\ stat_sq' = q
        /\ UNCHANGED <<param, mpc, mem, frees, proc_entries, nr_io_units, io_unit_stat, units, nr_sq,
                    dpc, proc_turn, flush, wpc, work, scanned, should_stop, writes>>
    BY DEF StatLoad, Queue, procRest, memVars, unitVars, dispVars, workVars
  <1>2. /\ mem' \in [Object -> {"none", "live", "deleted", "freed"}] /\ frees' \in [Object -> Nat]
        /\ \A o \in Object : mem'[o] = mem[o]
        /\ FreesInv'
    BY <1>1 DEF FreesInv, Types
  <1>10. /\ MaxWrites \in Nat /\ writes \in Nat /\ writes <= MaxWrites
         /\ io_unit_stat \in -1 .. MaxWrites
         /\ flush \in [i : Nat, nr : Nat, stat : -1 .. MaxWrites, overlapped : BOOLEAN]
         /\ mpc \in WithArray /\ mpc \notin Ending /\ mpc # "gone"
         /\ io_unit_stat # -1 /\ mpc # "remove_bus" /\ mpc \notin NotYetMapped \union {"storage"}
    BY <1>1, InFiles
  <1>11. stat_sq' \in 0 .. nr_sq /\ stat_sq' # NULL /\ mem[Queue(stat_sq')] = "live"
    <2>1. nr_sq \in Nat
      BY Basics DEF Types
    <2> QED
      BY <1>1, <2>1 DEF NULL
  <1>12. stat_sq' \in Qid
    BY <1>11, Basics DEF Types, Qid, NULL
  <1>3. Types'
    BY <1>1, <1>2, <1>11 DEF Types
  <1>4. Threads'
    BY <1>1, ThreadsFrame
  <1>5. Fixed'
    BY <1>1, <1>2, Kinds, FixedFrame
  <1>6. TablesInv'
    BY <1>1, <1>2, Kinds, TablesFrame2
  <1>7. QueuesInv'
    <2>1. \A q \in 0 .. nr_sq : q # NULL => q \in Qid
      BY Basics DEF Types, Qid, NULL
    <2>2. \A q \in Qid : mem'[Queue(q)] = mem[Queue(q)]
      BY <1>2, Kinds
    <2>3. ASSUME NEW w \in Worker
          PROVE  /\ work[w] # NULL /\ mpc \notin Ending => mem'[Queue(work[w])] = "live"
                 /\ scanned[w] # NULL => mem'[Queue(scanned[w])] \in {"live", "deleted"}
      <3>1. /\ work[w] # NULL => work[w] \in Qid
            /\ scanned[w] # NULL => scanned[w] \in Qid
        BY <2>1 DEF Types
      <3> QED
        BY <2>2, <3>1 DEF QueuesInv
    <2>4. UNCHANGED <<mpc, nr_sq, work, scanned, wpc>>
      BY <1>1
    <2>5. stat_sq' # NULL /\ mem'[Queue(stat_sq')] \in {"live", "deleted"} /\ ppc' = "stat"
      BY <1>1, <1>11, <1>12, <2>2
    <2> QED
      BY <2>2, <2>3, <2>4, <2>5 DEF QueuesInv
  <1>8. ArraysInv'
    <2>1. \A k \in 0 .. MaxWrites : mem'[Array(k)] = mem[Array(k)]
      BY <1>2, Kinds
    <2> QED
      BY <1>1, <1>10, <2>1 DEF ArraysInv
  <1>9. FlushInv'
    BY <1>1 DEF FlushInv, InFlush
  <1>20. PagesInv'
    BY <1>2, Kinds DEF PagesInv
  <1> QED
    BY <1>2, <1>3, <1>4, <1>5, <1>6, <1>7, <1>8, <1>9, <1>20

LEMMA StatUseInv == LifeInv /\ StatUse => LifeInv'
  <1> SUFFICES ASSUME LifeInv, StatUse PROVE LifeInv'
    OBVIOUS
  <1> USE DEF LifeInv
  <1>1. /\ ppc = "stat"
        /\ ppc' = "idle"
        /\ stat_sq' = NULL
        /\ UNCHANGED <<param, mpc, mem, frees, proc_entries, nr_io_units, io_unit_stat, units, nr_sq,
                    dpc, proc_turn, flush, wpc, work, scanned, should_stop, writes>>
    BY DEF StatUse, Queue, procRest, memVars, unitVars, dispVars, workVars
  <1>2. /\ mem' \in [Object -> {"none", "live", "deleted", "freed"}] /\ frees' \in [Object -> Nat]
        /\ \A o \in Object : mem'[o] = mem[o]
        /\ FreesInv'
    BY <1>1 DEF FreesInv, Types
  <1>10. /\ MaxWrites \in Nat /\ writes \in Nat /\ writes <= MaxWrites
         /\ io_unit_stat \in -1 .. MaxWrites
         /\ flush \in [i : Nat, nr : Nat, stat : -1 .. MaxWrites, overlapped : BOOLEAN]
         /\ mpc \in WithArray /\ mpc \notin Ending /\ mpc # "gone"
         /\ io_unit_stat # -1 /\ mpc # "remove_bus" /\ mpc \notin NotYetMapped \union {"storage"}
    BY <1>1, InFiles
  <1>11. stat_sq' \in 0 .. nr_sq
    BY <1>1, Basics DEF Types, NULL
  <1>3. Types'
    BY <1>1, <1>2, <1>11 DEF Types
  <1>4. Threads'
    BY <1>1, ThreadsFrame
  <1>5. Fixed'
    BY <1>1, <1>2, Kinds, FixedFrame
  <1>6. TablesInv'
    BY <1>1, <1>2, Kinds, TablesFrame2
  <1>7. QueuesInv'
    <2>1. \A q \in 0 .. nr_sq : q # NULL => q \in Qid
      BY Basics DEF Types, Qid, NULL
    <2>2. \A q \in Qid : mem'[Queue(q)] = mem[Queue(q)]
      BY <1>2, Kinds
    <2>3. ASSUME NEW w \in Worker
          PROVE  /\ work[w] # NULL /\ mpc \notin Ending => mem'[Queue(work[w])] = "live"
                 /\ scanned[w] # NULL => mem'[Queue(scanned[w])] \in {"live", "deleted"}
      <3>1. /\ work[w] # NULL => work[w] \in Qid
            /\ scanned[w] # NULL => scanned[w] \in Qid
        BY <2>1 DEF Types
      <3> QED
        BY <2>2, <3>1 DEF QueuesInv
    <2>4. UNCHANGED <<mpc, nr_sq, work, scanned, wpc>>
      BY <1>1
    <2>5. ppc' # "stat" /\ stat_sq' = NULL
      BY <1>1
    <2> QED
      BY <2>2, <2>3, <2>4, <2>5 DEF QueuesInv
  <1>8. ArraysInv'
    <2>1. \A k \in 0 .. MaxWrites : mem'[Array(k)] = mem[Array(k)]
      BY <1>2, Kinds
    <2> QED
      BY <1>1, <1>10, <2>1 DEF ArraysInv
  <1>9. FlushInv'
    BY <1>1 DEF FlushInv, InFlush
  <1>20. PagesInv'
    BY <1>2, Kinds DEF PagesInv
  <1> QED
    BY <1>2, <1>3, <1>4, <1>5, <1>6, <1>7, <1>8, <1>9, <1>20

-----------------------------------------------------------------------------
(* The theorems *)

LEMMA LoaderInv == LifeInv /\ Loader => LifeInv'
  BY VDEV_INITInv, __load_configsInv, ssd_initInv, NVMEV_PCI_INITInv, NVMEV_STORAGE_INITInv,
     NVMEV_IO_PROC_INITInv, NVMEV_DISPATCHER_INITInv, NVMEV_REG_PROC_FINALInv,
     NVMEV_IO_PROC_FINALInv, NVMEV_STORAGE_FINALInv, NVMeV_exitInv, VDEV_FINALIZEInv
  DEF Loader

LEMMA StutterInv ==
  ASSUME LifeInv, UNCHANGED vars
  PROVE  LifeInv'
  <1> USE DEF LifeInv
  <1>1. /\ UNCHANGED <<param, mpc, mem, frees, proc_entries, nr_io_units, io_unit_stat, units, nr_sq, dpc,
                    proc_turn, flush, wpc, work, scanned, should_stop, ppc, stat_sq, writes>>
    BY DEF vars
  <1>2. /\ mem' \in [Object -> {"none", "live", "deleted", "freed"}] /\ frees' \in [Object -> Nat]
        /\ \A o \in Object : mem'[o] = mem[o]
        /\ FreesInv'
    BY <1>1 DEF FreesInv, Types
  <1>3. Types'
    BY <1>1, <1>2 DEF Types
  <1>4. Threads'
    BY <1>1 DEF Threads
  <1>5. Fixed'
    BY <1>1, <1>2, Kinds, FixedFrame
  <1>6. TablesInv'
    BY <1>1, <1>2, Kinds, TablesFrame2
  <1>7. QueuesInv'
    <2>1. \A q \in 0 .. nr_sq : q # NULL => q \in Qid
      BY Basics DEF Types, Qid, NULL
    <2>2. \A q \in Qid : mem'[Queue(q)] = mem[Queue(q)]
      BY <1>2, Kinds
    <2>3. ASSUME NEW w \in Worker
          PROVE  /\ work[w] # NULL /\ mpc \notin Ending => mem'[Queue(work[w])] = "live"
                 /\ scanned[w] # NULL => mem'[Queue(scanned[w])] \in {"live", "deleted"}
      <3>1. /\ work[w] # NULL => work[w] \in Qid
            /\ scanned[w] # NULL => scanned[w] \in Qid
        BY <2>1 DEF Types
      <3> QED
        BY <2>2, <3>1 DEF QueuesInv
    <2>4. UNCHANGED <<mpc, nr_sq, work, scanned, wpc>>
      BY <1>1
    <2>5. UNCHANGED <<ppc, stat_sq>>
      BY <1>1
    <2>6. stat_sq # NULL => stat_sq \in Qid
      BY <2>1 DEF Types
    <2> QED
      BY <2>2, <2>3, <2>4, <2>5, <2>6 DEF QueuesInv
  <1>8. ArraysInv'
    BY <1>1, <1>2, Kinds, ArraysFrame
  <1>9. FlushInv'
    BY <1>1, FlushFrame
  <1>20. PagesInv'
    BY <1>2, Kinds DEF PagesInv
  <1> QED
    BY <1>2, <1>3, <1>4, <1>5, <1>6, <1>7, <1>8, <1>9, <1>20

LEMMA LifeStep == LifeInv /\ [Next]_vars => LifeInv'
  <1> SUFFICES ASSUME LifeInv, [Next]_vars PROVE LifeInv'
    OBVIOUS
  <1>1. CASE Loader
    BY <1>1, LoaderInv
  <1>2. CASE Unload
    BY <1>2, UnloadInv
  <1>3. CASE DispatcherStep
    BY <1>3, DispatcherStepInv
  <1>4. CASE ProcStep
    BY <1>4, NewUnitsInv, FreeOldUnitsInv, StatUseInv DEF ProcStep
  <1>5. CASE StatLoad
    BY <1>5, StatLoadInv
  <1>6. ASSUME NEW w \in Worker, WorkerStep(w) PROVE LifeInv'
    BY <1>6, WorkerStepInv
  <1>7. ASSUME NEW n \in IoUnits, WriteIoUnits(n) PROVE LifeInv'
    BY <1>7, WriteIoUnitsInv
  <1>8. CASE UNCHANGED vars
    BY <1>8, StutterInv
  <1> QED
    BY <1>1, <1>2, <1>3, <1>4, <1>5, <1>6, <1>7, <1>8 DEF Next

LEMMA LifeInvariant ==
  ASSUME \A c \in Configs : c.nr_io_cpu > 0
  PROVE  Spec => []LifeInv
  <1>1. Init => LifeInv
    BY LifeInit
  <1> QED
    BY <1>1, LifeStep, PTL DEF Spec

(* Loading and unloading keep all variables in their sets, and the turn of  *)
(* the dispatcher among the workers there are (io.c:173), if there is a cpu *)
(* for a worker; main.c:457-467 counts them and does not look whether there *)
(* are any.                                                                *)
THEOREM TypesAreKept ==
  ASSUME \A c \in Configs : c.nr_io_cpu > 0
  PROVE  Spec => []TypeOK
  <1>1. LifeInv => TypeOK
    <2> SUFFICES ASSUME LifeInv PROVE TypeOK
      OBVIOUS
    <2>1. proc_turn \in Worker
      <3>1. /\ proc_turn \in Nat /\ param.nr_io_cpu \in Nat /\ MaxWorkers \in Nat
            /\ proc_turn < param.nr_io_cpu /\ param.nr_io_cpu <= MaxWorkers
        BY Basics DEF LifeInv, Types
      <3> QED
        BY <3>1 DEF Worker
    <2> QED
      BY <2>1 DEF LifeInv, Types, TypeOK
  <1> QED
    BY <1>1, LifeInvariant, PTL

(* A flush that no write to io_units came between reads no unit past the    *)
(* end of the array it holds, whatever was written before or comes while it *)
(* is under way (io.c:283-297 against main.c:335-345).                      *)
THEOREM FlushStaysInBounds ==
  ASSUME \A c \in Configs : c.nr_io_cpu > 0
  PROVE  Spec => []FlushInBounds
  <1>1. LifeInv => FlushInBounds
    <2> SUFFICES ASSUME LifeInv, dpc = "flush_read", ~flush.overlapped
                 PROVE  flush.i < units[flush.stat]
      BY DEF FlushInBounds
    <2>1. InFlush /\ FlushInv
      BY DEF LifeInv, InFlush
    <2>2. flush.stat = io_unit_stat /\ flush.i < nr_io_units /\ ppc # "allocate"
      BY <2>1 DEF FlushInv
    <2>3. io_unit_stat # -1
      BY Running DEF LifeInv, ArraysInv
    <2>4. units[io_unit_stat] = nr_io_units
      BY <2>2, <2>3 DEF LifeInv, ArraysInv
    <2> QED
      BY <2>2, <2>4
  <1> QED
    BY <1>1, LifeInvariant, PTL

(* Whether loading fails or the module is unloaded, everything that was     *)
(* allocated is freed, once, but for what Leaked names, which is left for   *)
(* good: the FTL's memory, the last queue, the pages of all queues that the *)
(* host did not delete and those of the admin queue; and the array of the   *)
(* I/O units is freed twice (main.c:475-526, pci.c:298-323).                *)
THEOREM AllIsFreed ==
  ASSUME \A c \in Configs : c.nr_io_cpu > 0
  PROVE  Spec => []EachFreedOnce
  <1>1. LifeInv => EachFreedOnce
    <2> SUFFICES ASSUME LifeInv, mpc = "gone", NEW o \in Object
                 PROVE  \/ mem[o] = "none" /\ frees[o] = 0
                        \/ mem[o] = "live" /\ frees[o] = 0 /\ o \in Leaked
                        \/ mem[o] = "deleted" /\ frees[o] = 0 /\ o \in Queues \union QueuePages
                        \/ /\ mem[o] = "freed" /\ o \notin Leaked
                           /\ frees[o] = IF o = <<"io_unit_stat", io_unit_stat>> THEN 2 ELSE 1
      BY DEF EachFreedOnce
    <2>1. frees[o] = IF mem[o] # "freed" THEN 0
                     ELSE IF o = <<"io_unit_stat", io_unit_stat>> THEN 2 ELSE 1
      BY DEF LifeInv, FreesInv, Array
    <2>2. mem[o] \in {"none", "live", "deleted", "freed"}
      BY DEF LifeInv, Types
    <2>7. \A x \in Leaked : \/ x \in Ssd \union AdminPages \/ x = Queue(nr_sq)
                            \/ \E q \in Qid : x = Pages(q) /\ mem[Queue(q)] # "deleted"
      BY DEF Leaked, Queue, Pages
    <2>3. CASE o \in Device \union BusMaps \union AdminQ \union Storage \union Info
      <3>1. mem[o] \in {"none", "freed"}
        BY <2>3 DEF LifeInv, Fixed, DeviceInv, BusInv, AdminInv, StorageInv, InfoInv, Ending
      <3>2. o \notin Leaked
        BY <2>3, <2>7, Kinds
      <3> QED
        BY <2>1, <3>1, <3>2
    <2>8. CASE o \in Ssd \union AdminPages
      <3>1. mem[o] \in {"none", "live"}
        BY <2>8 DEF LifeInv, Fixed, SsdInv, AdminPagesInv
      <3> QED
        BY <2>1, <2>8, <3>1 DEF Leaked
    <2>4. CASE o \in Arrays
      <3>1. PICK k \in 0 .. MaxWrites : o = Array(k)
        BY <2>4 DEF Arrays, Array
      <3>2. mpc \notin WithArray /\ ppc = "idle"
        BY Running DEF LifeInv, ArraysInv, WithArray, WithWorkers, Complete
      <3>3. mem[Array(k)] \in {"none", "freed"}
        BY <3>2 DEF LifeInv, ArraysInv
      <3>4. o \notin Leaked
        BY <2>7, <3>1, Kinds
      <3> QED
        BY <2>1, <3>1, <3>3, <3>4
    <2>5. CASE o \in Queues
      <3>1. PICK q \in Qid : o = Queue(q)
        BY <2>5 DEF Queues, Queue
      <3>2. mem[Queue(q)] = "live" => q = nr_sq
        BY DEF LifeInv, QueuesInv, Ending
      <3>3. mem[o] = "live" => o \in Leaked
        BY <3>1, <3>2 DEF Queue, Leaked
      <3>4. o \in Leaked => q = nr_sq
        BY <2>7, <3>1, Kinds
      <3>5. q = nr_sq => mem[Queue(q)] # "freed"
        BY DEF LifeInv, QueuesInv
      <3> QED
        BY <2>1, <2>2, <2>5, <3>1, <3>3, <3>4, <3>5
    <2>9. CASE o \in QueuePages
      <3>1. PICK q \in Qid : o = Pages(q)
        BY <2>9 DEF QueuePages, Pages
      <3>2. /\ mem[o] = IF mem[Queue(q)] = "freed" THEN "live" ELSE mem[Queue(q)]
            /\ mem[o] # "freed"
        BY <3>1 DEF LifeInv, PagesInv
      <3>3. mem[o] = "live" => mem[Queue(q)] # "deleted"
        BY <3>2
      <3>4. mem[o] = "live" => o \in Leaked
        BY <3>1, <3>3 DEF Leaked, Queue, Pages
      <3> QED
        BY <2>1, <2>2, <2>9, <3>2, <3>4
    <2>6. CASE o \in Tables
      <3>1. PICK w \in Worker : o = Table(w)
        BY <2>6 DEF Tables, Table
      <3>2. mem[Table(w)] \in {"none", "freed"}
        BY DEF LifeInv, TablesInv, WithWorkers, Complete
      <3>3. o \notin Leaked
        BY <2>7, <3>1, Kinds
      <3> QED
        BY <2>1, <3>1, <3>2, <3>3
    <2> QED
      BY <2>3, <2>4, <2>5, <2>6, <2>8, <2>9 DEF Object
  <1> QED
    BY <1>1, LifeInvariant, PTL

(* No thread uses what is not there yet, or not any more: not the           *)
(* dispatcher, not a worker, not who is in a file of the procfs, from        *)
(* insmod to rmmod (main.c:475-526).  A storage that could not be mapped is *)
(* only logged (main.c:400), so that it must be mapped.                    *)
THEOREM OnlyLiveIsUsed ==
  ASSUME \A c \in Configs : c.nr_io_cpu > 0, "storage" \notin MayFail
  PROVE  Spec => []UseOnlyLive
  <1>1. LifeInv => UseOnlyLive
    <2> SUFFICES ASSUME LifeInv PROVE UseOnlyLive
      OBVIOUS
    <2>1. mpc \in WithArray =>
            \A o \in Device \union BusMaps \union Storage \union Ssd : mem[o] = "live"
      BY DEF LifeInv, Fixed, DeviceInv, BusInv, StorageInv, SsdInv, WithBus, WithArray,
             WithWorkers, Complete
    <2>2. mpc \in Complete => \A o \in Info : mem[o] = "live"
      BY DEF LifeInv, Fixed, InfoInv
    <2>3. ASSUME NEW o \in DispatcherUses PROVE mem[o] = "live"
      <3>1. CASE dpc \in {"top", "bars"}
        <4>1. o \in Device \union BusMaps
          BY <3>1 DEF DispatcherUses, Device
        <4> QED
          BY <2>1, <3>1, <4>1, Running
      <3>2. CASE dpc = "admin"
        <4>1. o \in BusMaps \/ (o \in AdminQ \union AdminPages /\ nr_sq # 0)
          BY <3>2 DEF DispatcherUses
        <4>2. o \in AdminQ \union AdminPages /\ nr_sq # 0 => mem[o] = "live"
          BY <3>2, Running DEF LifeInv, Fixed, AdminInv, AdminPagesInv, Ending
        <4> QED
          BY <2>1, <3>2, <4>1, <4>2, Running
      <3>3. CASE dpc = "io"
        <4>1. o \in BusMaps \union Ssd \union Info \/ o = Table(proc_turn)
          BY <3>3 DEF DispatcherUses, BusMaps, Table
        <4>2. mpc \in {"loaded", "reg_proc_final"} /\ mpc \in Complete
          BY <3>3, Running
        <4>3. proc_turn \in Worker /\ wpc[proc_turn] # "none"
          <5>1. proc_turn \in Worker /\ proc_turn < param.nr_io_cpu
            <6>1. /\ proc_turn \in Nat /\ param.nr_io_cpu \in Nat /\ MaxWorkers \in Nat
                  /\ proc_turn < param.nr_io_cpu /\ param.nr_io_cpu <= MaxWorkers
              BY Basics DEF LifeInv, Types
            <6> QED
              BY <6>1 DEF Worker
          <5> QED
            BY <4>2, <5>1 DEF LifeInv, Threads
        <4>4. mem[Table(proc_turn)] # "freed"
          BY <4>2, <4>3 DEF LifeInv, TablesInv, Stopping
        <4> QED
          BY <2>1, <2>2, <4>1, <4>2, <4>3, <4>4, Running DEF LifeInv, TablesInv
      <3>4. CASE dpc = "flush_read"
        <4>1. InFlush /\ o = Array(flush.stat)
          BY <3>4 DEF DispatcherUses, InFlush, Array
        <4>2. flush.stat = io_unit_stat \/ (ppc = "delay" /\ flush.stat = io_unit_stat - 1)
          BY <3>4, <4>1 DEF LifeInv, FlushInv
        <4>3. mpc \in WithArray
          BY <3>4, Running
        <4>4. io_unit_stat \in 0 .. MaxWrites /\ MaxWrites \in Nat
          BY <4>3, Basics DEF LifeInv, ArraysInv, Types
        <4>5. ppc = "delay" => io_unit_stat - 1 \in 0 .. MaxWrites
          BY <4>4 DEF LifeInv, ArraysInv, Types
        <4> QED
          BY <4>1, <4>2, <4>3, <4>4, <4>5 DEF LifeInv, ArraysInv
      <3> QED
        BY <3>1, <3>2, <3>3, <3>4 DEF DispatcherUses
    <2>4. ASSUME NEW o \in ProcUses PROVE mem[o] = "live"
      BY <2>1, Running DEF ProcUses
    <2>5. ASSUME NEW w \in Worker, NEW o \in WorkerUses(w) PROVE mem[o] = "live"
      <3>1. wpc[w] \notin {"none", "dead"}
        BY DEF WorkerUses
      <3>2. mpc \in WithWorkers /\ mem[Table(w)] = "live"
        BY <3>1 DEF LifeInv, Threads, TablesInv
      <3>3. mpc \in WithArray /\ mpc \notin Ending
        BY <3>2 DEF WithArray, WithWorkers, Complete, Ending
      <3>4. \A x \in Info : mem[x] = "live"
        BY <2>2, <3>1, <3>2 DEF LifeInv, Fixed, InfoInv, WithWorkers
      <3>5. wpc[w] = "copy" => mem[Queue(work[w])] = "live"
        BY <3>3 DEF LifeInv, QueuesInv
      <3>7. wpc[w] = "copy" => mem[Pages(work[w])] = "live"
        <4>1. nr_sq \in Nat /\ NR_MAX_IO_QUEUE \in Nat /\ nr_sq <= NR_MAX_IO_QUEUE
          BY Basics DEF LifeInv, Types
        <4>2. wpc[w] = "copy" => work[w] \in Qid
          BY <4>1 DEF LifeInv, Types, QueuesInv, Qid, NULL
        <4> QED
          BY <3>5, <4>2 DEF LifeInv, PagesInv
      <3>6. \/ o \in Info \union Device \/ o = Table(w)
            \/ wpc[w] = "copy" /\ (o \in Storage \/ o = Queue(work[w]) \/ o = Pages(work[w]))
        BY <3>1 DEF WorkerUses, OfQueue, Table, Queue, Pages, Device
      <3> QED
        BY <2>1, <3>2, <3>3, <3>4, <3>5, <3>6, <3>7
    <2>6. ASSUME NEW o \in Loaded PROVE mem[o] \in {"live", "deleted"}
      <3>1. \/ \E w \in Worker : scanned[w] # NULL /\ o = Queue(scanned[w])
            \/ ppc = "stat" /\ o = Queue(stat_sq)
        BY DEF Loaded, Queue
      <3> QED
        BY <3>1 DEF LifeInv, QueuesInv
    <2> QED
      BY <2>3, <2>4, <2>5, <2>6 DEF UseOnlyLive
  <1> QED
    BY <1>1, LifeInvariant, PTL
=============================================================================
