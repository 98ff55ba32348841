# NVMeVirt on FEMU's FTL: TLA+ models and proofs

This directory models the kernel module `nvmev` (`src/*.c`): a virtual NVMe
device whose dispatcher thread polls registers and doorbells that the host
driver writes, passes commands through a flash translation layer (FTL) that
says how long they take, and hands them to I/O worker threads that move the
data and post completions when their time has come.

The line numbers in `PROJECT.json` ("map") tie every definition to the code.

## Inventory

| Component | State | Operations | Hard parts |
|---|---|---|---|
| FTL (`ftl.c`) | `maptbl`, `rmap`, page status, block and line counters, three line lists, write pointer | `ssd_write`, `do_gc`, their helpers | cleaning moves pages while mapping, inverse mapping, counters and lists must stay in step; free lines run out |
| NAND timing (`ftl.c`) | `next_lun_avail_time` of each LUN, latencies | `ssd_advance_status`, `ssd_read`, `adjust_ftl_latency` | latencies changed by procfs while in use |
| Victim queue (`pqueue.c`) | array `d`, `size`, `pos` and priority in the lines | insert, change_priority, pop, peek | heap order and positions over every sequence; full array |
| Request tables (`io.c`) | per worker: `proc_table`, free list, request list by target time, `proc_io_nsecs` | `__enqueue_io_req`, `__reclaim_completed_reqs` (dispatcher); the walk of `nvmev_kthread_io` (worker) | no lock; entries are reused while the worker may still be at them |
| Completion queues (`io.c`) | `cq_head`, `phase`, `interrupt_ready`, two spin locks; the entries are host memory | `__fill_cq_result`, the interrupt scan, `nvmev_proc_io_cq` | several workers and the host; phase tag; lost interrupts |
| Data transfer (`io.c`) | none | `__do_perform_io` | walk of PRP pages and lists |
| Dispatcher (`main.c`, `io.c`) | `dbs`, `old_dbs`, statistics | `nvmev_proc_dbs`, `nvmev_proc_io_sq`, `__nvmev_proc_io` | the host reuses submission slots, statistics reset by procfs |
| Registers (`pci.c`) | `bar`, `old_bar`, `admin_q` | `nvmev_proc_bars` | polling races with the host's writes; controller reset |
| Admin (`admin.c`) | `sqes`, `cqes`, admin queue | create and delete queues, identify, features | queues deleted under the workers |
| Load, unload, procfs (`main.c`) | configuration, `io_unit_stat` | `NVMeV_init`, `NVMeV_exit`, `__proc_file_write` | settings change under the dispatcher |
| PCI space (`pci.c`) | configuration space, MSI-X | set up at load | sequential |
| `femu/` | | | the originals of the port; the Makefile does not build them |

How they interact: the host writes doorbells and registers in shared memory;
the dispatcher, one thread, polls them, enters the FTL (which it alone enters
and which keeps victims in the priority queue), puts the command into the
table of the next worker in turn, lets the FTL clean, and reclaims finished
entries of all tables. Workers walk their tables, copy data, fill completion
queues, which they share, and send interrupts. The host answers an interrupt
by reading entries whose phase tag is new.

What makes each part correct:

- FTL: the mapping leads to live data and the inverse mapping back; a line is
  in one list; counters are exact; the NAND rules (program in order, erase only
  the dead) are kept; cleaning ends and keeps up.
- Victim queue: it is a priority queue, inside its array, with exact positions.
- Request tables: lists stay whole; a command is copied once, then completed
  once, not early and at last.
- Completion queues: a completion is seen once and in order; no interrupt lost.
- Dispatcher and transfer: a command is taken once; its data, and no other, is
  moved when the host is told so, never before the flash is through with it; every
  command is answered.
- Registers and admin: the controller comes up and goes down when asked; admin
  answers come in order; what the host was told of its queues is so.
- Load and unload: nobody uses what is not yet there or already gone; what is
  allocated is freed once; unloading ends whatever the threads are doing.

## Modules

| Module | Role |
|---|---|
| `NandFlash` | abstract: what an FTL promises the host and owes the NAND array |
| `Ftl`, `MCFtl` | `ftl.c` and the call chain from `__nvmev_proc_io`; its TLC instances |
| `FtlProofs` | types and mapping of `Ftl`, refinement of `NandFlash` |
| `FtlLineProofs` | line lists and their counters; page counts of lines and blocks; room for the write pointer |
| `PriorityQueue` | abstract: a set with priorities, pop returns a least one |
| `PQueue`, `MCPQueue`, `PQueueProofs` | the binary heap of `pqueue.c`, instance, proofs |
| `IoService` | abstract: accept, copy once, complete once and in time |
| `IoQueue`, `MCIoQueue`, `IoQueueProofs` | the request table of one worker, shared with the dispatcher; proofs |
| `CompletionFifo` | abstract: a bounded queue of completions |
| `Completion`, `MCCompletion`, `CompletionProofs` | one completion queue, the workers and the host; proofs |
| `NandTiming` | the LUNs' times, used by `Dispatcher` |
| `Dispatcher`, `MCDispatcher`, `DispatcherProofs` | the way of an I/O command from slot to completion, instances, proofs |
| `Bars` | the controller registers and their polling |
| `Admin` | admin commands, on top of `Bars` |
| `Controller`, `MCController`, `ControllerProofs` | the dispatcher's loop over registers and doorbells, composed of `Bars` and `Admin`, with a host driver; proofs |
| `Lifecycle`, `MCLifecycle`, `LifecycleProofs` | load, unload and procfs around the threads; proofs |

The pieces fit at their interfaces. `Ftl` takes the victim queue as a set from
which a pop takes a least element; `PQueue` shows that the heap is one, with
`pqueue_insert` called only for lines not queued, which `LinePartition` of `Ftl`
shows. `IoQueue` posts a completion in one step; `Completion` says what that
step is. A latency that `IoQueue` takes from a set is what `ssd_write` returns.
`Dispatcher` puts these interfaces together: the list of the worker, sorted as in
`IoQueue` (`Insert`), completions in order as in `CompletionFifo`, and lines cleaned
whenever `Ftl` might. `Controller` says when the queues that `Dispatcher` has are
there, and `Lifecycle` when the threads are.

### Ftl

Variables are the fields of `struct ssd`; `line_pos` is `line.pos # 0`. Control
is one thread: `pc`, the loop variables of `ssd_write` (`lpn`, `end_lpn`) and of
`do_gc` (`gc`, with the point to return to). An action is the work between two
points of the call chain: the entry of `ssd_write` (`StartWrite`), one turn of
its cleaning loop (`GcHighStep`, `GcHighLeave`), the halves of one turn of its
write loop (`InvalidateOld`, `WriteNew`), `__check_gc_and_run`, and the steps of
`do_gc`: one page of `clean_one_block` (`GcMovePage`, `GcSkipPage`), the end of a
block, the end of the line. `pc = "oops"` is the null `curline` that the code
reads through. Assertions of the code are not guards: they are what the
invariants imply. `__check_gc_and_run` reads the opcode again from the
submission slot; here it is taken to be still a write. Logical pages are
numbered as the code numbers them, and a command whose range ends beyond the
flash is refused as in the code.

### PQueue

A step is one turn of the loop of `bubble_up` or `percolate_down`, with a hole at
`i` that `moving_node` will fill; `At(k)` is the array with the hole filled.
`select_victim_line` sets the position of the popped line to 0 after the pop;
`Settle`, the end of the loops, includes this.

### IoQueue

Dispatcher and worker have a control point each (`dpc`, `wpc`); an action is one
access to what the other may touch. Stores are seen in program order, as on
x86. A reclaim walks from the head of the list entry by entry (`ReclaimNext`) and then
relinks what it passed (`Reclaim`), while the worker goes on.
`__check_gc_and_run` does not touch the table. The variables `state`,
`target`, `copies`, `posts` record what happened to each command and are those of
`IoService`. `FlagStoresMerged` says whether the compiler made one store of the
two adjacent `bool` stores `is_completed = false; is_copied = false`, as GCC does
at -O2 from version 7 on; the code promises neither. All threads read one clock
(the code corrects local clocks to the dispatcher's).

### Completion

Workers fill entries (`ReadHead` to `RaiseReady`) and scan for interrupts
(`TryIrqLock` to `UnlockIrq`). `ReadHead` comes before `LockEntry`, as in the code.
The host is external, modelled on the NVMe rules the driver follows: it leaves
one entry of the queue unused, takes entries while the phase is new, and gets an
edge interrupt. `Poster` is the set of workers that were given commands of this
queue: `proc_turn` deals commands to workers in turn over all queues, so a queue
can have one poster even when more workers scan it.

### Dispatcher and NandTiming

The host fills a slot and rings the doorbell (`HostPost`). The dispatcher takes the
slots between old and new doorbell (`StartIo` to `CountCommand`): a write may clean
first (`GcHigh`), `ssd_read` and `ssd_write` give the pages to the LUNs and set the
target time, `CheckGcRun` may clean once more. The worker reads the command from
the slot when it performs it (`StartCopy`), and again for every page (`CopyPage`).
`moved` records what was copied where, `busy` when each LUN works for a command.
The FTL is reduced to the LUN of each logical page; which line is cleaned, and
when, is left open (`do_gc`). Several operations of a LUN that one command asks for
are counted, not listed. Half a page is the unit of lengths. `Tick` lets time pass
only while a LUN works, for else nobody looks at the clock. Commands that move
several pages and begin inside a page are left out: the code copies them wrongly
(`io.c:129`). `ReuseByHead` chooses how the host reuses slots: when the command in
it is answered, or as `sq_head` says.

### Bars, Admin, Controller

A step of the dispatcher reads one register or one doorbell, the host writes
between any two steps. `PollAqa` to `PollCcCopy` are `nvmev_proc_bars` in order; the
admin commands are one turn of the loop of `nvmev_proc_admin_sq` each. Opcodes that
answer alike are one (`Reports`, `LeaveGap`). The host is external. It keeps the order
of register writes, waits for `rdy`, `shst` and the answers of its commands, and
deletes queues when they are idle. Where the protocol does not ask it to wait for
the dispatcher it does not, and `races` remembers where it overtook: asq before aqa
was polled, a queue deleted before its completion doorbell was polled. The two
`oops` control points are null pointers that the code reads through. I/O commands
are counted (`io`): posted, fetched, completed, reaped.

### Lifecycle

`mem` says of each allocated object whether it is there: structs and the page arrays they
point to are objects of their own, since the code frees one without the other; `Alloc` and `Free` are the
allocations of a step of `NVMeV_init` or `NVMeV_exit`, and `frees` counts. Dispatcher
and workers are their loops, reduced to what they use (`DispatcherUses`, `WorkerUses`).
`kthread_stop` tells a thread and waits; `remove_proc_entry` waits for who is in the
file. The flush may keep number and array in registers from one turn to the next.
Assumed: one user of the procfs files at a time; the 100 ms that a write to
`io_units` waits (`main.c:344`) outlast a flush that is under way, as the comment
there hopes; a host deletes a queue only when no worker has a command of it.

## Runs

| Run | Instance | Shows | States |
|---|---|---|---|
| `ftl_channels` | 2 channels of 2 LUNs, 3 lines of 4 pages, host pages 0 to 2 | mapping, orphans, counters, a line to write to, refinement of `NandFlash` | 327,121 |
| `ftl_tight` | 3 lines of 3 pages, host pages {0, 1, 2, 9} | types, line lists, victims, cleaning keeps up, writes end | 40,401 |
| `ftl_full` | 3 lines of 2 pages, all 6 written | violation: `curline` is NULL | |
| `pqueue` | 5 lines, priorities 0 to 2 | heap order, bounds, positions, refinement of `PriorityQueue` | 142,919 |
| `io_queue` | 4 entries, 5 commands, latencies 1 and 2 or none, clock to 2 | lists, order, refinement of `IoService`, every accepted command completed | 1,244,133 |
| `io_queue_race` | 3 entries, flags cleared by two stores | violation: completed without being copied | |
| `completion` | 3 entries, 7 commands, 2 workers of which 1 posts | FIFO, interrupts | 120,516 |
| `completion_race` | the same with 2 posters | violation: a completion is lost | |
| `controller` | admin queues of 4 and 3 entries, 1 I/O queue pair of 2, 6 admin commands | crashes only by races, admin answers in order, queues as told, handshakes end | 238,592 |
| `dispatcher` | 2 LUNs, 3 slots, 4 commands, clock to 4, 1 cleaning or setting | exact transfers, LUN times, statistics, every command answered | 1,027,234 |
| `dispatcher_reuse` | the same, slots reused by `sq_head` | violation: a command is performed with another's buffer | |
| `lifecycle` | 2 workers, 2 queue pairs, 1 write to `io_units`, 1 flush, 4 sets of parameters | use after free, bounds of a flush, what is freed and what leaks, unloading ends | 317,078 |

Bounds. In `ftl_channels` a line has four blocks and is cleaned block by block
while the write pointer moves over channels and LUNs; writes span up to two
pages. In `ftl_tight` lines fill up, overwrites push them through full, victim,
cleaned and free several times, and page 9 lies beyond the flash: together every
branch of the FTL is taken. The priority instance has three heap levels and an
inner node with two children. Four table entries are the fewest for which an entry
is linked between two others (one entry always stays unused). Reclaimed entries go to
the end of the free list, so that the first four commands get an entry each and only the
fifth takes a reclaimed one: it does so also while the worker is about to leave that
entry, or has walked into it, or is at work in it before it is linked. In `completion`
seven commands go round a queue of three entries twice, so the phase tag turns in both directions;
the other worker takes the interrupt lock at any time. In `controller` the six
commands set the number of queues, create a pair, delete it and create one queue
again; submission and completion queue wrap at different commands, and an
unanswered command may fall anywhere. The host asks for more queues than there are.
In `dispatcher` the fourth command goes into the slot of the first; what each of the
four may be (`MCKinds`) has them meet on a LUN, cross pages, end beyond the flash and
use a PRP list; one cleaning or one write to the procfs (`MaxEvents`) falls anywhere.
In `lifecycle` parameters are right or refused, the bus may fail, and all that may
happen to `io_units` happens around a flush. The bounds on commands and time end the
input, not the threads: with fairness, what is outstanding then must still finish.

`CHECK_DEADLOCK` is switched off in `controller`, where the dispatcher may have
crashed, and in `lifecycle`, where the module may be gone.

Fairness. `Ftl`: the dispatcher goes on inside the FTL (weak fairness of `FtlStep`);
the host need not write. `IoQueue`: both threads run and time passes; commands need
never come. `Completion`: every worker runs and the host serves its interrupts.
`Dispatcher`: both threads run, time passes and the host reaps. `Controller`: the
dispatcher polls and the host looks for the answers it waits for; it need not ask
for anything. `Lifecycle`: the loader, the threads and who is in a file go on; nobody
need unload. The code justifies it: kernel threads bound to CPUs of their own that
poll until the module is unloaded.

Each property of a passing run has a mutant in `PROJECT.json`: a definition of the
model, changed as a plausible bug would change it (the operators commented
"Fault" in the modules), which makes TLC find the property violated.

## What the violation runs show

1. `ftl_full`: the comment at `ftl.c:138` says that `curline` is always the next
   line to write. With no over-provisioning (`op_area_pcent = 0.00`, and a number
   of channels rounded down from the size of the namespace) a host that fills
   the namespace leaves no free line and nothing worth cleaning; the write
   pointer gets NULL and the code reads through it at `ftl.c:215`.
2. `io_queue_race`: the barrier at `io.c:195` is to let the worker see an entry "at
   once". A worker still at a reused entry needs no link to see it: between the
   stores of `io.c:190` and `io.c:191` it takes the old `is_copied` for the new
   command's, and completes the command without copying its data.
3. `completion_race`: `__fill_cq_result` reads `cq_head` before it takes `entry_lock`.
   With two workers, which the example of `README.md:47` configures (four CPUs, one
   for the dispatcher), one completion overwrites another.
4. `dispatcher_reuse`: `nvme.h:592` says of `sq_head` that it tells how much of the queue
   may be reclaimed. `__fill_cq_result` reports the slot of the command it completes
   (`io.c:433`) while commands of earlier slots still wait; the worker then reads
   another command's addresses from them.

Properties that hold also tell what the code does not do. `CrashOnlyByRace`: the
register race (`pci.c:111`, `pci.c:125`) and the deleted submission queue (`io.c:418`) do crash
the dispatcher. `HandshakesEnd`: a change of `cc` between test and copy is lost.
`InFlightWholeRounds`: completions of a whole round are not counted. `EachFreedOnce`:
`io_unit_stat` is freed twice at unload; never freed are the FTL's memory, the last queue
pair (the loops of `main.c:517-523` end one short of it), the page arrays `sq->sq` and `cq->cq`
of every queue that the host did not delete, and `nvme_sq` and `nvme_cq` of the admin queue
(`pci.c:312`). `FlushInBounds`: during a write to `io_units` a flush may read past the array.

## Proofs

Every type invariant and every safety invariant that the runs check is proved, and so
are the three refinements and the action property of the
FTL (`NandSpec`). All theorems are about the specifications without fairness, for every value of the
constants allowed by the assumptions that the modules name: `GeometryAssumption`,
`GcAssumption`, `HostAssumption`, `NullAssumption` in `Ftl`; `ElemAssumption`,
`PriAssumption` in `PQueue`; `TableAssumption`, `LoadAssumption`, `BuildAssumption` in `IoQueue`;
`WorkerAssumption`, `SizeAssumption` in `Completion`; `LunAssumption`,
`LatencyAssumption`, `PathAssumption` in `NandTiming` and `Dispatcher`;
`AdminAssumption`, `NullQueueAssumption`, `QueueAssumption`, `NullTableAssumption`,
`HostAssumption` in `Bars`, `Admin` and `Controller`; `LoadAssumption` in `Lifecycle`.
These leave open the number of channels, LUNs, pages, lines, queue entries, queues,
workers and commands, and thresholds and latencies. A theorem that needs more says so:

| Theorem | Assumes | Because |
|---|---|---|
| `QueueImplementsService`, `TableTypes`, `CopiedBeforePosted` | `FlagStoresMerged` | `io_queue_race` shows what two stores do |
| `OnePosterFifo`, `OnePosterLosesNothing` | one worker fills the queue | `completion_race` shows what two do |
| `DataMoved` | `ReuseByHead = FALSE`, `OffsetsFit` | `dispatcher_reuse` shows the one; transfers of several pages that begin inside a page are copied wrongly (`io.c:129`) |
| `CurlineKept` | `SpareSpace`: what the host writes does not fill the lines but for the current one and the `gc_thres_lines_high`, and a command is no larger than those | `ftl_full` shows a host that writes everything, which the code allows |
| those of `LifecycleProofs` | every configuration has a cpu for a worker | `README.md:47` asks for it, `main.c:457` does not check it |
| `OnlyLiveIsUsed` | `"storage" \notin MayFail` | a storage that is not mapped is only logged (`main.c:400`) |

For each of these assumptions there is a passing run that satisfies it; `UpdatedAtOnce`
and `NothingLost` are only checked where theirs fail, by the runs that refute them.
`ftl_channels` satisfies `SpareSpace`. `ftl_tight` is just outside: the host can fill the
lines exactly, and what saves it there is which pages of the current line are valid,
which the proof does not follow. A command has at most 2^`mdts` = 32 logical pages
(`admin.c:167`), so the second half of `SpareSpace` only asks that the 12 lines kept of
256 have three pages each.

- `FtlProofs!TypeCorrect` (`TypeOK`). `TypeInv` adds to the types what the cursors need:
  the current line is the block under the write pointer, and there is a victim
  exactly while cleaning runs.
- `FtlProofs!MappingSafe`, `OrphanFree`, `FtlImplementsNandFlash`. `MappingConsistent`
  is not inductive: that a write does not hit another page's home needs that the
  page under the write pointer is erased, and this needs that free lines are
  wholly erased, that free, current and victim line differ, and that in the
  current line the pages before the write pointer, and no others, are
  programmed. `FtlInv` is the conjunction of types, line facts (`LinesInv`), page
  facts (`PagesInv`) and mapping facts (`MapInv`). The refinement then follows step
  by step: programming takes the next erased page; an erased block holds no
  home, since cleaning has passed all its pages.
- `FtlLineProofs!LinesPartitioned` (`LinePartition`). On top of `FtlInv`, `SizesInv` says that
  the three counters are the sizes of the collections, and that a line has a queue
  position exactly while it is queued; every step that moves a line changes both
  sides by one, with the facts on cardinality of the library.
- `FtlLineProofs!CountsExact` (`CountersExact`) and `VictimsWorthCleaning`
  (`VictimsReclaimable`). A change of one page's status moves it from one counted set to
  another, so the counts of its line and block follow, and no other's. A queued line
  is wholly written (`PagesInv`), has `pgs_per_line` pages (`LineSize`) and fewer valid ones
  by its exact count, hence an invalid one.
- `FtlLineProofs!CurlineKept` (`CurlineNeverNull`). `Room` counts the pages from the write
  pointer to the end of the last free line; the pointer gets NULL exactly when a page
  is programmed with `Room` at 1. `SpaceInv` asks for `pgs_per_line + 1` between commands,
  for that and the pages left to write in a command, and for less by what was moved
  (`Moved`) in a cleaning, which copies at most a line and then gains one. The step to
  prove is that the loop over `should_gc_high` is not left for want of a victim
  (`VictimExists`): with no line to clean, all but the free and the current ones are full,
  each page of a full line is valid by the exact counts, the inverse map gives them
  different logical pages (`NoOrphan`), all of which the host writes (`HostInv`), and
  `SpareSpace` says that there are not so many. All the other invariants of the FTL are
  used.
- `PQueueProofs`: `HeapInBounds`, `HeapStaysOrdered`, `PositionsExact`,
  `HeapImplementsPriorityQueue`. The invariant `HeapInv` says, with the hole at `i` seen
  as filled, that elements and positions are inverse to each other (`Placed`),
  which with the number of elements gives the bound, and that every node is in
  order with its parent except around the hole, where parent and children of
  the hole are in order with each other (`Ordered`). A pop returns a least
  element because the root is below every node: the least position for which it
  is not would have a parent for which it is not either (`RootIsLeast`).

- `DispatcherProofs`: `FlashSpeed` (`NoFasterThanFlash`) and `TakenOnce`. That the work of a LUN
  does not overlap follows from `next_lun_avail_time`, which every interval given out
  so far ends by and every later one begins at. That a command is not completed too
  early needs its target time to stay what it was when it was handed over, hence
  that the dispatcher does not take it twice; this is a fact about the ring: the
  commands posted and not yet taken lie in the slots from `sq_entry` to the doorbell,
  in order, and the host leaves a slot free (`Ring`), which is counted with the
  cardinality of the commands outstanding. The invariant joins types, `Ring`, what a
  completion knows of its command (`Done`) and what LUN times know of it (`Busy`).

- `IoQueueProofs`: `QueueImplementsService` (`ServiceSpec`), `TableTypes` (`TypeOK`) and
  `CopiedBeforePosted` (`UpdatedAtOnce`), all under `FlagStoresMerged`, without which
  `io_queue_race` refutes the last. The invariant `TableInv` asks for three sets: the free
  entries, the requests, and those the reclaimer has passed. Both lists are closed
  under their links, `prev` is `next` reversed among the requests, and an entry is in one
  of the sets or is the new one; this needs no recursion along the lists, so that the
  lists may be of any length. The difficulty is the worker, which may be at an entry
  that was reclaimed, given out again and not yet linked (`Worker`). Two facts save it.
  A free entry is either done, so that the worker passes over it, or was never used,
  and these are the end of the array and the head of the free list, to which no used
  entry points (`Fresh`). And an entry the worker works on is not done, so that it is
  not reclaimed. The flags then tell exactly what happened to the command (`Served`).

- `CompletionProofs`: `CompletionTypes` (`TypeOK`) and `NoInterruptLost` (`InterruptComes`) for
  whichever workers fill the queue; `OnePosterFifo` (`FifoSpec`) and
  `OnePosterLosesNothing` (`NothingLost`) where one worker does, without which
  `completion_race` refutes the last. `Ring` places the entries without counting rounds:
  those before the next slot to be written have its phase, those behind the other one,
  and the host follows by less than a round. That there is always room is a count: the
  posted commands are those seen and those to be found, and with the one being posted
  they are submitted, of which the host leaves no more outstanding than `QSize - 1`. The
  locks are not needed for this, since one worker fills the queue.

- `IoQueueProofs`: `ListsStayIntact` (`ListsIntact`) and `NoneWaitsBehindLater` (`DueFirst`),
  without `FlagStoresMerged`. The properties follow the lists from their heads; the
  invariant `Linkage` asks instead for two functions from positions to entries, one of the
  requests and one of the free entries, that name each entry once (`Chain`, `Apart`).
  The steps then are about positions: a new request is put at the position before which
  the search stopped, a reclaim moves the first `k` requests behind the free entries.
  `Ordered` says that of two requests out of order the one in front is due; once due it
  stays so, since the clock that the worker has read only goes forward. The search goes
  back over later requests only (`Searching`) and stops behind one that is due or not
  later (`AheadOfEntry`).

- `DispatcherProofs`: `TypesAreKept` (`TypeOK`), `InFlightCounted` (`InFlightWholeRounds`) and
  `DataMoved` (`TransferExact`). The bounds of the worker's list and of the completions
  count commands: each is in one of them once, and of those under way the host has no
  more than `queue_size - 1`. What `nr_in_flight` is too high by is the commands reaped
  and not counted off, a multiple of `queue_size` that grows when the doorbell has gone
  round since it was polled. For the data, a slot that is in the list, or that the worker
  is at, still holds the command it was taken for (`SlotsKept`), so what was copied so far
  is the first `prp_offs` pages of that command and `remaining` is the rest (`Copying`).

- `ControllerProofs`: `TypesAreKept` (`TypeOK`), `NothingFetchedTwice` (`FetchedWerePosted`),
  `TablesAsTold` (`QueuesAsHostSees`), `AnswersInOrder` (`AdminInOrder`) and `NullOnlyByRace`
  (`CrashOnlyByRace`). They are parts of one invariant, `CtlInv`, since each needs the
  others: tables change by admin commands, whose order is that of the two rings, which
  are there if the registers were written in turn. The host's unfinished commands `out`
  lie in the ring of requests from a slot `b` on, and the first `a` of them are answered;
  `AdminInv` claims that there are such numbers. Answers are found by their phase alone:
  `AnswersOf` says that the entries from the host's head on hold the first `a` answers,
  and that all others, the gaps that unanswered opcodes leave included, have the
  opposite phase. A table holds a queue when its creation is among the first `a`
  commands, whatever the host has seen (`CqTables`, `SqTables`). The counts of an I/O
  queue are related to its doorbells modulo its depth (`Counted`), and start anew when it
  is created, since `create_sq` sets the doorbell and the dispatcher's copy of it to 0. `InTurn` and `Settled` hold unless `races` says that the host did not
  wait; the crashes are those cases.

- `LifecycleProofs`: `TypesAreKept` (`TypeOK`), `FlushStaysInBounds` (`FlushInBounds`), `AllIsFreed`
  (`EachFreedOnce`) and `OnlyLiveIsUsed` (`UseOnlyLive`). The code keeps its memory right by
  the order of its steps, and the invariant `LifeInv` says for each phase of loading and
  unloading which objects are there and which threads run (`Threads`, `DeviceInv`,
  `BusInv`, `TablesInv`, `QueuesInv`, `ArraysInv`). A queue that the host deletes is marked
  so and not freed, for its use by a worker that scans it then is a hazard of its own
  (`admin.c:84`). `PagesInv` relates the pages of a queue to its structs: they come and go
  together, but unloading frees the structs alone (`main.c:517-523`), so that `Leaked` has the
  pages of every queue that the host did not delete. `FlushInv` says which array a flush holds and that,
  without a write in between, the number that it took is the length of that array.

Only model-checked: all liveness, for which the prover has no rules (fairness, ENABLED): `WriteCompletes`,
`Completed`, `Noticed`, `Served`, `HandshakesEnd`, `CommandsServed`, `LoadsAndUnloads`.

## Plan

Done, in this order: `Ftl`, `PQueue`, `IoQueue`, `Completion`, `Bars`, `Admin` and
`Controller`, `NandTiming` and `Dispatcher` (with the PRP walk), `Lifecycle`; then the
theorems about each of them.

To come: `CurlineNeverNull` where the host can fill its lines exactly (`ftl_tight`).

## Not modelled, and why

- The contents of PCI configuration space and capabilities: written once before any
  thread runs, then read and written by the kernel's PCI code alone.
- A controller that is reset and attached to again, and hosts that delete queues in
  use: the code does not handle them, as the hazards in `PROJECT.json` say.
- Two users of the procfs files at once; parameters of which validation does not
  speak (no CPU for workers); a failed mapping of the storage, which the code only
  logs, is in `Lifecycle` but not in its run.
- I/O unit scheduling (`__schedule_io_units`): it has no caller, so that a flush takes
  no time. Opcodes other than read, write and flush, which are performed as reads.
- What identify and log pages contain, debug and performance output.
- The files under `femu/` (not built), vendored headers, the performance script.
