------------------------------ MODULE IoQueue ------------------------------
(***************************************************************************)
(* The request table of one I/O worker (io.c): the dispatcher thread takes *)
(* entries from a free list and links them, by target time, into a list of *)
(* requests that the worker thread walks without a lock, copying data and  *)
(* posting completions; the dispatcher moves entries that are done from    *)
(* the head of that list back to the end of the free list.                 *)
(*                                                                         *)
(* An action of either thread makes one access to what the other shares,   *)
(* or several stores whose order the other cannot tell.  Threads see each  *)
(* other's stores in program order (x86).  All threads read one clock.     *)
(* The tables of several workers do not interact: a command that is given  *)
(* to another worker means no more to this table than a reclaim.           *)
(***************************************************************************)
EXTENDS Integers

CONSTANTS
  NR_MAX_PARALLEL_IO,   \* entries of a table
  NrReq,                \* bound: commands for this worker, numbered as they come
  Latency,              \* latencies that the FTL may answer
  MaxTime,              \* bound of the clock
  FlagStoresMerged      \* the compiler makes one store of is_completed = false
                        \* and is_copied = false, which are adjacent bytes

Entry == 0 .. NR_MAX_PARALLEL_IO - 1
None  == -1             \* (unsigned)-1 in the code
Req   == 1 .. NrReq
NoReq == 0

ASSUME TableAssumption == NR_MAX_PARALLEL_IO \in Nat \ {0, 1}
ASSUME LoadAssumption == NrReq \in Nat /\ Latency \subseteq Nat /\ MaxTime \in Nat
ASSUME BuildAssumption == FlagStoresMerged \in BOOLEAN

VARIABLES
  (* proc_table; req stands for sqid, cqid, sq_entry and command_id *)
  req, nsecs_target, is_completed, is_copied, next, prev,
  free_seq, free_seq_end, io_seq, io_seq_end,
  proc_io_nsecs,        \* the time at which the worker last looked
  now,
  dpc, entry, pos,      \* dispatcher: control point, new entry, entry it is at
  last_entry,           \* dispatcher: the last entry to reclaim
  wpc, curr, curr_nsecs,\* worker
  state, target, copies, posts   \* what happened to each command, as in IoService

table == <<req, nsecs_target, is_completed, is_copied, next, prev>>
heads == <<free_seq, free_seq_end, io_seq, io_seq_end>>
disp  == <<dpc, entry, pos, last_entry>>
work  == <<wpc, curr, curr_nsecs>>
hist  == <<state, target, copies, posts>>
vars  == <<req, nsecs_target, is_completed, is_copied, next, prev, free_seq, free_seq_end,
           io_seq, io_seq_end, proc_io_nsecs, now, dpc, entry, pos, last_entry, wpc,
           curr, curr_nsecs, state, target, copies, posts>>

Init ==
  /\ req = [e \in Entry |-> NoReq] /\ nsecs_target = [e \in Entry |-> 0]
  /\ is_completed = [e \in Entry |-> FALSE] /\ is_copied = [e \in Entry |-> FALSE]
  /\ next = [e \in Entry |-> IF e + 1 \in Entry THEN e + 1 ELSE None]
  /\ prev = [e \in Entry |-> e - 1]
  /\ free_seq = 0 /\ free_seq_end = NR_MAX_PARALLEL_IO - 1
  /\ io_seq = None /\ io_seq_end = None
  /\ proc_io_nsecs = 0 /\ now = 0
  /\ dpc = "idle" /\ entry = None /\ pos = None /\ last_entry = None
  /\ wpc = "round" /\ curr = None /\ curr_nsecs = 0
  /\ state = [r \in Req |-> "new"] /\ target = [r \in Req |-> 0]
  /\ copies = [r \in Req |-> 0] /\ posts = [r \in Req |-> 0]

-----------------------------------------------------------------------------
(* The dispatcher: __enqueue_io_req *)

(* Reads, writes and the rest: now and a latency, or no time at all, for   *)
(* flush and for what __nvmev_proc_io does not handle.                     *)
Targets == {0} \union {now + l : l \in Latency}

IsNext(r) == \A q \in Req : state[q] = "new" <=> q >= r

(* The last free entry is never used: the command is dropped.               *)
DropRequest(r) ==
  /\ dpc = "idle" /\ IsNext(r)
  /\ next[free_seq] \notin Entry
  /\ dpc' = "reclaim" /\ pos' = io_seq
  /\ state' = [state EXCEPT ![r] = "refused"]
  /\ UNCHANGED <<table, heads, proc_io_nsecs, now, entry, last_entry, work, target, copies,
                 posts>>

(* Fault: the table may fill up to its last entry. *)
TakeEntryLast(r, t) ==
  /\ dpc = "idle" /\ IsNext(r)
  /\ entry' = free_seq /\ free_seq' = next[free_seq]
  /\ req' = [req EXCEPT ![free_seq] = r]
  /\ nsecs_target' = [nsecs_target EXCEPT ![free_seq] = t]
  /\ dpc' = "flags"
  /\ state' = [state EXCEPT ![r] = "accepted"]
  /\ target' = [target EXCEPT ![r] = t]
  /\ UNCHANGED <<is_completed, is_copied, next, prev, free_seq_end, io_seq, io_seq_end,
                 proc_io_nsecs, now, pos, last_entry, work, copies, posts>>

TakeEntry(r, t) ==
  /\ dpc = "idle" /\ IsNext(r)
  /\ next[free_seq] \in Entry
  /\ entry' = free_seq /\ free_seq' = next[free_seq]
  /\ req' = [req EXCEPT ![free_seq] = r]
  /\ nsecs_target' = [nsecs_target EXCEPT ![free_seq] = t]
  /\ dpc' = "flags"
  /\ state' = [state EXCEPT ![r] = "accepted"]
  /\ target' = [target EXCEPT ![r] = t]
  /\ UNCHANGED <<is_completed, is_copied, next, prev, free_seq_end, io_seq, io_seq_end,
                 proc_io_nsecs, now, pos, last_entry, work, copies, posts>>

ClearFlags ==
  /\ \/ /\ dpc = "flags" /\ FlagStoresMerged
        /\ is_completed' = [is_completed EXCEPT ![entry] = FALSE]
        /\ is_copied' = [is_copied EXCEPT ![entry] = FALSE]
        /\ dpc' = "links"
     \/ /\ dpc = "flags" /\ ~FlagStoresMerged
        /\ is_completed' = [is_completed EXCEPT ![entry] = FALSE]
        /\ dpc' = "is_copied"
        /\ UNCHANGED is_copied
     \/ /\ dpc = "is_copied"
        /\ is_copied' = [is_copied EXCEPT ![entry] = FALSE]
        /\ dpc' = "links"
        /\ UNCHANGED is_completed
  /\ UNCHANGED <<req, nsecs_target, next, prev, heads, proc_io_nsecs, now, entry, pos,
                 last_entry, work, hist>>

ClearLinks ==
  /\ dpc = "links"
  /\ prev' = [prev EXCEPT ![entry] = None]
  /\ next' = [next EXCEPT ![entry] = None]
  /\ pos' = io_seq_end
  /\ dpc' = "search"
  /\ UNCHANGED <<req, nsecs_target, is_completed, is_copied, heads, proc_io_nsecs, now,
                 entry, last_entry, work, hist>>

(* Fault: a later request that is not yet due is no reason to go on. *)
AheadOfEntryUnsorted(e) == nsecs_target[e] <= proc_io_nsecs

(* The new entry goes behind e: e is due, or not later than the new entry.  *)
AheadOfEntry(e) ==
  nsecs_target[e] <= proc_io_nsecs \/ nsecs_target[e] <= nsecs_target[entry]

(* Fault: the end of the list is tested, which a reclaim does not reset. *)
ListEmptyByEnd == io_seq_end = None

ListEmpty == io_seq = None

(* From the end of the list back, past the requests that are later.        *)
SearchBack ==
  /\ dpc = "search" /\ ~ListEmpty
  /\ pos # None /\ ~AheadOfEntry(pos)
  /\ pos' = prev[pos]
  /\ UNCHANGED <<table, heads, proc_io_nsecs, now, dpc, entry, last_entry, work, hist>>

(* The place is found; the last store makes the entry visible.             *)
LinkEntry ==
  /\ dpc = "search"
  /\ \/ /\ ListEmpty
        /\ io_seq' = entry /\ io_seq_end' = entry
        /\ UNCHANGED <<next, prev>>
     \/ /\ ~ListEmpty /\ pos = None
        /\ prev' = [prev EXCEPT ![io_seq] = entry]
        /\ next' = [next EXCEPT ![entry] = io_seq]
        /\ io_seq' = entry
        /\ UNCHANGED io_seq_end
     \/ /\ ~ListEmpty /\ pos # None /\ AheadOfEntry(pos)
        /\ \/ /\ next[pos] = None
              /\ prev' = [prev EXCEPT ![entry] = pos]
              /\ io_seq_end' = entry
           \/ /\ next[pos] # None
              /\ prev' = [prev EXCEPT ![entry] = pos, ![next[pos]] = entry]
              /\ UNCHANGED io_seq_end
        /\ next' = [next EXCEPT ![entry] = next[pos], ![pos] = entry]
        /\ UNCHANGED io_seq
  /\ dpc' = "reclaim" /\ entry' = None /\ pos' = io_seq'
  /\ UNCHANGED <<req, nsecs_target, is_completed, is_copied, free_seq, free_seq_end,
                 proc_io_nsecs, now, last_entry, work, hist>>

-----------------------------------------------------------------------------
(* The dispatcher: __reclaim_completed_reqs *)

(* Fault: an entry is reclaimed as soon as its data is copied and its time *)
(* has come.                                                               *)
ReclaimableEarly(e) ==
  e # None /\ is_copied[e] /\ nsecs_target[e] <= proc_io_nsecs

(* The flags are read one after the other, but only the dispatcher resets  *)
(* them: the outcome is that of reading them all at the last.              *)
Reclaimable(e) ==
  e # None /\ is_completed[e] /\ is_copied[e] /\ nsecs_target[e] <= proc_io_nsecs

(* From the head of the list on, as long as the entries are done.          *)
ReclaimNext ==
  /\ dpc = "reclaim" /\ Reclaimable(pos)
  /\ last_entry' = pos /\ pos' = next[pos]
  /\ UNCHANGED <<table, heads, proc_io_nsecs, now, dpc, entry, work, hist>>

(* The entries up to last_entry go to the end of the free list.            *)
Reclaim ==
  /\ dpc = "reclaim" /\ ~Reclaimable(pos)
  /\ \/ /\ last_entry = None
        /\ UNCHANGED <<next, prev, free_seq_end, io_seq>>
     \/ /\ last_entry # None
        /\ io_seq' = next[last_entry]
        /\ next' = [next EXCEPT ![last_entry] = None, ![free_seq_end] = io_seq]
        /\ prev' = [e \in Entry |-> IF e = next[last_entry] THEN None
                                    ELSE IF e = io_seq THEN free_seq_end ELSE prev[e]]
        /\ free_seq_end' = last_entry
  /\ dpc' = "idle" /\ pos' = None /\ last_entry' = None
  /\ UNCHANGED <<req, nsecs_target, is_completed, is_copied, free_seq, io_seq_end,
                 proc_io_nsecs, now, entry, work, hist>>

(* A command for another worker. *)
OtherCommand ==
  /\ dpc = "idle"
  /\ dpc' = "reclaim" /\ pos' = io_seq
  /\ UNCHANGED <<table, heads, proc_io_nsecs, now, entry, last_entry, work, hist>>

-----------------------------------------------------------------------------
(* The worker: nvmev_kthread_io *)

(* A round starts at the head of the list. *)
StartRound ==
  /\ wpc = "round" /\ io_seq # None
  /\ curr' = io_seq
  /\ wpc' = "time"
  /\ UNCHANGED <<table, heads, proc_io_nsecs, now, disp, curr_nsecs, hist>>

ReadClock ==
  /\ wpc = "time"
  /\ curr_nsecs' = now /\ proc_io_nsecs' = now
  /\ wpc' = "completed?"
  /\ UNCHANGED <<table, heads, now, disp, curr, hist>>

TestCompleted ==
  /\ wpc = "completed?"
  /\ \/ is_completed[curr] /\ wpc' = "next"
     \/ ~is_completed[curr] /\ wpc' = "copied?"
  /\ UNCHANGED <<table, heads, proc_io_nsecs, now, disp, curr, curr_nsecs, hist>>

(* __do_perform_io *)
CopyData ==
  /\ wpc = "copied?"
  /\ \/ /\ ~is_copied[curr]
        /\ copies' = [copies EXCEPT ![req[curr]] = @ + 1]
        /\ wpc' = "copied"
     \/ /\ is_copied[curr]
        /\ wpc' = "due?"
        /\ UNCHANGED copies
  /\ UNCHANGED <<table, heads, proc_io_nsecs, now, disp, curr, curr_nsecs, state, target, posts>>

SetCopied ==
  /\ wpc = "copied"
  /\ is_copied' = [is_copied EXCEPT ![curr] = TRUE]
  /\ wpc' = "due?"
  /\ UNCHANGED <<req, nsecs_target, is_completed, next, prev, heads, proc_io_nsecs, now, disp,
                 curr, curr_nsecs, hist>>

(* Fault: the request is completed as soon as its data is copied. *)
PostCompletionEarly ==
  /\ wpc = "due?"
  /\ posts' = [posts EXCEPT ![req[curr]] = @ + 1]
  /\ wpc' = "completed"
  /\ UNCHANGED <<table, heads, proc_io_nsecs, now, disp, curr, curr_nsecs, state, target, copies>>

(* __fill_cq_result, or the end of the round at a request not yet due. *)
PostCompletion ==
  /\ wpc = "due?"
  /\ \/ /\ nsecs_target[curr] <= curr_nsecs
        /\ posts' = [posts EXCEPT ![req[curr]] = @ + 1]
        /\ wpc' = "completed"
     \/ /\ nsecs_target[curr] > curr_nsecs
        /\ wpc' = "round"
        /\ UNCHANGED posts
  /\ UNCHANGED <<table, heads, proc_io_nsecs, now, disp, curr, curr_nsecs, state, target, copies>>

SetCompleted ==
  /\ wpc = "completed"
  /\ is_completed' = [is_completed EXCEPT ![curr] = TRUE]
  /\ wpc' = "next"
  /\ UNCHANGED <<req, nsecs_target, is_copied, next, prev, heads, proc_io_nsecs, now, disp,
                 curr, curr_nsecs, hist>>

NextRequest ==
  /\ wpc = "next"
  /\ curr' = next[curr]
  /\ wpc' = IF next[curr] = None THEN "round" ELSE "time"
  /\ UNCHANGED <<table, heads, proc_io_nsecs, now, disp, curr_nsecs, hist>>

-----------------------------------------------------------------------------
Command == \E r \in Req : DropRequest(r) \/ \E t \in Targets : t <= MaxTime /\ TakeEntry(r, t)

DispatcherStep == ClearFlags \/ ClearLinks \/ SearchBack \/ LinkEntry \/ ReclaimNext \/ Reclaim

WorkerStep ==
  \/ StartRound \/ ReadClock \/ TestCompleted \/ CopyData \/ SetCopied
  \/ PostCompletion \/ SetCompleted \/ NextRequest

Tick ==
  /\ now < MaxTime /\ now' = now + 1
  /\ UNCHANGED <<table, heads, proc_io_nsecs, disp, work, hist>>

Next == Command \/ OtherCommand \/ DispatcherStep \/ WorkerStep \/ Tick

(* Both threads keep running and time passes; commands need never come.    *)
Spec     == Init /\ [][Next]_vars
FairSpec == Spec /\ WF_vars(DispatcherStep) /\ WF_vars(WorkerStep) /\ WF_vars(Tick)

-----------------------------------------------------------------------------
(* Properties *)

TypeOK ==
  /\ req \in [Entry -> Req \union {NoReq}] /\ nsecs_target \in [Entry -> 0 .. MaxTime]
  /\ is_completed \in [Entry -> BOOLEAN] /\ is_copied \in [Entry -> BOOLEAN]
  /\ next \in [Entry -> Entry \union {None}] /\ prev \in [Entry -> Entry \union {None}]
  /\ {free_seq, free_seq_end} \subseteq Entry
  /\ {io_seq, io_seq_end, entry, pos, last_entry, curr} \subseteq Entry \union {None}
  /\ proc_io_nsecs \in 0 .. MaxTime /\ now \in 0 .. MaxTime /\ curr_nsecs \in 0 .. MaxTime
  /\ dpc \in {"idle", "flags", "is_copied", "links", "search", "reclaim"}
  /\ wpc \in {"round", "time", "completed?", "copied?", "copied", "due?", "completed", "next"}
  /\ state \in [Req -> {"new", "accepted", "refused"}]
  /\ target \in [Req -> 0 .. MaxTime]
  /\ copies \in [Req -> 0 .. 2] /\ posts \in [Req -> 0 .. 2]

(* The k-th entry of each list after its head. *)
IoAt[k \in 0 .. NR_MAX_PARALLEL_IO] ==
  IF k = 0 THEN io_seq
  ELSE IF IoAt[k - 1] = None THEN None ELSE next[IoAt[k - 1]]

FreeAt[k \in 0 .. NR_MAX_PARALLEL_IO] ==
  IF k = 0 THEN free_seq
  ELSE IF FreeAt[k - 1] = None THEN None ELSE next[FreeAt[k - 1]]

Linked(at) == {at[k] : k \in 0 .. NR_MAX_PARALLEL_IO} \ {None}

(* No entry is lost or in two lists: at all times an entry is in the free  *)
(* list, in the request list, or is the one being enqueued; the ends are   *)
(* the ends, and in the request list prev is the inverse of next.          *)
ListsIntact ==
  /\ Linked(FreeAt) \intersect Linked(IoAt) = {}
  /\ Linked(FreeAt) \union Linked(IoAt) \union ({entry} \ {None}) = Entry
  /\ entry \notin Linked(FreeAt) \union Linked(IoAt)
  /\ next[free_seq_end] = None /\ free_seq_end \in Linked(FreeAt)
  /\ io_seq # None =>
       /\ next[io_seq_end] = None /\ io_seq_end \in Linked(IoAt)
       /\ \A e \in Linked(IoAt) :
            /\ next[e] # None => prev[next[e]] = e
            /\ e = io_seq => prev[e] = None

(* No request waits behind a later one: where the list is out of order,    *)
(* the request in front is due already.  (The comment "nsecs target        *)
(* ascending order" says more, and is not what the code keeps.)            *)
DueFirst ==
  \A j, k \in 0 .. NR_MAX_PARALLEL_IO :
    j < k /\ IoAt[k] # None /\ nsecs_target[IoAt[j]] > nsecs_target[IoAt[k]] =>
      nsecs_target[IoAt[j]] <= proc_io_nsecs

(* A request is copied once, then completed once, and not too early.       *)
Service == INSTANCE IoService
ServiceSpec == Service!Spec

(* The comment at the barrier of __enqueue_io_req, "IO kthread shall see   *)
(* the updated pe at once": the worker never completes a command whose     *)
(* data it has not copied.                                                 *)
UpdatedAtOnce == \A r \in Req : posts[r] > 0 => copies[r] > 0

(* Every request that is accepted is completed, whatever the other thread  *)
(* does: commands run out and none is completed twice (ServiceSpec), so    *)
(* that it is the same to say that again and again all of them are.        *)
Completed == []<>(\A r \in Req : state[r] = "accepted" => posts[r] = 1)
=============================================================================
