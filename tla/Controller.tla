----------------------------- MODULE Controller -----------------------------
(***************************************************************************)
(* The dispatcher's loop (main.c): registers, admin doorbells, and the     *)
(* doorbells of the I/O queues, against a host driver that sets up the     *)
(* controller, creates, uses and deletes I/O queues, and takes the         *)
(* controller down again.  A step of the dispatcher reads what the host    *)
(* may change once; the host runs between any two steps.                   *)
(*                                                                         *)
(* The host is external: the order in which a driver writes registers, the *)
(* answers it waits for, and a queue deleted only when all its commands    *)
(* are answered.  It does not wait where the protocol does not say so:     *)
(* it writes aqa, asq, acq and cc at once, and may delete a submission     *)
(* queue right after it rang the doorbell of the completion queue.  races  *)
(* remembers that it overtook the dispatcher in such a place.              *)
(***************************************************************************)
EXTENDS Admin, Sequences

CONSTANTS
  AskQueues,      \* how many I/O queues the driver asks for
  HostOps,        \* the reports it asks for, or get_features
  MaxCommands,    \* bound: admin commands
  MaxIo           \* bound: commands of an I/O queue, for each creation of it

ASSUME HostAssumption ==
  /\ AskQueues \in Nat \ {0} /\ MaxCommands \in Nat /\ MaxIo \in Nat
  /\ HostOps \subseteq Reports \union {"get_features"}

VARIABLES
  qid,            \* loop variable of nvmev_proc_dbs
  hpc,            \* the driver: detached, set up step by step, ready, stopping, off
  out,            \* admin commands submitted and not answered, in order
  issued, tail, head, hphase, isr, granted,
  sq_known, cq_known,  \* what the driver knows of the I/O queues
  io,             \* per I/O queue: commands posted, fetched, completed, reaped
  races

regVars  == <<bar, old_bar, admin_q>>
hostVars == <<hpc, out, issued, tail, head, hphase, isr, granted, sq_known, cq_known>>
vars == <<bar, old_bar, admin_q, dpc, dbs, old_dbs, sqes, cqes, nr_sq, nr_cq, sq_mem, cq_mem,
          adm, irq, qid, hpc, out, issued, tail, head, hphase, isr, granted, sq_known,
          cq_known, io, races>>

NoIo == [posted |-> 0, fetched |-> 0, completed |-> 0, reaped |-> 0]

Init ==
  /\ BarsInit /\ AdminInit
  /\ dpc = "aqa" /\ qid = 1
  /\ hpc = "detached" /\ out = <<>> /\ issued = 0 /\ tail = 0 /\ head = 0 /\ hphase = 1
  /\ isr = FALSE /\ granted = 0
  /\ sq_known = [q \in Qid |-> "none"] /\ cq_known = [q \in Qid |-> "none"]
  /\ io = [q \in Qid |-> NoIo]
  /\ races = {}

-----------------------------------------------------------------------------
(* nvmev_proc_dbs: the I/O queues *)

NextSq == dpc' = "io_sq" /\ qid' = qid + 1
NextCq == dpc' = "io_cq" /\ qid' = qid + 1

(* The commands of one submission queue are fetched. *)
ProcIoSq ==
  /\ dpc = "io_sq" /\ qid <= nr_sq /\ NextSq
  /\ IF sqes[qid] # NULL /\ dbs.sq[qid] # old_dbs.sq[qid]
       THEN /\ io' = [io EXCEPT ![qid].fetched =
                        @ + Distance(dbs.sq[qid], old_dbs.sq[qid], sqes[qid].queue_size)]
            /\ old_dbs' = [old_dbs EXCEPT !.sq[qid] = dbs.sq[qid]]
       ELSE UNCHANGED <<io, old_dbs>>
  /\ UNCHANGED <<regVars, dbs, sqes, cqes, nr_sq, nr_cq, sq_mem, cq_mem, adm, irq, hostVars,
                 races>>

EndIoSq ==
  /\ dpc = "io_sq" /\ qid > nr_sq
  /\ dpc' = "io_cq" /\ qid' = 1
  /\ UNCHANGED <<regVars, adminVars, hostVars, io, races>>

(* nvmev_proc_io_cq counts down nr_in_flight of the submission queue that   *)
(* an entry names: it must still be there.                                 *)
ProcIoCq ==
  /\ dpc = "io_cq" /\ qid <= nr_cq
  /\ \/ /\ cqes[qid] = NULL \/ dbs.cq[qid] = old_dbs.cq[qid]
        /\ NextCq
        /\ UNCHANGED old_dbs
     \/ /\ cqes[qid] # NULL /\ dbs.cq[qid] # old_dbs.cq[qid] /\ sqes[qid] # NULL
        /\ NextCq
        /\ old_dbs' = [old_dbs EXCEPT !.cq[qid] = dbs.cq[qid]]
     \/ /\ cqes[qid] # NULL /\ dbs.cq[qid] # old_dbs.cq[qid] /\ sqes[qid] = NULL
        /\ dpc' = "oops_stat"
        /\ UNCHANGED <<old_dbs, qid>>
  /\ UNCHANGED <<regVars, dbs, sqes, cqes, nr_sq, nr_cq, sq_mem, cq_mem, adm, irq, hostVars, io,
                 races>>

EndIoCq ==
  /\ dpc = "io_cq" /\ qid > nr_cq
  /\ dpc' = "aqa" /\ qid' = 1
  /\ UNCHANGED <<regVars, adminVars, hostVars, io, races>>

nvmev_dispatcher ==
  \/ nvmev_proc_bars /\ UNCHANGED <<adminVars, qid, hostVars, io, races>>
  \/ (nvmev_proc_admin_sq \/ AdminCqDoorbell) /\ UNCHANGED <<qid, hostVars, io, races>>
  \/ ProcIoSq \/ EndIoSq \/ ProcIoCq \/ EndIoCq

(* A worker completes a fetched command: its entry is in the queue (external *)
(* to this module, see IoQueue and Completion).                             *)
WorkerCompletes(q) ==
  /\ io[q].completed < io[q].fetched /\ cqes[q] # NULL
  /\ io' = [io EXCEPT ![q].completed = @ + 1]
  /\ UNCHANGED <<regVars, dpc, adminVars, qid, hostVars, races>>

-----------------------------------------------------------------------------
(* The host driver (external) *)

Race(kind, overtaken) == races' = IF overtaken THEN races \union {kind} ELSE races

devVars == <<old_bar, admin_q, dpc, old_dbs, sqes, cqes, nr_sq, nr_cq, adm, qid>>

HostMove(from, to) == hpc = from /\ hpc' = to
hostRest == <<out, issued, tail, head, hphase, isr, granted, sq_known, cq_known>>

HostSetUp ==
  /\ \/ /\ HostMove("detached", "has_aqa") /\ WriteReg("aqa")
        /\ UNCHANGED races
     \/ /\ HostMove("has_aqa", "has_asq") /\ WriteReg("asq")
        /\ Race("register", ~Polled("aqa"))
     \/ /\ HostMove("has_asq", "has_acq") /\ WriteReg("acq")
        /\ Race("register", ~Polled("asq"))
     \/ /\ HostMove("has_acq", "enabling") /\ WriteCc([en |-> 1, shn |-> 0])
        /\ Race("register", ~Polled("acq"))
  /\ UNCHANGED <<devVars, hostRest, dbs, sq_mem, cq_mem, irq, io>>

HostSeesReady ==
  /\ HostMove("enabling", "ready") /\ bar.csts.rdy = 1
  /\ UNCHANGED <<bar, devVars, hostRest, dbs, sq_mem, cq_mem, irq, io, races>>

(* The driver goes: an orderly shutdown, or the controller is disabled.    *)
HostStops ==
  /\ hpc = "ready" /\ out = <<>>
  /\ \A q \in Qid : sq_known[q] = "none" /\ cq_known[q] = "none"
  /\ \/ hpc' = "shutting_down" /\ WriteCc([en |-> 1, shn |-> 1])
     \/ hpc' = "disabling" /\ WriteCc([en |-> 0, shn |-> 0])
  /\ Race("cc", ~Polled("cc"))
  /\ UNCHANGED <<devVars, hostRest, dbs, sq_mem, cq_mem, irq, io>>

HostSeesStopped ==
  /\ \/ HostMove("shutting_down", "off") /\ bar.csts.shst = 2
     \/ HostMove("disabling", "off") /\ bar.csts.rdy = 0
  /\ UNCHANGED <<bar, devVars, hostRest, dbs, sq_mem, cq_mem, irq, io, races>>

(* The commands that make sense now: reports before there are queues, as   *)
(* drivers identify the controller first; a queue is deleted when it is    *)
(* idle, submission queue first.                                           *)
Sensible(op, arg) ==
  \/ op \in HostOps /\ arg = 0 /\ (op \in Reports => granted = 0)
  \/ op = "set_features" /\ arg = AskQueues /\ granted = 0
     /\ \A i \in 1 .. Len(out) : out[i].opcode # "set_features"
  \/ arg \in 1 .. granted /\
       \/ op = "create_cq" /\ cq_known[arg] = "none"
       \/ op = "create_sq" /\ cq_known[arg] = "ready" /\ sq_known[arg] = "none"
       \/ op = "delete_sq" /\ sq_known[arg] = "ready" /\ io[arg].posted = io[arg].reaped
       \/ op = "delete_cq" /\ cq_known[arg] = "ready" /\ sq_known[arg] = "none"

HostCommand(op, arg) ==
  /\ hpc = "ready" /\ issued < MaxCommands /\ Sensible(op, arg)
  /\ Len(out) + 1 < AdminSqDepth /\ Len(out) + 1 < AdminCqDepth
  /\ issued' = issued + 1
  /\ LET c == [command_id |-> issued + 1, opcode |-> op, arg |-> arg]
     IN /\ out' = Append(out, c)
        /\ sq_mem' = [sq_mem EXCEPT ![tail] = c]
  /\ tail' = (tail + 1) % AdminSqDepth
  /\ dbs' = [dbs EXCEPT !.sq[0] = (tail + 1) % AdminSqDepth]
  /\ sq_known' = IF op \in {"create_sq", "delete_sq"}
                   THEN [sq_known EXCEPT ![arg] = "asked"] ELSE sq_known
  /\ cq_known' = IF op \in {"create_cq", "delete_cq"}
                   THEN [cq_known EXCEPT ![arg] = "asked"] ELSE cq_known
  /\ io' = IF op = "create_sq" THEN [io EXCEPT ![arg] = NoIo] ELSE io
  /\ Race("doorbell", op = "delete_sq" /\ dbs.cq[arg] # old_dbs.cq[arg])
  /\ UNCHANGED <<bar, devVars, cq_mem, irq, hpc, head, hphase, isr, granted>>

(* The interrupt handler takes entries while the phase is the awaited one. *)
EntryNew == cq_mem[head].phase = hphase

IsrStart ==
  /\ irq /\ ~isr
  /\ irq' = FALSE /\ isr' = TRUE
  /\ UNCHANGED <<bar, devVars, dbs, sq_mem, cq_mem, hpc, out, issued, tail, head, hphase,
                 granted, sq_known, cq_known, io, races>>

(* An entry that answers no command is ignored, as a driver does.          *)
IsrTake ==
  /\ isr /\ EntryNew
  /\ head' = (head + 1) % AdminCqDepth
  /\ hphase' = IF head + 1 = AdminCqDepth THEN 1 - hphase ELSE hphase
  /\ dbs' = [dbs EXCEPT !.cq[0] = (head + 1) % AdminCqDepth]
  /\ IF out # <<>> /\ cq_mem[head].command_id = Head(out).command_id
       THEN LET c == Head(out)
            IN /\ out' = Tail(out)
               /\ granted' = IF c.opcode = "set_features"
                               THEN cq_mem[head].result + 1 ELSE granted
               /\ sq_known' = CASE c.opcode = "create_sq" -> [sq_known EXCEPT ![c.arg] = "ready"]
                                [] c.opcode = "delete_sq" -> [sq_known EXCEPT ![c.arg] = "none"]
                                [] OTHER -> sq_known
               /\ cq_known' = CASE c.opcode = "create_cq" -> [cq_known EXCEPT ![c.arg] = "ready"]
                                [] c.opcode = "delete_cq" -> [cq_known EXCEPT ![c.arg] = "none"]
                                [] OTHER -> cq_known
               /\ sq_mem' = [sq_mem EXCEPT ![cq_mem[head].sq_head] = NoCommand]
       ELSE UNCHANGED <<out, granted, sq_known, cq_known, sq_mem>>
  /\ UNCHANGED <<bar, devVars, cq_mem, irq, hpc, issued, tail, isr, io, races>>

IsrEnd ==
  /\ isr /\ ~EntryNew
  /\ isr' = FALSE
  /\ UNCHANGED <<bar, devVars, dbs, sq_mem, cq_mem, irq, hpc, out, issued, tail, head, hphase,
                 granted, sq_known, cq_known, io, races>>

HostIo(q) ==
  /\ sq_known[q] = "ready" /\ io[q].posted < MaxIo
  /\ io[q].posted - io[q].reaped < IoDepth - 1
  /\ io' = [io EXCEPT ![q].posted = @ + 1]
  /\ dbs' = [dbs EXCEPT !.sq[q] = (io[q].posted + 1) % IoDepth]
  /\ UNCHANGED <<bar, devVars, sq_mem, cq_mem, irq, hostVars, races>>

HostReaps(q) ==
  /\ sq_known[q] = "ready" /\ io[q].reaped < io[q].completed
  /\ io' = [io EXCEPT ![q].reaped = @ + 1]
  /\ dbs' = [dbs EXCEPT !.cq[q] = (@ + 1) % IoDepth]
  /\ UNCHANGED <<bar, devVars, sq_mem, cq_mem, irq, hostVars, races>>

HostWaits == HostSeesReady \/ HostSeesStopped \/ IsrStart \/ IsrTake \/ IsrEnd

Host ==
  \/ HostSetUp \/ HostStops \/ HostWaits
  \/ \E op \in AdminOp, arg \in 0 .. AskQueues : HostCommand(op, arg)
  \/ \E q \in Qid : HostIo(q) \/ HostReaps(q)

Next == nvmev_dispatcher \/ Host \/ \E q \in Qid : WorkerCompletes(q)

Spec == Init /\ [][Next]_vars

(* The dispatcher polls for as long as the module is loaded, and the host  *)
(* looks for the answers it waits for; it need not do anything else.       *)
FairSpec == Spec /\ WF_vars(nvmev_dispatcher) /\ WF_vars(HostWaits)

-----------------------------------------------------------------------------
(* Properties *)

TypeOK ==
  /\ bar \in Bar /\ old_bar \in OldBar /\ admin_q \in AdminQueue \union {NULL}
  /\ dpc \in {"aqa", "asq", "acq", "cc", "shn", "cc_copy", "dbs", "admin_req", "admin_cq",
              "io_sq", "io_cq", "oops_register", "oops_stat"}
  /\ dbs \in Doorbells /\ old_dbs \in Doorbells
  /\ nr_sq \in 0 .. NR_MAX_IO_QUEUE /\ nr_cq \in 0 .. NR_MAX_IO_QUEUE
  /\ adm \in [curr : Slot, left : 0 .. AdminSqDepth - 1, new_db : Slot]
  /\ DOMAIN cq_mem = 0 .. AdminCqDepth - 1 /\ head \in DOMAIN cq_mem
  /\ DOMAIN sqes = Qid /\ DOMAIN cqes = Qid

Crashed == dpc \in {"oops_register", "oops_stat"}

(* The dispatcher reads through a null pointer only if the host overtook    *)
(* it: a queue register or cc was written before the one before it was     *)
(* polled (pci.c:111, 125, and an admin command without a queue), or a     *)
(* submission queue was deleted before the completion doorbell of its last *)
(* commands was polled (io.c:418).                                         *)
CrashOnlyByRace ==
  /\ dpc = "oops_register" => "register" \in races
  /\ dpc = "oops_stat" => "doorbell" \in races

(* An entry that looks new to the host is the answer to its oldest command *)
(* that is not answered, and to no other: head and phase of the admin      *)
(* completion queue go round in step with the host's, no entry of an older *)
(* round is taken for a new one, and no more queues are granted than the   *)
(* tables hold (admin.c, __nvmev_proc_admin_req).                          *)
AdminInOrder ==
  EntryNew =>
    /\ out # <<>> /\ cq_mem[head].command_id = Head(out).command_id
    /\ Head(out).opcode = "set_features" => cq_mem[head].result + 1 \in Qid

(* The tables say of the I/O queues what the host was told: a queue whose  *)
(* creation was answered exists and is polled, one whose deletion was      *)
(* answered is gone, and a submission queue has its completion queue.      *)
QueuesAsHostSees ==
  \A q \in Qid :
    /\ sq_known[q] = "ready" => sqes[q] # NULL /\ q <= nr_sq
    /\ cq_known[q] = "ready" => cqes[q] # NULL /\ q <= nr_cq
    /\ sq_known[q] = "none" => sqes[q] = NULL
    /\ cq_known[q] = "none" => cqes[q] = NULL
    /\ sqes[q] # NULL => cqes[q] # NULL

(* The dispatcher takes no entry for a command that the host has not put   *)
(* there since it created the queue, whatever the doorbells of an earlier  *)
(* queue with this number were (main.c:130, admin.c:120).                  *)
FetchedWerePosted == \A q \in Qid : io[q].fetched <= io[q].posted

(* Waiting for the controller ends: it gets ready, shut down or disabled,  *)
(* unless it crashed or the last change of cc came between test and copy   *)
(* (pci.c:152).                                                            *)
HandshakesEnd ==
  /\ hpc = "enabling" ~> hpc = "ready" \/ Crashed
  /\ hpc \in {"shutting_down", "disabling"} ~> hpc = "off" \/ Crashed \/ "cc" \in races

Answerable(n) ==
  \E i \in 1 .. Len(out) :
    out[i].command_id = n /\ \A j \in 1 .. i : out[j].opcode # "get_features"

(* Every admin command is answered, unless an earlier one left a gap, and  *)
(* every I/O command posted is fetched.                                    *)
CommandsServed ==
  /\ \A n \in 1 .. MaxCommands : Answerable(n) ~> ~Answerable(n) \/ Crashed
  /\ \A q \in Qid : io[q].fetched < io[q].posted ~> io[q].fetched = io[q].posted \/ Crashed
=============================================================================
