-------------------------------- MODULE Admin --------------------------------
(***************************************************************************)
(* Admin commands (admin.c): the dispatcher takes the commands between the *)
(* old and the new value of the admin submission doorbell, one by one,     *)
(* changes the tables of I/O queues, and answers in the admin completion   *)
(* queue.  Queue 0 is the admin queue pair.                                *)
(*                                                                         *)
(* A queue is what the tables say of it; its entries are in Dispatcher.    *)
(* The pages that identify fills are the host's and are left out.  A       *)
(* queue is deleted only while it exists (see the host in Controller).     *)
(***************************************************************************)
EXTENDS Bars

CONSTANTS
  NR_MAX_IO_QUEUE,
  IoDepth           \* queue_size of every I/O queue

ASSUME QueueAssumption ==
  NR_MAX_IO_QUEUE \in Nat \ {0} /\ IoDepth \in Nat \ {0, 1}

Qid  == 1 .. NR_MAX_IO_QUEUE

(* The null pointer is not a queue. *)
ASSUME NullTableAssumption ==
  NULL \notin [queue_size : {IoDepth}] \union [queue_size : {IoDepth}, cqid : Qid]

Slot == 0 .. AdminSqDepth - 1

VARIABLES
  dbs, old_dbs,     \* doorbells of submission and completion queues
  sqes, cqes,       \* the I/O queues, NULL where there is none
  nr_sq, nr_cq,
  sq_mem, cq_mem,   \* the admin queues, in memory of the host
  adm,              \* loop variables of nvmev_proc_admin_sq
  irq               \* the interrupt of vector 0 is pending at the host

adminVars == <<dbs, old_dbs, sqes, cqes, nr_sq, nr_cq, sq_mem, cq_mem, adm, irq>>

(* Opcodes.  "identify" stands for identify and for set_features of what   *)
(* the controller does not keep, "set_features" for the number of queues,  *)
(* "get_features" for it, abort, and all that is not handled.              *)
Reports == {"identify", "get_log_page", "async_event"}
Creates == {"create_cq", "create_sq"}
Deletes == {"delete_sq", "delete_cq"}
AdminOp == Reports \union Creates \union Deletes \union {"set_features", "get_features"}

Status == {"SUCCESS", "INVALID_FIELD", "ASYNC_LIMIT"}
NoCommand == [command_id |-> 0, opcode |-> "get_features", arg |-> 0]

Doorbells == [sq : [{0} \union Qid -> Nat], cq : [{0} \union Qid -> Nat]]
ZeroDoorbells == [sq |-> [q \in {0} \union Qid |-> 0], cq |-> [q \in {0} \union Qid |-> 0]]

AdminInit ==
  /\ dbs = ZeroDoorbells /\ old_dbs = ZeroDoorbells
  /\ sqes = [q \in Qid |-> NULL] /\ cqes = [q \in Qid |-> NULL]
  /\ nr_sq = 0 /\ nr_cq = 0
  /\ sq_mem = [s \in Slot |-> NoCommand]
  /\ cq_mem = [s \in 0 .. AdminCqDepth - 1 |->
                 [command_id |-> 0, sq_head |-> 0, status |-> "SUCCESS", phase |-> 0,
                  result |-> 0]]
  /\ adm = [curr |-> 0, left |-> 0, new_db |-> 0]
  /\ irq = FALSE

(* The entries between two doorbell values of a queue of that size.        *)
Distance(new, old, size) == IF new < old THEN new - old + size ELSE new - old

-----------------------------------------------------------------------------
(* nvmev_proc_admin_sq *)

StartAdminSq ==
  /\ dpc = "dbs"
  /\ \/ /\ dbs.sq[0] = old_dbs.sq[0] /\ dpc' = "admin_cq"
        /\ UNCHANGED adm
     \/ /\ dbs.sq[0] # old_dbs.sq[0] /\ dpc' = "admin_req"
        /\ adm' = [curr |-> old_dbs.sq[0], new_db |-> dbs.sq[0],
                   left |-> Distance(dbs.sq[0], old_dbs.sq[0], admin_q.sq_depth)]
  /\ UNCHANGED <<bar, old_bar, admin_q, dbs, old_dbs, sqes, cqes, nr_sq, nr_cq, sq_mem, cq_mem,
                 irq>>

(* Fault: no interrupt is sent for the batch. *)
EndAdminSqSilent ==
  /\ dpc = "admin_req" /\ adm.left = 0
  /\ old_dbs' = [old_dbs EXCEPT !.sq[0] = adm.new_db]
  /\ dpc' = "admin_cq"
  /\ UNCHANGED <<bar, old_bar, admin_q, dbs, sqes, cqes, nr_sq, nr_cq, sq_mem, cq_mem, adm, irq>>

(* The end of the loop: the interrupt, and the doorbell value is taken over.*)
EndAdminSq ==
  /\ dpc = "admin_req" /\ adm.left = 0
  /\ irq' = TRUE
  /\ old_dbs' = [old_dbs EXCEPT !.sq[0] = adm.new_db]
  /\ dpc' = "admin_cq"
  /\ UNCHANGED <<bar, old_bar, admin_q, dbs, sqes, cqes, nr_sq, nr_cq, sq_mem, cq_mem, adm>>

Command == sq_mem[adm.curr]

(* Fault: the ring of commands is taken to be one entry longer. *)
TakeRequestLate(ops) ==
  /\ dpc = "admin_req" /\ adm.left > 0 /\ UNCHANGED dpc
  /\ admin_q.nvme_sq /\ Command.opcode \in ops
  /\ adm' = [adm EXCEPT !.curr = IF @ = admin_q.sq_depth THEN 0 ELSE @ + 1, !.left = @ - 1]

(* One turn of the loop for the opcodes in ops; the queues must be there.   *)
TakeRequest(ops) ==
  /\ dpc = "admin_req" /\ adm.left > 0 /\ UNCHANGED dpc
  /\ admin_q.nvme_sq /\ Command.opcode \in ops
  /\ adm' = [adm EXCEPT !.curr = IF @ + 1 = admin_q.sq_depth THEN 0 ELSE @ + 1,
                        !.left = @ - 1]

(* The end of __nvmev_proc_admin_req, whether or not an entry was written. *)
AdvanceAdminHead ==
  admin_q' = IF admin_q.cq_head + 1 = admin_q.cq_depth
               THEN [admin_q EXCEPT !.cq_head = 0, !.phase = 1 - @]
               ELSE [admin_q EXCEPT !.cq_head = @ + 1]

(* Writes the completion entry; the result only if the command has one.    *)
Answer(status, result) ==
  /\ admin_q.nvme_cq
  /\ cq_mem' = [cq_mem EXCEPT ![admin_q.cq_head] =
                  [command_id |-> Command.command_id, sq_head |-> adm.curr,
                   status |-> status, phase |-> admin_q.phase, result |-> result]]
  /\ AdvanceAdminHead

OldResult == cq_mem[admin_q.cq_head].result

adminFrame == <<bar, old_bar, dbs, old_dbs, sq_mem, irq>>

ReportStatus(op) ==
  CASE op = "identify"     -> "SUCCESS"
    [] op = "get_log_page" -> "INVALID_FIELD"
    [] op = "async_event"  -> "ASYNC_LIMIT"

Report ==
  /\ TakeRequest(Reports)
  /\ Answer(ReportStatus(Command.opcode), IF Command.opcode = "async_event" THEN 0 ELSE OldResult)
  /\ UNCHANGED <<adminFrame, sqes, cqes, nr_sq, nr_cq>>

(* get_features, abort and what is not handled: no entry is written, but   *)
(* the head moves on, so that the host finds an old entry in the gap.      *)
LeaveGap ==
  /\ TakeRequest({"get_features"})
  /\ AdvanceAdminHead
  /\ UNCHANGED <<adminFrame, cq_mem, sqes, cqes, nr_sq, nr_cq>>

(* Fault: the number of queues is granted as asked for. *)
GrantedQueuesAsked(asked) == asked

GrantedQueues(asked) == IF asked < NR_MAX_IO_QUEUE THEN asked ELSE NR_MAX_IO_QUEUE

(* NVME_FEAT_NUM_QUEUES, with as many completion as submission queues.     *)
set_features ==
  /\ TakeRequest({"set_features"})
  /\ nr_sq' = GrantedQueues(Command.arg) /\ nr_cq' = GrantedQueues(Command.arg)
  /\ Answer("SUCCESS", GrantedQueues(Command.arg) - 1)
  /\ UNCHANGED <<adminFrame, sqes, cqes>>

(* Fault: the dispatcher's copy of the doorbell is not reset. *)
create_cqOldDoorbell ==
  /\ TakeRequest({"create_cq"})
  /\ cqes' = [cqes EXCEPT ![Command.arg] = [queue_size |-> IoDepth]]
  /\ dbs' = [dbs EXCEPT !.cq[Command.arg] = 0]
  /\ Answer("SUCCESS", OldResult)
  /\ UNCHANGED <<bar, old_bar, old_dbs, sqes, nr_sq, nr_cq, sq_mem, irq>>

create_cq ==
  /\ TakeRequest({"create_cq"})
  /\ cqes' = [cqes EXCEPT ![Command.arg] = [queue_size |-> IoDepth]]
  /\ dbs' = [dbs EXCEPT !.cq[Command.arg] = 0]
  /\ old_dbs' = [old_dbs EXCEPT !.cq[Command.arg] = 0]
  /\ Answer("SUCCESS", OldResult)
  /\ UNCHANGED <<bar, old_bar, sqes, nr_sq, nr_cq, sq_mem, irq>>

(* Fault: the dispatcher's copy of the doorbell is not reset. *)
create_sqOldDoorbell ==
  /\ TakeRequest({"create_sq"})
  /\ sqes' = [sqes EXCEPT ![Command.arg] = [queue_size |-> IoDepth, cqid |-> Command.arg]]
  /\ dbs' = [dbs EXCEPT !.sq[Command.arg] = 0]
  /\ Answer("SUCCESS", OldResult)
  /\ UNCHANGED <<bar, old_bar, old_dbs, cqes, nr_sq, nr_cq, sq_mem, irq>>

create_sq ==
  /\ TakeRequest({"create_sq"})
  /\ sqes' = [sqes EXCEPT ![Command.arg] = [queue_size |-> IoDepth, cqid |-> Command.arg]]
  /\ dbs' = [dbs EXCEPT !.sq[Command.arg] = 0]
  /\ old_dbs' = [old_dbs EXCEPT !.sq[Command.arg] = 0]
  /\ Answer("SUCCESS", OldResult)
  /\ UNCHANGED <<bar, old_bar, cqes, nr_sq, nr_cq, sq_mem, irq>>

(* Fault: the submission queue's table is cleared. *)
delete_cqWrongTable ==
  /\ TakeRequest({"delete_cq"})
  /\ sqes' = [sqes EXCEPT ![Command.arg] = NULL]
  /\ Answer("SUCCESS", OldResult)
  /\ UNCHANGED <<adminFrame, cqes, nr_sq, nr_cq>>

delete_cq ==
  /\ TakeRequest({"delete_cq"})
  /\ cqes' = [cqes EXCEPT ![Command.arg] = NULL]
  /\ Answer("SUCCESS", OldResult)
  /\ UNCHANGED <<adminFrame, sqes, nr_sq, nr_cq>>

delete_sq ==
  /\ TakeRequest({"delete_sq"})
  /\ sqes' = [sqes EXCEPT ![Command.arg] = NULL]
  /\ Answer("SUCCESS", OldResult)
  /\ UNCHANGED <<adminFrame, cqes, nr_sq, nr_cq>>

(* The admin queues were not set up when the controller said it was ready.  *)
OopsNoAdminQueue ==
  /\ dpc = "admin_req" /\ adm.left > 0
  /\ \/ ~admin_q.nvme_sq
     \/ admin_q.nvme_sq /\ ~admin_q.nvme_cq /\ Command.opcode # "get_features"
  /\ dpc' = "oops_register"
  /\ UNCHANGED <<bar, old_bar, admin_q, adminVars>>

(* nvmev_proc_admin_cq does nothing. *)
AdminCqDoorbell ==
  /\ dpc = "admin_cq" /\ dpc' = "io_sq"
  /\ old_dbs' = [old_dbs EXCEPT !.cq[0] = dbs.cq[0]]
  /\ UNCHANGED <<bar, old_bar, admin_q, dbs, sqes, cqes, nr_sq, nr_cq, sq_mem, cq_mem, adm, irq>>

nvmev_proc_admin_sq ==
  \/ StartAdminSq \/ EndAdminSq \/ Report \/ LeaveGap \/ set_features
  \/ create_cq \/ create_sq \/ delete_cq \/ delete_sq \/ OopsNoAdminQueue
=============================================================================
