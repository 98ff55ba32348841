-------------------------- MODULE ControllerProofs --------------------------
(* The controller, the host and the interrupt between them: for every depth *)
(* of the queues and every number of them, the host's admin commands are    *)
(* answered in their order, the tables of I/O queues hold what the host was *)
(* told, no I/O entry is taken twice, and the dispatcher reads through a    *)
(* null pointer only after the host overtook it at a register or a doorbell.*)
(*                                                                          *)
(* The inductive invariant CtlInv gives each of the host's unfinished admin *)
(* commands, out, a place in the two admin rings.  Two numbers say where:   *)
(* the ring of requests starts at the slot b, and the first a commands are  *)
(* answered.  They are no variables of the model; AdminInv claims that      *)
(* there are such numbers, and a step says which ones they become:          *)
(*   a command the host adds leaves both;                                   *)
(*   a turn of the dispatcher's loop makes a one larger;                    *)
(*   an answer the host takes makes a one smaller and moves b on.           *)
(* The host sees an answer by the phase of its entry alone, so AnswersOf    *)
(* also says that the entries after the first a places, and the gap that    *)
(* get_features leaves, still have the phase of the round before.           *)
EXTENDS Controller, TLAPS
-----------------------------------------------------------------------------
(* Types *)

CqSlot == 0 .. AdminCqDepth - 1
Request == [command_id : Nat, opcode : AdminOp, arg : Nat]
Entry == [command_id : Nat, sq_head : Slot, status : Status, phase : {0, 1}, result : Int]
SqTable == [queue_size : {IoDepth}, cqid : Qid]
CqTable == [queue_size : {IoDepth}]
Known == {"none", "asked", "ready"}
Counts == [posted : Nat, fetched : Nat, completed : Nat, reaped : Nat]
Early == {"detached", "has_aqa", "has_asq", "has_acq"}

(* The types, by who keeps the state. *)
RegType ==
  /\ bar \in Bar /\ old_bar \in OldBar /\ admin_q \in AdminQueue \union {NULL}
  /\ dpc \in {"aqa", "asq", "acq", "cc", "shn", "cc_copy", "dbs", "admin_req", "admin_cq",
              "io_sq", "io_cq", "oops_register", "oops_stat"}
  /\ hpc \in Early \union {"enabling", "ready", "shutting_down", "disabling", "off"}

QueueType ==
  /\ dbs \in Doorbells /\ old_dbs \in Doorbells
  /\ sqes \in [Qid -> SqTable \union {NULL}] /\ cqes \in [Qid -> CqTable \union {NULL}]
  /\ nr_sq \in 0 .. NR_MAX_IO_QUEUE /\ nr_cq \in 0 .. NR_MAX_IO_QUEUE
  /\ qid \in Nat \ {0}

AdminType ==
  /\ sq_mem \in [Slot -> Request] /\ cq_mem \in [CqSlot -> Entry]
  /\ adm \in [curr : Slot, left : 0 .. AdminSqDepth - 1, new_db : Slot]

HostType ==
  /\ out \in Seq(Request) /\ issued \in Nat
  /\ tail \in Slot /\ head \in CqSlot /\ hphase \in {0, 1}
  /\ granted \in 0 .. NR_MAX_IO_QUEUE
  /\ sq_known \in [Qid -> Known] /\ cq_known \in [Qid -> Known]
  /\ io \in [Qid -> Counts]

-----------------------------------------------------------------------------
(* Registers *)

(* The dispatcher's copy of a register follows the register, and the host   *)
(* writes them in their order.                                              *)
Regs ==
  /\ (old_bar.aqa = TRUE) <=> (admin_q # NULL)
  /\ old_bar.aqa = TRUE => bar.aqa = TRUE
  /\ old_bar.asq = TRUE => bar.asq = TRUE
  /\ old_bar.acq = TRUE => bar.acq = TRUE
  /\ hpc # "detached" => bar.aqa = TRUE
  /\ hpc \in {"detached", "has_aqa"} => bar.asq = FALSE
  /\ hpc \in {"detached", "has_aqa", "has_asq"} => bar.acq = FALSE
  /\ hpc = "has_asq" => bar.asq = TRUE
  /\ hpc = "has_acq" => bar.acq = TRUE
  /\ bar.csts.rdy = 1 => admin_q # NULL
  /\ hpc \notin Early \union {"enabling"} => admin_q # NULL
  /\ hpc \in Early => out = <<>>

(* A ring whose address was copied was registered with a queue. *)
Registered ==
  dpc # "oops_register" =>
    /\ old_bar.asq = TRUE => admin_q # NULL /\ admin_q.nvme_sq = TRUE
    /\ old_bar.acq = TRUE => admin_q # NULL /\ admin_q.nvme_cq = TRUE

(* Unless the host wrote a register before the dispatcher saw the one before. *)
InTurn ==
  "register" \notin races =>
    /\ bar.asq = TRUE => old_bar.aqa = TRUE
    /\ bar.acq = TRUE => old_bar.asq = TRUE
    /\ hpc \notin Early => old_bar.acq = TRUE
    /\ dpc # "oops_register"

-----------------------------------------------------------------------------
(* The admin queues *)

(* The i-th place of a ring of that depth from its place h on, and its phase. *)
At(depth, h, i) == IF h + i - 1 >= depth THEN h + i - 1 - depth ELSE h + i - 1
SqAt(b, i) == At(AdminSqDepth, b, i)
CqAt(i) == At(AdminCqDepth, head, i)
PhaseAt(i) == IF head + i - 1 >= AdminCqDepth THEN 1 - hphase ELSE hphase

(* The slot the dispatcher takes next, in its loop or when it starts it. *)
Taker == IF dpc = "admin_req" THEN adm.curr ELSE old_dbs.sq[0]

(* The ring of requests: the unfinished commands from slot b on, and the    *)
(* dispatcher at the first that is not answered.                            *)
RingOf(a, b) ==
  /\ a <= Len(out) /\ Len(out) < AdminSqDepth /\ Len(out) < AdminCqDepth
  /\ tail = SqAt(b, Len(out) + 1) /\ dbs.sq[0] = tail
  /\ dpc # "oops_register" => Taker = SqAt(b, a + 1)
  /\ dpc = "admin_req" => a + adm.left <= Len(out) /\ adm.new_db = SqAt(b, a + 1 + adm.left)
  /\ \A i \in a + 1 .. Len(out) : sq_mem[SqAt(b, i)] = out[i]

(* The ring of answers: from the host's head, one for each of the first a.  *)
AnswersOf(a, b) ==
  /\ admin_q # NULL => admin_q.cq_head = CqAt(a + 1) /\ admin_q.phase = PhaseAt(a + 1)
  /\ admin_q = NULL => out = <<>> /\ head = 0 /\ hphase = 1
  /\ \A i \in 1 .. a : out[i].opcode # "get_features" =>
       /\ cq_mem[CqAt(i)].command_id = out[i].command_id
       /\ cq_mem[CqAt(i)].sq_head = SqAt(b, i)
       /\ out[i].opcode = "set_features" =>
            /\ cq_mem[CqAt(i)].result + 1 = nr_sq /\ nr_cq = nr_sq /\ nr_sq > 0
  /\ \A i \in 1 .. AdminCqDepth : i > a \/ out[i].opcode = "get_features" =>
       cq_mem[CqAt(i)].phase = 1 - PhaseAt(i)

-----------------------------------------------------------------------------
(* The I/O queues *)

IsCqOp(i, q) == out[i].opcode \in {"create_cq", "delete_cq"} /\ out[i].arg = q
IsSqOp(i, q) == out[i].opcode \in {"create_sq", "delete_sq"} /\ out[i].arg = q

(* The host asks for the number of queues once, and uses no more than that. *)
GrantOf ==
  /\ granted > 0 => granted = nr_sq /\ granted = nr_cq
  /\ \A i \in 1 .. Len(out) : out[i].opcode = "set_features" => granted = 0 /\ out[i].arg = AskQueues
  /\ \A i, j \in 1 .. Len(out) :
       out[i].opcode = "set_features" /\ out[j].opcode = "set_features" => i = j
  /\ \A i \in 1 .. Len(out) : out[i].opcode \in Creates \union Deletes => out[i].arg \in 1 .. granted
  /\ \A q \in Qid : cq_known[q] # "none" \/ sq_known[q] # "none" => q <= granted

(* A table has the queue when its creation is answered, whether or not the  *)
(* host has seen the answer, and no more when its deletion is.              *)
CqTables(a) ==
  \A q \in Qid :
    /\ cq_known[q] = "none" => cqes[q] = NULL
    /\ cq_known[q] = "ready" => cqes[q] # NULL
    /\ \A i \in 1 .. Len(out) : IsCqOp(i, q) =>
         /\ cq_known[q] = "asked"
         /\ out[i].opcode = "create_cq" /\ i <= a => cqes[q] # NULL
         /\ out[i].opcode = "create_cq" /\ i > a => cqes[q] = NULL
         /\ out[i].opcode = "delete_cq" /\ i <= a => cqes[q] = NULL
         /\ out[i].opcode = "delete_cq" /\ i > a => cqes[q] # NULL
    /\ \A i, j \in 1 .. Len(out) : IsCqOp(i, q) /\ IsCqOp(j, q) => i = j

SqTables(a) ==
  \A q \in Qid :
    /\ sq_known[q] = "none" => sqes[q] = NULL
    /\ sq_known[q] = "ready" => sqes[q] # NULL
    /\ sq_known[q] # "none" => cq_known[q] = "ready"
    /\ \A i \in 1 .. Len(out) : IsSqOp(i, q) =>
         /\ sq_known[q] = "asked"
         /\ out[i].opcode = "create_sq" /\ i <= a => sqes[q] # NULL
         /\ out[i].opcode = "create_sq" /\ i > a => sqes[q] = NULL /\ io[q] = NoIo
         /\ out[i].opcode = "delete_sq" /\ i <= a => sqes[q] = NULL
         /\ out[i].opcode = "delete_sq" /\ i > a => sqes[q] # NULL
    /\ \A i, j \in 1 .. Len(out) : IsSqOp(i, q) /\ IsSqOp(j, q) => i = j

(* Entries are posted, taken, completed and reaped in that order, at most a *)
(* ring of them ahead, and a doorbell shows the number modulo the ring.     *)
Counted ==
  \A q \in Qid :
    /\ io[q].reaped <= io[q].completed /\ io[q].completed <= io[q].fetched
    /\ io[q].fetched <= io[q].posted /\ io[q].posted - io[q].reaped <= IoDepth - 1
    /\ sqes[q] # NULL =>
         dbs.sq[q] = io[q].posted % IoDepth /\ old_dbs.sq[q] = io[q].fetched % IoDepth

(* Unless the host deleted a queue whose doorbell was rung and not yet seen. *)
Settled ==
  "doorbell" \notin races =>
    /\ dpc # "oops_stat"
    /\ \A q \in Qid : sq_known[q] # "ready" => dbs.cq[q] = old_dbs.cq[q]

AdminOf(a, b) == RingOf(a, b) /\ AnswersOf(a, b) /\ CqTables(a) /\ SqTables(a)
AdminInv == \E a \in Nat, b \in Slot : AdminOf(a, b)

RegInv == RegType /\ Regs /\ Registered /\ InTurn
CtlInv ==
  /\ RegInv /\ QueueType /\ AdminType /\ HostType
  /\ GrantOf /\ AdminInv /\ Counted /\ Settled

-----------------------------------------------------------------------------
(* Places of a ring *)

LEMMA AtIsPlace ==
  ASSUME NEW depth \in Nat \ {0, 1}, NEW h \in 0 .. depth - 1, NEW i \in 1 .. depth
  PROVE  /\ At(depth, h, i) \in 0 .. depth - 1
         /\ At(depth, h, 1) = h
  BY DEF At

LEMMA AtNext ==
  ASSUME NEW depth \in Nat \ {0, 1}, NEW h \in 0 .. depth - 1, NEW i \in 1 .. depth
  PROVE  At(depth, h, i + 1) = IF At(depth, h, i) + 1 = depth THEN 0 ELSE At(depth, h, i) + 1
  BY DEF At

LEMMA AtInjective ==
  ASSUME NEW depth \in Nat \ {0, 1}, NEW h \in 0 .. depth - 1,
         NEW i \in 1 .. depth, NEW j \in 1 .. depth, At(depth, h, i) = At(depth, h, j)
  PROVE  i = j
  BY DEF At

LEMMA AtShift ==
  ASSUME NEW depth \in Nat \ {0, 1}, NEW h \in 0 .. depth - 1, NEW i \in 1 .. depth
  PROVE  At(depth, At(depth, h, 2), i) = At(depth, h, i + 1)
  BY DEF At

LEMMA NextSlot ==
  ASSUME NEW depth \in Nat \ {0, 1}, NEW h \in 0 .. depth - 1
  PROVE  (h + 1) % depth = IF h + 1 = depth THEN 0 ELSE h + 1
  OBVIOUS

-----------------------------------------------------------------------------
(* Types *)

LEMMA NullTables == NULL \notin SqTable /\ NULL \notin CqTable
  BY NullTableAssumption DEF SqTable, CqTable

LEMMA CommandType ==
  ASSUME AdminType
  PROVE  /\ Command \in Request /\ Command.opcode \in AdminOp
         /\ Command.arg \in Nat /\ Command.command_id \in Nat
  BY DEF AdminType, Command, Request

LEMMA HeadAdvances ==
  ASSUME admin_q \in AdminQueue, AdvanceAdminHead
  PROVE  /\ admin_q' \in AdminQueue
         /\ admin_q'.nvme_sq = admin_q.nvme_sq /\ admin_q'.nvme_cq = admin_q.nvme_cq
         /\ admin_q.cq_head + 1 = AdminCqDepth =>
              admin_q'.cq_head = 0 /\ admin_q'.phase = 1 - admin_q.phase
         /\ admin_q.cq_head + 1 # AdminCqDepth =>
              admin_q'.cq_head = admin_q.cq_head + 1 /\ admin_q'.phase = admin_q.phase
  <1>1. admin_q.cq_depth = AdminCqDepth
    BY DEF AdminQueue
  <1>2. CASE admin_q.cq_head + 1 = AdminCqDepth
    <2>1. admin_q' = [admin_q EXCEPT !.cq_head = 0, !.phase = 1 - @]
      BY <1>1, <1>2 DEF AdvanceAdminHead
    <2>2. admin_q' \in AdminQueue /\ admin_q'.cq_head = 0
      <3>1. 1 - admin_q.phase \in {0, 1} /\ 0 \in 0 .. AdminCqDepth - 1
        BY AdminAssumption DEF AdminQueue
      <3> DEFINE turned == [admin_q EXCEPT !.phase = 1 - admin_q.phase]
      <3>2. turned \in AdminQueue
        BY <3>1 DEF AdminQueue
      <3>3. admin_q' = [turned EXCEPT !.cq_head = 0]
        BY <2>1 DEF AdminQueue
      <3> QED
        BY <3>1, <3>2, <3>3 DEF AdminQueue
    <2>3. admin_q'.nvme_sq = admin_q.nvme_sq /\ admin_q'.nvme_cq = admin_q.nvme_cq
      BY <2>1 DEF AdminQueue
    <2>4. admin_q'.phase = 1 - admin_q.phase
      BY <2>1 DEF AdminQueue
    <2> QED
      BY <2>2, <2>3, <2>4, <1>2
  <1>3. CASE admin_q.cq_head + 1 # AdminCqDepth
    <2>1. admin_q' = [admin_q EXCEPT !.cq_head = @ + 1]
      BY <1>1, <1>3 DEF AdvanceAdminHead
    <2> QED
      BY <2>1, <1>3, AdminAssumption DEF AdminQueue
  <1> QED
    BY <1>2, <1>3

(* One turn of the loop: a request is taken, the head of the completion     *)
(* queue moves on, and an entry is written unless it leaves a gap.         *)
Turn == \E ops : TakeRequest(ops) /\ AdvanceAdminHead /\ UNCHANGED <<bar, old_bar, sq_mem, irq>>
Entered == \E status \in Status, result \in Int : Answer(status, result)

LEMMA Turns ==
  ASSUME AdminType, RegType, QueueType, admin_q # NULL,
         Report \/ LeaveGap \/ set_features \/ create_cq \/ create_sq \/ delete_cq \/ delete_sq
  PROVE  Turn /\ (Entered \/ LeaveGap)
  <1>1. OldResult \in Int
    <2>1. admin_q.cq_head \in CqSlot
      BY DEF RegType, AdminQueue, CqSlot
    <2> QED
      BY <2>1 DEF OldResult, AdminType, Entry
  <1>2. CASE Report
    <2>1. ReportStatus(Command.opcode) \in Status
      BY <1>2 DEF Report, TakeRequest, Reports, ReportStatus, Status
    <2>2. (IF Command.opcode = "async_event" THEN 0 ELSE OldResult) \in Int
      BY <1>1
    <2> QED
      BY <1>2, <2>1, <2>2 DEF Report, Turn, Entered, Answer, adminFrame
  <1>3. CASE set_features
    <2>1. GrantedQueues(Command.arg) - 1 \in Int
      BY CommandType, QueueAssumption DEF GrantedQueues
    <2>2. Answer("SUCCESS", GrantedQueues(Command.arg) - 1)
      BY <1>3 DEF set_features
    <2> QED
      BY <1>3, <2>1, <2>2 DEF set_features, Turn, Entered, Answer, adminFrame, Status
  <1>4. CASE LeaveGap
    BY <1>4 DEF LeaveGap, Turn, adminFrame
  <1>5. CASE create_cq \/ create_sq \/ delete_cq \/ delete_sq
    <2>1. Answer("SUCCESS", OldResult)
      BY <1>5 DEF create_cq, create_sq, delete_cq, delete_sq
    <2>2. Turn
      BY <1>5, <2>1 DEF create_cq, create_sq, delete_cq, delete_sq, Turn, Answer, adminFrame
    <2> QED
      BY <1>1, <2>1, <2>2 DEF Entered, Status
  <1> QED
    BY <1>2, <1>3, <1>4, <1>5

-----------------------------------------------------------------------------
(* Registers *)

(* A queue that is created stays, and it keeps what it knows of the host's rings. *)
QueueStays ==
  \/ admin_q' = admin_q
  \/ /\ admin_q # NULL /\ admin_q' \in AdminQueue
     /\ admin_q'.nvme_sq = admin_q.nvme_sq /\ admin_q'.nvme_cq = admin_q.nvme_cq

LEMMA RegistersUntouched ==
  ASSUME RegInv, UNCHANGED <<bar, old_bar, hpc>>, QueueStays,
         "register" \in races' <=> "register" \in races,
         dpc' \in {"aqa", "asq", "acq", "cc", "shn", "cc_copy", "dbs", "admin_req", "admin_cq",
                  "io_sq", "io_cq", "oops_register", "oops_stat"},
         dpc' = "oops_register" <=> dpc = "oops_register",
         hpc \in Early => out' = <<>>
  PROVE  RegInv'
  <1>1. admin_q' \in AdminQueue \union {NULL} /\ (admin_q' = NULL <=> admin_q = NULL)
    BY NullQueueAssumption DEF RegInv, RegType, QueueStays
  <1>2. RegType'
    BY <1>1 DEF RegInv, RegType
  <1>3. Regs'
    BY <1>1 DEF RegInv, Regs
  <1>4. Registered'
    BY <1>1 DEF RegInv, Registered, QueueStays
  <1>5. InTurn'
    BY DEF RegInv, InTurn
  <1> QED
    BY <1>2, <1>3, <1>4, <1>5 DEF RegInv

LEMMA BarsKeepRegisters ==
  ASSUME RegInv, nvmev_proc_bars, UNCHANGED <<hpc, out, races>>, admin_q = NULL => out = <<>>
  PROVE  RegInv'
  <1>0. /\ hpc \in Early => out' = <<>>
        /\ "register" \in races' <=> "register" \in races
        /\ hpc' = hpc
    BY DEF RegInv, Regs
  <1>1. CASE PollAqa
    <2>1. CASE UNCHANGED <<old_bar, admin_q>>
      <3>1. UNCHANGED <<bar, old_bar>> /\ QueueStays /\ dpc = "aqa" /\ dpc' = "asq"
        BY <1>1, <2>1 DEF PollAqa, QueueStays
      <3> QED
        BY <1>0, <3>1, RegistersUntouched
    <2>2. CASE bar.aqa # old_bar.aqa
      <3> DEFINE fresh == [phase |-> 1, cq_head |-> 0, sq_depth |-> AdminSqDepth,
                           cq_depth |-> AdminCqDepth, nvme_sq |-> FALSE, nvme_cq |-> FALSE]
      <3>1. fresh \in AdminQueue
        BY AdminAssumption DEF AdminQueue
      <3>2. admin_q' = fresh /\ old_bar' = [old_bar EXCEPT !.aqa = bar.aqa]
        BY <1>1, <2>2 DEF PollAqa
      <3>3. bar.aqa = TRUE /\ old_bar.aqa = FALSE
        BY <2>2 DEF RegInv, RegType, Regs, Bar, OldBar
      <3>4. old_bar'.aqa = TRUE /\ old_bar'.asq = old_bar.asq /\ old_bar'.acq = old_bar.acq
            /\ old_bar' \in OldBar
        BY <3>2, <3>3 DEF RegInv, RegType, OldBar
      <3>5. admin_q = NULL /\ admin_q' # NULL
        BY <3>1, <3>2, <3>3, NullQueueAssumption DEF RegInv, Regs
      <3>6. dpc # "oops_register" /\ dpc' = "asq" /\ bar' = bar
        BY <1>1 DEF PollAqa
      <3>7. RegType'
        BY <3>1, <3>2, <3>4, <3>6 DEF RegInv, RegType
      <3>8. Regs'
        BY <3>3, <3>4, <3>5, <3>6 DEF RegInv, Regs
      <3>9. Registered'
        BY <3>4, <3>5, <3>6 DEF RegInv, Registered
      <3>10. InTurn'
        BY <3>4, <3>6 DEF RegInv, InTurn
      <3> QED
        BY <3>7, <3>8, <3>9, <3>10 DEF RegInv
    <2> QED
      BY <1>1, <2>1, <2>2 DEF PollAqa
  <1>2. CASE PollAsq
    <2>1. CASE bar.asq = old_bar.asq
      <3>1. UNCHANGED <<bar, old_bar>> /\ QueueStays /\ dpc = "asq" /\ dpc' = "acq"
        BY <1>2, <2>1 DEF PollAsq, QueueStays
      <3> QED
        BY <1>0, <3>1, RegistersUntouched
    <2>2. CASE bar.asq # old_bar.asq
      <3>1. bar' = bar /\ old_bar' = [old_bar EXCEPT !.asq = bar.asq] /\ dpc = "asq"
        BY <1>2, <2>2 DEF PollAsq
      <3>2. bar.asq = TRUE
        BY <2>2 DEF RegInv, RegType, Regs, Bar, OldBar
      <3>3. old_bar'.asq = TRUE /\ old_bar'.aqa = old_bar.aqa /\ old_bar'.acq = old_bar.acq
            /\ old_bar' \in OldBar
        BY <3>1, <3>2 DEF RegInv, RegType, OldBar
      <3>4. CASE admin_q # NULL
        <4>1. dpc' = "acq" /\ admin_q' = [admin_q EXCEPT !.nvme_sq = TRUE]
          BY <1>2, <2>2, <3>4 DEF PollAsq
        <4>2. admin_q' \in AdminQueue /\ admin_q'.nvme_sq = TRUE
              /\ admin_q'.nvme_cq = admin_q.nvme_cq
          BY <3>4, <4>1 DEF RegInv, RegType, AdminQueue
        <4>3. admin_q' # NULL
          BY <4>2, NullQueueAssumption
        <4>4. RegType'
          BY <3>1, <3>3, <4>1, <4>2 DEF RegInv, RegType
        <4>5. Regs'
          BY <3>1, <3>2, <3>3, <3>4, <4>3 DEF RegInv, Regs
        <4>6. Registered'
          BY <3>1, <3>3, <4>1, <4>2, <4>3 DEF RegInv, Registered
        <4>7. InTurn'
          BY <3>1, <3>3, <4>1 DEF RegInv, InTurn
        <4> QED
          BY <4>4, <4>5, <4>6, <4>7 DEF RegInv
      <3>5. CASE admin_q = NULL
        <4>1. dpc' = "oops_register" /\ admin_q' = admin_q
          BY <1>2, <2>2, <3>5 DEF PollAsq
        <4>2. "register" \in races
          BY <3>2, <3>5 DEF RegInv, InTurn, Regs
        <4>3. RegType'
          BY <3>1, <3>3, <4>1 DEF RegInv, RegType
        <4>4. Regs'
          BY <3>1, <3>2, <3>3, <4>1 DEF RegInv, Regs
        <4> QED
          BY <4>1, <4>2, <4>3, <4>4 DEF RegInv, Registered, InTurn
      <3> QED
        BY <3>4, <3>5
    <2> QED
      BY <1>2, <2>1, <2>2 DEF PollAsq
  <1>3. CASE PollAcq
    <2>1. CASE bar.acq = old_bar.acq
      <3>1. UNCHANGED <<bar, old_bar>> /\ QueueStays /\ dpc = "acq" /\ dpc' = "cc"
        BY <1>3, <2>1 DEF PollAcq, QueueStays
      <3> QED
        BY <1>0, <3>1, RegistersUntouched
    <2>2. CASE bar.acq # old_bar.acq
      <3>1. bar' = bar /\ old_bar' = [old_bar EXCEPT !.acq = bar.acq] /\ dpc = "acq"
        BY <1>3, <2>2 DEF PollAcq
      <3>2. bar.acq = TRUE
        BY <2>2 DEF RegInv, RegType, Regs, Bar, OldBar
      <3>3. old_bar'.acq = TRUE /\ old_bar'.aqa = old_bar.aqa /\ old_bar'.asq = old_bar.asq
            /\ old_bar' \in OldBar
        BY <3>1, <3>2 DEF RegInv, RegType, OldBar
      <3>4. CASE admin_q # NULL
        <4>1. dpc' = "cc" /\ admin_q' = [admin_q EXCEPT !.nvme_cq = TRUE]
          BY <1>3, <2>2, <3>4 DEF PollAcq
        <4>2. admin_q' \in AdminQueue /\ admin_q'.nvme_cq = TRUE
              /\ admin_q'.nvme_sq = admin_q.nvme_sq
          BY <3>4, <4>1 DEF RegInv, RegType, AdminQueue
        <4>3. admin_q' # NULL
          BY <4>2, NullQueueAssumption
        <4>4. RegType'
          BY <3>1, <3>3, <4>1, <4>2 DEF RegInv, RegType
        <4>5. Regs'
          BY <3>1, <3>2, <3>3, <3>4, <4>3 DEF RegInv, Regs
        <4>6. Registered'
          BY <3>1, <3>3, <4>1, <4>2, <4>3 DEF RegInv, Registered
        <4>7. InTurn'
          BY <3>1, <3>2, <3>3, <4>1 DEF RegInv, InTurn
        <4> QED
          BY <4>4, <4>5, <4>6, <4>7 DEF RegInv
      <3>5. CASE admin_q = NULL
        <4>1. dpc' = "oops_register" /\ admin_q' = admin_q
          BY <1>3, <2>2, <3>5 DEF PollAcq
        <4>2. "register" \in races
          BY <3>1, <3>2, <3>5 DEF RegInv, InTurn, Regs, Registered
        <4>3. RegType'
          BY <3>1, <3>3, <4>1 DEF RegInv, RegType
        <4>4. Regs'
          BY <3>1, <3>2, <3>3, <4>1 DEF RegInv, Regs
        <4> QED
          BY <4>1, <4>2, <4>3, <4>4 DEF RegInv, Registered, InTurn
      <3> QED
        BY <3>4, <3>5
    <2> QED
      BY <1>3, <2>1, <2>2 DEF PollAcq
  <1>4. CASE PollEnable
    <2>1. CASE UNCHANGED bar
      <3>1. UNCHANGED <<bar, old_bar>> /\ QueueStays /\ dpc = "cc" /\ dpc' \in {"dbs", "shn"}
        BY <1>4, <2>1 DEF PollEnable, QueueStays
      <3> QED
        BY <1>0, <3>1, RegistersUntouched
    <2>2. CASE (bar.cc.en = 1 => admin_q # NULL) /\ bar' = [bar EXCEPT !.csts.rdy = bar.cc.en]
      <3>1. UNCHANGED <<old_bar, admin_q>> /\ dpc = "cc" /\ dpc' \in {"dbs", "shn"}
        BY <1>4 DEF PollEnable
      <3>2. bar' \in Bar /\ bar'.aqa = bar.aqa /\ bar'.asq = bar.asq /\ bar'.acq = bar.acq
            /\ bar'.csts.rdy = bar.cc.en
        BY <2>2 DEF RegInv, RegType, Bar, Cc
      <3>3. RegType'
        BY <3>1, <3>2 DEF RegInv, RegType
      <3>4. Regs'
        BY <2>2, <3>1, <3>2 DEF RegInv, Regs
      <3> QED
        BY <3>1, <3>2, <3>3, <3>4 DEF RegInv, Registered, InTurn
    <2> QED
      BY <1>4, <2>1, <2>2 DEF PollEnable
  <1>5. CASE PollShutdown
    <2>1. UNCHANGED <<old_bar, admin_q>> /\ dpc = "shn" /\ dpc' = "cc_copy"
      BY <1>5 DEF PollShutdown
    <2>2. bar' \in Bar /\ bar'.aqa = bar.aqa /\ bar'.asq = bar.asq /\ bar'.acq = bar.acq
          /\ bar'.csts.rdy = bar.csts.rdy
      BY <1>5 DEF PollShutdown, RegInv, RegType, Bar, Cc
    <2>3. RegType'
      BY <2>1, <2>2 DEF RegInv, RegType
    <2>4. Regs'
      BY <2>1, <2>2 DEF RegInv, Regs
    <2> QED
      BY <2>1, <2>2, <2>3, <2>4 DEF RegInv, Registered, InTurn
  <1>6. CASE PollCcCopy
    <2>1. UNCHANGED <<bar, admin_q>> /\ dpc = "cc_copy" /\ dpc' = "dbs"
      BY <1>6 DEF PollCcCopy
    <2>2. old_bar' \in OldBar /\ old_bar'.aqa = old_bar.aqa /\ old_bar'.asq = old_bar.asq
          /\ old_bar'.acq = old_bar.acq
      BY <1>6 DEF PollCcCopy, RegInv, RegType, Bar, OldBar
    <2>3. RegType'
      BY <2>1, <2>2 DEF RegInv, RegType
    <2>4. Regs'
      BY <2>1, <2>2 DEF RegInv, Regs
    <2> QED
      BY <2>1, <2>2, <2>3, <2>4 DEF RegInv, Registered, InTurn
  <1> QED
    BY <1>1, <1>2, <1>3, <1>4, <1>5, <1>6 DEF nvmev_proc_bars

LEMMA HostKeepsRegisters ==
  ASSUME RegInv, HostSetUp \/ HostSeesReady \/ HostStops \/ HostSeesStopped
  PROVE  RegInv'
  <1>1. UNCHANGED <<old_bar, admin_q, dpc, out>>
    BY DEF HostSetUp, HostSeesReady, HostStops, HostSeesStopped, devVars, hostRest
  <1>2. /\ bar \in Bar /\ old_bar \in OldBar
        /\ hpc \in Early \union {"enabling", "ready", "shutting_down", "disabling", "off"}
    BY DEF RegInv, RegType
  <1>3. bar.aqa \in BOOLEAN /\ bar.asq \in BOOLEAN /\ bar.acq \in BOOLEAN
        /\ old_bar.aqa \in BOOLEAN /\ old_bar.asq \in BOOLEAN /\ old_bar.acq \in BOOLEAN
    BY <1>2 DEF Bar, OldBar
  <1>4. CASE HostSetUp
    <2>1. CASE HostMove("detached", "has_aqa") /\ WriteReg("aqa") /\ UNCHANGED races
      <3>1. hpc = "detached" /\ hpc' = "has_aqa" /\ bar' = [bar EXCEPT !.aqa = TRUE]
        BY <2>1 DEF HostMove, WriteReg
      <3>2. bar' \in Bar /\ bar'.aqa = TRUE /\ bar'.asq = bar.asq /\ bar'.acq = bar.acq
            /\ bar'.csts = bar.csts
        BY <1>2, <3>1 DEF Bar
      <3>3. RegType'
        BY <1>1, <3>1, <3>2 DEF RegInv, RegType, Early
      <3>4. Regs'
        BY <1>1, <3>1, <3>2 DEF RegInv, Regs, Early
      <3>5. Registered' /\ InTurn'
        BY <1>1, <2>1, <3>1, <3>2 DEF RegInv, Registered, InTurn, Early
      <3> QED
        BY <3>3, <3>4, <3>5 DEF RegInv
    <2>2. CASE HostMove("has_aqa", "has_asq") /\ WriteReg("asq") /\ Race("register", ~Polled("aqa"))
      <3>1. hpc = "has_aqa" /\ hpc' = "has_asq" /\ bar' = [bar EXCEPT !.asq = TRUE]
        BY <2>2 DEF HostMove, WriteReg
      <3>2. bar' \in Bar /\ bar'.aqa = bar.aqa /\ bar'.asq = TRUE /\ bar'.acq = bar.acq
            /\ bar'.csts = bar.csts
        BY <1>2, <3>1 DEF Bar
      <3>3. "register" \notin races' => "register" \notin races /\ old_bar.aqa = bar.aqa
        BY <2>2 DEF Race, Polled
      <3>4. RegType'
        BY <1>1, <3>1, <3>2 DEF RegInv, RegType, Early
      <3>5. Regs'
        BY <1>1, <3>1, <3>2 DEF RegInv, Regs, Early
      <3>6. bar.aqa = TRUE /\ bar.acq = FALSE
        BY <3>1 DEF RegInv, Regs
      <3>7. Registered' /\ InTurn'
        BY <1>1, <3>1, <3>2, <3>3, <3>6 DEF RegInv, Registered, InTurn, Early
      <3> QED
        BY <3>4, <3>5, <3>7 DEF RegInv
    <2>3. CASE HostMove("has_asq", "has_acq") /\ WriteReg("acq") /\ Race("register", ~Polled("asq"))
      <3>1. hpc = "has_asq" /\ hpc' = "has_acq" /\ bar' = [bar EXCEPT !.acq = TRUE]
        BY <2>3 DEF HostMove, WriteReg
      <3>2. bar' \in Bar /\ bar'.aqa = bar.aqa /\ bar'.asq = bar.asq /\ bar'.acq = TRUE
            /\ bar'.csts = bar.csts
        BY <1>2, <3>1 DEF Bar
      <3>3. "register" \notin races' => "register" \notin races /\ old_bar.asq = bar.asq
        BY <2>3 DEF Race, Polled
      <3>4. RegType'
        BY <1>1, <3>1, <3>2 DEF RegInv, RegType, Early
      <3>5. Regs'
        BY <1>1, <3>1, <3>2 DEF RegInv, Regs, Early
      <3>6. bar.asq = TRUE
        BY <3>1 DEF RegInv, Regs
      <3>7. Registered' /\ InTurn'
        BY <1>1, <3>1, <3>2, <3>3, <3>6 DEF RegInv, Registered, InTurn, Early
      <3> QED
        BY <3>4, <3>5, <3>7 DEF RegInv
    <2>4. CASE /\ HostMove("has_acq", "enabling") /\ WriteCc([en |-> 1, shn |-> 0])
               /\ Race("register", ~Polled("acq"))
      <3>1. hpc = "has_acq" /\ hpc' = "enabling" /\ bar' = [bar EXCEPT !.cc = [en |-> 1, shn |-> 0]]
        BY <2>4 DEF HostMove, WriteCc
      <3>2. bar' \in Bar /\ bar'.aqa = bar.aqa /\ bar'.asq = bar.asq /\ bar'.acq = bar.acq
            /\ bar'.csts = bar.csts
        BY <1>2, <3>1 DEF Bar, Cc
      <3>3. "register" \notin races' => "register" \notin races /\ old_bar.acq = bar.acq
        BY <2>4 DEF Race, Polled
      <3>4. RegType'
        BY <1>1, <3>1, <3>2 DEF RegInv, RegType, Early
      <3>5. Regs'
        BY <1>1, <3>1, <3>2 DEF RegInv, Regs, Early
      <3>6. bar.acq = TRUE
        BY <3>1 DEF RegInv, Regs
      <3>7. Registered' /\ InTurn'
        BY <1>1, <3>1, <3>2, <3>3, <3>6 DEF RegInv, Registered, InTurn, Early
      <3> QED
        BY <3>4, <3>5, <3>7 DEF RegInv
    <2> QED
      BY <1>4, <2>1, <2>2, <2>3, <2>4 DEF HostSetUp
  <1>5. CASE HostSeesReady \/ HostSeesStopped
    <2>1. UNCHANGED <<bar, races>> /\ hpc \notin Early /\ hpc' \in {"ready", "off"}
      BY <1>5 DEF HostSeesReady, HostSeesStopped, HostMove, Early
    <2>2. admin_q # NULL
      BY <1>5 DEF HostSeesReady, HostSeesStopped, HostMove, Early, RegInv, Regs
    <2>3. RegType'
      BY <1>1, <2>1 DEF RegInv, RegType
    <2>4. Regs'
      BY <1>1, <2>1, <2>2 DEF RegInv, Regs, Early
    <2>5. Registered' /\ InTurn'
      BY <1>1, <2>1 DEF RegInv, Registered, InTurn
    <2> QED
      BY <2>3, <2>4, <2>5 DEF RegInv
  <1>6. CASE HostStops
    <2>1. hpc = "ready" /\ hpc' \in {"shutting_down", "disabling"}
          /\ \E cc \in Cc : bar' = [bar EXCEPT !.cc = cc]
      BY <1>6 DEF HostStops, WriteCc, Cc
    <2>2. bar' \in Bar /\ bar'.aqa = bar.aqa /\ bar'.asq = bar.asq /\ bar'.acq = bar.acq
          /\ bar'.csts = bar.csts
      BY <1>2, <2>1 DEF Bar
    <2>3. "register" \notin races' => "register" \notin races
      BY <1>6 DEF HostStops, Race
    <2>4. RegType'
      BY <1>1, <2>1, <2>2 DEF RegInv, RegType
    <2>5. Regs'
      BY <1>1, <2>1, <2>2 DEF RegInv, Regs, Early
    <2>6. Registered' /\ InTurn'
      BY <1>1, <2>1, <2>2, <2>3 DEF RegInv, Registered, InTurn, Early
    <2> QED
      BY <2>4, <2>5, <2>6 DEF RegInv
  <1> QED
    BY <1>4, <1>5, <1>6

-----------------------------------------------------------------------------
(* Doorbells and commands *)

LEMMA RingsSq ==
  ASSUME NEW d \in Doorbells, NEW q \in {0} \union Qid, NEW v \in Nat
  PROVE  LET e == [d EXCEPT !.sq[q] = v]
         IN  /\ e \in Doorbells /\ e.cq = d.cq /\ e.sq[q] = v
             /\ \A p \in {0} \union Qid : p # q => e.sq[p] = d.sq[p]
  BY DEF Doorbells

LEMMA RingsCq ==
  ASSUME NEW d \in Doorbells, NEW q \in {0} \union Qid, NEW v \in Nat
  PROVE  LET e == [d EXCEPT !.cq[q] = v]
         IN  /\ e \in Doorbells /\ e.sq = d.sq /\ e.cq[q] = v
             /\ \A p \in {0} \union Qid : p # q => e.cq[p] = d.cq[p]
  BY DEF Doorbells

LEMMA Submitted ==
  ASSUME HostType, NEW i \in 1 .. Len(out)
  PROVE  /\ out[i] \in Request /\ out[i].opcode \in AdminOp
         /\ out[i].arg \in Nat /\ out[i].command_id \in Nat
  <1>1. out[i] \in Request
    BY DEF HostType
  <1> QED
    BY <1>1 DEF Request

(* A turn of the loop serves the oldest command that was not served.       *)
LEMMA Taken ==
  ASSUME RegInv, AdminType, HostType, NEW a \in Nat, NEW b \in Slot, AdminOf(a, b),
         dpc = "admin_req", adm.left > 0
  PROVE  /\ a + 1 \in 1 .. Len(out) /\ out[a + 1] = Command /\ adm.curr = SqAt(b, a + 1)
         /\ admin_q # NULL /\ admin_q \in AdminQueue
         /\ admin_q.cq_head = CqAt(a + 1) /\ admin_q.phase = PhaseAt(a + 1)
         /\ hpc \notin Early
  <1>1. a + adm.left <= Len(out) /\ adm.left \in Nat /\ Len(out) \in Nat
    BY DEF AdminOf, RingOf, AdminType, HostType
  <1>2. a + 1 \in 1 .. Len(out)
    BY <1>1
  <1>3. adm.curr = SqAt(b, a + 1)
    BY DEF AdminOf, RingOf, Taker
  <1>4. out[a + 1] = Command
    BY <1>2, <1>3 DEF AdminOf, RingOf, Command
  <1>5. out # <<>>
    BY <1>2
  <1>6. admin_q # NULL /\ hpc \notin Early
    BY <1>5 DEF AdminOf, AnswersOf, RegInv, Regs
  <1> QED
    BY <1>2, <1>3, <1>4, <1>6 DEF AdminOf, AnswersOf, RegInv, RegType

(* The entry that looks new to the host answers its oldest command.        *)
LEMMA AnswerInOrder ==
  ASSUME HostType, AdminType, NEW a \in Nat, NEW b \in Slot, AdminOf(a, b), EntryNew
  PROVE  /\ a >= 1 /\ Len(out) >= 1 /\ out # <<>> /\ Head(out) = out[1]
         /\ 1 \in 1 .. Len(out)
         /\ out[1].opcode # "get_features"
         /\ cq_mem[head].command_id = out[1].command_id
         /\ cq_mem[head].sq_head = b
         /\ out[1].opcode = "set_features" =>
              cq_mem[head].result + 1 = nr_sq /\ nr_cq = nr_sq /\ nr_sq > 0
  <1>1. CqAt(1) = head /\ PhaseAt(1) = hphase /\ hphase \in {0, 1}
    BY AdminAssumption, AtIsPlace DEF HostType, CqAt, PhaseAt, CqSlot
  <1>2. 1 \in 1 .. AdminCqDepth
    BY AdminAssumption
  <1>3. 1 > a \/ out[1].opcode = "get_features" => cq_mem[head].phase = 1 - hphase
    BY <1>1, <1>2 DEF AdminOf, AnswersOf
  <1>4. a >= 1 /\ out[1].opcode # "get_features"
    BY <1>1, <1>3 DEF EntryNew
  <1>5. a <= Len(out) /\ Len(out) \in Nat
    BY DEF AdminOf, RingOf, HostType
  <1>6. out # <<>> /\ Head(out) = out[1] /\ 1 \in 1 .. Len(out) /\ Len(out) >= 1
    BY <1>4, <1>5 DEF HostType
  <1>7. SqAt(b, 1) = b
    BY AdminAssumption, AtIsPlace DEF SqAt, Slot
  <1>8. 1 \in 1 .. a
    BY <1>4
  <1>9. /\ cq_mem[CqAt(1)].command_id = out[1].command_id
        /\ cq_mem[CqAt(1)].sq_head = SqAt(b, 1)
        /\ out[1].opcode = "set_features" =>
             cq_mem[CqAt(1)].result + 1 = nr_sq /\ nr_cq = nr_sq /\ nr_sq > 0
    BY <1>4, <1>8 DEF AdminOf, AnswersOf
  <1> QED
    BY <1>1, <1>4, <1>6, <1>7, <1>9

-----------------------------------------------------------------------------
(* Types of the tables and rings *)

LEMMA Asked ==
  ASSUME HostType, GrantOf, NEW i \in 1 .. Len(out), out[i].opcode \in Creates \union Deletes
  PROVE  out[i].arg \in Qid /\ out[i].arg <= granted /\ granted \in Nat
  <1>1. out[i].arg \in 1 .. granted
    BY DEF GrantOf
  <1>2. granted \in 0 .. NR_MAX_IO_QUEUE
    BY DEF HostType
  <1> QED
    BY <1>1, <1>2, QueueAssumption DEF Qid

LEMMA TurnTypes ==
  ASSUME CtlInv, NEW a \in Nat, NEW b \in Slot, AdminOf(a, b),
         Report \/ LeaveGap \/ set_features \/ create_cq \/ create_sq \/ delete_cq \/ delete_sq,
         UNCHANGED <<qid, hostVars, io, races>>
  PROVE  QueueType' /\ AdminType'
  <1>0. RegInv /\ RegType /\ QueueType /\ AdminType /\ HostType /\ GrantOf
    BY DEF CtlInv, RegInv
  <1>1. dpc = "admin_req" /\ adm.left > 0
    BY DEF Report, LeaveGap, set_features, create_cq, create_sq, delete_cq, delete_sq, TakeRequest
  <1>2. /\ a + 1 \in 1 .. Len(out) /\ out[a + 1] = Command
        /\ admin_q # NULL /\ admin_q \in AdminQueue
    BY <1>0, <1>1, Taken
  <1>3. Turn /\ (Entered \/ LeaveGap)
    BY <1>0, <1>2, Turns
  <1>4. adm' \in [curr : Slot, left : 0 .. AdminSqDepth - 1, new_db : Slot]
    <2>1. admin_q.sq_depth = AdminSqDepth
      BY <1>2 DEF AdminQueue
    <2>2. adm' = [adm EXCEPT !.curr = IF @ + 1 = admin_q.sq_depth THEN 0 ELSE @ + 1,
                             !.left = @ - 1]
      BY <1>3 DEF Turn, TakeRequest
    <2> DEFINE c == IF adm.curr + 1 = AdminSqDepth THEN 0 ELSE adm.curr + 1
    <2>3. adm \in [curr : Slot, left : 0 .. AdminSqDepth - 1, new_db : Slot]
      BY <1>0 DEF AdminType
    <2>4. c \in Slot /\ adm.left - 1 \in 0 .. AdminSqDepth - 1
      BY <2>3, <1>1, AdminAssumption DEF Slot
    <2>5. adm' = [curr |-> c, left |-> adm.left - 1, new_db |-> adm.new_db]
      BY <2>1, <2>2, <2>3
    <2> HIDE DEF c
    <2> QED
      BY <2>3, <2>4, <2>5
  <1>5. cq_mem' \in [CqSlot -> Entry]
    <2>1. CASE Entered
      <3>1. PICK status \in Status, result \in Int : Answer(status, result)
        BY <2>1 DEF Entered
      <3> DEFINE e == [command_id |-> Command.command_id, sq_head |-> adm.curr,
                       status |-> status, phase |-> admin_q.phase, result |-> result]
      <3>2. e \in Entry
        <4>1. Command.command_id \in Nat
          BY <1>0, CommandType
        <4>2. adm.curr \in Slot /\ admin_q.phase \in {0, 1}
          BY <1>0, <1>2 DEF AdminType, AdminQueue
        <4> QED
          BY <4>1, <4>2 DEF Entry
      <3>3. cq_mem' = [cq_mem EXCEPT ![admin_q.cq_head] = e]
        BY <3>1 DEF Answer
      <3> HIDE DEF e
      <3> QED
        BY <1>0, <3>2, <3>3 DEF AdminType
    <2>2. CASE LeaveGap
      BY <1>0, <2>2 DEF LeaveGap, AdminType
    <2> QED
      BY <1>3, <2>1, <2>2
  <1>6. sq_mem' = sq_mem
    BY <1>3 DEF Turn
  <1>7. AdminType'
    BY <1>0, <1>4, <1>5, <1>6 DEF AdminType
  <1>8. ASSUME Report \/ LeaveGap PROVE QueueType'
    BY <1>0, <1>8 DEF Report, LeaveGap, adminFrame, TakeRequest, QueueType
  <1>9. ASSUME set_features PROVE QueueType'
    <2>1. GrantedQueues(Command.arg) \in 0 .. NR_MAX_IO_QUEUE
      BY <1>0, CommandType, QueueAssumption DEF GrantedQueues
    <2> QED
      BY <1>0, <1>9, <2>1 DEF set_features, adminFrame, QueueType
  <1>10. ASSUME create_cq \/ create_sq \/ delete_cq \/ delete_sq PROVE QueueType'
    <2>1. Command.opcode \in Creates \union Deletes
      BY <1>10 DEF create_cq, create_sq, delete_cq, delete_sq, TakeRequest, Creates, Deletes
    <2>2. Command.arg \in Qid /\ 0 \in Nat
      BY <1>0, <1>2, <2>1, Asked
    <2> DEFINE n == Command.arg
    <2>3. n \in {0} \union Qid /\ dbs \in Doorbells /\ old_dbs \in Doorbells
      BY <1>0, <2>2 DEF QueueType
    <2>4. /\ [dbs EXCEPT !.cq[n] = 0] \in Doorbells /\ [old_dbs EXCEPT !.cq[n] = 0] \in Doorbells
          /\ [dbs EXCEPT !.sq[n] = 0] \in Doorbells /\ [old_dbs EXCEPT !.sq[n] = 0] \in Doorbells
      <3> HIDE DEF n
      <3> QED
        BY <2>2, <2>3, RingsSq, RingsCq
    <2>5. dbs' \in Doorbells /\ old_dbs' \in Doorbells
      BY <1>0, <1>10, <2>4 DEF create_cq, create_sq, delete_cq, delete_sq, adminFrame, QueueType
    <2>6. [queue_size |-> IoDepth] \in CqTable /\ [queue_size |-> IoDepth, cqid |-> n] \in SqTable
      BY <2>2 DEF CqTable, SqTable
    <2>7. sqes' \in [Qid -> SqTable \union {NULL}]
      BY <1>0, <1>10, <2>6 DEF create_cq, create_sq, delete_cq, delete_sq, adminFrame, QueueType
    <2>8. cqes' \in [Qid -> CqTable \union {NULL}]
      BY <1>0, <1>10, <2>6 DEF create_cq, create_sq, delete_cq, delete_sq, adminFrame, QueueType
    <2>9. UNCHANGED <<nr_sq, nr_cq>>
      BY <1>10 DEF create_cq, create_sq, delete_cq, delete_sq
    <2> QED
      BY <1>0, <2>5, <2>7, <2>8, <2>9 DEF QueueType
  <1> QED
    BY <1>7, <1>8, <1>9, <1>10

-----------------------------------------------------------------------------
(* Distances *)

LEMMA ProductGrows ==
  ASSUME NEW size \in Nat \ {0}, NEW k \in Int
  PROVE  /\ k >= 2 => size * k >= 2 * size
         /\ k <= -1 => size * k <= -size
         /\ k = 0 => size * k = 0
         /\ k = 1 => size * k = size
  OBVIOUS

LEMMA RingDistance ==
  ASSUME NEW size \in Nat \ {0}, NEW p \in Nat, NEW f \in Nat, f <= p, p - f <= size - 1
  PROVE  /\ Distance(p % size, f % size, size) = p - f
         /\ p % size \in 0 .. size - 1
  <1> DEFINE k == (p \div size) - (f \div size)
             u == p % size
             v == f % size
  <1>1. u \in 0 .. size - 1 /\ v \in 0 .. size - 1
    OBVIOUS
  <1>2. p = size * (p \div size) + u /\ f = size * (f \div size) + v
    OBVIOUS
  <1>3. (p \div size) \in Int /\ (f \div size) \in Int /\ k \in Int
    OBVIOUS
  <1>4. p - f = size * k + (u - v)
    BY <1>2, <1>3
  <1> HIDE DEF k, u, v
  <1>5. size * k \in Int
    BY <1>3
  <1>6. k \in {0, 1}
    BY <1>1, <1>3, <1>4, <1>5, ProductGrows
  <1>7. p - f = u - v \/ p - f = u - v + size
    BY <1>1, <1>3, <1>4, <1>5, <1>6, ProductGrows
  <1>8. Distance(u, v, size) = p - f
    BY <1>1, <1>7 DEF Distance
  <1> QED
    BY <1>1, <1>8 DEF u, v

(* Over a ring of positions. *)
LEMMA AtDistance ==
  ASSUME NEW depth \in Nat \ {0, 1}, NEW h \in 0 .. depth - 1,
         NEW i \in 1 .. depth, NEW j \in 1 .. depth, i <= j
  PROVE  /\ Distance(At(depth, h, j), At(depth, h, i), depth) = j - i
         /\ At(depth, h, j) # At(depth, h, i) => i < j
  BY DEF At, Distance

-----------------------------------------------------------------------------
(* The ring of admin commands *)

LEMMA SlotsOfRing ==
  ASSUME NEW b \in Slot, NEW i \in 1 .. AdminSqDepth
  PROVE  /\ SqAt(b, i) \in Slot
         /\ SqAt(b, i + 1) = IF SqAt(b, i) + 1 = AdminSqDepth THEN 0 ELSE SqAt(b, i) + 1
         /\ (SqAt(b, i) + 1) % AdminSqDepth = SqAt(b, i + 1)
         /\ SqAt(SqAt(b, 2), i) = SqAt(b, i + 1)
         /\ \A j \in 1 .. AdminSqDepth : SqAt(b, i) = SqAt(b, j) => i = j
  <1>1. b \in 0 .. AdminSqDepth - 1 /\ AdminSqDepth \in Nat \ {0, 1}
    BY AdminAssumption DEF Slot
  <1>2. SqAt(b, i) \in 0 .. AdminSqDepth - 1
    BY <1>1, AtIsPlace DEF SqAt
  <1>3. (SqAt(b, i) + 1) % AdminSqDepth
          = IF SqAt(b, i) + 1 = AdminSqDepth THEN 0 ELSE SqAt(b, i) + 1
    BY <1>1, <1>2, NextSlot
  <1> QED
    BY <1>1, <1>2, <1>3, AtNext, AtShift, AtInjective DEF SqAt, Slot

(* Steps that leave the ring and the point it is served at as they are.    *)
LEMMA RingStill ==
  ASSUME NEW a \in Nat, NEW b \in Slot, RingOf(a, b), UNCHANGED <<out, tail, sq_mem, adm>>,
         dbs'.sq[0] = dbs.sq[0], old_dbs'.sq[0] = old_dbs.sq[0],
         dpc' = "admin_req" <=> dpc = "admin_req",
         dpc' # "oops_register" => dpc # "oops_register"
  PROVE  RingOf(a, b)'
  <1>1. dpc' # "oops_register" => Taker' = SqAt(b, a + 1)
    BY DEF RingOf, Taker
  <1> QED
    BY <1>1 DEF RingOf, SqAt, At

LEMMA RingStart ==
  ASSUME QueueType, AdminType, HostType,
         NEW a \in Nat, NEW b \in Slot, AdminOf(a, b), StartAdminSq, UNCHANGED hostVars,
         RegType
  PROVE  RingOf(a, b)' /\ AdminType'
  <1>1. dpc = "dbs" /\ UNCHANGED <<dbs, old_dbs, sq_mem, cq_mem, out, tail>>
    BY DEF StartAdminSq, hostVars
  <1>2. RingOf(a, b)
    BY DEF AdminOf
  <1>3. CASE UNCHANGED adm /\ dpc' = "admin_cq"
    BY <1>1, <1>2, <1>3, RingStill DEF AdminType
  <1>4. CASE dbs.sq[0] # old_dbs.sq[0]
    <2>1. /\ dpc' = "admin_req"
          /\ adm' = [curr |-> old_dbs.sq[0], new_db |-> dbs.sq[0],
                     left |-> Distance(dbs.sq[0], old_dbs.sq[0], admin_q.sq_depth)]
      BY <1>4 DEF StartAdminSq
    <2> DEFINE n == Len(out)
    <2>2. n \in Nat /\ a <= n /\ n < AdminSqDepth
      BY <1>2 DEF RingOf, HostType
    <2>3. dbs.sq[0] = SqAt(b, n + 1) /\ old_dbs.sq[0] = SqAt(b, a + 1)
      BY <1>1, <1>2 DEF RingOf, Taker
    <2>4. b \in 0 .. AdminSqDepth - 1 /\ AdminSqDepth \in Nat \ {0, 1}
      BY AdminAssumption DEF Slot
    <2> HIDE DEF n
    <2>5. a + 1 \in 1 .. AdminSqDepth /\ n + 1 \in 1 .. AdminSqDepth /\ a + 1 <= n + 1
      BY <2>2, <2>4
    <2>6. /\ Distance(dbs.sq[0], old_dbs.sq[0], AdminSqDepth) = n - a
          /\ a + 1 < n + 1
      <3>1. /\ Distance(SqAt(b, n + 1), SqAt(b, a + 1), AdminSqDepth) = (n + 1) - (a + 1)
            /\ SqAt(b, n + 1) # SqAt(b, a + 1) => a + 1 < n + 1
        BY <2>4, <2>5, AtDistance DEF SqAt
      <3> QED
        BY <2>2, <2>3, <1>4, <3>1
    <2>7. out # <<>>
      BY <2>2, <2>6 DEF n
    <2>8. admin_q.sq_depth = AdminSqDepth
      <3>1. admin_q # NULL
        BY <2>7 DEF AdminOf, AnswersOf
      <3> QED
        BY <3>1 DEF RegType, AdminQueue
    <2>9. /\ adm' = [curr |-> SqAt(b, a + 1), new_db |-> SqAt(b, n + 1), left |-> n - a]
          /\ n - a \in 0 .. AdminSqDepth - 1
      BY <2>1, <2>2, <2>3, <2>4, <2>6, <2>8
    <2>10. SqAt(b, a + 1) \in Slot /\ SqAt(b, n + 1) \in Slot
      BY <2>5, SlotsOfRing
    <2>11. AdminType'
      BY <1>1, <2>9, <2>10 DEF AdminType
    <2>12. Taker' = SqAt(b, a + 1)
      BY <2>1, <2>9 DEF Taker
    <2>13. a + adm'.left = n /\ adm'.new_db = SqAt(b, a + 1 + adm'.left)
      <3>1. a + 1 + (n - a) = n + 1
        BY <2>2
      <3> QED
        BY <2>2, <2>9, <3>1
    <2> QED
      BY <1>1, <1>2, <2>1, <2>2, <2>11, <2>12, <2>13 DEF RingOf, n, SqAt, At
  <1> QED
    BY <1>3, <1>4 DEF StartAdminSq

LEMMA RingEnd ==
  ASSUME QueueType, AdminType, HostType, NEW a \in Nat, NEW b \in Slot, RingOf(a, b),
         EndAdminSq, UNCHANGED <<qid, hostVars>>
  PROVE  /\ RingOf(a, b)' /\ QueueType' /\ AdminType'
         /\ \A q \in Qid : old_dbs'.sq[q] = old_dbs.sq[q] /\ old_dbs'.cq[q] = old_dbs.cq[q]
  <1>1. /\ dpc = "admin_req" /\ adm.left = 0 /\ dpc' = "admin_cq"
        /\ old_dbs' = [old_dbs EXCEPT !.sq[0] = adm.new_db]
        /\ UNCHANGED <<dbs, sqes, cqes, nr_sq, nr_cq, sq_mem, cq_mem, adm, out, tail, qid>>
    BY DEF EndAdminSq, hostVars
  <1>2. adm.new_db \in Nat /\ 0 \in {0} \union Qid /\ old_dbs \in Doorbells
    BY AdminAssumption DEF AdminType, Slot, QueueType
  <1> DEFINE v == adm.new_db
  <1>3. /\ old_dbs' \in Doorbells /\ old_dbs'.cq = old_dbs.cq /\ old_dbs'.sq[0] = v
        /\ \A p \in {0} \union Qid : p # 0 => old_dbs'.sq[p] = old_dbs.sq[p]
    <2> HIDE DEF v
    <2>1. old_dbs' = [old_dbs EXCEPT !.sq[0] = v]
      BY <1>1 DEF v
    <2>2. v \in Nat
      BY <1>2 DEF v
    <2> QED
      BY <1>2, <2>1, <2>2, RingsSq
  <1>4. \A q \in Qid : q # 0
    BY QueueAssumption DEF Qid
  <1>5. QueueType' /\ AdminType'
    BY <1>1, <1>3 DEF QueueType, AdminType
  <1>6. adm.new_db = SqAt(b, a + 1)
    <2>1. a + 1 + adm.left = a + 1
      BY <1>1
    <2> QED
      BY <1>1, <2>1 DEF RingOf
  <1>7. Taker' = SqAt(b, a + 1)
    BY <1>1, <1>3, <1>6 DEF Taker
  <1>8. RingOf(a, b)'
    BY <1>1, <1>7 DEF RingOf, SqAt, At
  <1> QED
    BY <1>3, <1>4, <1>5, <1>8

LEMMA RingTurn ==
  ASSUME RegInv, AdminType, HostType, NEW a \in Nat, NEW b \in Slot, AdminOf(a, b),
         Turn, UNCHANGED hostVars, dbs'.sq[0] = dbs.sq[0]
  PROVE  RingOf(a + 1, b)'
  <1>1. PICK ops : TakeRequest(ops)
    BY DEF Turn
  <1>2. dpc = "admin_req" /\ dpc' = dpc /\ adm.left > 0
    BY <1>1 DEF TakeRequest
  <1>3. UNCHANGED <<out, tail, sq_mem>>
    BY DEF Turn, hostVars
  <1>4. a + 1 \in 1 .. Len(out) /\ adm.curr = SqAt(b, a + 1) /\ admin_q.sq_depth = AdminSqDepth
    BY <1>2, Taken DEF AdminQueue
  <1>5. RingOf(a, b) /\ Len(out) \in Nat
    BY DEF AdminOf, HostType
  <1>6. Len(out) < AdminSqDepth /\ a + adm.left <= Len(out) /\ adm.left \in Nat
        /\ adm.new_db = SqAt(b, a + 1 + adm.left)
    BY <1>2, <1>5 DEF RingOf, AdminType
  <1>7. a + 1 \in 1 .. AdminSqDepth
    BY AdminAssumption, <1>4, <1>5, <1>6
  <1>8. SqAt(b, a + 2) = IF adm.curr + 1 = AdminSqDepth THEN 0 ELSE adm.curr + 1
    <2>1. (a + 1) + 1 = a + 2
      OBVIOUS
    <2> QED
      BY <1>4, <1>7, <2>1, SlotsOfRing
  <1>9. adm'.curr = SqAt(b, a + 2) /\ adm'.left = adm.left - 1 /\ adm'.new_db = adm.new_db
    <2> DEFINE c == IF adm.curr + 1 = AdminSqDepth THEN 0 ELSE adm.curr + 1
    <2>1. adm' = [curr |-> c, left |-> adm.left - 1, new_db |-> adm.new_db]
      BY <1>1, <1>4 DEF TakeRequest, AdminType
    <2>2. c = SqAt(b, a + 2)
      BY <1>8
    <2> HIDE DEF c
    <2> QED
      BY <2>1, <2>2
  <1>10. Taker' = SqAt(b, (a + 1) + 1)
    <2>1. (a + 1) + 1 = a + 2
      OBVIOUS
    <2> QED
      BY <1>2, <1>9, <2>1 DEF Taker
  <1>11. a + 1 + adm'.left <= Len(out) /\ adm'.new_db = SqAt(b, (a + 1) + 1 + adm'.left)
    <2>1. (a + 1) + 1 + (adm.left - 1) = a + 1 + adm.left
      BY <1>6
    <2> QED
      BY <1>6, <1>9, <2>1
  <1>12. \A i \in (a + 1) + 1 .. Len(out) : i \in a + 1 .. Len(out)
    BY <1>5
  <1>13. \A i \in (a + 1) + 1 .. Len(out) : sq_mem[SqAt(b, i)] = out[i]
    BY <1>5, <1>12 DEF RingOf
  <1>14. a + 1 <= Len(out) /\ Len(out) < AdminCqDepth /\ tail = SqAt(b, Len(out) + 1)
         /\ dbs.sq[0] = tail
    BY <1>4, <1>5 DEF RingOf
  <1> QED
    BY <1>2, <1>3, <1>6, <1>10, <1>11, <1>13, <1>14 DEF RingOf, SqAt, At

LEMMA RingTake ==
  ASSUME AdminType, HostType, QueueType, NEW a \in Nat, NEW b \in Slot, AdminOf(a, b), IsrTake
  PROVE  /\ a - 1 \in Nat /\ SqAt(b, 2) \in Slot
         /\ RingOf(a - 1, SqAt(b, 2))' /\ AdminType'
         /\ out' = Tail(out) /\ Len(out') = Len(out) - 1
         /\ \A i \in 1 .. Len(out') : i + 1 \in 1 .. Len(out) /\ out'[i] = out[i + 1]
  <1>1. /\ a >= 1 /\ Len(out) >= 1 /\ out # <<>> /\ Head(out) = out[1]
        /\ cq_mem[head].command_id = out[1].command_id
        /\ cq_mem[head].sq_head = b
    BY AnswerInOrder DEF IsrTake
  <1>2. out' = Tail(out) /\ sq_mem' = [sq_mem EXCEPT ![b] = NoCommand]
    BY <1>1 DEF IsrTake
  <1>3. out \in Seq(Request) /\ Len(out) \in Nat
    BY DEF HostType
  <1>4. Len(out') = Len(out) - 1
        /\ \A i \in 1 .. Len(out') : i + 1 \in 1 .. Len(out) /\ out'[i] = out[i + 1]
    BY <1>1, <1>2, <1>3
  <1>5. RingOf(a, b)
    BY DEF AdminOf
  <1>6. a <= Len(out) /\ Len(out) < AdminSqDepth /\ Len(out) < AdminCqDepth
    BY <1>5 DEF RingOf
  <1>7. \A i \in 1 .. AdminSqDepth : SqAt(SqAt(b, 2), i) = SqAt(b, i + 1)
    BY SlotsOfRing
  <1>8. SqAt(b, 2) \in Slot /\ SqAt(b, 1) = b
    <2>1. 2 \in 1 .. AdminSqDepth /\ 1 \in 1 .. AdminSqDepth
      BY AdminAssumption
    <2>2. b \in 0 .. AdminSqDepth - 1
      BY DEF Slot
    <2> QED
      BY <2>1, <2>2, SlotsOfRing, AdminAssumption, AtIsPlace DEF SqAt
  <1>9. AdminType'
    <2>1. NoCommand \in Request
      BY DEF NoCommand, Request, AdminOp
    <2>2. UNCHANGED <<cq_mem, adm>>
      BY DEF IsrTake, devVars
    <2> QED
      BY <1>2, <2>1, <2>2 DEF AdminType
  <1>10. UNCHANGED <<tail, adm, dpc, old_dbs>> /\ dbs'.sq = dbs.sq
    <2>1. UNCHANGED <<tail, adm, dpc, old_dbs>>
          /\ dbs' = [dbs EXCEPT !.cq[0] = (head + 1) % AdminCqDepth]
      BY DEF IsrTake, devVars
    <2> QED
      BY <2>1 DEF QueueType, Doorbells
  <1> DEFINE c == SqAt(b, 2)
             n == Len(out)
  <1>11. tail = SqAt(c, n - 1 + 1)
    <2>1. n \in 1 .. AdminSqDepth /\ n - 1 + 1 = n
      BY AdminAssumption, <1>1, <1>3, <1>6
    <2>2. tail = SqAt(b, n + 1)
      BY <1>5 DEF RingOf
    <2> QED
      BY <1>7, <2>1, <2>2
  <1>12. dpc # "oops_register" => Taker' = SqAt(c, a - 1 + 1)
    <2>1. a \in 1 .. AdminSqDepth /\ a - 1 + 1 = a
      BY AdminAssumption, <1>1, <1>6, <1>3
    <2>2. dpc # "oops_register" => Taker = SqAt(b, a + 1)
      BY <1>5 DEF RingOf
    <2>3. Taker' = Taker
      BY <1>10 DEF Taker
    <2>4. SqAt(c, a) = SqAt(b, a + 1)
      BY <1>7, <2>1
    <2> QED
      BY <2>1, <2>2, <2>3, <2>4
  <1>13. dpc = "admin_req" => /\ a - 1 + adm.left <= n - 1
                              /\ adm.new_db = SqAt(c, a - 1 + 1 + adm.left)
    <2> SUFFICES ASSUME dpc = "admin_req"
                 PROVE  /\ a - 1 + adm.left <= n - 1
                        /\ adm.new_db = SqAt(c, a - 1 + 1 + adm.left)
      OBVIOUS
    <2>1. a + adm.left <= n /\ adm.new_db = SqAt(b, a + 1 + adm.left) /\ adm.left \in Nat
      BY <1>5 DEF RingOf, AdminType
    <2>2. a + adm.left \in 1 .. AdminSqDepth /\ a - 1 + 1 + adm.left = a + adm.left
          /\ a + adm.left + 1 = a + 1 + adm.left
      BY AdminAssumption, <1>1, <1>3, <1>6, <2>1
    <2>3. SqAt(c, a + adm.left) = SqAt(b, a + adm.left + 1)
      BY <1>7, <2>2
    <2> QED
      BY <1>3, <2>1, <2>2, <2>3
  <1>14. \A i \in a - 1 + 1 .. n - 1 : sq_mem'[SqAt(c, i)] = out'[i]
    <2> SUFFICES ASSUME NEW i \in a - 1 + 1 .. n - 1 PROVE sq_mem'[SqAt(c, i)] = out'[i]
      OBVIOUS
    <2>1. i \in 1 .. AdminSqDepth /\ i + 1 \in 1 .. AdminSqDepth /\ i + 1 \in a + 1 .. n
          /\ i \in 1 .. n - 1 /\ i + 1 # 1 /\ 1 \in 1 .. AdminSqDepth
      BY AdminAssumption, <1>1, <1>3, <1>6
    <2>2. SqAt(c, i) = SqAt(b, i + 1) /\ SqAt(b, i + 1) \in Slot
      BY <1>7, <2>1, SlotsOfRing
    <2>3. SqAt(b, i + 1) # b
      BY <1>8, <2>1, SlotsOfRing
    <2>4. sq_mem[SqAt(b, i + 1)] = out[i + 1]
      BY <1>5, <2>1 DEF RingOf
    <2>5. sq_mem'[SqAt(b, i + 1)] = sq_mem[SqAt(b, i + 1)]
      BY <1>2, <2>2, <2>3 DEF AdminType
    <2> QED
      BY <1>4, <2>1, <2>2, <2>4, <2>5
  <1>15. a - 1 \in Nat /\ a - 1 <= n - 1 /\ n - 1 < AdminSqDepth /\ n - 1 < AdminCqDepth
    BY AdminAssumption, <1>1, <1>3, <1>6
  <1>16. dbs'.sq[0] = tail
    BY <1>5, <1>10 DEF RingOf
  <1>17. Len(out') = n - 1
    BY <1>4
  <1>18. RingOf(a - 1, c)'
    <2> HIDE DEF n, c
    <2> QED
      BY <1>10, <1>11, <1>12, <1>13, <1>14, <1>15, <1>16, <1>17 DEF RingOf, SqAt, At
  <1> QED
    BY <1>2, <1>4, <1>8, <1>9, <1>15, <1>18

LEMMA RingCommand ==
  ASSUME AdminType, HostType, QueueType, NEW a \in Nat, NEW b \in Slot, AdminOf(a, b),
         NEW op \in AdminOp, NEW arg \in Nat, HostCommand(op, arg)
  PROVE  /\ RingOf(a, b)' /\ AdminType'
         /\ Len(out') = Len(out) + 1
         /\ out' \in Seq(Request)
         /\ \A i \in 1 .. Len(out) : out'[i] = out[i]
         /\ out'[Len(out) + 1].opcode = op /\ out'[Len(out) + 1].arg = arg
         /\ tail' \in Slot /\ dbs' \in Doorbells /\ dbs'.cq = dbs.cq
         /\ \A q \in Qid : dbs'.sq[q] = dbs.sq[q]
  <1> DEFINE n == Len(out)
             c == [command_id |-> issued + 1, opcode |-> op, arg |-> arg]
  <1>1. /\ n + 1 < AdminSqDepth /\ n + 1 < AdminCqDepth
        /\ out' = Append(out, c) /\ sq_mem' = [sq_mem EXCEPT ![tail] = c]
        /\ tail' = (tail + 1) % AdminSqDepth
        /\ dbs' = [dbs EXCEPT !.sq[0] = (tail + 1) % AdminSqDepth]
        /\ UNCHANGED <<dpc, adm, old_dbs, cq_mem>>
    BY DEF HostCommand, devVars
  <1>2. out \in Seq(Request) /\ n \in Nat /\ c \in Request
    BY DEF HostType, Request
  <1>3. Len(out') = n + 1 /\ out' \in Seq(Request) /\ out'[n + 1] = c
        /\ \A i \in 1 .. n : out'[i] = out[i]
    <2> HIDE DEF c
    <2> QED
      BY <1>1, <1>2
  <1>4. RingOf(a, b)
    BY DEF AdminOf
  <1>5. a <= n /\ tail = SqAt(b, n + 1) /\ n + 1 \in 1 .. AdminSqDepth
    BY AdminAssumption, <1>1, <1>2, <1>4 DEF RingOf
  <1>6. (tail + 1) % AdminSqDepth = SqAt(b, n + 1 + 1) /\ SqAt(b, n + 1 + 1) \in Slot
    <2>1. n + 1 + 1 \in 1 .. AdminSqDepth
      BY AdminAssumption, <1>1, <1>2
    <2> HIDE DEF n
    <2> QED
      BY <1>5, <2>1, SlotsOfRing
  <1>7. SqAt(b, n + 1 + 1) \in Nat /\ 0 \in {0} \union Qid /\ dbs \in Doorbells
    BY <1>6, AdminAssumption DEF Slot, QueueType
  <1> DEFINE v == SqAt(b, n + 1 + 1)
  <1>8. /\ dbs' \in Doorbells /\ dbs'.cq = dbs.cq /\ dbs'.sq[0] = v
        /\ \A p \in {0} \union Qid : p # 0 => dbs'.sq[p] = dbs.sq[p]
    <2> HIDE DEF v
    <2>1. dbs' = [dbs EXCEPT !.sq[0] = v]
      BY <1>1, <1>6 DEF v
    <2>2. v \in Nat
      BY <1>7 DEF v
    <2>3. 0 \in {0} \union Qid /\ dbs \in Doorbells
      BY <1>7
    <2> QED
      BY <2>1, <2>2, <2>3, RingsSq
  <1>9. \A q \in Qid : q # 0
    BY QueueAssumption DEF Qid
  <1>10. tail' = v
    BY <1>1, <1>6
  <1>11. \A i \in a + 1 .. n + 1 : sq_mem'[SqAt(b, i)] = out'[i]
    <2> SUFFICES ASSUME NEW i \in a + 1 .. n + 1 PROVE sq_mem'[SqAt(b, i)] = out'[i]
      OBVIOUS
    <2>1. i \in 1 .. AdminSqDepth
      BY AdminAssumption, <1>1, <1>2
    <2>2. SqAt(b, i) \in Slot
      BY <2>1, SlotsOfRing
    <2>3. CASE i = n + 1
      <3> HIDE DEF c
      <3> QED
        BY <1>1, <1>3, <1>5, <2>2, <2>3 DEF AdminType
    <2>4. CASE i # n + 1
      <3>1. i \in a + 1 .. n /\ i \in 1 .. n
        BY <1>2, <2>4
      <3>2. SqAt(b, i) # tail
        BY <1>5, <2>1, <2>4, SlotsOfRing
      <3>3. sq_mem[SqAt(b, i)] = out[i]
        BY <1>4, <3>1 DEF RingOf
      <3>4. sq_mem'[SqAt(b, i)] = sq_mem[SqAt(b, i)]
        <4> HIDE DEF c
        <4> QED
          BY <1>1, <2>2, <3>2 DEF AdminType
      <3> QED
        BY <1>3, <3>1, <3>3, <3>4
    <2> QED
      BY <2>3, <2>4
  <1>12. Taker' = Taker
    BY <1>1 DEF Taker
  <1>13. /\ dpc # "oops_register" => Taker' = SqAt(b, a + 1)
         /\ dpc = "admin_req" => a + adm.left <= n + 1 /\ adm.new_db = SqAt(b, a + 1 + adm.left)
    BY <1>2, <1>4, <1>12 DEF RingOf, AdminType
  <1>14. AdminType'
    <2>1. tail \in Slot
      BY DEF HostType
    <2> HIDE DEF c
    <2> QED
      BY <1>1, <1>2, <2>1 DEF AdminType
  <1>15. RingOf(a, b)'
    <2>1. a <= n + 1
      BY <1>2, <1>5
    <2>2. tail' = SqAt(b, n + 1 + 1) /\ dbs'.sq[0] = tail' /\ Len(out') = n + 1
      BY <1>3, <1>8, <1>10
    <2> HIDE DEF n, c, v
    <2> QED
      BY <1>1, <1>11, <1>13, <2>1, <2>2 DEF RingOf, SqAt, At
  <1>16. out'[n + 1].opcode = op /\ out'[n + 1].arg = arg
    BY <1>3
  <1>17. tail' \in Slot
    BY <1>6, <1>10
  <1> QED
    BY <1>3, <1>8, <1>9, <1>14, <1>15, <1>16, <1>17

-----------------------------------------------------------------------------
(* The ring of answers *)

LEMMA SlotsOfAnswers ==
  ASSUME head \in CqSlot, hphase \in {0, 1}, NEW i \in 1 .. AdminCqDepth
  PROVE  /\ CqAt(i) \in CqSlot /\ PhaseAt(i) \in {0, 1}
         /\ CqAt(i + 1) = IF CqAt(i) + 1 = AdminCqDepth THEN 0 ELSE CqAt(i) + 1
         /\ PhaseAt(i + 1) = IF CqAt(i) + 1 = AdminCqDepth THEN 1 - PhaseAt(i) ELSE PhaseAt(i)
         /\ \A j \in 1 .. AdminCqDepth : CqAt(i) = CqAt(j) => i = j
  <1>1. head \in 0 .. AdminCqDepth - 1 /\ AdminCqDepth \in Nat \ {0, 1}
    BY AdminAssumption DEF CqSlot
  <1>2. /\ CqAt(i) \in CqSlot
        /\ CqAt(i + 1) = IF CqAt(i) + 1 = AdminCqDepth THEN 0 ELSE CqAt(i) + 1
        /\ \A j \in 1 .. AdminCqDepth : CqAt(i) = CqAt(j) => i = j
    BY <1>1, AtIsPlace, AtNext, AtInjective DEF CqAt, CqSlot
  <1>3. PhaseAt(i) \in {0, 1}
    BY DEF PhaseAt
  <1>4. PhaseAt(i + 1) = IF CqAt(i) + 1 = AdminCqDepth THEN 1 - PhaseAt(i) ELSE PhaseAt(i)
    BY <1>1 DEF PhaseAt, CqAt, At
  <1> QED
    BY <1>2, <1>3, <1>4

(* What the host sees after it took an entry: one place further.           *)
LEMMA AnswersShift ==
  ASSUME head \in CqSlot, hphase \in {0, 1}, NEW i \in 1 .. AdminCqDepth,
         head' = (head + 1) % AdminCqDepth,
         hphase' = IF head + 1 = AdminCqDepth THEN 1 - hphase ELSE hphase
  PROVE  /\ CqAt(i)' = CqAt(i + 1) /\ PhaseAt(i)' = PhaseAt(i + 1)
         /\ CqAt(AdminCqDepth + 1) = head /\ PhaseAt(AdminCqDepth + 1) = 1 - hphase
         /\ head' \in CqSlot /\ hphase' \in {0, 1}
  <1>1. head \in 0 .. AdminCqDepth - 1 /\ AdminCqDepth \in Nat \ {0, 1}
    BY AdminAssumption DEF CqSlot
  <1>2. head' = IF head + 1 = AdminCqDepth THEN 0 ELSE head + 1
    BY <1>1, NextSlot
  <1>3. CqAt(i)' = CqAt(i + 1) /\ CqAt(AdminCqDepth + 1) = head
    BY <1>1, <1>2 DEF CqAt, At
  <1>4. PhaseAt(i)' = PhaseAt(i + 1) /\ PhaseAt(AdminCqDepth + 1) = 1 - hphase
    BY <1>1, <1>2 DEF PhaseAt
  <1> QED
    BY <1>1, <1>2, <1>3, <1>4 DEF CqSlot

(* The dispatcher's place stays, or its queue is new.                      *)
PlaceStays ==
  \/ admin_q' = admin_q
  \/ /\ admin_q # NULL /\ admin_q' # NULL
     /\ admin_q'.cq_head = admin_q.cq_head /\ admin_q'.phase = admin_q.phase
  \/ admin_q = NULL /\ admin_q' # NULL /\ admin_q'.cq_head = 0 /\ admin_q'.phase = 1

LEMMA AnswersStill ==
  ASSUME HostType, NEW a \in Nat, NEW b \in Slot, AnswersOf(a, b), a <= Len(out), PlaceStays,
         UNCHANGED <<out, head, hphase, cq_mem, nr_sq, nr_cq>>
  PROVE  AnswersOf(a, b)'
  <1>1. /\ admin_q' # NULL => admin_q'.cq_head = CqAt(a + 1) /\ admin_q'.phase = PhaseAt(a + 1)
        /\ admin_q' = NULL => out = <<>> /\ head = 0 /\ hphase = 1
    <2>1. CASE admin_q # NULL
      BY <2>1 DEF PlaceStays, AnswersOf
    <2>2. CASE admin_q = NULL /\ admin_q' = NULL
      BY <2>2 DEF AnswersOf
    <2>3. CASE admin_q = NULL /\ admin_q' # NULL
      <3>1. a = 0 /\ head = 0 /\ hphase = 1
        BY <2>3 DEF AnswersOf
      <3>2. CqAt(a + 1) = 0 /\ PhaseAt(a + 1) = 1
        BY <3>1, AdminAssumption DEF CqAt, At, PhaseAt
      <3> QED
        BY <2>3, <3>2 DEF PlaceStays
    <2> QED
      BY <2>1, <2>2, <2>3
  <1>2. CqAt(a + 1)' = CqAt(a + 1) /\ PhaseAt(a + 1)' = PhaseAt(a + 1)
        /\ \A i \in Int : CqAt(i)' = CqAt(i) /\ PhaseAt(i)' = PhaseAt(i)
    BY DEF CqAt, PhaseAt
  <1>3. \A i \in 1 .. a : out'[i].opcode # "get_features" =>
          /\ cq_mem'[CqAt(i)'].command_id = out'[i].command_id
          /\ cq_mem'[CqAt(i)'].sq_head = SqAt(b, i)
          /\ out'[i].opcode = "set_features" =>
               /\ cq_mem'[CqAt(i)'].result + 1 = nr_sq' /\ nr_cq' = nr_sq' /\ nr_sq' > 0
    BY <1>2 DEF AnswersOf
  <1>4. \A i \in 1 .. AdminCqDepth : i > a \/ out'[i].opcode = "get_features" =>
          cq_mem'[CqAt(i)'].phase = 1 - PhaseAt(i)'
    BY <1>2 DEF AnswersOf
  <1>5. /\ admin_q' # NULL => /\ admin_q'.cq_head = CqAt(a + 1)'
                              /\ admin_q'.phase = PhaseAt(a + 1)'
        /\ admin_q' = NULL => out' = <<>> /\ head' = 0 /\ hphase' = 1
    BY <1>1, <1>2
  <1> QED
    BY <1>3, <1>4, <1>5 DEF AnswersOf, SqAt, At

LEMMA AnswersTurn ==
  ASSUME RegInv, QueueType, AdminType, HostType, GrantOf,
         NEW a \in Nat, NEW b \in Slot, AdminOf(a, b), UNCHANGED hostVars,
         Report \/ LeaveGap \/ set_features \/ create_cq \/ create_sq \/ delete_cq \/ delete_sq
  PROVE  AnswersOf(a + 1, b)' /\ QueueStays
  <1>1. dpc = "admin_req" /\ adm.left > 0
    BY DEF Report, LeaveGap, set_features, create_cq, create_sq, delete_cq, delete_sq, TakeRequest
  <1>2. /\ a + 1 \in 1 .. Len(out) /\ out[a + 1] = Command /\ adm.curr = SqAt(b, a + 1)
        /\ admin_q # NULL /\ admin_q \in AdminQueue
        /\ admin_q.cq_head = CqAt(a + 1) /\ admin_q.phase = PhaseAt(a + 1)
    BY <1>1, Taken
  <1>3. Turn /\ (Entered \/ LeaveGap)
    BY <1>2, Turns DEF RegInv
  <1>4. AdvanceAdminHead
    BY <1>3 DEF Turn
  <1>5. AnswersOf(a, b) /\ Len(out) < AdminCqDepth /\ Len(out) \in Nat
    BY DEF AdminOf, RingOf, HostType
  <1>6. a + 1 \in 1 .. AdminCqDepth /\ a + 1 < AdminCqDepth
    BY <1>2, <1>5, AdminAssumption
  <1>7. head \in CqSlot /\ hphase \in {0, 1} /\ UNCHANGED <<head, hphase, out>>
    BY DEF HostType, hostVars
  <1>8. \A i \in Int : CqAt(i)' = CqAt(i) /\ PhaseAt(i)' = PhaseAt(i)
    BY <1>7 DEF CqAt, PhaseAt
  <1>9. admin_q'.cq_head = CqAt(a + 1 + 1) /\ admin_q'.phase = PhaseAt(a + 1 + 1)
    BY <1>2, <1>4, <1>6, <1>7, HeadAdvances, SlotsOfAnswers
  <1>10. admin_q' # NULL /\ QueueStays
    BY <1>2, <1>4, HeadAdvances, NullQueueAssumption DEF QueueStays
  <1>11. out[a + 1].opcode = "get_features" <=> LeaveGap
    BY <1>2 DEF Report, LeaveGap, set_features, create_cq, create_sq, delete_cq, delete_sq,
                TakeRequest, Reports
  <1>12. \A i \in 1 .. AdminCqDepth : i # a + 1 => CqAt(i) # CqAt(a + 1) /\ CqAt(i) \in CqSlot
    BY <1>6, <1>7, SlotsOfAnswers
  <1>13. CqAt(a + 1) \in CqSlot
    BY <1>6, <1>7, SlotsOfAnswers
  <1>14. \A i \in 1 .. AdminCqDepth : i # a + 1 => cq_mem'[CqAt(i)] = cq_mem[CqAt(i)]
    <2>1. CASE Entered
      <3>1. PICK e : cq_mem' = [cq_mem EXCEPT ![admin_q.cq_head] = e]
        BY <2>1 DEF Entered, Answer
      <3> QED
        BY <3>1, <1>2, <1>12 DEF AdminType
    <2>2. CASE LeaveGap
      BY <2>2 DEF LeaveGap
    <2> QED
      BY <1>3, <2>1, <2>2
  <1>15. ~LeaveGap => /\ cq_mem'[CqAt(a + 1)].command_id = out[a + 1].command_id
                      /\ cq_mem'[CqAt(a + 1)].sq_head = SqAt(b, a + 1)
                      /\ cq_mem'[CqAt(a + 1)].phase = PhaseAt(a + 1)
    <2> SUFFICES ASSUME ~LeaveGap
                 PROVE  /\ cq_mem'[CqAt(a + 1)].command_id = out[a + 1].command_id
                        /\ cq_mem'[CqAt(a + 1)].sq_head = SqAt(b, a + 1)
                        /\ cq_mem'[CqAt(a + 1)].phase = PhaseAt(a + 1)
      OBVIOUS
    <2>1. PICK status \in Status, result \in Int : Answer(status, result)
      BY <1>3 DEF Entered
    <2> DEFINE e == [command_id |-> Command.command_id, sq_head |-> adm.curr,
                     status |-> status, phase |-> admin_q.phase, result |-> result]
    <2>2. cq_mem' = [cq_mem EXCEPT ![admin_q.cq_head] = e]
      BY <2>1 DEF Answer
    <2>3. e.command_id = Command.command_id /\ e.sq_head = adm.curr /\ e.phase = admin_q.phase
      OBVIOUS
    <2> HIDE DEF e
    <2>4. cq_mem'[CqAt(a + 1)] = e
      BY <1>2, <1>13, <2>2 DEF AdminType
    <2> QED
      BY <1>2, <2>3, <2>4
  <1>16. LeaveGap => cq_mem' = cq_mem
    BY DEF LeaveGap
  <1>17. \/ /\ out[a + 1].opcode = "set_features"
            /\ cq_mem'[CqAt(a + 1)].result + 1 = nr_sq' /\ nr_cq' = nr_sq' /\ nr_sq' > 0
         \/ out[a + 1].opcode # "set_features" /\ UNCHANGED <<nr_sq, nr_cq>>
    <2>1. CASE set_features
      <3>1. out[a + 1].opcode = "set_features" /\ out[a + 1].arg = AskQueues
        BY <1>2, <2>1 DEF set_features, TakeRequest, GrantOf
      <3>2. Command.arg \in Nat \ {0}
        BY <1>2, <3>1, HostAssumption
      <3>3. GrantedQueues(Command.arg) \in Nat /\ GrantedQueues(Command.arg) > 0
        BY <3>2, QueueAssumption DEF GrantedQueues
      <3> DEFINE e == [command_id |-> Command.command_id, sq_head |-> adm.curr,
                       status |-> "SUCCESS", phase |-> admin_q.phase,
                       result |-> GrantedQueues(Command.arg) - 1]
      <3>4. cq_mem' = [cq_mem EXCEPT ![admin_q.cq_head] = e]
        BY <2>1 DEF set_features, Answer
      <3>5. e.result = GrantedQueues(Command.arg) - 1
        OBVIOUS
      <3> HIDE DEF e
      <3>6. cq_mem'[CqAt(a + 1)] = e
        BY <1>2, <1>13, <3>4 DEF AdminType
      <3>7. nr_sq' = GrantedQueues(Command.arg) /\ nr_cq' = GrantedQueues(Command.arg)
        BY <2>1 DEF set_features
      <3> QED
        BY <3>1, <3>3, <3>5, <3>6, <3>7
    <2>2. CASE ~set_features
      BY <1>2, <2>2 DEF Report, LeaveGap, create_cq, create_sq, delete_cq, delete_sq,
                TakeRequest, Reports
    <2> QED
      BY <2>1, <2>2
  <1>18. \A i \in 1 .. a + 1 : out[i].opcode # "get_features" =>
           /\ cq_mem'[CqAt(i)].command_id = out[i].command_id
           /\ cq_mem'[CqAt(i)].sq_head = SqAt(b, i)
           /\ out[i].opcode = "set_features" =>
                /\ cq_mem'[CqAt(i)].result + 1 = nr_sq' /\ nr_cq' = nr_sq' /\ nr_sq' > 0
    <2> SUFFICES ASSUME NEW i \in 1 .. a + 1, out[i].opcode # "get_features"
                 PROVE  /\ cq_mem'[CqAt(i)].command_id = out[i].command_id
                        /\ cq_mem'[CqAt(i)].sq_head = SqAt(b, i)
                        /\ out[i].opcode = "set_features" =>
                             /\ cq_mem'[CqAt(i)].result + 1 = nr_sq'
                             /\ nr_cq' = nr_sq' /\ nr_sq' > 0
      OBVIOUS
    <2>1. CASE i = a + 1
      BY <2>1, <1>11, <1>15, <1>17
    <2>2. CASE i # a + 1
      <3>1. i \in 1 .. a /\ i \in 1 .. Len(out) /\ i \in 1 .. AdminCqDepth
        BY <1>2, <1>5, <1>6, <2>2, AdminAssumption
      <3>2. /\ cq_mem[CqAt(i)].command_id = out[i].command_id
            /\ cq_mem[CqAt(i)].sq_head = SqAt(b, i)
            /\ out[i].opcode = "set_features" =>
                 /\ cq_mem[CqAt(i)].result + 1 = nr_sq /\ nr_cq = nr_sq /\ nr_sq > 0
        BY <1>5, <3>1 DEF AnswersOf
      <3>3. cq_mem'[CqAt(i)] = cq_mem[CqAt(i)]
        BY <1>14, <2>2, <3>1
      <3>4. out[i].opcode = "set_features" => out[a + 1].opcode # "set_features"
        BY <1>2, <2>2, <3>1 DEF GrantOf
      <3> QED
        BY <1>17, <3>2, <3>3, <3>4
    <2> QED
      BY <2>1, <2>2
  <1>19. \A i \in 1 .. AdminCqDepth : i > a + 1 \/ out[i].opcode = "get_features" =>
           cq_mem'[CqAt(i)].phase = 1 - PhaseAt(i)
    <2> SUFFICES ASSUME NEW i \in 1 .. AdminCqDepth, i > a + 1 \/ out[i].opcode = "get_features"
                 PROVE  cq_mem'[CqAt(i)].phase = 1 - PhaseAt(i)
      OBVIOUS
    <2>1. cq_mem[CqAt(i)].phase = 1 - PhaseAt(i)
      BY <1>5 DEF AnswersOf
    <2>2. CASE i = a + 1
      BY <1>11, <1>16, <2>1, <2>2
    <2>3. CASE i # a + 1
      BY <1>14, <2>1, <2>3
    <2> QED
      BY <2>2, <2>3
  <1>20. AnswersOf(a + 1, b)'
    <2>1. CqAt(a + 1 + 1)' = CqAt(a + 1 + 1) /\ PhaseAt(a + 1 + 1)' = PhaseAt(a + 1 + 1)
      BY <1>8
    <2>2. \A i \in 1 .. a + 1 : out'[i].opcode # "get_features" =>
            /\ cq_mem'[CqAt(i)'].command_id = out'[i].command_id
            /\ cq_mem'[CqAt(i)'].sq_head = SqAt(b, i)
            /\ out'[i].opcode = "set_features" =>
                 /\ cq_mem'[CqAt(i)'].result + 1 = nr_sq' /\ nr_cq' = nr_sq' /\ nr_sq' > 0
      BY <1>7, <1>8, <1>18
    <2>3. \A i \in 1 .. AdminCqDepth : i > a + 1 \/ out'[i].opcode = "get_features" =>
            cq_mem'[CqAt(i)'].phase = 1 - PhaseAt(i)'
      BY <1>7, <1>8, <1>19
    <2> QED
      BY <1>9, <1>10, <2>1, <2>2, <2>3 DEF AnswersOf, SqAt, At
  <1> QED
    BY <1>10, <1>20

LEMMA AnswersTake ==
  ASSUME QueueType, AdminType, HostType, NEW a \in Nat, NEW b \in Slot, AdminOf(a, b), IsrTake
  PROVE  AnswersOf(a - 1, SqAt(b, 2))' /\ head' \in CqSlot /\ hphase' \in {0, 1}
  <1>1. /\ a >= 1 /\ Len(out) >= 1 /\ out # <<>>
    BY AnswerInOrder DEF IsrTake
  <1>2. /\ a - 1 \in Nat
        /\ \A i \in 1 .. Len(out') : i + 1 \in 1 .. Len(out) /\ out'[i] = out[i + 1]
        /\ Len(out') = Len(out) - 1
    BY RingTake
  <1>3. /\ head' = (head + 1) % AdminCqDepth
        /\ hphase' = IF head + 1 = AdminCqDepth THEN 1 - hphase ELSE hphase
        /\ cq_mem[head].phase = hphase
        /\ UNCHANGED <<cq_mem, admin_q, nr_sq, nr_cq>>
    BY DEF IsrTake, EntryNew, devVars
  <1>4. head \in CqSlot /\ hphase \in {0, 1} /\ Len(out) \in Nat
    BY DEF HostType
  <1>5. \A i \in 1 .. AdminCqDepth : CqAt(i)' = CqAt(i + 1) /\ PhaseAt(i)' = PhaseAt(i + 1)
    BY <1>3, <1>4, AnswersShift
  <1>6. /\ CqAt(AdminCqDepth + 1) = head /\ PhaseAt(AdminCqDepth + 1) = 1 - hphase
        /\ head' \in CqSlot /\ hphase' \in {0, 1}
    <2>1. 1 \in 1 .. AdminCqDepth
      BY AdminAssumption
    <2> QED
      BY <1>3, <1>4, <2>1, AnswersShift
  <1>7. AnswersOf(a, b) /\ a <= Len(out) /\ Len(out) < AdminCqDepth /\ Len(out) < AdminSqDepth
    BY DEF AdminOf, RingOf
  <1>8. admin_q # NULL /\ admin_q' = admin_q
    BY <1>1, <1>3, <1>7 DEF AnswersOf
  <1>9. admin_q'.cq_head = CqAt(a - 1 + 1)' /\ admin_q'.phase = PhaseAt(a - 1 + 1)'
    <2>1. a \in 1 .. AdminCqDepth /\ a - 1 + 1 = a
      BY <1>1, <1>4, <1>7, AdminAssumption
    <2>2. admin_q.cq_head = CqAt(a + 1) /\ admin_q.phase = PhaseAt(a + 1)
      BY <1>7, <1>8 DEF AnswersOf
    <2> QED
      BY <1>5, <1>8, <2>1, <2>2
  <1> DEFINE c == SqAt(b, 2)
  <1>10. \A i \in 1 .. a - 1 : out'[i].opcode # "get_features" =>
           /\ cq_mem'[CqAt(i)'].command_id = out'[i].command_id
           /\ cq_mem'[CqAt(i)'].sq_head = SqAt(c, i)
           /\ out'[i].opcode = "set_features" =>
                /\ cq_mem'[CqAt(i)'].result + 1 = nr_sq' /\ nr_cq' = nr_sq' /\ nr_sq' > 0
    <2> SUFFICES ASSUME NEW i \in 1 .. a - 1, out'[i].opcode # "get_features"
                 PROVE  /\ cq_mem'[CqAt(i)'].command_id = out'[i].command_id
                        /\ cq_mem'[CqAt(i)'].sq_head = SqAt(c, i)
                        /\ out'[i].opcode = "set_features" =>
                             /\ cq_mem'[CqAt(i)'].result + 1 = nr_sq'
                             /\ nr_cq' = nr_sq' /\ nr_sq' > 0
      OBVIOUS
    <2>1. /\ i \in 1 .. AdminCqDepth /\ i \in 1 .. AdminSqDepth /\ i + 1 \in 1 .. a
          /\ i \in 1 .. Len(out')
      BY <1>1, <1>2, <1>4, <1>7, AdminAssumption
    <2>2. CqAt(i)' = CqAt(i + 1) /\ out'[i] = out[i + 1]
      BY <1>2, <1>5, <2>1
    <2>3. SqAt(c, i) = SqAt(b, i + 1)
      BY <2>1, SlotsOfRing
    <2>4. /\ cq_mem[CqAt(i + 1)].command_id = out[i + 1].command_id
          /\ cq_mem[CqAt(i + 1)].sq_head = SqAt(b, i + 1)
          /\ out[i + 1].opcode = "set_features" =>
               /\ cq_mem[CqAt(i + 1)].result + 1 = nr_sq /\ nr_cq = nr_sq /\ nr_sq > 0
      BY <1>7, <2>1, <2>2 DEF AnswersOf
    <2> QED
      BY <1>3, <2>2, <2>3, <2>4
  <1>11. \A i \in 1 .. AdminCqDepth : i > a - 1 \/ out'[i].opcode = "get_features" =>
           cq_mem'[CqAt(i)'].phase = 1 - PhaseAt(i)'
    <2> SUFFICES ASSUME NEW i \in 1 .. AdminCqDepth,
                        i > a - 1 \/ out'[i].opcode = "get_features"
                 PROVE  cq_mem'[CqAt(i)'].phase = 1 - PhaseAt(i)'
      OBVIOUS
    <2>1. CqAt(i)' = CqAt(i + 1) /\ PhaseAt(i)' = PhaseAt(i + 1)
      BY <1>5
    <2>2. CASE i = AdminCqDepth
      BY <1>3, <1>4, <1>6, <2>1, <2>2
    <2>3. CASE i # AdminCqDepth
      <3>1. i + 1 \in 1 .. AdminCqDepth
        BY <2>3, AdminAssumption
      <3>2. i + 1 > a \/ out[i + 1].opcode = "get_features"
        <4>1. CASE i > a - 1
          BY <4>1
        <4>2. CASE ~(i > a - 1)
          <5>1. i \in 1 .. Len(out')
            BY <1>2, <1>4, <1>7, <4>2
          <5> QED
            BY <1>2, <4>2, <5>1
        <4> QED
          BY <4>1, <4>2
      <3>3. cq_mem[CqAt(i + 1)].phase = 1 - PhaseAt(i + 1)
        BY <1>7, <3>1, <3>2 DEF AnswersOf
      <3> QED
        BY <1>3, <2>1, <3>3
    <2> QED
      BY <2>2, <2>3
  <1>12. AnswersOf(a - 1, c)'
    <2> HIDE DEF c
    <2> QED
      BY <1>8, <1>9, <1>10, <1>11 DEF AnswersOf, SqAt, At
  <1> QED
    BY <1>6, <1>12

LEMMA AnswersCommand ==
  ASSUME RegInv, QueueType, AdminType, HostType, NEW a \in Nat, NEW b \in Slot, AdminOf(a, b),
         NEW op \in AdminOp, NEW arg \in Nat, HostCommand(op, arg)
  PROVE  AnswersOf(a, b)'
  <1>1. Len(out') = Len(out) + 1 /\ \A i \in 1 .. Len(out) : out'[i] = out[i]
    BY RingCommand
  <1>2. hpc = "ready" /\ UNCHANGED <<admin_q, head, hphase, cq_mem, nr_sq, nr_cq>>
    BY DEF HostCommand, devVars
  <1>3. admin_q # NULL
    BY <1>2 DEF RegInv, Regs, Early
  <1>4. a <= Len(out) /\ Len(out) \in Nat /\ AnswersOf(a, b)
    BY DEF AdminOf, RingOf, HostType
  <1>5. \A i \in Int : CqAt(i)' = CqAt(i) /\ PhaseAt(i)' = PhaseAt(i)
    BY <1>2 DEF CqAt, PhaseAt
  <1>6. \A i \in 1 .. a : out'[i] = out[i]
    BY <1>1, <1>4
  <1>7. \A i \in 1 .. a : out'[i].opcode # "get_features" =>
          /\ cq_mem'[CqAt(i)'].command_id = out'[i].command_id
          /\ cq_mem'[CqAt(i)'].sq_head = SqAt(b, i)
          /\ out'[i].opcode = "set_features" =>
               /\ cq_mem'[CqAt(i)'].result + 1 = nr_sq' /\ nr_cq' = nr_sq' /\ nr_sq' > 0
    BY <1>2, <1>4, <1>5, <1>6 DEF AnswersOf
  <1>8. \A i \in 1 .. AdminCqDepth : i > a \/ out'[i].opcode = "get_features" =>
          cq_mem'[CqAt(i)'].phase = 1 - PhaseAt(i)'
    <2> SUFFICES ASSUME NEW i \in 1 .. AdminCqDepth, i > a \/ out'[i].opcode = "get_features"
                 PROVE  cq_mem'[CqAt(i)'].phase = 1 - PhaseAt(i)'
      OBVIOUS
    <2>1. i > a \/ out[i].opcode = "get_features"
      BY <1>4, <1>6
    <2> QED
      BY <1>2, <1>4, <1>5, <2>1 DEF AnswersOf
  <1>9. /\ admin_q' # NULL
        /\ admin_q'.cq_head = CqAt(a + 1)' /\ admin_q'.phase = PhaseAt(a + 1)'
    BY <1>2, <1>3, <1>4, <1>5 DEF AnswersOf
  <1> QED
    BY <1>7, <1>8, <1>9 DEF AnswersOf, SqAt, At

-----------------------------------------------------------------------------
(* The tables of the I/O queues *)

LEMMA TablesStill ==
  ASSUME NEW a \in Nat, CqTables(a), SqTables(a), GrantOf,
         UNCHANGED <<out, granted, sq_known, cq_known, sqes, cqes, nr_sq, nr_cq>>,
         \A q \in Qid : io[q] = NoIo /\ sqes[q] = NULL => io'[q] = NoIo
  PROVE  CqTables(a)' /\ SqTables(a)' /\ GrantOf'
  <1>1. CqTables(a)'
    BY DEF CqTables, IsCqOp
  <1>2. SqTables(a)'
    BY DEF SqTables, IsSqOp
  <1>3. GrantOf'
    BY DEF GrantOf
  <1> QED
    BY <1>1, <1>2, <1>3

LEMMA TablesTurn ==
  ASSUME RegInv, QueueType, AdminType, HostType, GrantOf,
         NEW a \in Nat, NEW b \in Slot, AdminOf(a, b), UNCHANGED <<hostVars, io>>,
         Report \/ LeaveGap \/ set_features \/ create_cq \/ create_sq \/ delete_cq \/ delete_sq
  PROVE  CqTables(a + 1)' /\ SqTables(a + 1)' /\ GrantOf'
  <1>1. dpc = "admin_req" /\ adm.left > 0
    BY DEF Report, LeaveGap, set_features, create_cq, create_sq, delete_cq, delete_sq, TakeRequest
  <1> DEFINE k == a + 1
  <1>2. k \in 1 .. Len(out) /\ out[k] = Command
    BY <1>1, Taken
  <1>3. UNCHANGED <<out, granted, sq_known, cq_known>> /\ io' = io
    BY DEF hostVars
  <1>4. CqTables(a) /\ SqTables(a)
    BY DEF AdminOf
  <1>5. Len(out) \in Nat /\ \A i \in 1 .. Len(out) : i # k => (i <= a <=> i <= k)
    BY DEF HostType
  <1>6. GrantOf'
    <2>1. CASE set_features
      <3>1. granted = 0
        BY <1>2, <2>1 DEF set_features, TakeRequest, GrantOf
      <3> QED
        BY <1>3, <3>1 DEF GrantOf
    <2>2. CASE ~set_features
      <3>1. UNCHANGED <<nr_sq, nr_cq>>
        BY <2>2 DEF Report, LeaveGap, create_cq, create_sq, delete_cq, delete_sq
      <3> QED
        BY <1>3, <3>1 DEF GrantOf
    <2> QED
      BY <2>1, <2>2
  <1> HIDE DEF k
  <1>7. ASSUME NEW q \in Qid
        PROVE  /\ cqes'[q] # cqes[q] => IsCqOp(k, q)
               /\ IsCqOp(k, q) /\ out[k].opcode = "create_cq" => cqes'[q] # NULL
               /\ IsCqOp(k, q) /\ out[k].opcode = "delete_cq" => cqes'[q] = NULL
    <2>1. CASE create_cq
      <3>1. out[k].opcode = "create_cq" /\ cqes' = [cqes EXCEPT ![out[k].arg] = [queue_size |-> IoDepth]]
        BY <1>2, <2>1 DEF create_cq, TakeRequest
      <3>2. [queue_size |-> IoDepth] # NULL
        BY NullTables DEF CqTable
      <3> QED
        BY <3>1, <3>2 DEF IsCqOp, QueueType
    <2>2. CASE delete_cq
      <3>1. out[k].opcode = "delete_cq" /\ cqes' = [cqes EXCEPT ![out[k].arg] = NULL]
        BY <1>2, <2>2 DEF delete_cq, TakeRequest
      <3> QED
        BY <3>1 DEF IsCqOp, QueueType
    <2>3. CASE Report \/ LeaveGap \/ set_features \/ create_sq \/ delete_sq
      <3>1. out[k].opcode \notin {"create_cq", "delete_cq"} /\ cqes' = cqes
        BY <1>2, <2>3 DEF Report, LeaveGap, set_features, create_sq, delete_sq, TakeRequest, Reports
      <3> QED
        BY <3>1 DEF IsCqOp
    <2> QED
      BY <2>1, <2>2, <2>3
  <1>8. ASSUME NEW q \in Qid
        PROVE  /\ sqes'[q] # sqes[q] => IsSqOp(k, q)
               /\ IsSqOp(k, q) /\ out[k].opcode = "create_sq" => sqes'[q] # NULL
               /\ IsSqOp(k, q) /\ out[k].opcode = "delete_sq" => sqes'[q] = NULL
    <2>1. CASE create_sq
      <3>1. out[k].opcode = "create_sq"
            /\ sqes' = [sqes EXCEPT ![out[k].arg] = [queue_size |-> IoDepth, cqid |-> out[k].arg]]
        BY <1>2, <2>1 DEF create_sq, TakeRequest
      <3>2. q = out[k].arg => [queue_size |-> IoDepth, cqid |-> q] # NULL
        BY NullTables DEF SqTable
      <3> QED
        BY <3>1, <3>2 DEF IsSqOp, QueueType
    <2>2. CASE delete_sq
      <3>1. out[k].opcode = "delete_sq" /\ sqes' = [sqes EXCEPT ![out[k].arg] = NULL]
        BY <1>2, <2>2 DEF delete_sq, TakeRequest
      <3> QED
        BY <3>1 DEF IsSqOp, QueueType
    <2>3. CASE Report \/ LeaveGap \/ set_features \/ create_cq \/ delete_cq
      <3>1. out[k].opcode \notin {"create_sq", "delete_sq"} /\ sqes' = sqes
        BY <1>2, <2>3 DEF Report, LeaveGap, set_features, create_cq, delete_cq, TakeRequest, Reports
      <3> QED
        BY <3>1 DEF IsSqOp
    <2> QED
      BY <2>1, <2>2, <2>3
  <1>9. CqTables(k)'
    <2> SUFFICES ASSUME NEW q \in Qid
                 PROVE  /\ cq_known[q] = "none" => cqes'[q] = NULL
                        /\ cq_known[q] = "ready" => cqes'[q] # NULL
                        /\ \A i \in 1 .. Len(out) : IsCqOp(i, q) =>
                             /\ cq_known[q] = "asked"
                             /\ out[i].opcode = "create_cq" /\ i <= k => cqes'[q] # NULL
                             /\ out[i].opcode = "create_cq" /\ i > k => cqes'[q] = NULL
                             /\ out[i].opcode = "delete_cq" /\ i <= k => cqes'[q] = NULL
                             /\ out[i].opcode = "delete_cq" /\ i > k => cqes'[q] # NULL
                        /\ \A i, j \in 1 .. Len(out) : IsCqOp(i, q) /\ IsCqOp(j, q) => i = j
      BY <1>3 DEF CqTables, IsCqOp
    <2>1. cq_known[q] # "asked" => cqes'[q] = cqes[q]
      BY <1>2, <1>4, <1>7 DEF CqTables
    <2>2. ASSUME NEW i \in 1 .. Len(out), IsCqOp(i, q)
          PROVE  /\ cq_known[q] = "asked"
                 /\ out[i].opcode = "create_cq" /\ i <= k => cqes'[q] # NULL
                 /\ out[i].opcode = "create_cq" /\ i > k => cqes'[q] = NULL
                 /\ out[i].opcode = "delete_cq" /\ i <= k => cqes'[q] = NULL
                 /\ out[i].opcode = "delete_cq" /\ i > k => cqes'[q] # NULL
      <3>1. cq_known[q] = "asked"
        BY <1>4, <2>2 DEF CqTables
      <3>2. CASE i = k
        BY <1>2, <1>5, <1>7, <2>2, <3>1, <3>2
      <3>3. CASE i # k
        <4>1. ~IsCqOp(k, q)
          BY <1>2, <1>4, <2>2, <3>3 DEF CqTables
        <4>2. cqes'[q] = cqes[q]
          BY <1>7, <4>1
        <4>3. (i <= a <=> i <= k) /\ (i > a <=> i > k)
          BY <1>5, <3>3, <1>2
        <4> QED
          BY <1>4, <2>2, <3>1, <4>2, <4>3 DEF CqTables
      <3> QED
        BY <3>2, <3>3
    <2> QED
      BY <1>4, <2>1, <2>2 DEF CqTables
  <1>10. SqTables(k)'
    <2> SUFFICES ASSUME NEW q \in Qid
                 PROVE  /\ sq_known[q] = "none" => sqes'[q] = NULL
                        /\ sq_known[q] = "ready" => sqes'[q] # NULL
                        /\ sq_known[q] # "none" => cq_known[q] = "ready"
                        /\ \A i \in 1 .. Len(out) : IsSqOp(i, q) =>
                             /\ sq_known[q] = "asked"
                             /\ out[i].opcode = "create_sq" /\ i <= k => sqes'[q] # NULL
                             /\ out[i].opcode = "create_sq" /\ i > k => sqes'[q] = NULL /\ io[q] = NoIo
                             /\ out[i].opcode = "delete_sq" /\ i <= k => sqes'[q] = NULL
                             /\ out[i].opcode = "delete_sq" /\ i > k => sqes'[q] # NULL
                        /\ \A i, j \in 1 .. Len(out) : IsSqOp(i, q) /\ IsSqOp(j, q) => i = j
      BY <1>3 DEF SqTables, IsSqOp
    <2>1. sq_known[q] # "asked" => sqes'[q] = sqes[q]
      BY <1>2, <1>4, <1>8 DEF SqTables
    <2>2. ASSUME NEW i \in 1 .. Len(out), IsSqOp(i, q)
          PROVE  /\ sq_known[q] = "asked"
                 /\ out[i].opcode = "create_sq" /\ i <= k => sqes'[q] # NULL
                 /\ out[i].opcode = "create_sq" /\ i > k => sqes'[q] = NULL /\ io[q] = NoIo
                 /\ out[i].opcode = "delete_sq" /\ i <= k => sqes'[q] = NULL
                 /\ out[i].opcode = "delete_sq" /\ i > k => sqes'[q] # NULL
      <3>1. sq_known[q] = "asked"
        BY <1>4, <2>2 DEF SqTables
      <3>2. CASE i = k
        BY <1>2, <1>5, <1>8, <2>2, <3>1, <3>2
      <3>3. CASE i # k
        <4>1. ~IsSqOp(k, q)
          BY <1>2, <1>4, <2>2, <3>3 DEF SqTables
        <4>2. sqes'[q] = sqes[q]
          BY <1>8, <4>1
        <4>3. (i <= a <=> i <= k) /\ (i > a <=> i > k)
          BY <1>5, <3>3, <1>2
        <4> QED
          BY <1>4, <2>2, <3>1, <4>2, <4>3 DEF SqTables
      <3> QED
        BY <3>2, <3>3
    <2> QED
      BY <1>4, <2>1, <2>2 DEF SqTables
  <1> QED
    BY <1>6, <1>9, <1>10 DEF k

(* An answer tells the host how the tables stand.                          *)
LEMMA TablesTake ==
  ASSUME QueueType, AdminType, HostType, GrantOf, NEW a \in Nat, NEW b \in Slot, AdminOf(a, b),
         IsrTake
  PROVE  /\ CqTables(a - 1)' /\ SqTables(a - 1)' /\ GrantOf'
         /\ granted' \in 0 .. NR_MAX_IO_QUEUE
         /\ sq_known' \in [Qid -> Known] /\ cq_known' \in [Qid -> Known]
         /\ \A q \in Qid : sq_known'[q] # sq_known[q] => sq_known[q] = "asked"
  <1>1. /\ a >= 1 /\ 1 \in 1 .. Len(out) /\ out # <<>> /\ Head(out) = out[1]
        /\ cq_mem[head].command_id = out[1].command_id
        /\ out[1].opcode = "set_features" =>
             cq_mem[head].result + 1 = nr_sq /\ nr_cq = nr_sq /\ nr_sq > 0
    BY AnswerInOrder DEF IsrTake
  <1>2. /\ Len(out') = Len(out) - 1 /\ Len(out) \in Nat
        /\ \A i \in 1 .. Len(out') : i + 1 \in 1 .. Len(out) /\ out'[i] = out[i + 1] /\ i + 1 # 1
    <2>1. Len(out) \in Nat
      BY DEF HostType
    <2>2. /\ Len(out') = Len(out) - 1
          /\ \A i \in 1 .. Len(out') : i + 1 \in 1 .. Len(out) /\ out'[i] = out[i + 1]
      BY RingTake
    <2>3. \A i \in 1 .. Len(out') : i + 1 # 1
      BY <2>1, <2>2
    <2> QED
      BY <2>1, <2>2, <2>3
  <1> DEFINE c == out[1]
  <1>3. /\ granted' = IF c.opcode = "set_features" THEN cq_mem[head].result + 1 ELSE granted
        /\ sq_known' = CASE c.opcode = "create_sq" -> [sq_known EXCEPT ![c.arg] = "ready"]
                         [] c.opcode = "delete_sq" -> [sq_known EXCEPT ![c.arg] = "none"]
                         [] OTHER -> sq_known
        /\ cq_known' = CASE c.opcode = "create_cq" -> [cq_known EXCEPT ![c.arg] = "ready"]
                         [] c.opcode = "delete_cq" -> [cq_known EXCEPT ![c.arg] = "none"]
                         [] OTHER -> cq_known
        /\ UNCHANGED <<sqes, cqes, nr_sq, nr_cq, io>>
    BY <1>1 DEF IsrTake, devVars
  <1>4. CqTables(a) /\ SqTables(a)
    BY DEF AdminOf
  <1>5. c.opcode \in Creates \union Deletes => c.arg \in Qid
    BY <1>1, Asked
  <1> HIDE DEF c
  <1>6. sq_known \in [Qid -> Known] /\ cq_known \in [Qid -> Known]
        /\ granted \in 0 .. NR_MAX_IO_QUEUE
    BY DEF HostType
  <1>7. sq_known' \in [Qid -> Known] /\ cq_known' \in [Qid -> Known]
    <2>1. "ready" \in Known /\ "none" \in Known
      BY DEF Known
    <2> QED
      BY <1>3, <1>5, <1>6, <2>1
  <1>8. granted' \in 0 .. NR_MAX_IO_QUEUE
    BY <1>1, <1>3, <1>6 DEF c, QueueType
  <1>9. ASSUME NEW q \in Qid
        PROVE  /\ IsCqOp(1, q) /\ c.opcode = "create_cq" => cq_known'[q] = "ready" /\ cqes[q] # NULL
               /\ IsCqOp(1, q) /\ c.opcode = "delete_cq" => cq_known'[q] = "none" /\ cqes[q] = NULL
               /\ ~IsCqOp(1, q) => cq_known'[q] = cq_known[q]
    <2>1. IsCqOp(1, q) <=> c.opcode \in {"create_cq", "delete_cq"} /\ c.arg = q
      BY DEF IsCqOp, c
    <2>2. IsCqOp(1, q) => /\ c.opcode = "create_cq" => cqes[q] # NULL
                          /\ c.opcode = "delete_cq" => cqes[q] = NULL
      BY <1>1, <1>4 DEF CqTables, c
    <2>3. CASE c.opcode = "create_cq"
      <3>1. cq_known' = [cq_known EXCEPT ![c.arg] = "ready"]
        BY <1>3, <2>3
      <3> QED
        BY <1>6, <2>1, <2>2, <2>3, <3>1
    <2>4. CASE c.opcode = "delete_cq"
      <3>1. cq_known' = [cq_known EXCEPT ![c.arg] = "none"]
        BY <1>3, <2>4
      <3> QED
        BY <1>6, <2>1, <2>2, <2>4, <3>1
    <2>5. CASE c.opcode \notin {"create_cq", "delete_cq"}
      BY <1>3, <2>1, <2>5
    <2> QED
      BY <2>3, <2>4, <2>5
  <1>10. ASSUME NEW q \in Qid
         PROVE  /\ IsSqOp(1, q) /\ c.opcode = "create_sq" => sq_known'[q] = "ready" /\ sqes[q] # NULL
                /\ IsSqOp(1, q) /\ c.opcode = "delete_sq" => sq_known'[q] = "none" /\ sqes[q] = NULL
                /\ ~IsSqOp(1, q) => sq_known'[q] = sq_known[q]
    <2>1. IsSqOp(1, q) <=> c.opcode \in {"create_sq", "delete_sq"} /\ c.arg = q
      BY DEF IsSqOp, c
    <2>2. IsSqOp(1, q) => /\ c.opcode = "create_sq" => sqes[q] # NULL
                          /\ c.opcode = "delete_sq" => sqes[q] = NULL
      BY <1>1, <1>4 DEF SqTables, c
    <2>3. CASE c.opcode = "create_sq"
      <3>1. sq_known' = [sq_known EXCEPT ![c.arg] = "ready"]
        BY <1>3, <2>3
      <3> QED
        BY <1>6, <2>1, <2>2, <2>3, <3>1
    <2>4. CASE c.opcode = "delete_sq"
      <3>1. sq_known' = [sq_known EXCEPT ![c.arg] = "none"]
        BY <1>3, <2>4
      <3> QED
        BY <1>6, <2>1, <2>2, <2>4, <3>1
    <2>5. CASE c.opcode \notin {"create_sq", "delete_sq"}
      BY <1>3, <2>1, <2>5
    <2> QED
      BY <2>3, <2>4, <2>5
  <1>11. ASSUME NEW q \in Qid
         PROVE  /\ IsCqOp(1, q) => c.opcode = "create_cq" \/ c.opcode = "delete_cq"
                /\ IsSqOp(1, q) => c.opcode = "create_sq" \/ c.opcode = "delete_sq"
                /\ IsCqOp(1, q) => cq_known[q] = "asked"
                /\ IsSqOp(1, q) => sq_known[q] = "asked"
    <2>1. /\ IsCqOp(1, q) => c.opcode = "create_cq" \/ c.opcode = "delete_cq"
          /\ IsSqOp(1, q) => c.opcode = "create_sq" \/ c.opcode = "delete_sq"
      BY DEF IsCqOp, IsSqOp, c
    <2>2. IsCqOp(1, q) => cq_known[q] = "asked"
      BY <1>1, <1>4 DEF CqTables
    <2>3. IsSqOp(1, q) => sq_known[q] = "asked"
      BY <1>1, <1>4 DEF SqTables
    <2> QED
      BY <2>1, <2>2, <2>3
  <1>12. ASSUME NEW q \in Qid, NEW i \in 1 .. Len(out')
         PROVE  /\ IsCqOp(i, q)' <=> IsCqOp(i + 1, q)
                /\ IsSqOp(i, q)' <=> IsSqOp(i + 1, q)
    BY <1>2 DEF IsCqOp, IsSqOp
  <1>13. ASSUME NEW i \in 1 .. Len(out')
         PROVE  (i <= a - 1 <=> i + 1 <= a) /\ (i > a - 1 <=> i + 1 > a)
    OBVIOUS
  <1>14. CqTables(a - 1)'
    <2> SUFFICES ASSUME NEW q \in Qid
                 PROVE  /\ cq_known'[q] = "none" => cqes'[q] = NULL
                        /\ cq_known'[q] = "ready" => cqes'[q] # NULL
                        /\ \A i \in 1 .. Len(out') : IsCqOp(i, q)' =>
                             /\ cq_known'[q] = "asked"
                             /\ out'[i].opcode = "create_cq" /\ i <= a - 1 => cqes'[q] # NULL
                             /\ out'[i].opcode = "create_cq" /\ i > a - 1 => cqes'[q] = NULL
                             /\ out'[i].opcode = "delete_cq" /\ i <= a - 1 => cqes'[q] = NULL
                             /\ out'[i].opcode = "delete_cq" /\ i > a - 1 => cqes'[q] # NULL
                        /\ \A i, j \in 1 .. Len(out') : IsCqOp(i, q)' /\ IsCqOp(j, q)' => i = j
      BY DEF CqTables
    <2>1. /\ cq_known'[q] = "none" => cqes'[q] = NULL
          /\ cq_known'[q] = "ready" => cqes'[q] # NULL
      BY <1>3, <1>4, <1>9, <1>11 DEF CqTables
    <2>2. ASSUME NEW i \in 1 .. Len(out'), IsCqOp(i, q)'
          PROVE  /\ cq_known'[q] = "asked"
                 /\ out'[i].opcode = "create_cq" /\ i <= a - 1 => cqes'[q] # NULL
                 /\ out'[i].opcode = "create_cq" /\ i > a - 1 => cqes'[q] = NULL
                 /\ out'[i].opcode = "delete_cq" /\ i <= a - 1 => cqes'[q] = NULL
                 /\ out'[i].opcode = "delete_cq" /\ i > a - 1 => cqes'[q] # NULL
      <3>1. IsCqOp(i + 1, q) /\ i + 1 \in 1 .. Len(out) /\ out'[i] = out[i + 1] /\ i + 1 # 1
        BY <1>2, <1>12, <2>2
      <3>2. ~IsCqOp(1, q)
        BY <1>1, <1>4, <3>1 DEF CqTables
      <3>3. cq_known'[q] = cq_known[q] /\ cqes' = cqes
        BY <1>3, <1>9, <3>2
      <3>4. /\ cq_known[q] = "asked"
            /\ out[i + 1].opcode = "create_cq" /\ i + 1 <= a => cqes[q] # NULL
            /\ out[i + 1].opcode = "create_cq" /\ i + 1 > a => cqes[q] = NULL
            /\ out[i + 1].opcode = "delete_cq" /\ i + 1 <= a => cqes[q] = NULL
            /\ out[i + 1].opcode = "delete_cq" /\ i + 1 > a => cqes[q] # NULL
        BY <1>4, <3>1 DEF CqTables
      <3> QED
        BY <1>13, <3>1, <3>3, <3>4
    <2>3. ASSUME NEW i \in 1 .. Len(out'), NEW j \in 1 .. Len(out'), IsCqOp(i, q)', IsCqOp(j, q)'
          PROVE  i = j
      <3>1. /\ IsCqOp(i + 1, q) /\ i + 1 \in 1 .. Len(out)
            /\ IsCqOp(j + 1, q) /\ j + 1 \in 1 .. Len(out)
        BY <1>2, <1>12, <2>3
      <3>2. i + 1 = j + 1
        BY <1>4, <3>1 DEF CqTables
      <3> QED
        BY <3>2
    <2> QED
      BY <2>1, <2>2, <2>3
  <1>15. SqTables(a - 1)'
    <2> SUFFICES ASSUME NEW q \in Qid
                 PROVE  /\ sq_known'[q] = "none" => sqes'[q] = NULL
                        /\ sq_known'[q] = "ready" => sqes'[q] # NULL
                        /\ sq_known'[q] # "none" => cq_known'[q] = "ready"
                        /\ \A i \in 1 .. Len(out') : IsSqOp(i, q)' =>
                             /\ sq_known'[q] = "asked"
                             /\ out'[i].opcode = "create_sq" /\ i <= a - 1 => sqes'[q] # NULL
                             /\ out'[i].opcode = "create_sq" /\ i > a - 1 =>
                                  sqes'[q] = NULL /\ io'[q] = NoIo
                             /\ out'[i].opcode = "delete_sq" /\ i <= a - 1 => sqes'[q] = NULL
                             /\ out'[i].opcode = "delete_sq" /\ i > a - 1 => sqes'[q] # NULL
                        /\ \A i, j \in 1 .. Len(out') : IsSqOp(i, q)' /\ IsSqOp(j, q)' => i = j
      BY DEF SqTables
    <2>1. /\ sq_known'[q] = "none" => sqes'[q] = NULL
          /\ sq_known'[q] = "ready" => sqes'[q] # NULL
      BY <1>3, <1>4, <1>10, <1>11 DEF SqTables
    <2>2. sq_known'[q] # "none" => cq_known'[q] = "ready"
      <3>1. sq_known'[q] # "none" => sq_known[q] # "none"
        BY <1>10, <1>11
      <3>2. sq_known[q] # "none" => cq_known[q] = "ready"
        BY <1>4 DEF SqTables
      <3>3. cq_known[q] = "ready" => cq_known'[q] = "ready"
        BY <1>9, <1>11
      <3> QED
        BY <3>1, <3>2, <3>3
    <2>3. ASSUME NEW i \in 1 .. Len(out'), IsSqOp(i, q)'
          PROVE  /\ sq_known'[q] = "asked"
                 /\ out'[i].opcode = "create_sq" /\ i <= a - 1 => sqes'[q] # NULL
                 /\ out'[i].opcode = "create_sq" /\ i > a - 1 => sqes'[q] = NULL /\ io'[q] = NoIo
                 /\ out'[i].opcode = "delete_sq" /\ i <= a - 1 => sqes'[q] = NULL
                 /\ out'[i].opcode = "delete_sq" /\ i > a - 1 => sqes'[q] # NULL
      <3>1. IsSqOp(i + 1, q) /\ i + 1 \in 1 .. Len(out) /\ out'[i] = out[i + 1] /\ i + 1 # 1
        BY <1>2, <1>12, <2>3
      <3>2. ~IsSqOp(1, q)
        BY <1>1, <1>4, <3>1 DEF SqTables
      <3>3. sq_known'[q] = sq_known[q] /\ sqes' = sqes /\ io' = io
        BY <1>3, <1>10, <3>2
      <3>4. /\ sq_known[q] = "asked"
            /\ out[i + 1].opcode = "create_sq" /\ i + 1 <= a => sqes[q] # NULL
            /\ out[i + 1].opcode = "create_sq" /\ i + 1 > a => sqes[q] = NULL /\ io[q] = NoIo
            /\ out[i + 1].opcode = "delete_sq" /\ i + 1 <= a => sqes[q] = NULL
            /\ out[i + 1].opcode = "delete_sq" /\ i + 1 > a => sqes[q] # NULL
        BY <1>4, <3>1 DEF SqTables
      <3> QED
        BY <1>13, <3>1, <3>3, <3>4
    <2>4. ASSUME NEW i \in 1 .. Len(out'), NEW j \in 1 .. Len(out'), IsSqOp(i, q)', IsSqOp(j, q)'
          PROVE  i = j
      <3>1. /\ IsSqOp(i + 1, q) /\ i + 1 \in 1 .. Len(out)
            /\ IsSqOp(j + 1, q) /\ j + 1 \in 1 .. Len(out)
        BY <1>2, <1>12, <2>4
      <3>2. i + 1 = j + 1
        BY <1>4, <3>1 DEF SqTables
      <3> QED
        BY <3>2
    <2> QED
      BY <2>1, <2>2, <2>3, <2>4
  <1>16. GrantOf'
    <2>1. CASE c.opcode = "set_features"
      <3>1. granted = 0 /\ granted' = nr_sq /\ nr_cq = nr_sq
        BY <1>1, <1>3, <2>1 DEF GrantOf, c
      <3>2. ASSUME NEW q \in Qid PROVE cq_known'[q] = "none" /\ sq_known'[q] = "none"
        <4>1. cq_known[q] = "none" /\ sq_known[q] = "none"
          BY <3>1, QueueAssumption DEF GrantOf, Qid
        <4> QED
          BY <1>3, <2>1, <4>1
      <3>3. ASSUME NEW i \in 1 .. Len(out')
            PROVE  out'[i].opcode # "set_features" /\ out'[i].opcode \notin Creates \union Deletes
        <4>1. i + 1 \in 1 .. Len(out) /\ out'[i] = out[i + 1] /\ i + 1 # 1
          BY <1>2
        <4>2. out[i + 1].opcode # "set_features"
          BY <1>1, <2>1, <4>1 DEF GrantOf, c
        <4>3. out[i + 1].opcode \in Creates \union Deletes => out[i + 1].arg \in 1 .. 0
          BY <3>1, <4>1 DEF GrantOf
        <4> QED
          BY <4>1, <4>2, <4>3
      <3> QED
        BY <1>3, <3>1, <3>2, <3>3 DEF GrantOf
    <2>2. CASE c.opcode # "set_features"
      <3>1. granted' = granted /\ UNCHANGED <<nr_sq, nr_cq>>
        BY <1>3, <2>2
      <3>2. ASSUME NEW i \in 1 .. Len(out')
            PROVE  /\ out'[i].opcode = "set_features" => granted = 0 /\ out'[i].arg = AskQueues
                   /\ out'[i].opcode \in Creates \union Deletes => out'[i].arg \in 1 .. granted
        BY <1>2 DEF GrantOf
      <3>3. ASSUME NEW i \in 1 .. Len(out'), NEW j \in 1 .. Len(out'),
                   out'[i].opcode = "set_features", out'[j].opcode = "set_features"
            PROVE  i = j
        <4>1. i + 1 = j + 1
          BY <1>2, <3>3 DEF GrantOf
        <4> QED
          BY <4>1
      <3>4. ASSUME NEW q \in Qid, cq_known'[q] # "none" \/ sq_known'[q] # "none"
            PROVE  q <= granted
        <4>1. cq_known[q] # "none" \/ sq_known[q] # "none"
          BY <1>9, <1>10, <1>11, <3>4
        <4> QED
          BY <4>1 DEF GrantOf
      <3> QED
        BY <3>1, <3>2, <3>3, <3>4 DEF GrantOf
    <2> QED
      BY <2>1, <2>2
  <1>17. \A q \in Qid : sq_known'[q] # sq_known[q] => sq_known[q] = "asked"
    BY <1>10, <1>11
  <1> QED
    BY <1>7, <1>8, <1>14, <1>15, <1>16, <1>17

(* The host asks only for what fits the tables that it knows of.           *)
LEMMA TablesCommand ==
  ASSUME QueueType, AdminType, HostType, GrantOf, NEW a \in Nat, NEW b \in Slot, AdminOf(a, b),
         NEW op \in AdminOp, NEW arg \in Nat, HostCommand(op, arg)
  PROVE  /\ CqTables(a)' /\ SqTables(a)' /\ GrantOf'
         /\ sq_known' \in [Qid -> Known] /\ cq_known' \in [Qid -> Known]
         /\ io' = (IF op = "create_sq" THEN [io EXCEPT ![arg] = NoIo] ELSE io)
         /\ op \in {"create_sq", "delete_sq"} => arg \in Qid
         /\ op = "create_sq" => sqes[arg] = NULL /\ sq_known[arg] = "none"
         /\ \A q \in Qid : sq_known'[q] # sq_known[q] =>
              q = arg /\ op \in {"create_sq", "delete_sq"} /\ sq_known'[q] = "asked"
  <1> DEFINE n == Len(out)
  <1>1. /\ Len(out') = n + 1 /\ n \in Nat /\ a <= n
        /\ \A i \in 1 .. n : out'[i] = out[i]
        /\ out'[n + 1].opcode = op /\ out'[n + 1].arg = arg
    <2>1. n \in Nat
      BY DEF HostType
    <2>2. a <= n
      BY DEF AdminOf, RingOf
    <2>3. /\ Len(out') = n + 1 /\ \A i \in 1 .. n : out'[i] = out[i]
          /\ out'[n + 1].opcode = op /\ out'[n + 1].arg = arg
      BY RingCommand
    <2> QED
      BY <2>1, <2>2, <2>3
  <1>2. /\ sq_known' = IF op \in {"create_sq", "delete_sq"}
                        THEN [sq_known EXCEPT ![arg] = "asked"] ELSE sq_known
        /\ cq_known' = IF op \in {"create_cq", "delete_cq"}
                        THEN [cq_known EXCEPT ![arg] = "asked"] ELSE cq_known
        /\ io' = IF op = "create_sq" THEN [io EXCEPT ![arg] = NoIo] ELSE io
        /\ UNCHANGED <<granted, sqes, cqes, nr_sq, nr_cq>>
        /\ Sensible(op, arg)
    BY DEF HostCommand, devVars
  <1>3. CqTables(a) /\ SqTables(a) /\ GrantOf
    BY DEF AdminOf
  <1>4. sq_known \in [Qid -> Known] /\ cq_known \in [Qid -> Known] /\ io \in [Qid -> Counts]
        /\ granted \in 0 .. NR_MAX_IO_QUEUE
    BY DEF HostType
  <1>5. /\ op \in Creates \union Deletes => arg \in 1 .. granted /\ arg \in Qid
        /\ op = "create_cq" => cq_known[arg] = "none"
        /\ op = "create_sq" => cq_known[arg] = "ready" /\ sq_known[arg] = "none"
        /\ op = "delete_sq" => sq_known[arg] = "ready"
        /\ op = "delete_cq" => cq_known[arg] = "ready" /\ sq_known[arg] = "none"
        /\ op = "set_features" => /\ granted = 0 /\ arg = AskQueues
                                  /\ \A i \in 1 .. n : out[i].opcode # "set_features"
    <2>1. op \in Creates \union Deletes => op \notin HostOps /\ op # "set_features"
      BY HostAssumption DEF Creates, Deletes, Reports
    <2>2. op = "set_features" => op \notin HostOps
      BY HostAssumption DEF Reports
    <2>3. op \in Creates \union Deletes => arg \in 1 .. granted
      BY <1>2, <2>1 DEF Sensible
    <2>4. 1 .. granted \subseteq Qid
      BY <1>4, QueueAssumption DEF Qid
    <2> QED
      BY <1>2, <2>1, <2>2, <2>3, <2>4 DEF Sensible, Creates, Deletes
  <1>6. Creates = {"create_cq", "create_sq"} /\ Deletes = {"delete_sq", "delete_cq"}
    BY DEF Creates, Deletes
  <1> HIDE DEF n
  <1>7. "asked" \in Known /\ NoIo \in Counts
    BY DEF Known, NoIo, Counts
  <1>8. sq_known' \in [Qid -> Known] /\ cq_known' \in [Qid -> Known]
    BY <1>2, <1>4, <1>7
  <1>9. ASSUME NEW q \in Qid
        PROVE  /\ cq_known'[q] = IF op \in {"create_cq", "delete_cq"} /\ q = arg
                                 THEN "asked" ELSE cq_known[q]
               /\ sq_known'[q] = IF op \in {"create_sq", "delete_sq"} /\ q = arg
                                 THEN "asked" ELSE sq_known[q]
    BY <1>2, <1>4
  <1>10. ASSUME NEW i \in 1 .. n + 1, NEW q \in Qid
         PROVE  /\ i # n + 1 => /\ i \in 1 .. n /\ out'[i] = out[i]
                                /\ IsCqOp(i, q)' <=> IsCqOp(i, q)
                                /\ IsSqOp(i, q)' <=> IsSqOp(i, q)
                /\ i = n + 1 => /\ i > a /\ ~(i <= a)
                                /\ IsCqOp(i, q)' <=> op \in {"create_cq", "delete_cq"} /\ arg = q
                                /\ IsSqOp(i, q)' <=> op \in {"create_sq", "delete_sq"} /\ arg = q
    BY <1>1 DEF IsCqOp, IsSqOp
  <1>11. CqTables(a)'
    <2> SUFFICES ASSUME NEW q \in Qid
                 PROVE  /\ cq_known'[q] = "none" => cqes'[q] = NULL
                        /\ cq_known'[q] = "ready" => cqes'[q] # NULL
                        /\ \A i \in 1 .. n + 1 : IsCqOp(i, q)' =>
                             /\ cq_known'[q] = "asked"
                             /\ out'[i].opcode = "create_cq" /\ i <= a => cqes'[q] # NULL
                             /\ out'[i].opcode = "create_cq" /\ i > a => cqes'[q] = NULL
                             /\ out'[i].opcode = "delete_cq" /\ i <= a => cqes'[q] = NULL
                             /\ out'[i].opcode = "delete_cq" /\ i > a => cqes'[q] # NULL
                        /\ \A i, j \in 1 .. n + 1 : IsCqOp(i, q)' /\ IsCqOp(j, q)' => i = j
      BY <1>1 DEF CqTables
    <2>1. /\ cq_known'[q] = "none" => cqes'[q] = NULL
          /\ cq_known'[q] = "ready" => cqes'[q] # NULL
      BY <1>2, <1>3, <1>9 DEF CqTables
    <2>2. ASSUME NEW i \in 1 .. n, IsCqOp(i, q)
          PROVE  cq_known[q] = "asked" /\ ~(op \in {"create_cq", "delete_cq"} /\ arg = q)
      <3>1. cq_known[q] = "asked"
        BY <1>3, <2>2 DEF CqTables, n
      <3> QED
        BY <1>5, <3>1
    <2>3. ASSUME NEW i \in 1 .. n + 1, IsCqOp(i, q)'
          PROVE  /\ cq_known'[q] = "asked"
                 /\ out'[i].opcode = "create_cq" /\ i <= a => cqes'[q] # NULL
                 /\ out'[i].opcode = "create_cq" /\ i > a => cqes'[q] = NULL
                 /\ out'[i].opcode = "delete_cq" /\ i <= a => cqes'[q] = NULL
                 /\ out'[i].opcode = "delete_cq" /\ i > a => cqes'[q] # NULL
      <3>1. CASE i = n + 1
        <4>1. i > a /\ ~(i <= a) /\ op \in {"create_cq", "delete_cq"} /\ arg = q
          BY <1>10, <2>3, <3>1
        <4>2. cq_known'[q] = "asked" /\ out'[i].opcode = op /\ cqes' = cqes
          BY <1>1, <1>2, <1>9, <3>1, <4>1
        <4>3. /\ op = "create_cq" => cqes[q] = NULL
              /\ op = "delete_cq" => cqes[q] # NULL
          BY <1>3, <1>5, <4>1 DEF CqTables
        <4> QED
          BY <4>1, <4>2, <4>3
      <3>2. CASE i # n + 1
        <4>1. i \in 1 .. n /\ out'[i] = out[i] /\ IsCqOp(i, q)
          BY <1>10, <2>3, <3>2
        <4>2. cq_known'[q] = cq_known[q] /\ cqes' = cqes
          BY <1>2, <1>9, <2>2, <4>1
        <4> QED
          BY <1>3, <4>1, <4>2 DEF CqTables, n
      <3> QED
        BY <3>1, <3>2
    <2>4. ASSUME NEW i \in 1 .. n + 1, NEW j \in 1 .. n + 1, IsCqOp(i, q)', IsCqOp(j, q)'
          PROVE  i = j
      <3>1. CASE i # n + 1 /\ j # n + 1
        BY <1>3, <1>10, <2>4, <3>1 DEF CqTables, n
      <3>2. CASE i = n + 1 \/ j = n + 1
        BY <1>10, <2>2, <2>4, <3>2
      <3> QED
        BY <3>1, <3>2
    <2> QED
      BY <2>1, <2>3, <2>4
  <1>12. SqTables(a)'
    <2> SUFFICES ASSUME NEW q \in Qid
                 PROVE  /\ sq_known'[q] = "none" => sqes'[q] = NULL
                        /\ sq_known'[q] = "ready" => sqes'[q] # NULL
                        /\ sq_known'[q] # "none" => cq_known'[q] = "ready"
                        /\ \A i \in 1 .. n + 1 : IsSqOp(i, q)' =>
                             /\ sq_known'[q] = "asked"
                             /\ out'[i].opcode = "create_sq" /\ i <= a => sqes'[q] # NULL
                             /\ out'[i].opcode = "create_sq" /\ i > a =>
                                  sqes'[q] = NULL /\ io'[q] = NoIo
                             /\ out'[i].opcode = "delete_sq" /\ i <= a => sqes'[q] = NULL
                             /\ out'[i].opcode = "delete_sq" /\ i > a => sqes'[q] # NULL
                        /\ \A i, j \in 1 .. n + 1 : IsSqOp(i, q)' /\ IsSqOp(j, q)' => i = j
      BY <1>1 DEF SqTables
    <2>1. /\ sq_known'[q] = "none" => sqes'[q] = NULL
          /\ sq_known'[q] = "ready" => sqes'[q] # NULL
      BY <1>2, <1>3, <1>9 DEF SqTables
    <2>2. sq_known'[q] # "none" => cq_known'[q] = "ready"
      <3>1. sq_known[q] # "none" => cq_known[q] = "ready"
        BY <1>3 DEF SqTables
      <3>2. CASE op \in {"create_cq", "delete_cq"} /\ q = arg
        <4>1. sq_known[q] = "none"
          <5>1. op = "create_cq" => cq_known[q] # "ready"
            BY <1>5, <3>2
          <5> QED
            BY <1>5, <3>1, <3>2, <5>1
        <4> QED
          BY <1>9, <3>2, <4>1
      <3>3. CASE ~(op \in {"create_cq", "delete_cq"} /\ q = arg)
        <4>1. cq_known'[q] = cq_known[q]
          BY <1>9, <3>3
        <4>2. CASE op \in {"create_sq", "delete_sq"} /\ q = arg
          BY <1>5, <3>1, <4>1, <4>2
        <4>3. CASE ~(op \in {"create_sq", "delete_sq"} /\ q = arg)
          BY <1>9, <3>1, <4>1, <4>3
        <4> QED
          BY <4>2, <4>3
      <3> QED
        BY <3>2, <3>3
    <2>3. ASSUME NEW i \in 1 .. n, IsSqOp(i, q)
          PROVE  sq_known[q] = "asked" /\ ~(op \in {"create_sq", "delete_sq"} /\ arg = q)
      <3>1. sq_known[q] = "asked"
        BY <1>3, <2>3 DEF SqTables, n
      <3> QED
        BY <1>5, <3>1
    <2>4. ASSUME NEW i \in 1 .. n + 1, IsSqOp(i, q)'
          PROVE  /\ sq_known'[q] = "asked"
                 /\ out'[i].opcode = "create_sq" /\ i <= a => sqes'[q] # NULL
                 /\ out'[i].opcode = "create_sq" /\ i > a => sqes'[q] = NULL /\ io'[q] = NoIo
                 /\ out'[i].opcode = "delete_sq" /\ i <= a => sqes'[q] = NULL
                 /\ out'[i].opcode = "delete_sq" /\ i > a => sqes'[q] # NULL
      <3>1. CASE i = n + 1
        <4>1. i > a /\ ~(i <= a) /\ op \in {"create_sq", "delete_sq"} /\ arg = q
          BY <1>10, <2>4, <3>1
        <4>2. sq_known'[q] = "asked" /\ out'[i].opcode = op /\ sqes' = sqes
          BY <1>1, <1>2, <1>9, <3>1, <4>1
        <4>3. /\ op = "create_sq" => sqes[q] = NULL
              /\ op = "delete_sq" => sqes[q] # NULL
          BY <1>3, <1>5, <4>1 DEF SqTables
        <4>4. op = "create_sq" => io'[q] = NoIo
          BY <1>2, <1>4, <4>1
        <4> QED
          BY <4>1, <4>2, <4>3, <4>4
      <3>2. CASE i # n + 1
        <4>1. i \in 1 .. n /\ out'[i] = out[i] /\ IsSqOp(i, q)
          BY <1>10, <2>4, <3>2
        <4>2. ~(op \in {"create_sq", "delete_sq"} /\ arg = q)
          BY <2>3, <4>1
        <4>3. sq_known'[q] = sq_known[q] /\ sqes' = sqes /\ io'[q] = io[q]
          BY <1>2, <1>4, <1>9, <4>2
        <4> QED
          BY <1>3, <4>1, <4>3 DEF SqTables, n
      <3> QED
        BY <3>1, <3>2
    <2>5. ASSUME NEW i \in 1 .. n + 1, NEW j \in 1 .. n + 1, IsSqOp(i, q)', IsSqOp(j, q)'
          PROVE  i = j
      <3>1. CASE i # n + 1 /\ j # n + 1
        BY <1>3, <1>10, <2>5, <3>1 DEF SqTables, n
      <3>2. CASE i = n + 1 \/ j = n + 1
        BY <1>10, <2>3, <2>5, <3>2
      <3> QED
        BY <3>1, <3>2
    <2> QED
      BY <2>1, <2>2, <2>4, <2>5
  <1>13. GrantOf'
    <2>1. granted > 0 => granted = nr_sq /\ granted = nr_cq
      BY DEF GrantOf
    <2>2. ASSUME NEW i \in 1 .. n + 1
          PROVE  /\ out'[i].opcode = "set_features" => granted = 0 /\ out'[i].arg = AskQueues
                 /\ out'[i].opcode \in Creates \union Deletes => out'[i].arg \in 1 .. granted
      <3>1. CASE i = n + 1
        BY <1>1, <1>5, <3>1
      <3>2. CASE i # n + 1
        <4>1. i \in 1 .. n /\ out'[i] = out[i]
          BY <1>1, <3>2
        <4> QED
          BY <1>3, <4>1 DEF GrantOf, n
      <3> QED
        BY <3>1, <3>2
    <2>3. ASSUME NEW i \in 1 .. n + 1, NEW j \in 1 .. n + 1,
                 out'[i].opcode = "set_features", out'[j].opcode = "set_features"
          PROVE  i = j
      <3>1. CASE i # n + 1 /\ j # n + 1
        <4>1. i \in 1 .. n /\ j \in 1 .. n /\ out'[i] = out[i] /\ out'[j] = out[j]
          BY <1>1, <3>1
        <4> QED
          BY <1>3, <2>3, <4>1 DEF GrantOf, n
      <3>2. CASE i = n + 1 /\ j # n + 1
        <4>1. j \in 1 .. n /\ out'[j] = out[j]
          BY <1>1, <3>2
        <4> QED
          BY <1>1, <1>5, <2>3, <3>2, <4>1
      <3>3. CASE i # n + 1 /\ j = n + 1
        <4>1. i \in 1 .. n /\ out'[i] = out[i]
          BY <1>1, <3>3
        <4> QED
          BY <1>1, <1>5, <2>3, <3>3, <4>1
      <3> QED
        BY <3>1, <3>2, <3>3
    <2>4. ASSUME NEW q \in Qid, cq_known'[q] # "none" \/ sq_known'[q] # "none"
          PROVE  q <= granted
      <3>1. CASE q = arg /\ op \in Creates \union Deletes
        BY <1>4, <1>5, <3>1
      <3>2. CASE ~(q = arg /\ op \in Creates \union Deletes)
        <4>1. cq_known'[q] = cq_known[q] /\ sq_known'[q] = sq_known[q]
          BY <1>6, <1>9, <3>2
        <4> QED
          BY <1>3, <2>4, <4>1 DEF GrantOf
      <3> QED
        BY <3>1, <3>2
    <2> QED
      BY <1>1, <1>2, <2>1, <2>2, <2>3, <2>4 DEF GrantOf
  <1>14. op = "create_sq" => sqes[arg] = NULL
    BY <1>3, <1>5, <1>6 DEF SqTables
  <1> QED
    BY <1>2, <1>5, <1>6, <1>8, <1>9, <1>11, <1>12, <1>13, <1>14

-----------------------------------------------------------------------------
(* Steps that leave the admin queues as they are *)

LEMMA AdminStill ==
  ASSUME HostType, AdminInv, GrantOf, PlaceStays,
         UNCHANGED <<out, tail, head, hphase, sq_mem, cq_mem, adm, nr_sq, nr_cq, granted,
                     sq_known, cq_known, sqes, cqes>>,
         dbs'.sq[0] = dbs.sq[0], old_dbs'.sq[0] = old_dbs.sq[0],
         dpc' = "admin_req" <=> dpc = "admin_req",
         dpc' # "oops_register" => dpc # "oops_register",
         \A q \in Qid : io[q] = NoIo /\ sqes[q] = NULL => io'[q] = NoIo
  PROVE  AdminInv' /\ GrantOf'
  <1>1. PICK a \in Nat, b \in Slot : AdminOf(a, b)
    BY DEF AdminInv
  <1>2. RingOf(a, b) /\ AnswersOf(a, b) /\ CqTables(a) /\ SqTables(a) /\ a <= Len(out)
    BY <1>1 DEF AdminOf, RingOf
  <1>3. RingOf(a, b)'
    BY <1>2, RingStill
  <1>4. AnswersOf(a, b)'
    BY <1>2, AnswersStill
  <1>5. CqTables(a)' /\ SqTables(a)' /\ GrantOf'
    BY <1>2, TablesStill
  <1>6. AdminOf(a, b)'
    BY <1>3, <1>4, <1>5 DEF AdminOf
  <1> QED
    BY <1>5, <1>6 DEF AdminInv

LEMMA CountedStill ==
  ASSUME Counted, io' = io,
         \A q \in Qid : sqes'[q] # NULL =>
           sqes[q] # NULL /\ dbs'.sq[q] = dbs.sq[q] /\ old_dbs'.sq[q] = old_dbs.sq[q]
  PROVE  Counted'
  BY DEF Counted

LEMMA SettledStill ==
  ASSUME Settled, "doorbell" \notin races' => "doorbell" \notin races,
         dpc' = "oops_stat" => dpc = "oops_stat",
         \A q \in Qid : /\ sq_known'[q] # "ready" => sq_known[q] # "ready"
                        /\ dbs'.cq[q] = dbs.cq[q] /\ old_dbs'.cq[q] = old_dbs.cq[q]
  PROVE  Settled'
  BY DEF Settled

LEMMA BarsPlace ==
  ASSUME RegInv, nvmev_proc_bars
  PROVE  /\ PlaceStays
         /\ dpc \notin {"admin_req", "oops_register", "oops_stat"}
         /\ dpc' \notin {"admin_req", "oops_stat"}
  <1>1. CASE PollAqa
    <2>1. bar.aqa # old_bar.aqa => admin_q = NULL
      BY DEF RegInv, RegType, Regs, Bar, OldBar
    <2> DEFINE fresh == [phase |-> 1, cq_head |-> 0, sq_depth |-> AdminSqDepth,
                         cq_depth |-> AdminCqDepth, nvme_sq |-> FALSE, nvme_cq |-> FALSE]
    <2>2. fresh \in AdminQueue
      BY AdminAssumption DEF AdminQueue
    <2>3. fresh # NULL /\ fresh.cq_head = 0 /\ fresh.phase = 1
      BY <2>2, NullQueueAssumption
    <2>4. admin_q' = admin_q \/ (admin_q = NULL /\ admin_q' = fresh)
      BY <1>1, <2>1 DEF PollAqa
    <2> HIDE DEF fresh
    <2> QED
      BY <1>1, <2>3, <2>4 DEF PollAqa, PlaceStays
  <1>2. CASE PollAsq
    <2>1. \/ admin_q' = admin_q
          \/ admin_q # NULL /\ admin_q' = [admin_q EXCEPT !.nvme_sq = TRUE]
      BY <1>2 DEF PollAsq
    <2>2. admin_q # NULL => /\ [admin_q EXCEPT !.nvme_sq = TRUE] \in AdminQueue
                            /\ [admin_q EXCEPT !.nvme_sq = TRUE].cq_head = admin_q.cq_head
                            /\ [admin_q EXCEPT !.nvme_sq = TRUE].phase = admin_q.phase
      BY DEF RegInv, RegType, AdminQueue
    <2> QED
      BY <1>2, <2>1, <2>2, NullQueueAssumption DEF PollAsq, PlaceStays
  <1>3. CASE PollAcq
    <2>1. \/ admin_q' = admin_q
          \/ admin_q # NULL /\ admin_q' = [admin_q EXCEPT !.nvme_cq = TRUE]
      BY <1>3 DEF PollAcq
    <2>2. admin_q # NULL => /\ [admin_q EXCEPT !.nvme_cq = TRUE] \in AdminQueue
                            /\ [admin_q EXCEPT !.nvme_cq = TRUE].cq_head = admin_q.cq_head
                            /\ [admin_q EXCEPT !.nvme_cq = TRUE].phase = admin_q.phase
      BY DEF RegInv, RegType, AdminQueue
    <2> QED
      BY <1>3, <2>1, <2>2, NullQueueAssumption DEF PollAcq, PlaceStays
  <1>4. CASE PollEnable \/ PollShutdown \/ PollCcCopy
    BY <1>4 DEF PollEnable, PollShutdown, PollCcCopy, PlaceStays
  <1> QED
    BY <1>1, <1>2, <1>3, <1>4 DEF nvmev_proc_bars

-----------------------------------------------------------------------------
(* The steps *)

LEMMA BarsStep ==
  ASSUME CtlInv, nvmev_proc_bars, UNCHANGED <<adminVars, qid, hostVars, io, races>>
  PROVE  CtlInv'
  <1>1. /\ RegInv /\ QueueType /\ AdminType /\ HostType
        /\ GrantOf /\ AdminInv /\ Counted /\ Settled
    BY DEF CtlInv
  <1>2. /\ UNCHANGED <<dbs, old_dbs, sqes, cqes, nr_sq, nr_cq, sq_mem, cq_mem, adm>>
        /\ UNCHANGED <<hpc, out, issued, tail, head, hphase, isr, granted, sq_known, cq_known>>
        /\ UNCHANGED <<qid, io, races>>
    BY DEF adminVars, hostVars
  <1>3. admin_q = NULL => out = <<>>
    BY <1>1 DEF AdminInv, AdminOf, AnswersOf
  <1>4. RegInv'
    BY <1>1, <1>2, <1>3, BarsKeepRegisters
  <1>5. QueueType' /\ AdminType' /\ HostType'
    BY <1>1, <1>2 DEF QueueType, AdminType, HostType
  <1>6. /\ PlaceStays
        /\ dpc \notin {"admin_req", "oops_register", "oops_stat"}
        /\ dpc' \notin {"admin_req", "oops_stat"}
    BY <1>1, BarsPlace
  <1>7. AdminInv' /\ GrantOf'
    BY <1>1, <1>2, <1>6, AdminStill
  <1>8. Counted' /\ Settled'
    BY <1>1, <1>2, <1>6, CountedStill, SettledStill
  <1> QED
    BY <1>4, <1>5, <1>7, <1>8 DEF CtlInv

LEMMA AdminQueueSteps ==
  ASSUME CtlInv, StartAdminSq \/ EndAdminSq \/ OopsNoAdminQueue \/ AdminCqDoorbell,
         UNCHANGED <<qid, hostVars, io, races>>
  PROVE  CtlInv'
  <1>1. /\ RegInv /\ QueueType /\ AdminType /\ HostType
        /\ GrantOf /\ AdminInv /\ Counted /\ Settled
    BY DEF CtlInv
  <1>2. /\ UNCHANGED <<hpc, out, issued, tail, head, hphase, isr, granted, sq_known, cq_known>>
        /\ UNCHANGED <<qid, io, races>>
    BY DEF hostVars
  <1>3. UNCHANGED <<bar, old_bar, admin_q, dbs, sqes, cqes, nr_sq, nr_cq, sq_mem, cq_mem>>
    BY DEF StartAdminSq, EndAdminSq, OopsNoAdminQueue, AdminCqDoorbell, adminVars
  <1>4. hpc \in Early => out' = <<>>
    BY <1>1, <1>2 DEF RegInv, Regs
  <1>5. QueueStays /\ PlaceStays
    BY <1>3 DEF QueueStays, PlaceStays
  <1>6. PICK a \in Nat, b \in Slot : AdminOf(a, b)
    BY <1>1 DEF AdminInv
  <1>7. RingOf(a, b) /\ AnswersOf(a, b) /\ CqTables(a) /\ SqTables(a) /\ a <= Len(out)
    BY <1>6 DEF AdminOf, RingOf
  <1>8. HostType' /\ AnswersOf(a, b)' /\ CqTables(a)' /\ SqTables(a)' /\ GrantOf'
    <2>1. HostType'
      BY <1>1, <1>2 DEF HostType
    <2>2. AnswersOf(a, b)'
      BY <1>1, <1>2, <1>3, <1>5, <1>7, AnswersStill
    <2>3. CqTables(a)' /\ SqTables(a)' /\ GrantOf'
      BY <1>1, <1>2, <1>3, <1>7, TablesStill
    <2> QED
      BY <2>1, <2>2, <2>3
  <1>9. SUFFICES RegInv' /\ QueueType' /\ AdminType' /\ RingOf(a, b)' /\ Counted' /\ Settled'
    <2>1. ASSUME RingOf(a, b)' PROVE AdminInv'
      <3>1. AdminOf(a, b)'
        BY <1>8, <2>1 DEF AdminOf
      <3> QED
        BY <3>1 DEF AdminInv
    <2> QED
      BY <1>8, <2>1 DEF CtlInv
  <1>10. CASE StartAdminSq
    <2>1. dpc = "dbs" /\ dpc' \in {"admin_cq", "admin_req"} /\ old_dbs' = old_dbs
      BY <1>10 DEF StartAdminSq
    <2>2. RegInv'
      BY <1>1, <1>2, <1>3, <1>4, <1>5, <2>1, RegistersUntouched
    <2>3. RingOf(a, b)' /\ AdminType'
      BY <1>1, <1>6, <1>10, RingStart DEF RegInv
    <2>4. QueueType'
      BY <1>1, <1>2, <1>3, <2>1 DEF QueueType
    <2>5. Counted' /\ Settled'
      BY <1>1, <1>2, <1>3, <2>1, CountedStill, SettledStill
    <2> QED
      BY <2>2, <2>3, <2>4, <2>5
  <1>11. CASE EndAdminSq
    <2>1. dpc = "admin_req" /\ dpc' = "admin_cq"
      BY <1>11 DEF EndAdminSq
    <2>2. RegInv'
      BY <1>1, <1>2, <1>3, <1>4, <1>5, <2>1, RegistersUntouched
    <2>3. /\ RingOf(a, b)' /\ QueueType' /\ AdminType'
          /\ \A q \in Qid : old_dbs'.sq[q] = old_dbs.sq[q] /\ old_dbs'.cq[q] = old_dbs.cq[q]
      BY <1>1, <1>7, <1>11, RingEnd
    <2>4. Counted' /\ Settled'
      BY <1>1, <1>2, <1>3, <2>1, <2>3, CountedStill, SettledStill
    <2> QED
      BY <2>2, <2>3, <2>4
  <1>12. CASE OopsNoAdminQueue
    <2>1. dpc = "admin_req" /\ dpc' = "oops_register" /\ adm.left > 0 /\ UNCHANGED <<old_dbs, adm>>
          /\ (~admin_q.nvme_sq \/ ~admin_q.nvme_cq)
      BY <1>12 DEF OopsNoAdminQueue, adminVars
    <2>2. admin_q \in AdminQueue /\ hpc \notin Early
      BY <1>1, <1>6, <2>1, Taken
    <2>3. ~(admin_q.nvme_sq = TRUE /\ admin_q.nvme_cq = TRUE)
      BY <2>1
    <2>4. "register" \in races
      <3> SUFFICES ASSUME "register" \notin races PROVE FALSE
        OBVIOUS
      <3>1. old_bar.acq = TRUE /\ bar.acq = TRUE
        BY <1>1, <2>2 DEF RegInv, InTurn, Regs
      <3>2. old_bar.asq = TRUE
        BY <1>1, <3>1 DEF RegInv, InTurn
      <3>3. admin_q.nvme_sq = TRUE /\ admin_q.nvme_cq = TRUE
        BY <1>1, <2>1, <3>1, <3>2 DEF RegInv, Registered
      <3> QED
        BY <2>3, <3>3
    <2>5. RegInv'
      <3>1. RegType'
        BY <1>1, <1>2, <1>3, <2>1 DEF RegInv, RegType
      <3>2. Regs'
        BY <1>1, <1>2, <1>3 DEF RegInv, Regs
      <3> QED
        BY <1>2, <2>1, <2>4, <3>1, <3>2 DEF RegInv, Registered, InTurn
    <2>6. QueueType' /\ AdminType'
      BY <1>1, <1>2, <1>3, <2>1 DEF QueueType, AdminType
    <2>7. RingOf(a, b)'
      BY <1>2, <1>3, <1>7, <2>1 DEF RingOf, SqAt, At
    <2>8. Counted' /\ Settled'
      BY <1>1, <1>2, <1>3, <2>1, CountedStill, SettledStill
    <2> QED
      BY <2>5, <2>6, <2>7, <2>8
  <1>13. CASE AdminCqDoorbell
    <2>1. dpc = "admin_cq" /\ dpc' = "io_sq" /\ adm' = adm
          /\ old_dbs' = [old_dbs EXCEPT !.cq[0] = dbs.cq[0]]
      BY <1>13 DEF AdminCqDoorbell
    <2>2. dbs.cq[0] \in Nat /\ 0 \in {0} \union Qid /\ old_dbs \in Doorbells
      BY <1>1 DEF QueueType, Doorbells
    <2> DEFINE v == dbs.cq[0]
    <2>3. /\ old_dbs' \in Doorbells /\ old_dbs'.sq = old_dbs.sq
          /\ \A p \in {0} \union Qid : p # 0 => old_dbs'.cq[p] = old_dbs.cq[p]
      <3>1. v \in Nat
        BY <2>2
      <3>2. old_dbs' = [old_dbs EXCEPT !.cq[0] = v]
        BY <2>1
      <3> HIDE DEF v
      <3> QED
        BY <2>2, <3>1, <3>2, RingsCq
    <2>4. \A q \in Qid : q # 0
      BY QueueAssumption DEF Qid
    <2>5. RegInv'
      BY <1>1, <1>2, <1>3, <1>4, <1>5, <2>1, RegistersUntouched
    <2>6. QueueType' /\ AdminType'
      BY <1>1, <1>2, <1>3, <2>1, <2>3 DEF QueueType, AdminType
    <2>7. RingOf(a, b)'
      <3>1. old_dbs'.sq[0] = old_dbs.sq[0] /\ dbs'.sq[0] = dbs.sq[0]
        BY <1>3, <2>3
      <3> QED
        BY <1>2, <1>3, <1>7, <2>1, <3>1, RingStill
    <2>8. Counted' /\ Settled'
      BY <1>1, <1>2, <1>3, <2>1, <2>3, <2>4, CountedStill, SettledStill
    <2> QED
      BY <2>5, <2>6, <2>7, <2>8
  <1> QED
    BY <1>10, <1>11, <1>12, <1>13

LEMMA TurnStep ==
  ASSUME CtlInv, UNCHANGED <<qid, hostVars, io, races>>,
         Report \/ LeaveGap \/ set_features \/ create_cq \/ create_sq \/ delete_cq \/ delete_sq
  PROVE  CtlInv'
  <1>1. /\ RegInv /\ QueueType /\ AdminType /\ HostType
        /\ GrantOf /\ AdminInv /\ Counted /\ Settled
    BY DEF CtlInv
  <1>2. /\ UNCHANGED <<hpc, out, issued, tail, head, hphase, isr, granted, sq_known, cq_known>>
        /\ UNCHANGED <<qid, io, races>>
    BY DEF hostVars
  <1>3. PICK a \in Nat, b \in Slot : AdminOf(a, b)
    BY <1>1 DEF AdminInv
  <1>4. dpc = "admin_req" /\ dpc' = dpc /\ adm.left > 0
    BY DEF Report, LeaveGap, set_features, create_cq, create_sq, delete_cq, delete_sq, TakeRequest
  <1>5. /\ a + 1 \in 1 .. Len(out) /\ out[a + 1] = Command /\ admin_q # NULL
    BY <1>1, <1>3, <1>4, Taken
  <1>6. Turn
    BY <1>1, <1>5, Turns DEF RegInv
  <1>7. UNCHANGED <<bar, old_bar, sq_mem>>
    BY <1>6 DEF Turn
  <1>8. AnswersOf(a + 1, b)' /\ QueueStays
    BY <1>1, <1>3, AnswersTurn
  <1>9. RegInv'
    <2>1. hpc \in Early => out' = <<>>
      BY <1>1, <1>2 DEF RegInv, Regs
    <2> QED
      BY <1>1, <1>2, <1>4, <1>7, <1>8, <2>1, RegistersUntouched
  <1>10. QueueType' /\ AdminType'
    BY <1>3, TurnTypes
  <1>11. HostType'
    BY <1>1, <1>2 DEF HostType
  <1>12. CqTables(a + 1)' /\ SqTables(a + 1)' /\ GrantOf'
    BY <1>1, <1>3, TablesTurn
  <1>13. /\ dbs'.sq[0] = dbs.sq[0]
         /\ Counted' /\ Settled'
    <2>1. CASE Report \/ LeaveGap \/ set_features \/ delete_cq
      <3>1. UNCHANGED <<dbs, old_dbs, sqes>>
        BY <2>1 DEF Report, LeaveGap, set_features, delete_cq, adminFrame
      <3> QED
        BY <1>1, <1>2, <1>4, <3>1, CountedStill, SettledStill
    <2>2. CASE delete_sq
      <3>1. UNCHANGED <<dbs, old_dbs>> /\ sqes' = [sqes EXCEPT ![Command.arg] = NULL]
        BY <2>2 DEF delete_sq, adminFrame
      <3>2. \A q \in Qid : sqes'[q] # NULL => sqes[q] # NULL
        BY <1>1, <3>1 DEF QueueType
      <3> QED
        BY <1>1, <1>2, <1>4, <3>1, <3>2, CountedStill, SettledStill
    <2>3. CASE create_cq \/ create_sq
      <3> DEFINE n == Command.arg
      <3>1. Command.opcode \in Creates \union Deletes
        BY <2>3 DEF create_cq, create_sq, TakeRequest, Creates
      <3>2. n \in Qid /\ 0 \in Nat /\ n \in {0} \union Qid /\ n # 0 /\ 0 \in {0} \union Qid
        <4>1. n \in Qid
          BY <1>1, <1>5, <3>1, Asked
        <4> QED
          BY <4>1, QueueAssumption DEF Qid
      <3>3. dbs \in Doorbells /\ old_dbs \in Doorbells
        BY <1>1 DEF QueueType
      <3>4. CASE create_cq
        <4> HIDE DEF n
        <4>1. dbs' = [dbs EXCEPT !.cq[n] = 0] /\ old_dbs' = [old_dbs EXCEPT !.cq[n] = 0]
              /\ sqes' = sqes
          BY <3>4 DEF create_cq, n
        <4>2. dbs'.sq = dbs.sq /\ dbs'.cq[n] = 0
              /\ \A p \in {0} \union Qid : p # n => dbs'.cq[p] = dbs.cq[p]
          BY <3>2, <3>3, <4>1, RingsCq
        <4>3. old_dbs'.sq = old_dbs.sq /\ old_dbs'.cq[n] = 0
              /\ \A p \in {0} \union Qid : p # n => old_dbs'.cq[p] = old_dbs.cq[p]
          BY <3>2, <3>3, <4>1, RingsCq
        <4>4. Counted'
          BY <1>1, <1>2, <4>1, <4>2, <4>3, CountedStill
        <4>5. Settled'
          BY <1>1, <1>2, <1>4, <4>2, <4>3 DEF Settled
        <4> QED
          BY <4>2, <4>4, <4>5
      <3>5. CASE create_sq
        <4>1. io[n] = NoIo
          <5>1. IsSqOp(a + 1, n) /\ out[a + 1].opcode = "create_sq" /\ a + 1 > a
            BY <1>5, <3>5 DEF create_sq, TakeRequest, IsSqOp
          <5>2. SqTables(a)
            BY <1>3 DEF AdminOf
          <5> QED
            BY <1>5, <3>2, <5>1, <5>2 DEF SqTables
        <4> HIDE DEF n
        <4>2. dbs' = [dbs EXCEPT !.sq[n] = 0] /\ old_dbs' = [old_dbs EXCEPT !.sq[n] = 0]
          BY <3>5 DEF create_sq, n
        <4>3. \A q \in Qid : q # n => sqes'[q] = sqes[q]
          BY <1>1, <3>5 DEF create_sq, n, QueueType
        <4>4. dbs'.cq = dbs.cq /\ dbs'.sq[n] = 0
              /\ \A p \in {0} \union Qid : p # n => dbs'.sq[p] = dbs.sq[p]
          BY <3>2, <3>3, <4>2, RingsSq
        <4>5. old_dbs'.cq = old_dbs.cq /\ old_dbs'.sq[n] = 0
              /\ \A p \in {0} \union Qid : p # n => old_dbs'.sq[p] = old_dbs.sq[p]
          BY <3>2, <3>3, <4>2, RingsSq
        <4>6. io[n].posted % IoDepth = 0 /\ io[n].fetched % IoDepth = 0
          BY <4>1, QueueAssumption DEF NoIo
        <4>7. Counted'
          BY <1>1, <1>2, <4>3, <4>4, <4>5, <4>6 DEF Counted
        <4>8. Settled'
          BY <1>1, <1>2, <1>4, <4>4, <4>5, SettledStill
        <4> QED
          BY <3>2, <4>4, <4>7, <4>8
      <3> QED
        BY <2>3, <3>4, <3>5
    <2> QED
      BY <2>1, <2>2, <2>3
  <1>14. RingOf(a + 1, b)'
    BY <1>1, <1>3, <1>6, <1>13, RingTurn
  <1>15. AdminInv'
    <2>1. a + 1 \in Nat
      OBVIOUS
    <2>2. AdminOf(a + 1, b)'
      BY <1>8, <1>12, <1>14 DEF AdminOf
    <2> QED
      BY <2>1, <2>2 DEF AdminInv
  <1> QED
    BY <1>9, <1>10, <1>11, <1>12, <1>13, <1>15 DEF CtlInv

(* Everything that the doorbells of the I/O queues do not touch.           *)
LEMMA IoFrame ==
  ASSUME CtlInv, UNCHANGED <<regVars, sqes, cqes, nr_sq, nr_cq, sq_mem, cq_mem, adm, hostVars, races>>,
         dpc \in {"io_sq", "io_cq"} /\ dpc' \in {"io_sq", "io_cq", "aqa", "oops_stat"},
         qid' \in Nat \ {0}, old_dbs' \in Doorbells, dbs' = dbs, old_dbs'.sq[0] = old_dbs.sq[0],
         \A q \in Qid : io[q] = NoIo /\ sqes[q] = NULL => io'[q] = NoIo,
         io' \in [Qid -> Counts]
  PROVE  /\ RegInv' /\ QueueType' /\ AdminType' /\ HostType'
         /\ GrantOf' /\ AdminInv'
  <1>1. /\ RegInv /\ QueueType /\ AdminType /\ HostType
        /\ GrantOf /\ AdminInv
    BY DEF CtlInv
  <1>2. /\ UNCHANGED <<hpc, out, issued, tail, head, hphase, isr, granted, sq_known, cq_known>>
        /\ UNCHANGED <<bar, old_bar, admin_q, races>>
    BY DEF hostVars, regVars
  <1>3. hpc \in Early => out' = <<>>
    BY <1>1, <1>2 DEF RegInv, Regs
  <1>4. QueueStays /\ PlaceStays
    BY <1>2 DEF QueueStays, PlaceStays
  <1>5. RegInv'
    BY <1>1, <1>2, <1>3, <1>4, RegistersUntouched
  <1>6. AdminInv' /\ GrantOf'
    BY <1>1, <1>2, <1>4, AdminStill
  <1>7. QueueType' /\ AdminType' /\ HostType'
    BY <1>1, <1>2 DEF QueueType, AdminType, HostType
  <1> QED
    BY <1>5, <1>6, <1>7

LEMMA ProcIoSqStep ==
  ASSUME CtlInv, ProcIoSq
  PROVE  CtlInv'
  <1>1. /\ QueueType /\ HostType /\ AdminInv /\ Counted /\ Settled
    BY DEF CtlInv
  <1>2. /\ dpc = "io_sq" /\ dpc' = "io_sq" /\ qid <= nr_sq /\ qid' = qid + 1
        /\ UNCHANGED <<regVars, dbs, sqes, cqes, nr_sq, nr_cq, sq_mem, cq_mem, adm, irq, hostVars,
                       races>>
        /\ UNCHANGED <<sq_known, granted, sqes, dbs, races>>
    BY DEF ProcIoSq, NextSq, hostVars
  <1>3. qid \in Qid /\ qid' \in Nat \ {0}
    BY <1>1, <1>2, QueueAssumption DEF QueueType, Qid
  <1>4. CASE UNCHANGED <<io, old_dbs>>
    <2>1. old_dbs' \in Doorbells /\ io' \in [Qid -> Counts]
      BY <1>1, <1>4 DEF QueueType, HostType
    <2>2. RegInv' /\ QueueType' /\ AdminType' /\ HostType' /\ GrantOf' /\ AdminInv'
      BY <1>2, <1>3, <1>4, <2>1, IoFrame
    <2>3. Counted' /\ Settled'
      BY <1>1, <1>2, <1>4, CountedStill, SettledStill
    <2> QED
      BY <2>2, <2>3 DEF CtlInv
  <1>5. CASE /\ sqes[qid] # NULL
             /\ io' = [io EXCEPT ![qid].fetched =
                         @ + Distance(dbs.sq[qid], old_dbs.sq[qid], sqes[qid].queue_size)]
             /\ old_dbs' = [old_dbs EXCEPT !.sq[qid] = dbs.sq[qid]]
    <2> DEFINE p == io[qid].posted
               f == io[qid].fetched
               r == io[qid].reaped
               c == io[qid].completed
    <2>1. p \in Nat /\ f \in Nat /\ r \in Nat /\ c \in Nat /\ io[qid] \in Counts
      BY <1>1, <1>3 DEF HostType, Counts
    <2>2. /\ r <= c /\ c <= f /\ f <= p /\ p - r <= IoDepth - 1
          /\ dbs.sq[qid] = p % IoDepth /\ old_dbs.sq[qid] = f % IoDepth
      BY <1>1, <1>3, <1>5 DEF Counted
    <2>3. sqes[qid].queue_size = IoDepth
      BY <1>1, <1>3, <1>5 DEF QueueType, SqTable
    <2>4. Distance(dbs.sq[qid], old_dbs.sq[qid], sqes[qid].queue_size) = p - f
      <3>1. p - f <= IoDepth - 1
        BY <2>1, <2>2, QueueAssumption
      <3>2. IoDepth \in Nat \ {0}
        BY QueueAssumption
      <3> HIDE DEF p, f
      <3>3. Distance(p % IoDepth, f % IoDepth, IoDepth) = p - f
        BY <2>1, <2>2, <3>1, <3>2, RingDistance
      <3> QED
        BY <2>2, <2>3, <3>3
    <2>5. io' = [io EXCEPT ![qid].fetched = p]
      <3>1. f + (p - f) = p
        BY <2>1
      <3> QED
        BY <1>5, <2>4, <3>1
    <2>6. /\ io' \in [Qid -> Counts] /\ io'[qid].fetched = p /\ io'[qid].posted = p
          /\ io'[qid].reaped = r /\ io'[qid].completed = c
          /\ \A q \in Qid : q # qid => io'[q] = io[q]
      BY <1>1, <1>3, <2>1, <2>5 DEF HostType, Counts
    <2>7. /\ old_dbs' \in Doorbells /\ old_dbs'.cq = old_dbs.cq /\ old_dbs'.sq[qid] = dbs.sq[qid]
          /\ \A q \in {0} \union Qid : q # qid => old_dbs'.sq[q] = old_dbs.sq[q]
      <3>1. qid \in {0} \union Qid /\ old_dbs \in Doorbells /\ dbs.sq[qid] \in Nat
        BY <1>1, <1>3 DEF QueueType, Doorbells
      <3> DEFINE v == dbs.sq[qid]
                 n == qid
      <3>2. v \in Nat /\ n \in {0} \union Qid
        BY <3>1
      <3>3. old_dbs' = [old_dbs EXCEPT !.sq[n] = v]
        BY <1>5
      <3>4. /\ old_dbs' \in Doorbells /\ old_dbs'.cq = old_dbs.cq /\ old_dbs'.sq[n] = v
            /\ \A q \in {0} \union Qid : q # n => old_dbs'.sq[q] = old_dbs.sq[q]
        <4> HIDE DEF v, n
        <4> QED
          BY <3>1, <3>2, <3>3, RingsSq
      <3> QED
        BY <3>4
    <2>8. old_dbs'.sq[0] = old_dbs.sq[0]
      BY <1>3, <2>7, QueueAssumption DEF Qid
    <2>9. \A q \in Qid : io[q] = NoIo /\ sqes[q] = NULL => io'[q] = NoIo
      BY <1>5, <2>6
    <2>10. RegInv' /\ QueueType' /\ AdminType' /\ HostType' /\ GrantOf' /\ AdminInv'
      BY <1>2, <1>3, <2>6, <2>7, <2>8, <2>9, IoFrame
    <2>11. Counted'
      <3>1. /\ io'[qid].reaped <= io'[qid].completed /\ io'[qid].completed <= io'[qid].fetched
            /\ io'[qid].fetched <= io'[qid].posted
            /\ io'[qid].posted - io'[qid].reaped <= IoDepth - 1
            /\ dbs'.sq[qid] = io'[qid].posted % IoDepth
            /\ old_dbs'.sq[qid] = io'[qid].fetched % IoDepth
        <4>1. c <= p /\ p <= p
          BY <2>1, <2>2
        <4> QED
          BY <1>2, <2>2, <2>6, <2>7, <4>1
      <3> HIDE DEF p, f, r, c
      <3>2. ASSUME NEW q \in Qid, q # qid
            PROVE  io'[q] = io[q] /\ old_dbs'.sq[q] = old_dbs.sq[q] /\ dbs'.sq[q] = dbs.sq[q]
        BY <1>2, <2>6, <2>7, <3>2
      <3> SUFFICES ASSUME NEW q \in Qid
                   PROVE  /\ io'[q].reaped <= io'[q].completed /\ io'[q].completed <= io'[q].fetched
                          /\ io'[q].fetched <= io'[q].posted
                          /\ io'[q].posted - io'[q].reaped <= IoDepth - 1
                          /\ sqes'[q] # NULL =>
                               /\ dbs'.sq[q] = io'[q].posted % IoDepth
                               /\ old_dbs'.sq[q] = io'[q].fetched % IoDepth
        BY DEF Counted
      <3>3. CASE q = qid
        BY <3>1, <3>3
      <3>4. CASE q # qid
        BY <1>1, <1>2, <3>2, <3>4 DEF Counted
      <3> QED
        BY <3>3, <3>4
    <2>12. Settled'
      BY <1>1, <1>2, <2>7, SettledStill
    <2> QED
      BY <2>10, <2>11, <2>12 DEF CtlInv
  <1> QED
    BY <1>4, <1>5 DEF ProcIoSq

LEMMA IoLoopSteps ==
  ASSUME CtlInv, EndIoSq \/ ProcIoCq \/ EndIoCq
  PROVE  CtlInv'
  <1>1. /\ QueueType /\ HostType /\ AdminInv /\ Counted /\ Settled
    BY DEF CtlInv
  <1>2. /\ dpc \in {"io_sq", "io_cq"} /\ dpc' \in {"io_sq", "io_cq", "aqa", "oops_stat"}
        /\ qid' \in {1, qid, qid + 1}
        /\ UNCHANGED <<regVars, sqes, cqes, nr_sq, nr_cq, sq_mem, cq_mem, adm, hostVars, races>>
        /\ UNCHANGED <<dbs, sqes, io, sq_known, races>>
    BY DEF EndIoSq, ProcIoCq, EndIoCq, NextCq, adminVars, hostVars
  <1>3. qid' \in Nat \ {0} /\ io' \in [Qid -> Counts]
    BY <1>1, <1>2 DEF QueueType, HostType
  <1>4. CASE old_dbs' = old_dbs /\ dpc' # "oops_stat"
    <2>1. old_dbs' \in Doorbells
      BY <1>1, <1>4 DEF QueueType
    <2>2. RegInv' /\ QueueType' /\ AdminType' /\ HostType' /\ GrantOf' /\ AdminInv'
      BY <1>2, <1>3, <1>4, <2>1, IoFrame
    <2>3. Counted' /\ Settled'
      BY <1>1, <1>2, <1>4, CountedStill, SettledStill
    <2> QED
      BY <2>2, <2>3 DEF CtlInv
  <1>5. CASE ProcIoCq /\ dpc' = "io_cq" /\ old_dbs' = [old_dbs EXCEPT !.cq[qid] = dbs.cq[qid]]
    <2>1. qid \in Qid
      BY <1>1, <1>5, QueueAssumption DEF ProcIoCq, QueueType, Qid
    <2>2. /\ old_dbs' \in Doorbells /\ old_dbs'.sq = old_dbs.sq /\ old_dbs'.cq[qid] = dbs.cq[qid]
          /\ \A q \in {0} \union Qid : q # qid => old_dbs'.cq[q] = old_dbs.cq[q]
      <3>1. qid \in {0} \union Qid /\ old_dbs \in Doorbells /\ dbs.cq[qid] \in Nat
        BY <1>1, <2>1 DEF QueueType, Doorbells
      <3> DEFINE v == dbs.cq[qid]
                 n == qid
      <3>2. v \in Nat /\ n \in {0} \union Qid
        BY <3>1
      <3>3. old_dbs' = [old_dbs EXCEPT !.cq[n] = v]
        BY <1>5
      <3>4. /\ old_dbs' \in Doorbells /\ old_dbs'.sq = old_dbs.sq /\ old_dbs'.cq[n] = v
            /\ \A q \in {0} \union Qid : q # n => old_dbs'.cq[q] = old_dbs.cq[q]
        <4> HIDE DEF v, n
        <4> QED
          BY <3>1, <3>2, <3>3, RingsCq
      <3> QED
        BY <3>4
    <2>3. RegInv' /\ QueueType' /\ AdminType' /\ HostType' /\ GrantOf' /\ AdminInv'
      BY <1>2, <1>3, <1>5, <2>2, IoFrame
    <2>4. Counted'
      BY <1>1, <1>2, <2>2, CountedStill
    <2>5. Settled'
      BY <1>1, <1>2, <1>5, <2>2 DEF Settled
    <2> QED
      BY <2>3, <2>4, <2>5 DEF CtlInv
  <1>6. CASE /\ ProcIoCq /\ dpc' = "oops_stat" /\ UNCHANGED old_dbs
             /\ dbs.cq[qid] # old_dbs.cq[qid] /\ sqes[qid] = NULL
    <2>1. qid \in Qid
      BY <1>1, <1>6, QueueAssumption DEF ProcIoCq, QueueType, Qid
    <2>2. old_dbs' \in Doorbells
      BY <1>1, <1>6 DEF QueueType
    <2>3. RegInv' /\ QueueType' /\ AdminType' /\ HostType' /\ GrantOf' /\ AdminInv'
      BY <1>2, <1>3, <1>6, <2>2, IoFrame
    <2>4. Counted'
      BY <1>1, <1>2, <1>6, CountedStill
    <2>5. sq_known[qid] # "ready"
      BY <1>1, <1>6, <2>1 DEF AdminInv, AdminOf, SqTables
    <2>6. "doorbell" \in races
      BY <1>1, <1>6, <2>1, <2>5 DEF Settled
    <2>7. Settled'
      BY <1>2, <2>6 DEF Settled
    <2> QED
      BY <2>3, <2>4, <2>7 DEF CtlInv
  <1>7. EndIoSq \/ EndIoCq => old_dbs' = old_dbs /\ dpc' # "oops_stat"
    BY DEF EndIoSq, EndIoCq, adminVars
  <1> QED
    BY <1>4, <1>5, <1>6, <1>7 DEF ProcIoCq, NextCq

(* Steps of a worker or of the host that only count I/O commands.          *)
LEMMA IoCountFrame ==
  ASSUME CtlInv, UNCHANGED <<regVars, dpc, qid, old_dbs, sqes, cqes, nr_sq, nr_cq, sq_mem, cq_mem,
                             adm, hostVars, races>>,
         dbs' \in Doorbells, dbs'.sq[0] = dbs.sq[0],
         \A q \in Qid : io[q] = NoIo /\ sqes[q] = NULL => io'[q] = NoIo,
         io' \in [Qid -> Counts]
  PROVE  /\ RegInv' /\ QueueType' /\ AdminType' /\ HostType'
         /\ GrantOf' /\ AdminInv'
  <1>1. /\ RegInv /\ QueueType /\ AdminType /\ HostType
        /\ GrantOf /\ AdminInv
    BY DEF CtlInv
  <1>2. /\ UNCHANGED <<hpc, out, issued, tail, head, hphase, isr, granted, sq_known, cq_known>>
        /\ UNCHANGED <<bar, old_bar, admin_q, races>>
    BY DEF hostVars, regVars
  <1>3. hpc \in Early => out' = <<>>
    BY <1>1, <1>2 DEF RegInv, Regs
  <1>4. QueueStays /\ PlaceStays
    BY <1>2 DEF QueueStays, PlaceStays
  <1>5. dpc' \in {"aqa", "asq", "acq", "cc", "shn", "cc_copy", "dbs", "admin_req", "admin_cq",
                  "io_sq", "io_cq", "oops_register", "oops_stat"}
    BY <1>1 DEF RegInv, RegType
  <1>6. RegInv'
    BY <1>1, <1>2, <1>3, <1>4, <1>5, RegistersUntouched
  <1>7. AdminInv' /\ GrantOf'
    BY <1>1, <1>2, <1>4, AdminStill
  <1>8. QueueType' /\ AdminType' /\ HostType'
    BY <1>1, <1>2 DEF QueueType, AdminType, HostType
  <1> QED
    BY <1>6, <1>7, <1>8

LEMMA WorkerStep ==
  ASSUME CtlInv, NEW q \in Qid, WorkerCompletes(q)
  PROVE  CtlInv'
  <1>1. /\ QueueType /\ HostType /\ Counted /\ Settled
    BY DEF CtlInv
  <1>2. /\ UNCHANGED <<regVars, dpc, qid, old_dbs, sqes, cqes, nr_sq, nr_cq, sq_mem, cq_mem,
                        adm, hostVars, races>>
        /\ UNCHANGED <<dbs, sq_known>>
        /\ io[q].completed < io[q].fetched /\ io' = [io EXCEPT ![q].completed = @ + 1]
    BY DEF WorkerCompletes, adminVars, hostVars
  <1>3. io[q] \in Counts
    BY <1>1 DEF HostType
  <1>4. /\ io' \in [Qid -> Counts]
        /\ io'[q].posted = io[q].posted /\ io'[q].fetched = io[q].fetched
        /\ io'[q].reaped = io[q].reaped /\ io'[q].completed = io[q].completed + 1
        /\ \A p \in Qid : p # q => io'[p] = io[p]
    <2> DEFINE r == [io[q] EXCEPT !.completed = @ + 1]
    <2>1. /\ r \in Counts /\ r.completed = io[q].completed + 1
          /\ r.posted = io[q].posted /\ r.fetched = io[q].fetched /\ r.reaped = io[q].reaped
      BY <1>3 DEF Counts
    <2>2. io' = [io EXCEPT ![q] = r]
      BY <1>1, <1>2 DEF HostType
    <2> HIDE DEF r
    <2> QED
      BY <1>1, <2>1, <2>2 DEF HostType
  <1>5. io[q] # NoIo
    BY <1>2 DEF NoIo
  <1>6. \A p \in Qid : io[p] = NoIo /\ sqes[p] = NULL => io'[p] = NoIo
    BY <1>4, <1>5
  <1>7. dbs' \in Doorbells
    BY <1>1, <1>2 DEF QueueType
  <1>8. RegInv' /\ QueueType' /\ AdminType' /\ HostType' /\ GrantOf' /\ AdminInv'
    BY <1>2, <1>4, <1>6, <1>7, IoCountFrame
  <1>9. Counted'
    <2>1. io[q].completed \in Nat /\ io[q].fetched \in Nat /\ io[q].reaped \in Nat
      BY <1>3 DEF Counts
    <2>2. /\ io'[q].reaped <= io'[q].completed /\ io'[q].completed <= io'[q].fetched
      BY <1>1, <1>2, <1>4, <2>1 DEF Counted
    <2> QED
      BY <1>1, <1>2, <1>4, <2>2 DEF Counted
  <1>10. Settled'
    BY <1>1, <1>2, SettledStill
  <1> QED
    BY <1>8, <1>9, <1>10 DEF CtlInv

LEMMA HostIoStep ==
  ASSUME CtlInv, NEW q \in Qid, HostIo(q)
  PROVE  CtlInv'
  <1>1. /\ QueueType /\ HostType /\ AdminInv /\ Counted /\ Settled
    BY DEF CtlInv
  <1>2. /\ UNCHANGED <<regVars, dpc, qid, old_dbs, sqes, cqes, nr_sq, nr_cq, sq_mem, cq_mem,
                        adm, hostVars, races>>
        /\ UNCHANGED sq_known
        /\ sq_known[q] = "ready" /\ io[q].posted - io[q].reaped < IoDepth - 1
        /\ io' = [io EXCEPT ![q].posted = @ + 1]
        /\ dbs' = [dbs EXCEPT !.sq[q] = (io[q].posted + 1) % IoDepth]
    BY DEF HostIo, devVars, hostVars, regVars
  <1>3. io[q] \in Counts
    BY <1>1 DEF HostType
  <1>4. /\ io' \in [Qid -> Counts]
        /\ io'[q].posted = io[q].posted + 1 /\ io'[q].fetched = io[q].fetched
        /\ io'[q].reaped = io[q].reaped /\ io'[q].completed = io[q].completed
        /\ \A p \in Qid : p # q => io'[p] = io[p]
    <2> DEFINE r == [io[q] EXCEPT !.posted = @ + 1]
    <2>1. /\ r \in Counts /\ r.posted = io[q].posted + 1
          /\ r.fetched = io[q].fetched /\ r.completed = io[q].completed /\ r.reaped = io[q].reaped
      BY <1>3 DEF Counts
    <2>2. io' = [io EXCEPT ![q] = r]
      BY <1>1, <1>2 DEF HostType
    <2> HIDE DEF r
    <2> QED
      BY <1>1, <2>1, <2>2 DEF HostType
  <1>5. sqes[q] # NULL
    BY <1>1, <1>2 DEF AdminInv, AdminOf, SqTables
  <1>6. \A p \in Qid : io[p] = NoIo /\ sqes[p] = NULL => io'[p] = NoIo
    BY <1>4, <1>5
  <1>7. /\ dbs' \in Doorbells /\ dbs'.cq = dbs.cq
        /\ dbs'.sq[q] = (io[q].posted + 1) % IoDepth
        /\ \A p \in {0} \union Qid : p # q => dbs'.sq[p] = dbs.sq[p]
    <2> DEFINE v == (io[q].posted + 1) % IoDepth
    <2>1. v \in Nat
      BY <1>3, QueueAssumption DEF Counts
    <2>2. q \in {0} \union Qid /\ dbs \in Doorbells
      BY <1>1 DEF QueueType
    <2>3. dbs' = [dbs EXCEPT !.sq[q] = v]
      BY <1>2
    <2> HIDE DEF v
    <2>4. /\ dbs' \in Doorbells /\ dbs'.cq = dbs.cq /\ dbs'.sq[q] = v
          /\ \A p \in {0} \union Qid : p # q => dbs'.sq[p] = dbs.sq[p]
      BY <2>1, <2>2, <2>3, RingsSq
    <2> QED
      BY <2>4 DEF v
  <1>8. dbs'.sq[0] = dbs.sq[0]
    BY <1>7, QueueAssumption DEF Qid
  <1>9. RegInv' /\ QueueType' /\ AdminType' /\ HostType' /\ GrantOf' /\ AdminInv'
    BY <1>2, <1>4, <1>6, <1>7, <1>8, IoCountFrame
  <1>10. Counted'
    <2>1. io[q].posted \in Nat /\ io[q].fetched \in Nat /\ io[q].reaped \in Nat
      BY <1>3 DEF Counts
    <2>2. /\ io'[q].reaped <= io'[q].completed /\ io'[q].completed <= io'[q].fetched
          /\ io'[q].fetched <= io'[q].posted
          /\ io'[q].posted - io'[q].reaped <= IoDepth - 1
          /\ dbs'.sq[q] = io'[q].posted % IoDepth
          /\ old_dbs'.sq[q] = io'[q].fetched % IoDepth
      <3>1. /\ io[q].reaped <= io[q].completed /\ io[q].completed <= io[q].fetched
            /\ io[q].fetched <= io[q].posted
        BY <1>1 DEF Counted
      <3>2. io[q].fetched <= io[q].posted + 1 /\ io[q].posted + 1 - io[q].reaped <= IoDepth - 1
        BY <1>2, <2>1, <3>1, QueueAssumption
      <3>3. dbs'.sq[q] = io'[q].posted % IoDepth /\ old_dbs'.sq[q] = io'[q].fetched % IoDepth
        BY <1>1, <1>2, <1>4, <1>5, <1>7 DEF Counted
      <3>4. /\ io'[q].reaped <= io'[q].completed /\ io'[q].completed <= io'[q].fetched
            /\ io'[q].fetched <= io'[q].posted
            /\ io'[q].posted - io'[q].reaped <= IoDepth - 1
        BY <1>4, <2>1, <3>1, <3>2, QueueAssumption
      <3> QED
        BY <3>3, <3>4
    <2>3. ASSUME NEW p \in Qid, p # q
          PROVE  io'[p] = io[p] /\ old_dbs'.sq[p] = old_dbs.sq[p] /\ dbs'.sq[p] = dbs.sq[p]
                 /\ sqes' = sqes
      BY <1>2, <1>4, <1>7, <2>3
    <2> SUFFICES ASSUME NEW p \in Qid
                 PROVE  /\ io'[p].reaped <= io'[p].completed /\ io'[p].completed <= io'[p].fetched
                        /\ io'[p].fetched <= io'[p].posted
                        /\ io'[p].posted - io'[p].reaped <= IoDepth - 1
                        /\ sqes'[p] # NULL =>
                             /\ dbs'.sq[p] = io'[p].posted % IoDepth
                             /\ old_dbs'.sq[p] = io'[p].fetched % IoDepth
      BY DEF Counted
    <2>4. CASE p = q
      BY <2>2, <2>4
    <2>5. CASE p # q
      BY <1>1, <2>3, <2>5 DEF Counted
    <2> QED
      BY <2>4, <2>5
  <1>11. Settled'
    BY <1>1, <1>2, <1>7, SettledStill
  <1> QED
    BY <1>9, <1>10, <1>11 DEF CtlInv

LEMMA HostReapsStep ==
  ASSUME CtlInv, NEW q \in Qid, HostReaps(q)
  PROVE  CtlInv'
  <1>1. /\ QueueType /\ HostType /\ AdminInv /\ Counted /\ Settled
    BY DEF CtlInv
  <1>2. /\ UNCHANGED <<regVars, dpc, qid, old_dbs, sqes, cqes, nr_sq, nr_cq, sq_mem, cq_mem,
                        adm, hostVars, races>>
        /\ UNCHANGED sq_known
        /\ sq_known[q] = "ready" /\ io[q].reaped < io[q].completed
        /\ io' = [io EXCEPT ![q].reaped = @ + 1]
        /\ dbs' = [dbs EXCEPT !.cq[q] = (@ + 1) % IoDepth]
    BY DEF HostReaps, devVars, hostVars, regVars
  <1>3. io[q] \in Counts
    BY <1>1 DEF HostType
  <1>4. /\ io' \in [Qid -> Counts]
        /\ io'[q].posted = io[q].posted /\ io'[q].fetched = io[q].fetched
        /\ io'[q].reaped = io[q].reaped + 1 /\ io'[q].completed = io[q].completed
        /\ \A p \in Qid : p # q => io'[p] = io[p]
    <2> DEFINE r == [io[q] EXCEPT !.reaped = @ + 1]
    <2>1. /\ r \in Counts /\ r.reaped = io[q].reaped + 1
          /\ r.posted = io[q].posted /\ r.fetched = io[q].fetched /\ r.completed = io[q].completed
      BY <1>3 DEF Counts
    <2>2. io' = [io EXCEPT ![q] = r]
      BY <1>1, <1>2 DEF HostType
    <2> HIDE DEF r
    <2> QED
      BY <1>1, <2>1, <2>2 DEF HostType
  <1>5. sqes[q] # NULL
    BY <1>1, <1>2 DEF AdminInv, AdminOf, SqTables
  <1>6. \A p \in Qid : io[p] = NoIo /\ sqes[p] = NULL => io'[p] = NoIo
    BY <1>4, <1>5
  <1>7. /\ dbs' \in Doorbells /\ dbs'.sq = dbs.sq
        /\ \A p \in {0} \union Qid : p # q => dbs'.cq[p] = dbs.cq[p]
    <2> DEFINE v == (dbs.cq[q] + 1) % IoDepth
    <2>1. dbs.cq[q] \in Nat
      BY <1>1 DEF QueueType, Doorbells
    <2>2. v \in Nat
      BY <2>1, QueueAssumption
    <2>3. q \in {0} \union Qid /\ dbs \in Doorbells
      BY <1>1 DEF QueueType
    <2>4. dbs' = [dbs EXCEPT !.cq[q] = v]
      BY <1>2
    <2> HIDE DEF v
    <2> QED
      BY <2>2, <2>3, <2>4, RingsCq
  <1>8. RegInv' /\ QueueType' /\ AdminType' /\ HostType' /\ GrantOf' /\ AdminInv'
    <2>1. dbs'.sq[0] = dbs.sq[0]
      BY <1>7
    <2> QED
      BY <1>2, <1>4, <1>6, <1>7, <2>1, IoCountFrame
  <1>9. Counted'
    <2>1. io[q].posted \in Nat /\ io[q].completed \in Nat /\ io[q].reaped \in Nat
          /\ io[q].fetched \in Nat
      BY <1>3 DEF Counts
    <2>2. /\ io'[q].reaped <= io'[q].completed /\ io'[q].completed <= io'[q].fetched
          /\ io'[q].fetched <= io'[q].posted
          /\ io'[q].posted - io'[q].reaped <= IoDepth - 1
      <3>1. /\ io[q].reaped + 1 <= io[q].completed /\ io[q].completed <= io[q].fetched
            /\ io[q].fetched <= io[q].posted
            /\ io[q].posted - (io[q].reaped + 1) <= IoDepth - 1
        BY <1>1, <1>2, <2>1, QueueAssumption DEF Counted
      <3> QED
        BY <1>4, <3>1
    <2> SUFFICES ASSUME NEW p \in Qid
                 PROVE  /\ io'[p].reaped <= io'[p].completed /\ io'[p].completed <= io'[p].fetched
                        /\ io'[p].fetched <= io'[p].posted
                        /\ io'[p].posted - io'[p].reaped <= IoDepth - 1
                        /\ sqes'[p] # NULL =>
                             /\ dbs'.sq[p] = io'[p].posted % IoDepth
                             /\ old_dbs'.sq[p] = io'[p].fetched % IoDepth
      BY DEF Counted
    <2>3. sqes'[p] # NULL => /\ dbs'.sq[p] = io'[p].posted % IoDepth
                             /\ old_dbs'.sq[p] = io'[p].fetched % IoDepth
      <3>1. io'[p].posted = io[p].posted /\ io'[p].fetched = io[p].fetched
        BY <1>4
      <3> QED
        BY <1>1, <1>2, <1>7, <3>1 DEF Counted
    <2>4. CASE p = q
      BY <2>2, <2>3, <2>4
    <2>5. CASE p # q
      BY <1>1, <1>4, <2>3, <2>5 DEF Counted
    <2> QED
      BY <2>4, <2>5
  <1>10. Settled'
    <2>1. ASSUME "doorbell" \notin races, NEW p \in Qid, sq_known[p] # "ready"
          PROVE  dbs'.cq[p] = old_dbs.cq[p]
      <3>1. p # q
        BY <1>2, <2>1
      <3> QED
        BY <1>1, <1>7, <2>1, <3>1 DEF Settled
    <2> QED
      BY <1>1, <1>2, <2>1 DEF Settled
  <1> QED
    BY <1>8, <1>9, <1>10 DEF CtlInv

LEMMA HostRegisterSteps ==
  ASSUME CtlInv, HostSetUp \/ HostSeesReady \/ HostStops \/ HostSeesStopped
  PROVE  CtlInv'
  <1>1. /\ RegInv /\ QueueType /\ AdminType /\ HostType
        /\ GrantOf /\ AdminInv /\ Counted /\ Settled
    BY DEF CtlInv
  <1>2. /\ UNCHANGED <<admin_q, dpc, dbs, old_dbs, sqes, cqes, nr_sq, nr_cq, sq_mem, cq_mem, adm>>
        /\ UNCHANGED <<qid, io, out, issued, tail, head, hphase, isr, granted, sq_known, cq_known>>
        /\ "doorbell" \notin races' => "doorbell" \notin races
    BY DEF HostSetUp, HostSeesReady, HostStops, HostSeesStopped, devVars, hostRest, Race
  <1>3. RegInv'
    BY <1>1, HostKeepsRegisters
  <1>4. PlaceStays
    BY <1>2 DEF PlaceStays
  <1>5. AdminInv' /\ GrantOf'
    BY <1>1, <1>2, <1>4, AdminStill
  <1>6. QueueType' /\ AdminType' /\ HostType'
    BY <1>1, <1>2 DEF QueueType, AdminType, HostType
  <1>7. Counted' /\ Settled'
    BY <1>1, <1>2, CountedStill, SettledStill
  <1> QED
    BY <1>3, <1>5, <1>6, <1>7 DEF CtlInv

LEMMA InterruptSteps ==
  ASSUME CtlInv, IsrStart \/ IsrEnd
  PROVE  CtlInv'
  <1>1. /\ QueueType /\ HostType /\ Counted /\ Settled
    BY DEF CtlInv
  <1>2. /\ UNCHANGED <<regVars, dpc, dbs, old_dbs, sqes, cqes, nr_sq, nr_cq, sq_mem, cq_mem, adm>>
        /\ UNCHANGED <<bar, old_bar, admin_q, hpc>>
        /\ UNCHANGED <<qid, io, out, issued, tail, head, hphase, granted, sq_known, cq_known, races>>
    BY DEF IsrStart, IsrEnd, devVars, regVars
  <1>3. /\ RegInv /\ AdminInv /\ GrantOf /\ AdminType
    BY DEF CtlInv
  <1>4. PlaceStays /\ QueueStays
    BY <1>2 DEF PlaceStays, QueueStays
  <1>5. AdminInv' /\ GrantOf'
    BY <1>1, <1>2, <1>3, <1>4, AdminStill
  <1>6. RegInv'
    BY <1>2, <1>3 DEF RegInv, RegType, Regs, Registered, InTurn
  <1>7. QueueType' /\ AdminType' /\ HostType'
    BY <1>1, <1>2, <1>3 DEF QueueType, AdminType, HostType
  <1>8. Counted' /\ Settled'
    BY <1>1, <1>2, CountedStill, SettledStill
  <1> QED
    BY <1>5, <1>6, <1>7, <1>8 DEF CtlInv

LEMMA IsrTakeStep ==
  ASSUME CtlInv, IsrTake
  PROVE  CtlInv'
  <1>1. /\ RegInv /\ QueueType /\ AdminType /\ HostType
        /\ GrantOf /\ AdminInv /\ Counted /\ Settled
    BY DEF CtlInv
  <1>2. PICK a \in Nat, b \in Slot : AdminOf(a, b)
    BY <1>1 DEF AdminInv
  <1>3. /\ UNCHANGED <<bar, old_bar, admin_q, dpc, old_dbs, sqes, cqes, nr_sq, nr_cq, cq_mem, adm>>
        /\ UNCHANGED <<hpc, issued, tail, qid, io, races>>
        /\ dbs' = [dbs EXCEPT !.cq[0] = (head + 1) % AdminCqDepth]
    BY DEF IsrTake, devVars
  <1>4. /\ a - 1 \in Nat /\ SqAt(b, 2) \in Slot
        /\ RingOf(a - 1, SqAt(b, 2))' /\ AdminType'
        /\ out' = Tail(out) /\ out # <<>>
    BY <1>1, <1>2, RingTake, AnswerInOrder DEF IsrTake
  <1>5. AnswersOf(a - 1, SqAt(b, 2))' /\ head' \in CqSlot /\ hphase' \in {0, 1}
    BY <1>1, <1>2, AnswersTake
  <1>6. /\ CqTables(a - 1)' /\ SqTables(a - 1)' /\ GrantOf'
        /\ granted' \in 0 .. NR_MAX_IO_QUEUE
        /\ sq_known' \in [Qid -> Known] /\ cq_known' \in [Qid -> Known]
        /\ \A q \in Qid : sq_known'[q] # sq_known[q] => sq_known[q] = "asked"
    BY <1>1, <1>2, TablesTake
  <1>7. AdminInv'
    <2> DEFINE a1 == a - 1
               b1 == SqAt(b, 2)
    <2>1. a1 \in Nat /\ b1 \in Slot /\ AdminOf(a1, b1)'
      BY <1>4, <1>5, <1>6 DEF AdminOf
    <2> HIDE DEF a1, b1
    <2> QED
      BY <2>1 DEF AdminInv
  <1>8. dbs' \in Doorbells /\ dbs'.sq = dbs.sq
        /\ \A p \in {0} \union Qid : p # 0 => dbs'.cq[p] = dbs.cq[p]
    <2> DEFINE v == (head + 1) % AdminCqDepth
    <2>1. v \in Nat
      BY <1>1, AdminAssumption DEF HostType, CqSlot
    <2>2. 0 \in {0} \union Qid /\ dbs \in Doorbells /\ dbs' = [dbs EXCEPT !.cq[0] = v]
      BY <1>1, <1>3 DEF QueueType
    <2> HIDE DEF v
    <2> QED
      BY <2>1, <2>2, RingsCq
  <1>9. \A q \in Qid : q # 0 /\ q \in {0} \union Qid
    BY QueueAssumption DEF Qid
  <1>10. RegInv'
    <2>1. hpc \in Early => out' = <<>>
      BY <1>1, <1>4 DEF RegInv, Regs
    <2>2. QueueStays
      BY <1>3 DEF QueueStays
    <2>3. dpc' \in {"aqa", "asq", "acq", "cc", "shn", "cc_copy", "dbs", "admin_req", "admin_cq",
                    "io_sq", "io_cq", "oops_register", "oops_stat"}
      BY <1>1, <1>3 DEF RegInv, RegType
    <2> QED
      BY <1>1, <1>3, <2>1, <2>2, <2>3, RegistersUntouched
  <1>11. QueueType'
    BY <1>1, <1>3, <1>8 DEF QueueType
  <1>12. HostType'
    <2>1. out' \in Seq(Request)
      BY <1>1, <1>4 DEF HostType
    <2> QED
      BY <1>1, <1>3, <1>5, <1>6, <2>1 DEF HostType
  <1>13. Counted'
    BY <1>1, <1>3, <1>8, CountedStill
  <1>14. Settled'
    BY <1>1, <1>3, <1>6, <1>8, <1>9, SettledStill
  <1> QED
    BY <1>4, <1>6, <1>7, <1>10, <1>11, <1>12, <1>13, <1>14 DEF CtlInv

LEMMA HostCommandStep ==
  ASSUME CtlInv, NEW op \in AdminOp, NEW arg \in Nat, HostCommand(op, arg)
  PROVE  CtlInv'
  <1>1. /\ RegInv /\ QueueType /\ AdminType /\ HostType
        /\ GrantOf /\ AdminInv /\ Counted /\ Settled
    BY DEF CtlInv
  <1>2. PICK a \in Nat, b \in Slot : AdminOf(a, b)
    BY <1>1 DEF AdminInv
  <1>3. /\ UNCHANGED <<bar, old_bar, admin_q, dpc, old_dbs, sqes, cqes, nr_sq, nr_cq, cq_mem, adm>>
        /\ UNCHANGED <<hpc, head, hphase, granted, qid>>
        /\ hpc = "ready" /\ issued' = issued + 1
        /\ Race("doorbell", op = "delete_sq" /\ dbs.cq[arg] # old_dbs.cq[arg])
    BY DEF HostCommand, devVars
  <1>4. /\ RingOf(a, b)' /\ AdminType'
        /\ out' \in Seq(Request)
        /\ tail' \in Slot /\ dbs' \in Doorbells /\ dbs'.cq = dbs.cq
        /\ \A q \in Qid : dbs'.sq[q] = dbs.sq[q]
    BY <1>1, <1>2, RingCommand
  <1>5. AnswersOf(a, b)'
    BY <1>1, <1>2, AnswersCommand
  <1>6. /\ CqTables(a)' /\ SqTables(a)' /\ GrantOf'
        /\ sq_known' \in [Qid -> Known] /\ cq_known' \in [Qid -> Known]
        /\ io' = (IF op = "create_sq" THEN [io EXCEPT ![arg] = NoIo] ELSE io)
        /\ op \in {"create_sq", "delete_sq"} => arg \in Qid
        /\ op = "create_sq" => sqes[arg] = NULL /\ sq_known[arg] = "none"
        /\ \A q \in Qid : sq_known'[q] # sq_known[q] =>
             q = arg /\ op \in {"create_sq", "delete_sq"} /\ sq_known'[q] = "asked"
    BY <1>1, <1>2, TablesCommand
  <1>7. AdminInv'
    <2>1. AdminOf(a, b)'
      BY <1>4, <1>5, <1>6 DEF AdminOf
    <2> QED
      BY <2>1 DEF AdminInv
  <1>8. "register" \in races' <=> "register" \in races
    BY <1>3 DEF Race
  <1>9. RegInv'
    <2>1. hpc \in Early => out' = <<>>
      BY <1>3 DEF Early
    <2>2. QueueStays
      BY <1>3 DEF QueueStays
    <2>3. dpc' \in {"aqa", "asq", "acq", "cc", "shn", "cc_copy", "dbs", "admin_req", "admin_cq",
                    "io_sq", "io_cq", "oops_register", "oops_stat"}
      BY <1>1, <1>3 DEF RegInv, RegType
    <2> QED
      BY <1>1, <1>3, <1>8, <2>1, <2>2, <2>3, RegistersUntouched
  <1>10. QueueType'
    BY <1>1, <1>3, <1>4 DEF QueueType
  <1>11. io' \in [Qid -> Counts]
    <2>1. NoIo \in Counts
      BY DEF NoIo, Counts
    <2> QED
      BY <1>1, <1>6, <2>1 DEF HostType
  <1>12. HostType'
    BY <1>1, <1>3, <1>4, <1>6, <1>11 DEF HostType
  <1>13. Counted'
    <2>1. CASE op = "create_sq"
      <3>1. io' = [io EXCEPT ![arg] = NoIo] /\ arg \in Qid /\ sqes[arg] = NULL
        BY <1>6, <2>1
      <3>2. io'[arg] = NoIo /\ \A q \in Qid : q # arg => io'[q] = io[q]
        BY <1>1, <3>1 DEF HostType
      <3>3. /\ NoIo.reaped <= NoIo.completed /\ NoIo.completed <= NoIo.fetched
            /\ NoIo.fetched <= NoIo.posted /\ NoIo.posted - NoIo.reaped <= IoDepth - 1
        BY QueueAssumption DEF NoIo
      <3> SUFFICES ASSUME NEW q \in Qid
                   PROVE  /\ io'[q].reaped <= io'[q].completed /\ io'[q].completed <= io'[q].fetched
                          /\ io'[q].fetched <= io'[q].posted
                          /\ io'[q].posted - io'[q].reaped <= IoDepth - 1
                          /\ sqes'[q] # NULL =>
                               /\ dbs'.sq[q] = io'[q].posted % IoDepth
                               /\ old_dbs'.sq[q] = io'[q].fetched % IoDepth
        BY DEF Counted
      <3>4. CASE q = arg
        BY <1>3, <3>1, <3>2, <3>3, <3>4
      <3>5. CASE q # arg
        BY <1>1, <1>3, <1>4, <3>2, <3>5 DEF Counted
      <3> QED
        BY <3>4, <3>5
    <2>2. CASE op # "create_sq"
      BY <1>1, <1>3, <1>4, <1>6, <2>2, CountedStill
    <2> QED
      BY <2>1, <2>2
  <1>14. Settled'
    <2>1. "doorbell" \notin races' =>
            "doorbell" \notin races /\ (op = "delete_sq" => dbs.cq[arg] = old_dbs.cq[arg])
      BY <1>3 DEF Race
    <2>2. ASSUME "doorbell" \notin races', NEW q \in Qid, sq_known'[q] # "ready"
          PROVE  dbs'.cq[q] = old_dbs'.cq[q]
      <3>1. CASE sq_known[q] # "ready"
        BY <1>1, <1>3, <1>4, <2>1, <2>2, <3>1 DEF Settled
      <3>2. CASE sq_known[q] = "ready"
        <4>1. q = arg /\ op \in {"create_sq", "delete_sq"}
          BY <1>6, <2>2, <3>2
        <4>2. op = "delete_sq"
          BY <1>6, <3>2, <4>1
        <4> QED
          BY <1>3, <1>4, <2>1, <2>2, <4>1, <4>2
      <3> QED
        BY <3>1, <3>2
    <2>3. "doorbell" \notin races' => dpc' # "oops_stat"
      BY <1>1, <1>3, <2>1 DEF Settled
    <2> QED
      BY <2>2, <2>3 DEF Settled
  <1> QED
    BY <1>4, <1>6, <1>7, <1>9, <1>10, <1>12, <1>13, <1>14 DEF CtlInv

-----------------------------------------------------------------------------
(* The invariant *)

LEMMA InitHolds == Init => CtlInv
  <1> SUFFICES ASSUME Init PROVE CtlInv
    OBVIOUS
  <1> USE DEF Init, BarsInit, AdminInit
  <1>1. RegType
    BY DEF RegType, Bar, OldBar, Cc, CcReset, Early
  <1>2. Regs /\ Registered /\ InTurn
    BY DEF Regs, Registered, InTurn, CcReset, Early
  <1>3. 0 \in Slot /\ 0 \in CqSlot /\ 0 \in 0 .. NR_MAX_IO_QUEUE /\ 0 \in 0 .. AdminSqDepth - 1
    BY AdminAssumption, QueueAssumption DEF Slot, CqSlot
  <1>4. QueueType
    <2>1. ZeroDoorbells \in Doorbells
      BY DEF ZeroDoorbells, Doorbells
    <2> QED
      BY <1>3, <2>1 DEF QueueType
  <1>5. AdminType
    <2>1. NoCommand \in Request
      BY DEF NoCommand, Request, AdminOp
    <2>2. [command_id |-> 0, sq_head |-> 0, status |-> "SUCCESS", phase |-> 0, result |-> 0] \in Entry
      BY <1>3 DEF Entry, Status
    <2> QED
      BY <1>3, <2>1, <2>2 DEF AdminType, CqSlot
  <1>6. HostType
    BY <1>3 DEF HostType, Known, NoIo, Counts
  <1>7. GrantOf
    BY DEF GrantOf
  <1>8. \A q \in Qid : q # 0 /\ q \in {0} \union Qid
    BY QueueAssumption DEF Qid
  <1>9. Counted
    <2>1. \A q \in Qid : io[q] = NoIo /\ sqes[q] = NULL
      OBVIOUS
    <2>2. /\ NoIo.reaped <= NoIo.completed /\ NoIo.completed <= NoIo.fetched
          /\ NoIo.fetched <= NoIo.posted /\ NoIo.posted - NoIo.reaped <= IoDepth - 1
      BY QueueAssumption DEF NoIo
    <2> QED
      BY <2>1, <2>2 DEF Counted
  <1>10. Settled
    BY <1>8 DEF Settled, ZeroDoorbells
  <1>11. AdminOf(0, 0)
    <2>1. SqAt(0, 1) = 0 /\ SqAt(0, 0 + 1) = 0
      BY AdminAssumption DEF SqAt, At
    <2>2. Len(out) = 0
      OBVIOUS
    <2>3. RingOf(0, 0)
      BY <2>1, <2>2, AdminAssumption DEF RingOf, Taker, ZeroDoorbells
    <2>4. AnswersOf(0, 0)
      <3>1. ASSUME NEW i \in 1 .. AdminCqDepth
            PROVE  cq_mem[CqAt(i)].phase = 1 - PhaseAt(i)
        <4>1. CqAt(i) \in 0 .. AdminCqDepth - 1 /\ PhaseAt(i) = 1
          BY AdminAssumption DEF CqAt, At, PhaseAt
        <4> QED
          BY <4>1
      <3>2. admin_q = NULL /\ out = <<>> /\ head = 0 /\ hphase = 1 /\ 1 .. 0 = {}
        OBVIOUS
      <3> QED
        BY <3>1, <3>2 DEF AnswersOf
    <2>5. CqTables(0) /\ SqTables(0)
      BY <2>2 DEF CqTables, SqTables
    <2> QED
      BY <2>3, <2>4, <2>5 DEF AdminOf
  <1>12. AdminInv
    BY <1>3, <1>11 DEF AdminInv
  <1> QED
    BY <1>1, <1>2, <1>4, <1>5, <1>6, <1>7, <1>9, <1>10, <1>12 DEF CtlInv, RegInv

LEMMA StepKeeps == CtlInv /\ [Next]_vars => CtlInv'
  <1> SUFFICES ASSUME CtlInv, [Next]_vars PROVE CtlInv'
    OBVIOUS
  <1>1. CASE nvmev_proc_bars /\ UNCHANGED <<adminVars, qid, hostVars, io, races>>
    BY <1>1, BarsStep
  <1>2. CASE (nvmev_proc_admin_sq \/ AdminCqDoorbell) /\ UNCHANGED <<qid, hostVars, io, races>>
    <2>1. CASE StartAdminSq \/ EndAdminSq \/ OopsNoAdminQueue \/ AdminCqDoorbell
      BY <1>2, <2>1, AdminQueueSteps
    <2>2. CASE \/ Report \/ LeaveGap \/ set_features
               \/ create_cq \/ create_sq \/ delete_cq \/ delete_sq
      BY <1>2, <2>2, TurnStep
    <2> QED
      BY <1>2, <2>1, <2>2 DEF nvmev_proc_admin_sq
  <1>3. CASE ProcIoSq
    BY <1>3, ProcIoSqStep
  <1>4. CASE EndIoSq \/ ProcIoCq \/ EndIoCq
    BY <1>4, IoLoopSteps
  <1>5. CASE HostSetUp \/ HostStops \/ HostSeesReady \/ HostSeesStopped
    BY <1>5, HostRegisterSteps
  <1>6. CASE IsrStart \/ IsrEnd
    BY <1>6, InterruptSteps
  <1>7. CASE IsrTake
    BY <1>7, IsrTakeStep
  <1>8. ASSUME NEW op \in AdminOp, NEW arg \in 0 .. AskQueues, HostCommand(op, arg)
        PROVE  CtlInv'
    <2>1. arg \in Nat
      BY HostAssumption
    <2> QED
      BY <1>8, <2>1, HostCommandStep
  <1>9. ASSUME NEW q \in Qid, HostIo(q) \/ HostReaps(q) \/ WorkerCompletes(q)
        PROVE  CtlInv'
    BY <1>9, HostIoStep, HostReapsStep, WorkerStep
  <1>10. CASE UNCHANGED vars
    <2>1. /\ RegInv /\ QueueType /\ AdminType /\ HostType
          /\ GrantOf /\ AdminInv /\ Counted /\ Settled
      BY DEF CtlInv
    <2>2. /\ UNCHANGED <<bar, old_bar, admin_q, dpc, dbs, old_dbs, sqes, cqes, nr_sq, nr_cq>>
          /\ UNCHANGED <<sq_mem, cq_mem, adm, qid, hpc, out, issued, tail, head, hphase>>
          /\ UNCHANGED <<granted, sq_known, cq_known, io, races>>
      BY <1>10 DEF vars
    <2>3. RegInv'
      BY <2>1, <2>2 DEF RegInv, RegType, Regs, Registered, InTurn
    <2>4. QueueType' /\ AdminType' /\ HostType'
      BY <2>1, <2>2 DEF QueueType, AdminType, HostType
    <2>5. PlaceStays
      BY <2>2 DEF PlaceStays
    <2>6. AdminInv' /\ GrantOf'
      BY <2>1, <2>2, <2>5, AdminStill
    <2>7. Counted' /\ Settled'
      BY <2>1, <2>2, CountedStill, SettledStill
    <2> QED
      BY <2>3, <2>4, <2>6, <2>7 DEF CtlInv
  <1> QED
    BY <1>1, <1>2, <1>3, <1>4, <1>5, <1>6, <1>7, <1>8, <1>9, <1>10
       DEF Next, nvmev_dispatcher, Host, HostWaits

(* The invariant holds in every reachable state.                           *)
THEOREM ControllerInvariant == Spec => []CtlInv
  BY InitHolds, StepKeeps, PTL DEF Spec

-----------------------------------------------------------------------------
(* The theorems *)

(* The variables keep their types: in particular the dispatcher's place in *)
(* the admin rings stays inside them, and no more queues are polled than    *)
(* the tables hold (admin.c:199-213).                                      *)
THEOREM TypesAreKept == Spec => []TypeOK
  <1>1. CtlInv => TypeOK
    BY DEF CtlInv, RegInv, RegType, QueueType, AdminType, HostType, TypeOK, CqSlot
  <1> QED
    BY <1>1, ControllerInvariant, PTL

(* The dispatcher takes no entry for an I/O command that the host has not  *)
(* put there since it created the queue, at whatever points the queue was   *)
(* deleted and created again (main.c:130, admin.c:120).                    *)
THEOREM NothingFetchedTwice == Spec => []FetchedWerePosted
  <1>1. CtlInv => FetchedWerePosted
    BY DEF CtlInv, Counted, FetchedWerePosted
  <1> QED
    BY <1>1, ControllerInvariant, PTL

(* The tables of I/O queues hold what the host was told of them.           *)
THEOREM TablesAsTold == Spec => []QueuesAsHostSees
  <1>1. CtlInv => QueuesAsHostSees
    <2> SUFFICES ASSUME CtlInv, NEW q \in Qid
                 PROVE  /\ sq_known[q] = "ready" => sqes[q] # NULL /\ q <= nr_sq
                        /\ cq_known[q] = "ready" => cqes[q] # NULL /\ q <= nr_cq
                        /\ sq_known[q] = "none" => sqes[q] = NULL
                        /\ cq_known[q] = "none" => cqes[q] = NULL
                        /\ sqes[q] # NULL => cqes[q] # NULL
      BY DEF QueuesAsHostSees
    <2>1. PICK a \in Nat, b \in Slot : AdminOf(a, b)
      BY DEF CtlInv, AdminInv
    <2>2. CqTables(a) /\ SqTables(a) /\ GrantOf /\ HostType
      BY <2>1 DEF AdminOf, CtlInv
    <2>3. /\ sq_known[q] = "ready" => sqes[q] # NULL
          /\ sq_known[q] = "none" => sqes[q] = NULL
          /\ sq_known[q] # "none" => cq_known[q] = "ready"
      BY <2>2 DEF SqTables
    <2>4. /\ cq_known[q] = "ready" => cqes[q] # NULL
          /\ cq_known[q] = "none" => cqes[q] = NULL
      BY <2>2 DEF CqTables
    <2>5. cq_known[q] # "none" \/ sq_known[q] # "none" => q <= nr_sq /\ q <= nr_cq
      <3>1. cq_known[q] # "none" \/ sq_known[q] # "none" => q <= granted
        BY <2>2 DEF GrantOf
      <3>2. q >= 1 /\ q \in Nat /\ granted \in Nat
        BY <2>2, QueueAssumption DEF Qid, HostType
      <3> QED
        BY <2>2, <3>1, <3>2 DEF GrantOf
    <2> QED
      BY <2>3, <2>4, <2>5
  <1> QED
    BY <1>1, ControllerInvariant, PTL

(* An admin entry that looks new to the host answers its oldest command    *)
(* that is not answered.                                                   *)
THEOREM AnswersInOrder == Spec => []AdminInOrder
  <1>1. CtlInv => AdminInOrder
    <2> SUFFICES ASSUME CtlInv, EntryNew
                 PROVE  /\ out # <<>> /\ cq_mem[head].command_id = Head(out).command_id
                        /\ Head(out).opcode = "set_features" => cq_mem[head].result + 1 \in Qid
      BY DEF AdminInOrder
    <2>1. PICK a \in Nat, b \in Slot : AdminOf(a, b)
      BY DEF CtlInv, AdminInv
    <2>2. HostType /\ AdminType /\ QueueType
      BY DEF CtlInv
    <2>3. /\ out # <<>> /\ Head(out) = out[1]
          /\ cq_mem[head].command_id = out[1].command_id
          /\ out[1].opcode = "set_features" =>
               cq_mem[head].result + 1 = nr_sq /\ nr_cq = nr_sq /\ nr_sq > 0
      BY <2>1, <2>2, AnswerInOrder
    <2>4. nr_sq > 0 => nr_sq \in Qid
      BY <2>2, QueueAssumption DEF QueueType, Qid
    <2> QED
      BY <2>3, <2>4
  <1> QED
    BY <1>1, ControllerInvariant, PTL

(* The dispatcher reads through a null pointer only where the host overtook *)
(* it (pci.c:111 and 125, admin.c, io.c:418).                              *)
THEOREM NullOnlyByRace == Spec => []CrashOnlyByRace
  <1>1. CtlInv => CrashOnlyByRace
    BY DEF CtlInv, RegInv, InTurn, Settled, CrashOnlyByRace
  <1> QED
    BY <1>1, ControllerInvariant, PTL
=============================================================================
