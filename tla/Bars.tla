-------------------------------- MODULE Bars --------------------------------
(***************************************************************************)
(* The controller registers (pci.c).  The host writes them in memory that  *)
(* it shares with the dispatcher; nvmev_proc_bars compares them, one after *)
(* the other, with the copies in old_bar, and acts on those that differ.   *)
(* The host writes one value into each of aqa, asq and acq (it attaches to *)
(* the controller once): these are FALSE, as after the memset, or TRUE.    *)
(* The registers intms, intmc and nssr are copied and never used.          *)
(***************************************************************************)
EXTENDS Integers

CONSTANTS
  AdminSqDepth, AdminCqDepth,   \* aqa.asqs + 1 and aqa.acqs + 1
  NULL

ASSUME AdminAssumption ==
  AdminSqDepth \in Nat \ {0, 1} /\ AdminCqDepth \in Nat \ {0, 1}

VARIABLES
  bar, old_bar,   \* vdev->bar, vdev->old_bar
  admin_q,        \* vdev->admin_q
  dpc             \* control point of the dispatcher

AdminQueue ==
  [phase : {0, 1}, cq_head : 0 .. AdminCqDepth - 1,
   sq_depth : {AdminSqDepth}, cq_depth : {AdminCqDepth},
   nvme_sq : BOOLEAN, nvme_cq : BOOLEAN]

ASSUME NullQueueAssumption == NULL \notin AdminQueue

Cc == [en : {0, 1}, shn : {0, 1}]

Bar == [aqa : BOOLEAN, asq : BOOLEAN, acq : BOOLEAN, cc : Cc,
        csts : [rdy : {0, 1}, shst : {0, 2}]]

OldBar == [aqa : BOOLEAN, asq : BOOLEAN, acq : BOOLEAN, cc : Cc]

CcReset == [en |-> 0, shn |-> 0]

BarsInit ==
  /\ bar = [aqa |-> FALSE, asq |-> FALSE, acq |-> FALSE, cc |-> CcReset,
            csts |-> [rdy |-> 0, shst |-> 0]]
  /\ old_bar = [aqa |-> FALSE, asq |-> FALSE, acq |-> FALSE, cc |-> CcReset]
  /\ admin_q = NULL

-----------------------------------------------------------------------------
(* nvmev_proc_bars, from "aqa" to "cc_copy"; "oops_" stands for the null    *)
(* pointer that the code reads through.                                    *)

PollAqa ==
  /\ dpc = "aqa" /\ dpc' = "asq"
  /\ \/ /\ bar.aqa = old_bar.aqa
        /\ UNCHANGED <<old_bar, admin_q>>
     \/ /\ bar.aqa # old_bar.aqa
        /\ old_bar' = [old_bar EXCEPT !.aqa = bar.aqa]
        /\ admin_q' = [phase |-> 1, cq_head |-> 0,
                       sq_depth |-> AdminSqDepth, cq_depth |-> AdminCqDepth,
                       nvme_sq |-> FALSE, nvme_cq |-> FALSE]
  /\ UNCHANGED bar

PollAsq ==
  /\ dpc = "asq"
  /\ \/ /\ bar.asq = old_bar.asq /\ dpc' = "acq"
        /\ UNCHANGED <<old_bar, admin_q>>
     \/ /\ bar.asq # old_bar.asq
        /\ old_bar' = [old_bar EXCEPT !.asq = bar.asq]
        /\ \/ /\ admin_q # NULL /\ dpc' = "acq"
              /\ admin_q' = [admin_q EXCEPT !.nvme_sq = TRUE]
           \/ /\ admin_q = NULL /\ dpc' = "oops_register"
              /\ UNCHANGED admin_q
  /\ UNCHANGED bar

PollAcq ==
  /\ dpc = "acq"
  /\ \/ /\ bar.acq = old_bar.acq /\ dpc' = "cc"
        /\ UNCHANGED <<old_bar, admin_q>>
     \/ /\ bar.acq # old_bar.acq
        /\ old_bar' = [old_bar EXCEPT !.acq = bar.acq]
        /\ \/ /\ admin_q # NULL /\ dpc' = "cc"
              /\ admin_q' = [admin_q EXCEPT !.nvme_cq = TRUE]
           \/ /\ admin_q = NULL /\ dpc' = "oops_register"
              /\ UNCHANGED admin_q
  /\ UNCHANGED bar

(* Fault: cc counts as handled although there is no admin queue yet. *)
PollEnableOnce ==
  /\ dpc = "cc"
  /\ \/ bar.cc = old_bar.cc /\ dpc' = "dbs" /\ UNCHANGED bar
     \/ /\ bar.cc # old_bar.cc
        /\ bar' = IF admin_q = NULL THEN bar ELSE [bar EXCEPT !.csts.rdy = bar.cc.en]
        /\ dpc' = "shn"
  /\ UNCHANGED <<old_bar, admin_q>>

(* cc is read several times: the host may write it between these steps.    *)
PollEnable ==
  /\ dpc = "cc"
  /\ \/ bar.cc = old_bar.cc /\ dpc' = "dbs" /\ UNCHANGED bar
     \/ /\ bar.cc # old_bar.cc /\ bar.cc.en = 1 /\ admin_q = NULL
        /\ dpc' = "dbs"
        /\ UNCHANGED bar
     \/ /\ bar.cc # old_bar.cc /\ (bar.cc.en = 1 => admin_q # NULL)
        /\ bar' = [bar EXCEPT !.csts.rdy = bar.cc.en]
        /\ dpc' = "shn"
  /\ UNCHANGED <<old_bar, admin_q>>

PollShutdown ==
  /\ dpc = "shn" /\ dpc' = "cc_copy"
  /\ bar' = IF bar.cc.shn = 1 THEN [bar EXCEPT !.csts.shst = 2] ELSE bar
  /\ UNCHANGED <<old_bar, admin_q>>

(* What is in cc now counts as handled. *)
PollCcCopy ==
  /\ dpc = "cc_copy" /\ dpc' = "dbs"
  /\ old_bar' = [old_bar EXCEPT !.cc = bar.cc]
  /\ UNCHANGED <<bar, admin_q>>

nvmev_proc_bars ==
  PollAqa \/ PollAsq \/ PollAcq \/ PollEnable \/ PollShutdown \/ PollCcCopy

(* The host's writes (external). *)
WriteReg(r) == bar' = [bar EXCEPT ![r] = TRUE]
WriteCc(cc) == bar' = [bar EXCEPT !.cc = cc]

(* The dispatcher has taken over all that the host wrote into register r.  *)
Polled(r) == bar[r] = old_bar[r]
=============================================================================
