-------------------------------- MODULE Ftl --------------------------------
(***************************************************************************)
(* The flash translation layer of NVMeVirt (ftl.c): the page-level mapping *)
(* table and its inverse, the state and the counters of pages, blocks and  *)
(* lines (super-blocks), the three line lists, the write pointer, the      *)
(* write path and garbage collection.                                      *)
(*                                                                         *)
(* Only the dispatcher thread enters this code, so there is one control    *)
(* point, pc, and an action is the work between two points of its call     *)
(* chain __nvmev_proc_io -> ssd_write -> __check_gc_and_run.  Reads and    *)
(* NAND latencies leave this state alone and are not part of the module.   *)
(*                                                                         *)
(* The victim priority queue is the set of its lines; its priority is      *)
(* line_vpc and a pop takes any line of least priority.  Module PQueue     *)
(* shows that the binary heap of pqueue.c does just that.                  *)
(***************************************************************************)
EXTENDS Integers, Sequences, FiniteSets

CONSTANTS
  nchs, luns_per_ch, pgs_per_blk, blks_per_pl,   \* geometry (1 plane per LUN)
  gc_thres_lines, gc_thres_lines_high,           \* 64 and 12 lines of 256
  gc_ipc_divisor,     \* the 8 of "ipc < pgs_per_line / 8"
  HostLpns,           \* the logical pages that host commands name
  MaxWriteLpns,       \* the most logical pages one write command spans
  UNMAPPED_PPA, INVALID_LPN, NULL

Ch   == 0 .. nchs - 1
Lun  == 0 .. luns_per_ch - 1
Line == 0 .. blks_per_pl - 1
Pg   == 0 .. pgs_per_blk - 1
Ppa   == [ch : Ch, lun : Lun, blk : Line, pg : Pg]
Block == [ch : Ch, lun : Lun, blk : Line]

pgs_per_line == pgs_per_blk * (luns_per_ch * nchs)
tt_pgs       == pgs_per_line * blks_per_pl
Lpn          == 0 .. tt_pgs - 1

PageStatus == {"PG_FREE", "PG_INVALID", "PG_VALID"}

ASSUME GeometryAssumption ==
  /\ nchs \in Nat \ {0} /\ luns_per_ch \in Nat \ {0}
  /\ pgs_per_blk \in Nat \ {0} /\ blks_per_pl \in Nat \ {0}

ASSUME GcAssumption ==
  /\ gc_thres_lines \in Nat /\ gc_thres_lines_high \in Nat
  /\ gc_ipc_divisor \in Nat \ {0}

ASSUME HostAssumption ==
  HostLpns \subseteq Nat /\ MaxWriteLpns \in Nat \ {0}

ASSUME NullAssumption ==
  UNMAPPED_PPA \notin Ppa /\ INVALID_LPN \notin Lpn /\ NULL \notin Line

VARIABLES
  maptbl,             \* [Lpn -> Ppa or UNMAPPED_PPA]
  rmap,               \* [Ppa -> Lpn or INVALID_LPN]
  pg_status,          \* nand_page.status
  blk_ipc, blk_vpc,   \* nand_block: invalid and valid page counts
  line_ipc, line_vpc, \* line: invalid and valid page counts
  line_pos,           \* line.pos # 0, "is in the victim queue"
  free_line_list, victim_line_pq, full_line_list,
  free_line_cnt, victim_line_cnt, full_line_cnt,
  wp,                 \* the write pointer
  pc, lpn, end_lpn,   \* control point and loop variables of ssd_write
  gc                  \* loop variables of do_gc and the point it returns to

mapVars  == <<maptbl, rmap>>
pageVars == <<pg_status, blk_ipc, blk_vpc>>
lineVars == <<line_ipc, line_vpc, line_pos>>
listVars == <<free_line_list, victim_line_pq, full_line_list,
              free_line_cnt, victim_line_cnt, full_line_cnt>>
ctlVars  == <<pc, lpn, end_lpn, gc>>
vars == <<maptbl, rmap, pg_status, blk_ipc, blk_vpc, line_ipc, line_vpc,
          line_pos, free_line_list, victim_line_pq, full_line_list,
          free_line_cnt, victim_line_cnt, full_line_cnt, wp, pc, lpn, end_lpn, gc>>

NoGc == [victim |-> NULL, ch |-> 0, lun |-> 0, pg |-> 0, ret |-> "idle"]

BlockOf(ppa) == [ch |-> ppa.ch, lun |-> ppa.lun, blk |-> ppa.blk]

(* The set of the lines of the free list. *)
FreeLines == {free_line_list[i] : i \in 1 .. Len(free_line_list)}

(***************************************************************************)
(* Initial state: every page free and unmapped, every line in the free     *)
(* list in order of its id, and the first of them taken for writing.       *)
(***************************************************************************)
ssd_init_nand ==
  /\ pg_status = [p \in Ppa |-> "PG_FREE"]
  /\ blk_ipc = [b \in Block |-> 0] /\ blk_vpc = [b \in Block |-> 0]

ssd_init_maptbl == maptbl = [l \in Lpn |-> UNMAPPED_PPA]
ssd_init_rmap   == rmap = [p \in Ppa |-> INVALID_LPN]

ssd_init_lines ==
  /\ line_ipc = [l \in Line |-> 0] /\ line_vpc = [l \in Line |-> 0]
  /\ line_pos = [l \in Line |-> FALSE]
  /\ victim_line_pq = {} /\ full_line_list = {}
  /\ victim_line_cnt = 0 /\ full_line_cnt = 0

ssd_init_write_pointer ==
  /\ free_line_list = [i \in 1 .. blks_per_pl - 1 |-> i]
  /\ free_line_cnt = blks_per_pl - 1
  /\ wp = [curline |-> 0, ch |-> 0, lun |-> 0, pg |-> 0, blk |-> 0]

Init ==
  /\ ssd_init_nand /\ ssd_init_maptbl /\ ssd_init_rmap
  /\ ssd_init_lines /\ ssd_init_write_pointer
  /\ pc = "idle" /\ lpn = 0 /\ end_lpn = 0
  /\ gc = NoGc

-----------------------------------------------------------------------------
(* Page state *)

(* Fault: a line is queued without being unlinked from the full list. *)
FullToVictimLinked(line) ==
  /\ full_line_cnt' = full_line_cnt - 1
  /\ victim_line_pq' = victim_line_pq \union {line}
  /\ victim_line_cnt' = victim_line_cnt + 1
  /\ line_pos' = [line_pos EXCEPT ![line] = TRUE]
  /\ UNCHANGED full_line_list

(* A line that was all valid moves from the full list to the victim queue. *)
FullToVictim(line) ==
  /\ full_line_list' = full_line_list \ {line}
  /\ full_line_cnt' = full_line_cnt - 1
  /\ victim_line_pq' = victim_line_pq \union {line}
  /\ victim_line_cnt' = victim_line_cnt + 1
  /\ line_pos' = [line_pos EXCEPT ![line] = TRUE]

(* A valid page becomes invalid.  Its line loses one of its valid pages in  *)
(* place, or inside the victim queue; a line that was full moves there.     *)
mark_page_invalid(ppa) ==
  LET blk  == BlockOf(ppa)
      line == ppa.blk
  IN /\ pg_status' = [pg_status EXCEPT ![ppa] = "PG_INVALID"]
     /\ blk_ipc'  = [blk_ipc  EXCEPT ![blk] = @ + 1]
     /\ blk_vpc'  = [blk_vpc  EXCEPT ![blk] = @ - 1]
     /\ line_ipc' = [line_ipc EXCEPT ![line] = @ + 1]
     /\ line_vpc' = [line_vpc EXCEPT ![line] = @ - 1]
     /\ \/ line_vpc[line] = pgs_per_line /\ FullToVictim(line)
        \/ /\ line_vpc[line] # pgs_per_line
           /\ UNCHANGED <<full_line_list, full_line_cnt, victim_line_pq,
                          victim_line_cnt, line_pos>>
     /\ UNCHANGED <<free_line_list, free_line_cnt>>

mark_page_valid(ppa) ==
  /\ pg_status' = [pg_status EXCEPT ![ppa] = "PG_VALID"]
  /\ blk_vpc'  = [blk_vpc  EXCEPT ![BlockOf(ppa)] = @ + 1]
  /\ line_vpc' = [line_vpc EXCEPT ![ppa.blk] = @ + 1]
  /\ UNCHANGED <<blk_ipc, line_ipc>>

mark_block_free(blk) ==
  /\ pg_status' = [p \in Ppa |-> IF BlockOf(p) = blk THEN "PG_FREE" ELSE pg_status[p]]
  /\ blk_ipc' = [blk_ipc EXCEPT ![blk] = 0]
  /\ blk_vpc' = [blk_vpc EXCEPT ![blk] = 0]

-----------------------------------------------------------------------------
(* The write pointer *)

get_new_page == [ch |-> wp.ch, lun |-> wp.lun, blk |-> wp.blk, pg |-> wp.pg]

(* Fault: > for ==, the channel runs past the last. *)
LastChLate == wp.ch + 1 > nchs

LastCh   == wp.ch + 1 = nchs
LastLun  == LastCh /\ wp.lun + 1 = luns_per_ch
LastPage == LastLun /\ wp.pg + 1 = pgs_per_blk

(* Fault: a used-up line is queued as a victim though all of it is valid. *)
RetireLineAlwaysVictim ==
  /\ victim_line_pq' = victim_line_pq \union {wp.curline}
  /\ victim_line_cnt' = victim_line_cnt + 1
  /\ line_pos' = [line_pos EXCEPT ![wp.curline] = TRUE]
  /\ UNCHANGED <<full_line_list, full_line_cnt>>

(* The used-up line joins the full list or the victim queue.  This follows *)
(* mark_page_valid in the same step, hence line_vpc'.                      *)
RetireLine ==
  \/ /\ line_vpc'[wp.curline] = pgs_per_line
     /\ full_line_list' = full_line_list \union {wp.curline}
     /\ full_line_cnt' = full_line_cnt + 1
     /\ UNCHANGED <<victim_line_pq, victim_line_cnt, line_pos>>
  \/ /\ line_vpc'[wp.curline] # pgs_per_line
     /\ victim_line_pq' = victim_line_pq \union {wp.curline}
     /\ victim_line_cnt' = victim_line_cnt + 1
     /\ line_pos' = [line_pos EXCEPT ![wp.curline] = TRUE]
     /\ UNCHANGED <<full_line_list, full_line_cnt>>

(* The next line to write, or none: the code then reads through the null   *)
(* curline and the dispatcher thread dies with the pointer half advanced.  *)
get_next_free_line ==
  \/ /\ free_line_list # <<>>
     /\ free_line_list' = Tail(free_line_list)
     /\ free_line_cnt' = free_line_cnt - 1
     /\ wp' = [curline |-> Head(free_line_list), ch |-> 0, lun |-> 0,
               pg |-> 0, blk |-> Head(free_line_list)]
  \/ /\ free_line_list = <<>>
     /\ wp' = [curline |-> NULL, ch |-> 0, lun |-> 0, pg |-> 0, blk |-> wp.blk]
     /\ UNCHANGED <<free_line_list, free_line_cnt>>

ssd_advance_write_pointer ==
  \/ /\ ~LastCh
     /\ wp' = [wp EXCEPT !.ch = @ + 1]
     /\ UNCHANGED <<listVars, line_pos>>
  \/ /\ LastCh /\ ~LastLun
     /\ wp' = [wp EXCEPT !.ch = 0, !.lun = @ + 1]
     /\ UNCHANGED <<listVars, line_pos>>
  \/ /\ LastLun /\ ~LastPage
     /\ wp' = [wp EXCEPT !.ch = 0, !.lun = 0, !.pg = @ + 1]
     /\ UNCHANGED <<listVars, line_pos>>
  \/ /\ LastPage
     /\ RetireLine
     /\ get_next_free_line

(* Fault: the inverse map is not told of the new page. *)
set_rmap_entLost(l, ppa) == UNCHANGED rmap

set_rmap_ent(l, ppa) == rmap' = [rmap EXCEPT ![ppa] = l]

(* The common part of a user write and of a GC copy: logical page l goes   *)
(* to the page under the write pointer; control continues at "next".       *)
ProgramPage(l, next) ==
  LET ppa == get_new_page
  IN /\ maptbl' = [maptbl EXCEPT ![l] = ppa]
     /\ set_rmap_ent(l, ppa)
     /\ mark_page_valid(ppa)
     /\ ssd_advance_write_pointer
     /\ pc' = IF wp'.curline = NULL THEN "oops" ELSE next

-----------------------------------------------------------------------------
(* Garbage collection *)

should_gc      == free_line_cnt <= gc_thres_lines
should_gc_high == free_line_cnt <= gc_thres_lines_high

(* The lines pqueue_peek may return: those of least valid page count. *)
PeekVictim == {v \in victim_line_pq :
                 \A w \in victim_line_pq : line_vpc[v] <= line_vpc[w]}

WorthCleaning(force, v) ==
  force \/ line_ipc[v] >= pgs_per_line \div gc_ipc_divisor

(* The victim leaves the queue and cleaning starts at its first page. *)
select_victim_line(force, ret) ==
  \E v \in PeekVictim :
    /\ WorthCleaning(force, v)
    /\ victim_line_pq' = victim_line_pq \ {v}
    /\ victim_line_cnt' = victim_line_cnt - 1
    /\ line_pos' = [line_pos EXCEPT ![v] = FALSE]
    /\ gc' = [victim |-> v, ch |-> 0, lun |-> 0, pg |-> 0, ret |-> ret]
    /\ pc' = "gc_page"
    /\ UNCHANGED <<free_line_list, full_line_list, free_line_cnt, full_line_cnt>>

NoVictim(force) ==
  \/ victim_line_pq = {}
  \/ \E v \in PeekVictim : ~WorthCleaning(force, v)

(* Fault: the loop over the pages of a block ends one page short. *)
BlockCleanedShort == gc.pg + 1 >= pgs_per_blk

(* clean_one_block has been over all the pages of its block. *)
BlockCleaned == gc.pg >= pgs_per_blk

GcPpa == [ch |-> gc.ch, lun |-> gc.lun, blk |-> gc.victim, pg |-> gc.pg]

(* clean_one_block, one page: a valid page is copied to the write pointer. *)
(* The old page keeps its status and its rmap entry until the erase.       *)
GcMovePage ==
  /\ pc = "gc_page" /\ ~BlockCleaned
  /\ pg_status[GcPpa] = "PG_VALID"
  /\ ProgramPage(rmap[GcPpa], "gc_page")
  /\ gc' = [gc EXCEPT !.pg = @ + 1]
  /\ UNCHANGED <<lpn, end_lpn>>

GcSkipPage ==
  /\ pc = "gc_page" /\ ~BlockCleaned
  /\ pg_status[GcPpa] # "PG_VALID"
  /\ gc' = [gc EXCEPT !.pg = @ + 1]
  /\ UNCHANGED <<mapVars, pageVars, lineVars, listVars, wp, pc, lpn, end_lpn>>

(* do_gc, end of one block: erase it and go on, LUN by LUN, channel by     *)
(* channel.                                                                *)
GcEraseBlock ==
  /\ pc = "gc_page" /\ BlockCleaned
  /\ mark_block_free([ch |-> gc.ch, lun |-> gc.lun, blk |-> gc.victim])
  /\ \/ /\ gc.lun + 1 < luns_per_ch
        /\ gc' = [gc EXCEPT !.lun = @ + 1, !.pg = 0]
        /\ UNCHANGED pc
     \/ /\ gc.lun + 1 = luns_per_ch /\ gc.ch + 1 < nchs
        /\ gc' = [gc EXCEPT !.ch = @ + 1, !.lun = 0, !.pg = 0]
        /\ UNCHANGED pc
     \/ /\ gc.lun + 1 = luns_per_ch /\ gc.ch + 1 = nchs
        /\ pc' = "gc_free_line"
        /\ UNCHANGED gc
  /\ UNCHANGED <<mapVars, lineVars, listVars, wp, lpn, end_lpn>>

(* Fault: the invalid page count of the line survives its cleaning. *)
GcFreeLineStaleIpc ==
  /\ pc = "gc_free_line"
  /\ line_vpc' = [line_vpc EXCEPT ![gc.victim] = 0]
  /\ free_line_list' = Append(free_line_list, gc.victim)
  /\ free_line_cnt' = free_line_cnt + 1
  /\ pc' = gc.ret
  /\ gc' = NoGc
  /\ UNCHANGED <<mapVars, pageVars, line_ipc, line_pos, victim_line_pq,
                 full_line_list, victim_line_cnt, full_line_cnt, wp, lpn, end_lpn>>

(* Fault: the cleaned line waits for its next use in no list. *)
GcFreeLineForgotten ==
  /\ pc = "gc_free_line"
  /\ line_ipc' = [line_ipc EXCEPT ![gc.victim] = 0]
  /\ line_vpc' = [line_vpc EXCEPT ![gc.victim] = 0]
  /\ pc' = gc.ret
  /\ gc' = NoGc
  /\ UNCHANGED <<mapVars, pageVars, line_pos, listVars, wp, lpn, end_lpn>>

(* mark_line_free: the cleaned line rejoins the free list. *)
GcFreeLine ==
  /\ pc = "gc_free_line"
  /\ line_ipc' = [line_ipc EXCEPT ![gc.victim] = 0]
  /\ line_vpc' = [line_vpc EXCEPT ![gc.victim] = 0]
  /\ free_line_list' = Append(free_line_list, gc.victim)
  /\ free_line_cnt' = free_line_cnt + 1
  /\ pc' = gc.ret
  /\ gc' = NoGc
  /\ UNCHANGED <<mapVars, pageVars, line_pos, victim_line_pq, full_line_list,
                 victim_line_cnt, full_line_cnt, wp, lpn, end_lpn>>

-----------------------------------------------------------------------------
(* The write path *)

(* ssd_write is entered.  A range that ends beyond the flash is refused    *)
(* before anything is written; __check_gc_and_run follows all the same.    *)
StartWrite(first, last) ==
  /\ pc = "idle"
  /\ first <= last /\ last < first + MaxWriteLpns
  /\ \/ /\ last >= tt_pgs
        /\ pc' = "check_gc"
        /\ UNCHANGED <<lpn, end_lpn>>
     \/ /\ last < tt_pgs
        /\ pc' = "gc_high" /\ lpn' = first /\ end_lpn' = last
  /\ UNCHANGED <<mapVars, pageVars, lineVars, listVars, wp, gc>>

(* while (should_gc_high) { if (do_gc(true) == -1) break; } *)
GcHighStep ==
  /\ pc = "gc_high" /\ should_gc_high
  /\ select_victim_line(TRUE, "gc_high")
  /\ UNCHANGED <<mapVars, pageVars, line_ipc, line_vpc, wp, lpn, end_lpn>>

(* Fault: the loop does not break when there is no victim. *)
GcHighLeaveNoBreak ==
  /\ pc = "gc_high"
  /\ ~should_gc_high
  /\ pc' = "invalidate"
  /\ UNCHANGED <<mapVars, pageVars, lineVars, listVars, wp, lpn, end_lpn, gc>>

GcHighLeave ==
  /\ pc = "gc_high"
  /\ ~should_gc_high \/ NoVictim(TRUE)
  /\ pc' = "invalidate"
  /\ UNCHANGED <<mapVars, pageVars, lineVars, listVars, wp, lpn, end_lpn, gc>>

(* Fault: an overwrite leaves the old copy valid. *)
InvalidateOldForgotten ==
  /\ pc = "invalidate"
  /\ pc' = "program"
  /\ UNCHANGED <<mapVars, pageVars, lineVars, listVars, wp, lpn, end_lpn, gc>>

(* One round of the write loop, first half: the old copy is invalidated. *)
InvalidateOld ==
  /\ pc = "invalidate"
  /\ pc' = "program"
  /\ \/ /\ maptbl[lpn] # UNMAPPED_PPA
        /\ mark_page_invalid(maptbl[lpn])
        /\ set_rmap_ent(INVALID_LPN, maptbl[lpn])
     \/ /\ maptbl[lpn] = UNMAPPED_PPA
        /\ UNCHANGED <<rmap, pageVars, lineVars, listVars>>
  /\ UNCHANGED <<maptbl, wp, lpn, end_lpn, gc>>

(* Second half: the new copy is written and the loop goes on or ends. *)
WriteNew ==
  /\ pc = "program"
  /\ \/ /\ lpn < end_lpn
        /\ ProgramPage(lpn, "invalidate")
        /\ lpn' = lpn + 1 /\ UNCHANGED end_lpn
     \/ /\ lpn >= end_lpn
        /\ ProgramPage(lpn, "check_gc")
        /\ lpn' = 0 /\ end_lpn' = 0
  /\ UNCHANGED gc

(* __check_gc_and_run: clean one line in the background, if one is worth it. *)
CheckGcRun ==
  /\ pc = "check_gc" /\ should_gc
  /\ select_victim_line(FALSE, "idle")
  /\ UNCHANGED <<mapVars, pageVars, line_ipc, line_vpc, wp, lpn, end_lpn>>

CheckGcSkip ==
  /\ pc = "check_gc"
  /\ ~should_gc \/ NoVictim(FALSE)
  /\ pc' = "idle"
  /\ UNCHANGED <<mapVars, pageVars, lineVars, listVars, wp, lpn, end_lpn, gc>>

-----------------------------------------------------------------------------
(* The dispatcher inside the FTL, between two commands. *)
FtlStep ==
  \/ GcHighStep \/ GcHighLeave \/ InvalidateOld \/ WriteNew
  \/ CheckGcRun \/ CheckGcSkip
  \/ GcMovePage \/ GcSkipPage \/ GcEraseBlock \/ GcFreeLine

HostWrite == \E first, last \in HostLpns : StartWrite(first, last)

Next == HostWrite \/ FtlStep

(* The dispatcher thread keeps running; the host need never write. *)
Spec     == Init /\ [][Next]_vars
FairSpec == Spec /\ WF_vars(FtlStep)

-----------------------------------------------------------------------------
(* Properties *)

TypeOK ==
  /\ maptbl \in [Lpn -> Ppa \union {UNMAPPED_PPA}]
  /\ rmap \in [Ppa -> Lpn \union {INVALID_LPN}]
  /\ pg_status \in [Ppa -> PageStatus]
  /\ blk_ipc \in [Block -> Int] /\ blk_vpc \in [Block -> Int]
  /\ line_ipc \in [Line -> Int] /\ line_vpc \in [Line -> Int]
  /\ line_pos \in [Line -> BOOLEAN]
  /\ free_line_list \in Seq(Line)
  /\ victim_line_pq \subseteq Line /\ full_line_list \subseteq Line
  /\ free_line_cnt \in Int /\ victim_line_cnt \in Int /\ full_line_cnt \in Int
  /\ wp \in [curline : Line \union {NULL}, ch : Ch, lun : Lun, pg : Pg, blk : Line]
  /\ pc \in {"idle", "gc_high", "invalidate", "program", "check_gc", "gc_page",
             "gc_free_line", "oops"}
  /\ lpn \in Lpn /\ end_lpn \in Lpn
  /\ gc \in [victim : Line \union {NULL}, ch : Ch, lun : Lun,
             pg : 0 .. pgs_per_blk, ret : {"idle", "gc_high"}]

(* The mapping table and its inverse agree, and point to live data: what a *)
(* mapped logical page points to is a valid page that belongs to it alone. *)
(* The page a write has just invalidated is excepted until its new copy is *)
(* in place.                                                               *)
MappingConsistent ==
  \A l \in Lpn :
    maptbl[l] # UNMAPPED_PPA /\ ~(pc = "program" /\ l = lpn) =>
      /\ rmap[maptbl[l]] = l
      /\ pg_status[maptbl[l]] = "PG_VALID"

(* Cleaning has passed page p of the block it is at. *)
Passed(p) ==
  /\ pc \in {"gc_page", "oops"}
  /\ p.blk = gc.victim /\ p.ch = gc.ch /\ p.lun = gc.lun /\ p.pg < gc.pg

(* No valid page is garbage in disguise: a valid page is the page its      *)
(* logical page is mapped to, but for the old copies cleaning has made and *)
(* not yet erased (gc_write_page leaves them valid).                       *)
NoOrphan ==
  \A p \in Ppa :
    pg_status[p] = "PG_VALID" /\ ~Passed(p) =>
      rmap[p] \in Lpn /\ maptbl[rmap[p]] = p

PagesIn(ps, s) == Cardinality({p \in ps : pg_status[p] = s})

(* The counters that choose a victim and that decide between the full list *)
(* and the victim queue are exact, for every line and block but those      *)
(* cleaning is at.                                                         *)
CountersExact ==
  /\ \A l \in Line \ {gc.victim} :
       LET ps == {p \in Ppa : p.blk = l}
       IN line_vpc[l] = PagesIn(ps, "PG_VALID") /\ line_ipc[l] = PagesIn(ps, "PG_INVALID")
  /\ \A b \in Block :
       b.blk # gc.victim =>
         LET ps == {p \in Ppa : BlockOf(p) = b}
         IN blk_vpc[b] = PagesIn(ps, "PG_VALID") /\ blk_ipc[b] = PagesIn(ps, "PG_INVALID")

(* A line is in one place at a time: free, queued as a victim, full, being *)
(* written or being cleaned; the three counters are the sizes of the three *)
(* collections and pos tells the members of the victim queue.              *)
LinePartition ==
  LET places == <<FreeLines, victim_line_pq, full_line_list, {wp.curline} \ {NULL},
                  {gc.victim} \ {NULL}>>
  IN /\ \A i, j \in 1 .. 5 : i # j => places[i] \intersect places[j] = {}
     /\ Line = UNION {places[i] : i \in 1 .. 5}
     /\ Len(free_line_list) = Cardinality(FreeLines)
     /\ free_line_cnt = Len(free_line_list)
     /\ victim_line_cnt = Cardinality(victim_line_pq)
     /\ full_line_cnt = Cardinality(full_line_list)
     /\ \A l \in Line : line_pos[l] <=> l \in victim_line_pq

(* Cleaning a queued line gains space and meets no unwritten page: it has  *)
(* an invalid page and none that is free (ftl.c, "there shouldn't be any   *)
(* free page in victim blocks").                                           *)
VictimsReclaimable ==
  \A v \in victim_line_pq :
    /\ \E p \in Ppa : p.blk = v /\ pg_status[p] = "PG_INVALID"
    /\ \A p \in Ppa : p.blk = v => pg_status[p] # "PG_FREE"

(* The write pointer always has a line (ftl.c, "wpp->curline is always our *)
(* next-to-write super-block"), in writes and in cleaning alike.           *)
CurlineNeverNull == wp.curline # NULL

(* A write that is accepted ends: the loop that cleans lines until enough  *)
(* of them are free either gets there or runs out of victims.              *)
WriteCompletes == pc = "gc_high" ~> pc = "idle"

(* The promise to the host and to the NAND array. *)
Nand == INSTANCE NandFlash WITH
          loc <- maptbl, programmed <- {p \in Ppa : pg_status[p] # "PG_FREE"}
NandSpec == Nand!Spec
=============================================================================
