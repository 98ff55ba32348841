----------------------------- MODULE FtlProofs -----------------------------
(* Theorems about the flash translation layer, for every geometry, every    *)
(* threshold and every host: its types, the agreement of its mapping        *)
(* tables with each other and with the state of the pages, and that it      *)
(* implements NandFlash.                                                    *)
(*                                                                          *)
(* MappingConsistent is not inductive: it needs that the page under the     *)
(* write pointer is erased, hence that the lines of the free list are, that *)
(* a line is in one list only, that the current line is never taken for a   *)
(* full one, and that what cleaning erases has no reader left.              *)
EXTENDS Ftl, TLAPS

-----------------------------------------------------------------------------
(* Types *)

(* What the types rest on: the write pointer is in a line unless the        *)
(* dispatcher died, and cleaning has a victim exactly while it runs.        *)
Cursors ==
  /\ pc # "oops" => wp.curline = wp.blk
  /\ pc \in {"gc_page", "gc_free_line"} => gc.victim \in Line
  /\ pc \in {"idle", "gc_high", "invalidate", "program", "check_gc"} => gc = NoGc

TypeInv == TypeOK /\ Cursors

GcType == [victim : Line \union {NULL}, ch : Ch, lun : Lun,
           pg : 0 .. pgs_per_blk, ret : {"idle", "gc_high"}]

LEMMA Sizes == pgs_per_line \in Nat \ {0} /\ tt_pgs \in Nat \ {0} /\ 0 \in Lpn
  <1>1. pgs_per_line \in Nat \ {0}
    BY GeometryAssumption DEF pgs_per_line
  <1>2. tt_pgs \in Nat \ {0}
    BY <1>1, GeometryAssumption DEF tt_pgs
  <1> QED
    BY <1>1, <1>2 DEF Lpn

LEMMA TypeInit == Init => TypeInv
  <1> SUFFICES ASSUME Init PROVE TypeInv
    OBVIOUS
  <1> USE GeometryAssumption DEF Init, ssd_init_nand, ssd_init_maptbl, ssd_init_rmap,
             ssd_init_lines, ssd_init_write_pointer
  <1>1. 0 \in Line /\ 0 \in Ch /\ 0 \in Lun /\ 0 \in Pg
    BY DEF Line, Ch, Lun, Pg
  <1>2. 0 \in Lpn
    BY Sizes
  <1>3. free_line_list \in Seq(Line)
    BY DEF Line
  <1>4. TypeOK
    BY <1>1, <1>2, <1>3 DEF TypeOK, NoGc, PageStatus
  <1> QED
    BY <1>4 DEF TypeInv, Cursors

(* The lists and the write pointer keep their types when the pointer moves. *)
LEMMA AdvanceType ==
  ASSUME TypeInv, pc # "oops", ssd_advance_write_pointer
  PROVE  /\ free_line_list' \in Seq(Line)
         /\ victim_line_pq' \subseteq Line /\ full_line_list' \subseteq Line
         /\ free_line_cnt' \in Int /\ victim_line_cnt' \in Int /\ full_line_cnt' \in Int
         /\ line_pos' \in [Line -> BOOLEAN]
         /\ wp' \in [curline : Line \union {NULL}, ch : Ch, lun : Lun, pg : Pg, blk : Line]
         /\ wp'.curline # NULL => wp'.curline = wp'.blk
  <1> USE GeometryAssumption, NullAssumption
  <1>0. /\ TypeOK /\ wp.curline = wp.blk /\ wp.curline \in Line
        /\ 0 \in Ch /\ 0 \in Lun /\ 0 \in Pg
    <2>1. TypeOK /\ wp.curline = wp.blk
      BY DEF TypeInv, Cursors
    <2>2. wp.blk \in Line
      BY <2>1 DEF TypeOK
    <2>3. 0 \in Ch /\ 0 \in Lun /\ 0 \in Pg
      BY DEF Ch, Lun, Pg
    <2> QED
      BY <2>1, <2>2, <2>3
  <1>1. CASE ~LastCh
    <2>1. wp' = [wp EXCEPT !.ch = @ + 1] /\ UNCHANGED <<listVars, line_pos>>
      BY <1>1 DEF ssd_advance_write_pointer, LastLun, LastPage
    <2>2. wp.ch + 1 \in Ch
      BY <1>0, <1>1 DEF TypeOK, LastCh, Ch
    <2> QED
      BY <1>0, <2>1, <2>2 DEF TypeOK, listVars
  <1>2. CASE LastCh /\ ~LastLun
    <2>1. wp' = [wp EXCEPT !.ch = 0, !.lun = @ + 1] /\ UNCHANGED <<listVars, line_pos>>
      BY <1>2 DEF ssd_advance_write_pointer, LastPage
    <2>2. wp.lun + 1 \in Lun
      BY <1>0, <1>2 DEF TypeOK, LastLun, Lun
    <2> QED
      BY <1>0, <2>1, <2>2 DEF TypeOK, listVars
  <1>3. CASE LastLun /\ ~LastPage
    <2>1. wp' = [wp EXCEPT !.ch = 0, !.lun = 0, !.pg = @ + 1] /\ UNCHANGED <<listVars, line_pos>>
      BY <1>3 DEF ssd_advance_write_pointer, LastLun
    <2>2. wp.pg + 1 \in Pg
      BY <1>0, <1>3 DEF TypeOK, LastPage, Pg
    <2> QED
      BY <1>0, <2>1, <2>2 DEF TypeOK, listVars
  <1>4. CASE LastPage
    <2>1. RetireLine /\ get_next_free_line
      BY <1>4 DEF ssd_advance_write_pointer, LastPage, LastLun
    <2>2. /\ victim_line_pq' \subseteq Line /\ full_line_list' \subseteq Line
          /\ victim_line_cnt' \in Int /\ full_line_cnt' \in Int
          /\ line_pos' \in [Line -> BOOLEAN]
      <3>1. /\ victim_line_pq \subseteq Line /\ full_line_list \subseteq Line
            /\ victim_line_cnt \in Int /\ full_line_cnt \in Int
            /\ line_pos \in [Line -> BOOLEAN]
        BY <1>0 DEF TypeOK
      <3>2. CASE line_vpc'[wp.curline] = pgs_per_line
        BY <1>0, <2>1, <3>1, <3>2 DEF RetireLine
      <3>3. CASE line_vpc'[wp.curline] # pgs_per_line
        <4>1. /\ victim_line_pq' = victim_line_pq \union {wp.curline}
              /\ victim_line_cnt' = victim_line_cnt + 1
              /\ line_pos' = [line_pos EXCEPT ![wp.curline] = TRUE]
              /\ UNCHANGED <<full_line_list, full_line_cnt>>
          BY <2>1, <3>3 DEF RetireLine
        <4>2. line_pos' \in [Line -> BOOLEAN]
          BY <3>1, <4>1
        <4> QED
          BY <1>0, <3>1, <4>1, <4>2
      <3> QED
        BY <3>2, <3>3
    <2>3. CASE free_line_list # <<>>
      <3>1. Head(free_line_list) \in Line /\ Tail(free_line_list) \in Seq(Line)
        BY <1>0, <2>3 DEF TypeOK
      <3>2. /\ free_line_list' = Tail(free_line_list)
            /\ free_line_cnt' = free_line_cnt - 1
            /\ wp' = [curline |-> Head(free_line_list), ch |-> 0, lun |-> 0,
                      pg |-> 0, blk |-> Head(free_line_list)]
        BY <2>1, <2>3 DEF get_next_free_line
      <3>3. free_line_cnt' \in Int
        BY <1>0, <3>2 DEF TypeOK
      <3> QED
        BY <1>0, <2>2, <3>1, <3>2, <3>3
    <2>4. CASE free_line_list = <<>>
      BY <1>0, <2>1, <2>2, <2>4 DEF TypeOK, get_next_free_line
    <2> QED
      BY <2>3, <2>4
  <1> QED
    BY <1>1, <1>2, <1>3, <1>4 DEF LastLun, LastPage

LEMMA ProgramType ==
  ASSUME TypeInv, pc # "oops", NEW l \in Lpn \union {INVALID_LPN}, NEW next,
         next \in {"invalidate", "check_gc", "gc_page"}, ProgramPage(l, next)
  PROVE  /\ get_new_page \in Ppa
         /\ maptbl' \in [Lpn -> Ppa \union {UNMAPPED_PPA}]
         /\ rmap' \in [Ppa -> Lpn \union {INVALID_LPN}]
         /\ pg_status' \in [Ppa -> PageStatus]
         /\ blk_ipc' \in [Block -> Int] /\ blk_vpc' \in [Block -> Int]
         /\ line_ipc' \in [Line -> Int] /\ line_vpc' \in [Line -> Int]
         /\ pc' \in {next, "oops"}
         /\ pc' # "oops" => wp'.curline = wp'.blk
  <1>1. TypeOK
    BY DEF TypeInv
  <1>2. get_new_page \in Ppa
    BY <1>1 DEF TypeOK, get_new_page, Ppa
  <1>3. BlockOf(get_new_page) \in Block /\ get_new_page.blk \in Line
    BY <1>2 DEF Ppa, Block, BlockOf
  <1>4. wp'.curline # NULL => wp'.curline = wp'.blk
    BY AdvanceType DEF ProgramPage
  <1>5. /\ maptbl' = [maptbl EXCEPT ![l] = get_new_page]
        /\ rmap' = [rmap EXCEPT ![get_new_page] = l]
        /\ mark_page_valid(get_new_page)
        /\ pc' = IF wp'.curline = NULL THEN "oops" ELSE next
    BY DEF ProgramPage, set_rmap_ent
  <1>6. /\ maptbl' \in [Lpn -> Ppa \union {UNMAPPED_PPA}]
        /\ rmap' \in [Ppa -> Lpn \union {INVALID_LPN}]
    BY <1>1, <1>2, <1>5 DEF TypeOK
  <1>7. /\ pg_status' \in [Ppa -> PageStatus]
        /\ blk_ipc' \in [Block -> Int] /\ blk_vpc' \in [Block -> Int]
        /\ line_ipc' \in [Line -> Int] /\ line_vpc' \in [Line -> Int]
    <2>1. /\ pg_status \in [Ppa -> PageStatus]
          /\ blk_ipc \in [Block -> Int] /\ blk_vpc \in [Block -> Int]
          /\ line_ipc \in [Line -> Int] /\ line_vpc \in [Line -> Int]
      BY <1>1 DEF TypeOK
    <2>2. /\ pg_status' = [pg_status EXCEPT ![get_new_page] = "PG_VALID"]
          /\ blk_vpc' = [blk_vpc EXCEPT ![BlockOf(get_new_page)] = @ + 1]
          /\ line_vpc' = [line_vpc EXCEPT ![get_new_page.blk] = @ + 1]
          /\ UNCHANGED <<blk_ipc, line_ipc>>
      BY <1>5 DEF mark_page_valid
    <2>3. pg_status' \in [Ppa -> PageStatus]
      BY <2>1, <2>2 DEF PageStatus
    <2> QED
      BY <1>3, <2>1, <2>2, <2>3
  <1> QED
    BY <1>2, <1>4, <1>5, <1>6, <1>7

LEMMA InvalidateType ==
  ASSUME TypeInv, NEW ppa \in Ppa, mark_page_invalid(ppa)
  PROVE  /\ pg_status' \in [Ppa -> PageStatus]
         /\ blk_ipc' \in [Block -> Int] /\ blk_vpc' \in [Block -> Int]
         /\ line_ipc' \in [Line -> Int] /\ line_vpc' \in [Line -> Int]
         /\ line_pos' \in [Line -> BOOLEAN]
         /\ victim_line_pq' \subseteq Line /\ full_line_list' \subseteq Line
         /\ victim_line_cnt' \in Int /\ full_line_cnt' \in Int
  <1>1. BlockOf(ppa) \in Block /\ ppa.blk \in Line
    BY DEF Ppa, Block, BlockOf
  <1>2. /\ pg_status \in [Ppa -> PageStatus]
        /\ blk_ipc \in [Block -> Int] /\ blk_vpc \in [Block -> Int]
        /\ line_ipc \in [Line -> Int] /\ line_vpc \in [Line -> Int]
        /\ line_pos \in [Line -> BOOLEAN]
        /\ victim_line_pq \subseteq Line /\ full_line_list \subseteq Line
        /\ victim_line_cnt \in Int /\ full_line_cnt \in Int
    BY DEF TypeInv, TypeOK
  <1>3. pg_status' = [pg_status EXCEPT ![ppa] = "PG_INVALID"]
    BY DEF mark_page_invalid
  <1>4. /\ blk_ipc'  = [blk_ipc  EXCEPT ![BlockOf(ppa)] = @ + 1]
        /\ blk_vpc'  = [blk_vpc  EXCEPT ![BlockOf(ppa)] = @ - 1]
        /\ line_ipc' = [line_ipc EXCEPT ![ppa.blk] = @ + 1]
        /\ line_vpc' = [line_vpc EXCEPT ![ppa.blk] = @ - 1]
    BY DEF mark_page_invalid
  <1>5. pg_status' \in [Ppa -> PageStatus]
    BY <1>2, <1>3 DEF PageStatus
  <1>6. /\ blk_ipc' \in [Block -> Int] /\ blk_vpc' \in [Block -> Int]
        /\ line_ipc' \in [Line -> Int] /\ line_vpc' \in [Line -> Int]
    BY <1>1, <1>2, <1>4
  <1>7. /\ line_pos' \in [Line -> BOOLEAN]
        /\ victim_line_pq' \subseteq Line /\ full_line_list' \subseteq Line
        /\ victim_line_cnt' \in Int /\ full_line_cnt' \in Int
    <2>1. CASE line_vpc[ppa.blk] = pgs_per_line
      <3>1. FullToVictim(ppa.blk)
        BY <2>1 DEF mark_page_invalid
      <3>2. line_pos' \in [Line -> BOOLEAN]
        BY <1>2, <3>1 DEF FullToVictim
      <3> QED
        BY <1>1, <1>2, <3>1, <3>2 DEF FullToVictim
    <2>2. CASE line_vpc[ppa.blk] # pgs_per_line
      BY <1>2, <2>2 DEF mark_page_invalid
    <2> QED
      BY <2>1, <2>2
  <1> QED
    BY <1>5, <1>6, <1>7

LEMMA SelectType ==
  ASSUME TypeInv, NEW force, NEW ret \in {"idle", "gc_high"}, select_victim_line(force, ret)
  PROVE  /\ victim_line_pq' \subseteq Line
         /\ victim_line_cnt' \in Int
         /\ line_pos' \in [Line -> BOOLEAN]
         /\ gc' \in GcType
         /\ gc'.victim \in Line
         /\ pc' = "gc_page"
         /\ UNCHANGED <<free_line_list, full_line_list, free_line_cnt, full_line_cnt>>
  <1>1. PICK v \in PeekVictim :
          /\ victim_line_pq' = victim_line_pq \ {v}
          /\ victim_line_cnt' = victim_line_cnt - 1
          /\ line_pos' = [line_pos EXCEPT ![v] = FALSE]
          /\ gc' = [victim |-> v, ch |-> 0, lun |-> 0, pg |-> 0, ret |-> ret]
          /\ pc' = "gc_page"
          /\ UNCHANGED <<free_line_list, full_line_list, free_line_cnt, full_line_cnt>>
    BY DEF select_victim_line
  <1>2. /\ victim_line_pq \subseteq Line
        /\ victim_line_cnt \in Int
        /\ line_pos \in [Line -> BOOLEAN]
    BY DEF TypeInv, TypeOK
  <1>3. v \in Line
    BY <1>2 DEF PeekVictim
  <1>4. 0 \in Ch /\ 0 \in Lun /\ 0 \in 0 .. pgs_per_blk
    BY GeometryAssumption DEF Ch, Lun
  <1> QED
    BY <1>1, <1>2, <1>3, <1>4 DEF GcType

LEMMA GcPgStep ==
  ASSUME gc \in GcType, gc.victim \in Line, gc.pg < pgs_per_blk, gc' = [gc EXCEPT !.pg = @ + 1]
  PROVE  gc' \in GcType /\ gc'.victim \in Line
  <1>1. gc.pg + 1 \in 0 .. pgs_per_blk
    BY GeometryAssumption DEF GcType
  <1> QED
    BY <1>1 DEF GcType

(* The parts of TypeOK that a programmed page changes, put together. *)
LEMMA TypeFromParts ==
  ASSUME maptbl' \in [Lpn -> Ppa \union {UNMAPPED_PPA}],
         rmap' \in [Ppa -> Lpn \union {INVALID_LPN}],
         pg_status' \in [Ppa -> PageStatus],
         blk_ipc' \in [Block -> Int], blk_vpc' \in [Block -> Int],
         line_ipc' \in [Line -> Int], line_vpc' \in [Line -> Int],
         line_pos' \in [Line -> BOOLEAN],
         free_line_list' \in Seq(Line),
         victim_line_pq' \subseteq Line, full_line_list' \subseteq Line,
         free_line_cnt' \in Int, victim_line_cnt' \in Int, full_line_cnt' \in Int,
         wp' \in [curline : Line \union {NULL}, ch : Ch, lun : Lun, pg : Pg, blk : Line],
         pc' \in {"invalidate", "check_gc", "gc_page", "oops"},
         lpn' \in Lpn, end_lpn' \in Lpn, gc' \in GcType
  PROVE  TypeOK'
  BY DEF TypeOK, GcType

LEMMA TypeNext == TypeInv /\ [Next]_vars => TypeInv'
  <1> SUFFICES ASSUME TypeInv, [Next]_vars PROVE TypeInv'
    OBVIOUS
  <1>0. /\ TypeOK /\ Cursors /\ gc \in GcType
        /\ lpn \in Lpn /\ end_lpn \in Lpn /\ lpn \in Int /\ end_lpn \in Int
    BY DEF TypeInv, TypeOK, GcType, Lpn
  <1> USE <1>0
  <1>1. ASSUME NEW first \in HostLpns, NEW last \in HostLpns, StartWrite(first, last)
        PROVE  TypeInv'
    <2>1. last < tt_pgs => first \in Lpn /\ last \in Lpn
      <3>1. first \in Nat /\ last \in Nat /\ first <= last
        BY <1>1, HostAssumption DEF StartWrite
      <3>2. tt_pgs \in Int
        BY GeometryAssumption DEF tt_pgs, pgs_per_line
      <3> QED
        BY <3>1, <3>2 DEF Lpn
    <2>2. UNCHANGED <<mapVars, pageVars, lineVars, listVars, wp, gc>> /\ pc = "idle"
      BY <1>1 DEF StartWrite
    <2>3. pc' \in {"check_gc", "gc_high"} /\ lpn' \in Lpn /\ end_lpn' \in Lpn
      BY <1>1, <2>1 DEF StartWrite, TypeOK
    <2> QED
      BY <2>2, <2>3 DEF TypeInv, TypeOK, Cursors, mapVars, pageVars, lineVars, listVars
  <1>2. CASE GcHighStep
    <2>1. select_victim_line(TRUE, "gc_high")
      BY <1>2 DEF GcHighStep
    <2> QED
      BY <1>2, <2>1, SelectType
         DEF GcHighStep, TypeInv, TypeOK, GcType, Cursors, mapVars, pageVars
  <1>3. CASE GcHighLeave
    BY <1>3 DEF GcHighLeave, TypeInv, TypeOK, Cursors, mapVars, pageVars, lineVars, listVars
  <1>4. CASE InvalidateOld
    <2>1. CASE maptbl[lpn] = UNMAPPED_PPA
      BY <1>4, <2>1 DEF InvalidateOld, TypeInv, TypeOK, Cursors, mapVars, pageVars, lineVars, listVars
    <2>2. CASE maptbl[lpn] # UNMAPPED_PPA
      <3>1. maptbl[lpn] \in Ppa
        BY <2>2 DEF TypeOK
      <3>2. /\ mark_page_invalid(maptbl[lpn])
            /\ rmap' = [rmap EXCEPT ![maptbl[lpn]] = INVALID_LPN]
            /\ pc = "invalidate" /\ pc' = "program"
            /\ UNCHANGED <<maptbl, wp, lpn, end_lpn, gc, free_line_list, free_line_cnt>>
        BY <1>4, <2>2 DEF InvalidateOld, set_rmap_ent, mark_page_invalid
      <3>3. rmap' \in [Ppa -> Lpn \union {INVALID_LPN}]
        BY <3>2 DEF TypeOK
      <3> QED
        BY <3>1, <3>2, <3>3, InvalidateType DEF TypeInv, TypeOK, Cursors
    <2> QED
      BY <2>1, <2>2
  <1>5. CASE WriteNew
    <2>1. /\ lpn' \in Lpn /\ end_lpn' \in Lpn
          /\ \E next \in {"invalidate", "check_gc"} : ProgramPage(lpn, next)
          /\ pc = "program" /\ gc' = gc
      <3>1. lpn < end_lpn => lpn + 1 \in Lpn
        BY Sizes DEF Lpn
      <3>2. 0 \in Lpn
        BY Sizes
      <3> QED
        BY <1>5, <3>1, <3>2 DEF WriteNew, TypeOK
    <2>2. PICK next \in {"invalidate", "check_gc"} : ProgramPage(lpn, next)
      BY <2>1
    <2>3. lpn \in Lpn \union {INVALID_LPN} /\ pc # "oops"
      BY <2>1 DEF TypeOK
    <2>4. ssd_advance_write_pointer
      BY <2>2 DEF ProgramPage
    <2>5. TypeOK'
      <3>1. pc' \in {next, "oops"}
        BY <2>2, <2>3, ProgramType
      <3> QED
        BY <2>1, <2>2, <2>3, <2>4, <3>1, ProgramType, AdvanceType, TypeFromParts DEF TypeInv
    <2>6. Cursors'
      BY <2>1, <2>2, <2>3, ProgramType DEF Cursors
    <2> QED
      BY <2>5, <2>6 DEF TypeInv
  <1>6. CASE CheckGcRun
    <2>1. select_victim_line(FALSE, "idle")
      BY <1>6 DEF CheckGcRun
    <2> QED
      BY <1>6, <2>1, SelectType
         DEF CheckGcRun, TypeInv, TypeOK, GcType, Cursors, mapVars, pageVars
  <1>7. CASE CheckGcSkip
    BY <1>7 DEF CheckGcSkip, TypeInv, TypeOK, Cursors, mapVars, pageVars, lineVars, listVars
  <1>8. CASE GcMovePage
    <2>1. /\ ProgramPage(rmap[GcPpa], "gc_page")
          /\ pc = "gc_page" /\ gc.victim \in Line /\ UNCHANGED <<lpn, end_lpn>>
          /\ gc.pg \in 0 .. pgs_per_blk /\ gc.pg < pgs_per_blk
          /\ gc' = [gc EXCEPT !.pg = @ + 1]
      <3>1. gc.pg \in 0 .. pgs_per_blk
        BY DEF GcType
      <3> QED
        BY <1>8, <3>1, GeometryAssumption DEF GcMovePage, Cursors, BlockCleaned
    <2>2. GcPpa \in Ppa
      <3>1. gc.ch \in Ch /\ gc.lun \in Lun /\ gc.pg \in Pg
        BY <2>1, GeometryAssumption DEF GcType, Pg
      <3> QED
        BY <2>1, <3>1 DEF GcPpa, Ppa
    <2>3. rmap[GcPpa] \in Lpn \union {INVALID_LPN}
      BY <2>2 DEF TypeOK
    <2>4. ssd_advance_write_pointer
      BY <2>1 DEF ProgramPage
    <2>5. gc' \in GcType /\ gc'.victim \in Line
      BY <2>1, GcPgStep
    <2>6. TypeOK'
      <3>1. pc' \in {"gc_page", "oops"}
        BY <2>1, <2>3, ProgramType
      <3> QED
        BY <2>1, <2>3, <2>4, <2>5, <3>1, ProgramType, AdvanceType, TypeFromParts
    <2>7. Cursors'
      BY <2>1, <2>3, <2>5, ProgramType DEF Cursors
    <2> QED
      BY <2>6, <2>7 DEF TypeInv
  <1>9. CASE GcSkipPage
    <2>1. /\ gc.pg \in 0 .. pgs_per_blk /\ gc.pg < pgs_per_blk
          /\ gc' = [gc EXCEPT !.pg = @ + 1] /\ pc = "gc_page"
      <3>1. gc.pg \in 0 .. pgs_per_blk
        BY DEF GcType
      <3> QED
        BY <1>9, <3>1, GeometryAssumption DEF GcSkipPage, BlockCleaned
    <2>2. gc' \in GcType /\ gc'.victim \in Line
      BY <2>1, GcPgStep DEF Cursors
    <2> QED
      BY <1>9, <2>1, <2>2 DEF GcSkipPage, TypeInv, TypeOK, GcType, Cursors, mapVars, pageVars, lineVars, listVars
  <1>10. CASE GcEraseBlock
    <2>1. /\ pc = "gc_page" /\ gc.victim \in Line
          /\ mark_block_free([ch |-> gc.ch, lun |-> gc.lun, blk |-> gc.victim])
          /\ UNCHANGED <<mapVars, lineVars, listVars, wp, lpn, end_lpn>>
      BY <1>10 DEF GcEraseBlock, Cursors
    <2>2. /\ pg_status' \in [Ppa -> PageStatus]
          /\ blk_ipc' \in [Block -> Int] /\ blk_vpc' \in [Block -> Int]
      <3>1. /\ pg_status \in [Ppa -> PageStatus]
            /\ blk_ipc \in [Block -> Int] /\ blk_vpc \in [Block -> Int]
        BY DEF TypeOK
      <3>2. pg_status' \in [Ppa -> PageStatus]
        BY <2>1, <3>1 DEF mark_block_free, PageStatus
      <3>3. blk_ipc' \in [Block -> Int] /\ blk_vpc' \in [Block -> Int]
        <4>1. PICK b : /\ b = [ch |-> gc.ch, lun |-> gc.lun, blk |-> gc.victim]
                       /\ blk_ipc' = [blk_ipc EXCEPT ![b] = 0]
                       /\ blk_vpc' = [blk_vpc EXCEPT ![b] = 0]
          BY <2>1 DEF mark_block_free
        <4>2. b \in Block
          BY <2>1, <4>1 DEF GcType, Block
        <4> QED
          BY <3>1, <4>1, <4>2
      <3> QED
        BY <3>2, <3>3
    <2>3. /\ gc' \in GcType
          /\ gc'.victim \in Line /\ pc' \in {"gc_page", "gc_free_line"}
      <3>1. gc.lun + 1 < luns_per_ch => gc.lun + 1 \in Lun
        BY GeometryAssumption DEF GcType, Lun
      <3>2. gc.ch + 1 < nchs => gc.ch + 1 \in Ch
        BY GeometryAssumption DEF GcType, Ch
      <3>3. 0 \in Lun /\ 0 \in 0 .. pgs_per_blk
        BY GeometryAssumption DEF Lun
      <3> QED
        BY <1>10, <2>1, <3>1, <3>2, <3>3 DEF GcEraseBlock, GcType
    <2> QED
      BY <2>1, <2>2, <2>3 DEF TypeInv, TypeOK, GcType, Cursors, mapVars, lineVars, listVars
  <1>11. CASE GcFreeLine
    <2>1. /\ pc = "gc_free_line" /\ gc.victim \in Line /\ pc' = gc.ret /\ gc' = NoGc
          /\ line_ipc' = [line_ipc EXCEPT ![gc.victim] = 0]
          /\ line_vpc' = [line_vpc EXCEPT ![gc.victim] = 0]
          /\ free_line_list' = Append(free_line_list, gc.victim)
          /\ free_line_cnt' = free_line_cnt + 1
          /\ UNCHANGED <<mapVars, pageVars, line_pos, victim_line_pq, full_line_list,
                         victim_line_cnt, full_line_cnt, wp, lpn, end_lpn>>
      BY <1>11 DEF GcFreeLine, Cursors
    <2>2. /\ line_ipc' \in [Line -> Int] /\ line_vpc' \in [Line -> Int]
          /\ free_line_list' \in Seq(Line) /\ free_line_cnt' \in Int
      BY <2>1 DEF TypeOK
    <2>3. NoGc \in GcType
      BY GeometryAssumption DEF GcType, NoGc, Ch, Lun
    <2>4. gc.ret \in {"idle", "gc_high"}
      BY DEF GcType
    <2> QED
      BY <2>1, <2>2, <2>3, <2>4 DEF TypeInv, TypeOK, GcType, Cursors, mapVars, pageVars
  <1>12. CASE UNCHANGED vars
    BY <1>12 DEF vars, TypeInv, TypeOK, Cursors
  <1> QED
    BY <1>1, <1>2, <1>3, <1>4, <1>5, <1>6, <1>7, <1>8, <1>9, <1>10, <1>11, <1>12
       DEF Next, HostWrite, FtlStep

(* Every variable keeps to its type, and the write pointer, the loop         *)
(* variables and the cleaning cursor stay in the flash.                      *)
THEOREM TypeCorrect == Spec => []TypeOK
  <1>1. Spec => []TypeInv
    BY TypeInit, TypeNext, PTL DEF Spec
  <1>2. TypeInv => TypeOK
    BY DEF TypeInv
  <1> QED
    BY <1>1, <1>2, PTL

-----------------------------------------------------------------------------
(* Sequences without repetition, for the free list *)

Elems(s) == {s[i] : i \in 1 .. Len(s)}

Distinct(s) == \A i, j \in 1 .. Len(s) : s[i] = s[j] => i = j

LEMMA TailElems ==
  ASSUME NEW S, NEW s \in Seq(S), s # <<>>, Distinct(s)
  PROVE  /\ Head(s) \in S /\ Tail(s) \in Seq(S)
         /\ Elems(Tail(s)) = Elems(s) \ {Head(s)}
         /\ Head(s) \in Elems(s)
         /\ Distinct(Tail(s))
  <1>1. /\ Head(s) \in S /\ Tail(s) \in Seq(S)
        /\ Len(s) \in Nat /\ Len(s) > 0 /\ Len(Tail(s)) = Len(s) - 1 /\ Head(s) = s[1]
        /\ \A i \in 1 .. Len(s) - 1 : Tail(s)[i] = s[i + 1]
    OBVIOUS
  <1>2. Head(s) \in Elems(s)
    BY <1>1 DEF Elems
  <1>3. Distinct(Tail(s))
    BY <1>1 DEF Distinct
  <1>4. ASSUME NEW x \in Elems(Tail(s)) PROVE x \in Elems(s) \ {Head(s)}
    <2>1. PICK i \in 1 .. Len(s) - 1 : x = s[i + 1]
      BY <1>1 DEF Elems
    <2>2. i + 1 \in 1 .. Len(s) /\ i + 1 # 1
      BY <1>1
    <2>3. s[i + 1] # s[1]
      BY <1>1, <2>2 DEF Distinct
    <2> QED
      BY <1>1, <2>1, <2>2, <2>3 DEF Elems
  <1>5. ASSUME NEW x \in Elems(s) \ {Head(s)} PROVE x \in Elems(Tail(s))
    <2>1. PICK i \in 1 .. Len(s) : x = s[i] /\ i # 1
      BY <1>1 DEF Elems
    <2>2. i - 1 \in 1 .. Len(s) - 1 /\ Tail(s)[i - 1] = x
      BY <1>1, <2>1
    <2> QED
      BY <1>1, <2>2 DEF Elems
  <1> QED
    BY <1>1, <1>2, <1>3, <1>4, <1>5

LEMMA AppendElems ==
  ASSUME NEW S, NEW s \in Seq(S), NEW e \in S, e \notin Elems(s), Distinct(s)
  PROVE  /\ Elems(Append(s, e)) = Elems(s) \union {e}
         /\ Distinct(Append(s, e))
  <1>1. /\ Len(s) \in Nat /\ Len(Append(s, e)) = Len(s) + 1
        /\ Append(s, e)[Len(s) + 1] = e
        /\ \A i \in 1 .. Len(s) : Append(s, e)[i] = s[i]
    OBVIOUS
  <1>2. \A i \in 1 .. Len(s) : s[i] # e
    BY DEF Elems
  <1>3. Distinct(Append(s, e))
    BY <1>1, <1>2 DEF Distinct
  <1>4. ASSUME NEW x \in Elems(Append(s, e)) PROVE x \in Elems(s) \union {e}
    BY <1>1 DEF Elems
  <1>5. ASSUME NEW x \in Elems(s) \union {e} PROVE x \in Elems(Append(s, e))
    <2>1. CASE x = e
      <3>1. Len(s) + 1 \in 1 .. Len(Append(s, e))
        BY <1>1
      <3> QED
        BY <1>1, <2>1, <3>1 DEF Elems
    <2>2. CASE x \in Elems(s)
      BY <1>1, <2>2 DEF Elems
    <2> QED
      BY <2>1, <2>2
  <1> QED
    BY <1>3, <1>4, <1>5

-----------------------------------------------------------------------------
(* The write pointer walks a line page by page *)

(* The number of pages written before the pointer w in its line. *)
Idx(w) == (w.pg * luns_per_ch + w.lun) * nchs + w.ch

(* The pointer w has passed page p of its line. *)
Before(w, p) ==
  \/ p.pg < w.pg
  \/ p.pg = w.pg /\ p.lun < w.lun
  \/ p.pg = w.pg /\ p.lun = w.lun /\ p.ch < w.ch

At(w, p) == p.pg = w.pg /\ p.lun = w.lun /\ p.ch = w.ch

LEMMA Distribute == \A a, b, n \in Int : (a + b) * n = a * n + b * n
  OBVIOUS

LEMMA Monotone == \A a, b \in Int, n \in Nat : a <= b => a * n <= b * n
  OBVIOUS

LEMMA IdxRange ==
  ASSUME TypeInv
  PROVE  Idx(wp) \in Nat /\ Idx(wp) < pgs_per_line
  <1>1. /\ wp.ch \in 0 .. nchs - 1 /\ wp.lun \in 0 .. luns_per_ch - 1
        /\ wp.pg \in 0 .. pgs_per_blk - 1
    BY DEF TypeInv, TypeOK, Ch, Lun, Pg
  <1> DEFINE L == luns_per_ch
             N == nchs
             P == pgs_per_blk
             a == wp.pg * L + wp.lun
  <1>2. L \in Nat \ {0} /\ N \in Nat \ {0} /\ P \in Nat \ {0}
    BY GeometryAssumption
  <1>3. a \in Nat /\ a <= P * L - 1
    <2>1. wp.pg * L <= (P - 1) * L
      BY <1>1, <1>2, Monotone
    <2>2. (P - 1) * L = P * L - L
      BY <1>2
    <2>3. wp.pg * L \in Nat /\ P * L \in Nat
      BY <1>1, <1>2
    <2> QED
      BY <1>1, <1>2, <2>1, <2>2, <2>3
  <1>4. a * N <= (P * L - 1) * N
    <2>1. P * L - 1 \in Int
      BY <1>2
    <2> QED
      BY <1>2, <1>3, <2>1, Monotone
  <1>5. (P * L - 1) * N = P * (L * N) - N
    BY <1>2
  <1>6. a * N \in Nat /\ P * (L * N) \in Nat
    BY <1>2, <1>3
  <1> QED
    BY <1>1, <1>2, <1>4, <1>5, <1>6 DEF Idx, pgs_per_line

WpRange == /\ wp.ch \in 0 .. nchs - 1 /\ wp.lun \in 0 .. luns_per_ch - 1
           /\ wp.pg \in 0 .. pgs_per_blk - 1

LEMMA AdvanceWithin ==
  ASSUME TypeInv, ssd_advance_write_pointer, ~LastPage
  PROVE  /\ UNCHANGED <<listVars, line_pos>>
         /\ wp'.curline = wp.curline /\ wp'.blk = wp.blk
         /\ Idx(wp') = Idx(wp) + 1
         /\ \A p \in Ppa : Before(wp', p) <=> Before(wp, p) \/ At(wp, p)
  <1> DEFINE WpType == [curline : Line \union {NULL}, ch : Ch, lun : Lun, pg : Pg, blk : Line]
  <1>1. WpRange /\ wp \in WpType
    BY DEF WpRange, TypeInv, TypeOK, Ch, Lun, Pg
  <1>2. nchs \in Nat \ {0} /\ luns_per_ch \in Nat \ {0} /\ pgs_per_blk \in Nat \ {0}
    BY GeometryAssumption
  <1>3. \A p \in Ppa : /\ p.ch \in 0 .. nchs - 1 /\ p.lun \in 0 .. luns_per_ch - 1
                       /\ p.pg \in 0 .. pgs_per_blk - 1
    BY DEF Ppa, Ch, Lun, Pg
  <1>4. CASE ~LastCh
    <2>1. wp' = [wp EXCEPT !.ch = @ + 1] /\ UNCHANGED <<listVars, line_pos>>
      BY <1>4 DEF ssd_advance_write_pointer, LastLun, LastPage
    <2>2. /\ wp'.ch = wp.ch + 1 /\ wp'.lun = wp.lun /\ wp'.pg = wp.pg
          /\ wp'.curline = wp.curline /\ wp'.blk = wp.blk
      BY <1>1, <2>1
    <2>3. Idx(wp') = Idx(wp) + 1
      <3>1. wp.pg * luns_per_ch \in Int
        BY <1>1, <1>2 DEF WpRange
      <3>2. (wp.pg * luns_per_ch + wp.lun) * nchs \in Int
        BY <1>1, <1>2, <3>1 DEF WpRange
      <3> QED
        BY <1>1, <2>2, <3>2 DEF Idx, WpRange
    <2>4. \A p \in Ppa : Before(wp', p) <=> Before(wp, p) \/ At(wp, p)
      BY <1>1, <1>3, <2>2 DEF Before, At, WpRange
    <2> QED
      BY <2>1, <2>2, <2>3, <2>4
  <1>5. CASE LastCh /\ ~LastLun
    <2>1. wp' = [wp EXCEPT !.ch = 0, !.lun = @ + 1] /\ UNCHANGED <<listVars, line_pos>>
      BY <1>5 DEF ssd_advance_write_pointer, LastPage
    <2>2. /\ wp'.ch = 0 /\ wp'.lun = wp.lun + 1 /\ wp'.pg = wp.pg /\ wp.ch = nchs - 1
          /\ wp'.curline = wp.curline /\ wp'.blk = wp.blk
      BY <1>1, <1>2, <1>5, <2>1 DEF LastCh, WpRange
    <2>3. Idx(wp') = Idx(wp) + 1
      <3>1. wp.pg * luns_per_ch \in Int
        BY <1>1, <1>2 DEF WpRange
      <3> DEFINE a == wp.pg * luns_per_ch + wp.lun
      <3>2. a \in Int /\ wp.pg * luns_per_ch + (wp.lun + 1) = a + 1
        BY <1>1, <3>1 DEF WpRange
      <3>3. (a + 1) * nchs = a * nchs + nchs /\ a * nchs \in Int
        BY <1>2, <3>2, Distribute
      <3> QED
        BY <1>1, <1>2, <2>2, <3>2, <3>3 DEF Idx, WpRange
    <2>4. \A p \in Ppa : Before(wp', p) <=> Before(wp, p) \/ At(wp, p)
      BY <1>1, <1>3, <2>2 DEF Before, At, WpRange
    <2> QED
      BY <2>1, <2>2, <2>3, <2>4
  <1>6. CASE LastLun
    <2>1. wp' = [wp EXCEPT !.ch = 0, !.lun = 0, !.pg = @ + 1] /\ UNCHANGED <<listVars, line_pos>>
      BY <1>6 DEF ssd_advance_write_pointer, LastLun
    <2>2. /\ wp'.ch = 0 /\ wp'.lun = 0 /\ wp'.pg = wp.pg + 1
          /\ wp.ch = nchs - 1 /\ wp.lun = luns_per_ch - 1
          /\ wp'.curline = wp.curline /\ wp'.blk = wp.blk
      BY <1>1, <1>2, <1>6, <2>1 DEF LastCh, LastLun, WpRange
    <2>3. Idx(wp') = Idx(wp) + 1
      <3> DEFINE a == wp.pg * luns_per_ch
      <3>1. a \in Int /\ (wp.pg + 1) * luns_per_ch = a + luns_per_ch
        BY <1>1, <1>2, Distribute DEF WpRange
      <3>2. a + luns_per_ch = (a + wp.lun) + 1 /\ a + wp.lun \in Int
        BY <1>1, <1>2, <2>2, <3>1 DEF WpRange
      <3>3. ((a + wp.lun) + 1) * nchs = (a + wp.lun) * nchs + nchs /\ (a + wp.lun) * nchs \in Int
        BY <1>2, <3>2, Distribute
      <3>4. Idx(wp') = (a + luns_per_ch) * nchs
        <4>1. (wp.pg + 1) * luns_per_ch + 0 = a + luns_per_ch
          BY <1>2, <3>1
        <4>2. (a + luns_per_ch) * nchs \in Int
          BY <1>2, <3>1
        <4> QED
          BY <2>2, <4>1, <4>2 DEF Idx
      <3> QED
        BY <1>1, <1>2, <2>2, <3>2, <3>3, <3>4 DEF Idx, WpRange
    <2>4. \A p \in Ppa : Before(wp', p) <=> Before(wp, p) \/ At(wp, p)
      BY <1>1, <1>3, <2>2 DEF Before, At, WpRange
    <2> QED
      BY <2>1, <2>2, <2>3, <2>4
  <1> QED
    BY <1>4, <1>5, <1>6 DEF LastLun

LEMMA AtLastPage ==
  ASSUME TypeInv, LastPage
  PROVE  /\ Idx(wp) + 1 = pgs_per_line
         /\ \A p \in Ppa : Before(wp, p) \/ At(wp, p)
  <1>1. WpRange
    BY DEF WpRange, TypeInv, TypeOK, Ch, Lun, Pg
  <1>2. nchs \in Nat \ {0} /\ luns_per_ch \in Nat \ {0} /\ pgs_per_blk \in Nat \ {0}
    BY GeometryAssumption
  <1>3. wp.ch = nchs - 1 /\ wp.lun = luns_per_ch - 1 /\ wp.pg = pgs_per_blk - 1
    BY <1>1, <1>2 DEF LastPage, LastLun, LastCh, WpRange
  <1>4. \A p \in Ppa : Before(wp, p) \/ At(wp, p)
    BY <1>2, <1>3 DEF Before, At, Ppa, Ch, Lun, Pg
  <1>5. Idx(wp) + 1 = pgs_per_line
    <2> DEFINE L == luns_per_ch
               N == nchs
               P == pgs_per_blk
    <2>1. (P - 1) * L + (L - 1) = P * L - 1
      BY <1>2
    <2>2. (P * L - 1) * N = P * (L * N) - N
      BY <1>2
    <2>3. P * (L * N) \in Int
      BY <1>2
    <2> QED
      BY <1>2, <1>3, <2>1, <2>2, <2>3 DEF Idx, pgs_per_line
  <1> QED
    BY <1>4, <1>5

-----------------------------------------------------------------------------
(* The inductive invariant *)

(* A line is in one place, and its valid page count tells full lines from   *)
(* victims; that of the current line counts at most the pages written.      *)
LinesInv ==
  /\ Distinct(free_line_list)
  /\ \A l \in FreeLines :
       /\ l \notin victim_line_pq /\ l \notin full_line_list
       /\ l # wp.curline /\ l # gc.victim /\ line_vpc[l] = 0
  /\ \A l \in victim_line_pq :
       /\ l \notin full_line_list
       /\ l # wp.curline /\ l # gc.victim /\ line_vpc[l] < pgs_per_line
  /\ \A l \in full_line_list :
       l # wp.curline /\ l # gc.victim /\ line_vpc[l] = pgs_per_line
  /\ wp.curline \in Line =>
       wp.curline # gc.victim /\ line_vpc[wp.curline] <= Idx(wp)
  /\ \A l \in Line : \/ l \in FreeLines \/ l \in victim_line_pq \/ l \in full_line_list
                     \/ l = wp.curline \/ l = gc.victim

(* Cleaning has erased the block of page p. *)
Erased(p) == p.ch < gc.ch \/ (p.ch = gc.ch /\ p.lun < gc.lun)

(* Which pages are erased: all those of the free list's lines, none of a    *)
(* line that was used up, those the write pointer has yet to reach, and     *)
(* those cleaning has left behind.                                          *)
PagesInv ==
  /\ \A p \in Ppa : p.blk \in FreeLines => pg_status[p] = "PG_FREE"
  /\ \A p \in Ppa : p.blk \in victim_line_pq \/ p.blk \in full_line_list =>
       pg_status[p] # "PG_FREE"
  /\ \A p \in Ppa : p.blk = wp.curline => (pg_status[p] = "PG_FREE" <=> ~Before(wp, p))
  /\ pc = "gc_page" =>
       \A p \in Ppa : p.blk = gc.victim => (pg_status[p] = "PG_FREE" <=> Erased(p))
  /\ pc = "gc_free_line" =>
       \A p \in Ppa : p.blk = gc.victim => pg_status[p] = "PG_FREE"

MapInv ==
  /\ MappingConsistent
  /\ NoOrphan
  /\ pc = "program" =>
       maptbl[lpn] = UNMAPPED_PPA \/ pg_status[maptbl[lpn]] = "PG_INVALID"
  /\ pc = "gc_page" => \A p \in Ppa, l \in Lpn : Passed(p) => maptbl[l] # p

FtlInv == TypeInv /\ LinesInv /\ PagesInv /\ MapInv

LEMMA FreeIsElems == FreeLines = Elems(free_line_list)
  BY DEF FreeLines, Elems

LEMMA FtlInit == Init => FtlInv
  <1> SUFFICES ASSUME Init PROVE FtlInv
    OBVIOUS
  <1>0. TypeInv
    BY TypeInit
  <1> USE DEF Init, ssd_init_nand, ssd_init_maptbl, ssd_init_rmap, ssd_init_lines,
              ssd_init_write_pointer
  <1>1. /\ free_line_list = [i \in 1 .. blks_per_pl - 1 |-> i]
        /\ Len(free_line_list) = blks_per_pl - 1
    BY GeometryAssumption
  <1>2. FreeLines = 1 .. blks_per_pl - 1
    BY <1>1 DEF FreeLines
  <1>3. Idx(wp) = 0 /\ wp.curline = 0 /\ gc.victim = NULL /\ NULL \notin Line
    <2>1. 0 * luns_per_ch = 0 /\ 0 * nchs = 0
      BY GeometryAssumption
    <2> QED
      BY <2>1, NullAssumption DEF Idx, NoGc
  <1>4. \A l \in Line : line_vpc[l] = 0
    OBVIOUS
  <1>5. LinesInv
    BY <1>1, <1>2, <1>3, <1>4, GeometryAssumption DEF LinesInv, Distinct, Line
  <1>6. PagesInv
    <2>1. \A p \in Ppa : pg_status[p] = "PG_FREE" /\ ~Before(wp, p)
      BY GeometryAssumption DEF Before, Ppa, Ch, Lun, Pg
    <2> QED
      BY <1>3, <2>1 DEF PagesInv
  <1>7. MapInv
    BY DEF MapInv, MappingConsistent, NoOrphan
  <1> QED
    BY <1>0, <1>5, <1>6, <1>7 DEF FtlInv

-----------------------------------------------------------------------------
(* A page is programmed *)

(* The page under the write pointer is an erased page of the current line,  *)
(* and the only page there.                                                 *)
LEMMA NewPage ==
  ASSUME FtlInv, pc # "oops"
  PROVE  /\ get_new_page \in Ppa /\ get_new_page.blk = wp.curline /\ wp.curline \in Line
         /\ At(wp, get_new_page)
         /\ \A p \in Ppa : p.blk = wp.curline /\ At(wp, p) => p = get_new_page
         /\ pg_status[get_new_page] = "PG_FREE"
  <1>1. /\ wp.ch \in Ch /\ wp.lun \in Lun /\ wp.pg \in Pg /\ wp.blk \in Line
        /\ wp.curline = wp.blk
    BY DEF FtlInv, TypeInv, TypeOK, Cursors
  <1>2. get_new_page \in Ppa /\ get_new_page.blk = wp.curline /\ At(wp, get_new_page)
    BY <1>1 DEF get_new_page, Ppa, At
  <1>3. \A p \in Ppa : p.blk = wp.curline /\ At(wp, p) => p = get_new_page
    BY <1>1 DEF get_new_page, Ppa, At
  <1>4. ~Before(wp, get_new_page)
    BY <1>1, <1>2 DEF Before, At, Ch, Lun, Pg
  <1> QED
    BY <1>1, <1>2, <1>3, <1>4 DEF FtlInv, PagesInv

LEMMA ProgramLines ==
  ASSUME FtlInv, pc # "oops", NEW l, NEW next, ProgramPage(l, next), gc'.victim = gc.victim
  PROVE  LinesInv'
  <1>1. TypeInv /\ LinesInv /\ TypeOK
    BY DEF FtlInv, TypeInv
  <1> DEFINE cur == wp.curline
  <1>2. cur \in Line /\ NULL \notin Line /\ get_new_page.blk = cur
    BY NewPage, NullAssumption
  <1>3. /\ line_vpc \in [Line -> Int]
        /\ line_vpc' = [line_vpc EXCEPT ![cur] = @ + 1]
        /\ ssd_advance_write_pointer
    BY <1>1, <1>2 DEF ProgramPage, mark_page_valid, TypeOK
  <1>4. /\ line_vpc'[cur] = line_vpc[cur] + 1
        /\ \A k \in Line : k # cur => line_vpc'[k] = line_vpc[k]
        /\ line_vpc[cur] \in Int /\ line_vpc[cur] <= Idx(wp)
    BY <1>1, <1>2, <1>3 DEF LinesInv
  <1>5. /\ free_line_list \in Seq(Line) /\ FreeLines \subseteq Line
        /\ victim_line_pq \subseteq Line /\ full_line_list \subseteq Line
    BY <1>1 DEF TypeOK, FreeLines
  <1>6. Idx(wp) \in Nat /\ pgs_per_line \in Nat
    BY <1>1, IdxRange, Sizes
  <1>7. CASE ~LastPage
    <2>1. /\ UNCHANGED <<free_line_list, victim_line_pq, full_line_list>>
          /\ wp'.curline = cur /\ Idx(wp') = Idx(wp) + 1
      BY <1>1, <1>3, <1>7, AdvanceWithin DEF listVars
    <2>2. FreeLines' = FreeLines
      BY <2>1 DEF FreeLines
    <2>3. line_vpc'[cur] <= Idx(wp')
      BY <1>4, <1>6, <2>1
    <2> QED
      BY <1>1, <1>2, <1>4, <1>5, <2>1, <2>2, <2>3 DEF LinesInv
  <1>8. CASE LastPage
    <2>1. RetireLine /\ get_next_free_line
      BY <1>3, <1>8 DEF ssd_advance_write_pointer, LastPage, LastLun
    <2>2. line_vpc'[cur] <= pgs_per_line
      BY <1>1, <1>4, <1>6, <1>8, AtLastPage
    <2>3. \/ /\ line_vpc'[cur] = pgs_per_line
             /\ full_line_list' = full_line_list \union {cur}
             /\ victim_line_pq' = victim_line_pq
          \/ /\ line_vpc'[cur] < pgs_per_line
             /\ full_line_list' = full_line_list
             /\ victim_line_pq' = victim_line_pq \union {cur}
      BY <1>4, <1>6, <2>1, <2>2 DEF RetireLine
    <2>4. CASE free_line_list = <<>>
      <3>1. wp'.curline = NULL /\ free_line_list' = free_line_list
        BY <2>1, <2>4 DEF get_next_free_line
      <3>2. FreeLines' = FreeLines
        BY <3>1 DEF FreeLines
      <3> QED
        BY <1>1, <1>2, <1>4, <1>5, <2>3, <3>1, <3>2 DEF LinesInv
    <2>5. CASE free_line_list # <<>>
      <3>1. /\ free_line_list' = Tail(free_line_list)
            /\ wp' = [curline |-> Head(free_line_list), ch |-> 0, lun |-> 0,
                      pg |-> 0, blk |-> Head(free_line_list)]
        BY <2>1, <2>5 DEF get_next_free_line
      <3>2. /\ Head(free_line_list) \in FreeLines
            /\ FreeLines' = FreeLines \ {Head(free_line_list)}
            /\ Distinct(free_line_list')
        <4>1. Distinct(free_line_list)
          BY <1>1 DEF LinesInv
        <4>2. FreeLines' = Elems(free_line_list')
          BY DEF FreeLines, Elems
        <4> QED
          BY <1>5, <2>5, <3>1, <4>1, <4>2, TailElems, FreeIsElems
      <3>3. wp'.curline = Head(free_line_list) /\ Idx(wp') = 0
        <4>1. 0 * luns_per_ch = 0 /\ 0 * nchs = 0
          BY GeometryAssumption
        <4> QED
          BY <3>1, <4>1 DEF Idx
      <3> QED
        BY <1>1, <1>2, <1>4, <1>5, <2>3, <3>2, <3>3 DEF LinesInv
    <2> QED
      BY <2>4, <2>5
  <1> QED
    BY <1>7, <1>8

LEMMA ProgramPages ==
  ASSUME FtlInv, pc # "oops", NEW l, NEW next, ProgramPage(l, next),
         gc'.victim = gc.victim, gc'.ch = gc.ch, gc'.lun = gc.lun,
         next = "gc_page" => pc = "gc_page", next # "gc_free_line"
  PROVE  PagesInv'
  <1>1. TypeInv /\ LinesInv /\ PagesInv /\ TypeOK
    BY DEF FtlInv, TypeInv
  <1> DEFINE cur == wp.curline
             ppa == get_new_page
  <1>2. /\ cur \in Line /\ NULL \notin Line /\ ppa \in Ppa /\ ppa.blk = cur /\ At(wp, ppa)
        /\ \A p \in Ppa : p.blk = cur /\ At(wp, p) => p = ppa
        /\ cur # gc.victim
    BY <1>1, NewPage, NullAssumption DEF LinesInv
  <1>3. /\ pg_status \in [Ppa -> PageStatus]
        /\ pg_status' = [pg_status EXCEPT ![ppa] = "PG_VALID"]
        /\ ssd_advance_write_pointer
        /\ pc' \in {next, "oops"}
    BY <1>1 DEF ProgramPage, mark_page_valid, TypeOK
  <1>4. /\ pg_status'[ppa] = "PG_VALID"
        /\ \A p \in Ppa : p # ppa => pg_status'[p] = pg_status[p]
    BY <1>2, <1>3
  <1>5. /\ free_line_list \in Seq(Line) /\ FreeLines \subseteq Line
        /\ cur \notin FreeLines
    <2>1. free_line_list \in Seq(Line)
      BY <1>1 DEF TypeOK
    <2>2. FreeLines \subseteq Line
      BY <2>1 DEF FreeLines
    <2>3. cur \notin FreeLines
      BY <1>1 DEF LinesInv
    <2> QED
      BY <2>1, <2>2, <2>3
  <1>6. /\ pc' = "gc_page" =>
             \A p \in Ppa : p.blk = gc'.victim => (pg_status'[p] = "PG_FREE" <=> Erased(p)')
        /\ pc' # "gc_free_line"
    BY <1>1, <1>2, <1>3, <1>4 DEF PagesInv, Erased
  <1>7. CASE ~LastPage
    <2>1. /\ UNCHANGED <<free_line_list, victim_line_pq, full_line_list>>
          /\ wp'.curline = cur
          /\ \A p \in Ppa : Before(wp', p) <=> Before(wp, p) \/ At(wp, p)
      BY <1>1, <1>3, <1>7, AdvanceWithin DEF listVars
    <2>2. FreeLines' = FreeLines
      BY <2>1 DEF FreeLines
    <2>3. \A p \in Ppa : p.blk = wp'.curline => (pg_status'[p] = "PG_FREE" <=> ~Before(wp', p))
      BY <1>1, <1>2, <1>4, <2>1 DEF PagesInv
    <2> QED
      BY <1>1, <1>2, <1>4, <1>5, <1>6, <2>1, <2>2, <2>3 DEF PagesInv, LinesInv
  <1>8. CASE LastPage
    <2>1. RetireLine /\ get_next_free_line
      BY <1>3, <1>8 DEF ssd_advance_write_pointer, LastPage, LastLun
    <2>2. \A p \in Ppa : p.blk = cur => pg_status'[p] # "PG_FREE"
      BY <1>1, <1>2, <1>4, <1>8, AtLastPage DEF PagesInv
    <2>3. \A p \in Ppa : p.blk \in victim_line_pq' \/ p.blk \in full_line_list' =>
            pg_status'[p] # "PG_FREE"
      <3>1. victim_line_pq' \subseteq victim_line_pq \union {cur}
        BY <2>1 DEF RetireLine
      <3>2. full_line_list' \subseteq full_line_list \union {cur}
        BY <2>1 DEF RetireLine
      <3> QED
        BY <1>1, <1>2, <1>4, <2>2, <3>1, <3>2 DEF PagesInv
    <2>4. CASE free_line_list = <<>>
      <3>1. wp'.curline = NULL /\ free_line_list' = free_line_list
        BY <2>1, <2>4 DEF get_next_free_line
      <3>2. FreeLines' = FreeLines
        BY <3>1 DEF FreeLines
      <3>3. \A p \in Ppa : p.blk # NULL
        BY <1>2 DEF Ppa
      <3> QED
        BY <1>1, <1>2, <1>4, <1>5, <1>6, <2>3, <3>1, <3>2, <3>3 DEF PagesInv
    <2>5. CASE free_line_list # <<>>
      <3>1. /\ free_line_list' = Tail(free_line_list)
            /\ wp' = [curline |-> Head(free_line_list), ch |-> 0, lun |-> 0,
                      pg |-> 0, blk |-> Head(free_line_list)]
        BY <2>1, <2>5 DEF get_next_free_line
      <3>2. Head(free_line_list) \in FreeLines /\ FreeLines' \subseteq FreeLines
        <4>1. Distinct(free_line_list)
          BY <1>1 DEF LinesInv
        <4>2. FreeLines' = Elems(free_line_list')
          BY DEF FreeLines, Elems
        <4> QED
          BY <1>5, <2>5, <3>1, <4>1, <4>2, TailElems, FreeIsElems
      <3>3. wp'.curline \in FreeLines /\ \A p \in Ppa : ~Before(wp', p)
        BY <3>1, <3>2 DEF Before, Ppa, Ch, Lun, Pg
      <3> QED
        BY <1>1, <1>2, <1>4, <1>5, <1>6, <2>3, <3>2, <3>3 DEF PagesInv
    <2> QED
      BY <2>4, <2>5
  <1> QED
    BY <1>7, <1>8

(* The mapping after a page was programmed, whatever the two callers then   *)
(* do with their loop variables.                                            *)
LEMMA ProgramMap ==
  ASSUME FtlInv, pc # "oops", NEW l \in Lpn, NEW next, ProgramPage(l, next)
  PROVE  /\ maptbl'[l] = get_new_page /\ rmap'[get_new_page] = l
         /\ pg_status'[get_new_page] = "PG_VALID"
         /\ \A k \in Lpn : k # l => maptbl'[k] = maptbl[k]
         /\ \A p \in Ppa : p # get_new_page =>
              rmap'[p] = rmap[p] /\ pg_status'[p] = pg_status[p]
         /\ get_new_page \in Ppa /\ pg_status[get_new_page] = "PG_FREE"
  <1>1. /\ maptbl \in [Lpn -> Ppa \union {UNMAPPED_PPA}]
        /\ rmap \in [Ppa -> Lpn \union {INVALID_LPN}]
        /\ pg_status \in [Ppa -> PageStatus]
    BY DEF FtlInv, TypeInv, TypeOK
  <1>2. get_new_page \in Ppa /\ pg_status[get_new_page] = "PG_FREE"
    BY NewPage
  <1>3. /\ maptbl' = [maptbl EXCEPT ![l] = get_new_page]
        /\ rmap' = [rmap EXCEPT ![get_new_page] = l]
        /\ pg_status' = [pg_status EXCEPT ![get_new_page] = "PG_VALID"]
    BY DEF ProgramPage, set_rmap_ent, mark_page_valid
  <1> QED
    BY <1>1, <1>2, <1>3

LEMMA WriteMap ==
  ASSUME FtlInv, WriteNew
  PROVE  MapInv'
  <1>1. /\ TypeOK /\ Cursors /\ MapInv
        /\ maptbl \in [Lpn -> Ppa \union {UNMAPPED_PPA}] /\ lpn \in Lpn
    BY DEF FtlInv, TypeInv, TypeOK
  <1>2. /\ pc = "program" /\ gc = NoGc /\ gc' = gc
        /\ \E next \in {"invalidate", "check_gc"} : ProgramPage(lpn, next)
    BY <1>1 DEF WriteNew, Cursors
  <1>3. PICK next \in {"invalidate", "check_gc"} : ProgramPage(lpn, next)
    BY <1>2
  <1>4. pc' \in {"invalidate", "check_gc", "oops"}
    BY <1>3 DEF ProgramPage
  <1> DEFINE ppa == get_new_page
  <1>5. /\ maptbl'[lpn] = ppa /\ rmap'[ppa] = lpn
        /\ pg_status'[ppa] = "PG_VALID"
        /\ \A k \in Lpn : k # lpn => maptbl'[k] = maptbl[k]
        /\ \A p \in Ppa : p # ppa => rmap'[p] = rmap[p] /\ pg_status'[p] = pg_status[p]
        /\ ppa \in Ppa /\ pg_status[ppa] = "PG_FREE"
    BY <1>1, <1>2, <1>3, ProgramMap
  <1>6. MappingConsistent'
    <2> SUFFICES ASSUME NEW k \in Lpn, maptbl'[k] # UNMAPPED_PPA
                 PROVE  rmap'[maptbl'[k]] = k /\ pg_status'[maptbl'[k]] = "PG_VALID"
      BY DEF MappingConsistent
    <2>1. CASE k = lpn
      BY <1>5, <2>1
    <2>2. CASE k # lpn
      BY <1>1, <1>5, <2>2 DEF MapInv, MappingConsistent
    <2> QED
      BY <2>1, <2>2
  <1>7. NoOrphan'
    <2>1. \A p \in Ppa : ~Passed(p) /\ ~Passed(p)'
      <3>1. \A p \in Ppa : p.blk # NULL
        BY NullAssumption DEF Ppa
      <3> QED
        BY <1>2, <3>1 DEF Passed, NoGc
    <2> SUFFICES ASSUME NEW p \in Ppa, pg_status'[p] = "PG_VALID"
                 PROVE  rmap'[p] \in Lpn /\ maptbl'[rmap'[p]] = p
      BY DEF NoOrphan
    <2>2. CASE p = ppa
      BY <1>1, <1>5, <2>2
    <2>3. CASE p # ppa
      <3>1. rmap[p] \in Lpn /\ maptbl[rmap[p]] = p /\ pg_status[p] = "PG_VALID"
        BY <1>1, <1>5, <2>1, <2>3 DEF MapInv, NoOrphan
      <3>2. rmap[p] # lpn
        BY <1>1, <1>2, <3>1, NullAssumption DEF MapInv
      <3> QED
        BY <1>5, <2>3, <3>1, <3>2
    <2> QED
      BY <2>2, <2>3
  <1> QED
    BY <1>4, <1>6, <1>7 DEF MapInv

LEMMA MoveMap ==
  ASSUME FtlInv, GcMovePage
  PROVE  /\ MapInv' /\ rmap[GcPpa] \in Lpn
         /\ gc'.victim = gc.victim /\ gc'.ch = gc.ch /\ gc'.lun = gc.lun
  <1>1. /\ TypeOK /\ Cursors /\ MapInv /\ gc \in GcType
        /\ maptbl \in [Lpn -> Ppa \union {UNMAPPED_PPA}]
    BY DEF FtlInv, TypeInv, TypeOK, GcType
  <1>2. /\ pc = "gc_page" /\ gc.victim \in Line /\ pg_status[GcPpa] = "PG_VALID"
        /\ ProgramPage(rmap[GcPpa], "gc_page")
        /\ gc.pg \in 0 .. pgs_per_blk /\ gc.pg < pgs_per_blk
        /\ gc' = [gc EXCEPT !.pg = @ + 1]
    <2>1. gc.pg \in 0 .. pgs_per_blk
      BY <1>1 DEF GcType
    <2> QED
      BY <1>1, <2>1, GeometryAssumption DEF GcMovePage, Cursors, BlockCleaned
  <1>3. /\ gc'.victim = gc.victim /\ gc'.ch = gc.ch /\ gc'.lun = gc.lun /\ gc'.pg = gc.pg + 1
    BY <1>1, <1>2 DEF GcType
  <1> DEFINE old == GcPpa
             ppa == get_new_page
             l == rmap[GcPpa]
  <1>4. old \in Ppa /\ old.pg = gc.pg /\ old.blk = gc.victim /\ old.ch = gc.ch /\ old.lun = gc.lun
    <2>1. gc.ch \in Ch /\ gc.lun \in Lun /\ gc.pg \in Pg
      BY <1>1, <1>2, GeometryAssumption DEF GcType, Pg
    <2> QED
      BY <1>2, <2>1 DEF GcPpa, Ppa
  <1>5. l \in Lpn /\ maptbl[l] = old
    <2>1. ~Passed(old)
      BY <1>2, <1>4 DEF Passed
    <2> QED
      BY <1>1, <1>2, <1>4, <2>1 DEF MapInv, NoOrphan
  <1>6. /\ maptbl'[l] = ppa /\ rmap'[ppa] = l
        /\ pg_status'[ppa] = "PG_VALID"
        /\ \A k \in Lpn : k # l => maptbl'[k] = maptbl[k]
        /\ \A p \in Ppa : p # ppa => rmap'[p] = rmap[p] /\ pg_status'[p] = pg_status[p]
        /\ ppa \in Ppa /\ pg_status[ppa] = "PG_FREE"
    BY <1>2, <1>5, ProgramMap
  <1>7. pc' \in {"gc_page", "oops"}
    BY <1>2 DEF ProgramPage
  <1>8. \A p \in Ppa : Passed(p)' <=> Passed(p) \/ p = old
    <2>1. \A p \in Ppa : p.pg < gc.pg + 1 <=> p.pg < gc.pg \/ p.pg = gc.pg
      BY <1>2 DEF Ppa, Pg
    <2>2. \A p \in Ppa : p.blk = gc.victim /\ p.ch = gc.ch /\ p.lun = gc.lun /\ p.pg = gc.pg
            <=> p = old
      BY <1>4 DEF Ppa
    <2> QED
      BY <1>2, <1>3, <1>7, <2>1, <2>2 DEF Passed
  <1>9. MappingConsistent'
    <2> SUFFICES ASSUME NEW k \in Lpn, maptbl'[k] # UNMAPPED_PPA
                 PROVE  rmap'[maptbl'[k]] = k /\ pg_status'[maptbl'[k]] = "PG_VALID"
      BY DEF MappingConsistent
    <2>1. CASE k = l
      BY <1>6, <2>1
    <2>2. CASE k # l
      BY <1>1, <1>2, <1>6, <2>2 DEF MapInv, MappingConsistent
    <2> QED
      BY <2>1, <2>2
  <1>10. NoOrphan'
    <2> SUFFICES ASSUME NEW p \in Ppa, pg_status'[p] = "PG_VALID", ~Passed(p)'
                 PROVE  rmap'[p] \in Lpn /\ maptbl'[rmap'[p]] = p
      BY DEF NoOrphan
    <2>1. CASE p = ppa
      BY <1>5, <1>6, <2>1
    <2>2. CASE p # ppa
      <3>1. rmap[p] \in Lpn /\ maptbl[rmap[p]] = p /\ p # old
        BY <1>1, <1>6, <1>8, <2>2 DEF MapInv, NoOrphan
      <3>2. rmap[p] # l
        BY <1>5, <3>1
      <3> QED
        BY <1>6, <2>2, <3>1, <3>2
    <2> QED
      BY <2>1, <2>2
  <1>11. pc' = "gc_page" => \A p \in Ppa, k \in Lpn : Passed(p)' => maptbl'[k] # p
    <2> SUFFICES ASSUME NEW p \in Ppa, NEW k \in Lpn, Passed(p)', maptbl'[k] = p
                 PROVE  FALSE
      OBVIOUS
    <2>1. Passed(p) \/ p = old
      BY <1>8
    <2>2. p # ppa
      <3>1. ppa.blk = wp.curline /\ wp.curline \in Line
        BY <1>2, NewPage
      <3>2. wp.curline # gc.victim
        BY <3>1 DEF FtlInv, LinesInv
      <3> QED
        BY <1>4, <2>1, <3>1, <3>2 DEF Passed
    <2>3. k # l /\ maptbl[k] = p
      BY <1>6, <2>2
    <2>4. p = old
      BY <1>1, <1>2, <2>1, <2>3 DEF MapInv
    <2>5. rmap[old] = k
      BY <1>1, <1>2, <1>4, <2>3, <2>4, NullAssumption DEF MapInv, MappingConsistent
    <2> QED
      BY <2>3, <2>5
  <1> QED
    BY <1>3, <1>5, <1>7, <1>9, <1>10, <1>11 DEF MapInv

-----------------------------------------------------------------------------
(* A page is invalidated *)

LEMMA InvalidateInv ==
  ASSUME FtlInv, InvalidateOld
  PROVE  LinesInv' /\ PagesInv' /\ MapInv'
  <1>1. /\ TypeInv /\ TypeOK /\ Cursors /\ LinesInv /\ PagesInv /\ MapInv
        /\ maptbl \in [Lpn -> Ppa \union {UNMAPPED_PPA}] /\ lpn \in Lpn
        /\ rmap \in [Ppa -> Lpn \union {INVALID_LPN}]
        /\ pg_status \in [Ppa -> PageStatus]
        /\ line_vpc \in [Line -> Int]
        /\ victim_line_pq \subseteq Line /\ full_line_list \subseteq Line
    BY DEF FtlInv, TypeInv, TypeOK
  <1>2. /\ pc = "invalidate" /\ pc' = "program" /\ gc = NoGc
        /\ UNCHANGED <<maptbl, wp, lpn, end_lpn, gc>>
    BY <1>1 DEF InvalidateOld, Cursors
  <1>3. wp.curline = wp.blk /\ wp.blk \in Line
    BY <1>1, <1>2 DEF Cursors, TypeOK
  <1>4. \A p \in Ppa : ~Passed(p) /\ ~Passed(p)'
    <2>1. \A p \in Ppa : p.blk # NULL
      BY NullAssumption DEF Ppa
    <2> QED
      BY <1>2, <2>1 DEF Passed, NoGc
  <1>5. CASE maptbl[lpn] = UNMAPPED_PPA
    <2>1. UNCHANGED <<rmap, pg_status, line_vpc, free_line_list, victim_line_pq, full_line_list>>
      BY <1>5 DEF InvalidateOld, pageVars, lineVars, listVars
    <2>2. FreeLines' = FreeLines
      BY <2>1 DEF FreeLines
    <2>3. LinesInv'
      BY <1>1, <1>2, <2>1, <2>2 DEF LinesInv
    <2>4. PagesInv'
      BY <1>1, <1>2, <2>1, <2>2 DEF PagesInv
    <2>5. MapInv'
      BY <1>1, <1>2, <1>4, <1>5, <2>1 DEF MapInv, MappingConsistent, NoOrphan
    <2> QED
      BY <2>3, <2>4, <2>5
  <1>6. CASE maptbl[lpn] # UNMAPPED_PPA
    <2> DEFINE old == maptbl[lpn]
               line == old.blk
    <2>1. old \in Ppa /\ line \in Line /\ rmap[old] = lpn /\ pg_status[old] = "PG_VALID"
      BY <1>1, <1>2, <1>6 DEF MapInv, MappingConsistent, Ppa
    <2>2. /\ mark_page_invalid(old)
          /\ rmap' = [rmap EXCEPT ![old] = INVALID_LPN]
      BY <1>6 DEF InvalidateOld, set_rmap_ent
    <2>3. /\ pg_status'[old] = "PG_INVALID" /\ rmap'[old] = INVALID_LPN
          /\ \A p \in Ppa : p # old => pg_status'[p] = pg_status[p] /\ rmap'[p] = rmap[p]
      <3>1. pg_status' = [pg_status EXCEPT ![old] = "PG_INVALID"]
        BY <2>2 DEF mark_page_invalid
      <3> QED
        BY <1>1, <2>1, <2>2, <3>1
    <2>4. /\ line_vpc'[line] = line_vpc[line] - 1
          /\ \A k \in Line : k # line => line_vpc'[k] = line_vpc[k]
          /\ line_vpc[line] \in Int
      <3>1. line_vpc' = [line_vpc EXCEPT ![line] = @ - 1]
        BY <2>2 DEF mark_page_invalid
      <3> QED
        BY <1>1, <2>1, <3>1
    <2>5. line \notin FreeLines /\ line # gc.victim
      <3>1. gc.victim = NULL
        BY <1>2 DEF NoGc
      <3> QED
        BY <1>1, <2>1, <3>1, NullAssumption DEF PagesInv
    <2>6. /\ FreeLines' = FreeLines /\ free_line_list' = free_line_list
          /\ Idx(wp) \in Nat /\ Idx(wp) < pgs_per_line /\ pgs_per_line \in Nat
      <3>1. free_line_list' = free_line_list
        BY <2>2 DEF mark_page_invalid
      <3> QED
        BY <1>1, <3>1, IdxRange, Sizes DEF FreeLines
    <2>7. \/ /\ line \in full_line_list /\ line_vpc[line] = pgs_per_line
             /\ full_line_list' = full_line_list \ {line}
             /\ victim_line_pq' = victim_line_pq \union {line}
          \/ /\ line \notin full_line_list /\ line_vpc[line] # pgs_per_line
             /\ full_line_list' = full_line_list /\ victim_line_pq' = victim_line_pq
      <3>1. CASE line_vpc[line] = pgs_per_line
        <4>1. FullToVictim(line)
          BY <2>2, <3>1 DEF mark_page_invalid
        <4>2. line # wp.curline /\ line \notin victim_line_pq
          BY <1>1, <2>1, <2>4, <2>6, <3>1 DEF LinesInv
        <4>3. line \in full_line_list
          BY <1>1, <2>1, <2>5, <4>2 DEF LinesInv
        <4> QED
          BY <3>1, <4>1, <4>3 DEF FullToVictim
      <3>2. CASE line_vpc[line] # pgs_per_line
        <4>1. full_line_list' = full_line_list /\ victim_line_pq' = victim_line_pq
          BY <2>2, <3>2 DEF mark_page_invalid
        <4> QED
          BY <1>1, <3>2, <4>1 DEF LinesInv
      <3> QED
        BY <3>1, <3>2
    <2>8. LinesInv'
      <3>1. \A l \in FreeLines : l # line
        BY <2>5
      <3>2. wp'.curline = wp.curline /\ gc'.victim = gc.victim /\ Idx(wp') = Idx(wp)
        BY <1>2
      <3>3. FreeLines \subseteq Line
        BY <1>1 DEF TypeOK, FreeLines
      <3>4. CASE line \in full_line_list
        <4>1. line # wp.curline
          BY <1>1, <3>4 DEF LinesInv
        <4> QED
          BY <1>1, <1>3, <2>1, <2>4, <2>5, <2>6, <2>7, <3>1, <3>2, <3>3, <3>4, <4>1 DEF LinesInv
      <3>5. CASE line \notin full_line_list
        BY <1>1, <1>3, <2>1, <2>4, <2>5, <2>6, <2>7, <3>1, <3>2, <3>3, <3>5 DEF LinesInv
      <3> QED
        BY <3>4, <3>5
    <2>9. PagesInv'
      <3>1. \A p \in Ppa : pg_status'[p] = "PG_FREE" <=> pg_status[p] = "PG_FREE"
        BY <2>1, <2>3
      <3>2. victim_line_pq' \union full_line_list' \subseteq victim_line_pq \union full_line_list
        BY <2>7
      <3> QED
        BY <1>1, <1>2, <2>6, <3>1, <3>2 DEF PagesInv
    <2>10. MapInv'
      <3>1. MappingConsistent'
        <4> SUFFICES ASSUME NEW k \in Lpn, maptbl[k] # UNMAPPED_PPA, k # lpn
                     PROVE  rmap'[maptbl[k]] = k /\ pg_status'[maptbl[k]] = "PG_VALID"
          BY <1>2 DEF MappingConsistent
        <4>1. rmap[maptbl[k]] = k /\ pg_status[maptbl[k]] = "PG_VALID" /\ maptbl[k] \in Ppa
          BY <1>1, <1>2 DEF MapInv, MappingConsistent
        <4> QED
          BY <2>1, <2>3, <4>1
      <3>2. NoOrphan'
        BY <1>1, <1>2, <1>4, <2>3 DEF MapInv, NoOrphan
      <3> QED
        BY <1>2, <2>3, <3>1, <3>2 DEF MapInv
    <2> QED
      BY <2>8, <2>9, <2>10
  <1> QED
    BY <1>5, <1>6

-----------------------------------------------------------------------------
(* Cleaning *)

LEMMA SelectInv ==
  ASSUME FtlInv, NEW force, NEW ret, select_victim_line(force, ret),
         pc \in {"gc_high", "check_gc"},
         UNCHANGED <<mapVars, pageVars, line_ipc, line_vpc, wp, lpn, end_lpn>>
  PROVE  LinesInv' /\ PagesInv' /\ MapInv'
  <1>1. /\ TypeOK /\ Cursors /\ LinesInv /\ PagesInv /\ MapInv
        /\ victim_line_pq \subseteq Line
    BY DEF FtlInv, TypeInv, TypeOK
  <1>2. PICK v \in PeekVictim :
          /\ victim_line_pq' = victim_line_pq \ {v}
          /\ gc' = [victim |-> v, ch |-> 0, lun |-> 0, pg |-> 0, ret |-> ret]
          /\ pc' = "gc_page"
          /\ UNCHANGED <<free_line_list, full_line_list>>
    BY DEF select_victim_line
  <1>3. v \in victim_line_pq /\ v \in Line
    BY <1>1 DEF PeekVictim
  <1>4. /\ UNCHANGED <<maptbl, rmap, pg_status, line_vpc, wp>>
        /\ FreeLines' = FreeLines
    BY <1>2 DEF mapVars, pageVars, FreeLines
  <1>5. gc.victim = NULL /\ gc'.victim = v /\ gc'.ch = 0 /\ gc'.lun = 0 /\ gc'.pg = 0
        /\ NULL \notin Line
    BY <1>1, <1>2, NullAssumption DEF Cursors, NoGc
  <1>6. LinesInv'
    <2>1. \A l \in FreeLines : l \in Line /\ l # v
      BY <1>1, <1>3 DEF TypeOK, FreeLines, LinesInv
    <2> QED
      BY <1>1, <1>2, <1>3, <1>4, <1>5, <2>1 DEF LinesInv
  <1>7. PagesInv'
    <2>1. \A p \in Ppa : ~(Erased(p)')
      BY <1>5 DEF Erased, Ppa, Ch, Lun
    <2> QED
      BY <1>1, <1>2, <1>3, <1>4, <1>5, <2>1 DEF PagesInv
  <1>8. MapInv'
    <2>1. \A p \in Ppa : ~Passed(p) /\ ~(Passed(p)')
      BY <1>5 DEF Passed, Ppa, Pg
    <2> QED
      BY <1>1, <1>2, <1>4, <2>1 DEF MapInv, MappingConsistent, NoOrphan
  <1> QED
    BY <1>6, <1>7, <1>8

LEMMA SkipInv ==
  ASSUME FtlInv, GcSkipPage
  PROVE  LinesInv' /\ PagesInv' /\ MapInv'
  <1>1. /\ TypeOK /\ Cursors /\ LinesInv /\ PagesInv /\ MapInv /\ gc \in GcType
    BY DEF FtlInv, TypeInv, TypeOK, GcType
  <1>2. /\ pc = "gc_page" /\ pc' = pc /\ pg_status[GcPpa] # "PG_VALID"
        /\ gc' = [gc EXCEPT !.pg = @ + 1]
        /\ UNCHANGED <<maptbl, rmap, pg_status, line_vpc, free_line_list, victim_line_pq,
                       full_line_list, wp, lpn, end_lpn>>
    BY DEF GcSkipPage, mapVars, pageVars, lineVars, listVars
  <1>3. /\ gc'.victim = gc.victim /\ gc'.ch = gc.ch /\ gc'.lun = gc.lun /\ gc'.pg = gc.pg + 1
        /\ gc.pg \in Nat
    BY <1>1, <1>2, GeometryAssumption DEF GcType
  <1>4. FreeLines' = FreeLines
    BY <1>2 DEF FreeLines
  <1>5. LinesInv'
    BY <1>1, <1>2, <1>3, <1>4 DEF LinesInv
  <1>6. PagesInv'
    <2>1. \A p \in Ppa : Erased(p)' <=> Erased(p)
      BY <1>3 DEF Erased
    <2> QED
      BY <1>1, <1>2, <1>3, <1>4, <2>1 DEF PagesInv
  <1>7. MapInv'
    <2>1. \A p \in Ppa : Passed(p)' <=> (Passed(p) \/ p = GcPpa)
      <3>1. \A p \in Ppa : p.pg < gc.pg + 1 <=> p.pg < gc.pg \/ p.pg = gc.pg
        BY <1>3 DEF Ppa, Pg
      <3>2. \A p \in Ppa : p.blk = gc.victim /\ p.ch = gc.ch /\ p.lun = gc.lun /\ p.pg = gc.pg
              <=> p = GcPpa
        BY DEF Ppa, GcPpa
      <3> QED
        BY <1>2, <1>3, <3>1, <3>2 DEF Passed
    <2>2. MappingConsistent'
      BY <1>1, <1>2 DEF MapInv, MappingConsistent
    <2>3. NoOrphan'
      BY <1>1, <1>2, <2>1 DEF MapInv, NoOrphan
    <2>4. \A p \in Ppa, l \in Lpn : Passed(p)' => maptbl[l] # p
      <3> SUFFICES ASSUME NEW p \in Ppa, NEW l \in Lpn, Passed(p)', maptbl[l] = p
                   PROVE  FALSE
        OBVIOUS
      <3>1. CASE Passed(p)
        BY <1>1, <1>2, <3>1 DEF MapInv
      <3>2. CASE p = GcPpa
        BY <1>1, <1>2, <3>2, NullAssumption DEF MapInv, MappingConsistent
      <3> QED
        BY <2>1, <3>1, <3>2
    <2> QED
      BY <1>2, <2>2, <2>3, <2>4 DEF MapInv
  <1> QED
    BY <1>5, <1>6, <1>7

LEMMA EraseInv ==
  ASSUME FtlInv, GcEraseBlock
  PROVE  /\ LinesInv' /\ PagesInv' /\ MapInv'
         /\ \A p \in Ppa, l \in Lpn :
              p.ch = gc.ch /\ p.lun = gc.lun /\ p.blk = gc.victim => maptbl[l] # p
  <1>1. /\ TypeOK /\ Cursors /\ LinesInv /\ PagesInv /\ MapInv /\ gc \in GcType
    BY DEF FtlInv, TypeInv, TypeOK, GcType
  <1> DEFINE Here(p) == p.ch = gc.ch /\ p.lun = gc.lun /\ p.blk = gc.victim
  <1>2. /\ pc = "gc_page" /\ gc.pg >= pgs_per_blk /\ gc.victim \in Line
        /\ mark_block_free([ch |-> gc.ch, lun |-> gc.lun, blk |-> gc.victim])
        /\ UNCHANGED <<maptbl, rmap, line_vpc, free_line_list, victim_line_pq,
                       full_line_list, wp, lpn, end_lpn>>
    BY <1>1 DEF GcEraseBlock, BlockCleaned, Cursors, mapVars, lineVars, listVars
  <1>3. /\ gc.ch \in 0 .. nchs - 1 /\ gc.lun \in 0 .. luns_per_ch - 1 /\ gc.pg \in 0 .. pgs_per_blk
        /\ nchs \in Nat /\ luns_per_ch \in Nat /\ pgs_per_blk \in Nat
    BY <1>1, GeometryAssumption DEF GcType, Ch, Lun
  <1>4. \A p \in Ppa : p.ch \in 0 .. nchs - 1 /\ p.lun \in 0 .. luns_per_ch - 1
                      /\ p.pg \in 0 .. pgs_per_blk - 1
    BY DEF Ppa, Ch, Lun, Pg
  <1>5. \A p \in Ppa : pg_status'[p] = IF Here(p) THEN "PG_FREE" ELSE pg_status[p]
    BY <1>2 DEF mark_block_free, BlockOf
  <1>6. \/ /\ gc.lun + 1 < luns_per_ch /\ pc' = "gc_page"
           /\ gc'.victim = gc.victim /\ gc'.ch = gc.ch /\ gc'.lun = gc.lun + 1 /\ gc'.pg = 0
        \/ /\ gc.lun + 1 = luns_per_ch /\ pc' = "gc_page"
           /\ gc'.victim = gc.victim /\ gc'.ch = gc.ch + 1 /\ gc'.lun = 0 /\ gc'.pg = 0
        \/ /\ gc.lun + 1 = luns_per_ch /\ gc.ch + 1 = nchs
           /\ pc' = "gc_free_line" /\ gc' = gc
    BY <1>1, <1>2 DEF GcEraseBlock, GcType
  <1>7. FreeLines' = FreeLines /\ gc'.victim = gc.victim
    BY <1>2, <1>6 DEF FreeLines
  <1>8. \A p \in Ppa, l \in Lpn : Here(p) => maptbl[l] # p
    <2>1. \A p \in Ppa : Here(p) => Passed(p)
      BY <1>2, <1>3, <1>4 DEF Passed
    <2> QED
      BY <1>1, <1>2, <2>1 DEF MapInv
  <1>9. LinesInv'
    BY <1>1, <1>2, <1>7 DEF LinesInv
  <1>10. PagesInv'
    <2>1. gc.victim \notin FreeLines /\ gc.victim \notin victim_line_pq
          /\ gc.victim \notin full_line_list /\ gc.victim # wp.curline
      BY <1>1, <1>2 DEF LinesInv
    <2>2. pc' = "gc_page" =>
            \A p \in Ppa : p.blk = gc.victim => (Erased(p)' <=> Erased(p) \/ Here(p))
      BY <1>3, <1>4, <1>6 DEF Erased
    <2>3. pc' = "gc_page" =>
            \A p \in Ppa : p.blk = gc.victim => (pg_status'[p] = "PG_FREE" <=> Erased(p)')
      BY <1>1, <1>2, <1>5, <2>2 DEF PagesInv
    <2>4. pc' = "gc_free_line" =>
            \A p \in Ppa : p.blk = gc.victim => pg_status'[p] = "PG_FREE"
      <3>1. ASSUME pc' = "gc_free_line", NEW p \in Ppa, p.blk = gc.victim
            PROVE  Erased(p) \/ Here(p)
        BY <1>3, <1>4, <1>6, <3>1 DEF Erased
      <3> QED
        BY <1>1, <1>2, <1>5, <3>1 DEF PagesInv
    <2> QED
      BY <1>1, <1>2, <1>5, <1>7, <2>1, <2>3, <2>4 DEF PagesInv
  <1>11. MapInv'
    <2>1. \A p \in Ppa : ~(Passed(p)')
      BY <1>4, <1>6 DEF Passed
    <2>2. MappingConsistent'
      <3> SUFFICES ASSUME NEW l \in Lpn, maptbl[l] # UNMAPPED_PPA
                   PROVE  rmap[maptbl[l]] = l /\ pg_status'[maptbl[l]] = "PG_VALID"
        BY <1>2 DEF MappingConsistent
      <3>1. maptbl[l] \in Ppa
        BY <1>1 DEF TypeOK
      <3>2. rmap[maptbl[l]] = l /\ pg_status[maptbl[l]] = "PG_VALID"
        BY <1>1, <1>2 DEF MapInv, MappingConsistent
      <3> QED
        BY <1>5, <1>8, <3>1, <3>2
    <2>3. NoOrphan'
      <3>1. \A p \in Ppa : Passed(p) => Here(p)
        BY DEF Passed
      <3> QED
        BY <1>1, <1>2, <1>5, <3>1 DEF MapInv, NoOrphan
    <2>4. pc' # "program"
      BY <1>6
    <2> QED
      BY <2>1, <2>2, <2>3, <2>4 DEF MapInv
  <1> QED
    BY <1>8, <1>9, <1>10, <1>11

LEMMA FreeLineInv ==
  ASSUME FtlInv, GcFreeLine
  PROVE  LinesInv' /\ PagesInv' /\ MapInv'
  <1>1. /\ TypeOK /\ Cursors /\ LinesInv /\ PagesInv /\ MapInv
        /\ line_vpc \in [Line -> Int] /\ free_line_list \in Seq(Line)
        /\ gc.ret \in {"idle", "gc_high"}
    BY DEF FtlInv, TypeInv, TypeOK
  <1> DEFINE v == gc.victim
  <1>2. /\ pc = "gc_free_line" /\ v \in Line /\ pc' \in {"idle", "gc_high"}
        /\ gc'.victim = NULL /\ NULL \notin Line
        /\ line_vpc' = [line_vpc EXCEPT ![v] = 0]
        /\ free_line_list' = Append(free_line_list, v)
        /\ UNCHANGED <<maptbl, rmap, pg_status, victim_line_pq, full_line_list, wp>>
    BY <1>1, NullAssumption DEF GcFreeLine, Cursors, NoGc, mapVars, pageVars
  <1>3. /\ v \notin FreeLines /\ v \notin victim_line_pq /\ v \notin full_line_list
        /\ v # wp.curline
    BY <1>1, <1>2 DEF LinesInv
  <1>4. FreeLines' = FreeLines \union {v} /\ Distinct(free_line_list')
    <2>1. Distinct(free_line_list)
      BY <1>1 DEF LinesInv
    <2>2. FreeLines' = Elems(free_line_list')
      BY DEF FreeLines, Elems
    <2> QED
      BY <1>1, <1>2, <1>3, <2>1, <2>2, AppendElems, FreeIsElems
  <1>5. line_vpc'[v] = 0 /\ \A k \in Line : k # v => line_vpc'[k] = line_vpc[k]
    BY <1>1, <1>2
  <1>6. /\ FreeLines \subseteq Line /\ victim_line_pq \subseteq Line /\ full_line_list \subseteq Line
    BY <1>1 DEF TypeOK, FreeLines
  <1>7. LinesInv'
    BY <1>1, <1>2, <1>3, <1>4, <1>5, <1>6 DEF LinesInv
  <1>8. PagesInv'
    BY <1>1, <1>2, <1>4 DEF PagesInv
  <1>9. MapInv'
    <2>1. \A p \in Ppa : ~Passed(p) /\ ~(Passed(p)')
      BY <1>2 DEF Passed
    <2> QED
      BY <1>1, <1>2, <2>1 DEF MapInv, MappingConsistent, NoOrphan
  <1> QED
    BY <1>7, <1>8, <1>9

(* A step that only moves the control point outside cleaning and away from  *)
(* the middle of a write keeps the invariant.                               *)
LEMMA ControlInv ==
  ASSUME FtlInv,
         pc \in {"idle", "gc_high", "check_gc"},
         pc' \in {"idle", "gc_high", "invalidate", "check_gc"},
         UNCHANGED <<mapVars, pageVars, lineVars, listVars, wp, gc>>
  PROVE  LinesInv' /\ PagesInv' /\ MapInv'
  <1>1. LinesInv /\ PagesInv /\ MapInv /\ Cursors
    BY DEF FtlInv, TypeInv
  <1>2. /\ UNCHANGED <<maptbl, rmap, pg_status, line_vpc, free_line_list, victim_line_pq,
                       full_line_list, wp, gc>>
        /\ FreeLines' = FreeLines
    BY DEF mapVars, pageVars, lineVars, listVars, FreeLines
  <1>3. LinesInv'
    BY <1>1, <1>2 DEF LinesInv
  <1>4. PagesInv'
    BY <1>1, <1>2 DEF PagesInv
  <1>5. \A p \in Ppa : ~Passed(p) /\ ~(Passed(p)')
    BY DEF Passed
  <1>6. MapInv'
    BY <1>1, <1>2, <1>5 DEF MapInv, MappingConsistent, NoOrphan
  <1> QED
    BY <1>3, <1>4, <1>6

LEMMA FtlNext == FtlInv /\ [Next]_vars => FtlInv'
  <1> SUFFICES ASSUME FtlInv, [Next]_vars PROVE FtlInv'
    OBVIOUS
  <1>0. TypeInv' /\ TypeInv
    BY TypeNext DEF FtlInv
  <1> SUFFICES LinesInv' /\ PagesInv' /\ MapInv'
    BY <1>0 DEF FtlInv
  <1>1. ASSUME NEW first \in HostLpns, NEW last \in HostLpns, StartWrite(first, last)
        PROVE  LinesInv' /\ PagesInv' /\ MapInv'
    BY <1>1, ControlInv DEF StartWrite
  <1>2. CASE GcHighStep
    BY <1>2, SelectInv DEF GcHighStep
  <1>3. CASE GcHighLeave
    BY <1>3, ControlInv DEF GcHighLeave
  <1>4. CASE InvalidateOld
    BY <1>4, InvalidateInv
  <1>5. CASE WriteNew
    <2>1. /\ pc = "program" /\ gc' = gc
          /\ \E next \in {"invalidate", "check_gc"} : ProgramPage(lpn, next)
      BY <1>5 DEF WriteNew
    <2>2. PICK next \in {"invalidate", "check_gc"} : ProgramPage(lpn, next)
      BY <2>1
    <2> QED
      BY <1>5, <2>1, <2>2, ProgramLines, ProgramPages, WriteMap
  <1>6. CASE CheckGcRun
    BY <1>6, SelectInv DEF CheckGcRun
  <1>7. CASE CheckGcSkip
    BY <1>7, ControlInv DEF CheckGcSkip
  <1>8. CASE GcMovePage
    <2>1. pc = "gc_page" /\ ProgramPage(rmap[GcPpa], "gc_page")
      BY <1>8 DEF GcMovePage
    <2> QED
      BY <1>8, <2>1, MoveMap, ProgramLines, ProgramPages
  <1>9. CASE GcSkipPage
    BY <1>9, SkipInv
  <1>10. CASE GcEraseBlock
    BY <1>10, EraseInv
  <1>11. CASE GcFreeLine
    BY <1>11, FreeLineInv
  <1>12. CASE UNCHANGED vars
    <2>1. LinesInv /\ PagesInv /\ MapInv
      BY DEF FtlInv
    <2>2. /\ UNCHANGED <<maptbl, rmap, pg_status, line_vpc, free_line_list, victim_line_pq,
                         full_line_list, wp, pc, lpn, gc>>
          /\ FreeLines' = FreeLines
      BY <1>12 DEF vars, FreeLines
    <2>3. LinesInv'
      BY <2>1, <2>2 DEF LinesInv
    <2>4. PagesInv'
      BY <2>1, <2>2 DEF PagesInv, Erased
    <2>5. MapInv'
      BY <2>1, <2>2 DEF MapInv, MappingConsistent, NoOrphan, Passed
    <2> QED
      BY <2>3, <2>4, <2>5
  <1> QED
    BY <1>1, <1>2, <1>3, <1>4, <1>5, <1>6, <1>7, <1>8, <1>9, <1>10, <1>11, <1>12
       DEF Next, HostWrite, FtlStep

LEMMA FtlInvariant == Spec => []FtlInv
  BY FtlInit, FtlNext, PTL DEF Spec

-----------------------------------------------------------------------------
(* The theorems *)

(* Whatever the host writes and whenever cleaning runs, the page a logical  *)
(* page is mapped to is valid and belongs to that logical page alone: no    *)
(* write and no copy of a cleaner ever lands on live data (ftl.c, ssd_write *)
(* and gc_write_page).                                                      *)
THEOREM MappingSafe == Spec => []MappingConsistent
  <1>1. FtlInv => MappingConsistent
    BY DEF FtlInv, MapInv
  <1> QED
    BY <1>1, FtlInvariant, PTL

(* No page stays valid after its logical page has moved on, but for the     *)
(* copies cleaning is about to erase: invalid space is never lost to it.    *)
THEOREM OrphanFree == Spec => []NoOrphan
  <1>1. FtlInv => NoOrphan
    BY DEF FtlInv, MapInv
  <1> QED
    BY <1>1, FtlInvariant, PTL

-----------------------------------------------------------------------------
(* Refinement *)

Programmed == {p \in Ppa : pg_status[p] # "PG_FREE"}

(* Writing the page under the pointer is a Program step of NandFlash.       *)
LEMMA ProgramRefines ==
  ASSUME FtlInv, pc # "oops", NEW l \in Lpn, NEW next, ProgramPage(l, next)
  PROVE  Nand!Next
  <1> DEFINE ppa == get_new_page
  <1>1. /\ ppa \in Ppa /\ ppa.blk = wp.curline /\ At(wp, ppa) /\ pg_status[ppa] = "PG_FREE"
    BY NewPage
  <1>2. /\ maptbl' = [maptbl EXCEPT ![l] = ppa]
        /\ pg_status' = [pg_status EXCEPT ![ppa] = "PG_VALID"]
        /\ pg_status \in [Ppa -> PageStatus]
    BY DEF ProgramPage, mark_page_valid, FtlInv, TypeInv, TypeOK
  <1>3. Programmed' = Programmed \union {ppa}
    BY <1>1, <1>2 DEF Programmed
  <1>4. \A q \in Nand!InBlock(ppa) : q.pg < ppa.pg => q \in Programmed
    <2> SUFFICES ASSUME NEW q \in Ppa, q.blk = ppa.blk, q.pg < ppa.pg
                 PROVE  pg_status[q] # "PG_FREE"
      BY DEF Nand!InBlock, Programmed
    <2>1. Before(wp, q)
      BY <1>1 DEF Before, At
    <2> QED
      BY <1>1, <2>1 DEF FtlInv, PagesInv
  <1>5. Nand!Program(l, ppa)
    BY <1>1, <1>2, <1>3, <1>4 DEF Nand!Program, Programmed
  <1> QED
    BY <1>1, <1>5 DEF Nand!Next, Nand!Program

(* The flash translation layer keeps its promise to the host and to the     *)
(* NAND array: a written page is always found, pages are programmed only    *)
(* when erased and in order, and no block is erased while data lives in it. *)
THEOREM FtlImplementsNandFlash == Spec => NandSpec
  <1>1. Init => Nand!Init
    BY DEF Init, ssd_init_nand, ssd_init_maptbl, ssd_init_rmap,
             ssd_init_lines, ssd_init_write_pointer, Nand!Init
  <1>2. FtlInv /\ [Next]_vars => [Nand!Next]_<<maptbl, Programmed>>
    <2> SUFFICES ASSUME FtlInv, [Next]_vars
                 PROVE  Nand!Next \/ UNCHANGED <<maptbl, Programmed>>
      OBVIOUS
    <2>1. ASSUME UNCHANGED <<maptbl, pg_status>>
          PROVE  UNCHANGED <<maptbl, Programmed>>
      BY <2>1 DEF Programmed
    <2>2. ASSUME NEW first \in HostLpns, NEW last \in HostLpns, StartWrite(first, last)
          PROVE  UNCHANGED <<maptbl, Programmed>>
      BY <2>1, <2>2 DEF StartWrite, mapVars, pageVars
    <2>3. CASE GcHighStep
      BY <2>1, <2>3 DEF GcHighStep, mapVars, pageVars
    <2>4. CASE GcHighLeave
      BY <2>1, <2>4 DEF GcHighLeave, mapVars, pageVars
    <2>5. CASE InvalidateOld
      <3>1. maptbl' = maptbl
        BY <2>5 DEF InvalidateOld
      <3>2. CASE maptbl[lpn] = UNMAPPED_PPA
        BY <2>1, <2>5, <3>1, <3>2 DEF InvalidateOld, pageVars
      <3>3. CASE maptbl[lpn] # UNMAPPED_PPA
        <4>1. /\ maptbl[lpn] \in Ppa /\ pg_status[maptbl[lpn]] = "PG_VALID"
              /\ pg_status \in [Ppa -> PageStatus]
          BY <2>5, <3>3 DEF FtlInv, TypeInv, TypeOK, MapInv, MappingConsistent, InvalidateOld
        <4>2. pg_status' = [pg_status EXCEPT ![maptbl[lpn]] = "PG_INVALID"]
          BY <2>5, <3>3 DEF InvalidateOld, mark_page_invalid
        <4>3. Programmed' = Programmed
          BY <4>1, <4>2 DEF Programmed
        <4> QED
          BY <3>1, <4>3
      <3> QED
        BY <3>2, <3>3
    <2>6. CASE WriteNew
      <3>1. pc = "program" /\ \E next \in {"invalidate", "check_gc"} : ProgramPage(lpn, next)
        BY <2>6 DEF WriteNew
      <3>2. lpn \in Lpn
        BY DEF FtlInv, TypeInv, TypeOK
      <3> QED
        BY <3>1, <3>2, ProgramRefines
    <2>7. CASE CheckGcRun
      BY <2>1, <2>7 DEF CheckGcRun, mapVars, pageVars
    <2>8. CASE CheckGcSkip
      BY <2>1, <2>8 DEF CheckGcSkip, mapVars, pageVars
    <2>9. CASE GcMovePage
      <3>1. pc = "gc_page" /\ ProgramPage(rmap[GcPpa], "gc_page")
        BY <2>9 DEF GcMovePage
      <3> QED
        BY <2>9, <3>1, MoveMap, ProgramRefines
    <2>10. CASE GcSkipPage
      BY <2>1, <2>10 DEF GcSkipPage, mapVars, pageVars
    <2>11. CASE GcEraseBlock
      <3>1. PICK b : /\ b = [ch |-> gc.ch, lun |-> gc.lun, blk |-> gc.victim]
                     /\ mark_block_free(b) /\ maptbl' = maptbl
        BY <2>11 DEF GcEraseBlock, mapVars
      <3>2. b \in Block /\ b.ch = gc.ch /\ b.lun = gc.lun /\ b.blk = gc.victim
        <4>1. gc \in GcType /\ gc.victim \in Line
          BY <2>11 DEF FtlInv, TypeInv, TypeOK, Cursors, GcType, GcEraseBlock
        <4> QED
          BY <3>1, <4>1 DEF GcType, Block
      <3>3. \A l \in Lpn : maptbl[l] \notin Nand!InBlock(b)
        BY <2>11, <3>2, EraseInv DEF Nand!InBlock
      <3>4. Programmed' = Programmed \ Nand!InBlock(b)
        <4>1. \A p \in Ppa : BlockOf(p) = b <=> p \in Nand!InBlock(b)
          BY <3>1, <3>2 DEF BlockOf, Nand!InBlock
        <4>2. \A p \in Ppa : pg_status'[p] = IF BlockOf(p) = b THEN "PG_FREE" ELSE pg_status[p]
          BY <3>1 DEF mark_block_free
        <4> QED
          BY <4>1, <4>2 DEF Programmed
      <3>5. Nand!Erase(b)
        BY <3>1, <3>3, <3>4 DEF Nand!Erase, Programmed
      <3> QED
        BY <3>2, <3>5 DEF Nand!Next
    <2>12. CASE GcFreeLine
      BY <2>1, <2>12 DEF GcFreeLine, mapVars, pageVars
    <2>13. CASE UNCHANGED vars
      BY <2>1, <2>13 DEF vars
    <2> QED
      BY <2>2, <2>3, <2>4, <2>5, <2>6, <2>7, <2>8, <2>9, <2>10, <2>11, <2>12, <2>13
         DEF Next, HostWrite, FtlStep
  <1> QED
    BY <1>1, <1>2, FtlInvariant, PTL DEF Spec, NandSpec, Nand!Spec, Programmed

=============================================================================
